----------------------------- MODULE VlkGarbage -----------------------------
(***************************************************************************)
(* The collector of Vulkan objects (vulkan/VlkGarbage.cpp): objects that   *)
(* the GPU may still use are handed over with a fence, and a thread of its *)
(* own destroys them once the fence is signaled.                           *)
(*                                                                         *)
(* m_garbage maps every fence to the objects that wait for it, none for a  *)
(* fence without an entry.  The reaper holds m_lock from the test of its   *)
(* wait predicate until it blocks, sleeps, or destroys what it has taken.  *)
(* Who signals and resets the fences is the business of the module that    *)
(* uses this one.                                                          *)
(***************************************************************************)
EXTENDS Naturals

CONSTANTS Fences, Objects

VARIABLES
    signaled,       \* state of each fence
    m_garbage,      \* objects that wait for each fence
    m_shutdown,
    reaper,         \* where the reaper stands
    tmp,            \* objects taken out by this pass
    destroyed       \* objects the collector has let go of

GarbageTypeOK ==
    /\ signaled \in [Fences -> BOOLEAN]
    /\ m_garbage \in [Fences -> SUBSET Objects]
    /\ m_shutdown \in BOOLEAN
    /\ reaper \in {"wait", "block", "blocked", "reap", "destroy", "sleep", "exited"}
    /\ tmp \subseteq Objects
    /\ destroyed \subseteq Objects

GarbageInit ==
    /\ signaled = [f \in Fences |-> TRUE]
    /\ m_garbage = [f \in Fences |-> {}]
    /\ m_shutdown = FALSE
    /\ reaper = "wait"
    /\ tmp = {}
    /\ destroyed = {}

Entries == {f \in Fences : m_garbage[f] # {}}

LockFree == reaper \notin {"block", "reap"}

Notify == reaper' = IF reaper \in {"blocked", "sleep"} THEN "wait" ELSE reaper

-----------------------------------------------------------------------------
(* Calls of other threads.                                                 *)

RecycleNoNotify(f, objects) ==
    /\ LockFree
    /\ m_garbage' = [m_garbage EXCEPT ![f] = @ \cup objects]
    /\ UNCHANGED <<m_shutdown, reaper, tmp, destroyed>>

Recycle(f, objects) ==
    /\ LockFree
    /\ m_garbage' = [m_garbage EXCEPT ![f] = @ \cup objects]
    /\ Notify
    /\ UNCHANGED <<m_shutdown, tmp, destroyed>>

\* The destructor stores m_shutdown and notifies, both without m_lock.
StoreShutdown ==
    /\ m_shutdown' = TRUE
    /\ UNCHANGED <<m_garbage, reaper, tmp, destroyed>>

NotifyShutdown ==
    /\ Notify
    /\ UNCHANGED <<m_garbage, m_shutdown, tmp, destroyed>>

DestroyRestAtOnce ==
    /\ reaper = "exited"
    /\ destroyed' = destroyed \cup UNION {m_garbage[f] : f \in Entries}
    /\ m_garbage' = [f \in Fences |-> {}]
    /\ UNCHANGED <<m_shutdown, reaper, tmp>>

\* The reaper has been joined; whatever is left is waited for and destroyed.
DestroyRest ==
    /\ reaper = "exited"
    /\ \A f \in Entries : signaled[f]
    /\ destroyed' = destroyed \cup UNION {m_garbage[f] : f \in Entries}
    /\ m_garbage' = [f \in Fences |-> {}]
    /\ UNCHANGED <<m_shutdown, reaper, tmp>>

-----------------------------------------------------------------------------
(* The reaper.                                                             *)

\* m_shutdown is tested, m_lock taken and the predicate of m_cv evaluated.
ReaperWait ==
    /\ reaper = "wait"
    /\ reaper' = CASE m_shutdown -> "exited"
                   [] ~m_shutdown /\ Entries = {} -> "block"
                   [] OTHER -> "reap"
    /\ UNCHANGED <<m_garbage, m_shutdown, tmp, destroyed>>

ReaperBlock ==
    /\ reaper = "block"
    /\ reaper' = "blocked"
    /\ UNCHANGED <<m_garbage, m_shutdown, tmp, destroyed>>

\* ReapGarbage: Wait( 0 ) on every fence.  A fence that changes its state during
\* the loop is found by this pass or by the next.  m_lock is then released to
\* destroy, or to sleep for 100 ms if nothing could be taken.
ReapGarbage ==
    /\ reaper = "reap"
    /\ LET done == {f \in Entries : signaled[f]} IN
          /\ tmp' = UNION {m_garbage[f] : f \in done}
          /\ m_garbage' = [f \in Fences |-> IF f \in done THEN {} ELSE m_garbage[f]]
    /\ reaper' = IF tmp' # {} THEN "destroy" ELSE "sleep"
    /\ UNCHANGED <<m_shutdown, destroyed>>

ReapDestroy ==
    /\ reaper = "destroy"
    /\ destroyed' = destroyed \cup tmp
    /\ tmp' = {}
    /\ reaper' = IF Entries # {} THEN "sleep" ELSE "wait"
    /\ UNCHANGED <<m_garbage, m_shutdown>>

ReaperTimeout ==
    /\ reaper = "sleep"
    /\ reaper' = "wait"
    /\ UNCHANGED <<m_garbage, m_shutdown, tmp, destroyed>>

ReaperStep == ReaperWait \/ ReaperBlock \/ ReapGarbage \/ ReapDestroy \/ ReaperTimeout
=============================================================================

---------------------------- MODULE TaskDispatch ----------------------------
(***************************************************************************)
(* The thread pool of util/TaskDispatch.cpp.  Any thread may Queue tasks   *)
(* and wait for them in Sync; Sync helps: it runs queued tasks itself      *)
(* before it blocks on m_cvJobs.  Workers block on m_cvWork.               *)
(*                                                                         *)
(* Every access to m_queue and m_jobs is inside a critical section of      *)
(* m_queueLock, and a condition variable gives the lock up and blocks in   *)
(* one step, so one critical section is one action.  pc[th] says where a   *)
(* thread stands between critical sections; the wait sets of the two       *)
(* condition variables are the threads whose pc is "blocked".              *)
(***************************************************************************)
EXTENDS Integers, FiniteSets, SequencesExt

CONSTANTS
    Clients,    \* threads that use the pool (in iv: main and the image provider)
    Workers,    \* the m_numWorkers threads the pool creates, possibly none
    Tasks,      \* identities of the tasks, each handed over at most once
    NoTask,     \* what a thread runs that runs no task
    Nobody,     \* owner of a task that was not handed over yet
    Nesting,    \* whether tasks queue further tasks
    Spurious    \* whether condition variables wake up spuriously

ASSUME ConstantsAssumption ==
    /\ IsFiniteSet(Workers)
    /\ Clients \cap Workers = {}
    /\ NoTask \notin Tasks
    /\ Nobody \notin Clients
    /\ Nesting \in BOOLEAN
    /\ Spurious \in BOOLEAN

VARIABLES
    m_queue,     \* the tasks nobody has taken; taken from the back
    m_jobs,      \* number of tasks the workers are running
    m_exit,      \* set by the destructor
    m_initDone,  \* the creating thread m_init has been joined
    joins,       \* number of times m_init.join() was called
    pc,          \* where each thread stands
    running,     \* the task each thread is running
    owner,       \* the client on whose behalf each task was queued
    finished,    \* the tasks that ran to completion
    life         \* progress of the destructor

vars == <<m_queue, m_jobs, m_exit, m_initDone, joins, pc, running, owner, finished, life>>

Threads == Clients \cup Workers

InSync == {"sync", "run", "blocked", "woken"}

ClientPC == {"user", "init"} \cup InSync

WorkerPC == {"unborn", "idle", "run", "blocked", "exited"}

Waiting(S) == {th \in S : pc[th] = "blocked"}

\* The type invariant: where every thread stands, and a job counter that never
\* goes below zero (it is a size_t, so a stray decrement would make it huge).
TypeOK ==
    /\ m_queue \in Seq(Tasks)
    /\ m_jobs \in Nat
    /\ m_exit \in BOOLEAN
    /\ m_initDone \in BOOLEAN
    /\ joins \in Nat
    /\ pc \in [Threads -> ClientPC \cup WorkerPC]
    /\ \A c \in Clients : pc[c] \in ClientPC
    /\ \A w \in Workers : pc[w] \in WorkerPC
    /\ running \in [Threads -> Tasks \cup {NoTask}]
    /\ owner \in [Tasks -> Clients \cup {Nobody}]
    /\ finished \subseteq Tasks
    /\ life \in {"live", "init", "setExit", "notify", "join", "gone"}

Init ==
    /\ m_queue = <<>>
    /\ m_jobs = 0
    /\ m_exit = FALSE
    /\ m_initDone = FALSE
    /\ joins = 0
    /\ pc = [th \in Threads |-> IF th \in Workers THEN "unborn" ELSE "user"]
    /\ running = [th \in Threads |-> NoTask]
    /\ owner = [t \in Tasks |-> Nobody]
    /\ finished = {}
    /\ life = "live"

-----------------------------------------------------------------------------
(* Construction.  The thread m_init creates the workers one by one while   *)
(* the pool is already in use.                                             *)

CreateWorker(w) ==
    /\ pc[w] = "unborn"
    /\ pc' = [pc EXCEPT ![w] = "idle"]
    /\ UNCHANGED <<m_queue, m_jobs, m_exit, m_initDone, joins, running, owner, finished, life>>

InitThreadEnded == \A w \in Workers : pc[w] # "unborn"

\* WaitInit after its unlocked test of m_initDone failed: join unless another
\* thread did so before this one got m_initLock.
JoinInit ==
    \/ /\ m_initDone
       /\ UNCHANGED <<m_initDone, joins>>
    \/ /\ ~m_initDone
       /\ InitThreadEnded
       /\ joins' = joins + 1
       /\ m_initDone' = TRUE

WaitInit(c) ==
    /\ life = "live" /\ pc[c] = "user"
    /\ ~m_initDone
    /\ pc' = [pc EXCEPT ![c] = "init"]
    /\ UNCHANGED <<m_queue, m_jobs, m_exit, m_initDone, joins, running, owner, finished, life>>

WaitInitLocked(c) ==
    /\ pc[c] = "init"
    /\ JoinInit
    /\ pc' = [pc EXCEPT ![c] = "user"]
    /\ UNCHANGED <<m_queue, m_jobs, m_exit, running, owner, finished, life>>

-----------------------------------------------------------------------------
(* Queue: append and wake one blocked worker, if there is one.             *)

NotifyWork ==
    IF Waiting(Workers) = {}
    THEN UNCHANGED pc
    ELSE \E w \in Waiting(Workers) : pc' = [pc EXCEPT ![w] = "idle"]

Push(t, c) ==
    /\ owner[t] = Nobody
    /\ m_queue' = Append(m_queue, t)
    /\ owner' = [owner EXCEPT ![t] = c]
    /\ NotifyWork
    /\ UNCHANGED <<m_jobs, m_exit, m_initDone, joins, running, finished, life>>

Queue(c, t) ==
    /\ life = "live" /\ pc[c] = "user"
    /\ Push(t, c)

\* A running task queues another one; the work is its client's as well.
QueueFromTask(th, t) ==
    /\ Nesting
    /\ running[th] # NoTask
    /\ Push(t, owner[running[th]])

-----------------------------------------------------------------------------
(* Sync.                                                                   *)

Sync(c) ==
    /\ life = "live" /\ pc[c] = "user"
    /\ pc' = [pc EXCEPT ![c] = "sync"]
    /\ UNCHANGED <<m_queue, m_jobs, m_exit, m_initDone, joins, running, owner, finished, life>>

\* Take the newest queued task; m_jobs does not count it.
SyncTake(c) ==
    /\ pc[c] = "sync"
    /\ m_queue # <<>>
    /\ m_queue' = Front(m_queue)
    /\ running' = [running EXCEPT ![c] = Last(m_queue)]
    /\ pc' = [pc EXCEPT ![c] = "run"]
    /\ UNCHANGED <<m_jobs, m_exit, m_initDone, joins, owner, finished, life>>

SyncRan(c) ==
    /\ c \in Clients /\ pc[c] = "run"
    /\ finished' = finished \cup {running[c]}
    /\ running' = [running EXCEPT ![c] = NoTask]
    /\ pc' = [pc EXCEPT ![c] = "sync"]
    /\ UNCHANGED <<m_queue, m_jobs, m_exit, m_initDone, joins, owner, life>>

\* The predicate of m_cvJobs.wait: return, or block (again).
ReturnOrBlock(c) ==
    /\ pc' = [pc EXCEPT ![c] = IF m_jobs = 0 THEN "user" ELSE "blocked"]
    /\ UNCHANGED <<m_queue, m_jobs, m_exit, m_initDone, joins, running, owner, finished, life>>

SyncDrainedReturns(c) ==
    /\ pc[c] = "sync"
    /\ m_queue = <<>>
    /\ pc' = [pc EXCEPT ![c] = "user"]
    /\ UNCHANGED <<m_queue, m_jobs, m_exit, m_initDone, joins, running, owner, finished, life>>

SyncDrained(c) ==
    /\ pc[c] = "sync"
    /\ m_queue = <<>>
    /\ ReturnOrBlock(c)

SyncWoken(c) ==
    /\ pc[c] = "woken"
    /\ ReturnOrBlock(c)

-----------------------------------------------------------------------------
(* Worker.                                                                 *)

WorkerBlock(w) ==
    /\ pc[w] = "idle"
    /\ m_queue = <<>> /\ ~m_exit
    /\ pc' = [pc EXCEPT ![w] = "blocked"]
    /\ UNCHANGED <<m_queue, m_jobs, m_exit, m_initDone, joins, running, owner, finished, life>>

WorkerExit(w) ==
    /\ pc[w] = "idle"
    /\ m_exit
    /\ pc' = [pc EXCEPT ![w] = "exited"]
    /\ UNCHANGED <<m_queue, m_jobs, m_exit, m_initDone, joins, running, owner, finished, life>>

WorkerTakeKeeps(w) ==
    /\ pc[w] = "idle"
    /\ m_queue # <<>> /\ ~m_exit
    /\ running' = [running EXCEPT ![w] = Last(m_queue)]
    /\ m_jobs' = m_jobs + 1
    /\ pc' = [pc EXCEPT ![w] = "run"]
    /\ UNCHANGED <<m_queue, m_exit, m_initDone, joins, owner, finished, life>>

WorkerTake(w) ==
    /\ pc[w] = "idle"
    /\ m_queue # <<>> /\ ~m_exit
    /\ m_queue' = Front(m_queue)
    /\ running' = [running EXCEPT ![w] = Last(m_queue)]
    /\ m_jobs' = m_jobs + 1
    /\ pc' = [pc EXCEPT ![w] = "run"]
    /\ UNCHANGED <<m_exit, m_initDone, joins, owner, finished, life>>

WorkerRanNoNotify(w) ==
    /\ w \in Workers /\ pc[w] = "run"
    /\ finished' = finished \cup {running[w]}
    /\ running' = [running EXCEPT ![w] = NoTask]
    /\ m_jobs' = m_jobs - 1
    /\ pc' = [pc EXCEPT ![w] = "idle"]
    /\ UNCHANGED <<m_queue, m_exit, m_initDone, joins, owner, life>>

\* The task ended: uncount it, and wake all of Sync's callers when nothing is
\* running on a worker and nothing is queued.
WorkerRan(w) ==
    /\ w \in Workers /\ pc[w] = "run"
    /\ finished' = finished \cup {running[w]}
    /\ running' = [running EXCEPT ![w] = NoTask]
    /\ m_jobs' = m_jobs - 1
    /\ pc' = [th \in Threads |->
                IF th = w THEN "idle"
                ELSE IF m_jobs = 1 /\ m_queue = <<>> /\ th \in Waiting(Clients) THEN "woken"
                ELSE pc[th]]
    /\ UNCHANGED <<m_queue, m_exit, m_initDone, joins, owner, life>>

SpuriousWakeup(th) ==
    /\ Spurious
    /\ pc[th] = "blocked"
    /\ pc' = [pc EXCEPT ![th] = IF th \in Workers THEN "idle" ELSE "woken"]
    /\ UNCHANGED <<m_queue, m_jobs, m_exit, m_initDone, joins, running, owner, finished, life>>

-----------------------------------------------------------------------------
(* The destructor, called once no client uses the pool any more.  Tasks    *)
(* that are still queued are dropped.                                      *)

Destroy ==
    /\ life = "live"
    /\ \A c \in Clients : pc[c] = "user"
    /\ life' = "init"
    /\ UNCHANGED <<m_queue, m_jobs, m_exit, m_initDone, joins, pc, running, owner, finished>>

DestroySkipsInit ==
    /\ life = "init"
    /\ life' = "setExit"
    /\ UNCHANGED <<m_queue, m_jobs, m_exit, m_initDone, joins, pc, running, owner, finished>>

DestroyWaitInit ==
    /\ life = "init"
    /\ JoinInit
    /\ life' = "setExit"
    /\ UNCHANGED <<m_queue, m_jobs, m_exit, pc, running, owner, finished>>

DestroySetExit ==
    /\ life = "setExit"
    /\ m_exit' = TRUE
    /\ life' = "notify"
    /\ UNCHANGED <<m_queue, m_jobs, m_initDone, joins, pc, running, owner, finished>>

DestroyNotifyOne ==
    /\ life = "notify"
    /\ NotifyWork
    /\ life' = "join"
    /\ UNCHANGED <<m_queue, m_jobs, m_exit, m_initDone, joins, running, owner, finished>>

DestroyNotify ==
    /\ life = "notify"
    /\ pc' = [th \in Threads |-> IF th \in Waiting(Workers) THEN "idle" ELSE pc[th]]
    /\ life' = "join"
    /\ UNCHANGED <<m_queue, m_jobs, m_exit, m_initDone, joins, running, owner, finished>>

\* m_workers holds the threads created so far; each of them is joined.
DestroyJoin ==
    /\ life = "join"
    /\ \A w \in Workers : pc[w] \in {"exited", "unborn"}
    /\ life' = "gone"
    /\ UNCHANGED <<m_queue, m_jobs, m_exit, m_initDone, joins, pc, running, owner, finished>>

-----------------------------------------------------------------------------

SyncStep(c) == SyncTake(c) \/ SyncRan(c) \/ SyncDrained(c) \/ SyncWoken(c)

WorkerStep(w) == WorkerBlock(w) \/ WorkerExit(w) \/ WorkerTake(w) \/ WorkerRan(w)

DestroyStep == DestroyWaitInit \/ DestroySetExit \/ DestroyNotify \/ DestroyJoin

Next ==
    \/ \E w \in Workers : CreateWorker(w) \/ WorkerStep(w)
    \/ \E c \in Clients : WaitInit(c) \/ WaitInitLocked(c) \/ Sync(c) \/ SyncStep(c)
    \/ \E c \in Clients, t \in Tasks : Queue(c, t)
    \/ \E th \in Threads, t \in Tasks : QueueFromTask(th, t)
    \/ \E th \in Threads : SpuriousWakeup(th)
    \/ Destroy
    \/ DestroyStep

Spec == Init /\ [][Next]_vars

\* Every thread that can go on does so: tasks end, threads that were created or
\* woken get the lock, the destructor runs on.  Clients need not call anything.
Fairness ==
    /\ \A w \in Workers : WF_vars(CreateWorker(w)) /\ WF_vars(WorkerStep(w))
    /\ \A c \in Clients : WF_vars(WaitInitLocked(c)) /\ WF_vars(SyncStep(c))
    /\ WF_vars(DestroyStep)

FairSpec == Spec /\ Fairness

-----------------------------------------------------------------------------
(* Properties.                                                             *)

Barrier == INSTANCE TaskBarrier WITH inSync <- {c \in Clients : pc[c] \in InSync}

\* With one client the pool implements the barrier its users rely on: every
\* step of Queue, Sync and Worker is a step of TaskBarrier, in particular Sync
\* returns only after everything queued for its caller has been carried out.
SyncIsBarrier == Barrier!Spec

\* Sync returns to a client only when every task queued on its behalf,
\* directly or by another of its tasks, has run to completion.
SyncWaitsForOwnTasks ==
    [][\A c \in Clients :
          pc[c] \in InSync /\ pc'[c] = "user"
            => \A t \in Tasks : owner[t] = c => t \in finished]_vars

Placed(t) ==
    Cardinality({i \in 1..Len(m_queue) : m_queue[i] = t})
      + Cardinality({th \in Threads : running[th] = t})
      + (IF t \in finished THEN 1 ELSE 0)

\* A task that was queued is in exactly one place, once: in the queue, with
\* one thread that runs it, or finished.  So none is lost and none runs twice,
\* whichever of the workers and the callers of Sync takes it.
TasksRunOnce ==
    \A t \in Tasks : Placed(t) = IF owner[t] = Nobody THEN 0 ELSE 1

\* When the destructor has returned no worker exists and no task runs: every
\* worker that m_init was ever going to create has come and gone, and m_init
\* has been joined once, however many threads were in WaitInit: a second join
\* would throw std::system_error.
GoneMeansQuiet ==
    /\ joins <= 1
    /\ life = "gone" => /\ \A w \in Workers : pc[w] = "exited"
                        /\ \A th \in Threads : running[th] = NoTask

\* Sync returns, whatever the workers do, if tasks end.
SyncReturns == \A c \in Clients : pc[c] = "sync" ~> pc[c] = "user"

\* The destructor returns: no worker sleeps through the notification.
DestructorReturns == life = "init" ~> life = "gone"
-----------------------------------------------------------------------------
(* The inductive invariant behind SyncIsBarrier, for a single client.      *)

RunningIsCounted == m_jobs = Cardinality({w \in Workers : pc[w] = "run"})

RunningMeansRun == \A th \in Threads : running[th] # NoTask <=> pc[th] = "run"

QueuedIsKnown ==
    /\ \A t \in finished : owner[t] # Nobody
    /\ \A i \in DOMAIN m_queue : owner[m_queue[i]] # Nobody /\ m_queue[i] \notin finished
    /\ \A th \in Threads : running[th] # NoTask =>
          owner[running[th]] # Nobody /\ running[th] \notin finished

NothingForgotten ==
    \A t \in Tasks : owner[t] # Nobody =>
        \/ t \in finished
        \/ \E i \in DOMAIN m_queue : m_queue[i] = t
        \/ \E th \in Threads : running[th] = t

TakenOnce ==
    /\ \A i, j \in DOMAIN m_queue : m_queue[i] = m_queue[j] => i = j
    /\ \A i \in DOMAIN m_queue, th \in Threads : running[th] # m_queue[i]
    /\ \A th, tg \in Threads : running[th] = running[tg] /\ running[th] # NoTask => th = tg

\* Past its loop over the queue, Sync may return as soon as m_jobs is zero; this
\* is right only if the queue is still empty.  It stays so while nobody
\* queues (no nesting), or because the wake-up is only ever sent when the queue
\* is empty and no task runs that could queue another (no spurious wake-ups).
SafeToReturn ==
    \A c \in Clients :
        /\ pc[c] = "woken" => m_queue = <<>>
        /\ Nesting => (pc[c] = "woken" => m_jobs = 0)
        /\ ~Nesting => (pc[c] = "blocked" => m_queue = <<>>)

\* What holds with any number of clients: m_jobs counts exactly the workers
\* that run a task, and no task is forgotten or held twice.
PoolInv ==
    /\ TypeOK
    /\ RunningIsCounted
    /\ RunningMeansRun
    /\ QueuedIsKnown
    /\ NothingForgotten
    /\ TakenOnce

\* The inductive invariant of the proof that Sync is a barrier: PoolInv, and
\* a caller of Sync that was woken finds the queue empty.
SyncInv == PoolInv /\ SafeToReturn
=============================================================================

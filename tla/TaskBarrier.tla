---------------------------- MODULE TaskBarrier ----------------------------
(***************************************************************************)
(* What TaskDispatch promises to the code that uses it: a client hands     *)
(* tasks over, a task may hand over further tasks on behalf of the same    *)
(* client, every task is carried out by somebody, and Sync is a barrier: a *)
(* client leaves it only when all the work it is responsible for is done.  *)
(* The loaders and the image viewer rely on exactly this: their tasks      *)
(* refer to buffers and vectors of the function that calls Sync.           *)
(***************************************************************************)
CONSTANTS
    Clients,    \* threads that call Queue and Sync
    Tasks,      \* identities of the tasks
    Nobody      \* owner of a task that was not handed over yet

VARIABLES
    owner,      \* the client on whose behalf a task was handed over
    finished,   \* tasks that ran to completion
    inSync      \* clients that called Sync and did not return yet

vars == <<owner, finished, inSync>>

-----------------------------------------------------------------------------

Init ==
    /\ owner = [t \in Tasks |-> Nobody]
    /\ finished = {}
    /\ inSync = {}

Submit(c, t) ==
    /\ c \notin inSync
    /\ owner[t] = Nobody
    /\ owner' = [owner EXCEPT ![t] = c]
    /\ UNCHANGED <<finished, inSync>>

\* A task that has not finished hands over t for its own client.
Spawn(parent, t) ==
    /\ owner[parent] # Nobody /\ parent \notin finished
    /\ owner[t] = Nobody
    /\ owner' = [owner EXCEPT ![t] = owner[parent]]
    /\ UNCHANGED <<finished, inSync>>

Finish(t) ==
    /\ owner[t] # Nobody /\ t \notin finished
    /\ finished' = finished \cup {t}
    /\ UNCHANGED <<owner, inSync>>

Enter(c) ==
    /\ c \notin inSync
    /\ inSync' = inSync \cup {c}
    /\ UNCHANGED <<owner, finished>>

Leave(c) ==
    /\ c \in inSync
    /\ \A t \in Tasks : owner[t] = c => t \in finished
    /\ inSync' = inSync \ {c}
    /\ UNCHANGED <<owner, finished>>

Next ==
    \/ \E c \in Clients, t \in Tasks : Submit(c, t)
    \/ \E p, t \in Tasks : Spawn(p, t)
    \/ \E t \in Tasks : Finish(t)
    \/ \E c \in Clients : Enter(c) \/ Leave(c)

Spec == Init /\ [][Next]_vars
=============================================================================

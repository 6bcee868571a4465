------------------------- MODULE TaskDispatchProofs -------------------------
(***************************************************************************)
(* Proofs about TaskDispatch for any number of clients, workers and tasks. *)
(***************************************************************************)
EXTENDS TaskDispatch, FiniteSetTheorems, TLAPS

\* Taking the newest task of a queue leaves a shorter queue of tasks.
LEMMA PopBack ==
    ASSUME NEW q \in Seq(Tasks), q # <<>>
    PROVE  /\ Front(q) \in Seq(Tasks)
           /\ Last(q) \in Tasks
           /\ Len(q) \in Nat \ {0}
           /\ DOMAIN Front(q) = 1..(Len(q) - 1)
           /\ DOMAIN q = 1..Len(q)
           /\ \A i \in 1..(Len(q) - 1) : Front(q)[i] = q[i]
           /\ Last(q) = q[Len(q)]
BY DEF Front, Last

\* Queueing a task leaves a queue of tasks.
LEMMA PushBack ==
    ASSUME NEW q \in Seq(Tasks), NEW t \in Tasks
    PROVE  /\ Append(q, t) \in Seq(Tasks)
           /\ Len(q) \in Nat
           /\ DOMAIN q = 1..Len(q)
           /\ DOMAIN Append(q, t) = 1..(Len(q) + 1)
           /\ \A i \in 1..Len(q) : Append(q, t)[i] = q[i]
           /\ Append(q, t)[Len(q) + 1] = t
OBVIOUS

-----------------------------------------------------------------------------
(* Type correctness.  m_jobs - 1 is a natural number only because m_jobs   *)
(* counts the workers that run a task, so both are proved together.        *)

RunningWorkers == {w \in Workers : pc[w] = "run"}

\* The set of running workers is finite.
LEMMA RunningFinite ==
    IsFiniteSet(RunningWorkers) /\ Cardinality(RunningWorkers) \in Nat
<1>1. RunningWorkers \in SUBSET Workers
  BY DEF RunningWorkers
<1>2. IsFiniteSet(RunningWorkers)
  BY <1>1, FS_Subset, ConstantsAssumption
<1> QED
  BY <1>2, FS_CardinalityType

\* notify_one on m_cvWork changes nothing but a blocked worker's position.
LEMMA NotifyMovesWorker ==
    ASSUME TypeOK, NotifyWork
    PROVE  /\ pc' \in [Threads -> ClientPC \cup WorkerPC]
           /\ \A th \in Threads : \/ pc'[th] = pc[th]
                                  \/ th \in Workers /\ pc[th] = "blocked" /\ pc'[th] = "idle"
<1>1. CASE Waiting(Workers) = {}
  BY <1>1 DEF TypeOK, NotifyWork
<1>2. CASE Waiting(Workers) # {}
  <2>1. PICK w \in Waiting(Workers) : pc' = [pc EXCEPT ![w] = "idle"]
    BY <1>2 DEF NotifyWork
  <2>2. w \in Workers /\ w \in Threads /\ pc[w] = "blocked"
    BY <2>1 DEF Waiting, Threads
  <2> QED
    BY <2>1, <2>2 DEF TypeOK, WorkerPC
<1> QED
  BY <1>1, <1>2

\* A step that leaves the set of running workers and m_jobs alone keeps the count.
LEMMA CountKept ==
    ASSUME RunningIsCounted, RunningWorkers' = RunningWorkers, m_jobs' = m_jobs
    PROVE  RunningIsCounted'
BY DEF RunningIsCounted, RunningWorkers

\* A step in which neither a thread's task nor its being in "run" changes keeps
\* the correspondence of the two.
LEMMA RunKept ==
    ASSUME RunningMeansRun, running' = running,
           \A th \in Threads : pc'[th] = "run" <=> pc[th] = "run"
    PROVE  RunningMeansRun' /\ RunningWorkers' = RunningWorkers
BY DEF RunningMeansRun, RunningWorkers, Threads

TypeInv == TypeOK /\ RunningIsCounted /\ RunningMeansRun

\* Queueing a task keeps the types and the meaning of m_jobs.
LEMMA TypePush ==
    ASSUME TypeInv, NEW t \in Tasks, NEW c \in Clients \cup {Nobody}, Push(t, c)
    PROVE  TypeInv'
<1>1. m_queue' \in Seq(Tasks)
  BY PushBack DEF Push, TypeInv, TypeOK
<1>2. /\ pc' \in [Threads -> ClientPC \cup WorkerPC]
      /\ \A th \in Threads : \/ pc'[th] = pc[th]
                             \/ th \in Workers /\ pc[th] = "blocked" /\ pc'[th] = "idle"
  BY NotifyMovesWorker DEF Push, TypeInv
<1>3. owner' \in [Tasks -> Clients \cup {Nobody}]
  BY DEF Push, TypeInv, TypeOK
<1>4. TypeOK'
  BY <1>1, <1>2, <1>3, ConstantsAssumption DEF Push, TypeInv, TypeOK, Threads, WorkerPC
<1>5. RunningMeansRun' /\ RunningWorkers' = RunningWorkers
  BY <1>2, RunKept DEF Push, TypeInv
<1> QED
  BY <1>4, <1>5, CountKept DEF Push, TypeInv

\* The steps of constructing the pool keep the types and the meaning of m_jobs.
LEMMA TypeConstruct ==
    ASSUME TypeInv,
           \/ \E w \in Workers : CreateWorker(w)
           \/ \E c \in Clients : WaitInit(c) \/ WaitInitLocked(c)
    PROVE  TypeInv'
<1> USE DEF Threads, ClientPC, WorkerPC, InSync
<1>1. ASSUME NEW w \in Workers, CreateWorker(w)
      PROVE  TypeInv'
  <2>1. TypeOK'
    BY <1>1, ConstantsAssumption DEF CreateWorker, TypeInv, TypeOK
  <2>2. \A th \in Threads : pc'[th] = "run" <=> pc[th] = "run"
    BY <1>1 DEF CreateWorker, TypeInv, TypeOK
  <2> QED
    BY <1>1, <2>1, <2>2, RunKept, CountKept DEF CreateWorker, TypeInv
<1>2. ASSUME NEW c \in Clients, WaitInit(c) \/ WaitInitLocked(c)
      PROVE  TypeInv'
  <2>1. \A th \in Threads : pc'[th] = "run" <=> pc[th] = "run"
    BY <1>2 DEF WaitInit, WaitInitLocked, TypeInv, TypeOK
  <2>2. m_initDone' \in BOOLEAN
    BY <1>2, Zenon DEF WaitInit, WaitInitLocked, JoinInit, TypeInv, TypeOK
  <2>3. joins' \in Nat
    BY <1>2 DEF WaitInit, WaitInitLocked, JoinInit, TypeInv, TypeOK
  <2>4. TypeOK'
    BY <1>2, <2>2, <2>3, ConstantsAssumption DEF WaitInit, WaitInitLocked, TypeInv, TypeOK
  <2> QED
    BY <1>2, <2>1, <2>4, RunKept, CountKept DEF WaitInit, WaitInitLocked, TypeInv
<1> QED
  BY <1>1, <1>2

\* The steps of Sync keep the types and the meaning of m_jobs.
LEMMA TypeSync ==
    ASSUME TypeInv, NEW c \in Clients, Sync(c) \/ SyncStep(c)
    PROVE  TypeInv'
<1> USE DEF Threads, ClientPC, WorkerPC, InSync
<1>1. CASE Sync(c) \/ SyncDrained(c) \/ SyncWoken(c)
  <2>1. TypeOK'
    BY <1>1, ConstantsAssumption DEF Sync, SyncDrained, SyncWoken, ReturnOrBlock, TypeInv, TypeOK
  <2>2. \A th \in Threads : pc'[th] = "run" <=> pc[th] = "run"
    BY <1>1 DEF Sync, SyncDrained, SyncWoken, ReturnOrBlock, TypeInv, TypeOK
  <2> QED
    BY <1>1, <2>1, <2>2, RunKept, CountKept
    DEF Sync, SyncDrained, SyncWoken, ReturnOrBlock, TypeInv
<1>2. CASE SyncTake(c)
  <2>1. Front(m_queue) \in Seq(Tasks) /\ Last(m_queue) \in Tasks
    BY <1>2, PopBack DEF SyncTake, TypeInv, TypeOK
  <2>2. TypeOK'
    BY <1>2, <2>1, ConstantsAssumption DEF SyncTake, TypeInv, TypeOK
  <2>3. RunningWorkers' = RunningWorkers
    BY <1>2, ConstantsAssumption DEF SyncTake, TypeInv, TypeOK, RunningWorkers
  <2>4. RunningMeansRun'
    BY <1>2, <2>1, ConstantsAssumption DEF SyncTake, TypeInv, TypeOK, RunningMeansRun
  <2> QED
    BY <1>2, <2>2, <2>3, <2>4, CountKept DEF SyncTake, TypeInv
<1>3. CASE SyncRan(c)
  <2>1. running[c] \in Tasks
    BY <1>3 DEF SyncRan, TypeInv, TypeOK, RunningMeansRun
  <2>2. TypeOK'
    BY <1>3, <2>1, ConstantsAssumption DEF SyncRan, TypeInv, TypeOK
  <2>3. RunningWorkers' = RunningWorkers
    BY <1>3, ConstantsAssumption DEF SyncRan, TypeInv, TypeOK, RunningWorkers
  <2>4. RunningMeansRun'
    BY <1>3 DEF SyncRan, TypeInv, TypeOK, RunningMeansRun
  <2> QED
    BY <1>3, <2>2, <2>3, <2>4, CountKept DEF SyncRan, TypeInv
<1> QED
  BY <1>1, <1>2, <1>3 DEF SyncStep

\* The steps of Worker, and spurious wake-ups, keep the types and the meaning of m_jobs.
LEMMA TypeWorker ==
    ASSUME TypeInv,
           \/ \E w \in Workers : WorkerStep(w)
           \/ \E th \in Threads : SpuriousWakeup(th)
    PROVE  TypeInv'
<1> USE DEF Threads, ClientPC, WorkerPC, InSync
<1>1. ASSUME NEW w \in Workers, WorkerBlock(w) \/ WorkerExit(w)
      PROVE  TypeInv'
  <2>1. TypeOK'
    BY <1>1, ConstantsAssumption DEF WorkerBlock, WorkerExit, TypeInv, TypeOK
  <2>2. \A th \in Threads : pc'[th] = "run" <=> pc[th] = "run"
    BY <1>1 DEF WorkerBlock, WorkerExit, TypeInv, TypeOK
  <2> QED
    BY <1>1, <2>1, <2>2, RunKept, CountKept DEF WorkerBlock, WorkerExit, TypeInv
<1>2. ASSUME NEW w \in Workers, WorkerTake(w)
      PROVE  TypeInv'
  <2>1. Front(m_queue) \in Seq(Tasks) /\ Last(m_queue) \in Tasks
    BY <1>2, PopBack DEF WorkerTake, TypeInv, TypeOK
  <2>2. TypeOK'
    BY <1>2, <2>1, ConstantsAssumption DEF WorkerTake, TypeInv, TypeOK
  <2>3. RunningWorkers' = RunningWorkers \cup {w} /\ w \notin RunningWorkers
    BY <1>2 DEF WorkerTake, TypeInv, TypeOK, RunningWorkers
  <2>4. Cardinality(RunningWorkers') = Cardinality(RunningWorkers) + 1
    BY <2>3, RunningFinite, FS_AddElement
  <2>5. RunningIsCounted'
    BY <1>2, <2>4 DEF WorkerTake, TypeInv, RunningIsCounted, RunningWorkers
  <2>6. RunningMeansRun'
    BY <1>2, <2>1, ConstantsAssumption DEF WorkerTake, TypeInv, TypeOK, RunningMeansRun
  <2> QED
    BY <2>2, <2>5, <2>6 DEF TypeInv
<1>3. ASSUME NEW w \in Workers, WorkerRan(w)
      PROVE  TypeInv'
  <2>1. running[w] \in Tasks
    BY <1>3 DEF WorkerRan, TypeInv, TypeOK, RunningMeansRun
  <2>2. /\ pc' \in [Threads -> ClientPC \cup WorkerPC]
        /\ pc'[w] = "idle"
        /\ \A th \in Threads \ {w} :
              \/ pc'[th] = pc[th]
              \/ th \in Clients /\ pc[th] = "blocked" /\ pc'[th] = "woken"
    BY <1>3 DEF WorkerRan, TypeInv, TypeOK, Waiting
  <2>3. RunningWorkers' = RunningWorkers \ {w} /\ w \in RunningWorkers
    BY <1>3, <2>2 DEF WorkerRan, RunningWorkers
  <2>4. Cardinality(RunningWorkers') = Cardinality(RunningWorkers) - 1
    BY <2>3, RunningFinite, FS_RemoveElement
  <2>5. RunningIsCounted'
    BY <1>3, <2>4 DEF WorkerRan, TypeInv, RunningIsCounted, RunningWorkers
  <2>6. IsFiniteSet(RunningWorkers') /\ Cardinality(RunningWorkers') \in Nat
    BY <2>3, RunningFinite, FS_RemoveElement, FS_CardinalityType
  <2>7. m_jobs' \in Nat
    BY <2>5, <2>6 DEF RunningIsCounted, RunningWorkers
  <2>8. TypeOK'
    BY <1>3, <2>1, <2>2, <2>7, ConstantsAssumption, ZenonT(60) DEF WorkerRan, TypeInv, TypeOK
  <2>9. RunningMeansRun'
    BY <1>3, <2>2 DEF WorkerRan, TypeInv, TypeOK, RunningMeansRun
  <2> QED
    BY <2>5, <2>8, <2>9 DEF TypeInv
<1>4. ASSUME NEW th \in Threads, SpuriousWakeup(th)
      PROVE  TypeInv'
  <2>1. TypeOK'
    BY <1>4, ConstantsAssumption DEF SpuriousWakeup, TypeInv, TypeOK
  <2>2. \A tg \in Threads : pc'[tg] = "run" <=> pc[tg] = "run"
    BY <1>4 DEF SpuriousWakeup, TypeInv, TypeOK
  <2> QED
    BY <1>4, <2>1, <2>2, RunKept, CountKept DEF SpuriousWakeup, TypeInv
<1> QED
  BY <1>1, <1>2, <1>3, <1>4 DEF WorkerStep

\* The destructor keeps the types and the meaning of m_jobs.
LEMMA TypeDestroy ==
    ASSUME TypeInv, Destroy \/ DestroyStep
    PROVE  TypeInv'
<1> USE DEF Threads, ClientPC, WorkerPC, InSync
<1>1. CASE Destroy \/ DestroySetExit \/ DestroyJoin
  <2>1. m_exit' \in BOOLEAN
    BY <1>1, Zenon DEF Destroy, DestroySetExit, DestroyJoin, TypeInv, TypeOK
  <2>2. TypeOK'
    BY <1>1, <2>1 DEF Destroy, DestroySetExit, DestroyJoin, TypeInv, TypeOK
  <2>3. UNCHANGED <<pc, running, m_jobs>>
    BY <1>1 DEF Destroy, DestroySetExit, DestroyJoin
  <2> QED
    BY <2>2, <2>3, RunKept, CountKept DEF TypeInv
<1>2. CASE DestroyWaitInit
  <2>1. m_initDone' \in BOOLEAN
    BY <1>2, Zenon DEF DestroyWaitInit, JoinInit, TypeInv, TypeOK
  <2>2. joins' \in Nat
    BY <1>2 DEF DestroyWaitInit, JoinInit, TypeInv, TypeOK
  <2> QED
    BY <1>2, <2>1, <2>2, RunKept, CountKept DEF DestroyWaitInit, TypeInv, TypeOK
<1>3. CASE DestroyNotify
  <2>1. /\ pc' \in [Threads -> ClientPC \cup WorkerPC]
        /\ \A th \in Threads : \/ pc'[th] = pc[th]
                               \/ th \in Workers /\ pc[th] = "blocked" /\ pc'[th] = "idle"
    BY <1>3 DEF DestroyNotify, TypeInv, TypeOK, Waiting
  <2>2. TypeOK'
    BY <1>3, <2>1, ConstantsAssumption DEF DestroyNotify, TypeInv, TypeOK
  <2> QED
    BY <1>3, <2>1, <2>2, RunKept, CountKept DEF DestroyNotify, TypeInv
<1> QED
  BY <1>1, <1>2, <1>3 DEF DestroyStep

\* A task that is queued by a running task belongs to a client or to nobody.
LEMMA TypeNested ==
    ASSUME TypeInv, NEW th \in Threads, NEW t \in Tasks, QueueFromTask(th, t)
    PROVE  owner[running[th]] \in Clients \cup {Nobody}
BY DEF TypeInv, TypeOK, QueueFromTask

\* Every step keeps the types and the meaning of m_jobs.
LEMMA TypeStep ==
    ASSUME TypeInv, [Next]_vars
    PROVE  TypeInv'
<1>1. CASE UNCHANGED vars
  BY <1>1 DEF vars, TypeInv, TypeOK, RunningIsCounted, RunningMeansRun
<1>2. ASSUME NEW c \in Clients, NEW t \in Tasks, Queue(c, t)
      PROVE  TypeInv'
  BY <1>2, TypePush DEF Queue
<1>3. ASSUME NEW th \in Threads, NEW t \in Tasks, QueueFromTask(th, t)
      PROVE  TypeInv'
  BY <1>3, TypeNested, TypePush DEF QueueFromTask
<1> QED
  BY <1>1, <1>2, <1>3, TypeConstruct, TypeSync, TypeWorker, TypeDestroy DEF Next

\* In the initial state nothing runs and nothing is counted.
LEMMA TypeInit ==
    ASSUME Init
    PROVE  TypeInv
<1>1. TypeOK
  <2>1. m_exit \in BOOLEAN /\ m_initDone \in BOOLEAN
    BY Zenon DEF Init
  <2>2. /\ pc \in [Threads -> ClientPC \cup WorkerPC]
        /\ \A c \in Clients : pc[c] \in ClientPC
        /\ \A w \in Workers : pc[w] \in WorkerPC
    BY ConstantsAssumption DEF Init, Threads, ClientPC, WorkerPC
  <2>3. m_queue \in Seq(Tasks)
    BY DEF Init
  <2> QED
    BY <2>1, <2>2, <2>3 DEF Init, TypeOK
<1>2. RunningMeansRun
  BY DEF Init, RunningMeansRun, Threads
<1>3. {w \in Workers : pc[w] = "run"} = {}
  BY DEF Init, Threads
<1>4. RunningIsCounted
  BY <1>3, FS_EmptySet DEF Init, RunningIsCounted
<1> QED
  BY <1>1, <1>2, <1>4 DEF TypeInv

\* The variables of the pool keep their types; in particular m_jobs, a size_t
\* in the code, is never decremented below zero.
THEOREM TypeCorrect == Spec => []TypeOK
<1>1. Init => TypeInv
  BY TypeInit
<1>2. TypeInv /\ [Next]_vars => TypeInv'
  BY TypeStep
<1>3. TypeInv => TypeOK
  BY DEF TypeInv
<1> QED
  BY <1>1, <1>2, <1>3, PTL DEF Spec

-----------------------------------------------------------------------------
(* No task is lost and none is carried out twice, whoever takes it: for    *)
(* any number of clients, with nesting and spurious wake-ups.  The actions *)
(* fall into four kinds: those that leave every task where it is, pushing, *)
(* taking, and finishing a task.                                           *)

Held == QueuedIsKnown /\ NothingForgotten /\ TakenOnce

\* Pushing a task that was not handed over before.
LEMMA HeldPush ==
    ASSUME TypeOK, Held, NEW t \in Tasks, NEW c \in Clients, Push(t, c)
    PROVE  Held'
<1>1. /\ Len(m_queue) \in Nat
      /\ DOMAIN m_queue = 1..Len(m_queue)
      /\ DOMAIN m_queue' = 1..(Len(m_queue) + 1)
      /\ \A i \in 1..Len(m_queue) : m_queue'[i] = m_queue[i]
      /\ m_queue'[Len(m_queue) + 1] = t
  BY PushBack DEF Push, TypeOK
<1>2. /\ owner[t] = Nobody
      /\ \A s \in Tasks : owner'[s] = IF s = t THEN c ELSE owner[s]
      /\ finished' = finished /\ running' = running
  BY DEF Push, TypeOK
<1>3. \A i \in DOMAIN m_queue : m_queue[i] \in Tasks /\ m_queue[i] # t
  BY <1>1, <1>2 DEF Held, QueuedIsKnown, TypeOK
<1>4. \A th \in Threads : running[th] # t /\ running[th] \in Tasks \cup {NoTask}
  BY <1>2, ConstantsAssumption DEF Held, QueuedIsKnown, TypeOK
<1>5. t \notin finished /\ finished \subseteq Tasks
  BY <1>2 DEF Held, QueuedIsKnown, TypeOK
<1>6. QueuedIsKnown'
  BY <1>1, <1>2, <1>3, <1>4, <1>5, ConstantsAssumption DEF Held, QueuedIsKnown
<1>7. NothingForgotten'
  BY <1>1, <1>2 DEF Held, NothingForgotten
<1>8. TakenOnce'
  BY <1>1, <1>2, <1>3, <1>4 DEF Held, TakenOnce
<1> QED
  BY <1>6, <1>7, <1>8 DEF Held

\* Taking the newest task off the queue.
LEMMA HeldTake ==
    ASSUME TypeOK, Held, NEW th \in Threads, running[th] = NoTask,
           m_queue # <<>>, m_queue' = Front(m_queue),
           running' = [running EXCEPT ![th] = Last(m_queue)],
           UNCHANGED <<owner, finished>>
    PROVE  Held'
<1>1. /\ Len(m_queue) \in Nat \ {0}
      /\ DOMAIN m_queue = 1..Len(m_queue)
      /\ DOMAIN m_queue' = 1..(Len(m_queue) - 1)
      /\ \A i \in 1..(Len(m_queue) - 1) : m_queue'[i] = m_queue[i]
      /\ Last(m_queue) = m_queue[Len(m_queue)]
      /\ Last(m_queue) \in Tasks
  BY PopBack DEF TypeOK
<1>2. \A tg \in Threads : running'[tg] = IF tg = th THEN Last(m_queue) ELSE running[tg]
  BY DEF TypeOK
<1>3. QueuedIsKnown'
  BY <1>1, <1>2 DEF Held, QueuedIsKnown
<1>4. NothingForgotten'
  <2> SUFFICES ASSUME NEW t \in Tasks, owner[t] # Nobody, t \notin finished
               PROVE  \/ \E i \in DOMAIN m_queue' : m_queue'[i] = t
                      \/ \E tg \in Threads : running'[tg] = t
    BY DEF NothingForgotten
  <2>1. CASE \E i \in DOMAIN m_queue : m_queue[i] = t
    <3>1. PICK i \in DOMAIN m_queue : m_queue[i] = t
      BY <2>1
    <3>2. CASE i = Len(m_queue)
      BY <1>1, <1>2, <3>1, <3>2
    <3>3. CASE i # Len(m_queue)
      BY <1>1, <3>1, <3>3
    <3> QED
      BY <3>2, <3>3
  <2>2. CASE \E tg \in Threads : running[tg] = t
    BY <1>2, <2>2, ConstantsAssumption
  <2> QED
    BY <2>1, <2>2 DEF Held, NothingForgotten
<1>5. TakenOnce'
  <2>1. \A i, j \in DOMAIN m_queue' : m_queue'[i] = m_queue'[j] => i = j
    BY <1>1 DEF Held, TakenOnce
  <2>2. \A i \in DOMAIN m_queue', tg \in Threads : running'[tg] # m_queue'[i]
    BY <1>1, <1>2 DEF Held, TakenOnce
  <2>3. \A tf, tg \in Threads : running'[tf] = running'[tg] /\ running'[tf] # NoTask => tf = tg
    BY <1>1, <1>2 DEF Held, TakenOnce
  <2> QED
    BY <2>1, <2>2, <2>3 DEF TakenOnce
<1> QED
  BY <1>3, <1>4, <1>5 DEF Held

\* Finishing the task a thread runs.
LEMMA HeldRan ==
    ASSUME TypeOK, Held, NEW th \in Threads, running[th] # NoTask,
           finished' = finished \cup {running[th]},
           running' = [running EXCEPT ![th] = NoTask],
           UNCHANGED <<m_queue, owner>>
    PROVE  Held'
<1>1. \A tg \in Threads : running'[tg] = IF tg = th THEN NoTask ELSE running[tg]
  BY DEF TypeOK
<1>2. QueuedIsKnown'
  BY <1>1 DEF Held, QueuedIsKnown, TakenOnce
<1>3. NothingForgotten'
  BY <1>1 DEF Held, NothingForgotten
<1>4. TakenOnce'
  BY <1>1, ConstantsAssumption DEF Held, TakenOnce, TypeOK
<1> QED
  BY <1>2, <1>3, <1>4 DEF Held

\* Leaving every task where it is.
LEMMA HeldKept ==
    ASSUME Held, UNCHANGED <<m_queue, running, owner, finished>>
    PROVE  Held'
BY DEF Held, QueuedIsKnown, NothingForgotten, TakenOnce

\* Every step keeps every task in one place.
LEMMA HeldStep ==
    ASSUME TypeInv, Held, [Next]_vars
    PROVE  Held'
<1>1. CASE UNCHANGED vars
  BY <1>1, HeldKept DEF vars
<1>2. ASSUME NEW w \in Workers, CreateWorker(w) \/ WorkerBlock(w) \/ WorkerExit(w)
      PROVE  Held'
  BY <1>2, HeldKept DEF CreateWorker, WorkerBlock, WorkerExit
<1>3. ASSUME NEW c \in Clients,
             WaitInit(c) \/ WaitInitLocked(c) \/ Sync(c) \/ SyncDrained(c) \/ SyncWoken(c)
      PROVE  Held'
  BY <1>3, HeldKept DEF WaitInit, WaitInitLocked, Sync, SyncDrained, SyncWoken, ReturnOrBlock
<1>4. ASSUME NEW th \in Threads, SpuriousWakeup(th)
      PROVE  Held'
  BY <1>4, HeldKept DEF SpuriousWakeup
<1>5. CASE Destroy \/ DestroyStep
  BY <1>5, HeldKept
  DEF Destroy, DestroyStep, DestroyWaitInit, DestroySetExit, DestroyNotify, DestroyJoin
<1>6. ASSUME NEW c \in Clients, NEW t \in Tasks, Queue(c, t)
      PROVE  Held'
  BY <1>6, HeldPush DEF Queue, TypeInv
<1>7. ASSUME NEW th \in Threads, NEW t \in Tasks, QueueFromTask(th, t)
      PROVE  Held'
  <2>1. owner[running[th]] \in Clients
    BY <1>7, TypeNested DEF QueueFromTask, Held, QueuedIsKnown
  <2> QED
    BY <1>7, <2>1, HeldPush DEF QueueFromTask, TypeInv
<1>8. ASSUME NEW c \in Clients, SyncTake(c)
      PROVE  Held'
  <2>1. running[c] = NoTask /\ c \in Threads
    BY <1>8 DEF SyncTake, TypeInv, RunningMeansRun, Threads
  <2> QED
    BY <1>8, <2>1, HeldTake DEF SyncTake, TypeInv
<1>9. ASSUME NEW w \in Workers, WorkerTake(w)
      PROVE  Held'
  <2>1. running[w] = NoTask /\ w \in Threads
    BY <1>9 DEF WorkerTake, TypeInv, RunningMeansRun, Threads
  <2> QED
    BY <1>9, <2>1, HeldTake DEF WorkerTake, TypeInv
<1>10. ASSUME NEW c \in Clients, SyncRan(c)
       PROVE  Held'
  <2>1. running[c] # NoTask /\ c \in Threads
    BY <1>10 DEF SyncRan, TypeInv, RunningMeansRun, Threads
  <2> QED
    BY <1>10, <2>1, HeldRan DEF SyncRan, TypeInv
<1>11. ASSUME NEW w \in Workers, WorkerRan(w)
       PROVE  Held'
  <2>1. running[w] # NoTask /\ w \in Threads
    BY <1>11 DEF WorkerRan, TypeInv, RunningMeansRun, Threads
  <2> QED
    BY <1>11, <2>1, HeldRan DEF WorkerRan, TypeInv
<1> QED
  BY <1>1, <1>2, <1>3, <1>4, <1>5, <1>6, <1>7, <1>8, <1>9, <1>10, <1>11
  DEF Next, SyncStep, WorkerStep

\* Initially no task has been handed over.
LEMMA HeldInit ==
    ASSUME Init
    PROVE  Held
BY ConstantsAssumption DEF Init, Held, QueuedIsKnown, NothingForgotten, TakenOnce

\* With any number of clients and workers, m_jobs counts exactly the tasks
\* the workers run, and every task that was queued is held in one place.
THEOREM PoolInvariant == Spec => []PoolInv
<1>1. Init => TypeInv /\ Held
  BY TypeInit, HeldInit
<1>2. TypeInv /\ Held /\ [Next]_vars => TypeInv' /\ Held'
  BY TypeStep, HeldStep
<1>3. TypeInv /\ Held => PoolInv
  BY DEF TypeInv, Held, PoolInv
<1> QED
  BY <1>1, <1>2, <1>3, PTL DEF Spec

\* A task that is held in one place is placed exactly once.
LEMMA PlacedOnce ==
    ASSUME PoolInv
    PROVE  TasksRunOnce
<1> SUFFICES ASSUME NEW t \in Tasks
             PROVE  Placed(t) = IF owner[t] = Nobody THEN 0 ELSE 1
  BY DEF TasksRunOnce
<1> DEFINE InQueue == {i \in 1..Len(m_queue) : m_queue[i] = t}
           InHand == {th \in Threads : running[th] = t}
<1>1. /\ DOMAIN m_queue = 1..Len(m_queue)
      /\ t # NoTask
  BY ConstantsAssumption DEF PoolInv, TypeOK
<1>2. Placed(t) = Cardinality(InQueue) + Cardinality(InHand) + (IF t \in finished THEN 1 ELSE 0)
  BY DEF Placed
<1> HIDE DEF InQueue, InHand
<1>3. Cardinality({}) = 0 /\ \A x : Cardinality({x}) = 1
  BY FS_EmptySet, FS_Singleton
<1>4. CASE owner[t] = Nobody
  <2>1. InQueue = {} /\ InHand = {} /\ t \notin finished
    BY <1>1, <1>4 DEF InQueue, InHand, PoolInv, QueuedIsKnown
  <2> QED
    BY <1>2, <1>3, <1>4, <2>1
<1>5. CASE owner[t] # Nobody /\ t \in finished
  <2>1. InQueue = {} /\ InHand = {}
    BY <1>1, <1>5 DEF InQueue, InHand, PoolInv, QueuedIsKnown
  <2> QED
    BY <1>2, <1>3, <1>5, <2>1
<1>6. ASSUME owner[t] # Nobody, NEW i \in DOMAIN m_queue, m_queue[i] = t
      PROVE  Placed(t) = 1
  <2>1. InQueue = {i} /\ InHand = {} /\ t \notin finished
    BY <1>1, <1>6 DEF InQueue, InHand, PoolInv, QueuedIsKnown, TakenOnce
  <2>2. Cardinality(InQueue) = 1 /\ Cardinality(InHand) = 0
    BY <1>3, <2>1, Zenon
  <2> QED
    BY <1>2, <2>1, <2>2
<1>7. ASSUME owner[t] # Nobody, NEW th \in Threads, running[th] = t
      PROVE  Placed(t) = 1
  <2>1. InQueue = {} /\ InHand = {th} /\ t \notin finished
    BY <1>1, <1>7 DEF InQueue, InHand, PoolInv, QueuedIsKnown, TakenOnce
  <2>2. Cardinality(InQueue) = 0 /\ Cardinality(InHand) = 1
    BY <1>3, <2>1, Zenon
  <2> QED
    BY <1>2, <2>1, <2>2
<1> QED
  BY <1>4, <1>5, <1>6, <1>7 DEF PoolInv, NothingForgotten

\* No task is lost and none runs twice, for any number of clients calling
\* Queue and Sync concurrently and any number of workers.
THEOREM NoTaskLostOrRepeated == Spec => []TasksRunOnce
BY PoolInvariant, PlacedOnce, PTL

-----------------------------------------------------------------------------
(* Sync is a barrier for a single client, provided tasks do not queue      *)
(* tasks or condition variables do not wake up spuriously.                 *)

\* While m_jobs is zero no worker runs a task.
LEMMA NoJobsNoWorkers ==
    ASSUME TypeInv, NEW w \in Workers, pc[w] = "run"
    PROVE  m_jobs # 0
<1>1. w \in RunningWorkers
  BY DEF RunningWorkers
<1>2. RunningWorkers # {}
  BY <1>1
<1> QED
  BY <1>2, RunningFinite, FS_EmptySet DEF TypeInv, RunningIsCounted, RunningWorkers

\* Every step keeps a woken caller of Sync safe to return.
LEMMA SafeStep ==
    ASSUME NEW main, Clients = {main}, ~(Nesting /\ Spurious),
           TypeInv, SafeToReturn, [Next]_vars
    PROVE  SafeToReturn'
<1> USE DEF Threads
<1>0. /\ pc \in [Threads -> ClientPC \cup WorkerPC]
      /\ main \in Threads /\ main \in Clients /\ main \notin Workers
      /\ Nesting \in BOOLEAN
  BY ConstantsAssumption DEF TypeInv, TypeOK
<1>1. ASSUME UNCHANGED <<m_queue, m_jobs>>, pc'[main] = pc[main]
      PROVE  SafeToReturn'
  BY <1>1 DEF SafeToReturn
<1>2. CASE UNCHANGED vars
  BY <1>1, <1>2 DEF vars
<1>3. ASSUME NEW w \in Workers, CreateWorker(w) \/ WorkerBlock(w) \/ WorkerExit(w)
      PROVE  SafeToReturn'
  BY <1>0, <1>1, <1>3 DEF CreateWorker, WorkerBlock, WorkerExit
<1>4. ASSUME WaitInit(main) \/ WaitInitLocked(main) \/ Sync(main) \/ SyncTake(main) \/ SyncRan(main)
      PROVE  SafeToReturn'
  BY <1>0, <1>4 DEF WaitInit, WaitInitLocked, Sync, SyncTake, SyncRan, SafeToReturn
<1>5. ASSUME SyncDrained(main) \/ SyncWoken(main)
      PROVE  SafeToReturn'
  BY <1>0, <1>5 DEF SyncDrained, SyncWoken, ReturnOrBlock, SafeToReturn
<1>6. ASSUME NEW t \in Tasks, Queue(main, t)
      PROVE  SafeToReturn'
  <2>1. pc'[main] = "user"
    BY <1>0, <1>6, NotifyMovesWorker DEF Queue, Push, TypeInv
  <2> QED
    BY <2>1 DEF SafeToReturn
<1>7. ASSUME NEW th \in Threads, NEW t \in Tasks, QueueFromTask(th, t)
      PROVE  SafeToReturn'
  <2>1. Nesting /\ pc[th] = "run"
    BY <1>7 DEF QueueFromTask, TypeInv, RunningMeansRun
  <2>2. pc[main] # "woken"
    BY <1>0, <2>1, NoJobsNoWorkers DEF SafeToReturn
  <2>3. pc'[main] = pc[main]
    BY <1>0, <1>7, NotifyMovesWorker DEF QueueFromTask, Push, TypeInv
  <2> QED
    BY <2>1, <2>2, <2>3 DEF SafeToReturn
<1>8. ASSUME NEW w \in Workers, WorkerTake(w)
      PROVE  SafeToReturn'
  BY <1>0, <1>8 DEF WorkerTake, SafeToReturn
<1>9. ASSUME NEW w \in Workers, WorkerRan(w)
      PROVE  SafeToReturn'
  <2>1. m_jobs # 0 /\ m_jobs \in Nat /\ m_jobs' = m_jobs - 1 /\ m_queue' = m_queue
    BY <1>9, NoJobsNoWorkers DEF WorkerRan, TypeInv, TypeOK
  <2>2. \/ pc'[main] = pc[main]
        \/ pc[main] = "blocked" /\ pc'[main] = "woken" /\ m_jobs = 1 /\ m_queue = <<>>
    BY <1>0, <1>9 DEF WorkerRan, Waiting
  <2> QED
    BY <2>1, <2>2 DEF SafeToReturn
<1>10. ASSUME NEW th \in Threads, SpuriousWakeup(th)
       PROVE  SafeToReturn'
  BY <1>0, <1>10 DEF SpuriousWakeup, SafeToReturn
<1>11. CASE Destroy \/ DestroyStep
  BY <1>0, <1>1, <1>11
  DEF Destroy, DestroyStep, DestroyWaitInit, DestroySetExit, DestroyNotify, DestroyJoin, Waiting
<1> QED
  BY <1>2, <1>3, <1>4, <1>5, <1>6, <1>7, <1>8, <1>9, <1>10, <1>11
  DEF Next, SyncStep, WorkerStep

\* The inductive invariant for a single client.
THEOREM SyncInvariant ==
    ASSUME NEW main, Clients = {main}, ~(Nesting /\ Spurious)
    PROVE  Spec => []SyncInv
<1>1. Init => TypeInv /\ Held /\ SafeToReturn
  BY TypeInit, HeldInit DEF Init, SafeToReturn, Threads
<1>2. TypeInv /\ Held /\ SafeToReturn /\ [Next]_vars => TypeInv' /\ Held' /\ SafeToReturn'
  BY TypeStep, HeldStep, SafeStep
<1>3. TypeInv /\ Held /\ SafeToReturn => SyncInv
  BY DEF TypeInv, Held, PoolInv, SyncInv
<1> QED
  BY <1>1, <1>2, <1>3, PTL DEF Spec

\* When a caller of Sync returns, everything queued for it is finished: nothing
\* is queued, no worker runs anything, and the caller is the only client.
LEMMA AllFinished ==
    ASSUME NEW main, Clients = {main}, TypeInv, Held,
           pc[main] # "run", m_queue = <<>>, m_jobs = 0
    PROVE  \A t \in Tasks : owner[t] # Nobody => t \in finished
<1>1. \A th \in Threads : running[th] = NoTask
  BY NoJobsNoWorkers DEF Threads, TypeInv, RunningMeansRun
<1>2. \A t \in Tasks : \A th \in Threads : running[th] # t
  BY <1>1, ConstantsAssumption
<1> QED
  BY <1>2 DEF Held, NothingForgotten

\* Every step of the pool is a step of the barrier or changes nothing in it.
LEMMA BarrierStep ==
    ASSUME NEW main, Clients = {main}, TypeInv, Held, SafeToReturn, [Next]_vars
    PROVE  [Barrier!Next]_Barrier!vars
<1> DEFINE S == {c \in Clients : pc[c] \in InSync}
<1>0. /\ pc \in [Threads -> ClientPC \cup WorkerPC]
      /\ main \in Threads /\ main \in Clients /\ main \notin Workers
      /\ main # Nobody
  BY ConstantsAssumption DEF TypeInv, TypeOK, Threads
<1>1. ASSUME UNCHANGED <<owner, finished>>, pc'[main] \in InSync <=> pc[main] \in InSync
      PROVE  UNCHANGED Barrier!vars
  <2>1. S' = S
    BY <1>1
  <2> QED
    BY <1>1, <2>1 DEF Barrier!vars
<1>2. CASE UNCHANGED vars
  BY <1>1, <1>2 DEF vars
<1>3. ASSUME NEW w \in Workers, CreateWorker(w) \/ WorkerBlock(w) \/ WorkerExit(w) \/ WorkerTake(w)
      PROVE  UNCHANGED Barrier!vars
  BY <1>0, <1>1, <1>3 DEF CreateWorker, WorkerBlock, WorkerExit, WorkerTake
<1>4. ASSUME WaitInit(main) \/ WaitInitLocked(main) \/ SyncTake(main)
      PROVE  UNCHANGED Barrier!vars
  BY <1>0, <1>1, <1>4 DEF WaitInit, WaitInitLocked, SyncTake, InSync
<1>5. ASSUME NEW th \in Threads, SpuriousWakeup(th)
      PROVE  UNCHANGED Barrier!vars
  BY <1>0, <1>1, <1>5 DEF SpuriousWakeup, InSync
<1>6. CASE Destroy \/ DestroyStep
  BY <1>0, <1>1, <1>6
  DEF Destroy, DestroyStep, DestroyWaitInit, DestroySetExit, DestroyNotify, DestroyJoin, Waiting
<1>7. ASSUME NEW t \in Tasks, Queue(main, t)
      PROVE  Barrier!Submit(main, t)
  <2>1. pc'[main] = pc[main] /\ pc[main] = "user"
    BY <1>0, <1>7, NotifyMovesWorker DEF Queue, Push, TypeInv
  <2>2. S' = S /\ main \notin S
    BY <2>1 DEF InSync
  <2> QED
    BY <1>7, <2>2 DEF Barrier!Submit, Queue, Push
<1>8. ASSUME NEW th \in Threads, NEW t \in Tasks, QueueFromTask(th, t)
      PROVE  Barrier!Spawn(running[th], t) /\ running[th] \in Tasks
  <2>1. pc'[main] = pc[main]
    BY <1>0, <1>8, NotifyMovesWorker DEF QueueFromTask, Push, TypeInv
  <2>2. S' = S
    BY <2>1
  <2>3. /\ running[th] \in Tasks
        /\ owner[running[th]] # Nobody /\ running[th] \notin finished
    BY <1>8 DEF QueueFromTask, Held, QueuedIsKnown, TypeInv, TypeOK
  <2> QED
    BY <1>8, <2>2, <2>3 DEF Barrier!Spawn, QueueFromTask, Push
<1>9. ASSUME Sync(main)
      PROVE  Barrier!Enter(main)
  <2>1. S' = S \cup {main} /\ main \notin S
    BY <1>0, <1>9 DEF Sync, InSync
  <2> QED
    BY <1>9, <2>1 DEF Barrier!Enter, Sync
<1>10. ASSUME SyncRan(main)
       PROVE  Barrier!Finish(running[main]) /\ running[main] \in Tasks
  <2>1. S' = S
    BY <1>0, <1>10 DEF SyncRan, InSync
  <2>2. /\ running[main] \in Tasks
        /\ owner[running[main]] # Nobody /\ running[main] \notin finished
    BY <1>0, <1>10 DEF SyncRan, Held, QueuedIsKnown, TypeInv, TypeOK, RunningMeansRun
  <2> QED
    BY <1>10, <2>1, <2>2 DEF Barrier!Finish, SyncRan
<1>11. ASSUME NEW w \in Workers, WorkerRan(w)
       PROVE  Barrier!Finish(running[w]) /\ running[w] \in Tasks
  <2>1. \/ pc'[main] = pc[main]
        \/ pc[main] = "blocked" /\ pc'[main] = "woken"
    BY <1>0, <1>11 DEF WorkerRan, Waiting
  <2>2. S' = S
    BY <2>1 DEF InSync
  <2>3. /\ running[w] \in Tasks
        /\ owner[running[w]] # Nobody /\ running[w] \notin finished
    BY <1>11 DEF WorkerRan, Held, QueuedIsKnown, TypeInv, TypeOK, RunningMeansRun, Threads
  <2> QED
    BY <1>11, <2>2, <2>3 DEF Barrier!Finish, WorkerRan
<1>12. ASSUME SyncDrained(main) \/ SyncWoken(main)
       PROVE  Barrier!Leave(main) \/ UNCHANGED Barrier!vars
  <2>1. pc[main] \in {"sync", "woken"} /\ m_queue = <<>> /\ ReturnOrBlock(main)
    BY <1>0, <1>12 DEF SyncDrained, SyncWoken, SafeToReturn
  <2>2. CASE m_jobs = 0
    <3>1. \A t \in Tasks : owner[t] = main => t \in finished
      BY <1>0, <2>1, <2>2, AllFinished
    <3>2. S' = S \ {main} /\ main \in S
      BY <1>0, <2>1, <2>2 DEF ReturnOrBlock, InSync
    <3> QED
      BY <2>1, <3>1, <3>2 DEF Barrier!Leave, ReturnOrBlock
  <2>3. CASE m_jobs # 0
    BY <1>0, <1>1, <2>1, <2>3 DEF ReturnOrBlock, InSync
  <2> QED
    BY <2>2, <2>3
<1> QED
  BY <1>2, <1>3, <1>4, <1>5, <1>6, <1>7, <1>8, <1>9, <1>10, <1>11, <1>12
  DEF Next, SyncStep, WorkerStep, Barrier!Next

\* For a single client and any number of workers and tasks, the pool
\* implements the barrier its users rely on, unless tasks queue tasks and, at
\* the same time, condition variables wake up spuriously.
THEOREM SyncImplementsBarrier ==
    ASSUME NEW main, Clients = {main}, ~(Nesting /\ Spurious)
    PROVE  Spec => SyncIsBarrier
<1>1. Init => TypeInv /\ Held /\ SafeToReturn
  BY TypeInit, HeldInit DEF Init, SafeToReturn, Threads
<1>2. TypeInv /\ Held /\ SafeToReturn /\ [Next]_vars => TypeInv' /\ Held' /\ SafeToReturn'
  BY TypeStep, HeldStep, SafeStep
<1>3. Init => Barrier!Init
  BY ConstantsAssumption DEF Init, Barrier!Init, Threads, InSync
<1>4. TypeInv /\ Held /\ SafeToReturn /\ [Next]_vars => [Barrier!Next]_Barrier!vars
  BY BarrierStep
<1> QED
  BY <1>1, <1>2, <1>3, <1>4, PTL DEF Spec, SyncIsBarrier, Barrier!Spec
-----------------------------------------------------------------------------
(* What is left when the destructor has returned.                          *)

\* m_init is joined once it has created every worker, by whoever comes first;
\* the destructor waits for it, and no client is in the pool any more.
QuietInv ==
    /\ joins = IF m_initDone THEN 1 ELSE 0
    /\ m_initDone => InitThreadEnded
    /\ life # "live" => \A c \in Clients : pc[c] = "user"
    /\ life \notin {"live", "init"} => m_initDone
    /\ life = "gone" => \A w \in Workers : pc[w] = "exited"

\* A step creates workers and lets them exit, but takes back neither, and lets
\* clients into the pool only while it lives.
LEMMA ThreadsMoveOn ==
    ASSUME TypeOK, Next
    PROVE  /\ \A w \in Workers : pc'[w] = "unborn" => pc[w] = "unborn"
           /\ \A w \in Workers : pc[w] = "exited" => pc'[w] = "exited"
           /\ \A c \in Clients : pc[c] = "user" => pc'[c] = "user" \/ life = "live"
<1> USE DEF Threads
<1>a. Clients \cap Workers = {}
  BY ConstantsAssumption
<1>1. ASSUME NEW w \in Workers, CreateWorker(w) \/ WorkerBlock(w) \/ WorkerExit(w) \/ WorkerTake(w)
      PROVE  /\ pc[w] \in {"unborn", "idle"}
             /\ \E there \in {"idle", "blocked", "exited", "run"} : pc' = [pc EXCEPT ![w] = there]
  BY <1>1 DEF CreateWorker, WorkerBlock, WorkerExit, WorkerTake
<1>2. CASE \E w \in Workers : CreateWorker(w) \/ WorkerBlock(w) \/ WorkerExit(w) \/ WorkerTake(w)
  BY <1>a, <1>1, <1>2 DEF TypeOK
<1>3. CASE \E w \in Workers : WorkerRan(w)
  <2>1. PICK w \in Workers : WorkerRan(w)
    BY <1>3
  <2>2. /\ pc[w] = "run"
        /\ pc' = [th \in Threads |->
                    IF th = w THEN "idle"
                    ELSE IF m_jobs = 1 /\ m_queue = <<>> /\ th \in Waiting(Clients) THEN "woken"
                    ELSE pc[th]]
    BY <2>1 DEF WorkerRan
  <2>3. \A th \in Threads : pc'[th] = pc[th] \/ (th = w /\ pc'[th] = "idle") \/ th \in Waiting(Clients)
    BY <2>2
  <2>4. QED
    BY <1>a, <2>2, <2>3 DEF Waiting
<1>4. ASSUME NEW c \in Clients, WaitInit(c) \/ WaitInitLocked(c) \/ Sync(c) \/ SyncStep(c)
      PROVE  /\ pc[c] = "user" => life = "live"
             /\ \E there \in ClientPC : pc' = [pc EXCEPT ![c] = there]
  BY <1>4 DEF WaitInit, WaitInitLocked, Sync, SyncStep, SyncTake, SyncRan, SyncDrained, SyncWoken,
              ReturnOrBlock, ClientPC, InSync
<1>5. CASE \E c \in Clients : WaitInit(c) \/ WaitInitLocked(c) \/ Sync(c) \/ SyncStep(c)
  BY <1>a, <1>4, <1>5 DEF TypeOK
<1>6. CASE NotifyWork
  BY <1>a, <1>6, NotifyMovesWorker
<1>7. CASE \E th \in Threads : SpuriousWakeup(th)
  <2>1. PICK th \in Threads : SpuriousWakeup(th)
    BY <1>7
  <2>2. /\ pc[th] = "blocked"
        /\ pc' = [pc EXCEPT ![th] = IF th \in Workers THEN "idle" ELSE "woken"]
    BY <2>1 DEF SpuriousWakeup
  <2>3. QED
    BY <1>a, <2>2 DEF TypeOK
<1>8. CASE DestroyNotify
  <2>1. pc' = [th \in Threads |-> IF th \in Waiting(Workers) THEN "idle" ELSE pc[th]]
    BY <1>8 DEF DestroyNotify
  <2>2. QED
    BY <1>a, <2>1 DEF Waiting
<1>9. CASE UNCHANGED pc
  BY <1>9
<1>10. QED
  BY <1>2, <1>3, <1>5, <1>6, <1>7, <1>8, <1>9
  DEF Next, WorkerStep, Queue, QueueFromTask, Push, Destroy, DestroyStep, DestroyWaitInit,
      DestroySetExit, DestroyJoin

\* Who joins m_init, and how the destructor goes on.
LEMMA PoolMovesOn ==
    ASSUME Next
    PROVE  /\ \/ UNCHANGED <<m_initDone, joins>>
              \/ ~m_initDone /\ InitThreadEnded /\ joins' = joins + 1 /\ m_initDone' = TRUE
           /\ \/ life' = life
              \/ life' = "init" /\ \A c \in Clients : pc'[c] = "user"
              \/ life' = "setExit" /\ life = "init" /\ m_initDone'
              \/ life' = "notify" /\ life = "setExit"
              \/ life' = "join" /\ life = "notify"
              \/ life' = "gone" /\ life = "join" /\ \A w \in Workers : pc'[w] \in {"exited", "unborn"}
<1>1. CASE DestroyStep \/ Destroy
  BY <1>1 DEF DestroyStep, Destroy, DestroyWaitInit, DestroySetExit, DestroyNotify, DestroyJoin, JoinInit
<1>2. CASE \E c \in Clients : WaitInitLocked(c)
  BY <1>2 DEF WaitInitLocked, JoinInit
<1>3. CASE UNCHANGED <<m_initDone, joins, life>>
  BY <1>3
<1>4. QED
  BY <1>1, <1>2, <1>3
  DEF Next, CreateWorker, WorkerStep, WorkerBlock, WorkerExit, WorkerTake, WorkerRan, WaitInit, Sync,
      SyncStep, SyncTake, SyncRan, SyncDrained, SyncWoken, ReturnOrBlock, Queue, QueueFromTask, Push,
      SpuriousWakeup

LEMMA QuietStep == TypeOK /\ QuietInv /\ [Next]_vars => QuietInv'
<1> SUFFICES ASSUME TypeOK, QuietInv, [Next]_vars
             PROVE  QuietInv'
  OBVIOUS
<1>1. CASE UNCHANGED vars
  BY <1>1 DEF vars, QuietInv, InitThreadEnded
<1>2. CASE Next
  <2>1. joins' = IF m_initDone' THEN 1 ELSE 0
    <3>1. joins = IF m_initDone THEN 1 ELSE 0
      BY DEF QuietInv
    <3>2. \/ UNCHANGED <<m_initDone, joins>>
          \/ ~m_initDone /\ joins' = joins + 1 /\ m_initDone' = TRUE
      BY <1>2, PoolMovesOn
    <3>3. QED
      BY <3>1, <3>2
  <2>2. m_initDone' => InitThreadEnded'
    BY <1>2, PoolMovesOn, ThreadsMoveOn DEF QuietInv, InitThreadEnded
  <2>3. life' # "live" => \A c \in Clients : pc'[c] = "user"
    BY <1>2, PoolMovesOn, ThreadsMoveOn DEF QuietInv
  <2>4. m_initDone => m_initDone'
    BY <1>2, PoolMovesOn
  <2>5. life' \notin {"live", "init"} => m_initDone'
    BY <1>2, <2>4, PoolMovesOn DEF QuietInv
  <2>6. life' = "gone" => \A w \in Workers : pc'[w] = "exited"
    BY <1>2, <2>2, <2>5, PoolMovesOn, ThreadsMoveOn DEF QuietInv, InitThreadEnded
  <2>7. QED
    BY <2>1, <2>2, <2>3, <2>5, <2>6 DEF QuietInv
<1>3. QED
  BY <1>1, <1>2

\* For any number of clients, workers and tasks: m_init is joined at most once,
\* and when the destructor has returned every worker has come and gone.
THEOREM DestructorLeavesNothing == Spec => []GoneMeansQuiet
<1>1. Init => QuietInv
  BY DEF Init, QuietInv
<1>2. TypeInv /\ QuietInv => GoneMeansQuiet
  <2> SUFFICES ASSUME TypeInv, QuietInv PROVE GoneMeansQuiet
    OBVIOUS
  <2>1. joins <= 1
    BY DEF QuietInv
  <2>2. ASSUME life = "gone", NEW th \in Threads
        PROVE  running[th] = NoTask
    BY <2>2, ConstantsAssumption DEF QuietInv, TypeInv, RunningMeansRun, Threads
  <2>3. QED
    BY <2>1, <2>2 DEF QuietInv, GoneMeansQuiet
<1>3. TypeInv => TypeOK
  BY DEF TypeInv
<1>4. QED
  BY <1>1, <1>2, <1>3, QuietStep, TypeInit, TypeStep, PTL DEF Spec
=============================================================================

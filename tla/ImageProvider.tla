---------------------------- MODULE ImageProvider ----------------------------
(***************************************************************************)
(* The background image loader of tools/iv/ImageProvider.cpp: a stack of   *)
(* jobs, one worker thread that takes the newest job, and a callback that  *)
(* answers every job with Success, Error or Cancelled.                     *)
(*                                                                         *)
(* One critical section of m_lock is one action.  Cancel and CancelAll     *)
(* make their callbacks after the lock is released: the jobs they took out *)
(* wait in dropped until the calling thread has answered them.  The thread *)
(* that owns the provider is the only one that calls it.                   *)
(***************************************************************************)
EXTENDS Integers, SequencesExt

CONSTANT MaxJobs    \* bound on the number of jobs (m_nextId counts without bound)

ASSUME MaxJobsAssumption == MaxJobs \in Nat

None == -1

Ids == 0 .. MaxJobs - 1

Results == {"Success", "Error", "Cancelled"}

VARIABLES
    m_jobs,         \* ids of the jobs nobody has taken, oldest first
    m_currentJob,   \* id of the job being loaded, None if there is none or it was cancelled
    m_nextId,       \* number of jobs so far
    m_shutdown,
    dropped,        \* jobs taken out by Cancel or CancelAll, callback still to come
    worker,         \* where the worker thread stands
    job,            \* the job it has taken
    result,         \* what it will answer
    answers         \* the answers each job has received

providerVars == <<m_jobs, m_currentJob, m_nextId, m_shutdown, dropped, worker, job, result, answers>>

\* The type invariant of the provider.
ProviderTypeOK ==
    /\ m_jobs \in Seq(Ids)
    /\ m_currentJob \in Ids \cup {None}
    /\ m_nextId \in 0 .. MaxJobs
    /\ m_shutdown \in BOOLEAN
    /\ dropped \in Seq(Ids)
    /\ worker \in {"top", "blocked", "load", "check", "answer", "exited"}
    /\ job \in Ids \cup {None}
    /\ result \in Results
    /\ answers \in [Ids -> Seq(Results)]

ProviderInit ==
    /\ m_jobs = <<>>
    /\ m_currentJob = None
    /\ m_nextId = 0
    /\ m_shutdown = FALSE
    /\ dropped = <<>>
    /\ worker = "top"
    /\ job = None
    /\ result = "Error"
    /\ answers = [i \in Ids |-> <<>>]

Answer(i, r) == answers' = [answers EXCEPT ![i] = Append(@, r)]

-----------------------------------------------------------------------------
(* Calls made by the owner.                                                *)

Notify == worker' = IF worker = "blocked" THEN "top" ELSE worker

LoadImage ==
    /\ m_nextId < MaxJobs
    /\ m_jobs' = Append(m_jobs, m_nextId)
    /\ m_nextId' = m_nextId + 1
    /\ Notify
    /\ UNCHANGED <<m_currentJob, m_shutdown, dropped, job, result, answers>>

\* Take a waiting job out of the stack, if it is there.
TakeOut(i) ==
    \/ \E n \in DOMAIN m_jobs :
          /\ m_jobs[n] = i
          /\ m_jobs' = RemoveAt(m_jobs, n)
          /\ dropped' = Append(dropped, i)
    \/ i \notin Range(m_jobs) /\ UNCHANGED <<m_jobs, dropped>>

CancelAnyCurrent(i) ==
    /\ \/ m_currentJob # None /\ m_currentJob' = None /\ UNCHANGED <<m_jobs, dropped>>
       \/ m_currentJob = None /\ TakeOut(i) /\ UNCHANGED m_currentJob
    /\ UNCHANGED <<m_nextId, m_shutdown, worker, job, result, answers>>

\* Mark the job being loaded, or take a waiting job out.
Cancel(i) ==
    /\ \/ m_currentJob = i /\ m_currentJob' = None /\ UNCHANGED <<m_jobs, dropped>>
       \/ m_currentJob # i /\ TakeOut(i) /\ UNCHANGED m_currentJob
    /\ UNCHANGED <<m_nextId, m_shutdown, worker, job, result, answers>>

CancelAllKeepsJobs ==
    /\ dropped' = m_jobs
    /\ m_currentJob' = None
    /\ UNCHANGED <<m_jobs, m_nextId, m_shutdown, worker, job, result, answers>>

CancelAll ==
    /\ dropped' = m_jobs
    /\ m_jobs' = <<>>
    /\ m_currentJob' = None
    /\ UNCHANGED <<m_nextId, m_shutdown, worker, job, result, answers>>

AnswerDropped ==
    /\ dropped # <<>>
    /\ dropped' = Tail(dropped)
    /\ Answer(Head(dropped), "Cancelled")
    /\ UNCHANGED <<m_jobs, m_currentJob, m_nextId, m_shutdown, worker, job, result>>

\* The destructor up to its join.
Shutdown ==
    /\ m_shutdown' = TRUE
    /\ Notify
    /\ UNCHANGED <<m_jobs, m_currentJob, m_nextId, dropped, job, result, answers>>

-----------------------------------------------------------------------------
(* The worker thread.                                                      *)

WorkerExit ==
    /\ worker = "top" /\ m_shutdown
    /\ worker' = "exited"
    /\ UNCHANGED <<m_jobs, m_currentJob, m_nextId, m_shutdown, dropped, job, result, answers>>

WorkerBlock ==
    /\ worker = "top" /\ ~m_shutdown
    /\ m_jobs = <<>>
    /\ m_currentJob' = None
    /\ worker' = "blocked"
    /\ UNCHANGED <<m_jobs, m_nextId, m_shutdown, dropped, job, result, answers>>

WorkerTakeUnmarked ==
    /\ worker = "top" /\ ~m_shutdown
    /\ m_jobs # <<>>
    /\ job' = Last(m_jobs)
    /\ m_jobs' = Front(m_jobs)
    /\ m_currentJob' = None
    /\ worker' = "load"
    /\ UNCHANGED <<m_nextId, m_shutdown, dropped, result, answers>>

WorkerTake ==
    /\ worker = "top" /\ ~m_shutdown
    /\ m_jobs # <<>>
    /\ job' = Last(m_jobs)
    /\ m_jobs' = Front(m_jobs)
    /\ m_currentJob' = Last(m_jobs)
    /\ worker' = "load"
    /\ UNCHANGED <<m_nextId, m_shutdown, dropped, result, answers>>

\* The loaders: an image, or none.
WorkerLoad(r) ==
    /\ worker = "load"
    /\ result' = r
    /\ worker' = "check"
    /\ UNCHANGED <<m_jobs, m_currentJob, m_nextId, m_shutdown, dropped, job, answers>>

WorkerCheck ==
    /\ worker = "check"
    /\ result' = IF m_currentJob = None THEN "Cancelled" ELSE result
    /\ worker' = "answer"
    /\ UNCHANGED <<m_jobs, m_currentJob, m_nextId, m_shutdown, dropped, job, answers>>

\* The callback has returned; the loop takes m_lock again.
WorkerAnswer ==
    /\ worker = "answer"
    /\ Answer(job, result)
    /\ job' = None
    /\ worker' = "top"
    /\ UNCHANGED <<m_jobs, m_currentJob, m_nextId, m_shutdown, dropped, result>>
=============================================================================

------------------------- MODULE ImageLoadingProofs -------------------------
(***************************************************************************)
(* Proofs about ImageLoading for any number of jobs.                       *)
(***************************************************************************)
EXTENDS ImageLoading, SequenceTheorems, TLAPS

-----------------------------------------------------------------------------
(* Sequences without repetitions, seen as sets.                            *)

\* Appending a new element to a sequence without repetitions.
LEMMA AppendNew ==
    ASSUME NEW S, NEW s \in Seq(S), NEW e \in S, IsInjective(s), e \notin Range(s)
    PROVE  /\ Append(s, e) \in Seq(S)
           /\ IsInjective(Append(s, e))
           /\ Range(Append(s, e)) = Range(s) \cup {e}
<1>1. /\ DOMAIN s = 1 .. Len(s) /\ Len(s) \in Nat
      /\ DOMAIN Append(s, e) = 1 .. Len(s) + 1
      /\ \A i \in 1 .. Len(s) : Append(s, e)[i] = s[i]
      /\ Append(s, e)[Len(s) + 1] = e
  OBVIOUS
<1>2. IsInjective(Append(s, e))
  BY <1>1 DEF IsInjective, Range
<1>3. Range(Append(s, e)) = Range(s) \cup {e}
  BY <1>1 DEF Range
<1> QED
  BY <1>2, <1>3

\* Removing the last element.
LEMMA FrontOf ==
    ASSUME NEW S, NEW s \in Seq(S), IsInjective(s), s # <<>>
    PROVE  /\ Front(s) \in Seq(S)
           /\ IsInjective(Front(s))
           /\ Last(s) \in Range(s)
           /\ Range(Front(s)) = Range(s) \ {Last(s)}
<1>1. /\ DOMAIN s = 1 .. Len(s) /\ Len(s) \in Nat \ {0}
      /\ Front(s) \in Seq(S)
      /\ DOMAIN Front(s) = 1 .. Len(s) - 1
      /\ \A i \in 1 .. Len(s) - 1 : Front(s)[i] = s[i]
      /\ Last(s) = s[Len(s)]
  BY DEF Front, Last
<1>2. IsInjective(Front(s))
  BY <1>1 DEF IsInjective
<1>3. Last(s) \in Range(s)
  BY <1>1 DEF Range
<1>4. Range(Front(s)) = Range(s) \ {Last(s)}
  BY <1>1 DEF Range, IsInjective
<1> QED
  BY <1>1, <1>2, <1>3, <1>4

\* Removing the first element.
LEMMA TailOf ==
    ASSUME NEW S, NEW s \in Seq(S), IsInjective(s), s # <<>>
    PROVE  /\ Tail(s) \in Seq(S)
           /\ IsInjective(Tail(s))
           /\ Head(s) \in Range(s)
           /\ Range(Tail(s)) = Range(s) \ {Head(s)}
<1>1. /\ DOMAIN s = 1 .. Len(s) /\ Len(s) \in Nat \ {0}
      /\ Tail(s) \in Seq(S)
      /\ DOMAIN Tail(s) = 1 .. Len(s) - 1
      /\ \A i \in 1 .. Len(s) - 1 : Tail(s)[i] = s[i + 1]
      /\ Head(s) = s[1]
  OBVIOUS
<1>2. IsInjective(Tail(s))
  BY <1>1 DEF IsInjective
<1>3. Head(s) \in Range(s)
  BY <1>1 DEF Range
<1>4. Range(Tail(s)) \subseteq Range(s) \ {Head(s)}
  BY <1>1 DEF Range, IsInjective
<1>5. ASSUME NEW x \in Range(s) \ {Head(s)}
      PROVE  x \in Range(Tail(s))
  <2>1. PICK i \in 2 .. Len(s) : s[i] = x
    BY <1>1 DEF Range
  <2>2. i - 1 \in DOMAIN Tail(s) /\ Tail(s)[i - 1] = x
    BY <1>1, <2>1
  <2> QED
    BY <2>2 DEF Range
<1> QED
  BY <1>1, <1>2, <1>3, <1>4, <1>5

\* Removing the element at some position.
LEMMA RemovedFrom ==
    ASSUME NEW S, NEW s \in Seq(S), NEW n \in DOMAIN s, IsInjective(s)
    PROVE  /\ RemoveAt(s, n) \in Seq(S)
           /\ IsInjective(RemoveAt(s, n))
           /\ Range(RemoveAt(s, n)) = Range(s) \ {s[n]}
<1> DEFINE before == SubSeq(s, 1, n - 1)
           after == SubSeq(s, n + 1, Len(s))
<1>1. DOMAIN s = 1 .. Len(s) /\ Len(s) \in Nat /\ n \in 1 .. Len(s)
  OBVIOUS
<1>2. /\ before \in Seq(S) /\ Len(before) = n - 1
      /\ \A i \in 1 .. n - 1 : before[i] = s[i]
      /\ after \in Seq(S) /\ Len(after) = Len(s) - n
      /\ \A i \in 1 .. Len(s) - n : after[i] = s[n + i]
  BY <1>1, SMTT(60)
<1> HIDE DEF before, after
<1>3. PICK r : r = RemoveAt(s, n) /\ r = before \o after
  BY DEF RemoveAt, before, after
<1>4. /\ r \in Seq(S)
      /\ Len(r) = Len(s) - 1
      /\ DOMAIN r = 1 .. Len(s) - 1
      /\ \A i \in 1 .. Len(s) - 1 : r[i] = IF i < n THEN s[i] ELSE s[i + 1]
  <2>1. /\ r \in Seq(S) /\ Len(r) = Len(s) - 1
        /\ \A i \in 1 .. Len(s) - 1 : r[i] = IF i <= n - 1 THEN before[i] ELSE after[i - (n - 1)]
    <3>1. /\ before \o after \in Seq(S)
          /\ Len(before \o after) = Len(before) + Len(after)
          /\ \A i \in 1 .. Len(before) + Len(after) :
                (before \o after)[i] = IF i <= Len(before) THEN before[i] ELSE after[i - Len(before)]
      BY <1>2, ConcatProperties
    <3>2. Len(before) + Len(after) = Len(s) - 1
      BY <1>1, <1>2
    <3> QED
      BY <1>2, <1>3, <3>1, <3>2
  <2>2. DOMAIN r = 1 .. Len(s) - 1
    BY <1>1, <2>1
  <2>3. ASSUME NEW i \in 1 .. Len(s) - 1
        PROVE  r[i] = IF i < n THEN s[i] ELSE s[i + 1]
    <3>1. CASE i < n
      <4>1. i \in 1 .. n - 1 /\ i <= n - 1
        BY <1>1, <3>1
      <4>2. before[i] = s[i]
        BY <1>2, <4>1
      <4> QED
        BY <2>1, <3>1, <4>1, <4>2
    <3>2. CASE i >= n
      <4>1. i - (n - 1) \in 1 .. Len(s) - n /\ n + (i - (n - 1)) = i + 1
        BY <1>1, <3>2
      <4>2. after[i - (n - 1)] = s[i + 1]
        BY <1>2, <4>1
      <4>3. ~(i <= n - 1) /\ ~(i < n)
        BY <1>1, <3>2
      <4> QED
        BY <2>1, <4>2, <4>3
    <3> QED
      BY <1>1, <3>1, <3>2
  <2> QED
    BY <2>1, <2>2, <2>3
<1>5. \A i, j \in 1 .. Len(s) : s[i] = s[j] => i = j
  BY <1>1 DEF IsInjective
<1>6. IsInjective(r)
  <2> SUFFICES ASSUME NEW i \in 1 .. Len(s) - 1, NEW j \in 1 .. Len(s) - 1, r[i] = r[j]
               PROVE  i = j
    BY <1>4 DEF IsInjective
  <2> QED
    BY <1>1, <1>4, <1>5
<1>7. Range(r) \subseteq Range(s) \ {s[n]}
  <2> SUFFICES ASSUME NEW i \in 1 .. Len(s) - 1
               PROVE  r[i] \in Range(s) \ {s[n]}
    BY <1>4 DEF Range
  <2>1. PICK j \in 1 .. Len(s) : r[i] = s[j] /\ j # n
    BY <1>1, <1>4
  <2>2. s[j] # s[n]
    BY <1>1, <1>5, <2>1
  <2> QED
    BY <1>1, <2>1, <2>2 DEF Range
<1>8. ASSUME NEW x \in Range(s) \ {s[n]}
      PROVE  x \in Range(r)
  <2>1. PICK i \in 1 .. Len(s) : s[i] = x /\ i # n
    BY <1>1 DEF Range
  <2>2. CASE i < n
    BY <1>1, <1>4, <2>1, <2>2 DEF Range
  <2>3. CASE i > n
    <3>1. i - 1 \in DOMAIN r /\ r[i - 1] = x
      BY <1>1, <1>4, <2>1, <2>3
    <3> QED
      BY <3>1 DEF Range
  <2> QED
    BY <1>1, <2>1, <2>2, <2>3
<1> QED
  BY <1>3, <1>4, <1>6, <1>7, <1>8

-----------------------------------------------------------------------------
(* The inductive invariant, in parts.                                      *)

Queued == Range(m_jobs)

Dropped == Range(dropped)

\* A job waits, has been taken out, is being loaded or has its answer, and only
\* one of these.
InOnePlace ==
    /\ IsInjective(m_jobs) /\ IsInjective(dropped)
    /\ Queued \cap Dropped = {} /\ job \notin Queued \cup Dropped
    /\ \A i \in Queued \cup Dropped : i < m_nextId /\ answers[i] = <<>>
    /\ job # None => job < m_nextId /\ answers[job] = <<>>
    /\ \A i \in Ids : answers[i] # <<>> => i < m_nextId /\ Len(answers[i]) = 1
    /\ m_currentJob \notin Queued /\ m_currentJob < m_nextId

\* No job is forgotten.
NoneForgotten ==
    \A i \in Ids : i < m_nextId => i \in Queued \cup Dropped \/ i = job \/ answers[i] # <<>>

\* Where the worker thread stands and what it has at hand.
WorkerHasJob ==
    /\ worker \in {"load", "check", "answer"} <=> job # None
    /\ worker \in {"load", "check"} => m_currentJob \in {job, None}
    /\ worker = "check" => result # "Cancelled"
    /\ handler # "fd" => worker = "answer"
    /\ handler = "bitmap" => result = "Success"

\* What the main thread holds and has done where it stands.
MainHolds ==
    /\ lock = "main" <=> main \in {"cancel", "push", "assign"}
    /\ main \in {"cancel", "assign"} => m_nextId > 0 /\ answers[m_nextId - 1] = <<>>
    /\ dropped # <<>> => main \in {"push", "assign", "quit"}
    /\ main = "assign" => m_nextId - 1 \notin Dropped
    /\ main \in {"push", "quit", "join", "gone"} => m_jobs = <<>>
    /\ main = "gone" => worker = "exited"

\* The viewport waits for the newest job, or for the one before while the
\* newest is being queued, or for none; older jobs do not wait in the provider.
WaitsForNewest ==
    /\ m_isBusy <=> v_currentJob # None
    /\ v_currentJob # None => answers[v_currentJob] = <<>>
    /\ v_currentJob # None =>
          v_currentJob = IF main \in {"cancel", "assign"} THEN m_nextId - 2 ELSE m_nextId - 1
    /\ \A i \in Queued : i = v_currentJob \/ (main \in {"cancel", "assign"} /\ i = m_nextId - 1)
    /\ main = "assign" => v_currentJob \notin Queued

\* Older images are never ahead: a job older than the image that is shown waits
\* only until the main thread, which is replacing it, has cancelled it.
ViewIsOlder ==
    /\ view < m_nextId /\ cut <= view
    /\ job # None => view <= job
    /\ (\E i \in Queued : i < view) => main = "cancel" /\ worker = "answer" /\ handler = "lock"

\* A job that is to be answered Cancelled has been superseded, or the viewer
\* is closing or about to load from a descriptor.
Superseded(i) == i < m_nextId - 1 \/ main \in {"push", "quit", "join", "gone"}

CancelledSuperseded ==
    /\ \A i \in Dropped : Superseded(i)
    /\ worker \in {"load", "check"} /\ m_currentJob = None => Superseded(job)
    /\ worker = "answer" /\ result = "Cancelled" => Superseded(job)
    /\ CancelledWasSuperseded

\* The title names the image shown, except between SetBitmap and the title's
\* change on the provider's thread.
TitleFollows ==
    IF worker = "answer" /\ handler = "lock" /\ result = "Success"
    THEN view = job \/ putBack
    ELSE m_origin = view \/ view = None \/ putBack

\* A descriptor is open until its job has been loaded or answered, and closed
\* by whoever owns it.
FdState(i) ==
    /\ i >= m_nextId => fd[i] = "none" /\ kind[i] = "path"
    /\ kind[i] = "path" => fd[i] = "none"
    /\ kind[i] = "clipboard" =>
          /\ fd[i] \in {"open", "closed"}
          /\ i \in Queued \/ (i = job /\ worker = "load") => fd[i] = "open"
    /\ kind[i] = "dnd" =>
          fd[i] = IF answers[i] # <<>> \/ (i = job /\ worker = "answer" /\ handler # "fd")
                  THEN "closed" ELSE "open"

FdsFollow == \A i \in Ids : FdState(i)

-----------------------------------------------------------------------------
(* What the provider's operations do, seen as sets of jobs.                *)

Core == TypeOK /\ InOnePlace /\ NoneForgotten /\ WorkerHasJob /\ MainHolds /\ WaitsForNewest

\* Waiting jobs and jobs that were taken out are jobs.
LEMMA JobsAreIds ==
    ASSUME ProviderTypeOK
    PROVE  Queued \subseteq Ids /\ Dropped \subseteq Ids
BY RangeOfSeq DEF ProviderTypeOK, Queued, Dropped

\* LoadImage queues a job that is new.
LEMMA LoadImageEffect ==
    ASSUME ProviderTypeOK, InOnePlace, LoadImage
    PROVE  /\ m_nextId \in Ids /\ m_nextId' \in 0 .. MaxJobs /\ m_nextId' = m_nextId + 1
           /\ m_nextId \notin Queued \cup Dropped /\ m_nextId # job /\ answers[m_nextId] = <<>>
           /\ m_jobs' \in Seq(Ids) /\ IsInjective(m_jobs')
           /\ Queued' = Queued \cup {m_nextId} /\ Dropped' = Dropped
<1>1. m_nextId \in Ids /\ m_nextId' \in 0 .. MaxJobs /\ m_nextId' = m_nextId + 1
  BY MaxJobsAssumption DEF ProviderTypeOK, LoadImage, Ids
<1>2. m_nextId \notin Queued \cup Dropped
  BY <1>1 DEF InOnePlace, Ids
<1>3. m_nextId # job /\ answers[m_nextId] = <<>>
  BY <1>1 DEF InOnePlace, Ids, None
<1>4. m_jobs' \in Seq(Ids) /\ IsInjective(m_jobs') /\ Range(m_jobs') = Range(m_jobs) \cup {m_nextId}
  BY <1>1, <1>2, AppendNew DEF LoadImage, ProviderTypeOK, InOnePlace, Queued
<1> QED
  BY <1>1, <1>2, <1>3, <1>4 DEF LoadImage, Queued, Dropped

\* Cancel marks the job being loaded, or moves a waiting job to those taken out.
LEMMA CancelEffect ==
    ASSUME ProviderTypeOK, InOnePlace, NEW i \in Ids, Cancel(i)
    PROVE  /\ m_jobs' \in Seq(Ids) /\ IsInjective(m_jobs')
           /\ dropped' \in Seq(Ids) /\ IsInjective(dropped')
           /\ \/ /\ m_currentJob = i /\ m_currentJob' = None
                 /\ Queued' = Queued /\ Dropped' = Dropped
              \/ /\ m_currentJob' = m_currentJob /\ m_currentJob # i
                 /\ Queued' = Queued \ {i} /\ Dropped' = Dropped \cup (Queued \cap {i})
<1>1. CASE UNCHANGED <<m_jobs, dropped>> /\ m_currentJob = i /\ m_currentJob' = None
  BY <1>1 DEF ProviderTypeOK, InOnePlace, Queued, Dropped
<1>2. CASE UNCHANGED <<m_jobs, dropped, m_currentJob>> /\ m_currentJob # i /\ i \notin Queued
  BY <1>2 DEF ProviderTypeOK, InOnePlace, Queued, Dropped
<1>3. ASSUME NEW n \in DOMAIN m_jobs, m_jobs[n] = i, m_jobs' = RemoveAt(m_jobs, n),
             dropped' = Append(dropped, i), m_currentJob' = m_currentJob, m_currentJob # i
      PROVE  /\ m_jobs' \in Seq(Ids) /\ IsInjective(m_jobs') /\ Queued' = Queued \ {i}
             /\ dropped' \in Seq(Ids) /\ IsInjective(dropped') /\ Dropped' = Dropped \cup (Queued \cap {i})
  <2>1. m_jobs' \in Seq(Ids) /\ IsInjective(m_jobs') /\ Queued' = Queued \ {i}
    BY <1>3, RemovedFrom DEF ProviderTypeOK, InOnePlace, Queued
  <2>2. i \in Queued /\ i \notin Dropped
    BY <1>3 DEF Queued, Range, InOnePlace
  <2>3. dropped' \in Seq(Ids) /\ IsInjective(dropped') /\ Dropped' = Dropped \cup {i}
    BY <1>3, <2>2, AppendNew DEF ProviderTypeOK, InOnePlace, Dropped
  <2> QED
    BY <2>1, <2>2, <2>3
<1> QED
  BY <1>1, <1>2, <1>3 DEF Cancel, TakeOut, Queued

\* CancelAll moves all waiting jobs to those taken out.
LEMMA CancelAllEffect ==
    ASSUME ProviderTypeOK, InOnePlace, CancelAll
    PROVE  /\ m_jobs' \in Seq(Ids) /\ IsInjective(m_jobs')
           /\ dropped' \in Seq(Ids) /\ IsInjective(dropped')
           /\ m_jobs' = <<>> /\ m_currentJob' = None
           /\ Queued' = {} /\ Dropped' = Queued
BY DEF ProviderTypeOK, InOnePlace, CancelAll, Queued, Dropped, Range, IsInjective

\* A job that was taken out is answered.
LEMMA AnswerDroppedEffect ==
    ASSUME ProviderTypeOK, InOnePlace, AnswerDropped
    PROVE  /\ Head(dropped) \in Dropped /\ Head(dropped) \in Ids
           /\ dropped' \in Seq(Ids) /\ IsInjective(dropped')
           /\ Queued' = Queued /\ Dropped' = Dropped \ {Head(dropped)}
           /\ answers' = [answers EXCEPT ![Head(dropped)] = <<"Cancelled">>]
           /\ answers' \in [Ids -> Seq(Results)]
<1>1. /\ Head(dropped) \in Dropped
      /\ dropped' \in Seq(Ids) /\ IsInjective(dropped') /\ Dropped' = Dropped \ {Head(dropped)}
  BY TailOf DEF ProviderTypeOK, InOnePlace, AnswerDropped, Dropped
<1>2. Head(dropped) \in Ids
  BY DEF ProviderTypeOK, AnswerDropped
<1>3. answers' = [answers EXCEPT ![Head(dropped)] = <<"Cancelled">>]
  <2>1. answers[Head(dropped)] = <<>>
    BY <1>1 DEF InOnePlace
  <2>2. answers' = [answers EXCEPT ![Head(dropped)] = Append(answers[Head(dropped)], "Cancelled")]
    BY DEF AnswerDropped, Answer
  <2> QED
    BY <2>1, <2>2
<1>4. answers' \in [Ids -> Seq(Results)]
  BY <1>2, <1>3 DEF ProviderTypeOK, Results
<1> QED
  BY <1>1, <1>2, <1>3, <1>4 DEF AnswerDropped, Queued

\* The worker takes a waiting job.
LEMMA WorkerTakeEffect ==
    ASSUME ProviderTypeOK, InOnePlace, WorkerTake
    PROVE  /\ job' \in Queued /\ job' \in Ids /\ m_currentJob' = job'
           /\ m_jobs' \in Seq(Ids) /\ IsInjective(m_jobs')
           /\ Queued' = Queued \ {job'} /\ Dropped' = Dropped
<1>1. /\ Last(m_jobs) \in Queued
      /\ m_jobs' \in Seq(Ids) /\ IsInjective(m_jobs') /\ Queued' = Queued \ {Last(m_jobs)}
  BY FrontOf DEF ProviderTypeOK, InOnePlace, WorkerTake, Queued
<1> QED
  BY <1>1, JobsAreIds DEF WorkerTake, Dropped

\* The worker's job is answered.
LEMMA WorkerAnswerEffect ==
    ASSUME ProviderTypeOK, InOnePlace, WorkerHasJob, WorkerAnswer
    PROVE  /\ job \in Ids /\ job' = None
           /\ Queued' = Queued /\ Dropped' = Dropped
           /\ answers' = [answers EXCEPT ![job] = <<result>>]
           /\ answers' \in [Ids -> Seq(Results)]
<1>1. job \in Ids /\ answers[job] = <<>>
  BY DEF ProviderTypeOK, InOnePlace, WorkerHasJob, WorkerAnswer
<1>2. answers' = [answers EXCEPT ![job] = <<result>>]
  BY <1>1 DEF ProviderTypeOK, WorkerAnswer, Answer
<1>3. answers' \in [Ids -> Seq(Results)]
  BY <1>1, <1>2 DEF ProviderTypeOK
<1> QED
  BY <1>1, <1>2, <1>3 DEF WorkerAnswer, Queued, Dropped

-----------------------------------------------------------------------------
(* The invariant is preserved, one lemma for the steps of each procedure.  *)

\* LoadImage( path ) queues a job, LoadImage( fd ) takes all out.
LEMMA CoreLoad ==
    ASSUME Core, LoadPath \/ LoadList \/ LoadFd
    PROVE  Core'
<1> USE DEF Core
<1>1. ASSUME LoadImage, main = "idle", main' = "cancel", lock' = "main", kind' \in [Ids -> Kinds], m_origin' \in Ids \cup {None},
             UNCHANGED <<fd, v_currentJob, m_isBusy, handler, view, cut, putBack>>
      PROVE  Core'
  <2>1. /\ m_nextId \in Ids /\ m_nextId' \in 0 .. MaxJobs /\ m_nextId' = m_nextId + 1
        /\ m_nextId \notin Queued \cup Dropped /\ m_nextId # job /\ answers[m_nextId] = <<>>
        /\ m_jobs' \in Seq(Ids) /\ IsInjective(m_jobs')
        /\ Queued' = Queued \cup {m_nextId} /\ Dropped' = Dropped
    BY <1>1, LoadImageEffect DEF TypeOK
  <2>2. UNCHANGED <<m_currentJob, m_shutdown, dropped, job, result, answers>> /\ worker' \in {worker, "top"}
        /\ (worker' = worker \/ worker = "blocked")
    BY <1>1 DEF LoadImage, Notify
  <2>3. TypeOK'
    <3>1. ProviderTypeOK'
      BY <2>1, <2>2 DEF TypeOK, ProviderTypeOK
    <3> QED
      BY <1>1, <3>1 DEF TypeOK
  <2>4. InOnePlace'
    <3> Queued \subseteq Ids /\ Dropped \subseteq Ids
      BY JobsAreIds DEF TypeOK
    <3>1. m_nextId \in Nat /\ m_nextId < m_nextId' /\ job' = job /\ answers' = answers
      BY <2>1, <2>2 DEF TypeOK, ProviderTypeOK
    <3>2. \A i \in Queued' \cup Dropped' : i < m_nextId' /\ answers'[i] = <<>>
      BY <2>1, <3>1 DEF InOnePlace, TypeOK, ProviderTypeOK, Ids
    <3>3. \A i \in Ids : answers'[i] # <<>> => i < m_nextId' /\ Len(answers'[i]) = 1
      BY <2>1, <3>1 DEF InOnePlace, TypeOK, ProviderTypeOK, Ids
    <3>4. job' # None => job' < m_nextId' /\ answers'[job'] = <<>>
      BY <2>1, <3>1 DEF InOnePlace, TypeOK, ProviderTypeOK, Ids
    <3>5. m_currentJob' \notin Queued' /\ m_currentJob' < m_nextId'
      BY <2>1, <2>2, <3>1 DEF InOnePlace, TypeOK, ProviderTypeOK, Ids, None
    <3> QED
      BY <2>1, <2>2, <3>2, <3>3, <3>4, <3>5 DEF InOnePlace
  <2>5. NoneForgotten'
    BY <2>1, <2>2 DEF NoneForgotten, TypeOK, ProviderTypeOK, Ids
  <2>6. WorkerHasJob'
    BY <1>1, <2>2 DEF WorkerHasJob
  <2>7. MainHolds'
    BY <1>1, <2>1, <2>2 DEF MainHolds, TypeOK, ProviderTypeOK
  <2>8. WaitsForNewest'
    BY <1>1, <2>1, <2>2 DEF WaitsForNewest, TypeOK, ProviderTypeOK
  <2> QED
    BY <2>3, <2>4, <2>5, <2>6, <2>7, <2>8
<1>2. CASE LoadPath
  BY <1>1, <1>2 DEF LoadPath, TypeOK, Kinds
<1>3. CASE LoadList
  <2>1. 0 \in Ids
    BY <1>3, LoadImageEffect DEF LoadList, TypeOK
  <2> QED
    BY <1>1, <1>3, <2>1 DEF LoadList, TypeOK
<1>4. CASE LoadFd
  <2>1. CancelAll /\ main = "idle" /\ main' = "push" /\ dropped = <<>> /\ Dropped = {}
    BY <1>4 DEF LoadFd, MainHolds, Dropped, Range
  <2>2. /\ m_jobs' \in Seq(Ids) /\ IsInjective(m_jobs')
        /\ dropped' \in Seq(Ids) /\ IsInjective(dropped')
        /\ m_jobs' = <<>> /\ m_currentJob' = None
        /\ Queued' = {} /\ Dropped' = Queued
    BY <2>1, CancelAllEffect DEF TypeOK
  <2>3. UNCHANGED <<m_nextId, m_shutdown, worker, job, result, answers>>
    BY <2>1 DEF CancelAll
  <2>4. TypeOK'
    BY <1>4, <2>2, <2>3 DEF LoadFd, TypeOK, ProviderTypeOK
  <2>5. InOnePlace'
    BY <2>1, <2>2, <2>3 DEF InOnePlace, TypeOK, ProviderTypeOK, None
  <2>6. NoneForgotten' /\ WorkerHasJob' /\ MainHolds' /\ WaitsForNewest'
    BY <1>4, <2>1, <2>2, <2>3 DEF LoadFd, NoneForgotten, WorkerHasJob, MainHolds, WaitsForNewest
  <2> QED
    BY <2>4, <2>5, <2>6
<1> QED
  BY <1>2, <1>3, <1>4

\* The previous job is cancelled; the viewport waits for no other that is queued.
LEMMA CoreCancel ==
    ASSUME Core, CancelPrevious
    PROVE  Core'
<1> USE DEF Core
<1>1. /\ main = "cancel" /\ main' = "assign" /\ dropped = <<>> /\ Dropped = {}
      /\ UNCHANGED <<lock, kind, fd, v_currentJob, m_isBusy, handler, view, m_origin, cut, putBack>>
  BY DEF CancelPrevious, MainHolds, Dropped, Range
<1>2. CASE v_currentJob = None
  <2>1. UNCHANGED providerVars
    BY <1>2 DEF CancelPrevious
  <2>2. Queued' = Queued /\ Dropped' = Dropped
    BY <2>1 DEF providerVars, Queued, Dropped
  <2>3. TypeOK'
    BY <1>1, <2>1 DEF TypeOK, ProviderTypeOK, providerVars
  <2> QED
    BY <1>1, <1>2, <2>1, <2>2, <2>3, JobsAreIds
    DEF providerVars, TypeOK, InOnePlace, NoneForgotten, WorkerHasJob, MainHolds, WaitsForNewest, None, Ids
<1>3. CASE v_currentJob # None
  <2>1. Cancel(v_currentJob) /\ v_currentJob \in Ids
    BY <1>3 DEF CancelPrevious, TypeOK
  <2>2. /\ m_jobs' \in Seq(Ids) /\ IsInjective(m_jobs')
        /\ dropped' \in Seq(Ids) /\ IsInjective(dropped')
        /\ \/ /\ m_currentJob = v_currentJob /\ m_currentJob' = None
              /\ Queued' = Queued /\ Dropped' = Dropped
           \/ /\ m_currentJob' = m_currentJob /\ m_currentJob # v_currentJob
              /\ Queued' = Queued \ {v_currentJob} /\ Dropped' = Dropped \cup (Queued \cap {v_currentJob})
    BY <2>1, CancelEffect DEF TypeOK
  <2>3. UNCHANGED <<m_nextId, m_shutdown, worker, job, result, answers>>
    BY <2>1 DEF Cancel
  <2>4. TypeOK'
    <3>1. ProviderTypeOK'
      BY <2>2, <2>3 DEF TypeOK, ProviderTypeOK
    <3> QED
      BY <1>1, <3>1 DEF TypeOK
  <2>5. InOnePlace'
    <3>1. None \notin Queued /\ None < m_nextId
      BY JobsAreIds DEF TypeOK, ProviderTypeOK, None, Ids
    <3> QED
      BY <2>2, <2>3, <3>1 DEF InOnePlace
  <2>6. NoneForgotten'
    BY <2>2, <2>3 DEF NoneForgotten
  <2>7. WorkerHasJob'
    BY <1>1, <2>2, <2>3 DEF WorkerHasJob
  <2>8. MainHolds'
    <3>1. m_nextId - 1 # v_currentJob
      BY <1>1, <1>3 DEF WaitsForNewest, TypeOK, ProviderTypeOK
    <3> QED
      BY <1>1, <2>2, <2>3, <3>1 DEF MainHolds
  <2>9. WaitsForNewest'
    <3>1. v_currentJob \notin Queued'
      BY <2>2 DEF InOnePlace
    <3> QED
      BY <1>1, <2>2, <2>3, <3>1 DEF WaitsForNewest
  <2> QED
    BY <2>4, <2>5, <2>6, <2>7, <2>8, <2>9
<1> QED
  BY <1>2, <1>3

\* A job is queued for a descriptor when all others have been taken out.
LEMMA CorePush ==
    ASSUME Core, PushFd
    PROVE  Core'
<1> USE DEF Core
<1>1. /\ main = "push" /\ main' = "assign" /\ dropped = <<>> /\ Dropped = {} /\ Queued = {} /\ LoadImage
      /\ UNCHANGED <<lock, v_currentJob, m_isBusy, handler, view, m_origin, cut, putBack>>
  BY DEF PushFd, MainHolds, Dropped, Queued, Range
<1>2. /\ m_nextId \in Ids /\ m_nextId' \in 0 .. MaxJobs /\ m_nextId' = m_nextId + 1
      /\ m_nextId \notin Queued \cup Dropped /\ m_nextId # job /\ answers[m_nextId] = <<>>
      /\ m_jobs' \in Seq(Ids) /\ IsInjective(m_jobs')
      /\ Queued' = Queued \cup {m_nextId} /\ Dropped' = Dropped
  BY <1>1, LoadImageEffect DEF TypeOK
<1>3. UNCHANGED <<m_currentJob, m_shutdown, dropped, job, result, answers>> /\ worker' \in {worker, "top"}
      /\ (worker' = worker \/ worker = "blocked")
  BY <1>1 DEF LoadImage, Notify
<1>4. kind' \in [Ids -> Kinds] /\ fd' \in [Ids -> FdStates]
  BY DEF PushFd, TypeOK, FdStates
<1>5. TypeOK'
  <2>1. ProviderTypeOK'
    BY <1>2, <1>3 DEF TypeOK, ProviderTypeOK
  <2> QED
    BY <1>1, <1>4, <2>1 DEF TypeOK
<1>6. InOnePlace'
  BY <1>1, <1>2, <1>3 DEF InOnePlace, TypeOK, ProviderTypeOK, Ids, None
<1>7. NoneForgotten'
  BY <1>2, <1>3 DEF NoneForgotten, TypeOK, ProviderTypeOK, Ids
<1>8. WorkerHasJob'
  BY <1>1, <1>3 DEF WorkerHasJob
<1>9. MainHolds'
  BY <1>1, <1>2, <1>3 DEF MainHolds, TypeOK, ProviderTypeOK
<1>10. WaitsForNewest'
  <2>1. v_currentJob # None => v_currentJob = m_nextId' - 2 /\ v_currentJob # m_nextId
    BY <1>1, <1>2 DEF WaitsForNewest, TypeOK, ProviderTypeOK, Ids
  <2>2. Queued' = {m_nextId' - 1} /\ v_currentJob \notin Queued'
    BY <1>1, <1>2, <2>1 DEF TypeOK, ProviderTypeOK, Ids, None
  <2> QED
    BY <1>1, <1>3, <2>1, <2>2 DEF WaitsForNewest
<1> QED
  BY <1>5, <1>6, <1>7, <1>8, <1>9, <1>10

\* The viewport now waits for the newest job.
LEMMA CoreAssign ==
    ASSUME Core, Assign
    PROVE  Core'
<1> USE DEF Core
<1>1. /\ main = "assign" /\ main' = "idle" /\ dropped = <<>> /\ lock' = "free"
      /\ v_currentJob' = m_nextId - 1 /\ m_isBusy' = TRUE
      /\ UNCHANGED <<providerVars, kind, fd, handler, view, m_origin, cut, putBack>>
  BY DEF Assign
<1>2. Queued' = Queued /\ Dropped' = Dropped
  BY <1>1 DEF providerVars, Queued, Dropped
<1>3. m_nextId - 1 \in Ids
  BY <1>1, MaxJobsAssumption DEF MainHolds, TypeOK, ProviderTypeOK, Ids
<1>4. TypeOK'
  <2>1. ProviderTypeOK'
    BY <1>1 DEF TypeOK, ProviderTypeOK, providerVars
  <2> QED
    BY <1>1, <1>3, <2>1 DEF TypeOK
<1>5. InOnePlace' /\ NoneForgotten' /\ WorkerHasJob'
  BY <1>1, <1>2 DEF providerVars, InOnePlace, NoneForgotten, WorkerHasJob
<1>6. MainHolds'
  BY <1>1 DEF providerVars, MainHolds
<1>7. WaitsForNewest'
  BY <1>1, <1>2, <1>3 DEF providerVars, WaitsForNewest, MainHolds, Ids, None
<1> QED
  BY <1>4, <1>5, <1>6, <1>7

\* The end of ImageHandler: whoever is answered, the viewport stops waiting for
\* that job only.
LEMMA JobEndedEffect ==
    ASSUME Core, NEW i \in Ids, JobEnded(i),
           answers' = [answers EXCEPT ![i] = <<"Cancelled">>] \/ answers' = [answers EXCEPT ![i] = <<result>>]
    PROVE  /\ v_currentJob' \in {v_currentJob, None} /\ v_currentJob' # i
           /\ v_currentJob = i \/ v_currentJob' = v_currentJob
           /\ m_isBusy' \in BOOLEAN
           /\ m_isBusy' <=> v_currentJob' # None
           /\ v_currentJob' # None => answers'[v_currentJob'] = <<>>
<1>1. CASE v_currentJob = i
  <2>1. v_currentJob' = None /\ m_isBusy' = FALSE
    BY <1>1 DEF JobEnded
  <2>2. m_isBusy' \in BOOLEAN /\ ~m_isBusy'
    BY <2>1, Zenon
  <2>3. None # i
    BY DEF Ids, None
  <2> QED
    BY <1>1, <2>1, <2>2, <2>3
<1>2. CASE v_currentJob # i
  <2>1. v_currentJob' = v_currentJob /\ m_isBusy' = m_isBusy
    BY <1>2 DEF JobEnded
  <2>2. m_isBusy' \in BOOLEAN /\ (m_isBusy' <=> v_currentJob' # None)
    BY <2>1, Zenon DEF Core, WaitsForNewest, TypeOK
  <2>3. v_currentJob' # None => answers'[v_currentJob'] = answers[v_currentJob]
    BY <1>2, <2>1 DEF Core, TypeOK, ProviderTypeOK
  <2> QED
    BY <1>2, <2>1, <2>2, <2>3 DEF Core, WaitsForNewest
<1> QED
  BY <1>1, <1>2

\* ImageHandler on the main thread answers a job that was taken out.
LEMMA CoreMainHandler ==
    ASSUME Core, MainHandler
    PROVE  Core'
<1> USE DEF Core
<1> DEFINE h == Head(dropped)
<1>1. /\ main \in {"push", "assign", "quit"} /\ dropped # <<>> /\ AnswerDropped /\ JobEnded(h) /\ FinishDnd(h)
      /\ UNCHANGED <<main, lock, kind, handler, view, m_origin, cut, putBack>>
      /\ UNCHANGED <<m_jobs, m_currentJob, m_nextId, m_shutdown, worker, job, result>>
  BY DEF MainHandler, AnswerDropped
<1>2. /\ h \in Dropped /\ h \in Ids
      /\ dropped' \in Seq(Ids) /\ IsInjective(dropped')
      /\ Queued' = Queued /\ Dropped' = Dropped \ {h}
      /\ answers' = [answers EXCEPT ![h] = <<"Cancelled">>]
      /\ answers' \in [Ids -> Seq(Results)]
  BY <1>1, AnswerDroppedEffect DEF TypeOK
<1> HIDE DEF h
<1>3. /\ v_currentJob' \in {v_currentJob, None} /\ v_currentJob' # h
      /\ v_currentJob = h \/ v_currentJob' = v_currentJob
      /\ m_isBusy' \in BOOLEAN
      /\ m_isBusy' <=> v_currentJob' # None
      /\ v_currentJob' # None => answers'[v_currentJob'] = <<>>
  BY <1>1, <1>2, JobEndedEffect
<1>4. fd' \in [Ids -> FdStates]
  BY <1>1 DEF FinishDnd, CloseFd, Closed, TypeOK, FdStates
<1>5. TypeOK'
  <2>1. ProviderTypeOK'
    BY <1>1, <1>2 DEF TypeOK, ProviderTypeOK
  <2> QED
    BY <1>1, <1>3, <1>4, <2>1 DEF TypeOK
<1>6. answers \in [Ids -> Seq(Results)] /\ h < m_nextId /\ h # job /\ h \notin Queued
  BY <1>2 DEF TypeOK, ProviderTypeOK, InOnePlace
<1>7. \A i \in Ids : answers'[i] = IF i = h THEN <<"Cancelled">> ELSE answers[i]
  BY <1>2, <1>6
<1>8. InOnePlace'
  BY <1>1, <1>2, <1>6, <1>7, JobsAreIds DEF InOnePlace, TypeOK, ProviderTypeOK
<1>9. NoneForgotten'
  BY <1>1, <1>2, <1>7 DEF NoneForgotten
<1>10. WorkerHasJob'
  BY <1>1 DEF WorkerHasJob
<1>11. MainHolds'
  <2>1. main = "assign" => m_nextId - 1 # h
    BY <1>2 DEF MainHolds
  <2>2. m_nextId - 1 # h => answers'[m_nextId - 1] = answers[m_nextId - 1]
    BY <1>2
  <2> QED
    BY <1>1, <1>2, <2>1, <2>2 DEF MainHolds
<1>12. WaitsForNewest'
  <2>1. v_currentJob' # None => v_currentJob' = v_currentJob
    BY <1>3
  <2>2. \A i \in Queued' : i = v_currentJob' \/ (main' \in {"cancel", "assign"} /\ i = m_nextId' - 1)
    BY <1>1, <1>2, <1>3, <1>6 DEF WaitsForNewest
  <2>3. None \notin Queued
    BY JobsAreIds DEF TypeOK, None, Ids
  <2> QED
    BY <1>1, <1>2, <1>3, <2>1, <2>2, <2>3 DEF WaitsForNewest
<1> QED
  BY <1>5, <1>8, <1>9, <1>10, <1>11, <1>12

\* Steps of the main thread that touch neither the provider nor m_lock.
LEMMA CoreMainOther ==
    ASSUME Core, CutSelection \/ CutSetTexture \/ ProviderJoined
    PROVE  Core'
<1> USE DEF Core
<1>1. /\ UNCHANGED <<providerVars, lock, kind, fd, v_currentJob, m_isBusy, handler, m_origin>>
      /\ main' \in {"cut", "idle", "panic", "gone"} /\ main \in {"idle", "cut", "join"}
      /\ main' = "gone" => main = "join" /\ worker = "exited"
      /\ view' \in Ids \cup {None} /\ cut' \in Ids \cup {None}
  BY DEF CutSelection, CutSetTexture, ProviderJoined, TypeOK
<1>2. putBack' \in BOOLEAN
  BY Zenon DEF CutSelection, CutSetTexture, ProviderJoined, TypeOK
<1>3. Queued' = Queued /\ Dropped' = Dropped
  BY <1>1 DEF providerVars, Queued, Dropped
<1>4. TypeOK'
  <2>1. ProviderTypeOK'
    BY <1>1 DEF TypeOK, ProviderTypeOK, providerVars
  <2> QED
    BY <1>1, <1>2, <2>1 DEF TypeOK
<1>5. InOnePlace' /\ NoneForgotten' /\ WorkerHasJob'
  BY <1>1, <1>3 DEF providerVars, InOnePlace, NoneForgotten, WorkerHasJob
<1>6. MainHolds'
  BY <1>1 DEF providerVars, MainHolds
<1>7. WaitsForNewest'
  BY <1>1, <1>3 DEF providerVars, WaitsForNewest
<1> QED
  BY <1>4, <1>5, <1>6, <1>7

\* The destructor takes all jobs out, then stops the provider's thread.
LEMMA CoreQuit ==
    ASSUME Core, Quit \/ ProviderReset
    PROVE  Core'
<1> USE DEF Core
<1>1. CASE Quit
  <2>1. CancelAll /\ main = "idle" /\ main' = "quit" /\ dropped = <<>> /\ Dropped = {}
        /\ UNCHANGED <<lock, kind, fd, v_currentJob, m_isBusy, handler, view, m_origin, cut, putBack>>
    BY <1>1 DEF Quit, MainHolds, Dropped, Range
  <2>2. /\ m_jobs' \in Seq(Ids) /\ IsInjective(m_jobs')
        /\ dropped' \in Seq(Ids) /\ IsInjective(dropped')
        /\ m_jobs' = <<>> /\ m_currentJob' = None
        /\ Queued' = {} /\ Dropped' = Queued
    BY <2>1, CancelAllEffect DEF TypeOK
  <2>3. UNCHANGED <<m_nextId, m_shutdown, worker, job, result, answers>>
    BY <2>1 DEF CancelAll
  <2>4. TypeOK'
    <3>1. ProviderTypeOK'
      BY <2>2, <2>3 DEF TypeOK, ProviderTypeOK
    <3> QED
      BY <2>1, <3>1 DEF TypeOK
  <2>5. InOnePlace'
    BY <2>1, <2>2, <2>3 DEF InOnePlace, TypeOK, ProviderTypeOK, None
  <2>6. NoneForgotten' /\ WorkerHasJob' /\ MainHolds' /\ WaitsForNewest'
    BY <2>1, <2>2, <2>3 DEF NoneForgotten, WorkerHasJob, MainHolds, WaitsForNewest
  <2> QED
    BY <2>4, <2>5, <2>6
<1>2. CASE ProviderReset
  <2>1. /\ main = "quit" /\ main' = "join" /\ dropped = <<>>
        /\ UNCHANGED <<lock, kind, fd, v_currentJob, m_isBusy, handler, view, m_origin, cut, putBack>>
        /\ UNCHANGED <<m_jobs, m_currentJob, m_nextId, dropped, job, result, answers>>
        /\ worker' \in {worker, "top"} /\ (worker' = worker \/ worker = "blocked")
    BY <1>2 DEF ProviderReset, Shutdown, Notify
  <2>2. m_shutdown' \in BOOLEAN
    BY <1>2, Zenon DEF ProviderReset, Shutdown
  <2>3. Queued' = Queued /\ Dropped' = Dropped
    BY <2>1 DEF Queued, Dropped
  <2>4. TypeOK'
    <3>1. ProviderTypeOK'
      BY <2>1, <2>2 DEF TypeOK, ProviderTypeOK
    <3> QED
      BY <2>1, <3>1 DEF TypeOK
  <2>5. InOnePlace' /\ NoneForgotten' /\ WaitsForNewest'
    BY <2>1, <2>3 DEF InOnePlace, NoneForgotten, WaitsForNewest
  <2>6. WorkerHasJob' /\ MainHolds'
    BY <2>1 DEF WorkerHasJob, MainHolds
  <2> QED
    BY <2>4, <2>5, <2>6
<1> QED
  BY <1>1, <1>2

\* The worker thread outside ImageHandler.
LEMMA CoreWorker ==
    ASSUME Core, ProviderIdle \/ ProviderLoad
    PROVE  Core'
<1> USE DEF Core
<1>1. CASE WorkerTake /\ UNCHANGED viewVars
  <2>1. /\ job' \in Queued /\ job' \in Ids /\ m_currentJob' = job'
        /\ m_jobs' \in Seq(Ids) /\ IsInjective(m_jobs')
        /\ Queued' = Queued \ {job'} /\ Dropped' = Dropped
    BY <1>1, WorkerTakeEffect DEF TypeOK
  <2>2. /\ worker = "top" /\ worker' = "load" /\ job = None /\ m_jobs # <<>>
        /\ UNCHANGED <<m_nextId, m_shutdown, dropped, result, answers>> /\ UNCHANGED viewVars
    BY <1>1 DEF WorkerTake, WorkerHasJob
  <2>3. TypeOK'
    <3>1. ProviderTypeOK'
      BY <2>1, <2>2 DEF TypeOK, ProviderTypeOK
    <3> QED
      BY <2>2, <3>1 DEF TypeOK, viewVars
  <2>4. InOnePlace'
    BY <2>1, <2>2 DEF InOnePlace
  <2>5. NoneForgotten'
    BY <2>1, <2>2 DEF NoneForgotten, None, Ids
  <2>6. WorkerHasJob'
    BY <2>1, <2>2 DEF WorkerHasJob, viewVars, Ids, None
  <2>7. MainHolds' /\ WaitsForNewest'
    BY <2>1, <2>2 DEF MainHolds, WaitsForNewest, viewVars
  <2> QED
    BY <2>3, <2>4, <2>5, <2>6, <2>7
<1>2. ASSUME UNCHANGED <<m_jobs, m_nextId, m_shutdown, dropped, job, answers>>,
             m_currentJob' \in {m_currentJob, None}, result' \in Results,
             worker' \in {"top", "blocked", "load", "check", "answer", "exited"},
             worker' \in {"load", "check", "answer"} <=> worker \in {"load", "check", "answer"},
             worker' = "load" => worker = "load",
             worker' = "check" => worker \in {"load", "check"} /\ result' # "Cancelled",
             worker # "answer",
             worker # "exited",
             fd' \in [Ids -> FdStates],
             UNCHANGED <<main, lock, kind, v_currentJob, m_isBusy, handler, view, m_origin, cut, putBack>>
      PROVE  Core'
  <2>1. Queued' = Queued /\ Dropped' = Dropped
    BY <1>2 DEF Queued, Dropped
  <2>2. None \notin Queued /\ None < m_nextId
    BY JobsAreIds DEF TypeOK, ProviderTypeOK, None, Ids
  <2>3. TypeOK'
    <3>1. ProviderTypeOK'
      BY <1>2 DEF TypeOK, ProviderTypeOK
    <3> QED
      BY <1>2, <3>1 DEF TypeOK
  <2>4. InOnePlace' /\ NoneForgotten'
    BY <1>2, <2>1, <2>2 DEF InOnePlace, NoneForgotten
  <2>5. WorkerHasJob' /\ MainHolds' /\ WaitsForNewest'
    BY <1>2, <2>1 DEF WorkerHasJob, MainHolds, WaitsForNewest
  <2> QED
    BY <2>3, <2>4, <2>5
<1>3. CASE (WorkerExit \/ WorkerBlock \/ WorkerCheck) /\ UNCHANGED viewVars
  BY <1>2, <1>3 DEF WorkerExit, WorkerBlock, WorkerCheck, viewVars, TypeOK, ProviderTypeOK, Results
<1>4. CASE ProviderLoad
  <2>1. fd' \in [Ids -> FdStates]
    BY <1>4 DEF ProviderLoad, CloseFd, Closed, TypeOK, FdStates
  <2> QED
    BY <1>2, <1>4, <2>1 DEF ProviderLoad, WorkerLoad, TypeOK, ProviderTypeOK, Results
<1> QED
  BY <1>1, <1>3, <1>4 DEF ProviderIdle

\* ImageHandler on the provider's thread, before it takes m_lock.
LEMMA CoreHandlerUnlocked ==
    ASSUME Core, HandlerFinishDnd \/ HandlerSetBitmap
    PROVE  Core'
<1> USE DEF Core
<1>1. /\ worker = "answer" /\ job \in Ids
      /\ UNCHANGED <<providerVars, main, lock, kind, v_currentJob, m_isBusy, m_origin, cut>>
      /\ view' \in Ids \cup {None} /\ handler' \in {"fd", "bitmap", "lock"}
      /\ handler' = "bitmap" => result = "Success"
  BY DEF HandlerFinishDnd, HandlerSetBitmap, TypeOK, ProviderTypeOK, WorkerHasJob
<1>2. fd' \in [Ids -> FdStates]
  BY DEF HandlerFinishDnd, HandlerSetBitmap, FinishDnd, CloseFd, Closed, TypeOK, FdStates
<1>3. putBack' \in BOOLEAN
  BY Zenon DEF HandlerFinishDnd, HandlerSetBitmap, TypeOK
<1>4. Queued' = Queued /\ Dropped' = Dropped
  BY <1>1 DEF providerVars, Queued, Dropped
<1>5. TypeOK'
  <2>1. ProviderTypeOK'
    BY <1>1 DEF TypeOK, ProviderTypeOK, providerVars
  <2> QED
    BY <1>1, <1>2, <1>3, <2>1 DEF TypeOK
<1>6. InOnePlace' /\ NoneForgotten' /\ WorkerHasJob'
  BY <1>1, <1>4 DEF providerVars, InOnePlace, NoneForgotten, WorkerHasJob
<1>7. MainHolds' /\ WaitsForNewest'
  BY <1>1, <1>4 DEF providerVars, MainHolds, WaitsForNewest
<1> QED
  BY <1>5, <1>6, <1>7

\* The last part of ImageHandler: the job has its answer.
LEMMA CoreHandlerLocked ==
    ASSUME Core, HandlerLocked
    PROVE  Core'
<1> USE DEF Core
<1>1. /\ worker = "answer" /\ worker' = "top" /\ handler' = "fd" /\ lock = "free"
      /\ JobEnded(job) /\ WorkerAnswer
      /\ UNCHANGED <<m_jobs, m_currentJob, m_nextId, m_shutdown, dropped, result>>
      /\ UNCHANGED <<main, lock, kind, fd, view, cut, putBack>>
  BY DEF HandlerLocked, WorkerAnswer
<1>2. /\ job \in Ids /\ job' = None
      /\ Queued' = Queued /\ Dropped' = Dropped
      /\ answers' = [answers EXCEPT ![job] = <<result>>]
      /\ answers' \in [Ids -> Seq(Results)]
  BY <1>1, WorkerAnswerEffect DEF TypeOK
<1>3. /\ v_currentJob' \in {v_currentJob, None} /\ v_currentJob' # job
      /\ v_currentJob = job \/ v_currentJob' = v_currentJob
      /\ m_isBusy' \in BOOLEAN
      /\ m_isBusy' <=> v_currentJob' # None
      /\ v_currentJob' # None => answers'[v_currentJob'] = <<>>
  BY <1>1, <1>2, JobEndedEffect
<1>4. TypeOK'
  <2>1. ProviderTypeOK'
    BY <1>1, <1>2 DEF TypeOK, ProviderTypeOK
  <2>2. m_origin' \in Ids \cup {None}
    BY <1>2 DEF HandlerLocked, TypeOK
  <2> QED
    BY <1>1, <1>3, <2>1, <2>2 DEF TypeOK
<1>5. \A i \in Ids : answers'[i] = IF i = job THEN <<result>> ELSE answers[i]
  BY <1>2 DEF TypeOK, ProviderTypeOK
<1>6. job < m_nextId /\ job \notin Queued \cup Dropped /\ None \notin Queued \cup Dropped /\ job # None
  BY <1>2, JobsAreIds DEF TypeOK, InOnePlace, Ids, None
<1>7. InOnePlace'
  BY <1>1, <1>2, <1>5, <1>6, JobsAreIds DEF InOnePlace, TypeOK
<1>8. NoneForgotten'
  BY <1>1, <1>2, <1>5 DEF NoneForgotten
<1>9. WorkerHasJob'
  BY <1>1, <1>2 DEF WorkerHasJob
<1>10. MainHolds'
  BY <1>1 DEF MainHolds
<1>11. WaitsForNewest'
  <2>1. main \notin {"cancel", "push", "assign"}
    BY <1>1 DEF MainHolds
  <2>2. \A i \in Queued : i = v_currentJob'
    BY <1>3, <1>6, <2>1 DEF WaitsForNewest
  <2> QED
    BY <1>1, <1>2, <1>3, <2>1, <2>2 DEF WaitsForNewest
<1> QED
  BY <1>4, <1>7, <1>8, <1>9, <1>10, <1>11

\* The invariant holds at first.
LEMMA CoreInit == Init => Core
<1> SUFFICES ASSUME Init
             PROVE  Core
  OBVIOUS
<1>1. Queued = {} /\ Dropped = {} /\ IsInjective(<<>>)
  BY DEF Init, ProviderInit, Queued, Dropped, Range, IsInjective
<1>2. m_shutdown \in BOOLEAN /\ m_isBusy \in BOOLEAN /\ putBack \in BOOLEAN /\ ~m_isBusy
  BY Zenon DEF Init, ProviderInit
<1>3. ProviderTypeOK
  BY <1>2, MaxJobsAssumption DEF Init, ProviderInit, ProviderTypeOK, Results
<1>4. TypeOK
  BY <1>2, <1>3 DEF Init, TypeOK, FdStates, Kinds
<1>5. InOnePlace /\ NoneForgotten
  BY <1>1 DEF Init, ProviderInit, InOnePlace, NoneForgotten, None, Ids
<1>6. WorkerHasJob /\ MainHolds
  BY <1>1 DEF Init, ProviderInit, WorkerHasJob, MainHolds
<1>7. WaitsForNewest
  BY <1>1, <1>2 DEF Init, ProviderInit, WaitsForNewest
<1> QED
  BY <1>4, <1>5, <1>6, <1>7 DEF Core

\* The invariant is inductive.
LEMMA CoreStep == Core /\ [Next]_vars => Core'
<1> SUFFICES ASSUME Core, [Next]_vars
             PROVE  Core'
  OBVIOUS
<1>1. CASE LoadPath \/ LoadList \/ LoadFd
  BY <1>1, CoreLoad
<1>2. CASE CutSelection \/ CutSetTexture \/ ProviderJoined
  BY <1>2, CoreMainOther
<1>3. CASE Quit \/ ProviderReset
  BY <1>3, CoreQuit
<1>4. CASE CancelPrevious
  BY <1>4, CoreCancel
<1>5. CASE PushFd
  BY <1>5, CorePush
<1>6. CASE Assign
  BY <1>6, CoreAssign
<1>7. CASE MainHandler
  BY <1>7, CoreMainHandler
<1>8. CASE ProviderStep
  BY <1>8, CoreWorker, CoreHandlerUnlocked, CoreHandlerLocked DEF ProviderStep
<1>9. CASE UNCHANGED vars
  <2>1. UNCHANGED <<providerVars, viewVars>>
    BY <1>9 DEF vars
  <2>2. Queued' = Queued /\ Dropped' = Dropped
    BY <2>1 DEF providerVars, Queued, Dropped
  <2>3. TypeOK'
    <3>1. ProviderTypeOK'
      BY <2>1 DEF Core, TypeOK, ProviderTypeOK, providerVars
    <3> QED
      BY <2>1, <3>1 DEF Core, TypeOK, viewVars
  <2>4. InOnePlace' /\ NoneForgotten' /\ WorkerHasJob'
    BY <2>1, <2>2 DEF Core, InOnePlace, NoneForgotten, WorkerHasJob, providerVars, viewVars
  <2>5. MainHolds' /\ WaitsForNewest'
    BY <2>1, <2>2 DEF Core, MainHolds, WaitsForNewest, providerVars, viewVars
  <2> QED
    BY <2>3, <2>4, <2>5 DEF Core
<1> QED
  BY <1>1, <1>2, <1>3, <1>4, <1>5, <1>6, <1>7, <1>8, <1>9 DEF Next, MainStep

\* Core is an invariant.
LEMMA CoreHolds == Spec => []Core
BY CoreInit, CoreStep, PTL DEF Spec

-----------------------------------------------------------------------------
(* What the viewport may rely on.                                          *)

\* The variables of the viewport and the provider keep their types.
THEOREM TypeCorrect == Spec => []TypeOK
<1>1. Core => TypeOK
  BY DEF Core
<1> QED
  BY <1>1, CoreHolds, PTL

\* Every job is answered at most once, and exactly once when the viewport is
\* gone: what the provider holds then is the worker's job, and it has exited.
THEOREM EveryJobAnsweredOnce == Spec => []OneAnswer
<1>1. Core => OneAnswer
  <2> SUFFICES ASSUME Core
               PROVE  OneAnswer
    OBVIOUS
  <2>1. \A i \in Ids : Len(answers[i]) <= 1
    <3> SUFFICES ASSUME NEW i \in Ids
                 PROVE  Len(answers[i]) <= 1
      OBVIOUS
    <3>1. CASE answers[i] = <<>>
      <4>1. Len(answers[i]) = 0
        BY <3>1
      <4> QED
        BY <4>1
    <3>2. CASE answers[i] # <<>>
      <4>1. Len(answers[i]) = 1
        BY <3>2 DEF Core, InOnePlace
      <4> QED
        BY <4>1
    <3> QED
      BY <3>1, <3>2
  <2>2. ASSUME main = "gone", NEW i \in 0 .. m_nextId - 1
        PROVE  Len(answers[i]) = 1
    <3>1. i \in Ids
      BY MaxJobsAssumption DEF Core, TypeOK, ProviderTypeOK, Ids
    <3>2. Queued = {} /\ Dropped = {} /\ job = None
      BY <2>2 DEF Core, MainHolds, WorkerHasJob, Queued, Dropped, Range
    <3>3. i # None /\ i < m_nextId
      BY DEF None, Core, TypeOK, ProviderTypeOK
    <3>4. answers[i] # <<>>
      BY <3>1, <3>2, <3>3 DEF Core, NoneForgotten
    <3> QED
      BY <3>1, <3>4 DEF Core, InOnePlace
  <2> QED
    BY <2>1, <2>2 DEF OneAnswer
<1> QED
  BY <1>1, CoreHolds, PTL

\* While m_lock is free, the busy indicator is shown exactly if an answer is
\* still to come.
THEOREM BusyIsOutstanding == Spec => []BusyMeansOutstanding
<1>1. Core => BusyMeansOutstanding
  BY DEF Core, WaitsForNewest, BusyMeansOutstanding
<1> QED
  BY <1>1, CoreHolds, PTL

-----------------------------------------------------------------------------
(* The order in which images arrive.                                       *)

\* What a step of the main thread does to the jobs in the provider, where it
\* does not queue one.
LEMMA MainTakesOut ==
    ASSUME Core, CancelPrevious \/ Assign \/ LoadFd \/ Quit \/ MainHandler \/ ProviderReset
                 \/ CutSelection \/ CutSetTexture \/ ProviderJoined
    PROVE  /\ Queued' \subseteq Queued /\ Dropped' \subseteq Dropped \cup Queued
           /\ UNCHANGED <<m_nextId, job, result, handler>>
           /\ worker' = worker \/ (worker = "blocked" /\ worker' = "top")
<1> USE DEF Core
<1>1. CASE UNCHANGED providerVars /\ UNCHANGED handler
  BY <1>1 DEF providerVars, Queued, Dropped
<1>2. CASE CancelAll /\ UNCHANGED handler
  BY <1>2, CancelAllEffect DEF TypeOK, CancelAll
<1>3. CASE MainHandler
  BY <1>3, AnswerDroppedEffect DEF MainHandler, AnswerDropped, TypeOK
<1>4. CASE ProviderReset
  BY <1>4 DEF ProviderReset, Shutdown, Notify, Queued, Dropped
<1>5. CASE CancelPrevious /\ v_currentJob # None
  <2>1. v_currentJob \in Ids /\ Cancel(v_currentJob) /\ UNCHANGED handler
    BY <1>5 DEF CancelPrevious, TypeOK
  <2> QED
    BY <2>1, CancelEffect DEF TypeOK, Cancel
<1> QED
  BY <1>1, <1>2, <1>3, <1>4, <1>5
  DEF CancelPrevious, Assign, LoadFd, Quit, CutSelection, CutSetTexture, ProviderJoined

\* What a step of the main thread that queues a job does.
LEMMA MainQueues ==
    ASSUME Core, LoadPath \/ LoadList \/ PushFd
    PROVE  /\ m_nextId \in Ids /\ m_nextId' = m_nextId + 1
           /\ Queued' = Queued \cup {m_nextId} /\ Dropped' = Dropped
           /\ UNCHANGED <<m_currentJob, job, result, answers, handler, view, cut, putBack>>
           /\ worker' = worker \/ (worker = "blocked" /\ worker' = "top")
<1>1. LoadImage /\ UNCHANGED <<handler, view, cut, putBack>>
  BY DEF LoadPath, LoadList, PushFd
<1> QED
  BY <1>1, LoadImageEffect DEF Core, TypeOK, LoadImage, Notify

\* Types that the next proofs need, before and after a step.
LEMMA Ranges ==
    ASSUME Core, Core'
    PROVE  /\ m_nextId \in Nat /\ m_nextId' \in Nat /\ Ids \subseteq Nat
           /\ Queued \subseteq Ids /\ Queued' \subseteq Ids /\ Dropped \subseteq Ids /\ Dropped' \subseteq Ids
           /\ \A i \in Queued \cup Dropped : i < m_nextId
           /\ worker \in {"load", "check", "answer"} => job \in Ids /\ job < m_nextId
<1>1. /\ m_jobs \in Seq(Ids) /\ m_jobs' \in Seq(Ids) /\ dropped \in Seq(Ids) /\ dropped' \in Seq(Ids)
      /\ m_nextId \in Nat /\ m_nextId' \in Nat
  BY DEF Core, TypeOK, ProviderTypeOK
<1>2. Queued \subseteq Ids /\ Queued' \subseteq Ids /\ Dropped \subseteq Ids /\ Dropped' \subseteq Ids
  BY <1>1, RangeOfSeq DEF Queued, Dropped
<1>3. worker \in {"load", "check", "answer"} => job \in Ids /\ job < m_nextId
  BY DEF Core, TypeOK, ProviderTypeOK, WorkerHasJob, InOnePlace
<1>4. Ids \subseteq Nat
  BY MaxJobsAssumption DEF Ids
<1> QED
  BY <1>1, <1>2, <1>3, <1>4 DEF Core, InOnePlace

\* No image overtakes a newer one.
LEMMA ViewStep ==
    ASSUME Core, Core', ViewIsOlder, Next
    PROVE  ViewIsOlder'
<1>0. /\ m_nextId \in Nat /\ view \in Ids \cup {None} /\ cut \in Ids \cup {None} /\ job \in Ids \cup {None}
      /\ Queued \subseteq Ids /\ Queued' \subseteq Ids
  BY Ranges DEF Core, TypeOK, ProviderTypeOK
<1> USE DEF Ids, None
<1>1. CASE LoadPath \/ LoadList \/ PushFd
  <2>1. main \in {"idle", "push"}
    BY <1>1 DEF LoadPath, LoadList, PushFd
  <2> QED
    BY <1>0, <1>1, <2>1, MainQueues DEF ViewIsOlder
<1>2. CASE CutSelection \/ CutSetTexture \/ ProviderJoined
  <2>1. main # "cancel" /\ view' <= view /\ cut' <= view' /\ view' < m_nextId
    BY <1>0, <1>2 DEF CutSelection, CutSetTexture, ProviderJoined, ViewIsOlder
  <2>2. view' \in Ids \cup {None}
    BY DEF Core, TypeOK
  <2> QED
    BY <1>0, <1>2, <2>1, <2>2, MainTakesOut DEF ViewIsOlder
<1>3. CASE Assign \/ LoadFd \/ Quit \/ MainHandler \/ ProviderReset
  <2>1. main # "cancel" /\ UNCHANGED <<view, cut>>
    BY <1>3 DEF Assign, LoadFd, Quit, MainHandler, ProviderReset
  <2> QED
    BY <1>0, <1>3, <2>1, MainTakesOut DEF ViewIsOlder
<1>4. CASE CancelPrevious
  <2>1. main' = "assign" /\ UNCHANGED <<view, cut>>
    BY <1>4 DEF CancelPrevious
  <2>2. \A i \in Queued' : i = m_nextId' - 1
    BY <2>1 DEF Core, WaitsForNewest
  <2> QED
    BY <1>0, <1>4, <2>1, <2>2, MainTakesOut DEF ViewIsOlder
<1>5. CASE ProviderIdle
  <2>1. UNCHANGED <<main, handler, view, cut, m_nextId>> /\ worker \in {"top", "check"}
    BY <1>5 DEF ProviderIdle, WorkerExit, WorkerBlock, WorkerTake, WorkerCheck, viewVars
  <2>2. \A i \in Queued : i >= view
    BY <1>0, <2>1 DEF ViewIsOlder
  <2>3. Queued' \subseteq Queued /\ (job' = job \/ job' \in Queued)
    <3>1. CASE WorkerTake
      BY <3>1, WorkerTakeEffect DEF Core, TypeOK
    <3>2. CASE WorkerExit \/ WorkerBlock \/ WorkerCheck
      BY <3>2 DEF WorkerExit, WorkerBlock, WorkerCheck, Queued
    <3> QED
      BY <1>5, <3>1, <3>2 DEF ProviderIdle
  <2> QED
    BY <1>0, <2>1, <2>2, <2>3 DEF ViewIsOlder
<1>6. CASE ProviderLoad \/ HandlerFinishDnd
  <2>1. UNCHANGED <<main, view, cut, m_nextId, job, m_jobs>>
        /\ ~(worker = "answer" /\ handler = "lock")
    BY <1>6 DEF ProviderLoad, WorkerLoad, HandlerFinishDnd, providerVars
  <2>2. Queued' = Queued
    BY <2>1 DEF Queued
  <2> QED
    BY <1>0, <2>1, <2>2 DEF ViewIsOlder
<1>7. CASE HandlerSetBitmap
  <2>1. /\ worker = "answer" /\ worker' = "answer" /\ handler' = "lock" /\ view' = job /\ job # None
        /\ UNCHANGED <<main, cut, m_nextId, job, m_jobs>>
    BY <1>7 DEF HandlerSetBitmap, providerVars, Core, WorkerHasJob
  <2>2. Queued' = Queued
    BY <2>1 DEF Queued
  <2>3. job < m_nextId
    BY <2>1 DEF Core, InOnePlace
  <2>4. ASSUME NEW i \in Queued, i < job
        PROVE  main = "cancel"
    <3>1. i = v_currentJob \/ (main \in {"cancel", "assign"} /\ i = m_nextId - 1)
      BY DEF Core, WaitsForNewest
    <3>2. i # m_nextId - 1 /\ i # None
      BY <1>0, <2>3, <2>4
    <3> QED
      BY <3>1, <3>2 DEF Core, WaitsForNewest
  <2> QED
    BY <1>0, <2>1, <2>2, <2>3, <2>4 DEF ViewIsOlder
<1>8. CASE HandlerLocked
  <2>1. /\ UNCHANGED <<main, view, cut, m_nextId, m_jobs>> /\ job' = None /\ main # "cancel"
    BY <1>8 DEF HandlerLocked, WorkerAnswer, Core, MainHolds
  <2>2. Queued' = Queued
    BY <2>1 DEF Queued
  <2> QED
    BY <1>0, <2>1, <2>2 DEF ViewIsOlder
<1> QED
  BY <1>1, <1>2, <1>3, <1>4, <1>5, <1>6, <1>7, <1>8 DEF Next, MainStep, ProviderStep

\* The provider never replaces a newer image by an older one: only CutSelection,
\* on the main thread, puts an older image back.
THEOREM NewestImageWins == Spec => NewestImageStays
<1>1. Init => ViewIsOlder
  BY DEF Init, ProviderInit, ViewIsOlder, Queued, Range, None
<1>2. Core /\ Core' /\ ViewIsOlder /\ [Next]_vars => ViewIsOlder'
  <2>1. UNCHANGED vars => Queued' = Queued
    BY DEF vars, providerVars, Queued
  <2>2. ViewIsOlder /\ UNCHANGED vars => ViewIsOlder'
    BY <2>1 DEF vars, providerVars, viewVars, ViewIsOlder
  <2> QED
    BY <2>2, ViewStep
<1>3. Core /\ ViewIsOlder /\ [Next]_vars
        => [worker' # worker \/ handler' # handler => view' >= view]_vars
  <2> SUFFICES ASSUME Core, ViewIsOlder, Next, worker' # worker \/ handler' # handler
               PROVE  view' >= view
    OBVIOUS
  <2>1. view \in Ids \cup {None}
    BY DEF Core, TypeOK
  <2>2. CASE HandlerSetBitmap
    BY <2>1, <2>2 DEF HandlerSetBitmap, ViewIsOlder, Core, WorkerHasJob
  <2>3. CASE view' = view
    BY <2>1, <2>3 DEF Ids, None
  <2>4. CASE CutSetTexture
    BY <2>4 DEF CutSetTexture, providerVars
  <2> QED
    BY <2>2, <2>3, <2>4
    DEF Next, MainStep, ProviderStep, LoadPath, LoadList, LoadFd, CutSelection, Quit, CancelPrevious, PushFd,
        Assign, MainHandler, ProviderReset, ProviderJoined, ProviderIdle, ProviderLoad, HandlerFinishDnd,
        HandlerLocked, viewVars
<1> QED
  BY <1>1, <1>2, <1>3, CoreHolds, PTL DEF Spec, NewestImageStays

-----------------------------------------------------------------------------
(* Which jobs are cancelled.                                               *)

\* Cancellations reach superseded jobs only.
LEMMA CancelledStep ==
    ASSUME Core, Core', CancelledSuperseded, Next
    PROVE  CancelledSuperseded'
<1>0. /\ m_nextId \in Nat /\ m_nextId' \in Nat /\ Ids \subseteq Nat
      /\ Queued \subseteq Ids /\ Dropped \subseteq Ids /\ Dropped' \subseteq Ids
      /\ \A i \in Queued \cup Dropped : i < m_nextId
      /\ worker \in {"load", "check", "answer"} => job \in Ids /\ job < m_nextId
  BY Ranges
<1> DEFINE cancelled(i) == \E n \in DOMAIN answers[i] : answers[i][n] = "Cancelled"
<1>1. CASE LoadPath \/ LoadList \/ PushFd
  <2>1. /\ m_nextId' = m_nextId + 1 /\ Dropped' = Dropped
        /\ UNCHANGED <<m_currentJob, job, result, answers>>
        /\ worker' = worker \/ (worker = "blocked" /\ worker' = "top")
        /\ main' \notin {"push", "quit", "join", "gone"}
    BY <1>1, MainQueues DEF LoadPath, LoadList, PushFd
  <2>2. \A i \in Ids : i < m_nextId => Superseded(i)'
    BY <1>0, <2>1 DEF Superseded
  <2>3. ASSUME NEW i \in Ids, cancelled(i)
        PROVE  i < m_nextId
    BY <2>3 DEF Core, InOnePlace
  <2>4. CancelledWasSuperseded'
    BY <1>0, <2>1, <2>3 DEF CancelledWasSuperseded
  <2>5. \A i \in Dropped' : Superseded(i)'
    BY <1>0, <2>1, <2>2
  <2>6. worker' \in {"load", "check", "answer"} => Superseded(job)'
    BY <1>0, <2>1, <2>2 DEF Superseded
  <2> QED
    BY <2>4, <2>5, <2>6 DEF CancelledSuperseded
<1>2. CASE LoadFd \/ Quit
  <2>1. main' \in {"push", "quit"}
    BY <1>2 DEF LoadFd, Quit
  <2> QED
    BY <2>1 DEF CancelledSuperseded, CancelledWasSuperseded, Superseded
<1>3. CASE CancelPrevious
  <2>1. /\ UNCHANGED <<m_nextId, answers, worker, job, result>> /\ main = "cancel" /\ main' = "assign"
        /\ Dropped' \subseteq {v_currentJob} \ {None}
        /\ m_currentJob' = m_currentJob \/ v_currentJob # None
        /\ m_currentJob' = m_currentJob \/ m_currentJob = v_currentJob
    <3>1. CASE v_currentJob = None
      BY <1>3, <3>1 DEF CancelPrevious, providerVars, Core, MainHolds, Dropped, Range
    <3>2. CASE v_currentJob # None
      <4>1. Cancel(v_currentJob) /\ v_currentJob \in Ids /\ Dropped = {}
        BY <1>3, <3>2 DEF CancelPrevious, Core, TypeOK, MainHolds, Dropped, Range
      <4> QED
        BY <1>3, <3>2, <4>1, CancelEffect DEF Core, TypeOK, Cancel, CancelPrevious
    <3> QED
      BY <3>1, <3>2
  <2>2. v_currentJob # None => v_currentJob = m_nextId - 2
    BY <2>1 DEF Core, WaitsForNewest
  <2>3. \A i \in Dropped' : Superseded(i)'
    BY <1>0, <2>1, <2>2 DEF Superseded
  <2>4. ASSUME worker \in {"load", "check"}, m_currentJob' = None
        PROVE  Superseded(job)'
    <3>1. CASE m_currentJob = None
      BY <2>1, <2>4, <3>1 DEF CancelledSuperseded, Superseded
    <3>2. CASE m_currentJob # None
      BY <1>0, <2>1, <2>2, <2>4, <3>2 DEF Core, WorkerHasJob, Superseded
    <3> QED
      BY <3>1, <3>2
  <2>5. CancelledWasSuperseded'
    BY <2>1 DEF CancelledSuperseded, CancelledWasSuperseded
  <2> QED
    BY <2>1, <2>3, <2>4, <2>5 DEF CancelledSuperseded, Superseded
<1>4. CASE Assign \/ CutSelection \/ CutSetTexture \/ ProviderReset \/ ProviderJoined
  <2>1. /\ UNCHANGED <<m_nextId, answers, dropped, m_currentJob, job, result>>
        /\ worker' = worker \/ (worker = "blocked" /\ worker' = "top")
        /\ main \in {"push", "quit", "join", "gone"} => main' \in {"push", "quit", "join", "gone"}
    BY <1>4 DEF Assign, CutSelection, CutSetTexture, ProviderReset, ProviderJoined, Shutdown, Notify, providerVars
  <2>2. Dropped' = Dropped
    BY <2>1 DEF Dropped
  <2>3. CancelledWasSuperseded'
    BY <2>1 DEF CancelledSuperseded, CancelledWasSuperseded
  <2> QED
    BY <2>1, <2>2, <2>3 DEF CancelledSuperseded, Superseded
<1>5. CASE MainHandler
  <2> DEFINE h == Head(dropped)
  <2>1. /\ h \in Dropped /\ Dropped' \subseteq Dropped
        /\ answers' = [answers EXCEPT ![h] = <<"Cancelled">>]
    BY <1>5, AnswerDroppedEffect DEF MainHandler, Core, TypeOK
  <2>2. UNCHANGED <<m_nextId, m_currentJob, worker, job, result, main>>
    BY <1>5 DEF MainHandler, AnswerDropped
  <2> HIDE DEF h
  <2>3. \A i \in Ids : i # h => answers'[i] = answers[i]
    BY <2>1 DEF Core, TypeOK, ProviderTypeOK
  <2>4. Superseded(h) /\ \A i \in Ids : Superseded(i) => Superseded(i)'
    BY <2>1, <2>2 DEF CancelledSuperseded, Superseded
  <2>5. CancelledWasSuperseded'
    BY <2>2, <2>3, <2>4 DEF CancelledSuperseded, CancelledWasSuperseded, Superseded
  <2> QED
    BY <1>0, <2>1, <2>2, <2>4, <2>5 DEF CancelledSuperseded, Superseded
<1>6. CASE ProviderIdle \/ ProviderLoad \/ HandlerFinishDnd \/ HandlerSetBitmap
  <2>1. UNCHANGED <<m_nextId, answers, dropped, main>>
    BY <1>6 DEF ProviderIdle, WorkerExit, WorkerBlock, WorkerTake, WorkerCheck, ProviderLoad, WorkerLoad,
       HandlerFinishDnd, HandlerSetBitmap, providerVars, viewVars
  <2>2. Dropped' = Dropped /\ CancelledWasSuperseded'
    BY <2>1 DEF Dropped, CancelledSuperseded, CancelledWasSuperseded
  <2>3. CASE WorkerTake
    <3>1. m_currentJob' # None /\ worker' = "load"
      BY <2>3, WorkerTakeEffect DEF Core, TypeOK, WorkerTake, Ids, None
    <3> QED
      BY <2>1, <2>2, <3>1 DEF CancelledSuperseded, Superseded
  <2>4. CASE WorkerCheck
    BY <2>1, <2>2, <2>4 DEF CancelledSuperseded, Superseded, WorkerCheck, Core, WorkerHasJob
  <2>5. CASE WorkerExit \/ WorkerBlock
    BY <2>1, <2>2, <2>5 DEF CancelledSuperseded, Superseded, WorkerExit, WorkerBlock
  <2>6. CASE ProviderLoad \/ HandlerFinishDnd \/ HandlerSetBitmap
    BY <2>1, <2>2, <2>6 DEF CancelledSuperseded, Superseded, ProviderLoad, WorkerLoad, HandlerFinishDnd,
       HandlerSetBitmap, providerVars
  <2> QED
    BY <1>6, <2>3, <2>4, <2>5, <2>6 DEF ProviderIdle
<1>7. CASE HandlerLocked
  <2>1. /\ job \in Ids /\ Dropped' = Dropped /\ answers' = [answers EXCEPT ![job] = <<result>>]
        /\ worker = "answer" /\ worker' = "top" /\ UNCHANGED <<main, m_nextId>>
    BY <1>7, WorkerAnswerEffect DEF HandlerLocked, WorkerAnswer, Core, TypeOK
  <2>2. \A i \in Ids : answers'[i] = IF i = job THEN <<result>> ELSE answers[i]
    BY <2>1 DEF Core, TypeOK, ProviderTypeOK
  <2>3. CancelledWasSuperseded'
    <3> SUFFICES ASSUME NEW i \in Ids, NEW n \in DOMAIN answers'[i], answers'[i][n] = "Cancelled"
                 PROVE  Superseded(i)'
      BY DEF CancelledWasSuperseded, Superseded
    <3>1. CASE i = job
      <4>1. result = "Cancelled"
        BY <2>2, <3>1
      <4> QED
        BY <2>1, <3>1, <4>1 DEF CancelledSuperseded, Superseded
    <3>2. CASE i # job
      <4>1. n \in DOMAIN answers[i] /\ answers[i][n] = "Cancelled"
        BY <2>2, <3>2
      <4> QED
        BY <2>1, <4>1 DEF CancelledSuperseded, CancelledWasSuperseded, Superseded
    <3> QED
      BY <3>1, <3>2
  <2> QED
    BY <2>1, <2>3 DEF CancelledSuperseded, Superseded
<1> QED
  BY <1>1, <1>2, <1>3, <1>4, <1>5, <1>6, <1>7 DEF Next, MainStep, ProviderStep

\* Only jobs superseded by a later one, or cut short by the closing of the
\* viewer, are answered Cancelled.
THEOREM OnlySupersededCancelled == Spec => []CancelledWasSuperseded
<1>1. Init => CancelledSuperseded
  BY DEF Init, ProviderInit, CancelledSuperseded, CancelledWasSuperseded, Dropped, Range
<1>2. Core /\ Core' /\ CancelledSuperseded /\ [Next]_vars => CancelledSuperseded'
  <2>1. CancelledSuperseded /\ UNCHANGED vars => CancelledSuperseded'
    <3> SUFFICES ASSUME CancelledSuperseded, UNCHANGED <<providerVars, viewVars>>
                 PROVE  CancelledSuperseded'
      BY DEF vars
    <3>1. Dropped' = Dropped
      BY DEF providerVars, Dropped
    <3> QED
      BY <3>1 DEF providerVars, viewVars, CancelledSuperseded, CancelledWasSuperseded, Superseded
  <2> QED
    BY <2>1, CancelledStep
<1>3. CancelledSuperseded => CancelledWasSuperseded
  BY DEF CancelledSuperseded
<1> QED
  BY <1>1, <1>2, <1>3, CoreHolds, PTL DEF Spec

-----------------------------------------------------------------------------
(* The window title.                                                       *)

\* The title follows the image.
LEMMA TitleStep ==
    ASSUME Core, ViewIsOlder, TitleFollows, Next
    PROVE  TitleFollows'
<1>1. CASE LoadList
  <2>1. m_nextId = 0 /\ view \in Ids \cup {None} /\ job \in Ids \cup {None}
    BY <1>1 DEF LoadList, Core, TypeOK, ProviderTypeOK
  <2>2. view = None /\ job = None
    BY <2>1 DEF ViewIsOlder, Core, InOnePlace, Ids, None
  <2>3. view' = None /\ worker' # "answer"
    BY <1>1, <2>2, MainQueues DEF Core, WorkerHasJob
  <2> QED
    BY <2>3 DEF TitleFollows
<1>2. CASE LoadPath \/ PushFd
  <2>1. UNCHANGED <<view, m_origin, putBack>>
    BY <1>2 DEF LoadPath, PushFd
  <2> QED
    BY <1>2, <2>1, MainQueues DEF TitleFollows
<1>3. CASE LoadFd \/ Quit \/ CancelPrevious \/ Assign \/ MainHandler \/ ProviderReset \/ CutSelection \/ ProviderJoined
  <2>1. UNCHANGED <<view, m_origin, putBack>>
    BY <1>3 DEF LoadFd, Quit, CancelPrevious, Assign, MainHandler, ProviderReset, CutSelection, ProviderJoined
  <2> QED
    BY <1>3, <2>1, MainTakesOut DEF TitleFollows
<1>4. CASE CutSetTexture
  <2>1. UNCHANGED <<m_origin, worker, handler, result, job>>
    BY <1>4 DEF CutSetTexture, providerVars
  <2>2. CASE UNCHANGED <<view, putBack>>
    BY <2>1, <2>2 DEF TitleFollows
  <2>3. CASE view' = cut /\ putBack' = (putBack \/ view # cut)
    <3>1. putBack' \/ (~putBack /\ view' = view)
      BY <2>3, Zenon
    <3> QED
      BY <2>1, <3>1 DEF TitleFollows
  <2> QED
    BY <1>4, <2>2, <2>3, Zenon DEF CutSetTexture
<1>5. CASE ProviderIdle \/ ProviderLoad
  <2>1. /\ UNCHANGED <<view, m_origin, putBack>>
        /\ ~(worker = "answer" /\ handler = "lock" /\ result = "Success")
        /\ ~(worker' = "answer" /\ handler' = "lock" /\ result' = "Success")
    BY <1>5 DEF ProviderIdle, WorkerExit, WorkerBlock, WorkerTake, WorkerCheck, ProviderLoad, WorkerLoad,
       viewVars, Core, WorkerHasJob
  <2> QED
    BY <2>1 DEF TitleFollows
<1>6. CASE HandlerFinishDnd
  <2>1. /\ UNCHANGED <<view, m_origin, putBack>>
        /\ ~(worker = "answer" /\ handler = "lock" /\ result = "Success")
        /\ ~(worker' = "answer" /\ handler' = "lock" /\ result' = "Success")
    BY <1>6 DEF HandlerFinishDnd, providerVars
  <2> QED
    BY <2>1 DEF TitleFollows
<1>7. CASE HandlerSetBitmap
  BY <1>7 DEF HandlerSetBitmap, providerVars, TitleFollows, Core, WorkerHasJob
<1>8. CASE HandlerLocked
  BY <1>8 DEF HandlerLocked, WorkerAnswer, TitleFollows
<1> QED
  BY <1>1, <1>2, <1>3, <1>4, <1>5, <1>6, <1>7, <1>8 DEF Next, MainStep, ProviderStep

\* When no answer is being handled, the title names the image that is shown.
THEOREM TitleNamesImage == Spec => []TitleMatchesImage
<1>1. Init => ViewIsOlder /\ TitleFollows
  BY DEF Init, ProviderInit, ViewIsOlder, Queued, Range, None, TitleFollows
<1>2. Core /\ Core' /\ ViewIsOlder /\ TitleFollows /\ [Next]_vars => ViewIsOlder' /\ TitleFollows'
  <2>1. UNCHANGED vars => Queued' = Queued
    BY DEF vars, providerVars, Queued
  <2>2. ViewIsOlder /\ TitleFollows /\ UNCHANGED vars => ViewIsOlder' /\ TitleFollows'
    BY <2>1 DEF vars, providerVars, viewVars, ViewIsOlder, TitleFollows
  <2> QED
    BY <2>2, ViewStep, TitleStep
<1>3. TitleFollows => TitleMatchesImage
  BY DEF TitleFollows, TitleMatchesImage
<1> QED
  BY <1>1, <1>2, <1>3, CoreHolds, PTL DEF Spec

-----------------------------------------------------------------------------
(* Descriptors.                                                            *)

\* Every descriptor keeps its owner.
LEMMA FdsStep ==
    ASSUME Core, Core', FdsFollow, Next
    PROVE  FdsFollow'
<1>0. /\ m_nextId \in Nat /\ Ids \subseteq Nat /\ Queued \subseteq Ids
      /\ \A i \in Queued \cup Dropped : i < m_nextId
      /\ worker \in {"load", "check", "answer"} => job \in Ids /\ job < m_nextId
      /\ fd \in [Ids -> FdStates] /\ kind \in [Ids -> Kinds] /\ answers \in [Ids -> Seq(Results)]
  BY Ranges DEF Core, TypeOK, ProviderTypeOK
<1>1. CASE LoadPath \/ LoadList \/ PushFd
  <2>1. /\ m_nextId \in Ids /\ m_nextId' = m_nextId + 1 /\ Queued' = Queued \cup {m_nextId}
        /\ UNCHANGED <<job, answers, handler>>
        /\ worker' = worker \/ (worker = "blocked" /\ worker' = "top")
    BY <1>1, MainQueues
  <2>2. /\ \A i \in Ids \ {m_nextId} : fd'[i] = fd[i] /\ kind'[i] = kind[i]
        /\ kind'[m_nextId] = "path" => fd'[m_nextId] = "none"
        /\ kind'[m_nextId] # "path" => fd'[m_nextId] = "open"
    BY <1>0, <1>1, <2>1 DEF LoadPath, LoadList, PushFd, FdsFollow, FdState
  <2>3. answers[m_nextId] = <<>> /\ job # m_nextId
    BY <2>1 DEF Core, InOnePlace, Ids, None
  <2> SUFFICES ASSUME NEW i \in Ids
               PROVE  FdState(i)'
    BY DEF FdsFollow
  <2>4. CASE i = m_nextId
    BY <1>0, <2>1, <2>2, <2>3, <2>4 DEF FdState
  <2>5. CASE i # m_nextId
    BY <1>0, <2>1, <2>2, <2>5 DEF FdState, FdsFollow
  <2> QED
    BY <2>4, <2>5
<1>2. CASE LoadFd \/ Quit \/ CancelPrevious \/ Assign \/ ProviderReset \/ CutSelection \/ CutSetTexture \/ ProviderJoined
  <2>1. UNCHANGED <<fd, kind, answers>>
    BY <1>2 DEF LoadFd, Quit, CancelPrevious, Assign, ProviderReset, CutSelection, CutSetTexture, ProviderJoined,
       CancelAll, Cancel, Shutdown, providerVars
  <2> QED
    BY <1>0, <1>2, <2>1, MainTakesOut DEF FdState, FdsFollow
<1>3. CASE MainHandler
  <2> DEFINE h == Head(dropped)
  <2>1. /\ h \in Dropped /\ h \in Ids
        /\ answers' = [answers EXCEPT ![h] = <<"Cancelled">>]
        /\ FinishDnd(h) /\ UNCHANGED <<m_nextId, kind, job, worker, handler>>
    BY <1>3, AnswerDroppedEffect DEF MainHandler, AnswerDropped, Core, TypeOK
  <2> HIDE DEF h
  <2>2. answers[h] = <<>> /\ h # job /\ h \notin Queued
    BY <2>1 DEF Core, InOnePlace
  <2>3. Queued' = Queued
    BY <1>3 DEF MainHandler, AnswerDropped, Queued
  <2> SUFFICES ASSUME NEW i \in Ids
               PROVE  FdState(i)'
    BY DEF FdsFollow
  <2>4. FdState(i) /\ FdState(h)
    BY <2>1 DEF FdsFollow
  <2>5. CASE i = h
    <3>1. answers'[i] = <<"Cancelled">> /\ answers'[i] # <<>>
      BY <1>0, <2>1, <2>5
    <3>2. fd'[i] = IF kind[i] = "dnd" THEN Closed(fd[i]) ELSE fd[i]
      BY <1>0, <2>1, <2>5 DEF FinishDnd, CloseFd
    <3> QED
      BY <1>0, <2>1, <2>2, <2>3, <2>4, <2>5, <3>1, <3>2 DEF FdState, Closed
  <2>6. CASE i # h
    <3>1. answers'[i] = answers[i] /\ fd'[i] = fd[i]
      BY <1>0, <2>1, <2>6 DEF FinishDnd, CloseFd
    <3> QED
      BY <2>1, <2>3, <2>4, <3>1 DEF FdState
  <2> QED
    BY <2>5, <2>6
<1>4. CASE WorkerTake /\ UNCHANGED viewVars
  <2>1. /\ job' \in Queued /\ Queued' = Queued \ {job'} /\ worker = "top" /\ worker' = "load"
        /\ UNCHANGED <<fd, kind, answers, m_nextId, handler>>
    BY <1>4, WorkerTakeEffect DEF WorkerTake, viewVars, Core, TypeOK
  <2> QED
    BY <1>0, <2>1 DEF FdState, FdsFollow
<1>5. CASE (WorkerExit \/ WorkerBlock \/ WorkerCheck) /\ UNCHANGED viewVars
  <2>1. UNCHANGED <<fd, kind, answers, m_nextId, handler, job, m_jobs>> /\ worker \in {"top", "check"}
        /\ worker' # "load" /\ handler = "fd"
    BY <1>5 DEF WorkerExit, WorkerBlock, WorkerCheck, viewVars, Core, WorkerHasJob
  <2>2. Queued' = Queued
    BY <2>1 DEF Queued
  <2> QED
    BY <1>0, <2>1, <2>2 DEF FdState, FdsFollow
<1>6. CASE ProviderLoad
  <2>1. UNCHANGED <<kind, answers, m_nextId, handler, job, m_jobs>> /\ worker = "load" /\ worker' = "check"
        /\ handler = "fd"
    BY <1>6 DEF ProviderLoad, WorkerLoad, Core, WorkerHasJob
  <2>2. Queued' = Queued /\ job \notin Queued
    BY <2>1 DEF Queued, Core, InOnePlace
  <2>3. \A i \in Ids : fd'[i] = IF i = job /\ kind[job] = "clipboard" THEN Closed(fd[i]) ELSE fd[i]
    BY <1>0, <1>6, <2>1 DEF ProviderLoad, CloseFd
  <2> QED
    BY <1>0, <2>1, <2>2, <2>3 DEF FdState, FdsFollow, Closed
<1>7. CASE HandlerFinishDnd
  <2>1. /\ UNCHANGED <<kind, answers, m_nextId, job, m_jobs, worker>> /\ worker = "answer"
        /\ handler = "fd" /\ handler' # "fd"
    BY <1>7 DEF HandlerFinishDnd, providerVars
  <2>2. Queued' = Queued /\ answers[job] = <<>>
    BY <1>0, <2>1 DEF Queued, Core, InOnePlace, None, Ids, WorkerHasJob
  <2>3. \A i \in Ids : fd'[i] = IF i = job /\ kind[job] = "dnd" THEN Closed(fd[i]) ELSE fd[i]
    BY <1>0, <1>7, <2>1 DEF HandlerFinishDnd, FinishDnd, CloseFd
  <2> QED
    BY <1>0, <2>1, <2>2, <2>3 DEF FdState, FdsFollow, Closed
<1>8. CASE HandlerSetBitmap
  <2>1. UNCHANGED <<kind, fd, answers, m_nextId, job, m_jobs, worker>> /\ handler # "fd" /\ handler' # "fd"
    BY <1>8 DEF HandlerSetBitmap, providerVars
  <2>2. Queued' = Queued
    BY <2>1 DEF Queued
  <2> QED
    BY <2>1, <2>2 DEF FdState, FdsFollow
<1>9. CASE HandlerLocked
  <2>1. /\ answers' = [answers EXCEPT ![job] = <<result>>] /\ job \in Ids /\ job' = None /\ Queued' = Queued
        /\ UNCHANGED <<kind, fd, m_nextId>> /\ worker = "answer" /\ worker' = "top" /\ handler = "lock"
    BY <1>9, WorkerAnswerEffect DEF HandlerLocked, WorkerAnswer, Core, TypeOK
  <2>2. \A i \in Ids : answers'[i] = IF i = job THEN <<result>> ELSE answers[i]
    BY <1>0, <2>1
  <2> QED
    BY <1>0, <2>1, <2>2 DEF FdState, FdsFollow
<1> QED
  BY <1>1, <1>2, <1>3, <1>4, <1>5, <1>6, <1>7, <1>8, <1>9 DEF Next, MainStep, ProviderStep, ProviderIdle

\* No descriptor is closed twice, and that of a drag and drop job is open while
\* it is read and closed once the job is answered.
THEOREM DescriptorsClosedOnce == Spec => []FdDiscipline
<1>1. Init => FdsFollow
  BY MaxJobsAssumption DEF Init, ProviderInit, FdsFollow, FdState, Queued, Range, Ids
<1>2. Core /\ Core' /\ FdsFollow /\ [Next]_vars => FdsFollow'
  <2>1. FdsFollow /\ UNCHANGED vars => FdsFollow'
    <3> SUFFICES ASSUME FdsFollow, UNCHANGED <<providerVars, viewVars>>
                 PROVE  FdsFollow'
      BY DEF vars
    <3>1. Queued' = Queued
      BY DEF providerVars, Queued
    <3> QED
      BY <3>1 DEF providerVars, viewVars, FdsFollow, FdState
  <2> QED
    BY <2>1, FdsStep
<1>3. Core /\ FdsFollow => FdDiscipline
  <2> SUFFICES ASSUME Core, FdsFollow, NEW i \in Ids
               PROVE  /\ fd[i] # "closedTwice"
                      /\ kind[i] = "dnd" /\ job = i /\ worker = "load" => fd[i] = "open"
                      /\ kind[i] = "dnd" /\ answers[i] # <<>> => fd[i] = "closed"
    BY DEF FdDiscipline
  <2>1. kind[i] \in {"path", "clipboard", "dnd"} /\ FdState(i)
    BY DEF Core, TypeOK, Kinds, FdsFollow
  <2>2. job = i => answers[i] = <<>>
    BY DEF Core, InOnePlace, Ids, None
  <2> QED
    BY <2>1, <2>2 DEF FdState
<1> QED
  BY <1>1, <1>2, <1>3, CoreHolds, PTL DEF Spec
=============================================================================

---------------------------- MODULE ImageLoading ----------------------------
(***************************************************************************)
(* How iv loads images: the Viewport (tools/iv/Viewport.cpp) on the main   *)
(* thread asks the ImageProvider for an image and is answered through      *)
(* ImageHandler, on the provider's thread or, for a job that is taken out  *)
(* again, on the main thread inside the call that cancels it.              *)
(*                                                                         *)
(* The main thread holds Viewport::m_lock for the whole of LoadImage;      *)
(* ImageHandler takes it only for its last part.  An image comes from a    *)
(* path, from the clipboard (a descriptor the loader's buffer owns and     *)
(* closes) or from drag and drop (a descriptor that ImageHandler closes).  *)
(***************************************************************************)
EXTENDS ImageProvider

Kinds == {"path", "clipboard", "dnd"}

VARIABLES
    main,           \* where the main thread stands
    lock,           \* holder of Viewport::m_lock
    kind,           \* where each job's image comes from
    fd,             \* state of each job's descriptor
    v_currentJob,   \* Viewport::m_currentJob
    m_isBusy,       \* the busy indicator is shown
    handler,        \* progress of ImageHandler on the provider's thread
    view,           \* the job whose image is shown
    m_origin,       \* the job whose name is in the window title
    cut,            \* the image CutSelection is working on
    putBack         \* CutSelection replaced a newer image (history variable)

viewVars == <<main, lock, kind, fd, v_currentJob, m_isBusy, handler, view, m_origin, cut, putBack>>

vars == <<providerVars, viewVars>>

FdStates == {"none", "open", "closed", "closedTwice"}

\* The type invariant of the viewport and the provider.
TypeOK ==
    /\ ProviderTypeOK
    /\ main \in {"idle", "cancel", "push", "assign", "cut", "quit", "join", "gone", "panic"}
    /\ lock \in {"free", "main"}
    /\ kind \in [Ids -> Kinds]
    /\ fd \in [Ids -> FdStates]
    /\ v_currentJob \in Ids \cup {None}
    /\ m_isBusy \in BOOLEAN
    /\ handler \in {"fd", "bitmap", "lock"}
    /\ view \in Ids \cup {None}
    /\ m_origin \in Ids \cup {None}
    /\ cut \in Ids \cup {None}
    /\ putBack \in BOOLEAN

Init ==
    /\ ProviderInit
    /\ main = "idle"
    /\ lock = "free"
    /\ kind = [i \in Ids |-> "path"]
    /\ fd = [i \in Ids |-> "none"]
    /\ v_currentJob = None
    /\ m_isBusy = FALSE
    /\ handler = "fd"
    /\ view = None
    /\ m_origin = None
    /\ cut = None
    /\ putBack = FALSE

Closed(s) == IF s = "open" THEN "closed" ELSE "closedTwice"

CloseFd(i) == fd' = [fd EXCEPT ![i] = Closed(@)]

\* The first line of ImageHandler: only a drag and drop descriptor is closed here.
FinishDnd(i) == IF kind[i] = "dnd" THEN CloseFd(i) ELSE UNCHANGED fd

StillBusy(i) == UNCHANGED <<v_currentJob, m_isBusy>>

\* The last part of ImageHandler, under m_lock.
JobEnded(i) ==
    IF v_currentJob = i
    THEN v_currentJob' = None /\ m_isBusy' = FALSE
    ELSE UNCHANGED <<v_currentJob, m_isBusy>>

-----------------------------------------------------------------------------
(* Viewport::LoadImage( path ): queue the new job, then cancel the old one.*)

LoadPathUnlocked ==
    /\ main = "idle" /\ lock = "free"
    /\ LoadImage
    /\ kind' = [kind EXCEPT ![m_nextId] = "path"]
    /\ main' = "cancel"
    /\ UNCHANGED <<lock, fd, v_currentJob, m_isBusy, handler, view, m_origin, cut, putBack>>

LoadPath ==
    /\ main = "idle" /\ lock = "free"
    /\ lock' = "main"
    /\ LoadImage
    /\ kind' = [kind EXCEPT ![m_nextId] = "path"]
    /\ main' = "cancel"
    /\ UNCHANGED <<fd, v_currentJob, m_isBusy, handler, view, m_origin, cut, putBack>>

\* Several paths on the command line: the name is set before the image is there.
LoadList ==
    /\ m_nextId = 0
    /\ main = "idle"
    /\ lock' = "main"
    /\ LoadImage
    /\ m_origin' = 0
    /\ main' = "cancel"
    /\ UNCHANGED <<kind, fd, v_currentJob, m_isBusy, handler, view, cut, putBack>>

CancelPrevious ==
    /\ main = "cancel"
    /\ IF v_currentJob # None THEN Cancel(v_currentJob) ELSE UNCHANGED providerVars
    /\ main' = "assign"
    /\ UNCHANGED <<lock, kind, fd, v_currentJob, m_isBusy, handler, view, m_origin, cut, putBack>>

(* Viewport::LoadImage( fd ): cancel everything, then queue the new job.   *)

LoadFd ==
    /\ main = "idle" /\ lock = "free"
    /\ m_nextId < MaxJobs
    /\ lock' = "main"
    /\ CancelAll
    /\ main' = "push"
    /\ UNCHANGED <<kind, fd, v_currentJob, m_isBusy, handler, view, m_origin, cut, putBack>>

\* A descriptor of -1 (pipe() failed) makes it a job for the origin's path.
PushFd ==
    /\ main = "push" /\ dropped = <<>>
    /\ LoadImage
    /\ \E k \in Kinds :
          /\ kind' = [kind EXCEPT ![m_nextId] = k]
          /\ fd' = [fd EXCEPT ![m_nextId] = IF k = "path" THEN "none" ELSE "open"]
    /\ main' = "assign"
    /\ UNCHANGED <<lock, v_currentJob, m_isBusy, handler, view, m_origin, cut, putBack>>

\* The end of both: m_currentJob becomes the new job, SetBusy, m_lock is released.
Assign ==
    /\ main = "assign" /\ dropped = <<>>
    /\ v_currentJob' = m_nextId - 1
    /\ m_isBusy' = TRUE
    /\ lock' = "free"
    /\ main' = "idle"
    /\ UNCHANGED <<providerVars, kind, fd, handler, view, m_origin, cut, putBack>>

MainHandlerKeepsFd ==
    /\ main \in {"push", "assign", "quit"} /\ dropped # <<>>
    /\ AnswerDropped
    /\ JobEnded(Head(dropped))
    /\ UNCHANGED <<main, lock, kind, fd, handler, view, m_origin, cut, putBack>>

\* ImageHandler( Cancelled ) on the main thread, for a job that was taken out;
\* m_lock is recursive, and free only in the destructor.
MainHandler ==
    /\ main \in {"push", "assign", "quit"} /\ dropped # <<>>
    /\ FinishDnd(Head(dropped))
    /\ AnswerDropped
    /\ JobEnded(Head(dropped))
    /\ UNCHANGED <<main, lock, kind, handler, view, m_origin, cut, putBack>>

-----------------------------------------------------------------------------
(* CutSelection edits the image it took from the view and puts it back.    *)

\* The size of each job's image; two sizes are enough to be equal or not.
Extent(i) == i % 2

CutSelection ==
    /\ main = "idle" /\ view # None
    /\ cut' = view
    /\ main' = "cut"
    /\ UNCHANGED <<providerVars, lock, kind, fd, v_currentJob, m_isBusy, handler, view, m_origin, putBack>>

\* SetTexture with newBitmap = false; the process ends if the size is another.
CutSetTexture ==
    /\ main = "cut"
    /\ \/ /\ Extent(cut) = Extent(view)
          /\ view' = cut
          /\ putBack' = (putBack \/ view # cut)
          /\ main' = "idle"
       \/ /\ Extent(cut) # Extent(view)
          /\ main' = "panic"
          /\ UNCHANGED <<view, putBack>>
    /\ cut' = None
    /\ UNCHANGED <<providerVars, lock, kind, fd, v_currentJob, m_isBusy, handler, m_origin>>

-----------------------------------------------------------------------------
(* The destructor of the Viewport.                                         *)

Quit ==
    /\ main = "idle"
    /\ CancelAll
    /\ main' = "quit"
    /\ UNCHANGED <<lock, kind, fd, v_currentJob, m_isBusy, handler, view, m_origin, cut, putBack>>

ProviderReset ==
    /\ main = "quit" /\ dropped = <<>>
    /\ Shutdown
    /\ main' = "join"
    /\ UNCHANGED <<lock, kind, fd, v_currentJob, m_isBusy, handler, view, m_origin, cut, putBack>>

ProviderJoined ==
    /\ main = "join" /\ worker = "exited"
    /\ main' = "gone"
    /\ UNCHANGED <<providerVars, lock, kind, fd, v_currentJob, m_isBusy, handler, view, m_origin, cut, putBack>>

-----------------------------------------------------------------------------
(* The provider's thread.                                                  *)

ProviderIdle ==
    /\ WorkerExit \/ WorkerBlock \/ WorkerTake \/ WorkerCheck
    /\ UNCHANGED viewVars

\* Reading the image; the buffer made from a clipboard descriptor closes it.
ProviderLoad ==
    /\ \E r \in {"Success", "Error"} : WorkerLoad(r)
    /\ IF kind[job] = "clipboard" THEN CloseFd(job) ELSE UNCHANGED fd
    /\ UNCHANGED <<main, lock, kind, v_currentJob, m_isBusy, handler, view, m_origin, cut, putBack>>

HandlerFinishDnd ==
    /\ worker = "answer" /\ handler = "fd"
    /\ FinishDnd(job)
    /\ handler' = IF result = "Success" THEN "bitmap" ELSE "lock"
    /\ UNCHANGED <<providerVars, main, lock, kind, v_currentJob, m_isBusy, view, m_origin, cut, putBack>>

\* m_view->SetBitmap and m_window->EnableHdr, without m_lock.
HandlerSetBitmap ==
    /\ worker = "answer" /\ handler = "bitmap"
    /\ view' = job
    /\ putBack' = FALSE
    /\ handler' = "lock"
    /\ UNCHANGED <<providerVars, main, lock, kind, fd, v_currentJob, m_isBusy, m_origin, cut>>

HandlerKeepsTitle ==
    /\ worker = "answer" /\ handler = "lock" /\ lock = "free"
    /\ JobEnded(job)
    /\ m_origin' = IF result = "Success" /\ v_currentJob = job THEN job ELSE m_origin
    /\ WorkerAnswer
    /\ handler' = "fd"
    /\ UNCHANGED <<main, lock, kind, fd, view, cut, putBack>>

HandlerLocked ==
    /\ worker = "answer" /\ handler = "lock" /\ lock = "free"
    /\ m_origin' = IF result = "Success" THEN job ELSE m_origin
    /\ JobEnded(job)
    /\ WorkerAnswer
    /\ handler' = "fd"
    /\ UNCHANGED <<main, lock, kind, fd, view, cut, putBack>>

-----------------------------------------------------------------------------

MainStep == CancelPrevious \/ PushFd \/ Assign \/ MainHandler \/ CutSetTexture \/ ProviderReset \/ ProviderJoined

ProviderStep ==
    /\ main # "panic"
    /\ ProviderIdle \/ ProviderLoad \/ HandlerFinishDnd \/ HandlerSetBitmap \/ HandlerLocked

Next == LoadPath \/ LoadList \/ LoadFd \/ CutSelection \/ Quit \/ MainStep \/ ProviderStep

\* The main thread finishes what it began and the provider's thread runs on
\* (loaders end); the user need not do anything.
Fairness == WF_vars(MainStep) /\ WF_vars(ProviderStep)

Spec == Init /\ [][Next]_vars

FairSpec == Spec /\ Fairness

-----------------------------------------------------------------------------
(* Properties.                                                             *)

\* No job is answered twice, and once the viewport is gone every job has been
\* answered: none is dropped silently between Cancel, CancelAll, the worker
\* and the provider's destructor.
OneAnswer ==
    /\ \A i \in Ids : Len(answers[i]) <= 1
    /\ main = "gone" => \A i \in 0 .. m_nextId - 1 : Len(answers[i]) = 1

\* While m_lock is free, the viewport is busy exactly if it waits for a job,
\* and that job has not been answered yet: otherwise the busy indicator would
\* turn for ever.
BusyMeansOutstanding ==
    lock = "free" =>
        /\ m_isBusy <=> v_currentJob # None
        /\ v_currentJob # None => answers[v_currentJob] = <<>>

\* The provider never replaces a newer image by an older one, although it takes
\* the newest job first and the old job is cancelled after the new one is queued.
NewestImageStays == [][worker' # worker \/ handler' # handler => view' >= view]_vars

\* Only a job that was superseded by a later one, or that the closing of the
\* viewer cut short, is answered Cancelled.
CancelledWasSuperseded ==
    \A i \in Ids :
        (\E n \in DOMAIN answers[i] : answers[i][n] = "Cancelled")
          => \/ i < m_nextId - 1
             \/ main \in {"push", "quit", "join", "gone"}

\* When no answer is being handled, the title names the image that is shown
\* (none may be shown yet), unless CutSelection has put an older one back.
TitleMatchesImage == worker # "answer" => m_origin = view \/ view = None \/ putBack

\* The assertion of SetTexture: an edited image has the size of the image shown.
NoPanic == main # "panic"

\* A descriptor is never closed twice (the number may belong to another file by
\* then), and that of a drag and drop job is open while the loader reads it
\* and closed when the job has been answered.
FdDiscipline ==
    \A i \in Ids :
        /\ fd[i] # "closedTwice"
        /\ kind[i] = "dnd" /\ job = i /\ worker = "load" => fd[i] = "open"
        /\ kind[i] = "dnd" /\ answers[i] # <<>> => fd[i] = "closed"

\* The busy indicator goes away, unless the viewer is closed first.
BusyEnds == m_isBusy ~> (~m_isBusy \/ main \in {"gone", "panic"})

\* Closing the viewer ends: the provider's thread is joined.
QuitEnds == main = "quit" ~> main = "gone"

\* Nothing that waits for the provider waits for ever: both of the above.
WaitsEnd == BusyEnds /\ QuitEnds
=============================================================================

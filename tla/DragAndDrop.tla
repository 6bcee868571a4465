---------------------------- MODULE DragAndDrop ----------------------------
(***************************************************************************)
(* Drag and drop between the compositor, WaylandSeat                       *)
(* (wayland/WaylandSeat.cpp), the Viewport (tools/iv/Viewport.cpp) and the *)
(* provider's thread.  The handlers of the seat call wl_display_roundtrip, *)
(* which dispatches further events before it returns: the main thread is a *)
(* stack of handlers, the last of which waits for its answer while the     *)
(* next events are handled above it.                                       *)
(*                                                                         *)
(* Offers are numbered.  What an image or a list of files holds is         *)
(* abstracted to whether it can be loaded.                                 *)
(***************************************************************************)
EXTENDS Integers, Sequences, SequencesExt, FiniteSets

CONSTANT MaxOffers      \* bound on the drags that enter the window

ASSUME MaxOffersAssumption == MaxOffers \in Nat \ {0}

Offers == 1 .. MaxOffers
MimeTypes == {"text/uri-list", "image/png"}
None == 0
Fds == 1 .. 2 * MaxOffers

VARIABLES
    \* the compositor
    pointer,        \* where the drag is: outside the window or over it
    offers,         \* number of offers made
    mimes,          \* types of each offer
    events,         \* sent to the client and not dispatched yet
    \* WaylandSeat
    m_nextOffer, m_dndOffer, m_dndMime,
    m_pendingDnd,   \* the offer that waits for each descriptor, or None
    alive,          \* offers whose object exists
    \* main thread, descriptors, and the provider's thread
    stack,          \* handlers of the main thread that have not returned
    open,           \* descriptors that are open
    jobs,           \* descriptors of jobs that wait in the provider
    provider,       \* descriptor of the job the provider works on, or None
    closing,        \* descriptor that FinishDnd has still to close, by thread
    \* history variables
    dropped,        \* offers dropped with a type that was accepted
    finished,       \* number of times each offer was finished
    reentered       \* an offer was replaced while Drag was waiting

compositorVars == <<pointer, offers, mimes>>
seatVars == <<m_nextOffer, m_dndOffer, m_dndMime, m_pendingDnd, alive>>
providerVars == <<jobs, provider>>
history == <<dropped, finished, reentered>>

vars == <<compositorVars, events, seatVars, stack, open, providerVars, closing, history>>

Events == [type : {"data_offer", "enter", "leave", "drop", "done"}, n : 0 .. 2 * MaxOffers]

\* A handler on the stack: what it is, its offer and type, its descriptor, and
\* whether the answer to its roundtrip has come.
Handlers == [in : {"Drag", "Drop", "Load", "Finish"}, offer : Offers \cup {None}, mime : MimeTypes \cup {"none"},
             fd : Fds, done : BOOLEAN]

\* The type invariant of drag and drop.
TypeOK ==
    /\ pointer \in {"outside", "over"}
    /\ offers \in 0 .. MaxOffers
    /\ mimes \in [Offers -> SUBSET MimeTypes]
    /\ events \in Seq(Events)
    /\ {m_nextOffer, m_dndOffer} \subseteq Offers \cup {None}
    /\ m_dndMime \in MimeTypes \cup {"none"}
    /\ m_pendingDnd \in [Fds -> Offers \cup {None}]
    /\ alive \subseteq Offers
    /\ stack \in Seq(Handlers)
    /\ open \subseteq Fds
    /\ jobs \subseteq Fds
    /\ provider \in Fds \cup {None}
    /\ closing \in [{"main", "provider"} -> Fds \cup {None}]
    /\ dropped \subseteq Offers
    /\ finished \in [Offers -> 0 .. 2]
    /\ reentered \in BOOLEAN

Init ==
    /\ pointer = "outside" /\ offers = 0 /\ mimes = [o \in Offers |-> {}]
    /\ events = <<>>
    /\ m_nextOffer = None /\ m_dndOffer = None /\ m_dndMime = "none"
    /\ m_pendingDnd = [d \in Fds |-> None]
    /\ alive = {}
    /\ stack = <<>>
    /\ open = {} /\ jobs = {} /\ provider = None
    /\ closing = [t \in {"main", "provider"} |-> None]
    /\ dropped = {} /\ finished = [o \in Offers |-> 0] /\ reentered = FALSE

-----------------------------------------------------------------------------
(* The compositor.  It may send a drop although nothing was accepted, and  *)
(* may or may not send a leave after a drop.                               *)

DragEnters ==
    /\ pointer = "outside" /\ offers < MaxOffers
    /\ offers' = offers + 1
    /\ \E m \in (SUBSET MimeTypes) \ {{}} : mimes' = [mimes EXCEPT ![offers + 1] = m]
    /\ events' = events \o <<[type |-> "data_offer", n |-> offers + 1], [type |-> "enter", n |-> offers + 1]>>
    /\ pointer' = "over"
    /\ UNCHANGED <<seatVars, stack, open, providerVars, closing, history>>

DragLeaves ==
    /\ pointer = "over"
    /\ events' = Append(events, [type |-> "leave", n |-> 0])
    /\ pointer' = "outside"
    /\ UNCHANGED <<offers, mimes, seatVars, stack, open, providerVars, closing, history>>

DragDrops ==
    /\ pointer = "over"
    /\ \E after \in {<<>>, <<[type |-> "leave", n |-> 0]>>} :
          events' = Append(events, [type |-> "drop", n |-> 0]) \o after
    /\ pointer' = "outside"
    /\ UNCHANGED <<offers, mimes, seatVars, stack, open, providerVars, closing, history>>

-----------------------------------------------------------------------------
(* WaylandSeat: sending requests.                                          *)

\* pipe() returns the lowest free descriptor; there is none if all are open.
NewFd == CHOOSE d \in Fds \ open : \A e \in Fds \ open : d <= e

\* Offers whose wl_data_offer_finish is sent.
Finish(s) == finished' = [o \in Offers |-> finished[o] + (IF o \in s THEN 1 ELSE 0)]

\* The main thread can dispatch if it is in no handler, or in a roundtrip.
CanDispatch ==
    /\ closing["main"] = None
    /\ stack # <<>> => Last(stack).in \in {"Drag", "Drop"} /\ ~Last(stack).done

Dispatch(type) ==
    /\ CanDispatch
    /\ events # <<>> /\ Head(events).type = type
    /\ events' = Tail(events)

\* A pipe, wl_data_offer_receive and wl_display_roundtrip: the answer comes
\* after the events that are already on their way.
Roundtrip(h) ==
    /\ stack' = Append(stack, h)
    /\ events' = Append(Tail(events), [type |-> "done", n |-> Len(stack) + 1])
    /\ open' = open \cup {h.fd}

-----------------------------------------------------------------------------
(* WaylandSeat: events.                                                    *)

RoundtripDone ==
    /\ Dispatch("done")
    /\ stack' = [stack EXCEPT ![Head(events).n].done = TRUE]
    /\ UNCHANGED <<compositorVars, seatVars, open, providerVars, closing, history>>

DataOffer ==
    /\ Dispatch("data_offer")
    /\ m_nextOffer' = Head(events).n
    /\ alive' = (alive \ {m_nextOffer}) \cup {Head(events).n}
    /\ UNCHANGED <<compositorVars, m_dndOffer, m_dndMime, m_pendingDnd, stack, open, providerVars, closing, history>>

\* DataEnter takes the offer over, then Drag asks for the list of files, if
\* there is one, or accepts the image.  If there is no pipe, Drag goes on as if
\* the list was empty.
TakeOffer ==
    /\ m_dndOffer' = m_nextOffer
    /\ m_nextOffer' = None
    /\ alive' = alive \ {m_dndOffer}
    /\ reentered' = (reentered \/ \E i \in DOMAIN stack : stack[i].in = "Drag")

AskForFiles ==
    /\ "text/uri-list" \in mimes[m_nextOffer]
    /\ open # Fds
    /\ Roundtrip([in |-> "Drag", offer |-> m_nextOffer, mime |-> "text/uri-list", fd |-> NewFd, done |-> FALSE])

ImageOrNone(o) == IF "image/png" \in mimes[o] THEN "image/png" ELSE "none"

DataEnter ==
    /\ CanDispatch
    /\ events # <<>> /\ Head(events).type = "enter"
    /\ TakeOffer
    /\ \/ m_dndMime' = "none" /\ AskForFiles
       \/ m_dndMime' = ImageOrNone(m_nextOffer) /\ events' = Tail(events) /\ UNCHANGED <<stack, open>>
    /\ UNCHANGED <<compositorVars, m_pendingDnd, providerVars, closing, dropped, finished>>

PendingOffers == {m_pendingDnd[d] : d \in Fds} \ {None}

DataLeaveCopiesPending ==
    /\ Dispatch("leave")
    /\ m_dndMime' = "none"
    /\ m_dndOffer' = None
    /\ alive' = alive \ {m_dndOffer}
    /\ Finish(PendingOffers)
    /\ UNCHANGED <<compositorVars, m_nextOffer, m_pendingDnd, stack, open, providerVars, closing, dropped, reentered>>

DataLeaveKeepsMime ==
    /\ Dispatch("leave")
    /\ m_dndOffer' = None
    /\ alive' = alive \ (PendingOffers \cup {m_dndOffer})
    /\ m_pendingDnd' = [d \in Fds |-> None]
    /\ Finish(PendingOffers)
    /\ UNCHANGED <<compositorVars, m_nextOffer, m_dndMime, stack, open, providerVars, closing, dropped, reentered>>

\* DataLeave, with DrainDnd.
DataLeave ==
    /\ Dispatch("leave")
    /\ m_dndMime' = "none"
    /\ m_dndOffer' = None
    /\ alive' = alive \ (PendingOffers \cup {m_dndOffer})
    /\ m_pendingDnd' = [d \in Fds |-> None]
    /\ Finish(PendingOffers)
    /\ UNCHANGED <<compositorVars, m_nextOffer, stack, open, providerVars, closing, dropped, reentered>>

\* A drop forgets the offer if no type was accepted, or if there is no pipe.
DataDropForgets ==
    /\ Dispatch("drop")
    /\ m_dndMime' = "none"
    /\ m_dndOffer' = None
    /\ alive' = alive \ {m_dndOffer}
    /\ UNCHANGED <<compositorVars, m_nextOffer, m_pendingDnd, stack, open, providerVars, closing, history>>

DataDrop ==
    /\ CanDispatch
    /\ events # <<>> /\ Head(events).type = "drop"
    /\ m_dndMime # "none" /\ open # Fds
    /\ m_dndMime' = "none"
    /\ m_dndOffer' = None
    /\ Roundtrip([in |-> "Drop", offer |-> m_dndOffer, mime |-> m_dndMime, fd |-> NewFd, done |-> FALSE])
    /\ dropped' = dropped \cup {m_dndOffer}
    /\ UNCHANGED <<compositorVars, m_nextOffer, m_pendingDnd, alive, providerVars, closing, finished, reentered>>

-----------------------------------------------------------------------------
(* Viewport::Drag and Viewport::Drop, after the roundtrip.                 *)

Top == Last(stack)

Returned(what) ==
    /\ closing["main"] = None /\ stack # <<>>
    /\ Top.in = what /\ Top.done

\* The list of files has been read and its descriptor closed.  Drag goes on
\* with the types of the offer it was called for, which may be gone by now:
\* then it finds anything.  AcceptDndMime is for the offer the seat has now.
Drag ==
    /\ Returned("Drag")
    /\ stack' = Front(stack)
    /\ open' = open \ {Top.fd}
    /\ m_dndMime' \in (IF m_dndOffer = None THEN {m_dndMime}
                       ELSE {"text/uri-list"}
                            \cup (IF Top.offer \in alive THEN {ImageOrNone(Top.offer)} ELSE {"image/png", "none"}))
    /\ UNCHANGED <<compositorVars, events, m_nextOffer, m_dndOffer, m_pendingDnd, alive, providerVars, closing, history>>

Handler(in, fd) == [in |-> in, offer |-> None, mime |-> "none", fd |-> fd, done |-> FALSE]

\* FinishDnd for each descriptor of s.
Finishing(s) ==
    LET fds == SetToSeq(s) IN [i \in DOMAIN fds |-> Handler("Finish", fds[i])]

\* The rest of DataDrop, and Drop.  A list of files is read at once, and its
\* descriptor is finished; if one of the files can be loaded the waiting job is
\* cancelled.  The descriptor of an image goes to the provider, after the
\* waiting jobs are cancelled.
DropFiles ==
    /\ Returned("Drop") /\ Top.mime = "text/uri-list"
    /\ m_pendingDnd' = [m_pendingDnd EXCEPT ![Top.fd] = Top.offer]
    /\ \E cancelled \in {{}, jobs} :
          /\ stack' = Front(stack) \o Finishing(cancelled) \o Finishing({Top.fd})
          /\ jobs' = jobs \ cancelled
    /\ UNCHANGED <<compositorVars, events, m_nextOffer, m_dndOffer, m_dndMime, alive, open, provider, closing, history>>

DropImageForgetsJobs ==
    /\ Returned("Drop") /\ Top.mime = "image/png"
    /\ m_pendingDnd' = [m_pendingDnd EXCEPT ![Top.fd] = Top.offer]
    /\ stack' = Append(Front(stack), Handler("Load", Top.fd))
    /\ jobs' = {}
    /\ UNCHANGED <<compositorVars, events, m_nextOffer, m_dndOffer, m_dndMime, alive, open, provider, closing, history>>

DropImage ==
    /\ Returned("Drop") /\ Top.mime = "image/png"
    /\ m_pendingDnd' = [m_pendingDnd EXCEPT ![Top.fd] = Top.offer]
    /\ stack' = Append(Front(stack), Handler("Load", Top.fd)) \o Finishing(jobs)
    /\ jobs' = {}
    /\ UNCHANGED <<compositorVars, events, m_nextOffer, m_dndOffer, m_dndMime, alive, open, provider, closing, history>>

LoadImage ==
    /\ stack # <<>> /\ Top.in = "Load" /\ closing["main"] = None
    /\ jobs' = jobs \cup {Top.fd}
    /\ stack' = Front(stack)
    /\ UNCHANGED <<compositorVars, events, seatVars, open, provider, closing, history>>

\* The user looks at another image: the job that waits is cancelled.
LoadAnother ==
    /\ CanDispatch
    /\ jobs # {}
    /\ stack' = stack \o Finishing(jobs)
    /\ jobs' = {}
    /\ UNCHANGED <<compositorVars, events, seatVars, open, provider, closing, history>>

-----------------------------------------------------------------------------
(* WaylandSeat::FinishDnd: the entry is taken out under m_dndMutex, the    *)
(* offer finished, and the descriptor closed last.                         *)

TakePending(t, d) ==
    /\ m_pendingDnd' = [m_pendingDnd EXCEPT ![d] = None]
    /\ Finish({m_pendingDnd[d]} \ {None})
    /\ alive' = alive \ {m_pendingDnd[d]}
    /\ closing' = [closing EXCEPT ![t] = d]

FinishOnMain ==
    /\ closing["main"] = None /\ stack # <<>>
    /\ Top.in = "Finish"
    /\ TakePending("main", Top.fd)
    /\ stack' = Front(stack)
    /\ UNCHANGED <<compositorVars, events, m_nextOffer, m_dndOffer, m_dndMime, open, providerVars, dropped, reentered>>

ProviderTakes ==
    /\ provider = None /\ closing["provider"] = None
    /\ \E d \in jobs : provider' = d /\ jobs' = jobs \ {d}
    /\ UNCHANGED <<compositorVars, events, seatVars, stack, open, closing, history>>

FinishOnProviderUnfinished ==
    /\ provider # None
    /\ m_pendingDnd' = [m_pendingDnd EXCEPT ![provider] = None]
    /\ alive' = alive \ {m_pendingDnd[provider]}
    /\ closing' = [closing EXCEPT !["provider"] = provider]
    /\ provider' = None
    /\ UNCHANGED <<compositorVars, events, m_nextOffer, m_dndOffer, m_dndMime, stack, open, jobs, history>>

FinishOnProvider ==
    /\ provider # None
    /\ TakePending("provider", provider)
    /\ provider' = None
    /\ UNCHANGED <<compositorVars, events, m_nextOffer, m_dndOffer, m_dndMime, stack, open, jobs, dropped, reentered>>

CloseFd(t) ==
    /\ closing[t] # None
    /\ open' = open \ {closing[t]}
    /\ closing' = [closing EXCEPT ![t] = None]
    /\ UNCHANGED <<compositorVars, events, seatVars, stack, providerVars, history>>

-----------------------------------------------------------------------------

Compositor == DragEnters \/ DragLeaves \/ DragDrops

MainStep ==
    \/ RoundtripDone \/ DataOffer \/ DataEnter \/ DataLeave \/ DataDropForgets \/ DataDrop
    \/ Drag \/ DropFiles \/ DropImage \/ LoadImage \/ FinishOnMain \/ CloseFd("main")

ProviderStep == ProviderTakes \/ FinishOnProvider \/ CloseFd("provider")

Next == Compositor \/ LoadAnother \/ MainStep \/ ProviderStep

Spec == Init /\ [][Next]_vars

\* Both threads go on; drags and the user's other requests need not happen.
FairSpec == Spec /\ WF_vars(MainStep) /\ WF_vars(ProviderStep)

-----------------------------------------------------------------------------
(* Properties.                                                             *)

\* Every offer that waits for the end of its drop has an open descriptor of its
\* own, which somebody will pass to FinishDnd.  In particular the assertion
\* "DnD already pending!" holds when a number is used again.  And a descriptor is
\* never closed while a handler or a job still reads from it.
PendingHasReader ==
    /\ \A d \in Fds : m_pendingDnd[d] # None =>
          /\ d \in open
          /\ \/ d \in jobs \/ d = provider
             \/ \E i \in DOMAIN stack : stack[i].in \in {"Load", "Finish"} /\ stack[i].fd = d
    /\ \A d \in jobs \cup ({provider} \ {None}) \cup {stack[i].fd : i \in DOMAIN stack} : d \in open

\* The compositor disconnects a client that finishes an offer twice, or one
\* that was not dropped.  The reader's FinishDnd and DrainDnd on the main
\* thread compete for the same offer.
FinishedOnce ==
    \A o \in Offers : finished[o] <= IF o \in dropped THEN 1 ELSE 0

\* The seat only ever accepts a type that its offer has, except when another
\* drag entered the window while Drag was waiting for the list of files.
AcceptedWasOffered ==
    m_dndMime # "none" /\ ~reentered => m_dndOffer # None /\ m_dndMime \in mimes[m_dndOffer]

\* Everything that is dropped is finished, so that the program the drag came
\* from may forget its data, and no descriptor stays open for ever.
DropsAreFinished ==
    /\ \A o \in Offers : o \in dropped ~> finished[o] = 1
    /\ \A d \in Fds : d \in open ~> d \notin open
=============================================================================

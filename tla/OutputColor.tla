------------------------------ MODULE OutputColor ------------------------------
(***************************************************************************)
(* How an output learns its luminance (wayland/WaylandOutput.cpp): a       *)
(* description is asked for whenever the compositor says it has changed,   *)
(* information on it once it is ready, and both are dropped when the       *)
(* information is complete.  Requests and events are under way at the      *)
(* same time, each in order.  Descriptions and the information on them     *)
(* have the same numbers.                                                  *)
(***************************************************************************)
EXTENDS Naturals, Sequences

CONSTANT MaxChanges     \* bound on changes of the compositor's

ASSUME MaxChangesAssumption == MaxChanges \in Nat

None == 0

VARIABLES
    luminance,              \* the compositor's: how often it has changed
    described,              \* the compositor's: luminance of each description, None if it failed
    requests, events,       \* messages under way
    asked,                  \* descriptions asked for so far
    m_imageDescription,
    m_imageDescriptionInfo,
    m_maxLuminance,
    outputPanicked,         \* an assertion has failed, or None was destroyed
    overtaken               \* a change came before the last information (history)

outputVars == <<luminance, described, requests, events, asked, m_imageDescription,
                m_imageDescriptionInfo, m_maxLuminance, outputPanicked, overtaken>>

Message(type, id) == [type |-> type, id |-> id, luminance |-> None]

(* The constructor asks for the first description.                         *)
OutputInit ==
    /\ luminance = 1
    /\ described = <<>>
    /\ requests = <<Message("describe", 1)>>
    /\ events = <<>>
    /\ asked = 1
    /\ m_imageDescription = 1
    /\ m_imageDescriptionInfo = None
    /\ m_maxLuminance = None
    /\ outputPanicked = FALSE
    /\ overtaken = FALSE

clientVars == <<asked, m_imageDescription, m_imageDescriptionInfo, m_maxLuminance, outputPanicked, overtaken>>
serverVars == <<luminance, described>>
-----------------------------------------------------------------------------
(* The compositor.                                                         *)

Change ==
    /\ luminance <= MaxChanges
    /\ luminance' = luminance + 1
    /\ events' = Append(events, Message("changed", None))
    /\ UNCHANGED <<described, requests, clientVars>>

(* A description is of the luminance when it was asked for.                *)
Describe ==
    /\ requests # <<>> /\ Head(requests).type = "describe"
    /\ requests' = Tail(requests)
    /\ \E type \in {"ready", "failed"} :
         /\ described' = Append(described, IF type = "ready" THEN luminance ELSE None)
         /\ events' = Append(events, Message(type, Head(requests).id))
    /\ UNCHANGED <<luminance, clientVars>>

Inform ==
    /\ requests # <<>> /\ Head(requests).type = "inform"
    /\ requests' = Tail(requests)
    /\ LET id == Head(requests).id
       IN  events' = events \o <<[type |-> "luminance", id |-> id, luminance |-> described[id]],
                                 Message("done", id)>>
    /\ UNCHANGED <<serverVars, clientVars>>
-----------------------------------------------------------------------------
(* Handlers of the output.  libwayland drops the events of a description   *)
(* that was destroyed.                                                     *)

Handles(type) == events # <<>> /\ Head(events).type = type /\ events' = Tail(events)
Subject == Head(events).id

Dropped ==
    /\ Handles("ready") \/ Handles("failed")
    /\ Subject # m_imageDescription
    /\ UNCHANGED <<serverVars, requests, clientVars>>

ImageDescriptionChangedLater ==
    /\ Handles("changed")
    /\ overtaken' = (m_imageDescriptionInfo # None)
    /\ IF m_imageDescriptionInfo = None
         THEN /\ asked' = asked + 1
              /\ m_imageDescription' = asked'
              /\ requests' = Append(requests, Message("describe", asked'))
         ELSE m_imageDescription' = None /\ UNCHANGED <<asked, requests>>
    /\ UNCHANGED <<serverVars, m_imageDescriptionInfo, m_maxLuminance, outputPanicked>>

(* GetImageDescription.                                                    *)
ImageDescriptionChanged ==
    /\ Handles("changed")
    /\ asked' = asked + 1
    /\ m_imageDescription' = asked'
    /\ requests' = Append(requests, Message("describe", asked'))
    /\ overtaken' = (m_imageDescriptionInfo # None)
    /\ UNCHANGED <<serverVars, m_imageDescriptionInfo, m_maxLuminance, outputPanicked>>

ImageDescriptionFailed ==
    /\ Handles("failed")
    /\ Subject = m_imageDescription
    /\ m_imageDescription' = None
    /\ UNCHANGED <<serverVars, requests, asked, m_imageDescriptionInfo, m_maxLuminance, outputPanicked, overtaken>>

ImageDescriptionReady ==
    /\ Handles("ready")
    /\ Subject = m_imageDescription
    /\ m_imageDescriptionInfo' = Subject
    /\ requests' = Append(requests, Message("inform", Subject))
    /\ UNCHANGED <<serverVars, asked, m_imageDescription, m_maxLuminance, outputPanicked, overtaken>>

ColorTargetLuminance ==
    /\ Handles("luminance")
    /\ m_maxLuminance' = Head(events).luminance
    /\ UNCHANGED <<serverVars, requests, asked, m_imageDescription, m_imageDescriptionInfo, outputPanicked, overtaken>>

(* The description is destroyed whichever it is by now.                    *)
ColorDone ==
    /\ Handles("done")
    /\ outputPanicked' = (m_imageDescriptionInfo # Subject \/ m_imageDescription = None)
    /\ m_imageDescriptionInfo' = None
    /\ m_imageDescription' = None
    /\ UNCHANGED <<serverVars, requests, asked, m_maxLuminance, overtaken>>

OutputNext ==
    \/ Change \/ Describe \/ Inform
    \/ Dropped
    \/ ImageDescriptionChanged \/ ImageDescriptionFailed \/ ImageDescriptionReady
    \/ ColorTargetLuminance \/ ColorDone

OutputSpec == OutputInit /\ [][OutputNext]_outputVars
-----------------------------------------------------------------------------
(* Properties.                                                             *)

(* However often the description changes while another is asked for,       *)
(* becomes ready or is read, the information that is done is the one the   *)
(* output waits for, as ColorDone asserts, and there is a description to   *)
(* destroy.                                                                *)
DoneIsAwaited == ~outputPanicked

(* When nothing is under way, the output has the compositor's luminance,   *)
(* unless the last description failed, or was asked for while information  *)
(* on the one before was under way: ColorDone then destroys it unread.     *)
LuminanceSettles ==
    requests = <<>> /\ events = <<>> /\ ~overtaken =>
        m_maxLuminance = luminance \/ described[asked] = None

(* The output follows the compositor's descriptions, one at a time.        *)
OutputFollows == DoneIsAwaited /\ LuminanceSettles
=============================================================================

--------------------------- MODULE WaylandProofs ----------------------------
(***************************************************************************)
(* The clipboard's two sides are current, for any offers of other programs *)
(* and pastes nested to any depth; and an output follows the luminance of  *)
(* the compositor, however often it changes.  And the window draws: there  *)
(* is one frame callback, and an idle window has nothing left to show.     *)
(***************************************************************************)
EXTENDS Clipboard, OutputColor, RenderLoop, TLAPS

-----------------------------------------------------------------------------
(* The clipboard.                                                          *)

Requests == [mime : Mimes, offer : (SUBSET Mimes) \cup {NoOffer}, told : SUBSET Mimes]

ClipboardInv ==
    /\ ClipboardTypeOK
    /\ stack \in Seq(Requests)
    /\ ClipboardIsCurrent

\* A request is in the offer it is chosen from.
LEMMA RequestsAreOffered ==
    ASSUME NEW offer \in SUBSET Mimes
    PROVE  /\ FirstRequest(offer) # "none" => FirstRequest(offer) \in offer
           /\ ImageRequest(offer) # "none" => ImageRequest(offer) \in offer
  BY DEF FirstRequest, ImageRequest, Mimes

\* A stack of requests without its last is one.
LEMMA FrontOfRequests ==
    ASSUME NEW s \in Seq(Requests), s # <<>>
    PROVE  /\ Front(s) \in Seq(Requests)
           /\ Len(Front(s)) < Len(s)
           /\ \A i \in DOMAIN Front(s) : i \in DOMAIN s /\ Front(s)[i] = s[i]
  BY DEF Front

\* GetClipboard, or the end of the paste, keeps the stack one of requests that
\* are in their offers.
LEMMA AskKeepsRequests ==
    ASSUME ClipboardTypeOK, AsksCurrentOffer,
           NEW mime \in Mimes \cup {"none"}, mime # "none" => mime \in m_clipboardOffer,
           NEW below \in Seq(Requests), Len(below) < MaxNesting,
           \A i \in DOMAIN below : below[i].mime \in below[i].offer,
           Ask(mime, below)
    PROVE  /\ stack' \in Seq(Requests) /\ Len(stack') <= MaxNesting
           /\ \A i \in DOMAIN stack' : stack'[i].mime \in stack'[i].offer
<1>1. CASE mime = "none"
  <2>1. stack' = below
    BY <1>1 DEF Ask
  <2>2. Len(below) \in Nat /\ MaxNesting \in Nat
    BY MaxNestingAssumption
  <2>3. QED
    BY <2>1, <2>2
<1>2. CASE mime # "none"
  <2>1. stack' = Append(below, Frame(mime))
    BY <1>2 DEF Ask
  <2>2. Frame(mime) \in Requests /\ Frame(mime).mime \in Frame(mime).offer
    BY <1>2 DEF Frame, Requests, ClipboardTypeOK, AsksCurrentOffer
  <2>3. stack' \in Seq(Requests) /\ Len(stack') = Len(below) + 1
    BY <2>1, <2>2
  <2>4. Len(stack') <= MaxNesting
    BY <2>3, MaxNestingAssumption
  <2>5. ASSUME NEW i \in DOMAIN stack'
        PROVE  stack'[i].mime \in stack'[i].offer
    <3>1. i \in 1 .. Len(below) + 1 /\ DOMAIN below = 1 .. Len(below)
      BY <2>3
    <3>2. CASE i = Len(below) + 1
      BY <3>2, <2>1, <2>2
    <3>3. CASE i \in DOMAIN below
      <4>1. stack'[i] = below[i]
        BY <3>1, <3>3, <2>1, <2>2
      <4>2. QED
        BY <4>1, <3>3
    <3>4. QED
      BY <3>1, <3>2, <3>3
  <2>6. QED
    BY <2>3, <2>4, <2>5
<1>3. QED
  BY <1>1, <1>2

LEMMA ClipboardInitInv == ClipboardInit => ClipboardInv
<1> SUFFICES ASSUME ClipboardInit PROVE ClipboardInv
  OBVIOUS
<1>1. stack = <<>> /\ stack \in Seq(Requests) /\ Len(stack) = 0
  BY DEF ClipboardInit
<1>2. ClipboardTypeOK
  <2>1. Len(stack) <= MaxNesting
    BY <1>1, MaxNestingAssumption
  <2>2. m_activeWindow \in BOOLEAN /\ m_clipboardOrigin \in BOOLEAN /\ keyPanicked \in BOOLEAN
    BY DEF ClipboardInit
  <2>3. {m_selectionOffer, m_dataSource} \subseteq (SUBSET Mimes) \cup {NoOffer}
    BY DEF ClipboardInit
  <2>4. QED
    BY <2>1, <2>2, <2>3 DEF ClipboardInit, ClipboardTypeOK
<1>3. AsksCurrentOffer
  BY <1>1 DEF ClipboardInit, AsksCurrentOffer
<1>4. SourceIsBacked
  BY DEF ClipboardInit, SourceIsBacked
<1>5. QED
  BY <1>1, <1>2, <1>3, <1>4 DEF ClipboardInv, ClipboardIsCurrent

LEMMA ClipboardNextInv == ClipboardInv /\ [ClipboardNext]_clipboardVars => ClipboardInv'
<1> SUFFICES ASSUME ClipboardInv, [ClipboardNext]_clipboardVars
             PROVE  ClipboardInv'
  OBVIOUS
<1> USE DEF ClipboardInv, ClipboardIsCurrent
<1>1. CASE KeyboardEnter
  BY <1>1 DEF KeyboardEnter, offerVars, sourceVars, ClipboardTypeOK, AsksCurrentOffer,
              SourceIsBacked, CanSend
<1>2. CASE KeyboardLeave
  <2>1. ClipboardTypeOK' /\ (stack \in Seq(Requests))' /\ AsksCurrentOffer'
    BY <1>2 DEF KeyboardLeave, offerVars, sourceVars, ClipboardTypeOK, AsksCurrentOffer, NoOffer
  <2>2. SourceIsBacked'
    BY <1>2 DEF KeyboardLeave, sourceVars, SourceIsBacked, CanSend
  <2>3. QED
    BY <2>1, <2>2
<1>3. CASE DataSelection
  <2>1. ClipboardTypeOK' /\ (stack \in Seq(Requests))' /\ AsksCurrentOffer'
    BY <1>3, OffersAssumption
    DEF DataSelection, sourceVars, ClipboardTypeOK, AsksCurrentOffer, NoOffer, Mimes
  <2>2. SourceIsBacked'
    BY <1>3 DEF DataSelection, sourceVars, SourceIsBacked, CanSend
  <2>3. QED
    BY <2>1, <2>2
<1>4. CASE SourceCancelled
  BY <1>4 DEF SourceCancelled, offerVars, ClipboardTypeOK, AsksCurrentOffer, SourceIsBacked
<1>5. CASE CopyToClipboard
  <2> PICK format \in {"sdr", "hdr"}, named \in BOOLEAN :
        /\ m_clipboard' = format
        /\ m_clipboardOrigin' = (named \/ m_clipboardOrigin)
        /\ m_dataSource' = CopiedMimes(format, named)
    BY <1>5 DEF CopyToClipboard
  <2>1. UNCHANGED <<m_activeWindow, m_selectionOffer, m_clipboardOffer, stack, keyPanicked>>
    BY <1>5 DEF CopyToClipboard, offerVars
  <2>2. CopiedMimes(format, named) \in SUBSET Mimes /\ CopiedMimes(format, named) # NoOffer
    BY DEF CopiedMimes, Mimes, NoOffer
  <2>3. ClipboardTypeOK' /\ AsksCurrentOffer'
    BY <2>1, <2>2 DEF ClipboardTypeOK, AsksCurrentOffer
  <2>4. SourceIsBacked'
    BY <2>2 DEF SourceIsBacked, CanSend, CopiedMimes
  <2>5. QED
    BY <2>1, <2>3, <2>4
<1>6. CASE PasteClipboard
  <2>1. PICK mime \in Mimes \cup {"none"} :
          (mime # "none" => mime \in m_clipboardOffer) /\ Ask(mime, stack)
    BY <1>6, RequestsAreOffered DEF PasteClipboard, ClipboardTypeOK
  <2>2. /\ stack' \in Seq(Requests) /\ Len(stack') <= MaxNesting
        /\ \A i \in DOMAIN stack' : stack'[i].mime \in stack'[i].offer
    BY <1>6, <2>1, AskKeepsRequests DEF PasteClipboard, AsksCurrentOffer
  <2>3. keyPanicked' \in BOOLEAN
    BY <2>1 DEF Ask, ClipboardTypeOK
  <2>4. UNCHANGED <<m_activeWindow, offerVars, sourceVars>>
    BY <1>6 DEF PasteClipboard
  <2>5. ClipboardTypeOK' /\ AsksCurrentOffer'
    BY <2>2, <2>3, <2>4 DEF ClipboardTypeOK, AsksCurrentOffer, offerVars, sourceVars
  <2>6. SourceIsBacked'
    BY <2>4 DEF SourceIsBacked, CanSend, sourceVars
  <2>7. QED
    BY <2>2, <2>5, <2>6
<1>7. CASE Roundtrip
  <2>1. PICK mime \in Mimes \cup {"none"} :
          (mime # "none" => mime \in m_clipboardOffer) /\ Ask(mime, Front(stack))
    BY <1>7, RequestsAreOffered DEF Roundtrip, ClipboardTypeOK
  <2>2. Front(stack) \in Seq(Requests) /\ Len(Front(stack)) < MaxNesting
    BY <1>7, FrontOfRequests, MaxNestingAssumption DEF Roundtrip, ClipboardTypeOK
  <2>3. \A i \in DOMAIN Front(stack) : Front(stack)[i].mime \in Front(stack)[i].offer
    BY <1>7, FrontOfRequests DEF Roundtrip, AsksCurrentOffer
  <2>4. /\ stack' \in Seq(Requests) /\ Len(stack') <= MaxNesting
        /\ \A i \in DOMAIN stack' : stack'[i].mime \in stack'[i].offer
    BY <2>1, <2>2, <2>3, AskKeepsRequests
  <2>5. keyPanicked' \in BOOLEAN
    BY <2>1 DEF Ask, ClipboardTypeOK
  <2>6. UNCHANGED <<m_activeWindow, offerVars, sourceVars>>
    BY <1>7 DEF Roundtrip
  <2>7. ClipboardTypeOK' /\ AsksCurrentOffer'
    BY <2>4, <2>5, <2>6 DEF ClipboardTypeOK, AsksCurrentOffer, offerVars, sourceVars
  <2>8. SourceIsBacked'
    BY <2>6 DEF SourceIsBacked, CanSend, sourceVars
  <2>9. QED
    BY <2>4, <2>7, <2>8
<1>8. CASE UNCHANGED clipboardVars
  BY <1>8 DEF clipboardVars, ClipboardTypeOK, AsksCurrentOffer, SourceIsBacked, CanSend
<1>9. QED
  BY <1>1, <1>2, <1>3, <1>4, <1>5, <1>6, <1>7, <1>8 DEF ClipboardNext

\* Whatever the compositor, other programs and the user do while pastes wait
\* for their round trips, what the viewport was told of an offer does not
\* outlive it, and what the data source promises can be sent.
THEOREM ClipboardCorrect == ClipboardSpec => []ClipboardIsCurrent
<1>1. ClipboardInv => ClipboardIsCurrent
  BY DEF ClipboardInv
<1>2. QED
  BY <1>1, ClipboardInitInv, ClipboardNextInv, PTL DEF ClipboardSpec

-----------------------------------------------------------------------------
(* The luminance of an output.                                             *)

\* What comes from the compositor of a description, and of the information on one.
Answer(m) == m.type \in {"ready", "failed"}
Information(m) == m.type \in {"luminance", "done"}

MessageTypes == {"describe", "inform", "changed", "ready", "failed", "luminance", "done"}
Messages == [type : MessageTypes, id : Nat, luminance : Nat]

MessagesInv ==
    /\ events \in Seq(Messages) /\ requests \in Seq(Messages) /\ described \in Seq(Nat)
    /\ luminance \in Nat \ {0} /\ asked \in Nat \ {0}
    /\ m_imageDescriptionInfo \in Nat /\ m_maxLuminance \in Nat
    /\ m_imageDescription \in {None, asked} /\ overtaken \in BOOLEAN
    /\ \A i \in DOMAIN events : events[i].type \notin {"describe", "inform"}

\* The answers in ev come in the order of the descriptions d they are about.
Answers(ev, d) ==
    \A i \in DOMAIN ev : Answer(ev[i]) =>
        /\ ev[i].id \in 1 .. Len(d)
        /\ ev[i].type = "failed" <=> d[ev[i].id] = None
        /\ \A j \in DOMAIN ev : Answer(ev[j]) /\ i < j => ev[i].id < ev[j].id

\* The descriptions that were asked for and not made are asked for in order by rq.
Asks(rq, made, last) ==
    /\ made <= last
    /\ \A i \in DOMAIN rq : rq[i].type = "describe" =>
         /\ rq[i].id \in made + 1 .. last
         /\ \A j \in DOMAIN rq : rq[j].type = "describe" /\ i < j => rq[i].id < rq[j].id
    /\ \A n \in made + 1 .. last : \E i \in DOMAIN rq : rq[i].type = "describe" /\ rq[i].id = n

\* Information has been asked for, and all that was sent before has been handled,
\* but for news of changes; or it is coming.
NoneRequested(rq) == \A i \in DOMAIN rq : rq[i].type = "describe"

Requested(rq, ev, info) ==
    /\ rq # <<>> /\ rq[1].type = "inform" /\ rq[1].id = info
    /\ \A i \in DOMAIN rq : i # 1 => rq[i].type = "describe"
    /\ \A i \in DOMAIN ev : ev[i].type = "changed"

Coming(rq, ev, info, d) ==
    /\ NoneRequested(rq)
    /\ \E k \in DOMAIN ev :
        /\ ev[k].type = "done" /\ ev[k].id = info
        /\ \A i \in DOMAIN ev :
             /\ Answer(ev[i]) => k < i
             /\ ev[i].type = "done" => i = k
             /\ ev[i].type = "luminance" => i < k /\ ev[i].luminance = d[info]

\* Information is asked for on one description at a time.
InformationInv ==
    /\ m_imageDescriptionInfo = None =>
         NoneRequested(requests) /\ \A i \in DOMAIN events : ~Information(events[i])
    /\ m_imageDescriptionInfo # None =>
         /\ m_imageDescription # None
         /\ m_imageDescriptionInfo \in 1 .. Len(described)
         /\ \/ Requested(requests, events, m_imageDescriptionInfo)
            \/ Coming(requests, events, m_imageDescriptionInfo, described)

\* The last description is of the present luminance, unless the output has still
\* to hear of a change.
IsPresent ==
    Len(described) = asked /\ (\A i \in DOMAIN events : events[i].type # "changed") =>
        described[asked] \in {None, luminance}

\* If no information was overtaken by a change, the last description is made, or
\* read, or its luminance is that of the output.
Making ==
    /\ m_imageDescriptionInfo = None /\ m_imageDescription = asked
    /\ Len(described) = asked => \E i \in DOMAIN events : Answer(events[i]) /\ events[i].id = asked
Reading ==
    /\ m_imageDescriptionInfo = asked
    /\ \/ Requested(requests, events, m_imageDescriptionInfo)
       \/ \E i \in DOMAIN events : events[i].type = "luminance"
       \/ m_maxLuminance = described[asked]
Settled ==
    /\ m_imageDescriptionInfo = None /\ m_imageDescription = None
    /\ Len(described) = asked /\ described[asked] \in {None, m_maxLuminance}

LuminanceInv == IsPresent /\ (~overtaken => Making \/ Reading \/ Settled)

DescriptionsInv == Answers(events, described) /\ Asks(requests, Len(described), asked)

OutputInv == MessagesInv /\ DescriptionsInv /\ InformationInv /\ LuminanceInv /\ DoneIsAwaited

\* What is first in a sequence, and what is left without it.
LEMMA TailOf ==
    ASSUME NEW S, NEW q \in Seq(S), q # <<>>
    PROVE  /\ Tail(q) \in Seq(S) /\ Head(q) = q[1] /\ q[1] \in S /\ 1 \in DOMAIN q
           /\ \A i \in DOMAIN q : i \in Nat /\ i >= 1
           /\ \A i \in DOMAIN Tail(q) : i \in Nat /\ i + 1 \in DOMAIN q /\ Tail(q)[i] = q[i + 1]
           /\ \A i \in DOMAIN q : i # 1 => i - 1 \in DOMAIN Tail(q) /\ Tail(q)[i - 1] = q[i]
<1>1. /\ Tail(q) \in Seq(S) /\ Head(q) = q[1] /\ q[1] \in S
      /\ Len(q) \in Nat \ {0} /\ DOMAIN q = 1 .. Len(q)
      /\ DOMAIN Tail(q) = 1 .. Len(q) - 1
      /\ \A i \in 1 .. Len(q) - 1 : Tail(q)[i] = q[i + 1]
  OBVIOUS
<1>2. \A n \in Nat \ {0} : /\ 1 \in 1 .. n
                           /\ \A i \in 1 .. n - 1 : i + 1 \in 1 .. n
                           /\ \A i \in 1 .. n : i # 1 => i - 1 \in 1 .. n - 1 /\ (i - 1) + 1 = i
  OBVIOUS
<1> QED
  BY <1>1, <1>2

\* A sequence with one more element.
LEMMA AppendOf ==
    ASSUME NEW S, NEW q \in Seq(S), NEW e \in S
    PROVE  /\ Append(q, e) \in Seq(S) /\ Append(q, e) # <<>>
           /\ Len(q) \in Nat /\ Len(Append(q, e)) = Len(q) + 1
           /\ \A i \in DOMAIN Append(q, e) :
                 i \in Nat /\ ((i \in DOMAIN q /\ Append(q, e)[i] = q[i]) \/ (i = Len(q) + 1 /\ Append(q, e)[i] = e))
           /\ \A i \in DOMAIN q : i \in Nat /\ i \in DOMAIN Append(q, e) /\ Append(q, e)[i] = q[i] /\ 1 <= i /\ i < Len(q) + 1
           /\ Len(q) + 1 \in DOMAIN Append(q, e) /\ Append(q, e)[Len(q) + 1] = e
<1>1. /\ Append(q, e) \in Seq(S) /\ Len(q) \in Nat /\ DOMAIN q = 1 .. Len(q)
      /\ Len(Append(q, e)) = Len(q) + 1 /\ DOMAIN Append(q, e) = 1 .. Len(q) + 1
      /\ \A i \in 1 .. Len(q) : Append(q, e)[i] = q[i]
      /\ Append(q, e)[Len(q) + 1] = e
  OBVIOUS
<1>2. Append(q, e) # <<>>
  <2> DEFINE r == Append(q, e)
  <2>1. Len(r) # 0
    BY <1>1
  <2> HIDE DEF r
  <2>2. r # <<>>
    BY <2>1
  <2> QED
    BY <2>2 DEF r
<1> QED
  BY <1>1, <1>2

-----------------------------------------------------------------------------
(* Descriptions.                                                           *)

\* Answers stay in order when the first message is handled.
LEMMA AnswersTail ==
    ASSUME NEW ev \in Seq(Messages), ev # <<>>, NEW d, Answers(ev, d)
    PROVE  Answers(Tail(ev), d)
<1> DEFINE r == Tail(ev)
<1>1. \A i \in DOMAIN r : i \in Nat /\ i + 1 \in DOMAIN ev /\ r[i] = ev[i + 1]
  BY TailOf
<1> HIDE DEF r
<1>2. \A i, j \in DOMAIN r : i < j => i + 1 < j + 1
  BY <1>1
<1> QED
  BY <1>1, <1>2 DEF Answers, Answer, r

\* A message that is no answer does not change their order.
LEMMA AnswersOther ==
    ASSUME NEW ev \in Seq(Messages), NEW m \in Messages, ~Answer(m), NEW d, Answers(ev, d)
    PROVE  Answers(Append(ev, m), d)
<1> DEFINE r == Append(ev, m)
<1>1. \A i \in DOMAIN r : (i \in DOMAIN ev /\ r[i] = ev[i]) \/ r[i] = m
  BY AppendOf
<1> HIDE DEF r
<1> QED
  BY <1>1 DEF Answers, Answer, r

\* The answer to the next description comes after the others.
LEMMA AnswersMore ==
    ASSUME NEW ev \in Seq(Messages), NEW m \in Messages, Answer(m), NEW d \in Seq(Nat), NEW x \in Nat, Answers(ev, d),
           m.id = Len(d) + 1, m.type = "failed" <=> x = None
    PROVE  Answers(Append(ev, m), Append(d, x))
<1> DEFINE r == Append(ev, m)
           e == Append(d, x)
<1>1. /\ \A i \in DOMAIN r : i \in Nat /\ ((i \in DOMAIN ev /\ r[i] = ev[i]) \/ (i = Len(ev) + 1 /\ r[i] = m))
      /\ \A i \in DOMAIN ev : i \in Nat /\ i < Len(ev) + 1
      /\ Len(ev) \in Nat
  BY AppendOf
<1>2. /\ Len(d) \in Nat /\ Len(e) = Len(d) + 1 /\ e[Len(d) + 1] = x
      /\ \A i \in 1 .. Len(d) : e[i] = d[i]
  OBVIOUS
<1> HIDE DEF r, e
<1>3. ASSUME NEW i \in DOMAIN ev, Answer(ev[i])
      PROVE  /\ ev[i].id \in 1 .. Len(e) /\ (ev[i].type = "failed" <=> e[ev[i].id] = None) /\ ev[i].id < m.id
             /\ \A j \in DOMAIN ev : Answer(ev[j]) /\ i < j => ev[i].id < ev[j].id
  <2>1. ev[i].id \in 1 .. Len(d) /\ (ev[i].type = "failed" <=> d[ev[i].id] = None)
    BY <1>3 DEF Answers
  <2>2. \A n \in 1 .. Len(d) : n \in 1 .. Len(e) /\ n < Len(d) + 1
    BY <1>2
  <2> QED
    BY <1>2, <1>3, <2>1, <2>2 DEF Answers
<1>4. m.id \in 1 .. Len(e) /\ (m.type = "failed" <=> e[m.id] = None)
  BY <1>2
<1>5. ASSUME NEW i \in DOMAIN r, Answer(r[i]), NEW j \in DOMAIN r, Answer(r[j]), i < j
      PROVE  r[i].id < r[j].id
  <2>1. i \in DOMAIN ev /\ r[i] = ev[i]
    BY <1>1, <1>5
  <2> QED
    BY <1>1, <1>3, <1>5, <2>1
<1>6. \A i \in DOMAIN r : Answer(r[i]) => r[i].id \in 1 .. Len(e) /\ (r[i].type = "failed" <=> e[r[i].id] = None)
  BY <1>1, <1>3, <1>4
<1> QED
  BY <1>5, <1>6 DEF Answers, r, e

\* When the first request is served, the requests for descriptions after it are in order.
LEMMA AsksTail ==
    ASSUME NEW rq \in Seq(Messages), rq # <<>>, NEW made \in Nat, NEW last \in Nat, Asks(rq, made, last)
    PROVE  /\ rq[1].type # "describe" => Asks(Tail(rq), made, last)
           /\ rq[1].type = "describe" => rq[1].id = made + 1 /\ Asks(Tail(rq), made + 1, last)
<1> DEFINE r == Tail(rq)
<1>1. /\ 1 \in DOMAIN rq /\ rq[1] \in Messages
      /\ \A i \in DOMAIN rq : i \in Nat /\ i >= 1
      /\ \A i \in DOMAIN r : i \in Nat /\ i + 1 \in DOMAIN rq /\ r[i] = rq[i + 1]
      /\ \A i \in DOMAIN rq : i # 1 => i - 1 \in DOMAIN r /\ r[i - 1] = rq[i]
  BY TailOf
<1> HIDE DEF r
<1>2. \A i, j \in DOMAIN r : i < j => i + 1 < j + 1
  BY <1>1
<1>3. \A i \in DOMAIN r : r[i].type = "describe" =>
        /\ r[i].id \in made + 1 .. last
        /\ \A j \in DOMAIN r : r[j].type = "describe" /\ i < j => r[i].id < r[j].id
  BY <1>1, <1>2 DEF Asks
<1>4. ASSUME NEW n \in made + 1 .. last
      PROVE  \/ rq[1].type = "describe" /\ rq[1].id = n
             \/ \E i \in DOMAIN r : r[i].type = "describe" /\ r[i].id = n
  <2>1. PICK i \in DOMAIN rq : rq[i].type = "describe" /\ rq[i].id = n
    BY DEF Asks
  <2>2. i # 1 => i - 1 \in DOMAIN r /\ r[i - 1] = rq[i]
    BY <1>1
  <2> QED
    BY <2>1, <2>2
<1>5. made <= last
  BY DEF Asks
<1>6. ASSUME rq[1].type = "describe"
      PROVE  rq[1].id = made + 1 /\ Asks(r, made + 1, last)
  <2>1. rq[1].id \in made + 1 .. last
    BY <1>1, <1>6 DEF Asks
  <2>2. \A i \in DOMAIN r : r[i].type = "describe" => rq[1].id < r[i].id
    <3>1. \A i \in DOMAIN r : 1 < i + 1
      BY <1>1, TailOf DEF r
    <3> QED
      BY <1>1, <1>6, <3>1 DEF Asks
  <2>3. rq[1].id = made + 1
    <3>1. SUFFICES ASSUME rq[1].id # made + 1
                   PROVE  FALSE
      OBVIOUS
    <3>2. made + 1 \in made + 1 .. last
      BY <2>1
    <3>3. PICK i \in DOMAIN r : r[i].type = "describe" /\ r[i].id = made + 1
      BY <1>4, <3>1, <3>2
    <3> QED
      BY <2>1, <2>2, <3>3
  <2>4. \A i \in DOMAIN r : r[i].type = "describe" => r[i].id \in (made + 1) + 1 .. last
    BY <1>3, <2>2, <2>3
  <2>5. \A n \in (made + 1) + 1 .. last : n \in made + 1 .. last /\ n # made + 1
    OBVIOUS
  <2>6. \A n \in (made + 1) + 1 .. last : \E i \in DOMAIN r : r[i].type = "describe" /\ r[i].id = n
    BY <1>4, <2>3, <2>5
  <2>7. made + 1 <= last
    BY <2>1
  <2> QED
    BY <1>3, <2>3, <2>4, <2>6, <2>7 DEF Asks
<1>7. ASSUME rq[1].type # "describe"
      PROVE  Asks(r, made, last)
  BY <1>3, <1>4, <1>5, <1>7 DEF Asks
<1> QED
  BY <1>6, <1>7 DEF r

\* A request for one more description comes after the others.
LEMMA AsksMore ==
    ASSUME NEW rq \in Seq(Messages), NEW m \in Messages, NEW made \in Nat, NEW last \in Nat, Asks(rq, made, last)
    PROVE  /\ m.type # "describe" => Asks(Append(rq, m), made, last)
           /\ m.type = "describe" /\ m.id = last + 1 => Asks(Append(rq, m), made, last + 1)
<1> DEFINE r == Append(rq, m)
<1>1. /\ \A i \in DOMAIN r : i \in Nat /\ ((i \in DOMAIN rq /\ r[i] = rq[i]) \/ (i = Len(rq) + 1 /\ r[i] = m))
      /\ \A i \in DOMAIN rq : i \in Nat /\ i \in DOMAIN r /\ r[i] = rq[i] /\ i < Len(rq) + 1
      /\ Len(rq) + 1 \in DOMAIN r /\ r[Len(rq) + 1] = m /\ Len(rq) \in Nat
  BY AppendOf
<1> HIDE DEF r
<1>2. made <= last
  BY DEF Asks
<1>3. ASSUME m.type # "describe"
      PROVE  Asks(r, made, last)
  BY <1>1, <1>2, <1>3 DEF Asks
<1>4. ASSUME m.type = "describe", m.id = last + 1
      PROVE  Asks(r, made, last + 1)
  <2>1. \A i \in DOMAIN rq : rq[i].type = "describe" => rq[i].id \in made + 1 .. last /\ rq[i].id \in made + 1 .. last + 1 /\ rq[i].id < m.id
    <3>1. \A n \in made + 1 .. last : n \in made + 1 .. last + 1 /\ n < last + 1
      OBVIOUS
    <3> QED
      BY <1>4, <3>1 DEF Asks
  <2>2. m.id \in made + 1 .. last + 1
    BY <1>2, <1>4
  <2>3. ASSUME NEW i \in DOMAIN r, r[i].type = "describe"
        PROVE  /\ r[i].id \in made + 1 .. last + 1
               /\ \A j \in DOMAIN r : r[j].type = "describe" /\ i < j => r[i].id < r[j].id
    <3>1. CASE i \in DOMAIN rq /\ r[i] = rq[i]
      BY <1>1, <2>1, <2>3, <3>1 DEF Asks
    <3>2. CASE i = Len(rq) + 1 /\ r[i] = m
      <4>1. \A j \in DOMAIN r : ~(i < j)
        BY <1>1, <3>2
      <4> QED
        BY <2>2, <3>2, <4>1
    <3> QED
      BY <1>1, <3>1, <3>2
  <2>4. \A n \in made + 1 .. last + 1 : n \in made + 1 .. last \/ n = last + 1
    OBVIOUS
  <2>5. \A n \in made + 1 .. last + 1 : \E i \in DOMAIN r : r[i].type = "describe" /\ r[i].id = n
    BY <1>1, <1>4, <2>4 DEF Asks
  <2> QED
    BY <1>2, <2>3, <2>5 DEF Asks
<1> QED
  BY <1>3, <1>4 DEF r

-----------------------------------------------------------------------------
(* The steps.                                                              *)

\* What a message without a luminance is.
LEMMA MessageFacts ==
    ASSUME NEW t \in MessageTypes, NEW n \in Nat
    PROVE  Message(t, n) \in Messages /\ Message(t, n).type = t /\ Message(t, n).id = n
BY DEF Message, Messages, None

\* What the event that is handled is, and what is left.
LEMMA EventFacts ==
    ASSUME OutputInv, NEW t, Handles(t)
    PROVE  /\ events # <<>> /\ events[1].type = t /\ events' = Tail(events) /\ Subject = events[1].id
           /\ events[1] \in Messages /\ 1 \in DOMAIN events /\ events' \in Seq(Messages)
           /\ \A i \in DOMAIN events : i \in Nat /\ i >= 1
           /\ \A i \in DOMAIN events' : i \in Nat /\ i + 1 \in DOMAIN events /\ events'[i] = events[i + 1]
           /\ \A i \in DOMAIN events : i # 1 => i - 1 \in DOMAIN events' /\ events'[i - 1] = events[i]
           /\ Answers(events', described)
           /\ \A i \in DOMAIN events' : events'[i].type \notin {"describe", "inform"}
<1>1. events \in Seq(Messages) /\ events # <<>> /\ Head(events).type = t /\ events' = Tail(events)
  BY DEF Handles, OutputInv, MessagesInv
<1>2. /\ events' \in Seq(Messages) /\ Head(events) = events[1] /\ events[1] \in Messages /\ 1 \in DOMAIN events
      /\ \A i \in DOMAIN events : i \in Nat /\ i >= 1
      /\ \A i \in DOMAIN events' : i \in Nat /\ i + 1 \in DOMAIN events /\ events'[i] = events[i + 1]
      /\ \A i \in DOMAIN events : i # 1 => i - 1 \in DOMAIN events' /\ events'[i - 1] = events[i]
  BY <1>1, TailOf
<1>3. Answers(events', described)
  BY <1>1, AnswersTail DEF OutputInv, DescriptionsInv
<1>4. \A i \in DOMAIN events' : events'[i].type \notin {"describe", "inform"}
  BY <1>2 DEF OutputInv, MessagesInv
<1> QED
  BY <1>1, <1>2, <1>3, <1>4 DEF Subject

\* An answer that is handled was not asked for after information.
LEMMA AnswerFacts ==
    ASSUME OutputInv, events # <<>>, 1 \in DOMAIN events, Answer(events[1]), \A i \in DOMAIN events : i \in Nat /\ i >= 1
    PROVE  /\ m_imageDescriptionInfo = None
           /\ events[1].id \in 1 .. Len(described) /\ Len(described) \in Nat /\ Len(described) <= asked
           /\ events[1].type = "failed" <=> described[events[1].id] = None
<1>1. ~Requested(requests, events, m_imageDescriptionInfo)
  BY DEF Requested, Answer
<1>2. ~Coming(requests, events, m_imageDescriptionInfo, described)
  BY DEF Coming
<1> QED
  BY <1>1, <1>2 DEF OutputInv, MessagesInv, DescriptionsInv, InformationInv, Answers, Asks

\* The steps keep the invariant: the luminance changes,
LEMMA ChangeStep ==
    ASSUME OutputInv, Change
    PROVE  OutputInv'
<1> USE DEF serverVars, clientVars
<1> DEFINE m == Message("changed", None)
<1>1. m \in Messages /\ m.type = "changed"
  BY MessageFacts DEF MessageTypes, None
<1>2. /\ luminance' = luminance + 1 /\ events' = Append(events, m)
      /\ UNCHANGED <<described, requests, asked, m_imageDescription, m_imageDescriptionInfo, m_maxLuminance, outputPanicked, overtaken>>
  BY DEF Change
<1> HIDE DEF m
<1>3. MessagesInv /\ Answers(events, described) /\ Asks(requests, Len(described), asked) /\ InformationInv /\ LuminanceInv
  BY DEF OutputInv, DescriptionsInv
<1>4. /\ events' \in Seq(Messages) /\ Len(events) \in Nat
      /\ \A i \in DOMAIN events' : i \in Nat /\ ((i \in DOMAIN events /\ events'[i] = events[i]) \/ (i = Len(events) + 1 /\ events'[i] = m))
      /\ \A i \in DOMAIN events : i \in DOMAIN events' /\ events'[i] = events[i]
      /\ Len(events) + 1 \in DOMAIN events' /\ events'[Len(events) + 1] = m
  BY <1>1, <1>2, <1>3, AppendOf DEF MessagesInv
<1>5. MessagesInv'
  BY <1>1, <1>2, <1>3, <1>4 DEF MessagesInv
<1>6. Answers(events', described)
  BY <1>1, <1>2, <1>3, AnswersOther DEF MessagesInv, Answer
<1>7. ASSUME NEW info, Requested(requests, events, info)
      PROVE  Requested(requests, events', info)
  BY <1>1, <1>4, <1>7 DEF Requested
<1>8. ASSUME NEW info, Coming(requests, events, info, described)
      PROVE  Coming(requests, events', info, described)
  <2>1. PICK k \in DOMAIN events :
          /\ events[k].type = "done" /\ events[k].id = info
          /\ \A i \in DOMAIN events :
               /\ Answer(events[i]) => k < i
               /\ events[i].type = "done" => i = k
               /\ events[i].type = "luminance" => i < k /\ events[i].luminance = described[info]
    BY <1>8 DEF Coming
  <2>2. k \in DOMAIN events' /\ events'[k] = events[k]
    BY <1>4
  <2>3. \A i \in DOMAIN events' :
               /\ Answer(events'[i]) => k < i
               /\ events'[i].type = "done" => i = k
               /\ events'[i].type = "luminance" => i < k /\ events'[i].luminance = described[info]
    BY <1>1, <1>4, <2>1 DEF Answer
  <2> QED
    BY <1>8, <2>1, <2>2, <2>3 DEF Coming
<1>9. InformationInv'
  <2>1. m_imageDescriptionInfo = None => \A i \in DOMAIN events' : ~Information(events'[i])
    BY <1>1, <1>3, <1>4 DEF InformationInv, Information
  <2> QED
    BY <1>2, <1>3, <1>7, <1>8, <2>1 DEF InformationInv
<1>10. IsPresent'
  BY <1>1, <1>4 DEF IsPresent
<1>11. /\ Making => Making'
       /\ Reading => Reading'
       /\ Settled => Settled'
  BY <1>2, <1>4, <1>7 DEF Making, Reading, Settled
<1> QED
  BY <1>2, <1>3, <1>5, <1>6, <1>9, <1>10, <1>11 DEF OutputInv, DescriptionsInv, LuminanceInv, DoneIsAwaited

\* a description is made or fails,
LEMMA DescribeStep ==
    ASSUME OutputInv, Describe
    PROVE  OutputInv'
<1> USE DEF serverVars, clientVars
<1>1. MessagesInv /\ Answers(events, described) /\ Asks(requests, Len(described), asked) /\ InformationInv /\ LuminanceInv
  BY DEF OutputInv, DescriptionsInv
<1>2. /\ requests # <<>> /\ Head(requests).type = "describe" /\ requests' = Tail(requests)
      /\ UNCHANGED <<luminance, asked, m_imageDescription, m_imageDescriptionInfo, m_maxLuminance, outputPanicked, overtaken>>
  BY DEF Describe
<1>3. PICK type \in {"ready", "failed"} :
        /\ described' = Append(described, IF type = "ready" THEN luminance ELSE None)
        /\ events' = Append(events, Message(type, Head(requests).id))
  BY DEF Describe
<1>4. /\ Head(requests) = requests[1] /\ requests[1] \in Messages /\ 1 \in DOMAIN requests /\ requests' \in Seq(Messages)
      /\ \A i \in DOMAIN requests' : i + 1 \in DOMAIN requests /\ requests'[i] = requests[i + 1]
  BY <1>1, <1>2, TailOf DEF MessagesInv
<1> DEFINE x == IF type = "ready" THEN luminance ELSE None
           n == Len(described) + 1
           m == Message(type, Head(requests).id)
<1>5. Len(described) \in Nat /\ requests[1].id = n /\ Asks(requests', n, asked)
  <2>1. Len(described) \in Nat
    BY <1>1 DEF MessagesInv
  <2> QED
    BY <1>1, <1>2, <1>4, <2>1, AsksTail DEF MessagesInv
<1>6. m \in Messages /\ m.type = type /\ m.id = n
  BY <1>4, <1>5, MessageFacts DEF MessageTypes
<1>7. x \in Nat /\ (type = "failed" <=> x = None) /\ x \in {None, luminance}
  BY <1>1 DEF MessagesInv, None
<1>8. described' = Append(described, x) /\ events' = Append(events, m)
  BY <1>3
<1> HIDE DEF x, m
<1>9. /\ described' \in Seq(Nat) /\ Len(described') = n /\ described'[n] = x
      /\ \A i \in 1 .. Len(described) : described'[i] = described[i]
  BY <1>1, <1>7, <1>8 DEF MessagesInv
<1> HIDE DEF n
<1>10. n = Len(described) + 1 /\ n <= asked /\ asked \in Nat /\ n \in Nat
  BY <1>1, <1>5 DEF n, Asks, MessagesInv
<1>11. /\ events' \in Seq(Messages) /\ Len(events) \in Nat
       /\ \A i \in DOMAIN events' : i \in Nat /\ ((i \in DOMAIN events /\ events'[i] = events[i]) \/ (i = Len(events) + 1 /\ events'[i] = m))
       /\ \A i \in DOMAIN events : i \in Nat /\ i \in DOMAIN events' /\ events'[i] = events[i] /\ i < Len(events) + 1
       /\ Len(events) + 1 \in DOMAIN events' /\ events'[Len(events) + 1] = m
  BY <1>1, <1>6, <1>8, AppendOf DEF MessagesInv
<1>12. MessagesInv'
  BY <1>1, <1>2, <1>4, <1>6, <1>9, <1>11 DEF MessagesInv
<1>13. Answers(events', described')
  <2>1. Answer(m)
    BY <1>6 DEF Answer
  <2> QED
    BY <1>1, <1>6, <1>7, <1>8, <1>10, <2>1, AnswersMore DEF MessagesInv
<1>14. Asks(requests', Len(described'), asked)
  BY <1>5, <1>9
<1>15. NoneRequested(requests) => NoneRequested(requests')
  BY <1>4 DEF NoneRequested
<1>16. ~Requested(requests, events, m_imageDescriptionInfo)
  BY <1>2, <1>4 DEF Requested
<1>17. ASSUME NEW info \in 1 .. Len(described), Coming(requests, events, info, described)
       PROVE  Coming(requests', events', info, described')
  <2>1. PICK k \in DOMAIN events :
          /\ events[k].type = "done" /\ events[k].id = info
          /\ \A i \in DOMAIN events :
               /\ Answer(events[i]) => k < i
               /\ events[i].type = "done" => i = k
               /\ events[i].type = "luminance" => i < k /\ events[i].luminance = described[info]
    BY <1>17 DEF Coming
  <2>2. k \in DOMAIN events' /\ events'[k] = events[k] /\ k < Len(events) + 1 /\ described'[info] = described[info]
    BY <1>9, <1>11
  <2>3. \A i \in DOMAIN events' :
               /\ Answer(events'[i]) => k < i
               /\ events'[i].type = "done" => i = k
               /\ events'[i].type = "luminance" => i < k /\ events'[i].luminance = described'[info]
    BY <1>6, <1>11, <2>1, <2>2
  <2>4. NoneRequested(requests')
    BY <1>15, <1>17 DEF Coming
  <2> QED
    BY <2>1, <2>2, <2>3, <2>4 DEF Coming
<1>18. InformationInv'
  <2>1. m_imageDescriptionInfo = None => \A i \in DOMAIN events' : ~Information(events'[i])
    BY <1>1, <1>6, <1>11 DEF InformationInv, Information
  <2>2. m_imageDescriptionInfo \in 1 .. Len(described) => m_imageDescriptionInfo \in 1 .. Len(described')
    BY <1>9, <1>10
  <2> QED
    BY <1>1, <1>2, <1>15, <1>16, <1>17, <2>1, <2>2 DEF InformationInv
<1>19. IsPresent'
  BY <1>2, <1>7, <1>9 DEF IsPresent
<1>20. Making => Making'
  BY <1>2, <1>6, <1>9, <1>11 DEF Making, Answer
<1>21. ~Reading /\ ~Settled
  BY <1>1, <1>10, MaxChangesAssumption DEF Reading, Settled, InformationInv, MessagesInv, None
<1> QED
  BY <1>1, <1>2, <1>12, <1>13, <1>14, <1>18, <1>19, <1>20, <1>21 DEF OutputInv, DescriptionsInv, LuminanceInv, DoneIsAwaited

\* information is sent,
LEMMA InformStep ==
    ASSUME OutputInv, Inform
    PROVE  OutputInv'
<1> USE DEF serverVars, clientVars
<1>1. MessagesInv /\ Answers(events, described) /\ Asks(requests, Len(described), asked) /\ InformationInv /\ LuminanceInv
  BY DEF OutputInv, DescriptionsInv
<1> DEFINE id == Head(requests).id
           a == [type |-> "luminance", id |-> id, luminance |-> described[id]]
           b == Message("done", id)
<1>2. /\ requests # <<>> /\ Head(requests).type = "inform" /\ requests' = Tail(requests) /\ events' = events \o <<a, b>>
      /\ UNCHANGED <<luminance, described, asked, m_imageDescription, m_imageDescriptionInfo, m_maxLuminance, outputPanicked, overtaken>>
  BY DEF Inform
<1>3. /\ Head(requests) = requests[1] /\ requests[1] \in Messages /\ 1 \in DOMAIN requests /\ requests' \in Seq(Messages)
      /\ \A i \in DOMAIN requests' : i \in Nat /\ i + 1 \in DOMAIN requests /\ requests'[i] = requests[i + 1]
      /\ \A i \in DOMAIN requests' : i + 1 # 1
  <2>1. \A i \in DOMAIN requests : i \in Nat /\ i >= 1
    BY <1>1, <1>2, TailOf DEF MessagesInv
  <2>2. \A i \in Nat : i >= 1 => i + 1 # 1
    OBVIOUS
  <2>3. requests' \in Seq(Messages)
    BY <1>1, <1>2, TailOf DEF MessagesInv
  <2>4. \A i \in DOMAIN requests' : i \in Nat /\ i >= 1
    BY <2>3
  <2> QED
    BY <1>1, <1>2, <2>2, <2>4, TailOf DEF MessagesInv
<1>4. m_imageDescriptionInfo # None /\ Requested(requests, events, m_imageDescriptionInfo)
  BY <1>1, <1>2, <1>3 DEF InformationInv, NoneRequested, Coming
<1>5. id = m_imageDescriptionInfo /\ id \in 1 .. Len(described) /\ id \in Nat /\ described[id] \in Nat
  BY <1>1, <1>3, <1>4 DEF Requested, InformationInv, MessagesInv
<1>6. a \in Messages /\ a.type = "luminance" /\ a.luminance = described[id]
  BY <1>5 DEF Messages, MessageTypes
<1>7. b \in Messages /\ b.type = "done" /\ b.id = id
  BY <1>5, MessageFacts DEF MessageTypes
<1> HIDE DEF a, b, id
<1> DEFINE l == Len(events)
<1>8. /\ events' \in Seq(Messages) /\ l \in Nat /\ DOMAIN events = 1 .. l /\ DOMAIN events' = 1 .. l + 2
      /\ \A i \in 1 .. l : events'[i] = events[i]
      /\ events'[l + 1] = a /\ events'[l + 2] = b
  <2>1. \A e \in Seq(Messages) : LET r == e \o <<a, b>> IN
          /\ r \in Seq(Messages) /\ Len(e) \in Nat /\ DOMAIN e = 1 .. Len(e) /\ DOMAIN r = 1 .. Len(e) + 2
          /\ \A i \in 1 .. Len(e) : r[i] = e[i]
          /\ r[Len(e) + 1] = a /\ r[Len(e) + 2] = b
    BY <1>6, <1>7
  <2> QED
    BY <1>1, <1>2, <2>1 DEF MessagesInv
<1> HIDE DEF l
<1>9. /\ \A i \in DOMAIN events' : i \in Nat /\ ((i \in DOMAIN events /\ events'[i] = events[i]) \/ (i = l + 1 /\ events'[i] = a) \/ (i = l + 2 /\ events'[i] = b))
      /\ \A i \in DOMAIN events : i \in DOMAIN events' /\ events'[i] = events[i]
      /\ l + 1 \in DOMAIN events' /\ l + 2 \in DOMAIN events' /\ l + 1 < l + 2
  BY <1>8
<1>10. MessagesInv'
  BY <1>1, <1>2, <1>3, <1>6, <1>7, <1>8, <1>9 DEF MessagesInv
<1>11. Answers(events', described)
  <2>1. ~Answer(a) /\ ~Answer(b)
    BY <1>6, <1>7 DEF Answer
  <2> QED
    BY <1>1, <1>9, <2>1 DEF Answers
<1>12. Asks(requests', Len(described), asked)
  BY <1>1, <1>2, <1>3, AsksTail DEF MessagesInv
<1>13. Coming(requests', events', m_imageDescriptionInfo, described)
  <2>1. NoneRequested(requests')
    BY <1>3, <1>4 DEF Requested, NoneRequested
  <2>2. \A i \in DOMAIN events' :
             /\ Answer(events'[i]) => l + 2 < i
             /\ events'[i].type = "done" => i = l + 2
             /\ events'[i].type = "luminance" => i < l + 2 /\ events'[i].luminance = described[m_imageDescriptionInfo]
    BY <1>4, <1>5, <1>6, <1>7, <1>9 DEF Requested, Answer
  <2> QED
    BY <1>5, <1>7, <1>8, <1>9, <2>1, <2>2 DEF Coming
<1>14. InformationInv'
  BY <1>1, <1>2, <1>4, <1>13 DEF InformationInv
<1>15. IsPresent'
  BY <1>1, <1>2, <1>9 DEF IsPresent, LuminanceInv
<1>16. Reading => Reading'
  BY <1>2, <1>6, <1>8, <1>9 DEF Reading
<1>17. ~Making /\ ~Settled
  BY <1>4 DEF Making, Settled
<1> QED
  BY <1>1, <1>2, <1>10, <1>11, <1>12, <1>14, <1>15, <1>16, <1>17 DEF OutputInv, DescriptionsInv, LuminanceInv, DoneIsAwaited

\* An answer is handled, to a description that was given up or has failed.
LEMMA AnswerStep ==
    ASSUME OutputInv, Dropped \/ ImageDescriptionFailed
    PROVE  OutputInv'
<1> USE DEF serverVars, clientVars
<1>1. MessagesInv /\ Asks(requests, Len(described), asked) /\ InformationInv /\ LuminanceInv
  BY DEF OutputInv, DescriptionsInv
<1>2. /\ Handles("ready") \/ Handles("failed")
      /\ UNCHANGED <<luminance, described, requests, asked, m_imageDescriptionInfo, m_maxLuminance, outputPanicked, overtaken>>
  BY DEF Dropped, ImageDescriptionFailed
<1>3. /\ events # <<>> /\ events[1].type \in {"ready", "failed"} /\ Subject = events[1].id
      /\ 1 \in DOMAIN events /\ events' \in Seq(Messages)
      /\ \A i \in DOMAIN events : i \in Nat /\ i >= 1
      /\ \A i \in DOMAIN events' : i \in Nat /\ i + 1 \in DOMAIN events /\ events'[i] = events[i + 1]
      /\ \A i \in DOMAIN events : i # 1 => i - 1 \in DOMAIN events' /\ events'[i - 1] = events[i]
      /\ Answers(events', described)
      /\ \A i \in DOMAIN events' : events'[i].type \notin {"describe", "inform"}
  BY <1>2, EventFacts
<1>4. /\ m_imageDescriptionInfo = None
      /\ events[1].id \in 1 .. Len(described) /\ Len(described) \in Nat /\ Len(described) <= asked
      /\ events[1].type = "failed" <=> described[events[1].id] = None
  BY <1>3, AnswerFacts DEF Answer
<1>5. InformationInv'
  BY <1>1, <1>2, <1>3, <1>4 DEF InformationInv, Information
<1>6. IsPresent'
  <2>1. (\A i \in DOMAIN events' : events'[i].type # "changed") => \A i \in DOMAIN events : events[i].type # "changed"
    BY <1>3
  <2> QED
    BY <1>1, <1>2, <2>1 DEF IsPresent, LuminanceInv
<1>7. ~Reading
  BY <1>1, <1>4 DEF Reading, MessagesInv, None
<1>8. CASE Dropped
  <2>1. Subject # m_imageDescription /\ m_imageDescription' = m_imageDescription
    BY <1>8 DEF Dropped
  <2>2. Making => Making'
    <3>1. SUFFICES ASSUME Making
                   PROVE  Making'
      OBVIOUS
    <3>2. m_imageDescription = asked /\ events[1].id # asked
      BY <1>3, <2>1, <3>1 DEF Making
    <3>3. ASSUME Len(described) = asked
          PROVE  \E i \in DOMAIN events' : Answer(events'[i]) /\ events'[i].id = asked
      <4>1. PICK i \in DOMAIN events : Answer(events[i]) /\ events[i].id = asked
        BY <3>1, <3>3 DEF Making
      <4>2. i - 1 \in DOMAIN events' /\ events'[i - 1] = events[i]
        BY <1>3, <3>2, <4>1
      <4> QED
        BY <4>1, <4>2
    <3> QED
      BY <1>2, <2>1, <3>1, <3>3 DEF Making
  <2>3. Settled => Settled'
    BY <1>2, <2>1 DEF Settled
  <2>4. MessagesInv'
    BY <1>1, <1>2, <1>3, <2>1 DEF MessagesInv
  <2> QED
    BY <1>1, <1>2, <1>3, <1>5, <1>6, <1>7, <2>2, <2>3, <2>4 DEF OutputInv, DescriptionsInv, LuminanceInv, DoneIsAwaited
<1>9. CASE ImageDescriptionFailed
  <2>1. events[1].id = m_imageDescription /\ m_imageDescription' = None /\ events[1].type = "failed"
    BY <1>3, <1>9, EventFacts DEF ImageDescriptionFailed
  <2>2. m_imageDescription = asked /\ described[asked] = None /\ Len(described) = asked
    <3>1. events[1].id # None
      BY <1>4 DEF None
    <3>2. m_imageDescription = asked
      BY <1>1, <2>1, <3>1 DEF MessagesInv
    <3> QED
      BY <1>1, <1>4, <2>1, <3>2 DEF MessagesInv
  <2>3. Settled'
    BY <1>2, <1>4, <2>1, <2>2 DEF Settled
  <2>4. MessagesInv'
    BY <1>1, <1>2, <1>3, <2>1 DEF MessagesInv
  <2> QED
    BY <1>1, <1>2, <1>3, <1>5, <1>6, <2>3, <2>4 DEF OutputInv, DescriptionsInv, LuminanceInv, DoneIsAwaited
<1> QED
  BY <1>8, <1>9

\* a description is asked for,
LEMMA ChangedStep ==
    ASSUME OutputInv, ImageDescriptionChanged
    PROVE  OutputInv'
<1> USE DEF serverVars, clientVars
<1>1. MessagesInv /\ Asks(requests, Len(described), asked) /\ InformationInv /\ LuminanceInv
  BY DEF OutputInv, DescriptionsInv
<1> DEFINE m == Message("describe", asked + 1)
<1>2. /\ Handles("changed") /\ asked' = asked + 1 /\ m_imageDescription' = asked + 1 /\ requests' = Append(requests, m)
      /\ overtaken' = (m_imageDescriptionInfo # None)
      /\ UNCHANGED <<luminance, described, m_imageDescriptionInfo, m_maxLuminance, outputPanicked>>
  BY DEF ImageDescriptionChanged
<1>3. m \in Messages /\ m.type = "describe" /\ m.id = asked + 1
  <2>1. asked + 1 \in Nat /\ "describe" \in MessageTypes
    BY <1>1 DEF MessagesInv, MessageTypes
  <2> QED
    BY <2>1, MessageFacts
<1> HIDE DEF m
<1>4. /\ events[1].type = "changed" /\ 1 \in DOMAIN events /\ events' \in Seq(Messages)
      /\ \A i \in DOMAIN events : i \in Nat /\ i >= 1
      /\ \A i \in DOMAIN events' : i \in Nat /\ i + 1 \in DOMAIN events /\ events'[i] = events[i + 1]
      /\ \A i \in DOMAIN events : i # 1 => i - 1 \in DOMAIN events' /\ events'[i - 1] = events[i]
      /\ Answers(events', described)
      /\ \A i \in DOMAIN events' : events'[i].type \notin {"describe", "inform"}
  BY <1>2, EventFacts
<1>5. /\ requests' \in Seq(Messages) /\ requests' # <<>> /\ Len(requests) \in Nat
      /\ \A i \in DOMAIN requests' : (i \in DOMAIN requests /\ requests'[i] = requests[i]) \/ requests'[i] = m
      /\ \A i \in DOMAIN requests : i \in DOMAIN requests' /\ requests'[i] = requests[i]
  BY <1>1, <1>2, <1>3, AppendOf, SMTT(60) DEF MessagesInv
<1>6. MessagesInv'
  <2>1. asked' \in Nat \ {0} /\ m_imageDescription' \in {None, asked'} /\ overtaken' \in BOOLEAN
    BY <1>1, <1>2 DEF MessagesInv
  <2> QED
    BY <1>1, <1>2, <1>4, <1>5, <2>1 DEF MessagesInv
<1>7. Len(described) \in Nat /\ Len(described) <= asked /\ asked \in Nat
  BY <1>1 DEF MessagesInv, Asks
<1>8. Asks(requests', Len(described), asked + 1)
  BY <1>1, <1>2, <1>3, <1>7, AsksMore DEF MessagesInv
<1>9. NoneRequested(requests) => NoneRequested(requests')
  BY <1>3, <1>5 DEF NoneRequested
<1>10. ASSUME NEW info, Requested(requests, events, info)
       PROVE  Requested(requests', events', info)
  <2>1. 1 \in DOMAIN requests
    BY <1>1, <1>10, TailOf DEF MessagesInv, Requested
  <2>2. /\ requests[1].type = "inform" /\ requests[1].id = info
        /\ \A i \in DOMAIN requests : i # 1 => requests[i].type = "describe"
        /\ \A i \in DOMAIN events : events[i].type = "changed"
    BY <1>10 DEF Requested
  <2>3. requests'[1].type = "inform" /\ requests'[1].id = info
    BY <1>5, <2>1, <2>2
  <2>4. \A i \in DOMAIN requests' : i # 1 => requests'[i].type = "describe"
    BY <1>3, <1>5, <2>2
  <2>5. \A i \in DOMAIN events' : events'[i].type = "changed"
    BY <1>4, <2>2
  <2> QED
    BY <1>5, <2>3, <2>4, <2>5 DEF Requested
<1>11. ASSUME NEW info, Coming(requests, events, info, described)
       PROVE  Coming(requests', events', info, described)
  <2>1. PICK k \in DOMAIN events :
          /\ events[k].type = "done" /\ events[k].id = info
          /\ \A i \in DOMAIN events :
               /\ Answer(events[i]) => k < i
               /\ events[i].type = "done" => i = k
               /\ events[i].type = "luminance" => i < k /\ events[i].luminance = described[info]
    BY <1>11 DEF Coming
  <2>2. k - 1 \in DOMAIN events' /\ events'[k - 1] = events[k] /\ k \in Nat
    BY <1>4, <2>1
  <2>3. \A i \in Nat : /\ k < i + 1 => k - 1 < i
                       /\ i + 1 = k => i = k - 1
                       /\ i + 1 < k => i < k - 1
    BY <2>2
  <2>4. \A i \in DOMAIN events' :
               /\ Answer(events'[i]) => k - 1 < i
               /\ events'[i].type = "done" => i = k - 1
               /\ events'[i].type = "luminance" => i < k - 1 /\ events'[i].luminance = described[info]
    BY <1>4, <2>1, <2>3
  <2>5. NoneRequested(requests')
    BY <1>9, <1>11 DEF Coming
  <2> QED
    BY <2>1, <2>2, <2>4, <2>5 DEF Coming
<1>12. InformationInv'
  <2>1. m_imageDescription' # None
    BY <1>2, <1>7 DEF None
  <2>2. m_imageDescriptionInfo = None => \A i \in DOMAIN events' : ~Information(events'[i])
    BY <1>1, <1>4 DEF InformationInv, Information
  <2> QED
    BY <1>1, <1>2, <1>9, <1>10, <1>11, <2>1, <2>2 DEF InformationInv
<1>13. Len(described) # asked + 1
  BY <1>7
<1>14. IsPresent'
  BY <1>2, <1>13 DEF IsPresent
<1>15. ~overtaken' => Making'
  BY <1>2, <1>13 DEF Making
<1> QED
  BY <1>1, <1>2, <1>4, <1>6, <1>8, <1>12, <1>14, <1>15 DEF OutputInv, DescriptionsInv, LuminanceInv, DoneIsAwaited

\* information is asked for,
LEMMA ReadyStep ==
    ASSUME OutputInv, ImageDescriptionReady
    PROVE  OutputInv'
<1> USE DEF serverVars, clientVars
<1>1. MessagesInv /\ Answers(events, described) /\ Asks(requests, Len(described), asked) /\ InformationInv /\ LuminanceInv
  BY DEF OutputInv, DescriptionsInv
<1>2. /\ Handles("ready") /\ Subject = m_imageDescription /\ m_imageDescriptionInfo' = Subject
      /\ requests' = Append(requests, Message("inform", Subject))
      /\ UNCHANGED <<luminance, described, asked, m_imageDescription, m_maxLuminance, outputPanicked, overtaken>>
  BY DEF ImageDescriptionReady
<1>3. /\ events # <<>> /\ events[1].type = "ready" /\ Subject = events[1].id
      /\ 1 \in DOMAIN events /\ events' \in Seq(Messages)
      /\ \A i \in DOMAIN events : i \in Nat /\ i >= 1
      /\ \A i \in DOMAIN events' : i \in Nat /\ i + 1 \in DOMAIN events /\ events'[i] = events[i + 1]
      /\ \A i \in DOMAIN events : i # 1 => i - 1 \in DOMAIN events' /\ events'[i - 1] = events[i]
      /\ Answers(events', described)
      /\ \A i \in DOMAIN events' : events'[i].type \notin {"describe", "inform"}
  BY <1>2, EventFacts
<1>4. /\ m_imageDescriptionInfo = None
      /\ events[1].id \in 1 .. Len(described) /\ Len(described) \in Nat /\ Len(described) <= asked
  BY <1>3, AnswerFacts DEF Answer
<1>5. Subject = asked /\ m_imageDescription = asked /\ Len(described) = asked /\ asked \in Nat \ {0} /\ asked # None
  <2>1. Subject # None
    BY <1>3, <1>4 DEF None
  <2>2. Subject = asked /\ m_imageDescription = asked
    BY <1>1, <1>2, <2>1 DEF MessagesInv
  <2> QED
    BY <1>1, <1>3, <1>4, <2>1, <2>2 DEF MessagesInv
<1> DEFINE m == Message("inform", asked)
<1>6. m \in Messages /\ m.type = "inform" /\ m.id = asked
  BY <1>5, MessageFacts DEF MessageTypes
<1>7. requests' = Append(requests, m)
  BY <1>2, <1>5
<1> HIDE DEF m
<1>8. requests = <<>>
  <2>1. NoneRequested(requests)
    BY <1>1, <1>4 DEF InformationInv
  <2>2. \A i \in DOMAIN requests : requests[i].id \in asked + 1 .. asked
    BY <1>1, <1>5, <2>1 DEF Asks, NoneRequested
  <2>3. asked + 1 .. asked = {}
    BY <1>5
  <2>4. requests # <<>> => 1 \in DOMAIN requests
    BY <1>1, TailOf DEF MessagesInv
  <2> QED
    BY <2>2, <2>3, <2>4
<1>9. requests' = <<m>> /\ requests' # <<>> /\ requests'[1] = m /\ (\A i \in DOMAIN requests' : i = 1) /\ requests' \in Seq(Messages)
  BY <1>6, <1>7, <1>8
<1>10. \A i \in DOMAIN events' : events'[i].type = "changed"
  <2>1. SUFFICES ASSUME NEW i \in DOMAIN events'
                 PROVE  events'[i].type = "changed"
    OBVIOUS
  <2>2. ~Information(events'[i])
    BY <1>1, <1>3, <1>4 DEF InformationInv
  <2>3. ~Answer(events'[i])
    <3>1. SUFFICES ASSUME Answer(events'[i])
                   PROVE  FALSE
      OBVIOUS
    <3>2. i + 1 \in DOMAIN events /\ Answer(events[i + 1]) /\ 1 < i + 1
      <4>1. \A j \in Nat : j >= 1 => 1 < j + 1
        OBVIOUS
      <4>2. i \in Nat /\ i >= 1
        BY <1>3
      <4> QED
        BY <1>3, <3>1, <4>1, <4>2
    <3>3. events[1].id < events[i + 1].id /\ events[i + 1].id \in 1 .. Len(described)
      BY <1>1, <1>3, <3>2 DEF Answers, Answer
    <3> QED
      BY <1>3, <1>5, <3>3
  <2>4. events'[i].type \in MessageTypes
    <3>1. events'[i] \in Messages
      BY <1>3
    <3> QED
      BY <3>1 DEF Messages
  <2> QED
    BY <1>3, <2>2, <2>3, <2>4 DEF Information, Answer, MessageTypes
<1>11. Requested(requests', events', m_imageDescriptionInfo')
  BY <1>2, <1>5, <1>6, <1>9, <1>10 DEF Requested
<1>12. InformationInv'
  BY <1>2, <1>5, <1>11 DEF InformationInv
<1>13. IsPresent'
  <2>1. (\A i \in DOMAIN events' : events'[i].type # "changed") => \A i \in DOMAIN events : events[i].type # "changed"
    BY <1>3
  <2> QED
    BY <1>1, <1>2, <2>1 DEF IsPresent, LuminanceInv
<1>14. Reading'
  BY <1>2, <1>5, <1>11 DEF Reading
<1>15. MessagesInv'
  BY <1>1, <1>2, <1>3, <1>5, <1>9 DEF MessagesInv
<1>16. Asks(requests', Len(described), asked)
  BY <1>1, <1>5, <1>6, <1>7, AsksMore DEF MessagesInv
<1> QED
  BY <1>1, <1>2, <1>3, <1>12, <1>13, <1>14, <1>15, <1>16 DEF OutputInv, DescriptionsInv, LuminanceInv, DoneIsAwaited

\* and information arrives.
LEMMA InformationStep ==
    ASSUME OutputInv, ColorTargetLuminance \/ ColorDone
    PROVE  OutputInv'
<1> USE DEF serverVars, clientVars
<1>1. MessagesInv /\ Asks(requests, Len(described), asked) /\ InformationInv /\ LuminanceInv
  BY DEF OutputInv, DescriptionsInv
<1>2. /\ Handles("luminance") \/ Handles("done")
      /\ UNCHANGED <<luminance, described, requests, asked, overtaken>>
  BY DEF ColorTargetLuminance, ColorDone
<1>3. /\ events[1].type \in {"luminance", "done"} /\ Subject = events[1].id /\ Head(events) = events[1] /\ events[1] \in Messages
      /\ 1 \in DOMAIN events /\ events' \in Seq(Messages)
      /\ \A i \in DOMAIN events : i \in Nat /\ i >= 1
      /\ \A i \in DOMAIN events' : i \in Nat /\ i + 1 \in DOMAIN events /\ events'[i] = events[i + 1]
      /\ \A i \in DOMAIN events : i # 1 => i - 1 \in DOMAIN events' /\ events'[i - 1] = events[i]
      /\ Answers(events', described)
      /\ \A i \in DOMAIN events' : events'[i].type \notin {"describe", "inform"}
  <2>1. Head(events) = events[1]
    BY <1>1, <1>2, TailOf DEF Handles, MessagesInv
  <2> QED
    BY <1>2, <2>1, EventFacts
<1> DEFINE info == m_imageDescriptionInfo
<1>4. info # None /\ ~Requested(requests, events, info) /\ Coming(requests, events, info, described)
  BY <1>1, <1>3 DEF InformationInv, Information, Requested
<1>5. info \in 1 .. Len(described) /\ m_imageDescription # None /\ m_imageDescription = asked
  BY <1>1, <1>4 DEF InformationInv, MessagesInv
<1>6. PICK k \in DOMAIN events :
          /\ events[k].type = "done" /\ events[k].id = info
          /\ \A i \in DOMAIN events :
               /\ Answer(events[i]) => k < i
               /\ events[i].type = "done" => i = k
               /\ events[i].type = "luminance" => i < k /\ events[i].luminance = described[info]
  BY <1>4 DEF Coming
<1>7. NoneRequested(requests) /\ ~Making /\ ~Settled
  BY <1>4 DEF Coming, Making, Settled
<1>8. IsPresent'
  <2>1. (\A i \in DOMAIN events' : events'[i].type # "changed") => \A i \in DOMAIN events : events[i].type # "changed"
    BY <1>3
  <2> QED
    BY <1>1, <1>2, <2>1 DEF IsPresent, LuminanceInv
<1>9. CASE Handles("luminance") /\ ColorTargetLuminance
  <2>1. /\ m_maxLuminance' = events[1].luminance
        /\ UNCHANGED <<m_imageDescription, m_imageDescriptionInfo, outputPanicked>>
    BY <1>3, <1>9 DEF ColorTargetLuminance
  <2>2. events[1].type = "luminance"
    BY <1>9, EventFacts
  <2>3. events[1].luminance = described[info] /\ k # 1
    BY <1>3, <1>6, <2>2
  <2>4. k - 1 \in DOMAIN events' /\ events'[k - 1] = events[k] /\ k \in Nat
    BY <1>3, <1>6, <2>3
  <2>5. \A i \in Nat : /\ k < i + 1 => k - 1 < i
                       /\ i + 1 = k => i = k - 1
                       /\ i + 1 < k => i < k - 1
    BY <2>4
  <2>6. \A i \in DOMAIN events' :
               /\ Answer(events'[i]) => k - 1 < i
               /\ events'[i].type = "done" => i = k - 1
               /\ events'[i].type = "luminance" => i < k - 1 /\ events'[i].luminance = described[info]
    BY <1>3, <1>6, <2>5
  <2>7. Coming(requests', events', info', described')
    BY <1>2, <1>6, <1>7, <2>1, <2>4, <2>6 DEF Coming
  <2>8. InformationInv'
    BY <1>2, <1>4, <1>5, <2>1, <2>7 DEF InformationInv
  <2>9. Reading => Reading'
    BY <1>2, <2>1, <2>3 DEF Reading
  <2>10. MessagesInv'
    <3>1. m_maxLuminance' \in Nat
      BY <1>3, <2>1 DEF Messages
    <3> QED
      BY <1>1, <1>2, <1>3, <2>1, <3>1 DEF MessagesInv
  <2> QED
    BY <1>1, <1>2, <1>3, <1>7, <1>8, <2>1, <2>8, <2>9, <2>10 DEF OutputInv, DescriptionsInv, LuminanceInv, DoneIsAwaited
<1>10. CASE Handles("done") /\ ColorDone
  <2>1. /\ outputPanicked' = (m_imageDescriptionInfo # Subject \/ m_imageDescription = None)
        /\ m_imageDescriptionInfo' = None /\ m_imageDescription' = None /\ m_maxLuminance' = m_maxLuminance
    BY <1>10 DEF ColorDone
  <2>2. k = 1
    BY <1>3, <1>6, <1>10, EventFacts
  <2>3. ~outputPanicked'
    BY <1>3, <1>5, <1>6, <2>1, <2>2
  <2>4. \A i \in DOMAIN events : events[i].type # "luminance" /\ (events[i].type = "done" => i = 1)
    <3>1. \A i \in DOMAIN events : ~(i < 1)
      BY <1>3
    <3> QED
      BY <1>6, <2>2, <3>1
  <2>5. \A i \in DOMAIN events' : ~Information(events'[i])
    <3>1. \A i \in DOMAIN events' : i + 1 # 1
      <4>1. \A i \in DOMAIN events' : i \in Nat /\ i >= 1
        BY <1>3
      <4> QED
        BY <4>1
    <3> QED
      BY <1>3, <2>4, <3>1 DEF Information
  <2>6. InformationInv'
    BY <1>2, <1>7, <2>1, <2>5 DEF InformationInv
  <2>7. Reading => Settled'
    <3>1. SUFFICES ASSUME Reading
                   PROVE  Settled'
      OBVIOUS
    <3>2. info = asked /\ m_maxLuminance = described[asked]
      BY <1>4, <2>4, <3>1 DEF Reading
    <3>3. Len(described) = asked
      BY <1>1, <1>5, <3>2 DEF MessagesInv, Asks
    <3> QED
      BY <1>2, <2>1, <3>2, <3>3 DEF Settled
  <2>8. MessagesInv'
    BY <1>1, <1>2, <1>3, <2>1 DEF MessagesInv, None
  <2> QED
    BY <1>1, <1>2, <1>3, <1>7, <1>8, <2>3, <2>6, <2>7, <2>8 DEF OutputInv, DescriptionsInv, LuminanceInv, DoneIsAwaited
<1> QED
  BY <1>9, <1>10 DEF ColorTargetLuminance, ColorDone

LEMMA OutputInitInv == OutputInit => OutputInv
<1> SUFFICES ASSUME OutputInit
             PROVE  OutputInv
  OBVIOUS
<1> DEFINE m == Message("describe", 1)
<1>1. m \in Messages /\ m.type = "describe" /\ m.id = 1
  BY MessageFacts DEF MessageTypes
<1>2. /\ luminance = 1 /\ described = <<>> /\ requests = <<m>> /\ events = <<>> /\ asked = 1 /\ m_imageDescription = 1
      /\ m_imageDescriptionInfo = None /\ m_maxLuminance = None /\ outputPanicked = FALSE /\ overtaken = FALSE
  BY DEF OutputInit
<1> HIDE DEF m
<1>3. Len(described) = 0 /\ DOMAIN events = {} /\ DOMAIN requests = {1} /\ requests[1] = m
  BY <1>2
<1>4. MessagesInv
  <2>1. requests \in Seq(Messages) /\ events \in Seq(Messages) /\ described \in Seq(Nat)
    BY <1>1, <1>2
  <2>2. luminance \in Nat \ {0} /\ asked \in Nat \ {0}
    BY <1>2
  <2>3. m_imageDescriptionInfo \in Nat /\ m_maxLuminance \in Nat
    BY <1>2 DEF None
  <2>4. m_imageDescription \in {None, asked} /\ overtaken \in BOOLEAN
    BY <1>2
  <2>5. \A i \in DOMAIN events : events[i].type \notin {"describe", "inform"}
    BY <1>3
  <2> QED
    BY <2>1, <2>2, <2>3, <2>4, <2>5 DEF MessagesInv
<1>5. Answers(events, described)
  BY <1>3 DEF Answers
<1>6. Asks(requests, Len(described), asked)
  <2>1. 0 + 1 .. 1 = {1}
    OBVIOUS
  <2> QED
    BY <1>1, <1>2, <1>3, <2>1 DEF Asks
<1>7. InformationInv
  BY <1>1, <1>2, <1>3 DEF InformationInv, NoneRequested
<1>8. LuminanceInv
  BY <1>2, <1>3 DEF LuminanceInv, IsPresent, Making
<1> QED
  BY <1>2, <1>4, <1>5, <1>6, <1>7, <1>8 DEF OutputInv, DescriptionsInv, DoneIsAwaited

LEMMA OutputNextInv == OutputInv /\ [OutputNext]_outputVars => OutputInv'
<1> SUFFICES ASSUME OutputInv, [OutputNext]_outputVars
             PROVE  OutputInv'
  OBVIOUS
<1>1. CASE OutputNext
  BY <1>1, ChangeStep, DescribeStep, InformStep, AnswerStep, ChangedStep, ReadyStep, InformationStep DEF OutputNext
<1>2. CASE UNCHANGED outputVars
  BY <1>2 DEF outputVars, OutputInv, MessagesInv, DescriptionsInv, Answers, Asks, InformationInv, NoneRequested, Information,
              Requested, Coming, Answer, LuminanceInv, IsPresent, Making, Reading, Settled, DoneIsAwaited
<1> QED
  BY <1>1, <1>2

\* However often the compositor's luminance changes, information that is done is
\* the one the output waits for, and when nothing is under way the output has the
\* compositor's luminance, unless the last description failed or was overtaken.
THEOREM OutputCorrect == OutputSpec => []OutputFollows
<1>1. ASSUME OutputInv
      PROVE  OutputFollows
  <2>1. DoneIsAwaited
    BY <1>1 DEF OutputInv
  <2>2. ASSUME requests = <<>>, events = <<>>, ~overtaken
        PROVE  m_maxLuminance = luminance \/ described[asked] = None
    <3>1. DOMAIN requests = {} /\ DOMAIN events = {}
      BY <2>2
    <3>2. Len(described) = asked
      <4>1. Len(described) <= asked /\ Len(described) \in Nat /\ asked \in Nat
        BY <1>1 DEF OutputInv, DescriptionsInv, Asks, MessagesInv
      <4>2. \A n \in Len(described) + 1 .. asked : FALSE
        BY <1>1, <3>1 DEF OutputInv, DescriptionsInv, Asks
      <4>3. Len(described) # asked => asked \in Len(described) + 1 .. asked
        BY <4>1
      <4> QED
        BY <4>2, <4>3
    <3>3. described[asked] \in {None, luminance}
      BY <1>1, <3>1, <3>2 DEF OutputInv, LuminanceInv, IsPresent
    <3>4. ~Making
      BY <3>1, <3>2 DEF Making
    <3>5. ~Requested(requests, events, m_imageDescriptionInfo)
      BY <2>2 DEF Requested
    <3>6. described[asked] \in {None, m_maxLuminance}
      BY <1>1, <2>2, <3>1, <3>4, <3>5 DEF OutputInv, LuminanceInv, Reading, Settled
    <3> QED
      BY <3>3, <3>6
  <2> QED
    BY <2>1, <2>2 DEF OutputFollows, LuminanceSettles
<1> QED
  BY <1>1, OutputInitInv, OutputNextInv, PTL DEF OutputSpec

-----------------------------------------------------------------------------
(* When the window draws.                                                  *)

\* Where each lock is held.
LocksHeld ==
    /\ m_lock = "main" <=> main = "busy"
    /\ m_lock = "provider" <=> \/ provider \in {"ended", "unlock"}
                               \/ provider \in {"resume", "commit"} /\ after # "want"
    /\ viewLock = "main" <=> main \in {"update", "check", "draw", "present"}

\* There is a job that has not come to its end.
Working ==
    \/ waiting
    \/ provider \in {"load", "bitmap", "hdr", "lock", "want", "ended"}
    \/ provider \in {"resume", "commit"} /\ after # "unlock"

Quiet == provider = "rest" /\ ~waiting

\* The busy indicator turns while there is a job, but for the moment in which
\* LoadImage has queued one; the current job is superseded by one that waits.
BusyWhileWorking ==
    /\ m_isBusy => Working
    /\ main = "busy" => Working
    /\ Working => m_isBusy \/ main = "busy"
    /\ superseded => waiting
    /\ waiting => superseded \/ provider = "rest"

\* What is on the screen is what should be.
Clean == ~m_render /\ ~m_isBusy /\ ~viewDirty /\ ~busyDrawn /\ ~cursorDirty /\ ~hdrDirty /\ ~sizeDirty

\* Whatever changes the image wants a frame, or is a job whose end will.
ChangesAreWanted ==
    /\ viewDirty \/ busyDrawn => m_render \/ m_isBusy \/ main \in {"draw", "busy"}
    /\ main \in {"view", "update", "check"} =>
          /\ ~sizeDirty
          /\ cursorDirty \/ hdrDirty => m_render \/ m_isBusy
    /\ main = "check" /\ ~m_render => Quiet /\ Clean

\* The window is idle between events when nothing is left to show, while
\* LoadImage takes the first job, and when a configure event draws.
IdleInv ==
    /\ m_idle => \/ main = "dispatch" /\ Quiet /\ Clean
                 \/ main = "busy" /\ ~m_render /\ ~m_isBusy
                 \/ main \notin {"dispatch", "busy"} /\ caller = "Configure" /\ Quiet
    /\ caller = "InvokeRenderIdle" => main \in {"dispatch", "busy", "return"}
    /\ main = "return" /\ caller = "InvokeRenderIdle" => Quiet /\ Clean

\* Where the frame callback is.  Only a job that was taken while LoadImage held
\* the lock can find the window idle; it commits before anything is drawn.
CallbackInv ==
    /\ main # "panic"
    /\ provider = "commit" => main \in {"dispatch", "busy"} /\ ~m_idle /\ after = "want"
    /\ main \in {"dispatch", "busy"} =>
          IF m_idle \/ provider = "commit" THEN pendingCb = 1 /\ sentCb = 0 ELSE pendingCb = 0 /\ sentCb = 1
    /\ main \in {"window", "view", "update"} => pendingCb = 1 /\ sentCb = 0
    /\ main \in {"check", "draw", "present"} =>
          \/ pendingCb = 1 /\ sentCb = 0
          \/ pendingCb = 0 /\ sentCb = 1 /\ caller = "Configure" /\ (main = "check" => m_render)
    /\ main = "return" =>
          \/ pendingCb = 0 /\ sentCb = 1 /\ caller # "InvokeRenderIdle"
          \/ pendingCb = 1 /\ sentCb = 0 /\ caller # "InvokeRender"

LoopInv == TypeOK /\ LocksHeld /\ BusyWhileWorking /\ ChangesAreWanted /\ IdleInv /\ CallbackInv

LEMMA LoopStarts == Init => LoopInv
<1>0. Init => TypeOK
  <2> SUFFICES ASSUME Init PROVE TypeOK
    OBVIOUS
  <2>1. {m_idle, m_render, m_isBusy, selecting, hasBitmap} \subseteq BOOLEAN
    BY DEF Init
  <2>2. {viewDirty, busyDrawn, cursorDirty, hdrDirty, sizeDirty} \subseteq BOOLEAN
    BY DEF Init
  <2>3. {pendingCb, sentCb} \subseteq 0 .. 1
    BY DEF Init
  <2>4. {m_lock, viewLock} \subseteq {"free", "main", "provider"} /\ {superseded, waiting} \subseteq BOOLEAN
    BY DEF Init
  <2>5. /\ main \in {"dispatch", "window", "view", "update", "check", "draw", "present", "return", "busy", "panic"}
      /\ caller \in {"InvokeRender", "InvokeRenderIdle", "Configure"}
      /\ provider \in {"rest", "load", "bitmap", "hdr", "lock", "want", "resume", "commit", "ended", "unlock"}
      /\ after \in {"want", "ended", "unlock"}
    BY DEF Init
  <2> QED
    BY <2>1, <2>2, <2>3, <2>4, <2>5 DEF TypeOK
<1>1. Init => LocksHeld
  BY DEF Init, LocksHeld
<1>2. Init => BusyWhileWorking /\ ChangesAreWanted
  BY DEF Init, BusyWhileWorking, Working, ChangesAreWanted
<1>3. Init => IdleInv /\ CallbackInv
  BY DEF Init, IdleInv, CallbackInv
<1> QED
  BY <1>0, <1>1, <1>2, <1>3 DEF LoopInv

\* Every action keeps the invariant.
LEMMA FrameDoneKeeps == LoopInv /\ FrameDone => LoopInv'
BY DEF FrameDone, flags, screen, locks, jobs, LoopInv, TypeOK, LocksHeld, BusyWhileWorking,
       Working, ChangesAreWanted, Quiet, Clean, IdleInv, CallbackInv

LEMMA ConfigureBusyKeeps == LoopInv /\ ConfigureBusy => LoopInv'
<1> SUFFICES ASSUME LoopInv, ConfigureBusy PROVE LoopInv'
  OBVIOUS
<1> USE DEF LoopInv
<1>1. TypeOK'
  BY DEF ConfigureBusy, flags, surface, locks, jobs, TypeOK
<1>2. LocksHeld'
  BY DEF ConfigureBusy, flags, surface, locks, jobs, TypeOK, LocksHeld
<1>3. BusyWhileWorking'
  BY DEF ConfigureBusy, flags, surface, locks, jobs, TypeOK, LocksHeld, BusyWhileWorking,
         Working
<1>4. ChangesAreWanted'
  BY DEF ConfigureBusy, flags, surface, locks, jobs, TypeOK, LocksHeld, BusyWhileWorking,
         Working, ChangesAreWanted, Quiet, Clean, IdleInv
<1>5. IdleInv'
  BY DEF ConfigureBusy, flags, surface, locks, jobs, TypeOK, LocksHeld, BusyWhileWorking,
         Working, ChangesAreWanted, Quiet, Clean, IdleInv
<1>6. CallbackInv'
  BY DEF ConfigureBusy, flags, surface, locks, jobs, TypeOK, LocksHeld, BusyWhileWorking,
         Working, ChangesAreWanted, Quiet, Clean, IdleInv, CallbackInv
<1> QED
  BY <1>1, <1>2, <1>3, <1>4, <1>5, <1>6

LEMMA ConfigureIdleKeeps == LoopInv /\ ConfigureIdle => LoopInv'
<1> SUFFICES ASSUME LoopInv, ConfigureIdle PROVE LoopInv'
  OBVIOUS
<1> USE DEF LoopInv
<1>1. TypeOK'
  BY DEF ConfigureIdle, flags, surface, locks, jobs, TypeOK
<1>2. LocksHeld'
  BY DEF ConfigureIdle, flags, surface, locks, jobs, TypeOK, LocksHeld
<1>3. BusyWhileWorking'
  BY DEF ConfigureIdle, flags, surface, locks, jobs, TypeOK, LocksHeld, BusyWhileWorking,
         Working
<1>4. ChangesAreWanted'
  BY DEF ConfigureIdle, flags, surface, locks, jobs, TypeOK, LocksHeld, BusyWhileWorking,
         Working, ChangesAreWanted, Quiet, Clean, IdleInv
<1>5. IdleInv'
  BY DEF ConfigureIdle, flags, surface, locks, jobs, TypeOK, LocksHeld, BusyWhileWorking,
         Working, ChangesAreWanted, Quiet, Clean, IdleInv
<1>6. CallbackInv'
  BY DEF ConfigureIdle, flags, surface, locks, jobs, TypeOK, LocksHeld, BusyWhileWorking,
         Working, ChangesAreWanted, Quiet, Clean, IdleInv, CallbackInv
<1> QED
  BY <1>1, <1>2, <1>3, <1>4, <1>5, <1>6

LEMMA ScaleChangeKeeps == LoopInv /\ ScaleChange => LoopInv'
<1> SUFFICES ASSUME LoopInv, ScaleChange PROVE LoopInv'
  OBVIOUS
<1> USE DEF LoopInv
<1>1. TypeOK'
  <2>1. pendingCb' \in 0 .. 1 /\ sentCb' \in 0 .. 1
    BY DEF ScaleChange, ResumeIfIdle, Commit, surface, TypeOK, CallbackInv
  <2> QED
    BY <2>1 DEF ScaleChange, ResumeIfIdle, Commit, surface, locks, jobs, TypeOK
<1>2. LocksHeld'
  BY DEF ScaleChange, ResumeIfIdle, Commit, surface, locks, jobs, TypeOK, LocksHeld
<1>3. BusyWhileWorking'
  BY DEF ScaleChange, ResumeIfIdle, Commit, surface, locks, jobs, TypeOK, LocksHeld,
         BusyWhileWorking, Working
<1>4. ChangesAreWanted'
  BY DEF ScaleChange, ResumeIfIdle, Commit, surface, locks, jobs, TypeOK, LocksHeld,
         BusyWhileWorking, Working, ChangesAreWanted, Quiet, Clean, IdleInv
<1>5. IdleInv'
  BY DEF ScaleChange, ResumeIfIdle, Commit, surface, locks, jobs, TypeOK, LocksHeld,
         BusyWhileWorking, Working, ChangesAreWanted, Quiet, Clean, IdleInv
<1>6. CallbackInv'
  BY DEF ScaleChange, ResumeIfIdle, Commit, surface, locks, jobs, TypeOK, LocksHeld,
         BusyWhileWorking, Working, ChangesAreWanted, Quiet, Clean, IdleInv, CallbackInv
<1> QED
  BY <1>1, <1>2, <1>3, <1>4, <1>5, <1>6

LEMMA ChangeViewKeeps == LoopInv /\ ChangeView => LoopInv'
<1> SUFFICES ASSUME LoopInv, ChangeView PROVE LoopInv'
  OBVIOUS
<1> USE DEF LoopInv
<1>1. TypeOK'
  <2>1. pendingCb' \in 0 .. 1 /\ sentCb' \in 0 .. 1
    BY DEF ChangeView, WantRender, ResumeIfIdle, Commit, surface, TypeOK, CallbackInv
  <2> QED
    BY <2>1 DEF ChangeView, WantRender, ResumeIfIdle, Commit, surface, locks, jobs, TypeOK
<1>2. LocksHeld'
  BY DEF ChangeView, WantRender, ResumeIfIdle, Commit, surface, locks, jobs, TypeOK,
         LocksHeld
<1>3. BusyWhileWorking'
  BY DEF ChangeView, WantRender, ResumeIfIdle, Commit, surface, locks, jobs, TypeOK,
         LocksHeld, BusyWhileWorking, Working
<1>4. ChangesAreWanted'
  BY DEF ChangeView, WantRender, ResumeIfIdle, Commit, surface, locks, jobs, TypeOK,
         LocksHeld, BusyWhileWorking, Working, ChangesAreWanted, Quiet, Clean, IdleInv
<1>5. IdleInv'
  BY DEF ChangeView, WantRender, ResumeIfIdle, Commit, surface, locks, jobs, TypeOK,
         LocksHeld, BusyWhileWorking, Working, ChangesAreWanted, Quiet, Clean, IdleInv
<1>6. CallbackInv'
  BY DEF ChangeView, WantRender, ResumeIfIdle, Commit, surface, locks, jobs, TypeOK,
         LocksHeld, BusyWhileWorking, Working, ChangesAreWanted, Quiet, Clean, IdleInv,
         CallbackInv
<1> QED
  BY <1>1, <1>2, <1>3, <1>4, <1>5, <1>6

LEMMA LeftButtonKeeps == LoopInv /\ LeftButton => LoopInv'
<1> SUFFICES ASSUME LoopInv, LeftButton PROVE LoopInv'
  OBVIOUS
<1> USE DEF LoopInv
<1>1. TypeOK'
  <2>1. pendingCb' \in 0 .. 1 /\ sentCb' \in 0 .. 1
    BY DEF LeftButton, WantRender, ResumeIfIdle, Commit, surface, TypeOK, CallbackInv
  <2> QED
    BY <2>1 DEF LeftButton, WantRender, ResumeIfIdle, Commit, surface, locks, jobs, TypeOK
<1>2. LocksHeld'
  BY DEF LeftButton, WantRender, ResumeIfIdle, Commit, surface, locks, jobs, TypeOK,
         LocksHeld
<1>3. BusyWhileWorking'
  BY DEF LeftButton, WantRender, ResumeIfIdle, Commit, surface, locks, jobs, TypeOK,
         LocksHeld, BusyWhileWorking, Working
<1>4. ChangesAreWanted'
  BY DEF LeftButton, WantRender, ResumeIfIdle, Commit, surface, locks, jobs, TypeOK,
         LocksHeld, BusyWhileWorking, Working, ChangesAreWanted, Quiet, Clean, IdleInv
<1>5. IdleInv'
  BY DEF LeftButton, WantRender, ResumeIfIdle, Commit, surface, locks, jobs, TypeOK,
         LocksHeld, BusyWhileWorking, Working, ChangesAreWanted, Quiet, Clean, IdleInv
<1>6. CallbackInv'
  BY DEF LeftButton, WantRender, ResumeIfIdle, Commit, surface, locks, jobs, TypeOK,
         LocksHeld, BusyWhileWorking, Working, ChangesAreWanted, Quiet, Clean, IdleInv,
         CallbackInv
<1> QED
  BY <1>1, <1>2, <1>3, <1>4, <1>5, <1>6

LEMMA RightButtonKeeps == LoopInv /\ RightButton => LoopInv'
<1> SUFFICES ASSUME LoopInv, RightButton PROVE LoopInv'
  OBVIOUS
<1> USE DEF LoopInv
<1>1. TypeOK'
  <2>1. pendingCb' \in 0 .. 1 /\ sentCb' \in 0 .. 1
    BY DEF RightButton, ResumeIfIdle, Commit, surface, TypeOK, CallbackInv
  <2> QED
    BY <2>1 DEF RightButton, ResumeIfIdle, Commit, surface, locks, jobs, TypeOK
<1>2. LocksHeld'
  BY DEF RightButton, ResumeIfIdle, Commit, surface, locks, jobs, TypeOK, LocksHeld
<1>3. BusyWhileWorking'
  BY DEF RightButton, ResumeIfIdle, Commit, surface, locks, jobs, TypeOK, LocksHeld,
         BusyWhileWorking, Working
<1>4. ChangesAreWanted'
  BY DEF RightButton, ResumeIfIdle, Commit, surface, locks, jobs, TypeOK, LocksHeld,
         BusyWhileWorking, Working, ChangesAreWanted, Quiet, Clean, IdleInv
<1>5. IdleInv'
  BY DEF RightButton, ResumeIfIdle, Commit, surface, locks, jobs, TypeOK, LocksHeld,
         BusyWhileWorking, Working, ChangesAreWanted, Quiet, Clean, IdleInv
<1>6. CallbackInv'
  BY DEF RightButton, ResumeIfIdle, Commit, surface, locks, jobs, TypeOK, LocksHeld,
         BusyWhileWorking, Working, ChangesAreWanted, Quiet, Clean, IdleInv, CallbackInv
<1> QED
  BY <1>1, <1>2, <1>3, <1>4, <1>5, <1>6

LEMMA LoadImageKeeps == LoopInv /\ LoadImage => LoopInv'
<1> SUFFICES ASSUME LoopInv, LoadImage PROVE LoopInv'
  OBVIOUS
<1> USE DEF LoopInv
<1>1. TypeOK'
  <2>1. pendingCb' \in 0 .. 1 /\ sentCb' \in 0 .. 1
    BY DEF LoadImage, WantRender, ResumeIfIdle, Commit, surface, TypeOK, CallbackInv
  <2> QED
    BY <2>1 DEF LoadImage, WantRender, ResumeIfIdle, Commit, surface, TypeOK
<1>2. LocksHeld'
  BY DEF LoadImage, WantRender, ResumeIfIdle, Commit, surface, TypeOK, LocksHeld
<1>3. BusyWhileWorking'
  BY DEF LoadImage, WantRender, ResumeIfIdle, Commit, surface, TypeOK, LocksHeld,
         BusyWhileWorking, Working
<1>4. ChangesAreWanted'
  BY DEF LoadImage, WantRender, ResumeIfIdle, Commit, surface, TypeOK, LocksHeld,
         BusyWhileWorking, Working, ChangesAreWanted, Quiet, Clean, IdleInv
<1>5. IdleInv'
  BY DEF LoadImage, WantRender, ResumeIfIdle, Commit, surface, TypeOK, LocksHeld,
         BusyWhileWorking, Working, ChangesAreWanted, Quiet, Clean, IdleInv
<1>6. CallbackInv'
  BY DEF LoadImage, WantRender, ResumeIfIdle, Commit, surface, TypeOK, LocksHeld,
         BusyWhileWorking, Working, ChangesAreWanted, Quiet, Clean, IdleInv, CallbackInv
<1> QED
  BY <1>1, <1>2, <1>3, <1>4, <1>5, <1>6

LEMMA SetBusyKeeps == LoopInv /\ SetBusy => LoopInv'
<1> SUFFICES ASSUME LoopInv, SetBusy PROVE LoopInv'
  OBVIOUS
<1> USE DEF LoopInv
<1>1. TypeOK'
  <2>1. pendingCb' \in 0 .. 1 /\ sentCb' \in 0 .. 1
    BY DEF SetBusy, WantRender, ResumeIfIdle, Commit, surface, TypeOK, CallbackInv
  <2> QED
    BY <2>1 DEF SetBusy, WantRender, ResumeIfIdle, Commit, flags, surface, jobs, TypeOK
<1>2. LocksHeld'
  BY DEF SetBusy, WantRender, ResumeIfIdle, Commit, flags, surface, jobs, TypeOK, LocksHeld
<1>3. BusyWhileWorking'
  BY DEF SetBusy, WantRender, ResumeIfIdle, Commit, flags, surface, jobs, TypeOK, LocksHeld,
         BusyWhileWorking, Working
<1>4. ChangesAreWanted'
  BY DEF SetBusy, WantRender, ResumeIfIdle, Commit, flags, surface, jobs, TypeOK, LocksHeld,
         BusyWhileWorking, Working, ChangesAreWanted, Quiet, Clean, IdleInv
<1>5. IdleInv'
  BY DEF SetBusy, WantRender, ResumeIfIdle, Commit, flags, surface, jobs, TypeOK, LocksHeld,
         BusyWhileWorking, Working, ChangesAreWanted, Quiet, Clean, IdleInv
<1>6. CallbackInv'
  BY DEF SetBusy, WantRender, ResumeIfIdle, Commit, flags, surface, jobs, TypeOK, LocksHeld,
         BusyWhileWorking, Working, ChangesAreWanted, Quiet, Clean, IdleInv, CallbackInv
<1> QED
  BY <1>1, <1>2, <1>3, <1>4, <1>5, <1>6

LEMMA WindowUpdateKeeps == LoopInv /\ WindowUpdate => LoopInv'
<1> SUFFICES ASSUME LoopInv, WindowUpdate PROVE LoopInv'
  OBVIOUS
<1> USE DEF LoopInv
<1>1. TypeOK'
  BY DEF WindowUpdate, surface, locks, jobs, TypeOK
<1>2. LocksHeld'
  BY DEF WindowUpdate, surface, locks, jobs, TypeOK, LocksHeld
<1>3. BusyWhileWorking'
  BY DEF WindowUpdate, surface, locks, jobs, TypeOK, LocksHeld, BusyWhileWorking, Working
<1>4. ChangesAreWanted'
  BY DEF WindowUpdate, surface, locks, jobs, TypeOK, LocksHeld, BusyWhileWorking, Working,
         ChangesAreWanted, Quiet, Clean, IdleInv
<1>5. IdleInv'
  BY DEF WindowUpdate, surface, locks, jobs, TypeOK, LocksHeld, BusyWhileWorking, Working,
         ChangesAreWanted, Quiet, Clean, IdleInv
<1>6. CallbackInv'
  BY DEF WindowUpdate, surface, locks, jobs, TypeOK, LocksHeld, BusyWhileWorking, Working,
         ChangesAreWanted, Quiet, Clean, IdleInv, CallbackInv
<1> QED
  BY <1>1, <1>2, <1>3, <1>4, <1>5, <1>6

LEMMA LockViewKeeps == LoopInv /\ LockView => LoopInv'
BY DEF LockView, flags, screen, surface, jobs, LoopInv, TypeOK, LocksHeld, BusyWhileWorking,
       Working, ChangesAreWanted, Quiet, Clean, IdleInv, CallbackInv

LEMMA UpdateKeeps == LoopInv /\ Update => LoopInv'
<1> SUFFICES ASSUME LoopInv, Update PROVE LoopInv'
  OBVIOUS
<1> USE DEF LoopInv
<1>1. TypeOK'
  <2>1. pendingCb' \in 0 .. 1 /\ sentCb' \in 0 .. 1
    BY DEF Update, WantRender, ResumeIfIdle, Commit, surface, TypeOK, CallbackInv
  <2> QED
    BY <2>1 DEF Update, WantRender, ResumeIfIdle, Commit, screen, surface, locks, jobs,
                TypeOK
<1>2. LocksHeld'
  BY DEF Update, WantRender, ResumeIfIdle, Commit, screen, surface, locks, jobs, TypeOK,
         LocksHeld
<1>3. BusyWhileWorking'
  BY DEF Update, WantRender, ResumeIfIdle, Commit, screen, surface, locks, jobs, TypeOK,
         LocksHeld, BusyWhileWorking, Working
<1>4. ChangesAreWanted'
  BY DEF Update, WantRender, ResumeIfIdle, Commit, screen, surface, locks, jobs, TypeOK,
         LocksHeld, BusyWhileWorking, Working, ChangesAreWanted, Quiet, Clean, IdleInv
<1>5. IdleInv'
  BY DEF Update, WantRender, ResumeIfIdle, Commit, screen, surface, locks, jobs, TypeOK,
         LocksHeld, BusyWhileWorking, Working, ChangesAreWanted, Quiet, Clean, IdleInv
<1>6. CallbackInv'
  BY DEF Update, WantRender, ResumeIfIdle, Commit, screen, surface, locks, jobs, TypeOK,
         LocksHeld, BusyWhileWorking, Working, ChangesAreWanted, Quiet, Clean, IdleInv,
         CallbackInv
<1> QED
  BY <1>1, <1>2, <1>3, <1>4, <1>5, <1>6

LEMMA NothingToDrawKeeps == LoopInv /\ NothingToDraw => LoopInv'
BY DEF NothingToDraw, flags, screen, surface, jobs, LoopInv, TypeOK, LocksHeld,
       BusyWhileWorking, Working, ChangesAreWanted, Quiet, Clean, IdleInv, CallbackInv

LEMMA StartDrawingKeeps == LoopInv /\ StartDrawing => LoopInv'
<1> SUFFICES ASSUME LoopInv, StartDrawing PROVE LoopInv'
  OBVIOUS
<1> USE DEF LoopInv
<1>1. TypeOK'
  BY DEF StartDrawing, screen, surface, locks, jobs, TypeOK
<1>2. LocksHeld'
  BY DEF StartDrawing, screen, surface, locks, jobs, TypeOK, LocksHeld
<1>3. BusyWhileWorking'
  BY DEF StartDrawing, screen, surface, locks, jobs, TypeOK, LocksHeld, BusyWhileWorking,
         Working
<1>4. ChangesAreWanted'
  BY DEF StartDrawing, screen, surface, locks, jobs, TypeOK, LocksHeld, BusyWhileWorking,
         Working, ChangesAreWanted, Quiet, Clean, IdleInv
<1>5. IdleInv'
  BY DEF StartDrawing, screen, surface, locks, jobs, TypeOK, LocksHeld, BusyWhileWorking,
         Working, ChangesAreWanted, Quiet, Clean, IdleInv
<1>6. CallbackInv'
  BY DEF StartDrawing, screen, surface, locks, jobs, TypeOK, LocksHeld, BusyWhileWorking,
         Working, ChangesAreWanted, Quiet, Clean, IdleInv, CallbackInv
<1> QED
  BY <1>1, <1>2, <1>3, <1>4, <1>5, <1>6

LEMMA DrawKeeps == LoopInv /\ Draw => LoopInv'
<1> SUFFICES ASSUME LoopInv, Draw PROVE LoopInv'
  OBVIOUS
<1> USE DEF LoopInv
<1>1. TypeOK'
  BY DEF Draw, flags, surface, locks, jobs, TypeOK
<1>2. LocksHeld'
  BY DEF Draw, flags, surface, locks, jobs, TypeOK, LocksHeld
<1>3. BusyWhileWorking'
  BY DEF Draw, flags, surface, locks, jobs, TypeOK, LocksHeld, BusyWhileWorking, Working
<1>4. ChangesAreWanted'
  BY DEF Draw, flags, surface, locks, jobs, TypeOK, LocksHeld, BusyWhileWorking, Working,
         ChangesAreWanted, Quiet, Clean, IdleInv
<1>5. IdleInv'
  BY DEF Draw, flags, surface, locks, jobs, TypeOK, LocksHeld, BusyWhileWorking, Working,
         ChangesAreWanted, Quiet, Clean, IdleInv
<1>6. CallbackInv'
  BY DEF Draw, flags, surface, locks, jobs, TypeOK, LocksHeld, BusyWhileWorking, Working,
         ChangesAreWanted, Quiet, Clean, IdleInv, CallbackInv
<1> QED
  BY <1>1, <1>2, <1>3, <1>4, <1>5, <1>6

LEMMA EndFrameKeeps == LoopInv /\ EndFrame => LoopInv'
BY DEF EndFrame, Commit, flags, screen, jobs, LoopInv, TypeOK, LocksHeld, BusyWhileWorking,
       Working, ChangesAreWanted, Quiet, Clean, IdleInv, CallbackInv

LEMMA ReturnKeeps == LoopInv /\ Return => LoopInv'
<1> SUFFICES ASSUME LoopInv, Return PROVE LoopInv'
  OBVIOUS
<1> USE DEF LoopInv
<1>1. TypeOK'
  <2>1. pendingCb' \in 0 .. 1 /\ sentCb' \in 0 .. 1
    BY DEF Return, Commit, surface, TypeOK, CallbackInv
  <2> QED
    BY <2>1 DEF Return, Commit, screen, surface, locks, jobs, TypeOK
<1>2. LocksHeld'
  BY DEF Return, Commit, screen, surface, locks, jobs, TypeOK, LocksHeld
<1>3. BusyWhileWorking'
  BY DEF Return, Commit, screen, surface, locks, jobs, TypeOK, LocksHeld, BusyWhileWorking,
         Working
<1>4. ChangesAreWanted'
  BY DEF Return, Commit, screen, surface, locks, jobs, TypeOK, LocksHeld, BusyWhileWorking,
         Working, ChangesAreWanted, Quiet, Clean, IdleInv
<1>5. IdleInv'
  BY DEF Return, Commit, screen, surface, locks, jobs, TypeOK, LocksHeld, BusyWhileWorking,
         Working, ChangesAreWanted, Quiet, Clean, IdleInv
<1>6. CallbackInv'
  BY DEF Return, Commit, screen, surface, locks, jobs, TypeOK, LocksHeld, BusyWhileWorking,
         Working, ChangesAreWanted, Quiet, Clean, IdleInv, CallbackInv
<1> QED
  BY <1>1, <1>2, <1>3, <1>4, <1>5, <1>6

LEMMA TakeJobKeeps == LoopInv /\ TakeJob => LoopInv'
<1> SUFFICES ASSUME LoopInv, TakeJob PROVE LoopInv'
  OBVIOUS
<1> USE DEF LoopInv
<1>1. TypeOK'
  BY DEF TakeJob, flags, screen, surface, locks, TypeOK
<1>2. LocksHeld'
  BY DEF TakeJob, flags, screen, surface, locks, TypeOK, LocksHeld
<1>3. BusyWhileWorking'
  BY DEF TakeJob, flags, screen, surface, locks, TypeOK, LocksHeld, BusyWhileWorking,
         Working
<1>4. ChangesAreWanted'
  BY DEF TakeJob, flags, screen, surface, locks, TypeOK, LocksHeld, BusyWhileWorking,
         Working, ChangesAreWanted, Quiet, Clean, IdleInv
<1>5. IdleInv'
  BY DEF TakeJob, flags, screen, surface, locks, TypeOK, LocksHeld, BusyWhileWorking,
         Working, ChangesAreWanted, Quiet, Clean, IdleInv
<1>6. CallbackInv'
  BY DEF TakeJob, flags, screen, surface, locks, TypeOK, LocksHeld, BusyWhileWorking,
         Working, ChangesAreWanted, Quiet, Clean, IdleInv, CallbackInv
<1> QED
  BY <1>1, <1>2, <1>3, <1>4, <1>5, <1>6

LEMMA LoadedKeeps == LoopInv /\ Loaded => LoopInv'
BY DEF Loaded, flags, screen, surface, locks, LoopInv, TypeOK, LocksHeld, BusyWhileWorking,
       Working, ChangesAreWanted, Quiet, Clean, IdleInv, CallbackInv

LEMMA SetBitmapKeeps == LoopInv /\ SetBitmap => LoopInv'
BY DEF SetBitmap, surface, locks, LoopInv, TypeOK, LocksHeld, BusyWhileWorking, Working,
       ChangesAreWanted, Quiet, Clean, IdleInv, CallbackInv

LEMMA EnableHdrKeeps == LoopInv /\ EnableHdr => LoopInv'
<1> SUFFICES ASSUME LoopInv, EnableHdr PROVE LoopInv'
  OBVIOUS
<1> USE DEF LoopInv
<1>1. TypeOK'
  BY DEF EnableHdr, flags, surface, locks, TypeOK
<1>2. LocksHeld'
  BY DEF EnableHdr, flags, surface, locks, TypeOK, LocksHeld
<1>3. BusyWhileWorking'
  BY DEF EnableHdr, flags, surface, locks, TypeOK, LocksHeld, BusyWhileWorking, Working
<1>4. ChangesAreWanted'
  BY DEF EnableHdr, flags, surface, locks, TypeOK, LocksHeld, BusyWhileWorking, Working,
         ChangesAreWanted, Quiet, Clean, IdleInv
<1>5. IdleInv'
  BY DEF EnableHdr, flags, surface, locks, TypeOK, LocksHeld, BusyWhileWorking, Working,
         ChangesAreWanted, Quiet, Clean, IdleInv
<1>6. CallbackInv'
  BY DEF EnableHdr, flags, surface, locks, TypeOK, LocksHeld, BusyWhileWorking, Working,
         ChangesAreWanted, Quiet, Clean, IdleInv, CallbackInv
<1> QED
  BY <1>1, <1>2, <1>3, <1>4, <1>5, <1>6

LEMMA ProviderResumeKeeps == LoopInv /\ ProviderResume => LoopInv'
<1> SUFFICES ASSUME LoopInv, ProviderResume PROVE LoopInv'
  OBVIOUS
<1> USE DEF LoopInv
<1>1. TypeOK'
  BY DEF ProviderResume, screen, surface, locks, TypeOK
<1>2. LocksHeld'
  BY DEF ProviderResume, screen, surface, locks, TypeOK, LocksHeld
<1>3. BusyWhileWorking'
  BY DEF ProviderResume, screen, surface, locks, TypeOK, LocksHeld, BusyWhileWorking,
         Working
<1>4. ChangesAreWanted'
  BY DEF ProviderResume, screen, surface, locks, TypeOK, LocksHeld, BusyWhileWorking,
         Working, ChangesAreWanted, Quiet, Clean, IdleInv
<1>5. IdleInv'
  BY DEF ProviderResume, screen, surface, locks, TypeOK, LocksHeld, BusyWhileWorking,
         Working, ChangesAreWanted, Quiet, Clean, IdleInv
<1>6. CallbackInv'
  BY DEF ProviderResume, screen, surface, locks, TypeOK, LocksHeld, BusyWhileWorking,
         Working, ChangesAreWanted, Quiet, Clean, IdleInv, CallbackInv
<1> QED
  BY <1>1, <1>2, <1>3, <1>4, <1>5, <1>6

LEMMA ProviderCommitKeeps == LoopInv /\ ProviderCommit => LoopInv'
BY DEF ProviderCommit, Commit, flags, screen, locks, LoopInv, TypeOK, LocksHeld,
       BusyWhileWorking, Working, ChangesAreWanted, Quiet, Clean, IdleInv, CallbackInv

LEMMA HandlerLockKeeps == LoopInv /\ HandlerLock => LoopInv'
BY DEF HandlerLock, screen, surface, LoopInv, TypeOK, LocksHeld, BusyWhileWorking, Working,
       ChangesAreWanted, Quiet, Clean, IdleInv, CallbackInv

LEMMA HandlerLockFailedKeeps == LoopInv /\ HandlerLockFailed => LoopInv'
BY DEF HandlerLockFailed, flags, screen, surface, LoopInv, TypeOK, LocksHeld,
       BusyWhileWorking, Working, ChangesAreWanted, Quiet, Clean, IdleInv, CallbackInv

LEMMA JobEndedKeeps == LoopInv /\ JobEnded => LoopInv'
<1> SUFFICES ASSUME LoopInv, JobEnded PROVE LoopInv'
  OBVIOUS
<1> USE DEF LoopInv
<1>1. TypeOK'
  BY DEF JobEnded, surface, locks, TypeOK
<1>2. LocksHeld'
  BY DEF JobEnded, surface, locks, TypeOK, LocksHeld
<1>3. BusyWhileWorking'
  BY DEF JobEnded, surface, locks, TypeOK, LocksHeld, BusyWhileWorking, Working
<1>4. ChangesAreWanted'
  BY DEF JobEnded, surface, locks, TypeOK, LocksHeld, BusyWhileWorking, Working,
         ChangesAreWanted, Quiet, Clean, IdleInv
<1>5. IdleInv'
  BY DEF JobEnded, surface, locks, TypeOK, LocksHeld, BusyWhileWorking, Working,
         ChangesAreWanted, Quiet, Clean, IdleInv
<1>6. CallbackInv'
  BY DEF JobEnded, surface, locks, TypeOK, LocksHeld, BusyWhileWorking, Working,
         ChangesAreWanted, Quiet, Clean, IdleInv, CallbackInv
<1> QED
  BY <1>1, <1>2, <1>3, <1>4, <1>5, <1>6

LEMMA HandlerUnlockKeeps == LoopInv /\ HandlerUnlock => LoopInv'
BY DEF HandlerUnlock, flags, screen, surface, LoopInv, TypeOK, LocksHeld, BusyWhileWorking,
       Working, ChangesAreWanted, Quiet, Clean, IdleInv, CallbackInv

LEMMA LoopKeeps == LoopInv /\ [Next]_vars => LoopInv'
<1> SUFFICES ASSUME LoopInv, [Next]_vars PROVE LoopInv'
  OBVIOUS
<1>1. CASE Event
  BY <1>1, FrameDoneKeeps, ConfigureBusyKeeps, ConfigureIdleKeeps, ScaleChangeKeeps,
     ChangeViewKeeps, LeftButtonKeeps, RightButtonKeeps, LoadImageKeeps DEF Event
<1>2. CASE MainStep
  BY <1>2, SetBusyKeeps, WindowUpdateKeeps, LockViewKeeps, UpdateKeeps, NothingToDrawKeeps,
     StartDrawingKeeps, DrawKeeps, EndFrameKeeps, ReturnKeeps DEF MainStep
<1>3. CASE ProviderStep
  BY <1>3, TakeJobKeeps, LoadedKeeps, SetBitmapKeeps, EnableHdrKeeps, ProviderResumeKeeps,
     ProviderCommitKeeps, HandlerLockKeeps, HandlerLockFailedKeeps, JobEndedKeeps,
     HandlerUnlockKeeps DEF ProviderStep
<1>4. CASE UNCHANGED vars
  BY <1>4 DEF vars, flags, screen, surface, locks, jobs,
            LoopInv, TypeOK, LocksHeld, BusyWhileWorking, Working, ChangesAreWanted, Quiet, Clean, IdleInv, CallbackInv
<1> QED
  BY <1>1, <1>2, <1>3, <1>4 DEF Next

LEMMA LoopAlways == Spec => []LoopInv
BY LoopStarts, LoopKeeps, PTL DEF Spec

\* TypeOK of the render loop: at most one callback is requested or under way.
THEOREM RenderLoopTypeCorrect == Spec => []TypeOK
<1>1. LoopInv => TypeOK
  BY DEF LoopInv
<1> QED
  BY <1>1, LoopAlways, PTL

\* OneFrameCallback: whatever the provider's thread does between clearing m_idle
\* and its commit, there is one frame callback, and InvokeRender's assertion holds.
THEOREM CallbackIsAlone == Spec => []OneFrameCallback
<1>1. LoopInv => OneFrameCallback
  BY DEF LoopInv, CallbackInv, OneFrameCallback
<1> QED
  BY <1>1, LoopAlways, PTL

\* IdleIsUpToDate: an idle window has nothing left to show.
THEOREM IdleShowsAll == Spec => []IdleIsUpToDate
<1>1. LoopInv => IdleIsUpToDate
  BY DEF LoopInv, IdleInv, Quiet, Clean, TypeOK, IdleIsUpToDate
<1> QED
  BY <1>1, LoopAlways, PTL
=============================================================================

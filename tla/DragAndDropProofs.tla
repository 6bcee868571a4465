------------------------- MODULE DragAndDropProofs -------------------------
(***************************************************************************)
(* However many drags enter the window, and however their handlers are     *)
(* nested: offers are finished once, descriptors are closed by the one who *)
(* reads from them, and the type that is accepted was offered.             *)
(***************************************************************************)
EXTENDS DragAndDrop, FiniteSetTheorems, TLAPS

EventTypes == {"data_offer", "enter", "leave", "drop", "done"}

\* The type invariant, but for what bounds the queue of events.
TypeInv ==
    /\ offers \in 0 .. MaxOffers
    /\ mimes \in [Offers -> SUBSET MimeTypes]
    /\ events \in Seq([type : EventTypes, n : Nat])
    /\ m_nextOffer \in Offers \cup {None} /\ m_dndOffer \in Offers \cup {None}
    /\ m_dndMime \in MimeTypes \cup {"none"}
    /\ m_pendingDnd \in [Fds -> Offers \cup {None}]
    /\ alive \subseteq Offers
    /\ stack \in Seq(Handlers)
    /\ open \subseteq Fds /\ jobs \subseteq Fds /\ provider \in Fds \cup {None}
    /\ closing \in [{"main", "provider"} -> Fds \cup {None}]
    /\ dropped \subseteq Offers
    /\ finished \in [Offers -> Nat]
    /\ reentered \in BOOLEAN

\* An offer is announced right before the drag that brings it enters, and all
\* that is announced is newer than the offers of known.
Announced(q, next, known, last) ==
    \A i \in DOMAIN q :
        /\ q[i].type \in {"data_offer", "enter"} => q[i].n \in 1 .. last
        /\ q[i].type = "enter" =>
             \/ i = 1 /\ next = q[i].n
             \/ i # 1 /\ q[i - 1].type = "data_offer" /\ q[i - 1].n = q[i].n
        /\ q[i].type = "data_offer" =>
             /\ \A o \in known : o < q[i].n
             /\ \A j \in DOMAIN q : q[j].type = "data_offer" /\ j > i => q[i].n < q[j].n

Known == dropped \cup {m_nextOffer, m_dndOffer}

EventsInv == Announced(events, m_nextOffer, Known, offers)

\* The offers the seat holds exist, and have not been dropped.
OffersInv ==
    /\ \A o \in Known : o <= offers
    /\ \A i \in DOMAIN stack : stack[i].in \in {"Drag", "Drop"} => stack[i].offer \in 1 .. offers
    /\ \A o \in {m_nextOffer, m_dndOffer} : o # None => o \in alive /\ o \notin dropped
    /\ m_nextOffer = m_dndOffer => m_dndOffer = None
    /\ m_dndMime # "none" => m_dndOffer # None

\* An open descriptor belongs to one handler, one job, or a thread that is about
\* to close it.
FdsInv ==
    /\ \A i, j \in DOMAIN stack : stack[i].fd = stack[j].fd => i = j
    /\ \A i \in DOMAIN stack :
          /\ stack[i].fd \in open /\ stack[i].fd \notin jobs /\ stack[i].fd # provider
          /\ stack[i].fd # closing["main"] /\ stack[i].fd # closing["provider"]
    /\ jobs \subseteq open /\ provider \notin jobs /\ closing["main"] \notin jobs /\ closing["provider"] \notin jobs
    /\ provider # None => provider \in open /\ provider # closing["main"] /\ closing["provider"] = None
    /\ closing["main"] = closing["provider"] => closing["main"] = None
    /\ \A t \in {"main", "provider"} : closing[t] # None => closing[t] \in open

\* What waits for the end of its drop has been dropped and not been finished,
\* and somebody reads from its descriptor.
PendingInv ==
    \A d \in Fds : m_pendingDnd[d] # None =>
        /\ \/ d \in jobs \/ d = provider
           \/ \E i \in DOMAIN stack : stack[i].in \in {"Load", "Finish"} /\ stack[i].fd = d
        /\ m_pendingDnd[d] \in dropped /\ finished[m_pendingDnd[d]] = 0
        /\ \A e \in Fds : m_pendingDnd[e] = m_pendingDnd[d] => e = d
        /\ \A i \in DOMAIN stack : stack[i].in = "Drop" => stack[i].offer # m_pendingDnd[d]

\* So has what is still in a handler of a drop.
DropsInv ==
    \A i \in DOMAIN stack : stack[i].in = "Drop" =>
        /\ stack[i].offer \in dropped /\ finished[stack[i].offer] = 0
        /\ \A j \in DOMAIN stack : stack[j].in = "Drop" /\ stack[j].offer = stack[i].offer => i = j

\* If no drag entered while Drag was waiting, Drag is about the current offer.
AcceptInv ==
    ~reentered =>
        /\ m_dndMime # "none" => m_dndMime \in mimes[m_dndOffer]
        /\ \A i \in DOMAIN stack : stack[i].in = "Drag" =>
              /\ m_dndOffer = None \/ m_dndOffer = stack[i].offer
              /\ "text/uri-list" \in mimes[stack[i].offer]

Inv == TypeInv /\ EventsInv /\ OffersInv /\ FdsInv /\ PendingInv /\ DropsInv /\ FinishedOnce /\ AcceptInv

-----------------------------------------------------------------------------
(* Sequences.                                                              *)

LEMMA TailFacts ==
    ASSUME NEW S, NEW q \in Seq(S), q # <<>>
    PROVE  /\ Tail(q) \in Seq(S) /\ Head(q) = q[1] /\ Head(q) \in S
           /\ Len(q) \in Nat \ {0} /\ DOMAIN q = 1 .. Len(q)
           /\ Len(Tail(q)) = Len(q) - 1 /\ DOMAIN Tail(q) = 1 .. Len(q) - 1
           /\ \A i \in 1 .. Len(q) - 1 : Tail(q)[i] = q[i + 1]
OBVIOUS

LEMMA AppendFacts ==
    ASSUME NEW S, NEW q \in Seq(S), NEW e \in S
    PROVE  /\ Append(q, e) \in Seq(S)
           /\ Len(q) \in Nat /\ DOMAIN q = 1 .. Len(q)
           /\ Len(Append(q, e)) = Len(q) + 1 /\ DOMAIN Append(q, e) = 1 .. Len(q) + 1
           /\ \A i \in 1 .. Len(q) : Append(q, e)[i] = q[i]
           /\ Append(q, e)[Len(q) + 1] = e
OBVIOUS

LEMMA FrontFacts ==
    ASSUME NEW S, NEW q \in Seq(S), q # <<>>
    PROVE  /\ Front(q) \in Seq(S) /\ Last(q) = q[Len(q)] /\ Last(q) \in S
           /\ Len(q) \in Nat \ {0} /\ DOMAIN q = 1 .. Len(q) /\ Len(q) \in DOMAIN q
           /\ Len(Front(q)) = Len(q) - 1 /\ DOMAIN Front(q) = 1 .. Len(q) - 1
           /\ \A i \in 1 .. Len(q) - 1 : Front(q)[i] = q[i] /\ i \in DOMAIN q /\ i # Len(q)
<1>1. Len(q) \in Nat \ {0} /\ DOMAIN q = 1 .. Len(q)
  OBVIOUS
<1>2. Last(q) = q[Len(q)] /\ q[Len(q)] \in S /\ Len(q) \in DOMAIN q
  BY <1>1 DEF Last
<1>3. \A i \in 1 .. Len(q) - 1 : i \in 1 .. Len(q) /\ i # Len(q)
  <2>1. \A n \in Nat : \A i \in 1 .. n - 1 : i \in 1 .. n /\ i # n
    OBVIOUS
  <2> QED
    BY <1>1, <2>1
<1>4. Len(q) - 1 \in Nat
  BY <1>1
<1>5. \A i \in 1 .. Len(q) : q[i] \in S
  BY <1>1
<1> DEFINE f == SubSeq(q, 1, Len(q) - 1)
<1>6. /\ Front(q) = f /\ DOMAIN f = 1 .. Len(q) - 1 /\ Len(f) = Len(q) - 1
      /\ \A i \in 1 .. Len(q) - 1 : f[i] = q[i]
  BY <1>1, <1>4 DEF Front
<1>7. f \in Seq(S)
  <2>1. f = [i \in 1 .. Len(q) - 1 |-> f[i]]
    OBVIOUS
  <2> HIDE DEF f
  <2> QED
    BY <1>3, <1>4, <1>5, <1>6, <2>1
<1> HIDE DEF f
<1> QED
  BY <1>1, <1>2, <1>3, <1>6, <1>7

LEMMA ConcatFacts ==
    ASSUME NEW S, NEW p \in Seq(S), NEW q \in Seq(S)
    PROVE  /\ p \o q \in Seq(S)
           /\ Len(p) \in Nat /\ Len(q) \in Nat /\ DOMAIN p = 1 .. Len(p) /\ DOMAIN q = 1 .. Len(q)
           /\ DOMAIN (p \o q) = 1 .. Len(p) + Len(q)
           /\ \A i \in 1 .. Len(p) : (p \o q)[i] = p[i]
           /\ \A i \in Len(p) + 1 .. Len(p) + Len(q) : (p \o q)[i] = q[i - Len(p)]
OBVIOUS

\* SetToSeq lists a finite set, every element once.
LEMMA SetToSeqFacts ==
    ASSUME NEW s, IsFiniteSet(s)
    PROVE  /\ SetToSeq(s) \in Seq(s)
           /\ \A i, j \in DOMAIN SetToSeq(s) : SetToSeq(s)[i] = SetToSeq(s)[j] => i = j
           /\ \A d \in s : \E i \in DOMAIN SetToSeq(s) : SetToSeq(s)[i] = d
<1> DEFINE n == Cardinality(s)
           f == SetToSeq(s)
<1>1. n \in Nat /\ ExistsBijection(1 .. n, s)
  BY FS_CardinalityType
<1>2. f \in [1 .. n -> s] /\ IsInjective(f)
  <2>1. \E g \in [1 .. n -> s] : IsInjective(g)
    BY <1>1 DEF ExistsBijection, Bijection, Injection
  <2> QED
    BY <2>1 DEF SetToSeq
<1>3. f \in Surjection(1 .. n, s)
  <2>1. f \in Injection(1 .. n, s)
    BY <1>2 DEF Injection
  <2>2. Cardinality(1 .. n) = n
    BY <1>1, FS_Interval
  <2> HIDE DEF f
  <2> QED
    BY <2>1, <2>2, FS_Injection
<1> HIDE DEF n, f
<1>4. f \in Seq(s) /\ DOMAIN f = 1 .. n
  BY <1>1, <1>2
<1>5. \A i, j \in DOMAIN f : f[i] = f[j] => i = j
  BY <1>2 DEF IsInjective
<1>6. \A d \in s : \E i \in DOMAIN f : f[i] = d
  BY <1>3, <1>4 DEF Surjection
<1> QED
  BY <1>4, <1>5, <1>6 DEF f

\* The handlers of FinishDnd for a set of descriptors.
LEMMA FinishingFacts ==
    ASSUME NEW s \in SUBSET Fds
    PROVE  /\ Finishing(s) \in Seq(Handlers)
           /\ \A i \in DOMAIN Finishing(s) : Finishing(s)[i].in = "Finish" /\ Finishing(s)[i].fd \in s
           /\ \A i, j \in DOMAIN Finishing(s) : Finishing(s)[i].fd = Finishing(s)[j].fd => i = j
           /\ \A d \in s : \E i \in DOMAIN Finishing(s) : Finishing(s)[i].fd = d
<1>1. IsFiniteSet(s)
  <2>1. IsFiniteSet(Fds)
    BY FS_Interval, MaxOffersAssumption DEF Fds
  <2> QED
    BY <2>1, FS_Subset
<1> DEFINE f == SetToSeq(s)
<1>2. /\ f \in Seq(s)
      /\ \A i, j \in DOMAIN f : f[i] = f[j] => i = j
      /\ \A d \in s : \E i \in DOMAIN f : f[i] = d
  BY <1>1, SetToSeqFacts
<1>3. Finishing(s) = [i \in DOMAIN f |-> Handler("Finish", f[i])]
  BY DEF Finishing
<1> HIDE DEF f
<1>4. DOMAIN f = 1 .. Len(f) /\ Len(f) \in Nat /\ \A i \in DOMAIN f : f[i] \in s
  BY <1>2
<1>5. \A d \in Fds : /\ Handler("Finish", d) \in Handlers
                     /\ Handler("Finish", d).in = "Finish" /\ Handler("Finish", d).fd = d
  BY DEF Handler, Handlers
<1>6. Finishing(s) \in Seq(Handlers)
  <2>1. \A i \in 1 .. Len(f) : Handler("Finish", f[i]) \in Handlers
    BY <1>4, <1>5
  <2>2. Finishing(s) = [i \in 1 .. Len(f) |-> Handler("Finish", f[i])]
    BY <1>3, <1>4
  <2> QED
    BY <1>4, <2>1, <2>2
<1>7. \A i \in DOMAIN f : Finishing(s)[i].in = "Finish" /\ Finishing(s)[i].fd = f[i] /\ f[i] \in s
  BY <1>3, <1>4, <1>5
<1>8. DOMAIN Finishing(s) = DOMAIN f
  BY <1>3
<1> QED
  BY <1>2, <1>6, <1>7, <1>8

\* A descriptor that is free.
LEMMA NewFdIsFree ==
    ASSUME open \subseteq Fds, open # Fds
    PROVE  NewFd \in Fds /\ NewFd \notin open
<1> DEFINE T == Fds \ open
           R == {ss \in Nat \X Nat : ss[1] < ss[2]}
<1>1. T \subseteq Nat /\ T # {}
  <2>1. Fds \subseteq Nat
    BY MaxOffersAssumption DEF Fds
  <2> QED
    BY <2>1
<1>2. IsWellFoundedOn(R, Nat)
  <2>1. R = OpToRel(<, Nat)
    BY Zenon DEF OpToRel
  <2> QED
    BY <2>1, NatLessThanWellFounded, Zenon
<1> HIDE DEF T
<1>3. PICK d \in T : \A e \in T : d <= e
  <2> HIDE DEF R
  <2>1. PICK d \in T : \A e \in T : ~(<<e, d>> \in R)
    BY <1>1, <1>2, WFMin
  <2>2. \A e \in T : ~(e < d)
    BY <1>1, <2>1 DEF R
  <2> QED
    BY <1>1, <2>2
<1>4. NewFd \in T
  BY <1>3 DEF NewFd, T
<1> QED
  BY <1>4 DEF T

-----------------------------------------------------------------------------
(* The stack of handlers.                                                  *)

Distinct(q) == \A i, j \in DOMAIN q : q[i].fd = q[j].fd => i = j

\* q is p and handlers above it that read or finish the descriptors of added.
Extends(p, q, added) ==
    /\ q \in Seq(Handlers) /\ Distinct(q)
    /\ \A i \in DOMAIN p : i \in DOMAIN q /\ q[i] = p[i]
    /\ \A i \in DOMAIN q : i \in DOMAIN p \/ (q[i].in \in {"Load", "Finish"} /\ q[i].fd \in added)
    /\ \A d \in added : \E i \in DOMAIN q : q[i].in \in {"Load", "Finish"} /\ q[i].fd = d

LEMMA AddFinishing ==
    ASSUME NEW p \in Seq(Handlers), Distinct(p), NEW s \in SUBSET Fds, \A i \in DOMAIN p : p[i].fd \notin s
    PROVE  Extends(p, p \o Finishing(s), s)
<1> DEFINE f == Finishing(s)
<1>1. /\ f \in Seq(Handlers)
      /\ \A i \in DOMAIN f : f[i].in = "Finish" /\ f[i].fd \in s
      /\ \A i, j \in DOMAIN f : f[i].fd = f[j].fd => i = j
      /\ \A d \in s : \E i \in DOMAIN f : f[i].fd = d
  BY FinishingFacts
<1> HIDE DEF f
<1> DEFINE q == p \o f
<1>2. /\ q \in Seq(Handlers)
      /\ Len(p) \in Nat /\ Len(f) \in Nat /\ DOMAIN p = 1 .. Len(p) /\ DOMAIN f = 1 .. Len(f)
      /\ DOMAIN q = 1 .. Len(p) + Len(f)
      /\ \A i \in 1 .. Len(p) : q[i] = p[i]
      /\ \A i \in Len(p) + 1 .. Len(p) + Len(f) : q[i] = f[i - Len(p)]
  BY <1>1, ConcatFacts
<1> HIDE DEF q
<1>3. ASSUME NEW i \in DOMAIN q
      PROVE  i \in DOMAIN p \/ (i - Len(p) \in DOMAIN f /\ q[i] = f[i - Len(p)])
  <2>1. i \in 1 .. Len(p) \/ (i \in Len(p) + 1 .. Len(p) + Len(f) /\ i - Len(p) \in 1 .. Len(f))
    BY <1>2
  <2> QED
    BY <1>2, <2>1
<1>4. \A i \in DOMAIN p : i \in DOMAIN q /\ q[i] = p[i]
  BY <1>2
<1>5. ASSUME NEW j \in DOMAIN f
      PROVE  j + Len(p) \in DOMAIN q /\ q[j + Len(p)] = f[j]
  <2>1. j + Len(p) \in Len(p) + 1 .. Len(p) + Len(f) /\ (j + Len(p)) - Len(p) = j
    BY <1>2
  <2> QED
    BY <1>2, <2>1
<1>6. \A i \in DOMAIN q : i \in DOMAIN p \/ (q[i].in \in {"Load", "Finish"} /\ q[i].fd \in s)
  BY <1>1, <1>3
<1>7. \A d \in s : \E i \in DOMAIN q : q[i].in \in {"Load", "Finish"} /\ q[i].fd = d
  BY <1>1, <1>5
<1>8. ASSUME NEW i \in DOMAIN q, NEW j \in DOMAIN q, q[i].fd = q[j].fd
      PROVE  i = j
  <2>1. CASE i \in DOMAIN p /\ j \in DOMAIN p
    BY <1>4, <1>8, <2>1 DEF Distinct
  <2>2. CASE i \in DOMAIN p /\ j \notin DOMAIN p
    BY <1>1, <1>3, <1>4, <1>8, <2>2
  <2>3. CASE i \notin DOMAIN p /\ j \in DOMAIN p
    BY <1>1, <1>3, <1>4, <1>8, <2>3
  <2>4. CASE i \notin DOMAIN p /\ j \notin DOMAIN p
    <3>1. i - Len(p) = j - Len(p)
      BY <1>1, <1>3, <1>8, <2>4
    <3> QED
      BY <1>2, <3>1
  <2> QED
    BY <2>1, <2>2, <2>3, <2>4
<1> QED
  BY <1>2, <1>4, <1>6, <1>7, <1>8 DEF Extends, Distinct, q, f

LEMMA AddLoad ==
    ASSUME NEW p \in Seq(Handlers), Distinct(p), NEW d \in Fds, \A i \in DOMAIN p : p[i].fd # d
    PROVE  Extends(p, Append(p, Handler("Load", d)), {d})
<1> DEFINE h == Handler("Load", d)
           q == Append(p, h)
<1>1. h \in Handlers /\ h.in = "Load" /\ h.fd = d
  BY DEF Handler, Handlers
<1> HIDE DEF h
<1>2. /\ q \in Seq(Handlers) /\ Len(p) \in Nat /\ DOMAIN p = 1 .. Len(p) /\ DOMAIN q = 1 .. Len(p) + 1
      /\ \A i \in 1 .. Len(p) : q[i] = p[i]
      /\ q[Len(p) + 1] = h
  BY <1>1, AppendFacts
<1> HIDE DEF q
<1>3. \A i \in DOMAIN q : i \in DOMAIN p \/ i = Len(p) + 1
  BY <1>2
<1>4. Len(p) + 1 \in DOMAIN q /\ \A i \in DOMAIN p : i \in DOMAIN q /\ q[i] = p[i]
  BY <1>2
<1>5. Distinct(q)
  BY <1>1, <1>2, <1>3, <1>4 DEF Distinct
<1> QED
  BY <1>1, <1>2, <1>3, <1>4, <1>5 DEF Extends, q, h

LEMMA ExtendsTwice ==
    ASSUME NEW p, NEW q, NEW r, NEW a, NEW b, Extends(p, q, a), Extends(q, r, b)
    PROVE  Extends(p, r, a \cup b)
<1>1. \A i \in DOMAIN p : i \in DOMAIN r /\ r[i] = p[i]
  BY DEF Extends
<1>2. \A i \in DOMAIN r : i \in DOMAIN p \/ (r[i].in \in {"Load", "Finish"} /\ r[i].fd \in a \cup b)
  BY DEF Extends
<1>3. \A d \in a \cup b : \E i \in DOMAIN r : r[i].in \in {"Load", "Finish"} /\ r[i].fd = d
  BY DEF Extends
<1> QED
  BY <1>1, <1>2, <1>3 DEF Extends

\* The handler on top returns.
LEMMA PopFacts ==
    ASSUME TypeInv, FdsInv, stack # <<>>
    PROVE  /\ Front(stack) \in Seq(Handlers) /\ Distinct(Front(stack))
           /\ Len(stack) \in DOMAIN stack /\ Top = stack[Len(stack)] /\ Top \in Handlers
           /\ Top.fd \in Fds /\ Top.offer \in Offers \cup {None}
           /\ \A i \in DOMAIN Front(stack) :
                 i \in DOMAIN stack /\ i # Len(stack) /\ Front(stack)[i] = stack[i] /\ stack[i].fd # Top.fd
           /\ \A i \in DOMAIN stack : i = Len(stack) \/ i \in DOMAIN Front(stack)
           /\ Top.fd \in open /\ Top.fd \notin jobs /\ Top.fd # provider
           /\ Top.fd # closing["main"] /\ Top.fd # closing["provider"]
<1>1. /\ Front(stack) \in Seq(Handlers) /\ Top = stack[Len(stack)] /\ Top \in Handlers
      /\ Len(stack) \in Nat \ {0} /\ DOMAIN stack = 1 .. Len(stack) /\ Len(stack) \in DOMAIN stack
      /\ DOMAIN Front(stack) = 1 .. Len(stack) - 1
      /\ \A i \in 1 .. Len(stack) - 1 : Front(stack)[i] = stack[i] /\ i \in DOMAIN stack /\ i # Len(stack)
  BY FrontFacts DEF TypeInv, Top
<1>2. \A n \in Nat : \A i \in 1 .. n : i = n \/ i \in 1 .. n - 1
  OBVIOUS
<1>3. \A i \in DOMAIN stack : i = Len(stack) \/ i \in DOMAIN Front(stack)
  BY <1>1, <1>2
<1>4. \A i \in DOMAIN Front(stack) : stack[i].fd # Top.fd
  BY <1>1 DEF FdsInv
<1>5. Distinct(Front(stack))
  BY <1>1 DEF FdsInv, Distinct
<1>6. Top.fd \in Fds /\ Top.offer \in Offers \cup {None}
  <2> DEFINE t == Top
  <2>1. t \in Handlers
    BY <1>1
  <2> HIDE DEF t
  <2>2. t.fd \in Fds /\ t.offer \in Offers \cup {None}
    BY <2>1 DEF Handlers
  <2> QED
    BY <2>2 DEF t
<1>7. /\ Top.fd \in open /\ Top.fd \notin jobs /\ Top.fd # provider
      /\ Top.fd # closing["main"] /\ Top.fd # closing["provider"]
  BY <1>1 DEF FdsInv
<1> QED
  BY <1>1, <1>3, <1>4, <1>5, <1>6, <1>7

\* A roundtrip is answered: the handlers stay.
LEMMA DoneFacts ==
    ASSUME NEW s \in Seq(Handlers), NEW n
    PROVE  LET r == [s EXCEPT ![n].done = TRUE] IN
           /\ r \in Seq(Handlers) /\ DOMAIN r = DOMAIN s
           /\ \A i \in DOMAIN s : /\ r[i].in = s[i].in /\ r[i].offer = s[i].offer
                                  /\ r[i].fd = s[i].fd /\ r[i].mime = s[i].mime
<1> DEFINE r == [s EXCEPT ![n].done = TRUE]
<1>1. ASSUME NEW h \in Handlers
      PROVE  LET g == [h EXCEPT !.done = TRUE] IN
             g \in Handlers /\ g.in = h.in /\ g.offer = h.offer /\ g.fd = h.fd /\ g.mime = h.mime
  BY DEF Handlers
<1>2. /\ Len(s) \in Nat /\ DOMAIN s = 1 .. Len(s) /\ DOMAIN r = DOMAIN s
      /\ \A i \in DOMAIN s : s[i] \in Handlers
  OBVIOUS
<1>3. \A i \in DOMAIN s : r[i] = s[i] \/ r[i] = [s[i] EXCEPT !.done = TRUE]
  OBVIOUS
<1>4. r = [i \in DOMAIN s |-> r[i]]
  OBVIOUS
<1> HIDE DEF r
<1>5. \A i \in DOMAIN s : /\ r[i] \in Handlers /\ r[i].in = s[i].in /\ r[i].offer = s[i].offer
                          /\ r[i].fd = s[i].fd /\ r[i].mime = s[i].mime
  BY <1>1, <1>2, <1>3
<1>6. r \in Seq(Handlers)
  BY <1>2, <1>4, <1>5
<1> QED
  BY <1>2, <1>5, <1>6 DEF r

\* Waiting jobs are cancelled, and the descriptor of a drop is read.
LEMMA FilesFacts ==
    ASSUME TypeInv, FdsInv, DropFiles
    PROVE  \E c \in {{}, jobs} : jobs' = jobs \ c /\ Extends(Front(stack), stack', c \cup {Top.fd})
<1>1. stack # <<>>
  BY DEF DropFiles, Returned
<1> DEFINE d == Top.fd
<1>2. d \in Fds /\ d \notin jobs /\ Front(stack) \in Seq(Handlers) /\ Distinct(Front(stack)) /\ jobs \subseteq Fds
  BY <1>1, PopFacts DEF TypeInv
<1>3. \A i \in DOMAIN Front(stack) : Front(stack)[i].fd # d /\ Front(stack)[i].fd \notin jobs
  BY <1>1, PopFacts DEF FdsInv
<1>4. PICK c \in {{}, jobs} : /\ stack' = Front(stack) \o Finishing(c) \o Finishing({Top.fd})
                              /\ jobs' = jobs \ c
  BY DEF DropFiles
<1> DEFINE q == Front(stack) \o Finishing(c)
<1> HIDE DEF d
<1>5. Extends(Front(stack), q, c)
  BY <1>2, <1>3, AddFinishing
<1> HIDE DEF q
<1>6. q \in Seq(Handlers) /\ Distinct(q)
  BY <1>5 DEF Extends
<1>7. \A i \in DOMAIN q : q[i].fd \notin {d}
  BY <1>2, <1>3, <1>5 DEF Extends
<1>8. Extends(q, q \o Finishing({d}), {d})
  BY <1>2, <1>6, <1>7, AddFinishing
<1>9. Extends(Front(stack), q \o Finishing({d}), c \cup {d})
  BY <1>5, <1>8, ExtendsTwice
<1>10. stack' = q \o Finishing({d})
  BY <1>4 DEF q, d
<1> QED
  BY <1>4, <1>9, <1>10 DEF d

LEMMA ImageFacts ==
    ASSUME TypeInv, FdsInv, DropImage
    PROVE  Extends(Front(stack), stack', jobs \cup {Top.fd})
<1>1. stack # <<>> /\ stack' = Append(Front(stack), Handler("Load", Top.fd)) \o Finishing(jobs)
  BY DEF DropImage, Returned
<1> DEFINE d == Top.fd
<1>2. d \in Fds /\ d \notin jobs /\ Front(stack) \in Seq(Handlers) /\ Distinct(Front(stack)) /\ jobs \subseteq Fds
  BY <1>1, PopFacts DEF TypeInv
<1>3. \A i \in DOMAIN Front(stack) : Front(stack)[i].fd # d /\ Front(stack)[i].fd \notin jobs
  BY <1>1, PopFacts DEF FdsInv
<1> DEFINE q == Append(Front(stack), Handler("Load", d))
<1> HIDE DEF d
<1>4. Extends(Front(stack), q, {d})
  BY <1>2, <1>3, AddLoad
<1> HIDE DEF q
<1>5. q \in Seq(Handlers) /\ Distinct(q)
  BY <1>4 DEF Extends
<1>6. \A i \in DOMAIN q : q[i].fd \notin jobs
  BY <1>2, <1>3, <1>4 DEF Extends
<1>7. Extends(q, q \o Finishing(jobs), jobs)
  BY <1>2, <1>5, <1>6, AddFinishing
<1>8. Extends(Front(stack), q \o Finishing(jobs), {d} \cup jobs)
  BY <1>4, <1>7, ExtendsTwice
<1>9. stack' = q \o Finishing(jobs) /\ {d} \cup jobs = jobs \cup {d}
  BY <1>1 DEF q, d
<1> QED
  BY <1>8, <1>9 DEF d

LEMMA AnotherFacts ==
    ASSUME TypeInv, FdsInv, LoadAnother
    PROVE  Extends(stack, stack', jobs)
<1>1. stack' = stack \o Finishing(jobs)
  BY DEF LoadAnother
<1>2. stack \in Seq(Handlers) /\ Distinct(stack) /\ jobs \subseteq Fds /\ \A i \in DOMAIN stack : stack[i].fd \notin jobs
  BY DEF TypeInv, FdsInv, Distinct
<1> QED
  BY <1>1, <1>2, AddFinishing

-----------------------------------------------------------------------------
(* What is announced.                                                      *)

EventSet == [type : EventTypes, n : Nat]

\* An event that brings no offer is sent.
LEMMA AnnouncedAppend ==
    ASSUME NEW q \in Seq(EventSet), NEW e \in EventSet, e.type \notin {"data_offer", "enter"},
           NEW next, NEW known, NEW last, Announced(q, next, known, last)
    PROVE  Announced(Append(q, e), next, known, last)
<1> DEFINE r == Append(q, e)
<1>1. /\ Len(q) \in Nat /\ DOMAIN q = 1 .. Len(q) /\ DOMAIN r = 1 .. Len(q) + 1
      /\ \A i \in 1 .. Len(q) : r[i] = q[i]
      /\ r[Len(q) + 1] = e
  BY AppendFacts
<1> HIDE DEF r
<1>2. \A i \in DOMAIN r : i = Len(q) + 1 \/ (i \in DOMAIN q /\ r[i] = q[i])
  BY <1>1
<1>3. \A i \in DOMAIN q : i = 1 \/ i - 1 \in DOMAIN q
  BY <1>1
<1>4. \A i \in DOMAIN q : i # 1 => r[i - 1] = q[i - 1]
  BY <1>1, <1>3
<1> QED
  BY <1>1, <1>2, <1>4 DEF Announced, r

\* An event that brings no offer is dispatched; an enter takes the offer over.
LEMMA AnnouncedTail ==
    ASSUME NEW q \in Seq(EventSet), q # <<>>, q[1].type # "data_offer",
           NEW next, NEW next2, NEW known, NEW known2, NEW last \in Nat, Announced(q, next, known, last),
           known2 \subseteq known \cup {None}
    PROVE  Announced(Tail(q), next2, known2, last)
<1> DEFINE r == Tail(q)
<1>1. /\ Len(q) \in Nat \ {0} /\ DOMAIN q = 1 .. Len(q) /\ DOMAIN r = 1 .. Len(q) - 1
      /\ \A i \in 1 .. Len(q) - 1 : r[i] = q[i + 1]
  BY TailFacts
<1> HIDE DEF r
<1>2. \A i \in DOMAIN r : i + 1 \in DOMAIN q /\ r[i] = q[i + 1] /\ i + 1 # 1
  BY <1>1
<1>3. ASSUME NEW i \in DOMAIN r, r[i].type = "enter"
      PROVE  i # 1 /\ r[i - 1].type = "data_offer" /\ r[i - 1].n = r[i].n
  <2>1. q[(i + 1) - 1].type = "data_offer" /\ q[(i + 1) - 1].n = q[i + 1].n
    BY <1>2, <1>3 DEF Announced
  <2>2. (i + 1) - 1 = i /\ i \in Nat
    BY <1>1
  <2>3. i # 1
    BY <2>1, <2>2
  <2>4. r[i - 1] = q[i]
    <3>1. i - 1 \in 1 .. Len(q) - 1 /\ (i - 1) + 1 = i
      BY <1>1, <2>3
    <3> QED
      BY <1>1, <3>1
  <2> QED
    BY <1>2, <2>1, <2>2, <2>3, <2>4
<1>4. ASSUME NEW i \in DOMAIN r, r[i].type = "data_offer"
      PROVE  /\ \A o \in known2 : o < r[i].n
             /\ \A j \in DOMAIN r : r[j].type = "data_offer" /\ j > i => r[i].n < r[j].n
  <2>1. r[i].n \in 1 .. last /\ \A o \in known : o < r[i].n
    BY <1>2, <1>4 DEF Announced
  <2>2. None < r[i].n
    BY <2>1 DEF None
  <2>3. ASSUME NEW j \in DOMAIN r, r[j].type = "data_offer", j > i
        PROVE  r[i].n < r[j].n
    <3>1. j + 1 > i + 1
      BY <1>1, <2>3
    <3> QED
      BY <1>2, <1>4, <2>3, <3>1 DEF Announced
  <2> QED
    BY <2>1, <2>2, <2>3
<1>5. \A i \in DOMAIN r : r[i].type \in {"data_offer", "enter"} => r[i].n \in 1 .. last
  BY <1>2 DEF Announced
<1> QED
  BY <1>3, <1>4, <1>5 DEF Announced, r

\* An offer is dispatched.
LEMMA AnnouncedOffer ==
    ASSUME NEW q \in Seq(EventSet), q # <<>>, q[1].type = "data_offer",
           NEW next, NEW known, NEW known2, NEW last, Announced(q, next, known, last),
           known2 \subseteq known \cup {q[1].n}
    PROVE  Announced(Tail(q), q[1].n, known2, last)
<1> DEFINE r == Tail(q)
<1>1. /\ Len(q) \in Nat \ {0} /\ DOMAIN q = 1 .. Len(q) /\ DOMAIN r = 1 .. Len(q) - 1
      /\ \A i \in 1 .. Len(q) - 1 : r[i] = q[i + 1]
  BY TailFacts
<1> HIDE DEF r
<1>2. \A i \in DOMAIN r : i + 1 \in DOMAIN q /\ r[i] = q[i + 1] /\ i + 1 # 1 /\ i + 1 > 1
  BY <1>1
<1>3. ASSUME NEW i \in DOMAIN r, r[i].type = "enter"
      PROVE  \/ i = 1 /\ q[1].n = r[i].n
             \/ i # 1 /\ r[i - 1].type = "data_offer" /\ r[i - 1].n = r[i].n
  <2>1. q[(i + 1) - 1].type = "data_offer" /\ q[(i + 1) - 1].n = q[i + 1].n
    BY <1>2, <1>3 DEF Announced
  <2>2. (i + 1) - 1 = i /\ i \in Nat
    BY <1>1
  <2>3. i # 1 => r[i - 1] = q[i]
    <3>1. i # 1 => i - 1 \in 1 .. Len(q) - 1 /\ (i - 1) + 1 = i
      BY <1>1
    <3> QED
      BY <1>1, <3>1
  <2> QED
    BY <1>2, <2>1, <2>2, <2>3
<1>4. ASSUME NEW i \in DOMAIN r, r[i].type = "data_offer"
      PROVE  /\ \A o \in known2 : o < r[i].n
             /\ \A j \in DOMAIN r : r[j].type = "data_offer" /\ j > i => r[i].n < r[j].n
  <2>1. \A o \in known : o < r[i].n
    BY <1>2, <1>4 DEF Announced
  <2>2. q[1].n < r[i].n
    BY <1>1, <1>2, <1>4 DEF Announced
  <2>3. ASSUME NEW j \in DOMAIN r, r[j].type = "data_offer", j > i
        PROVE  r[i].n < r[j].n
    <3>1. j + 1 > i + 1
      BY <1>1, <2>3
    <3> QED
      BY <1>2, <1>4, <2>3, <3>1 DEF Announced
  <2> QED
    BY <2>1, <2>2, <2>3
<1>5. \A i \in DOMAIN r : r[i].type \in {"data_offer", "enter"} => r[i].n \in 1 .. last
  BY <1>2 DEF Announced
<1> QED
  BY <1>3, <1>4, <1>5 DEF Announced, r

\* A drag enters: a new offer is announced.
LEMMA AnnouncedEnters ==
    ASSUME NEW q \in Seq(EventSet), NEW next, NEW known, NEW last \in Nat, Announced(q, next, known, last),
           \A o \in known : o <= last, known \subseteq Int,
           NEW a \in EventSet, a.type = "data_offer", a.n = last + 1,
           NEW b \in EventSet, b.type = "enter", b.n = last + 1
    PROVE  Announced(q \o <<a, b>>, next, known, last + 1)
<1> DEFINE r == q \o <<a, b>>
           l == Len(q)
<1>1. /\ l \in Nat /\ DOMAIN q = 1 .. l /\ DOMAIN r = 1 .. l + 2
      /\ \A i \in 1 .. l : r[i] = q[i]
      /\ r[l + 1] = a /\ r[l + 2] = b
  OBVIOUS
<1> HIDE DEF r, l
<1>2. \A i \in DOMAIN r : i = l + 1 \/ i = l + 2 \/ (i \in DOMAIN q /\ r[i] = q[i])
  BY <1>1
<1>3. \A i \in DOMAIN q : i # 1 => r[i - 1] = q[i - 1]
  <2>1. \A i \in 1 .. l : i # 1 => i - 1 \in 1 .. l
    BY <1>1
  <2> QED
    BY <1>1, <2>1
<1>4. \A i \in DOMAIN q : q[i].type \in {"data_offer", "enter"} => q[i].n \in 1 .. last /\ q[i].n \in 1 .. last + 1
  BY DEF Announced
<1>5. last + 1 \in 1 .. last + 1 /\ \A o \in known : o < last + 1
  OBVIOUS
<1>6. ASSUME NEW i \in DOMAIN r, r[i].type = "enter"
      PROVE  \/ i = 1 /\ next = r[i].n
             \/ i # 1 /\ r[i - 1].type = "data_offer" /\ r[i - 1].n = r[i].n
  <2>1. CASE i = l + 2
    <3>1. i # 1 /\ i - 1 = l + 1
      BY <1>1, <2>1
    <3> QED
      BY <1>1, <2>1, <3>1
  <2>2. CASE i \in DOMAIN q /\ r[i] = q[i]
    BY <1>3, <1>6, <2>2 DEF Announced
  <2> QED
    BY <1>1, <1>2, <1>6, <2>1, <2>2
<1>7. ASSUME NEW i \in DOMAIN r, r[i].type = "data_offer"
      PROVE  /\ \A o \in known : o < r[i].n
             /\ \A j \in DOMAIN r : r[j].type = "data_offer" /\ j > i => r[i].n < r[j].n
  <2>1. CASE i = l + 1
    <3>1. ASSUME NEW j \in DOMAIN r, r[j].type = "data_offer", j > i
          PROVE  FALSE
      <4>1. j # l + 1 /\ j \notin DOMAIN q
        BY <1>1, <2>1, <3>1
      <4> QED
        BY <1>1, <1>2, <3>1, <4>1
    <3> QED
      BY <1>1, <1>5, <2>1, <3>1
  <2>2. CASE i \in DOMAIN q /\ r[i] = q[i]
    <3>1. ASSUME NEW j \in DOMAIN r, r[j].type = "data_offer", j > i
          PROVE  r[i].n < r[j].n
      <4>1. CASE j = l + 1
        <5>1. r[i].n \in 1 .. last /\ r[j].n = last + 1
          BY <1>1, <1>4, <1>7, <2>2, <4>1
        <5> QED
          BY <5>1
      <4>2. CASE j \in DOMAIN q /\ r[j] = q[j]
        BY <1>7, <2>2, <3>1, <4>2 DEF Announced
      <4> QED
        BY <1>1, <1>2, <3>1, <4>1, <4>2
    <3> QED
      BY <1>7, <2>2, <3>1 DEF Announced
  <2> QED
    BY <1>1, <1>2, <1>7, <2>1, <2>2
<1>8. \A i \in DOMAIN r : r[i].type \in {"data_offer", "enter"} => r[i].n \in 1 .. last + 1
  BY <1>1, <1>2, <1>4, <1>5
<1> QED
  BY <1>6, <1>7, <1>8 DEF Announced, r

LEMMA EventFacts ==
    ASSUME TypeInv, events # <<>>
    PROVE  /\ events \in Seq(EventSet) /\ Tail(events) \in Seq(EventSet)
           /\ Head(events) = events[1] /\ 1 \in DOMAIN events /\ events[1].n \in Nat
<1>1. events \in Seq(EventSet)
  BY DEF TypeInv, EventSet
<1>2. /\ Tail(events) \in Seq(EventSet) /\ Head(events) = events[1] /\ events[1] \in EventSet
      /\ Len(events) \in Nat \ {0} /\ DOMAIN events = 1 .. Len(events)
  BY <1>1, TailFacts
<1>3. events[1].n \in Nat
  BY <1>2 DEF EventSet
<1> QED
  BY <1>1, <1>2, <1>3

\* When a drag enters the seat has its offer.
LEMMA EnterFacts ==
    ASSUME Inv, DataEnter
    PROVE  /\ events # <<>> /\ events[1].type = "enter"
           /\ m_nextOffer \in Offers /\ m_nextOffer # None /\ m_nextOffer \in 1 .. offers
<1>1. events # <<>> /\ Head(events).type = "enter"
  BY DEF DataEnter
<1>2. events[1].type = "enter" /\ 1 \in DOMAIN events
  BY <1>1, EventFacts DEF Inv
<1>3. m_nextOffer = events[1].n /\ events[1].n \in 1 .. offers
  BY <1>2 DEF Inv, EventsInv, Announced
<1>4. m_nextOffer # None
  BY <1>3 DEF None
<1>5. m_nextOffer \in Offers
  BY <1>3, <1>4 DEF Inv, TypeInv
<1> QED
  BY <1>1, <1>2, <1>3, <1>4, <1>5

Plain(type, n) == [type |-> type, n |-> n]

LEMMA PlainFacts ==
    /\ \A t \in EventTypes : \A n \in Nat : Plain(t, n) \in EventSet /\ Plain(t, n).type = t /\ Plain(t, n).n = n
    /\ {"leave", "drop", "done", "enter", "data_offer"} = EventTypes
BY DEF Plain, EventSet, EventTypes

LEMMA EventsStep ==
    ASSUME Inv, [Next]_vars
    PROVE  EventsInv' /\ events' \in Seq(EventSet)
<1> USE DEF compositorVars, seatVars, providerVars, history
<1>1. events \in Seq(EventSet) /\ offers \in Nat /\ Announced(events, m_nextOffer, Known, offers)
  BY MaxOffersAssumption DEF Inv, TypeInv, EventsInv, EventSet
<1>2. CASE DragEnters
  <2> DEFINE a == Plain("data_offer", offers + 1)
             b == Plain("enter", offers + 1)
  <2>1. /\ events' = events \o <<a, b>> /\ offers' = offers + 1
        /\ UNCHANGED <<m_nextOffer, m_dndOffer, dropped>>
    BY <1>2 DEF DragEnters, Plain
  <2>2. a \in EventSet /\ a.type = "data_offer" /\ a.n = offers + 1 /\ b \in EventSet /\ b.type = "enter" /\ b.n = offers + 1
    <3>1. offers + 1 \in Nat /\ "data_offer" \in EventTypes /\ "enter" \in EventTypes
      BY <1>1 DEF EventTypes
    <3> QED
      BY <3>1, PlainFacts
  <2> HIDE DEF a, b
  <2>3. (\A o \in Known : o <= offers) /\ Known \subseteq Int
    BY MaxOffersAssumption DEF Inv, OffersInv, TypeInv, Known, Offers, None
  <2>4. Announced(events \o <<a, b>>, m_nextOffer, Known, offers + 1)
    BY <1>1, <2>2, <2>3, AnnouncedEnters
  <2>5. events \o <<a, b>> \in Seq(EventSet)
    BY <1>1, <2>2
  <2>6. Known' = Known
    BY <2>1 DEF Known
  <2> QED
    BY <2>1, <2>4, <2>5, <2>6 DEF EventsInv, Announced
<1>3. CASE DragLeaves \/ DragDrops
  <2> DEFINE l == Plain("leave", 0)
             d == Plain("drop", 0)
  <2>1. UNCHANGED <<m_nextOffer, m_dndOffer, dropped, offers>>
    BY <1>3 DEF DragLeaves, DragDrops
  <2>2. l \in EventSet /\ l.type = "leave" /\ d \in EventSet /\ d.type = "drop"
    BY PlainFacts
  <2>3. events' = Append(events, l) \/ events' = Append(events, d) \/ events' = Append(Append(events, d), l)
    <3>1. CASE DragLeaves
      BY <3>1 DEF DragLeaves, Plain
    <3>2. CASE DragDrops
      <4>1. \E after \in {<<>>, <<l>>} : events' = Append(events, d) \o after
        BY <3>2 DEF DragDrops, Plain
      <4> HIDE DEF l, d
      <4>2. Append(events, d) \in Seq(EventSet)
        BY <1>1, <2>2
      <4>3. \A q \in Seq(EventSet) : q \o <<>> = q /\ q \o <<l>> = Append(q, l)
        BY <2>2
      <4> QED
        BY <4>1, <4>2, <4>3
    <3> QED
      BY <1>3, <3>1, <3>2
  <2> HIDE DEF l, d
  <2>4. /\ Append(events, l) \in Seq(EventSet) /\ Append(events, d) \in Seq(EventSet)
        /\ Append(Append(events, d), l) \in Seq(EventSet)
    BY <1>1, <2>2
  <2>5. /\ Announced(Append(events, l), m_nextOffer, Known, offers)
        /\ Announced(Append(events, d), m_nextOffer, Known, offers)
        /\ Announced(Append(Append(events, d), l), m_nextOffer, Known, offers)
    BY <1>1, <2>2, <2>4, AnnouncedAppend
  <2>6. Announced(events', m_nextOffer, Known, offers) /\ events' \in Seq(EventSet)
    BY <2>3, <2>4, <2>5
  <2>7. Known' = Known
    BY <2>1 DEF Known
  <2> QED
    BY <2>1, <2>6, <2>7 DEF EventsInv, Announced
<1>4. CASE DataOffer
  <2>1. /\ events # <<>> /\ events[1].type = "data_offer" /\ events' = Tail(events) /\ m_nextOffer' = events[1].n
        /\ UNCHANGED <<m_dndOffer, dropped, offers>> /\ Tail(events) \in Seq(EventSet)
    BY <1>4, EventFacts DEF DataOffer, Dispatch, Inv
  <2>2. Known' \subseteq Known \cup {events[1].n}
    BY <2>1 DEF Known
  <2>3. Announced(Tail(events), events[1].n, Known', offers)
    BY <1>1, <2>1, <2>2, AnnouncedOffer
  <2> QED
    BY <2>1, <2>3 DEF EventsInv, Announced
<1>5. CASE RoundtripDone \/ DataLeave \/ DataDropForgets \/ DataEnter \/ DataDrop
  <2>1. /\ events # <<>> /\ Head(events).type # "data_offer"
        /\ events' = Tail(events) \/ events' = Append(Tail(events), Plain("done", Len(stack) + 1))
        /\ offers' = offers
    BY <1>5 DEF RoundtripDone, DataLeave, DataDropForgets, DataEnter, AskForFiles, DataDrop, Dispatch, Roundtrip, Plain
  <2>2. Known' \subseteq Known \cup {None}
    BY <1>5 DEF RoundtripDone, DataLeave, DataDropForgets, DataEnter, TakeOffer, DataDrop, Known
  <2>3. events[1].type # "data_offer" /\ Tail(events) \in Seq(EventSet)
    BY <2>1, EventFacts DEF Inv
  <2>4. Announced(Tail(events), m_nextOffer', Known', offers)
    BY <1>1, <2>1, <2>2, <2>3, AnnouncedTail
  <2> DEFINE e == Plain("done", Len(stack) + 1)
  <2>5. e \in EventSet /\ e.type = "done"
    <3>1. Len(stack) + 1 \in Nat
      BY DEF Inv, TypeInv
    <3> QED
      BY <3>1, PlainFacts
  <2> HIDE DEF e
  <2>6. Announced(Append(Tail(events), e), m_nextOffer', Known', offers) /\ Append(Tail(events), e) \in Seq(EventSet)
    <3> DEFINE q == Tail(events)
    <3>1. q \in Seq(EventSet) /\ Announced(q, m_nextOffer', Known', offers)
      BY <2>3, <2>4
    <3> HIDE DEF q
    <3>2. e.type \notin {"data_offer", "enter"}
      BY <2>5
    <3>3. Append(q, e) \in Seq(EventSet)
      BY <2>5, <3>1
    <3>4. Announced(Append(q, e), m_nextOffer', Known', offers)
      BY <2>5, <3>1, <3>2, AnnouncedAppend
    <3> QED
      BY <3>3, <3>4 DEF q
  <2>7. events' = Tail(events) \/ events' = Append(Tail(events), e)
    BY <2>1 DEF e
  <2>8. Announced(events', m_nextOffer', Known', offers) /\ events' \in Seq(EventSet)
    BY <2>3, <2>4, <2>6, <2>7
  <2> QED
    BY <2>1, <2>8 DEF EventsInv, Announced
<1>6. CASE \/ Drag \/ DropFiles \/ DropImage \/ LoadImage \/ LoadAnother \/ FinishOnMain \/ CloseFd("main")
           \/ ProviderStep \/ UNCHANGED vars
  <2>1. UNCHANGED <<events, m_nextOffer, m_dndOffer, dropped, offers>>
    BY <1>6 DEF Drag, DropFiles, DropImage, LoadImage, LoadAnother, FinishOnMain, CloseFd, ProviderStep, ProviderTakes,
                FinishOnProvider, vars
  <2> QED
    BY <1>1, <2>1 DEF EventsInv, Announced, Known
<1> QED
  BY <1>2, <1>3, <1>4, <1>5, <1>6 DEF Next, Compositor, MainStep

-----------------------------------------------------------------------------
(* Types.                                                                  *)

LEMMA FinishFacts ==
    ASSUME NEW s, finished \in [Offers -> Nat], Finish(s)
    PROVE  /\ finished' \in [Offers -> Nat]
           /\ \A o \in Offers : o \in s => finished'[o] = finished[o] + 1
           /\ \A o \in Offers : o \notin s => finished'[o] = finished[o]
BY DEF Finish

LEMMA TypeStep ==
    ASSUME Inv, [Next]_vars
    PROVE  TypeInv'
<1> USE DEF compositorVars, seatVars, providerVars, history
<1>1. events' \in Seq([type : EventTypes, n : Nat])
  BY EventsStep DEF EventSet
<1>2. TypeInv /\ FdsInv
  BY DEF Inv
<1>3. CASE DragEnters
  <2>1. offers + 1 \in Offers /\ offers' \in 0 .. MaxOffers
    BY <1>2, <1>3, MaxOffersAssumption DEF DragEnters, TypeInv, Offers
  <2>2. mimes' \in [Offers -> SUBSET MimeTypes]
    BY <1>2, <1>3, <2>1 DEF DragEnters, TypeInv
  <2>3. UNCHANGED <<seatVars, stack, open, providerVars, closing, history>>
    BY <1>3 DEF DragEnters
  <2> QED
    BY <1>1, <1>2, <2>1, <2>2, <2>3 DEF TypeInv
<1>4. CASE DragLeaves \/ DragDrops \/ UNCHANGED vars
  BY <1>1, <1>2, <1>4 DEF DragLeaves, DragDrops, vars, TypeInv
<1>5. CASE RoundtripDone
  <2>1. stack' \in Seq(Handlers)
    BY <1>2, <1>5, DoneFacts DEF RoundtripDone, TypeInv
  <2> QED
    BY <1>1, <1>2, <1>5, <2>1 DEF RoundtripDone, TypeInv
<1>6. CASE DataOffer
  <2>1. events # <<>> /\ Head(events).type = "data_offer" /\ m_nextOffer' = Head(events).n
    BY <1>6 DEF DataOffer, Dispatch
  <2>2. Head(events) = events[1] /\ 1 \in DOMAIN events
    BY <1>2, <2>1, EventFacts
  <2>3. Head(events).n \in Offers
    <3>1. Head(events).n \in 1 .. offers
      BY <2>1, <2>2 DEF Inv, EventsInv, Announced
    <3> QED
      BY <1>2, <3>1, MaxOffersAssumption DEF TypeInv, Offers
  <2> QED
    BY <1>1, <1>2, <1>6, <2>3 DEF DataOffer, TypeInv
<1>7. CASE DataEnter
  <2>1. m_nextOffer \in Offers
    BY <1>7, EnterFacts
  <2>2. /\ m_nextOffer' = None /\ m_dndOffer' = m_nextOffer /\ alive' \subseteq Offers /\ reentered' \in BOOLEAN
        /\ UNCHANGED <<compositorVars, m_pendingDnd, providerVars, closing, dropped, finished>>
    BY <1>2, <1>7 DEF DataEnter, TakeOffer, TypeInv
  <2>3. stack' \in Seq(Handlers) /\ open' \subseteq Fds /\ m_dndMime' \in MimeTypes \cup {"none"}
    <3>1. CASE m_dndMime' = "none" /\ AskForFiles
      <4> DEFINE h == [in |-> "Drag", offer |-> m_nextOffer, mime |-> "text/uri-list", fd |-> NewFd, done |-> FALSE]
      <4>1. NewFd \in Fds
        BY <1>2, <3>1, NewFdIsFree DEF AskForFiles, TypeInv
      <4>2. h \in Handlers /\ h.fd = NewFd
        BY <2>1, <4>1 DEF Handlers, MimeTypes
      <4>3. stack' = Append(stack, h) /\ open' = open \cup {h.fd}
        BY <3>1 DEF AskForFiles, Roundtrip
      <4> HIDE DEF h
      <4> QED
        BY <1>2, <3>1, <4>1, <4>2, <4>3 DEF TypeInv
    <3>2. CASE m_dndMime' = ImageOrNone(m_nextOffer) /\ UNCHANGED <<stack, open>>
      BY <1>2, <3>2 DEF TypeInv, ImageOrNone, MimeTypes
    <3> QED
      BY <1>7, <3>1, <3>2 DEF DataEnter
  <2> QED
    BY <1>1, <1>2, <2>1, <2>2, <2>3 DEF TypeInv
<1>8. CASE DataLeave
  <2>1. finished' \in [Offers -> Nat]
    BY <1>2, <1>8, FinishFacts DEF DataLeave, TypeInv
  <2> QED
    BY <1>1, <1>2, <1>8, <2>1 DEF DataLeave, TypeInv
<1>9. CASE DataDropForgets
  BY <1>1, <1>2, <1>9 DEF DataDropForgets, TypeInv
<1>10. CASE DataDrop
  <2> DEFINE h == [in |-> "Drop", offer |-> m_dndOffer, mime |-> m_dndMime, fd |-> NewFd, done |-> FALSE]
  <2>1. NewFd \in Fds
    BY <1>2, <1>10, NewFdIsFree DEF DataDrop, TypeInv
  <2>2. h \in Handlers /\ h.fd = NewFd
    BY <1>2, <2>1 DEF Handlers, TypeInv
  <2>3. /\ stack' = Append(stack, h) /\ open' = open \cup {h.fd} /\ dropped' = dropped \cup {m_dndOffer}
        /\ m_dndMime # "none" /\ m_dndMime' = "none" /\ m_dndOffer' = None
        /\ UNCHANGED <<compositorVars, m_nextOffer, m_pendingDnd, alive, providerVars, closing, finished, reentered>>
    BY <1>10 DEF DataDrop, Roundtrip
  <2>4. dropped' \subseteq Offers
    BY <1>2, <2>3 DEF Inv, OffersInv, TypeInv
  <2> HIDE DEF h
  <2>5. stack' \in Seq(Handlers) /\ open' \subseteq Fds
    BY <1>2, <2>1, <2>2, <2>3 DEF TypeInv
  <2> QED
    BY <1>1, <1>2, <2>3, <2>4, <2>5 DEF TypeInv
<1>11. CASE Drag
  <2>1. /\ stack # <<>> /\ stack' = Front(stack) /\ open' = open \ {Top.fd}
        /\ m_dndMime' \in {m_dndMime, "text/uri-list", "image/png", "none"}
        /\ UNCHANGED <<compositorVars, events, m_nextOffer, m_dndOffer, m_pendingDnd, alive, providerVars, closing, history>>
    BY <1>11 DEF Drag, Returned, ImageOrNone
  <2>2. stack' \in Seq(Handlers)
    BY <1>2, <2>1, PopFacts
  <2>3. open' \subseteq Fds /\ m_dndMime' \in MimeTypes \cup {"none"}
    BY <1>2, <2>1 DEF TypeInv, MimeTypes
  <2> QED
    BY <1>1, <1>2, <2>1, <2>2, <2>3 DEF TypeInv
<1>12. CASE DropFiles \/ DropImage
  <2>1. /\ stack # <<>> /\ m_pendingDnd' = [m_pendingDnd EXCEPT ![Top.fd] = Top.offer] /\ jobs' \subseteq jobs
        /\ UNCHANGED <<compositorVars, events, m_nextOffer, m_dndOffer, m_dndMime, alive, open, provider, closing, history>>
    BY <1>12 DEF DropFiles, DropImage, Returned
  <2>2. stack' \in Seq(Handlers)
    BY <1>2, <1>12, FilesFacts, ImageFacts DEF Extends
  <2>3. m_pendingDnd' \in [Fds -> Offers \cup {None}]
    BY <1>2, <2>1, PopFacts DEF TypeInv
  <2> QED
    BY <1>1, <1>2, <2>1, <2>2, <2>3 DEF TypeInv
<1>13. CASE LoadImage
  <2>1. stack # <<>> /\ stack' = Front(stack) /\ jobs' = jobs \cup {Top.fd}
    BY <1>13 DEF LoadImage
  <2>2. stack' \in Seq(Handlers) /\ Top.fd \in Fds
    BY <1>2, <2>1, PopFacts
  <2> QED
    BY <1>1, <1>2, <1>13, <2>1, <2>2 DEF LoadImage, TypeInv
<1>14. CASE LoadAnother
  <2>1. stack' \in Seq(Handlers)
    BY <1>2, <1>14, AnotherFacts DEF Extends
  <2> QED
    BY <1>1, <1>2, <1>14, <2>1 DEF LoadAnother, TypeInv
<1>15. ASSUME NEW t \in {"main", "provider"}, NEW d \in Fds, TakePending(t, d)
       PROVE  /\ m_pendingDnd' \in [Fds -> Offers \cup {None}] /\ finished' \in [Offers -> Nat]
              /\ alive' \subseteq Offers /\ closing' \in [{"main", "provider"} -> Fds \cup {None}]
  BY <1>2, <1>15, FinishFacts DEF TakePending, TypeInv
<1>16. CASE FinishOnMain
  <2>1. stack # <<>> /\ TakePending("main", Top.fd) /\ stack' = Front(stack)
    BY <1>16 DEF FinishOnMain
  <2>2. stack' \in Seq(Handlers) /\ Top.fd \in Fds
    BY <1>2, <2>1, PopFacts
  <2> QED
    BY <1>1, <1>2, <1>15, <1>16, <2>1, <2>2 DEF FinishOnMain, TypeInv
<1>17. CASE ProviderTakes
  BY <1>1, <1>2, <1>17 DEF ProviderTakes, TypeInv
<1>18. CASE FinishOnProvider
  <2>1. provider \in Fds
    BY <1>2, <1>18 DEF FinishOnProvider, TypeInv
  <2> QED
    BY <1>1, <1>2, <1>15, <1>18, <2>1 DEF FinishOnProvider, TypeInv
<1>19. CASE CloseFd("main") \/ CloseFd("provider")
  BY <1>1, <1>2, <1>19 DEF CloseFd, TypeInv
<1> QED
  BY <1>3, <1>4, <1>5, <1>6, <1>7, <1>8, <1>9, <1>10, <1>11, <1>12, <1>13, <1>14, <1>16, <1>17, <1>18, <1>19
     DEF Next, Compositor, MainStep, ProviderStep

-----------------------------------------------------------------------------
(* What the steps do to the stack.                                         *)

\* The handlers are the same, but for answers that came.
Same ==
    /\ DOMAIN stack' = DOMAIN stack
    /\ \A i \in DOMAIN stack : stack'[i].in = stack[i].in /\ stack'[i].offer = stack[i].offer /\ stack'[i].fd = stack[i].fd

\* A handler is called that reads from a new descriptor.
Pushed(in, offer) ==
    /\ DOMAIN stack' = DOMAIN stack \cup {Len(stack) + 1} /\ Len(stack) + 1 \notin DOMAIN stack
    /\ \A i \in DOMAIN stack : stack'[i] = stack[i]
    /\ stack'[Len(stack) + 1].in = in /\ stack'[Len(stack) + 1].offer = offer /\ stack'[Len(stack) + 1].fd = NewFd
    /\ NewFd \in Fds /\ NewFd \notin open /\ open' = open \cup {NewFd}

\* No handler of a drag or a drop is called.
Kept ==
    \A i \in DOMAIN stack' : stack'[i].in \in {"Drag", "Drop"} =>
        i \in DOMAIN stack /\ stack'[i].in = stack[i].in /\ stack'[i].offer = stack[i].offer

LEMMA PushFacts ==
    ASSUME TypeInv, NEW in, NEW offer, NEW m, open # Fds,
           [in |-> in, offer |-> offer, mime |-> m, fd |-> NewFd, done |-> FALSE] \in Handlers,
           Roundtrip([in |-> in, offer |-> offer, mime |-> m, fd |-> NewFd, done |-> FALSE])
    PROVE  Pushed(in, offer)
<1> DEFINE h == [in |-> in, offer |-> offer, mime |-> m, fd |-> NewFd, done |-> FALSE]
<1>1. NewFd \in Fds /\ NewFd \notin open
  BY NewFdIsFree DEF TypeInv
<1>2. h \in Handlers /\ h.in = in /\ h.offer = offer /\ h.fd = NewFd
  OBVIOUS
<1>3. stack' = Append(stack, h) /\ open' = open \cup {h.fd}
  BY DEF Roundtrip
<1> HIDE DEF h
<1>4. /\ Len(stack) \in Nat /\ DOMAIN stack = 1 .. Len(stack) /\ DOMAIN stack' = 1 .. Len(stack) + 1
      /\ \A i \in 1 .. Len(stack) : stack'[i] = stack[i]
      /\ stack'[Len(stack) + 1] = h
  BY <1>2, <1>3, AppendFacts DEF TypeInv
<1>5. DOMAIN stack' = DOMAIN stack \cup {Len(stack) + 1} /\ Len(stack) + 1 \notin DOMAIN stack
  BY <1>4
<1> QED
  BY <1>1, <1>2, <1>3, <1>4, <1>5 DEF Pushed

LEMMA AskFacts ==
    ASSUME Inv, DataEnter, AskForFiles
    PROVE  Pushed("Drag", m_nextOffer) /\ "text/uri-list" \in mimes[m_nextOffer]
<1>1. TypeInv /\ open # Fds /\ m_nextOffer \in Offers
  BY EnterFacts DEF Inv, AskForFiles
<1>2. NewFd \in Fds
  BY <1>1, NewFdIsFree DEF TypeInv
<1> DEFINE h == [in |-> "Drag", offer |-> m_nextOffer, mime |-> "text/uri-list", fd |-> NewFd, done |-> FALSE]
<1>3. h \in Handlers
  BY <1>1, <1>2 DEF Handlers, MimeTypes
<1>4. Roundtrip(h)
  BY DEF AskForFiles
<1>5. Pushed("Drag", m_nextOffer)
  BY <1>1, <1>3, <1>4, PushFacts
<1> QED
  BY <1>5 DEF AskForFiles

LEMMA DropFacts ==
    ASSUME Inv, DataDrop
    PROVE  Pushed("Drop", m_dndOffer) /\ m_dndOffer # None
<1>1. TypeInv /\ open # Fds
  BY DEF Inv, DataDrop
<1>2. NewFd \in Fds
  BY <1>1, NewFdIsFree DEF TypeInv
<1> DEFINE h == [in |-> "Drop", offer |-> m_dndOffer, mime |-> m_dndMime, fd |-> NewFd, done |-> FALSE]
<1>3. h \in Handlers
  BY <1>1, <1>2 DEF Handlers, TypeInv
<1>4. Roundtrip(h)
  BY DEF DataDrop
<1>5. Pushed("Drop", m_dndOffer)
  BY <1>1, <1>3, <1>4, PushFacts
<1> QED
  BY <1>5 DEF Inv, OffersInv, DataDrop

LEMMA SameFacts ==
    ASSUME TypeInv, RoundtripDone \/ UNCHANGED stack
    PROVE  Same
<1>1. CASE RoundtripDone
  BY <1>1, DoneFacts DEF RoundtripDone, TypeInv, Same
<1>2. CASE UNCHANGED stack
  BY <1>2 DEF Same
<1> QED
  BY <1>1, <1>2

\* A handler returns that leaves nothing behind.
LEMMA ReturnFacts ==
    ASSUME TypeInv, FdsInv, stack # <<>>, stack' = Front(stack)
    PROVE  Extends(Front(stack), stack', {})
BY PopFacts DEF Extends

Returns == \E added \in SUBSET Fds : Extends(Front(stack), stack', added)

LEMMA StackStep ==
    ASSUME Inv, [Next]_vars
    PROVE  \/ Same
           \/ stack # <<>> /\ Returns
           \/ Extends(stack, stack', jobs)
           \/ DataEnter /\ AskForFiles
           \/ DataDrop
<1> USE DEF compositorVars, seatVars, providerVars, history
<1>1. TypeInv /\ FdsInv
  BY DEF Inv
<1>2. CASE DragEnters \/ DragLeaves \/ DragDrops \/ RoundtripDone \/ DataOffer \/ DataLeave \/ DataDropForgets
  BY <1>1, <1>2, SameFacts DEF DragEnters, DragLeaves, DragDrops, DataOffer, DataLeave, DataDropForgets
<1>3. CASE CloseFd("main") \/ ProviderStep \/ UNCHANGED vars
  BY <1>1, <1>3, SameFacts DEF CloseFd, ProviderStep, ProviderTakes, FinishOnProvider, vars
<1>4. CASE DataEnter
  BY <1>1, <1>4, SameFacts DEF DataEnter
<1>5. CASE Drag \/ LoadImage \/ FinishOnMain
  <2>1. stack # <<>> /\ stack' = Front(stack)
    BY <1>5 DEF Drag, Returned, LoadImage, FinishOnMain
  <2> QED
    BY <1>1, <2>1, ReturnFacts DEF Returns
<1>6. CASE DropFiles \/ DropImage
  <2>1. stack # <<>>
    BY <1>6 DEF DropFiles, DropImage, Returned
  <2>2. Top.fd \in Fds /\ jobs \subseteq Fds
    BY <1>1, <2>1, PopFacts DEF TypeInv
  <2>3. \E c \in SUBSET jobs : Extends(Front(stack), stack', c \cup {Top.fd})
    BY <1>1, <1>6, FilesFacts, ImageFacts
  <2> QED
    BY <2>1, <2>2, <2>3 DEF Returns
<1>7. CASE LoadAnother
  BY <1>1, <1>7, AnotherFacts
<1> QED
  BY <1>2, <1>3, <1>4, <1>5, <1>6, <1>7 DEF Next, Compositor, MainStep

LEMMA ReturnsKeep ==
    ASSUME TypeInv, FdsInv, (stack # <<>> /\ Returns) \/ Extends(stack, stack', jobs)
    PROVE  Kept
<1>1. CASE stack # <<>> /\ Returns
  <2>1. PICK added : Extends(Front(stack), stack', added)
    BY <1>1 DEF Returns
  <2>2. \A i \in DOMAIN Front(stack) : i \in DOMAIN stack /\ Front(stack)[i] = stack[i]
    BY <1>1, PopFacts
  <2> QED
    BY <2>1, <2>2 DEF Extends, Kept
<1>2. CASE Extends(stack, stack', jobs)
  BY <1>2 DEF Extends, Kept
<1> QED
  BY <1>1, <1>2

LEMMA KeptStep ==
    ASSUME Inv, [Next]_vars
    PROVE  Kept \/ (DataEnter /\ AskForFiles) \/ DataDrop
<1>1. CASE Same
  BY <1>1 DEF Same, Kept
<1>2. CASE (stack # <<>> /\ Returns) \/ Extends(stack, stack', jobs)
  BY <1>2, ReturnsKeep DEF Inv
<1> QED
  BY <1>1, <1>2, StackStep

-----------------------------------------------------------------------------
(* The offers that the seat and the handlers hold.                         *)

\* What waits for the end of its drop is none of the offers the seat holds.
LEMMA PendingFacts ==
    ASSUME Inv
    PROVE  /\ \A d \in Fds : m_pendingDnd[d] # None => m_pendingDnd[d] \in dropped
           /\ PendingOffers \subseteq dropped
           /\ \A o \in {m_nextOffer, m_dndOffer} : o # None => o \notin dropped /\ o \in alive
           /\ m_nextOffer # None => m_nextOffer # m_dndOffer
BY DEF Inv, PendingInv, PendingOffers, OffersInv

LEMMA HeldOffersStep ==
    ASSUME Inv, [Next]_vars
    PROVE  /\ \A i \in DOMAIN stack' : stack'[i].in \in {"Drag", "Drop"} => stack'[i].offer \in 1 .. offers'
           /\ offers' \in Nat /\ offers <= offers'
<1> USE DEF compositorVars, seatVars, providerVars, history
<1>1. TypeInv /\ offers \in Nat /\ \A i \in DOMAIN stack : stack[i].in \in {"Drag", "Drop"} => stack[i].offer \in 1 .. offers
  BY MaxOffersAssumption DEF Inv, TypeInv, OffersInv
<1>2. offers' = offers \/ offers' = offers + 1
  BY DEF Next, Compositor, MainStep, ProviderStep, DragEnters, DragLeaves, DragDrops, RoundtripDone, DataOffer, DataEnter,
         DataLeave, DataDropForgets, DataDrop, Drag, DropFiles, DropImage, LoadImage, LoadAnother, FinishOnMain,
         CloseFd, ProviderTakes, FinishOnProvider, vars
<1>3. offers' \in Nat /\ offers <= offers' /\ \A o \in 1 .. offers : o \in 1 .. offers'
  BY <1>1, <1>2
<1>4. CASE Kept
  BY <1>1, <1>3, <1>4 DEF Kept
<1>5. CASE DataEnter /\ AskForFiles
  <2>1. Pushed("Drag", m_nextOffer) /\ m_nextOffer \in 1 .. offers
    BY <1>5, AskFacts, EnterFacts
  <2> QED
    BY <1>1, <1>3, <2>1 DEF Pushed
<1>6. CASE DataDrop
  <2>1. Pushed("Drop", m_dndOffer) /\ m_dndOffer # None
    BY <1>6, DropFacts
  <2>2. m_dndOffer <= offers /\ m_dndOffer \in Offers
    BY <1>1, <2>1 DEF Inv, OffersInv, TypeInv, Known
  <2>3. m_dndOffer \in 1 .. offers
    BY <1>1, <2>2, MaxOffersAssumption DEF Offers
  <2> QED
    BY <1>1, <1>3, <2>1, <2>3 DEF Pushed
<1> QED
  BY <1>3, <1>4, <1>5, <1>6, KeptStep

LEMMA OffersStep ==
    ASSUME Inv, [Next]_vars
    PROVE  OffersInv'
<1> USE DEF compositorVars, seatVars, providerVars, history
<1>1. /\ \A i \in DOMAIN stack' : stack'[i].in \in {"Drag", "Drop"} => stack'[i].offer \in 1 .. offers'
      /\ offers' \in Nat /\ offers \in Nat /\ offers <= offers'
  BY HeldOffersStep, MaxOffersAssumption DEF Inv, TypeInv
<1>2. /\ OffersInv /\ TypeInv
      /\ \A o \in {m_nextOffer, m_dndOffer} : o # None => o \notin dropped /\ o \in alive
      /\ m_nextOffer # None => m_nextOffer # m_dndOffer
  BY PendingFacts DEF Inv
<1>3. \A o \in Known : o \in Nat /\ o <= offers'
  <2>1. \A o \in Known : o \in Nat /\ o <= offers
    <3>1. Offers \subseteq Nat /\ None \in Nat
      BY MaxOffersAssumption DEF Offers, None
    <3>2. Known \subseteq Offers \cup {None}
      BY <1>2 DEF TypeInv, Known
    <3> QED
      BY <1>2, <3>1, <3>2 DEF OffersInv
  <2> QED
    BY <1>1, <2>1
<1>4. CASE UNCHANGED <<m_nextOffer, m_dndOffer, dropped, m_dndMime>> /\ \A o \in {m_nextOffer, m_dndOffer} : o # None => o \in alive'
  BY <1>1, <1>2, <1>3, <1>4 DEF OffersInv, Known
<1>5. CASE DragEnters \/ DragLeaves \/ DragDrops \/ RoundtripDone \/ LoadImage \/ LoadAnother \/ CloseFd("main")
  BY <1>2, <1>4, <1>5 DEF DragEnters, DragLeaves, DragDrops, RoundtripDone, LoadImage, LoadAnother, CloseFd
<1>6. CASE DropFiles \/ DropImage \/ ProviderTakes \/ CloseFd("provider") \/ UNCHANGED vars
  BY <1>2, <1>4, <1>6 DEF DropFiles, DropImage, CloseFd, ProviderTakes, vars
<1>7. CASE Drag
  <2>1. /\ UNCHANGED <<m_nextOffer, m_dndOffer, dropped, alive>>
        /\ m_dndOffer = None => m_dndMime' = m_dndMime
    BY <1>7 DEF Drag
  <2> QED
    BY <1>1, <1>2, <1>3, <2>1 DEF OffersInv, Known
<1>8. CASE DataOffer
  <2> DEFINE n == events[1].n
  <2>1. /\ events # <<>> /\ Head(events).type = "data_offer" /\ m_nextOffer' = Head(events).n
        /\ alive' = (alive \ {m_nextOffer}) \cup {Head(events).n}
        /\ UNCHANGED <<m_dndOffer, m_dndMime, dropped>>
    BY <1>8 DEF DataOffer, Dispatch
  <2>2. Head(events) = events[1] /\ 1 \in DOMAIN events
    BY <1>2, <2>1, EventFacts
  <2>3. n \in 1 .. offers /\ \A o \in Known : o < n
    BY <2>1, <2>2 DEF Inv, EventsInv, Announced
  <2> HIDE DEF n
  <2>4. n \notin dropped /\ n # m_dndOffer /\ n <= offers'
    <3>1. n \notin Known /\ n <= offers'
      BY <1>1, <1>3, <2>3
    <3> QED
      BY <3>1 DEF Known
  <2>5. /\ m_nextOffer' = n /\ alive' = (alive \ {m_nextOffer}) \cup {n}
    BY <2>1, <2>2 DEF n
  <2>6. \A o \in Known' : o <= offers'
    BY <1>3, <2>1, <2>4, <2>5 DEF Known
  <2> QED
    BY <1>1, <1>2, <2>1, <2>4, <2>5, <2>6 DEF OffersInv
<1>9. CASE DataEnter
  <2>1. /\ m_dndOffer' = m_nextOffer /\ m_nextOffer' = None /\ alive' = alive \ {m_dndOffer} /\ dropped' = dropped
    BY <1>9 DEF DataEnter, TakeOffer
  <2>2. m_nextOffer \in Offers /\ m_nextOffer # None
    BY <1>9, EnterFacts
  <2>3. \A o \in Known' : o <= offers'
    BY <1>1, <1>3, <2>1 DEF Known, None
  <2> QED
    BY <1>1, <1>2, <2>1, <2>2, <2>3 DEF OffersInv
<1>10. CASE DataLeave
  <2>1. /\ m_dndOffer' = None /\ m_dndMime' = "none" /\ UNCHANGED <<m_nextOffer, dropped>>
        /\ alive' = alive \ (PendingOffers \cup {m_dndOffer})
    BY <1>10 DEF DataLeave
  <2>2. \A o \in Known' : o <= offers'
    BY <1>1, <1>3, <2>1 DEF Known, None
  <2> QED
    BY <1>1, <1>2, <2>1, <2>2, PendingFacts DEF OffersInv
<1>11. CASE DataDropForgets
  <2>1. /\ m_dndOffer' = None /\ m_dndMime' = "none" /\ UNCHANGED <<m_nextOffer, dropped>>
        /\ alive' = alive \ {m_dndOffer}
    BY <1>11 DEF DataDropForgets
  <2>2. \A o \in Known' : o <= offers'
    BY <1>1, <1>3, <2>1 DEF Known, None
  <2> QED
    BY <1>1, <1>2, <2>1, <2>2 DEF OffersInv
<1>12. CASE DataDrop
  <2>1. /\ m_dndOffer' = None /\ m_dndMime' = "none" /\ UNCHANGED <<m_nextOffer, alive>>
        /\ dropped' = dropped \cup {m_dndOffer}
    BY <1>12 DEF DataDrop
  <2>2. \A o \in Known' : o <= offers'
    BY <1>1, <1>3, <2>1 DEF Known, None
  <2> QED
    BY <1>1, <1>2, <2>1, <2>2 DEF OffersInv
<1>13. CASE FinishOnMain \/ FinishOnProvider
  <2>1. UNCHANGED <<m_nextOffer, m_dndOffer, dropped, m_dndMime>>
    BY <1>13 DEF FinishOnMain, FinishOnProvider
  <2>2. \E d \in Fds : alive' = alive \ {m_pendingDnd[d]}
    <3>1. CASE FinishOnMain
      BY <1>2, <3>1, PopFacts DEF FinishOnMain, TakePending, Inv
    <3>2. CASE FinishOnProvider
      BY <1>2, <3>2 DEF FinishOnProvider, TakePending, TypeInv
    <3> QED
      BY <1>13, <3>1, <3>2
  <2>3. \A o \in {m_nextOffer, m_dndOffer} : o # None => o \in alive'
    BY <1>2, <2>2, PendingFacts
  <2> QED
    BY <1>4, <2>1, <2>3
<1> QED
  BY <1>5, <1>6, <1>7, <1>8, <1>9, <1>10, <1>11, <1>12, <1>13 DEF Next, Compositor, MainStep, ProviderStep

-----------------------------------------------------------------------------
(* Descriptors.                                                            *)

\* After the step a handler may own descriptor d.
Ownable(d) ==
    /\ d \in open' /\ d \notin jobs' /\ d # provider'
    /\ d # closing'["main"] /\ d # closing'["provider"]

\* What FdsInv says of the provider and of the threads that close.
Owners ==
    /\ jobs \subseteq open /\ provider \notin jobs /\ closing["main"] \notin jobs /\ closing["provider"] \notin jobs
    /\ provider # None => provider \in open /\ provider # closing["main"] /\ closing["provider"] = None
    /\ closing["main"] = closing["provider"] => closing["main"] = None
    /\ \A t \in {"main", "provider"} : closing[t] # None => closing[t] \in open

LEMMA FdsSame ==
    ASSUME TypeInv, FdsInv, Same, Owners', \A i \in DOMAIN stack : Ownable(stack[i].fd)
    PROVE  FdsInv'
BY DEF FdsInv, Same, Owners, Ownable

LEMMA FdsExtends ==
    ASSUME NEW p, NEW added, Extends(p, stack', added), Owners',
           \A i \in DOMAIN p : Ownable(p[i].fd), \A d \in added : Ownable(d)
    PROVE  FdsInv'
<1>1. \A i \in DOMAIN stack' : Ownable(stack'[i].fd)
  BY DEF Extends
<1> QED
  BY <1>1 DEF Extends, Distinct, FdsInv, Owners, Ownable

LEMMA FdsPushed ==
    ASSUME TypeInv, FdsInv, NEW in, NEW offer, Pushed(in, offer), UNCHANGED <<providerVars, closing>>
    PROVE  FdsInv'
<1> DEFINE n == Len(stack) + 1
<1>1. /\ DOMAIN stack' = DOMAIN stack \cup {n} /\ n \notin DOMAIN stack
      /\ \A i \in DOMAIN stack : stack'[i] = stack[i]
      /\ stack'[n].fd = NewFd /\ NewFd \in Fds /\ NewFd \notin open /\ open' = open \cup {NewFd}
      /\ jobs' = jobs /\ provider' = provider /\ closing' = closing
  BY DEF Pushed, providerVars
<1> HIDE DEF n
<1> DEFINE d == NewFd
<1>2. /\ d \notin jobs /\ d # provider /\ d # closing["main"] /\ d # closing["provider"]
      /\ \A i \in DOMAIN stack : stack[i].fd # d
  <2>1. d # None
    BY <1>1, MaxOffersAssumption DEF Fds, None
  <2> QED
    BY <1>1, <2>1 DEF FdsInv
<1> HIDE DEF d
<1>3. /\ stack'[n].fd = d /\ open' = open \cup {d}
  BY <1>1 DEF d
<1>4. Owners'
  BY <1>1, <1>2, <1>3 DEF FdsInv, Owners
<1>5. \A i, j \in DOMAIN stack' : stack'[i].fd = stack'[j].fd => i = j
  BY <1>1, <1>2, <1>3 DEF FdsInv
<1>6. \A i \in DOMAIN stack' : Ownable(stack'[i].fd)
  BY <1>1, <1>2, <1>3 DEF FdsInv, Ownable
<1> QED
  BY <1>4, <1>5, <1>6 DEF FdsInv, Owners, Ownable

LEMMA FdsStep ==
    ASSUME Inv, [Next]_vars
    PROVE  FdsInv'
<1> USE DEF compositorVars, seatVars, providerVars, history
<1>1. TypeInv /\ FdsInv
  BY DEF Inv
<1>2. None \notin Fds
  BY MaxOffersAssumption DEF Fds, None
<1>3. ASSUME UNCHANGED <<open, jobs, provider, closing>>, Same
      PROVE  FdsInv'
  <2>1. Owners' /\ \A i \in DOMAIN stack : Ownable(stack[i].fd)
    BY <1>1, <1>3 DEF Owners, Ownable, FdsInv
  <2> QED
    BY <1>1, <1>3, <2>1, FdsSame
<1>4. CASE DragEnters \/ DragLeaves \/ DragDrops \/ RoundtripDone \/ DataOffer \/ DataLeave \/ DataDropForgets \/ UNCHANGED vars
  <2>1. RoundtripDone \/ UNCHANGED stack
    BY <1>4 DEF DragEnters, DragLeaves, DragDrops, DataOffer, DataLeave, DataDropForgets, vars
  <2>2. UNCHANGED <<open, jobs, provider, closing>>
    BY <1>4 DEF DragEnters, DragLeaves, DragDrops, RoundtripDone, DataOffer, DataLeave, DataDropForgets, vars
  <2> QED
    BY <1>1, <1>3, <2>1, <2>2, SameFacts
<1>5. CASE DataEnter
  <2>1. CASE AskForFiles
    BY <1>1, <1>5, <2>1, AskFacts, FdsPushed DEF DataEnter
  <2>2. CASE UNCHANGED <<stack, open>>
    BY <1>1, <1>3, <1>5, <2>2, SameFacts DEF DataEnter
  <2> QED
    BY <1>5, <2>1, <2>2 DEF DataEnter
<1>6. CASE DataDrop
  BY <1>1, <1>6, DropFacts, FdsPushed DEF DataDrop
<1>7. ASSUME stack # <<>>
      PROVE  /\ \A i \in DOMAIN Front(stack) :
                   /\ Front(stack)[i].fd \in open /\ Front(stack)[i].fd \notin jobs /\ Front(stack)[i].fd # provider
                   /\ Front(stack)[i].fd # closing["main"] /\ Front(stack)[i].fd # closing["provider"]
                   /\ Front(stack)[i].fd # Top.fd
             /\ Top.fd \in Fds /\ Top.fd \in open /\ Top.fd \notin jobs /\ Top.fd # provider
             /\ Top.fd # closing["main"] /\ Top.fd # closing["provider"]
             /\ Top.fd # None
  BY <1>1, <1>2, <1>7, PopFacts DEF FdsInv
<1>8. CASE Drag
  <2>1. stack # <<>> /\ stack' = Front(stack) /\ open' = open \ {Top.fd} /\ UNCHANGED <<jobs, provider, closing>>
    BY <1>8 DEF Drag, Returned
  <2>2. Owners' /\ \A i \in DOMAIN Front(stack) : Ownable(Front(stack)[i].fd)
    BY <1>1, <1>7, <2>1 DEF Owners, Ownable, FdsInv
  <2> QED
    BY <1>1, <2>1, <2>2, ReturnFacts, FdsExtends
<1>9. CASE DropFiles \/ DropImage
  <2>1. stack # <<>> /\ UNCHANGED <<open, provider, closing>>
    BY <1>9 DEF DropFiles, DropImage, Returned
  <2>2. \E c \in SUBSET jobs : jobs' = jobs \ c /\ Extends(Front(stack), stack', c \cup {Top.fd})
    <3>1. CASE DropFiles
      BY <1>1, <3>1, FilesFacts
    <3>2. CASE DropImage
      <4>1. jobs' = jobs \ jobs
        BY <3>2 DEF DropImage
      <4> QED
        BY <1>1, <3>2, <4>1, ImageFacts
    <3> QED
      BY <1>9, <3>1, <3>2
  <2>3. PICK c \in SUBSET jobs : jobs' = jobs \ c /\ Extends(Front(stack), stack', c \cup {Top.fd})
    BY <2>2
  <2>4. Owners' /\ \A i \in DOMAIN Front(stack) : Ownable(Front(stack)[i].fd)
    BY <1>1, <1>7, <2>1, <2>3 DEF Owners, Ownable, FdsInv
  <2>5. \A d \in c \cup {Top.fd} : Ownable(d)
    <3>1. \A d \in c : Ownable(d)
      BY <1>1, <2>1, <2>3 DEF Ownable, FdsInv
    <3>2. Ownable(Top.fd)
      BY <1>7, <2>1, <2>3 DEF Ownable
    <3> QED
      BY <3>1, <3>2
  <2> QED
    BY <2>3, <2>4, <2>5, FdsExtends
<1>10. CASE LoadImage
  <2>1. stack # <<>> /\ stack' = Front(stack) /\ jobs' = jobs \cup {Top.fd} /\ UNCHANGED <<open, provider, closing>>
    BY <1>10 DEF LoadImage
  <2>2. Owners' /\ \A i \in DOMAIN Front(stack) : Ownable(Front(stack)[i].fd)
    BY <1>1, <1>7, <2>1 DEF Owners, Ownable, FdsInv
  <2> QED
    BY <1>1, <2>1, <2>2, ReturnFacts, FdsExtends
<1>11. CASE LoadAnother
  <2>1. jobs' = {} /\ UNCHANGED <<open, provider, closing>>
    BY <1>11 DEF LoadAnother
  <2>2. Owners' /\ (\A i \in DOMAIN stack : Ownable(stack[i].fd)) /\ \A d \in jobs : Ownable(d)
    BY <1>1, <2>1 DEF Owners, Ownable, FdsInv
  <2> QED
    BY <1>1, <1>11, <2>2, AnotherFacts, FdsExtends
<1>12. CASE FinishOnMain
  <2>1. /\ stack # <<>> /\ stack' = Front(stack) /\ closing' = [closing EXCEPT !["main"] = Top.fd] /\ closing["main"] = None
        /\ UNCHANGED <<open, jobs, provider>>
    BY <1>12 DEF FinishOnMain, TakePending
  <2>2. closing'["main"] = Top.fd /\ closing'["provider"] = closing["provider"]
    BY <1>1, <2>1 DEF TypeInv
  <2>3. Owners' /\ \A i \in DOMAIN Front(stack) : Ownable(Front(stack)[i].fd)
    BY <1>1, <1>7, <2>1, <2>2 DEF Owners, Ownable, FdsInv
  <2> QED
    BY <1>1, <2>1, <2>3, ReturnFacts, FdsExtends
<1>13. CASE ProviderTakes
  <2>1. /\ provider = None /\ closing["provider"] = None /\ provider' \in jobs /\ jobs' = jobs \ {provider'}
        /\ UNCHANGED <<stack, open, closing>>
    BY <1>13 DEF ProviderTakes
  <2>2. Owners' /\ \A i \in DOMAIN stack : Ownable(stack[i].fd)
    BY <1>1, <1>2, <2>1 DEF Owners, Ownable, FdsInv, TypeInv
  <2> QED
    BY <1>1, <2>1, <2>2, SameFacts, FdsSame
<1>14. CASE FinishOnProvider
  <2>1. /\ provider # None /\ provider' = None /\ closing' = [closing EXCEPT !["provider"] = provider]
        /\ UNCHANGED <<stack, open, jobs>>
    BY <1>14 DEF FinishOnProvider, TakePending
  <2>2. closing'["provider"] = provider /\ closing'["main"] = closing["main"]
    BY <1>1, <2>1 DEF TypeInv
  <2>3. Owners' /\ \A i \in DOMAIN stack : Ownable(stack[i].fd)
    <3>1. \A i \in DOMAIN stack : stack[i].fd # None
      BY <1>1, <1>2 DEF FdsInv, TypeInv
    <3> QED
      BY <1>1, <1>2, <2>1, <2>2, <3>1 DEF Owners, Ownable, FdsInv, TypeInv
  <2> QED
    BY <1>1, <2>1, <2>3, SameFacts, FdsSame
<1>15. ASSUME NEW t \in {"main", "provider"}, CloseFd(t)
       PROVE  FdsInv'
  <2>1. /\ closing[t] # None /\ open' = open \ {closing[t]} /\ closing' = [closing EXCEPT ![t] = None]
        /\ UNCHANGED <<stack, jobs, provider>>
    BY <1>15 DEF CloseFd
  <2>2. closing'[t] = None /\ \A u \in {"main", "provider"} : u # t => closing'[u] = closing[u]
    BY <1>1, <2>1 DEF TypeInv
  <2>3. Owners' /\ \A i \in DOMAIN stack : Ownable(stack[i].fd)
    <3>1. \A i \in DOMAIN stack : stack[i].fd # None
      BY <1>1, <1>2 DEF FdsInv, TypeInv
    <3>2. CASE t = "main"
      BY <1>1, <1>2, <2>1, <2>2, <3>1, <3>2 DEF Owners, Ownable, FdsInv, TypeInv
    <3>3. CASE t = "provider"
      BY <1>1, <1>2, <2>1, <2>2, <3>1, <3>3 DEF Owners, Ownable, FdsInv, TypeInv
    <3> QED
      BY <3>2, <3>3
  <2> QED
    BY <1>1, <2>1, <2>3, SameFacts, FdsSame
<1> QED
  BY <1>4, <1>5, <1>6, <1>8, <1>9, <1>10, <1>11, <1>12, <1>13, <1>14, <1>15 DEF Next, Compositor, MainStep, ProviderStep

-----------------------------------------------------------------------------
(* Drops.                                                                  *)

\* Only what waits for the end of its drop is finished.
LEMMA FinishStep ==
    ASSUME Inv, [Next]_vars
    PROVE  \A o \in Offers : \/ finished'[o] = finished[o]
                             \/ finished'[o] = finished[o] + 1 /\ \E d \in Fds : m_pendingDnd[d] = o
<1> USE DEF compositorVars, seatVars, providerVars, history
<1>1. finished \in [Offers -> Nat] /\ TypeInv /\ FdsInv
  BY DEF Inv, TypeInv
<1>2. CASE DataLeave
  <2>1. Finish(PendingOffers)
    BY <1>2 DEF DataLeave
  <2> QED
    BY <1>1, <2>1, FinishFacts DEF PendingOffers
<1>3. ASSUME NEW t, NEW d \in Fds, TakePending(t, d)
      PROVE  \A o \in Offers : \/ finished'[o] = finished[o]
                               \/ finished'[o] = finished[o] + 1 /\ \E e \in Fds : m_pendingDnd[e] = o
  <2>1. Finish({m_pendingDnd[d]} \ {None})
    BY <1>3 DEF TakePending
  <2> QED
    BY <1>1, <2>1, FinishFacts
<1>4. CASE FinishOnMain
  BY <1>1, <1>3, <1>4, PopFacts DEF FinishOnMain
<1>5. CASE FinishOnProvider
  BY <1>1, <1>3, <1>5 DEF FinishOnProvider, TypeInv
<1>6. CASE UNCHANGED finished
  BY <1>6
<1>7. CASE DragEnters \/ DragLeaves \/ DragDrops \/ RoundtripDone \/ DataOffer \/ DataEnter \/ DataDropForgets \/ DataDrop
  BY <1>6, <1>7 DEF DragEnters, DragLeaves, DragDrops, RoundtripDone, DataOffer, DataEnter, DataDropForgets, DataDrop
<1>8. CASE \/ Drag \/ DropFiles \/ DropImage \/ LoadImage \/ LoadAnother \/ CloseFd("main") \/ CloseFd("provider")
           \/ ProviderTakes \/ UNCHANGED vars
  BY <1>6, <1>8 DEF Drag, DropFiles, DropImage, LoadImage, LoadAnother, CloseFd, ProviderTakes, vars
<1> QED
  BY <1>2, <1>4, <1>5, <1>7, <1>8 DEF Next, Compositor, MainStep, ProviderStep

LEMMA DroppedStep ==
    ASSUME Inv, [Next]_vars
    PROVE  dropped' = dropped \/ (DataDrop /\ dropped' = dropped \cup {m_dndOffer} /\ finished' = finished)
BY DEF Next, Compositor, MainStep, ProviderStep, DragEnters, DragLeaves, DragDrops, RoundtripDone, DataOffer, DataEnter,
       DataLeave, DataDropForgets, DataDrop, Drag, DropFiles, DropImage, LoadImage, LoadAnother, FinishOnMain,
       CloseFd, ProviderTakes, FinishOnProvider, vars, compositorVars, seatVars, providerVars, history

LEMMA FinishedStep ==
    ASSUME Inv, [Next]_vars
    PROVE  FinishedOnce'
<1>1. \A o \in Offers : finished[o] \in Nat /\ finished[o] <= IF o \in dropped THEN 1 ELSE 0
  BY DEF Inv, TypeInv, FinishedOnce
<1>2. dropped \subseteq dropped'
  BY DroppedStep
<1>3. ASSUME NEW o \in Offers
      PROVE  finished'[o] <= IF o \in dropped' THEN 1 ELSE 0
  <2>1. CASE finished'[o] = finished[o]
    BY <1>1, <1>2, <2>1
  <2>2. CASE finished'[o] = finished[o] + 1 /\ \E d \in Fds : m_pendingDnd[d] = o
    <3>1. o # None
      BY MaxOffersAssumption DEF Offers, None
    <3>2. o \in dropped /\ finished[o] = 0
      BY <2>2, <3>1 DEF Inv, PendingInv
    <3> QED
      BY <1>2, <2>2, <3>2
  <2> QED
    BY <2>1, <2>2, FinishStep
<1> QED
  BY <1>3 DEF FinishedOnce

\* No drop that is still read is finished by a step.
LEMMA DropsKept ==
    ASSUME Inv, [Next]_vars
    PROVE  \A i \in DOMAIN stack : stack[i].in = "Drop" => stack[i].offer \in dropped' /\ finished'[stack[i].offer] = 0
<1>1. ASSUME NEW i \in DOMAIN stack, stack[i].in = "Drop"
      PROVE  stack[i].offer \in dropped' /\ finished'[stack[i].offer] = 0
  <2>1. stack[i].offer \in dropped /\ finished[stack[i].offer] = 0
    BY <1>1 DEF Inv, DropsInv
  <2>2. stack[i].offer \in Offers /\ stack[i].offer # None
    <3>1. None \notin Offers
      BY MaxOffersAssumption DEF Offers, None
    <3>2. dropped \subseteq Offers
      BY DEF Inv, TypeInv
    <3> QED
      BY <2>1, <3>1, <3>2
  <2>3. \A d \in Fds : m_pendingDnd[d] # stack[i].offer
    BY <1>1, <2>2 DEF Inv, PendingInv
  <2> QED
    BY <2>1, <2>2, <2>3, FinishStep, DroppedStep
<1> QED
  BY <1>1

LEMMA DropsStep ==
    ASSUME Inv, [Next]_vars
    PROVE  DropsInv'
<1>1. DropsInv
  BY DEF Inv
<1>2. CASE Kept
  BY <1>1, <1>2, DropsKept DEF Kept, DropsInv
<1>3. CASE DataEnter /\ AskForFiles
  BY <1>1, <1>3, AskFacts, DropsKept DEF Pushed, DropsInv
<1>4. CASE DataDrop
  <2> DEFINE n == Len(stack) + 1
  <2>1. /\ DOMAIN stack' = DOMAIN stack \cup {n} /\ n \notin DOMAIN stack
        /\ \A i \in DOMAIN stack : stack'[i] = stack[i]
        /\ stack'[n].offer = m_dndOffer /\ m_dndOffer # None
    BY <1>4, DropFacts DEF Pushed
  <2> HIDE DEF n
  <2>2. m_dndOffer \notin dropped /\ m_dndOffer \in Offers /\ finished' = finished /\ dropped' = dropped \cup {m_dndOffer}
    BY <1>4, <2>1, PendingFacts DEF Inv, TypeInv, DataDrop
  <2>3. finished'[m_dndOffer] = 0
    <3>1. finished[m_dndOffer] \in Nat
      BY <2>2 DEF Inv, TypeInv
    <3>2. finished[m_dndOffer] <= 0
      BY <2>2 DEF Inv, FinishedOnce
    <3> QED
      BY <2>2, <3>1, <3>2
  <2>4. \A i \in DOMAIN stack : stack[i].in = "Drop" => stack[i].offer # m_dndOffer
    BY <1>1, <2>2 DEF DropsInv
  <2> QED
    BY <1>1, <2>1, <2>2, <2>3, <2>4, DropsKept DEF DropsInv
<1> QED
  BY <1>2, <1>3, <1>4, KeptStep

\* Descriptor d is read by a job or by a handler, or waits to be finished by one.
Read(d) ==
    \/ d \in jobs \/ d = provider
    \/ \E i \in DOMAIN stack : stack[i].in \in {"Load", "Finish"} /\ stack[i].fd = d

\* The part of PendingInv that is about offers and not about their readers.
PendingOffersInv ==
    \A d \in Fds : m_pendingDnd[d] # None =>
        /\ m_pendingDnd[d] \in dropped /\ finished[m_pendingDnd[d]] = 0
        /\ \A e \in Fds : m_pendingDnd[e] = m_pendingDnd[d] => e = d
        /\ \A i \in DOMAIN stack : stack[i].in = "Drop" => stack[i].offer # m_pendingDnd[d]

LEMMA PendingSplit == PendingInv <=> (PendingOffersInv /\ \A d \in Fds : m_pendingDnd[d] # None => Read(d))
BY DEF PendingInv, PendingOffersInv, Read

\* What waits and is not taken out by the step is not finished by it either.
LEMMA PendingKept ==
    ASSUME Inv, [Next]_vars, NEW s \in SUBSET Offers,
           \A o \in Offers : o \notin s => finished'[o] = finished[o],
           \A d \in Fds : m_pendingDnd'[d] # None => m_pendingDnd'[d] = m_pendingDnd[d] /\ m_pendingDnd[d] \notin s,
           Kept \/ (DataEnter /\ AskForFiles) \/ DataDrop
    PROVE  PendingOffersInv'
<1>1. PendingInv /\ TypeInv /\ dropped \subseteq dropped'
  BY DroppedStep DEF Inv
<1>2. ASSUME NEW d \in Fds, m_pendingDnd'[d] # None
      PROVE  /\ m_pendingDnd'[d] \in dropped' /\ finished'[m_pendingDnd'[d]] = 0
             /\ \A e \in Fds : m_pendingDnd'[e] = m_pendingDnd'[d] => e = d
             /\ \A i \in DOMAIN stack' : stack'[i].in = "Drop" => stack'[i].offer # m_pendingDnd'[d]
  <2>1. m_pendingDnd'[d] = m_pendingDnd[d] /\ m_pendingDnd[d] \notin s /\ m_pendingDnd[d] # None
    BY <1>2
  <2>2. /\ m_pendingDnd[d] \in dropped /\ finished[m_pendingDnd[d]] = 0
        /\ \A i \in DOMAIN stack : stack[i].in = "Drop" => stack[i].offer # m_pendingDnd[d]
    BY <1>1, <2>1 DEF PendingInv
  <2>3. finished'[m_pendingDnd[d]] = 0
    BY <1>1, <2>1, <2>2 DEF TypeInv
  <2>4. \A e \in Fds : m_pendingDnd'[e] = m_pendingDnd'[d] => e = d
    BY <1>1, <1>2, <2>1 DEF PendingInv
  <2>5. \A i \in DOMAIN stack' : stack'[i].in = "Drop" => stack'[i].offer # m_pendingDnd[d]
    <3>1. CASE Kept
      BY <2>2, <3>1 DEF Kept
    <3>2. CASE DataEnter /\ AskForFiles
      BY <2>2, <3>2, AskFacts DEF Pushed
    <3>3. CASE DataDrop
      <4>1. m_dndOffer \notin dropped
        BY <3>3, DropFacts, PendingFacts
      <4> QED
        BY <2>2, <3>3, <4>1, DropFacts DEF Pushed
    <3> QED
      BY <3>1, <3>2, <3>3
  <2> QED
    BY <1>1, <2>1, <2>2, <2>3, <2>4, <2>5
<1> QED
  BY <1>2 DEF PendingOffersInv

\* A drop is read: its offer waits from now on.
LEMMA PendingDrop ==
    ASSUME Inv, [Next]_vars, DropFiles \/ DropImage
    PROVE  PendingOffersInv'
<1>1. /\ stack # <<>> /\ Top.in = "Drop" /\ UNCHANGED <<dropped, finished>>
      /\ m_pendingDnd' = [m_pendingDnd EXCEPT ![Top.fd] = Top.offer]
  BY DEF DropFiles, DropImage, Returned, history
<1>2. TypeInv /\ FdsInv /\ PendingInv /\ DropsInv
  BY DEF Inv
<1> DEFINE f == Top.fd
           o == Top.offer
           n == Len(stack)
<1>3. /\ f \in Fds /\ n \in DOMAIN stack /\ stack[n].in = "Drop" /\ stack[n].offer = o
      /\ \A i \in DOMAIN Front(stack) : i \in DOMAIN stack /\ i # n /\ Front(stack)[i] = stack[i]
  BY <1>1, <1>2, PopFacts
<1>4. PICK added : Extends(Front(stack), stack', added)
  BY <1>2, FilesFacts, ImageFacts
<1> HIDE DEF f, o, n
<1>5. m_pendingDnd' = [m_pendingDnd EXCEPT ![f] = o]
  BY <1>1 DEF f, o
<1>6. /\ o \in dropped /\ finished[o] = 0
      /\ \A i \in DOMAIN stack : stack[i].in = "Drop" /\ stack[i].offer = o => i = n
  BY <1>2, <1>3 DEF DropsInv
<1>7. o # None /\ \A d \in Fds : m_pendingDnd[d] # o
  <2>1. o # None
    BY <1>2, <1>6, MaxOffersAssumption DEF TypeInv, Offers, None
  <2> QED
    BY <1>2, <1>3, <2>1 DEF PendingInv
<1>8. m_pendingDnd'[f] = o /\ \A d \in Fds : d # f => m_pendingDnd'[d] = m_pendingDnd[d]
  BY <1>2, <1>3, <1>5 DEF TypeInv
<1>9. \A i \in DOMAIN stack' : stack'[i].in = "Drop" => i \in DOMAIN stack /\ i # n /\ stack'[i] = stack[i]
  BY <1>3, <1>4 DEF Extends
<1>10. ASSUME NEW d \in Fds, m_pendingDnd'[d] # None
       PROVE  /\ m_pendingDnd'[d] \in dropped' /\ finished'[m_pendingDnd'[d]] = 0
              /\ \A e \in Fds : m_pendingDnd'[e] = m_pendingDnd'[d] => e = d
              /\ \A i \in DOMAIN stack' : stack'[i].in = "Drop" => stack'[i].offer # m_pendingDnd'[d]
  <2>1. CASE d = f
    BY <1>1, <1>6, <1>7, <1>8, <1>9, <2>1
  <2>2. CASE d # f
    <3>1. m_pendingDnd'[d] = m_pendingDnd[d]
      BY <1>8, <2>2
    <3>2. /\ m_pendingDnd[d] \in dropped /\ finished[m_pendingDnd[d]] = 0
          /\ \A e \in Fds : m_pendingDnd[e] = m_pendingDnd[d] => e = d
          /\ \A i \in DOMAIN stack : stack[i].in = "Drop" => stack[i].offer # m_pendingDnd[d]
      BY <1>2, <1>10, <3>1 DEF PendingInv
    <3>3. \A e \in Fds : m_pendingDnd'[e] = m_pendingDnd'[d] => e = d
      BY <1>7, <1>8, <3>1, <3>2
    <3> QED
      BY <1>1, <1>9, <3>1, <3>2, <3>3
  <2> QED
    BY <2>1, <2>2
<1> QED
  BY <1>10 DEF PendingOffersInv

LEMMA PendingOffersStep ==
    ASSUME Inv, [Next]_vars
    PROVE  PendingOffersInv'
<1> USE DEF compositorVars, seatVars, providerVars, history
<1>1. TypeInv /\ FdsInv /\ PendingInv
  BY DEF Inv
<1>2. CASE DropFiles \/ DropImage
  BY <1>2, PendingDrop
<1>3. CASE DataLeave
  <2>1. \A d \in Fds : m_pendingDnd'[d] = None
    BY <1>3 DEF DataLeave
  <2> QED
    BY <2>1 DEF PendingOffersInv
<1>4. ASSUME NEW t, NEW d \in Fds, TakePending(t, d)
      PROVE  PendingOffersInv'
  <2>1. m_pendingDnd' = [m_pendingDnd EXCEPT ![d] = None] /\ Finish({m_pendingDnd[d]} \ {None})
    BY <1>4 DEF TakePending
  <2> DEFINE s == {m_pendingDnd[d]} \ {None}
  <2>2. s \in SUBSET Offers /\ \A o \in Offers : o \notin s => finished'[o] = finished[o]
    BY <1>1, <2>1, FinishFacts DEF TypeInv
  <2>3. ASSUME NEW e \in Fds, m_pendingDnd'[e] # None
        PROVE  m_pendingDnd'[e] = m_pendingDnd[e] /\ m_pendingDnd[e] \notin s
    <3>1. m_pendingDnd'[e] = (IF e = d THEN None ELSE m_pendingDnd[e])
      BY <1>1, <2>1 DEF TypeInv
    <3> QED
      BY <1>1, <2>3, <3>1 DEF PendingInv
  <2> HIDE DEF s
  <2> QED
    BY <2>2, <2>3, KeptStep, PendingKept
<1>5. CASE FinishOnMain
  BY <1>1, <1>4, <1>5, PopFacts DEF FinishOnMain
<1>6. CASE FinishOnProvider
  BY <1>1, <1>4, <1>6 DEF FinishOnProvider, TypeInv
<1>7. CASE UNCHANGED <<finished, m_pendingDnd>>
  <2>1. {} \in SUBSET Offers
    OBVIOUS
  <2> QED
    BY <1>7, <2>1, KeptStep, PendingKept
<1>8. CASE DragEnters \/ DragLeaves \/ DragDrops \/ RoundtripDone \/ DataOffer \/ DataEnter \/ DataDropForgets \/ DataDrop
  BY <1>7, <1>8 DEF DragEnters, DragLeaves, DragDrops, RoundtripDone, DataOffer, DataEnter, DataDropForgets, DataDrop
<1>9. CASE \/ Drag \/ LoadImage \/ LoadAnother \/ CloseFd("main") \/ CloseFd("provider")
           \/ ProviderTakes \/ UNCHANGED vars
  BY <1>7, <1>9 DEF Drag, LoadImage, LoadAnother, CloseFd, ProviderTakes, vars
<1> QED
  BY <1>2, <1>3, <1>5, <1>6, <1>8, <1>9 DEF Next, Compositor, MainStep, ProviderStep

\* Whoever reads a descriptor goes on reading it, or passes it on.
LEMMA ReadStep ==
    ASSUME Inv, [Next]_vars, NEW d \in Fds, m_pendingDnd'[d] # None
    PROVE  Read(d)'
<1> USE DEF compositorVars, seatVars, providerVars, history
<1>1. TypeInv /\ FdsInv /\ (m_pendingDnd[d] # None => Read(d))
  BY PendingSplit DEF Inv
<1>2. ASSUME Same, UNCHANGED <<jobs, provider, m_pendingDnd>>
      PROVE  Read(d)'
  BY <1>1, <1>2 DEF Read, Same
<1>3. CASE DragEnters \/ DragLeaves \/ DragDrops \/ RoundtripDone \/ DataOffer \/ DataDropForgets
  <2>1. RoundtripDone \/ UNCHANGED stack
    BY <1>3 DEF DragEnters, DragLeaves, DragDrops, DataOffer, DataDropForgets
  <2>2. UNCHANGED <<jobs, provider, m_pendingDnd>>
    BY <1>3 DEF DragEnters, DragLeaves, DragDrops, RoundtripDone, DataOffer, DataDropForgets
  <2> QED
    BY <1>1, <1>2, <2>1, <2>2, SameFacts
<1>4. CASE CloseFd("main") \/ CloseFd("provider") \/ UNCHANGED vars
  BY <1>1, <1>2, <1>4, SameFacts DEF CloseFd, vars
<1>5. ASSUME NEW in, NEW offer, Pushed(in, offer), UNCHANGED <<jobs, provider, m_pendingDnd>>
      PROVE  Read(d)'
  BY <1>1, <1>5 DEF Read, Pushed
<1>6. CASE DataEnter
  <2>1. CASE AskForFiles
    BY <1>5, <1>6, <2>1, AskFacts DEF DataEnter
  <2>2. CASE UNCHANGED <<stack, open>>
    BY <1>1, <1>2, <1>6, <2>2, SameFacts DEF DataEnter
  <2> QED
    BY <1>6, <2>1, <2>2 DEF DataEnter
<1>7. CASE DataDrop
  BY <1>5, <1>7, DropFacts DEF DataDrop
<1>8. CASE DataLeave
  BY <1>8 DEF DataLeave
<1>9. ASSUME NEW p, NEW added, Extends(p, stack', added), provider' = provider, m_pendingDnd[d] # None,
             \A i \in DOMAIN stack : stack[i].in \in {"Load", "Finish"} /\ stack[i].fd = d => i \in DOMAIN p /\ p[i] = stack[i],
             d \in jobs => d \in jobs' \/ d \in added
      PROVE  Read(d)'
  BY <1>1, <1>9 DEF Read, Extends
<1>10. ASSUME stack # <<>>, d # Top.fd \/ Top.in \notin {"Load", "Finish"}
       PROVE  \A i \in DOMAIN stack : stack[i].in \in {"Load", "Finish"} /\ stack[i].fd = d =>
                 i \in DOMAIN Front(stack) /\ Front(stack)[i] = stack[i]
  BY <1>1, <1>10, PopFacts
<1>11. CASE Drag
  <2>1. stack # <<>> /\ stack' = Front(stack) /\ Top.in = "Drag" /\ UNCHANGED <<jobs, provider, m_pendingDnd>>
    BY <1>11 DEF Drag, Returned
  <2> QED
    BY <1>1, <1>9, <1>10, <2>1, ReturnFacts
<1>12. CASE LoadImage
  <2>1. /\ stack # <<>> /\ stack' = Front(stack) /\ jobs' = jobs \cup {Top.fd}
        /\ UNCHANGED <<provider, m_pendingDnd>>
    BY <1>12 DEF LoadImage
  <2>2. CASE d = Top.fd
    BY <2>1, <2>2 DEF Read
  <2>3. CASE d # Top.fd
    BY <1>1, <1>9, <1>10, <2>1, <2>3, ReturnFacts
  <2> QED
    BY <2>2, <2>3
<1>13. CASE FinishOnMain
  <2>1. /\ stack # <<>> /\ stack' = Front(stack) /\ UNCHANGED <<jobs, provider>>
        /\ m_pendingDnd' = [m_pendingDnd EXCEPT ![Top.fd] = None]
    BY <1>13 DEF FinishOnMain, TakePending
  <2>2. d # Top.fd /\ m_pendingDnd[d] # None
    BY <1>1, <2>1 DEF TypeInv
  <2> QED
    BY <1>1, <1>9, <1>10, <2>1, <2>2, ReturnFacts
<1>14. CASE DropFiles \/ DropImage
  <2>1. /\ stack # <<>> /\ Top.in = "Drop" /\ provider' = provider
        /\ m_pendingDnd' = [m_pendingDnd EXCEPT ![Top.fd] = Top.offer]
    BY <1>14 DEF DropFiles, DropImage, Returned
  <2>2. PICK c \in SUBSET jobs : jobs' = jobs \ c /\ Extends(Front(stack), stack', c \cup {Top.fd})
    <3>1. CASE DropFiles
      BY <1>1, <3>1, FilesFacts
    <3>2. CASE DropImage
      <4>1. jobs' = jobs \ jobs
        BY <3>2 DEF DropImage
      <4> QED
        BY <1>1, <3>2, <4>1, ImageFacts
    <3> QED
      BY <1>14, <3>1, <3>2
  <2>3. CASE d = Top.fd
    BY <2>2, <2>3 DEF Extends, Read
  <2>4. CASE d # Top.fd
    <3>1. m_pendingDnd[d] # None
      BY <1>1, <2>1, <2>4 DEF TypeInv
    <3>2. d \in jobs => d \in jobs' \/ d \in c \cup {Top.fd}
      BY <2>2
    <3> QED
      BY <1>9, <1>10, <2>1, <2>2, <2>4, <3>1, <3>2
  <2> QED
    BY <2>3, <2>4
<1>15. CASE LoadAnother
  <2>1. UNCHANGED <<provider, m_pendingDnd>>
    BY <1>15 DEF LoadAnother
  <2> QED
    BY <1>1, <1>9, <1>15, <2>1, AnotherFacts
<1>16. CASE ProviderTakes
  <2>1. provider = None /\ provider' \in jobs /\ jobs' = jobs \ {provider'} /\ UNCHANGED <<stack, m_pendingDnd>>
    BY <1>16 DEF ProviderTakes
  <2>2. d # None
    BY MaxOffersAssumption DEF Fds, None
  <2> QED
    BY <1>1, <2>1, <2>2 DEF Read
<1>17. CASE FinishOnProvider
  <2>1. m_pendingDnd' = [m_pendingDnd EXCEPT ![provider] = None] /\ UNCHANGED <<stack, jobs>>
    BY <1>17 DEF FinishOnProvider, TakePending
  <2>2. d # provider /\ m_pendingDnd[d] # None
    BY <1>1, <2>1 DEF TypeInv
  <2> QED
    BY <1>1, <2>1, <2>2 DEF Read
<1> QED
  BY <1>3, <1>4, <1>6, <1>7, <1>8, <1>11, <1>12, <1>13, <1>14, <1>15, <1>16, <1>17
     DEF Next, Compositor, MainStep, ProviderStep

LEMMA PendingStep ==
    ASSUME Inv, [Next]_vars
    PROVE  PendingInv'
<1>1. PendingOffersInv' /\ \A d \in Fds : m_pendingDnd'[d] # None => Read(d)'
  BY PendingOffersStep, ReadStep
<1> QED
  BY <1>1 DEF PendingInv, PendingOffersInv, Read

-----------------------------------------------------------------------------
(* The type that is accepted.                                              *)

\* The types of the offers that were made do not change.
LEMMA MimesStep ==
    ASSUME Inv, [Next]_vars
    PROVE  \A o \in 1 .. offers : mimes'[o] = mimes[o]
<1> USE DEF compositorVars, seatVars, providerVars, history
<1>1. CASE DragEnters
  <2>1. \E m \in SUBSET MimeTypes : mimes' = [mimes EXCEPT ![offers + 1] = m]
    BY <1>1 DEF DragEnters
  <2>2. \A o \in 1 .. offers : o # offers + 1 /\ o \in Offers
    <3>1. \A n \in 0 .. MaxOffers : \A o \in 1 .. n : o # n + 1 /\ o \in 1 .. MaxOffers
      BY MaxOffersAssumption
    <3> QED
      BY <3>1 DEF Inv, TypeInv, Offers
  <2> QED
    BY <2>1, <2>2 DEF Inv, TypeInv
<1>2. CASE mimes' = mimes
  BY <1>2
<1>3. CASE ~DragEnters
  <2>1. mimes' = mimes
    BY <1>3 DEF Next, Compositor, MainStep, ProviderStep, DragLeaves, DragDrops, RoundtripDone, DataOffer, DataEnter,
                DataLeave, DataDropForgets, DataDrop, Drag, DropFiles, DropImage, LoadImage, LoadAnother, FinishOnMain,
                CloseFd, ProviderTakes, FinishOnProvider, vars
  <2> QED
    BY <1>2, <2>1
<1> QED
  BY <1>1, <1>3

LEMMA AcceptStep ==
    ASSUME Inv, [Next]_vars
    PROVE  AcceptInv'
<1> USE DEF compositorVars, seatVars, providerVars, history
<1>1. /\ TypeInv /\ AcceptInv /\ OffersInv
      /\ \A o \in 1 .. offers : mimes'[o] = mimes[o]
      /\ \A i \in DOMAIN stack : stack[i].in = "Drag" => stack[i].offer \in 1 .. offers
  BY MimesStep DEF Inv, OffersInv
<1>2. m_dndOffer # None => m_dndOffer \in 1 .. offers
  <2>1. m_dndOffer \in Offers \cup {None} /\ m_dndOffer <= offers /\ offers \in Nat
    BY <1>1, MaxOffersAssumption DEF TypeInv, OffersInv, Known
  <2> QED
    BY <2>1, MaxOffersAssumption DEF Offers
<1>3. CASE UNCHANGED <<m_dndOffer, m_dndMime, reentered>> /\ Kept
  <2>1. ASSUME ~reentered, m_dndMime # "none"
        PROVE  m_dndMime \in mimes'[m_dndOffer]
    BY <1>1, <1>2, <2>1 DEF AcceptInv, OffersInv
  <2>2. ASSUME ~reentered, NEW i \in DOMAIN stack', stack'[i].in = "Drag"
        PROVE  /\ m_dndOffer = None \/ m_dndOffer = stack'[i].offer
               /\ "text/uri-list" \in mimes'[stack'[i].offer]
    BY <1>1, <1>3, <2>2 DEF AcceptInv, Kept
  <2> QED
    BY <1>3, <2>1, <2>2 DEF AcceptInv
<1>4. CASE DragEnters \/ DragLeaves \/ DragDrops \/ RoundtripDone \/ DataOffer
  <2>1. UNCHANGED <<m_dndOffer, m_dndMime, reentered>> /\ ~DataEnter /\ ~DataDrop
    BY <1>4 DEF DragEnters, DragLeaves, DragDrops, RoundtripDone, DataOffer, DataEnter, DataDrop, Dispatch
  <2> QED
    BY <1>3, <2>1, KeptStep
<1>5. CASE DropFiles \/ DropImage \/ LoadImage \/ LoadAnother \/ FinishOnMain
  <2>1. UNCHANGED <<m_dndOffer, m_dndMime, reentered>>
    BY <1>5 DEF DropFiles, DropImage, LoadImage, LoadAnother, FinishOnMain
  <2>2. Kept
    <3>1. TypeInv /\ FdsInv
      BY DEF Inv
    <3>2. (stack # <<>> /\ Returns) \/ Extends(stack, stack', jobs)
      <4>1. CASE LoadImage \/ FinishOnMain
        BY <3>1, <4>1, ReturnFacts DEF LoadImage, FinishOnMain, Returns
      <4>2. CASE DropFiles \/ DropImage
        <5>1. stack # <<>>
          BY <4>2 DEF DropFiles, DropImage, Returned
        <5>2. Top.fd \in Fds /\ jobs \subseteq Fds
          BY <3>1, <5>1, PopFacts DEF TypeInv
        <5>3. \E c \in SUBSET jobs : Extends(Front(stack), stack', c \cup {Top.fd})
          BY <3>1, <4>2, FilesFacts, ImageFacts
        <5> QED
          BY <5>1, <5>2, <5>3 DEF Returns
      <4>3. CASE LoadAnother
        BY <3>1, <4>3, AnotherFacts
      <4> QED
        BY <1>5, <4>1, <4>2, <4>3
    <3> QED
      BY <3>1, <3>2, ReturnsKeep
  <2> QED
    BY <1>3, <2>1, <2>2
<1>6. CASE ProviderStep \/ CloseFd("main") \/ UNCHANGED vars
  <2>1. UNCHANGED <<m_dndOffer, m_dndMime, reentered, stack>>
    BY <1>6 DEF ProviderStep, ProviderTakes, FinishOnProvider, CloseFd, vars
  <2> QED
    BY <1>1, <1>3, <2>1, SameFacts DEF Same, Kept
<1>7. CASE DataEnter
  <2>1. /\ m_dndOffer' = m_nextOffer
        /\ reentered' = (reentered \/ \E i \in DOMAIN stack : stack[i].in = "Drag")
    BY <1>7 DEF DataEnter, TakeOffer
  <2>2. m_nextOffer \in 1 .. offers
    BY <1>7, EnterFacts
  <2>3. CASE m_dndMime' = "none" /\ AskForFiles
    <3>1. Pushed("Drag", m_nextOffer) /\ "text/uri-list" \in mimes'[m_nextOffer]
      BY <1>1, <1>7, <2>2, <2>3, AskFacts
    <3>2. ASSUME ~reentered', NEW i \in DOMAIN stack', stack'[i].in = "Drag"
          PROVE  stack'[i].offer = m_nextOffer
      <4>1. \A j \in DOMAIN stack : stack[j].in # "Drag"
        BY <2>1, <3>2
      <4>2. i = Len(stack) + 1
        BY <3>1, <3>2, <4>1 DEF Pushed
      <4> QED
        BY <3>1, <4>2 DEF Pushed
    <3> QED
      BY <2>1, <2>3, <3>1, <3>2 DEF AcceptInv
  <2>4. CASE m_dndMime' = ImageOrNone(m_nextOffer) /\ UNCHANGED stack
    BY <1>1, <2>1, <2>2, <2>4 DEF AcceptInv, ImageOrNone
  <2> QED
    BY <1>7, <2>3, <2>4 DEF DataEnter
<1>8. CASE DataLeave \/ DataDropForgets
  <2>1. m_dndOffer' = None /\ m_dndMime' = "none" /\ UNCHANGED <<stack, reentered>>
    BY <1>8 DEF DataLeave, DataDropForgets
  <2> QED
    BY <1>1, <2>1 DEF AcceptInv
<1>9. CASE DataDrop
  <2>1. m_dndOffer' = None /\ m_dndMime' = "none" /\ UNCHANGED reentered
    BY <1>9 DEF DataDrop
  <2> QED
    BY <1>1, <1>9, <2>1, DropFacts DEF AcceptInv, Pushed
<1>10. CASE Drag
  <2>1. /\ stack # <<>> /\ stack' = Front(stack) /\ Top.in = "Drag" /\ UNCHANGED <<m_dndOffer, mimes, reentered>>
        /\ m_dndMime' \in (IF m_dndOffer = None THEN {m_dndMime}
                           ELSE {"text/uri-list"}
                                \cup (IF Top.offer \in alive THEN {ImageOrNone(Top.offer)} ELSE {"image/png", "none"}))
    BY <1>10 DEF Drag, Returned
  <2>2. /\ Len(stack) \in DOMAIN stack /\ Top = stack[Len(stack)]
        /\ \A i \in DOMAIN Front(stack) : i \in DOMAIN stack /\ Front(stack)[i] = stack[i]
    BY <2>1, PopFacts DEF Inv
  <2>3. ASSUME ~reentered, m_dndMime' # "none"
        PROVE  m_dndMime' \in mimes[m_dndOffer]
    <3>1. CASE m_dndOffer = None
      BY <1>1, <2>1, <2>3, <3>1 DEF AcceptInv
    <3>2. CASE m_dndOffer # None
      <4>1. m_dndOffer = Top.offer /\ "text/uri-list" \in mimes[Top.offer]
        BY <1>1, <2>1, <2>2, <2>3, <3>2 DEF AcceptInv
      <4>2. m_dndOffer \in alive
        BY <1>1, <3>2 DEF OffersInv
      <4>3. m_dndMime' = "text/uri-list" \/ m_dndMime' = ImageOrNone(Top.offer)
        BY <2>1, <3>2, <4>1, <4>2
      <4> QED
        BY <2>3, <4>1, <4>3 DEF ImageOrNone
    <3> QED
      BY <3>1, <3>2
  <2> QED
    BY <1>1, <2>1, <2>2, <2>3 DEF AcceptInv
<1> QED
  BY <1>4, <1>5, <1>6, <1>7, <1>8, <1>9, <1>10 DEF Next, Compositor, MainStep

-----------------------------------------------------------------------------
(* The theorems.                                                           *)

LEMMA InvInit == Init => Inv
<1> SUFFICES ASSUME Init
             PROVE  Inv
  OBVIOUS
<1> USE DEF Init
<1>1. TypeInv
  <2>1. /\ offers \in 0 .. MaxOffers /\ mimes \in [Offers -> SUBSET MimeTypes]
        /\ m_nextOffer \in Offers \cup {None} /\ m_dndOffer \in Offers \cup {None}
        /\ m_dndMime \in MimeTypes \cup {"none"} /\ m_pendingDnd \in [Fds -> Offers \cup {None}]
    BY MaxOffersAssumption
  <2>2. events \in Seq([type : EventTypes, n : Nat]) /\ stack \in Seq(Handlers)
    OBVIOUS
  <2>3. /\ closing \in [{"main", "provider"} -> Fds \cup {None}] /\ finished \in [Offers -> Nat]
        /\ open \subseteq Fds /\ jobs \subseteq Fds /\ provider \in Fds \cup {None}
        /\ alive \subseteq Offers /\ dropped \subseteq Offers /\ reentered \in BOOLEAN
    OBVIOUS
  <2> QED
    BY <2>1, <2>2, <2>3 DEF TypeInv
<1>2. /\ DOMAIN stack = {} /\ DOMAIN events = {} /\ m_nextOffer = None /\ m_dndOffer = None /\ offers = 0
      /\ \A d \in Fds : m_pendingDnd[d] = None
      /\ closing["main"] = None /\ closing["provider"] = None
  OBVIOUS
<1>3. EventsInv /\ DropsInv /\ AcceptInv /\ PendingInv
  BY <1>2 DEF EventsInv, Announced, DropsInv, AcceptInv, PendingInv
<1>4. OffersInv /\ FdsInv
  BY <1>2 DEF OffersInv, Known, None, FdsInv
<1>5. FinishedOnce
  BY DEF FinishedOnce
<1> QED
  BY <1>1, <1>3, <1>4, <1>5 DEF Inv

LEMMA InvStep == Inv /\ [Next]_vars => Inv'
BY TypeStep, EventsStep, OffersStep, FdsStep, PendingStep, DropsStep, FinishedStep, AcceptStep DEF Inv

\* The seat's offers, events, descriptors and pending drops stand in the relations
\* of Inv in every state.
THEOREM DragsAreInOrder == Spec => []Inv
BY InvInit, InvStep, PTL DEF Spec

\* However the provider's FinishDnd and DrainDnd on the main thread compete, and
\* however many drops there are: no offer is finished twice, and none that was
\* not dropped.
THEOREM NoOfferFinishedTwice == Spec => []FinishedOnce
<1>1. Inv => FinishedOnce
  BY DEF Inv
<1> QED
  BY <1>1, DragsAreInOrder, PTL

\* An offer that waits for the end of its drop has an open descriptor that
\* somebody reads from and will finish, and no descriptor is closed under its
\* reader.
THEOREM PendingIsRead == Spec => []PendingHasReader
<1>1. ASSUME Inv
      PROVE  PendingHasReader
  <2>1. PendingInv /\ FdsInv /\ TypeInv
    BY <1>1 DEF Inv
  <2>2. \A d \in Fds : d \in jobs \/ d = provider => d \in open
    <3>1. None \notin Fds
      BY MaxOffersAssumption DEF Fds, None
    <3> QED
      BY <2>1, <3>1 DEF FdsInv
  <2>3. ASSUME NEW d \in Fds, m_pendingDnd[d] # None
        PROVE  /\ d \in open
               /\ \/ d \in jobs \/ d = provider
                  \/ \E i \in DOMAIN stack : stack[i].in \in {"Load", "Finish"} /\ stack[i].fd = d
    BY <2>1, <2>2, <2>3 DEF PendingInv, FdsInv
  <2>4. \A d \in jobs \cup ({provider} \ {None}) \cup {stack[i].fd : i \in DOMAIN stack} : d \in open
    BY <2>1 DEF FdsInv
  <2> QED
    BY <2>3, <2>4 DEF PendingHasReader
<1> QED
  BY <1>1, DragsAreInOrder, PTL

\* Unless a drag entered while Drag was waiting for the list of files, the type
\* that is accepted is one the current offer has.
THEOREM AcceptedIsOffered == Spec => []AcceptedWasOffered
<1>1. Inv => AcceptedWasOffered
  BY DEF Inv, OffersInv, AcceptInv, AcceptedWasOffered
<1> QED
  BY <1>1, DragsAreInOrder, PTL

=============================================================================

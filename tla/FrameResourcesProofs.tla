------------------------ MODULE FrameResourcesProofs ------------------------
(***************************************************************************)
(* For any number of images, swapchains and textures: fences are never     *)
(* reused while they belong to work that is not over, nothing is destroyed *)
(* that work still uses, and nothing is left when the collector is gone.   *)
(*                                                                         *)
(* The first part needs only where the fences are (Inv).  The others need  *)
(* what every piece of work uses (WorkInv), and that whatever waits for a  *)
(* fence is used by no work later than work that signals the fence         *)
(* (GarbageInv).                                                           *)
(***************************************************************************)
EXTENDS FrameResources, TLAPS

\* A queue of work whose fences are unsignaled and its own.
Pending(q) == \A i \in DOMAIN q : ~signaled[q[i].fence] /\ \A j \in DOMAIN q : q[j].fence = q[i].fence => i = j

\* The ring is that of the last swapchain, and the index is inside it.
RingInv ==
    /\ swapchains \in 1 .. MaxSwapchains
    /\ m_frameData = Ring(swapchains)
    /\ m_frameIdx \in 0 .. NumImages - 1

\* Submissions signal render fences, presents signal present fences.
QueuesInv ==
    /\ signaled \in [AllFences -> BOOLEAN]
    /\ gpu \in Seq([fence : {RenderFence(n) : n \in Slots}, uses : SUBSET AllObjects])
    /\ presents \in Seq([fence : {PresentFence(n) : n \in Slots}, uses : SUBSET AllObjects])
    /\ Pending(gpu) /\ Pending(presents)

\* The render fence of the current slot is signaled between the wait for it and
\* its reset, and then belongs to no submission until this frame is submitted;
\* the slots of swapchains to come are fresh.
FenceInv ==
    /\ main = "acquire" => signaled[RenderFence(Slot)]
    /\ main = "record" =>
          ~signaled[RenderFence(Slot)] /\ \A i \in DOMAIN gpu : gpu[i].fence # RenderFence(Slot)
    /\ \A n \in Slots : n > swapchains * NumImages => signaled[RenderFence(n)]

\* A swapchain is only replaced if another one can be made.
CleanupInv ==
    main = "cleanup" => \/ then \in {"begin", "acquire"} /\ swapchains < MaxSwapchains
                        \/ then = "shutdown"

Inv ==
    /\ RingInv /\ QueuesInv /\ FenceInv /\ CleanupInv
    /\ recording \subseteq AllObjects /\ textures \in 1 .. MaxTextures

-----------------------------------------------------------------------------

\* The slots of the k-th swapchain follow those of the swapchains before it.
LEMMA RingSlots ==
    ASSUME NEW k \in 1 .. MaxSwapchains, NEW i \in 0 .. NumImages - 1
    PROVE  /\ Ring(k)[i + 1] = (k - 1) * NumImages + i + 1
           /\ Ring(k)[i + 1] \in Slots
           /\ Ring(k)[i + 1] <= k * NumImages
           /\ Ring(k)[i + 1] > (k - 1) * NumImages
           /\ Len(Ring(k)) = NumImages
<1>1. Ring(k)[i + 1] = (k - 1) * NumImages + i + 1
  BY BoundsAssumption DEF Ring
<1>2. Len(Ring(k)) = NumImages
  BY BoundsAssumption DEF Ring
<1>3. k * NumImages = (k - 1) * NumImages + NumImages
  BY BoundsAssumption
<1>4. (k - 1) * NumImages \in Nat /\ k * NumImages <= NumImages * MaxSwapchains
  <2>1. k - 1 \in Nat /\ MaxSwapchains - k \in Nat
    BY BoundsAssumption
  <2>2. \A a, b \in Nat : a * b \in Nat
    OBVIOUS
  <2>3. (MaxSwapchains - k) * NumImages \in Nat
    BY <2>1, <2>2, BoundsAssumption
  <2>4. NumImages * MaxSwapchains = (MaxSwapchains - k) * NumImages + k * NumImages
    BY BoundsAssumption
  <2>5. (k - 1) * NumImages \in Nat /\ k * NumImages \in Nat /\ NumImages * MaxSwapchains \in Nat
    BY <2>1, <2>2, BoundsAssumption
  <2> QED
    BY <2>3, <2>4, <2>5
<1>5. NumImages * MaxSwapchains \in Nat
  BY BoundsAssumption
<1> QED
  BY <1>1, <1>2, <1>3, <1>4, <1>5, BoundsAssumption DEF Slots

\* The current slot.
LEMMA CurrentSlot ==
    ASSUME RingInv
    PROVE  /\ Slot \in Slots /\ Slot <= swapchains * NumImages
           /\ Len(m_frameData) = NumImages
BY RingSlots DEF RingInv, Slot

\* Fences of different kinds or slots are different, and all have a state.
LEMMA FencesDiffer ==
    /\ \A n, m \in Slots : RenderFence(n) = RenderFence(m) => n = m
    /\ \A n, m \in Slots : PresentFence(n) = PresentFence(m) => n = m
    /\ \A n, m \in Slots : RenderFence(n) # PresentFence(m)
    /\ \A n \in Slots : RenderFence(n) \in AllFences /\ PresentFence(n) \in AllFences
BY DEF RenderFence, PresentFence, AllFences

\* Adding work with a fence that the queue does not hold, and resetting it.
LEMMA PendingAppend ==
    ASSUME NEW S, NEW q \in Seq(S), NEW e \in S, NEW s, Pending(q),
           \A i \in DOMAIN q : q[i].fence # e.fence /\ s[q[i].fence] = signaled[q[i].fence],
           ~s[e.fence], signaled' = s
    PROVE  \A i \in DOMAIN Append(q, e) :
               /\ ~signaled'[Append(q, e)[i].fence]
               /\ \A j \in DOMAIN Append(q, e) : Append(q, e)[j].fence = Append(q, e)[i].fence => i = j
<1>1. /\ DOMAIN q = 1 .. Len(q) /\ Len(q) \in Nat
      /\ DOMAIN Append(q, e) = 1 .. Len(q) + 1
      /\ \A i \in 1 .. Len(q) : Append(q, e)[i] = q[i]
      /\ Append(q, e)[Len(q) + 1] = e
  OBVIOUS
<1> QED
  BY <1>1 DEF Pending

\* The first work of a queue is over.
LEMMA PendingTail ==
    ASSUME NEW S, NEW q \in Seq(S), q # <<>>, Pending(q),
           NEW F, signaled \in [F -> BOOLEAN], \A i \in DOMAIN q : q[i].fence \in F,
           signaled' = [signaled EXCEPT ![Head(q).fence] = TRUE]
    PROVE  /\ Tail(q) \in Seq(S)
           /\ \A i \in DOMAIN Tail(q) :
               /\ ~signaled'[Tail(q)[i].fence]
               /\ \A j \in DOMAIN Tail(q) : Tail(q)[j].fence = Tail(q)[i].fence => i = j
           /\ \A i \in DOMAIN Tail(q) : \E j \in DOMAIN q : Tail(q)[i] = q[j]
<1>1. /\ DOMAIN q = 1 .. Len(q) /\ Len(q) \in Nat \ {0}
      /\ Tail(q) \in Seq(S)
      /\ DOMAIN Tail(q) = 1 .. Len(q) - 1
      /\ \A i \in 1 .. Len(q) - 1 : Tail(q)[i] = q[i + 1]
      /\ Head(q) = q[1]
  OBVIOUS
<1>2. ASSUME NEW i \in 1 .. Len(q) - 1
      PROVE  /\ ~signaled'[Tail(q)[i].fence]
             /\ \A j \in DOMAIN Tail(q) : Tail(q)[j].fence = Tail(q)[i].fence => i = j
  <2>1. i + 1 \in DOMAIN q /\ 1 \in DOMAIN q /\ i + 1 # 1
    BY <1>1
  <2>2. q[i + 1].fence # q[1].fence /\ ~signaled[q[i + 1].fence]
    BY <2>1 DEF Pending
  <2>3. ~signaled'[q[i + 1].fence]
    BY <1>1, <2>1, <2>2
  <2>4. ASSUME NEW j \in 1 .. Len(q) - 1, q[j + 1].fence = q[i + 1].fence
        PROVE  i = j
    <3>1. j + 1 \in DOMAIN q
      BY <1>1
    <3>2. i + 1 = j + 1
      BY <2>1, <2>4, <3>1 DEF Pending
    <3> QED
      BY <3>2
  <2> QED
    BY <1>1, <2>3, <2>4
<1>3. \A i \in DOMAIN Tail(q) : \E j \in DOMAIN q : Tail(q)[i] = q[j]
  <2> SUFFICES ASSUME NEW i \in 1 .. Len(q) - 1
               PROVE  \E j \in DOMAIN q : Tail(q)[i] = q[j]
    BY <1>1
  <2>1. i + 1 \in DOMAIN q /\ Tail(q)[i] = q[i + 1]
    BY <1>1
  <2> QED
    BY <2>1
<1> QED
  BY <1>1, <1>2, <1>3

\* The fences of a queue of work.
LEMMA FencesOf ==
    ASSUME NEW F, NEW U, NEW q \in Seq([fence : F, uses : U])
    PROVE  \A i \in DOMAIN q : q[i].fence \in F
<1> SUFFICES ASSUME NEW i \in DOMAIN q
             PROVE  q[i].fence \in F
  OBVIOUS
<1>1. q[i] \in [fence : F, uses : U]
  <2> DEFINE E == [fence : F, uses : U]
  <2>1. q \in Seq(E)
    OBVIOUS
  <2> HIDE DEF E
  <2>2. q[i] \in E
    BY <2>1
  <2> QED
    BY <2>2 DEF E
<1> QED
  BY <1>1

\* Submissions have render fences, presents have present fences.
LEMMA FencesOfQueues ==
    ASSUME QueuesInv
    PROVE  /\ \A i \in DOMAIN gpu : \E n \in Slots : gpu[i].fence = RenderFence(n)
           /\ \A i \in DOMAIN presents : \E n \in Slots : presents[i].fence = PresentFence(n)
           /\ \A i \in DOMAIN gpu : gpu[i].fence \in AllFences
           /\ \A i \in DOMAIN presents : presents[i].fence \in AllFences
           /\ gpu # <<>> => Head(gpu) = gpu[1] /\ 1 \in DOMAIN gpu
           /\ presents # <<>> => Head(presents) = presents[1] /\ 1 \in DOMAIN presents
<1>1. \A i \in DOMAIN gpu : gpu[i].fence \in {RenderFence(n) : n \in Slots}
  BY FencesOf DEF QueuesInv
<1>2. \A i \in DOMAIN presents : presents[i].fence \in {PresentFence(n) : n \in Slots}
  BY FencesOf DEF QueuesInv
<1>3. /\ gpu # <<>> => Head(gpu) = gpu[1] /\ 1 \in DOMAIN gpu
      /\ presents # <<>> => Head(presents) = presents[1] /\ 1 \in DOMAIN presents
  <2> DEFINE E == [fence : {RenderFence(n) : n \in Slots}, uses : SUBSET AllObjects]
             P == [fence : {PresentFence(n) : n \in Slots}, uses : SUBSET AllObjects]
  <2>1. gpu \in Seq(E) /\ presents \in Seq(P)
    BY DEF QueuesInv
  <2> HIDE DEF E, P
  <2> QED
    BY <2>1
<1> QED
  BY <1>1, <1>2, <1>3 DEF AllFences

-----------------------------------------------------------------------------
(* The invariant is preserved.                                             *)

\* Steps that touch neither fences nor work nor the ring.
LEMMA OtherStep ==
    ASSUME Inv, UNCHANGED <<signaled, gpu, presents, recording, m_frameData, m_frameIdx, swapchains>>,
           textures' \in 1 .. MaxTextures, CleanupInv',
           main' = "acquire" => main = "acquire" \/ (main = "wait" /\ signaled[RenderFence(Slot)]),
           main' = "record" => main = "record"
    PROVE  Inv'
<1> USE DEF Inv
<1>1. RingInv'
  BY DEF RingInv
<1>2. QueuesInv'
  BY DEF QueuesInv, Pending
<1>3. FenceInv'
  BY DEF FenceInv, Slot
<1> QED
  BY <1>1, <1>2, <1>3

\* The ring goes around.
LEMMA BeginStep ==
    ASSUME Inv, BeginFrame
    PROVE  Inv'
<1> USE DEF Inv
<1>1. Len(m_frameData) = NumImages
  BY CurrentSlot
<1>2. m_frameIdx' \in 0 .. NumImages - 1
  BY <1>1, BoundsAssumption DEF BeginFrame, RingInv
<1>3. UNCHANGED <<signaled, gpu, presents, recording, m_frameData, swapchains, textures>> /\ main' = "wait"
  BY DEF BeginFrame, gpuVars
<1>4. RingInv' /\ QueuesInv' /\ FenceInv' /\ CleanupInv'
  BY <1>2, <1>3 DEF RingInv, QueuesInv, FenceInv, CleanupInv, Pending
<1> QED
  BY <1>3, <1>4

\* A fence is reset only when it is signaled, so no submission holds it.
LEMMA AcquireStep ==
    ASSUME Inv, Acquire
    PROVE  Inv'
<1> USE DEF Inv
<1> DEFINE n == Slot
<1>1. n \in Slots /\ n <= swapchains * NumImages
  BY CurrentSlot
<1>2. /\ main = "acquire" /\ main' = "record" /\ signaled[RenderFence(n)]
      /\ signaled' = [signaled EXCEPT ![RenderFence(n)] = FALSE]
      /\ UNCHANGED <<gpu, presents, m_frameData, m_frameIdx, swapchains, textures>>
  BY DEF Acquire, ringVars, FenceInv
<1>3. RingInv' /\ Slot' = n
  BY <1>2 DEF RingInv, Slot
<1>4. recording' \subseteq AllObjects
  BY <1>1 DEF Acquire, AllObjects
<1> HIDE DEF n
<1>5. /\ \A f \in AllFences : f # RenderFence(n) => signaled'[f] = signaled[f]
      /\ ~signaled'[RenderFence(n)]
      /\ signaled' \in [AllFences -> BOOLEAN]
  BY <1>1, <1>2, FencesDiffer DEF QueuesInv
<1>6. \A i \in DOMAIN gpu : gpu[i].fence # RenderFence(n) /\ gpu[i].fence \in AllFences
  BY <1>2, FencesOfQueues DEF QueuesInv, Pending
<1>7. \A i \in DOMAIN presents : presents[i].fence # RenderFence(n) /\ presents[i].fence \in AllFences
  BY <1>1, FencesDiffer, FencesOfQueues
<1>8. Pending(gpu)'
  BY <1>2, <1>5, <1>6 DEF QueuesInv, Pending
<1>9. Pending(presents)'
  BY <1>2, <1>5, <1>7 DEF QueuesInv, Pending
<1>10. QueuesInv'
  BY <1>2, <1>5, <1>8, <1>9 DEF QueuesInv
<1>11. FenceInv'
  <2>1. ASSUME NEW k \in Slots, k > swapchains * NumImages
        PROVE  signaled'[RenderFence(k)]
    <3>1. k # n /\ signaled[RenderFence(k)]
      BY <1>1, <2>1, BoundsAssumption DEF FenceInv, Slots, RingInv
    <3> QED
      BY <1>1, <1>5, <3>1, FencesDiffer
  <2> QED
    BY <1>2, <1>3, <1>5, <1>6, <2>1 DEF FenceInv
<1>12. CleanupInv'
  BY <1>2 DEF CleanupInv
<1> QED
  BY <1>2, <1>3, <1>4, <1>10, <1>11, <1>12

\* The render fence of the slot is submitted; its present fence is signaled, so
\* no present holds it.
LEMMA EndStep ==
    ASSUME Inv, EndFrame
    PROVE  Inv'
<1> USE DEF Inv
<1> DEFINE n == Slot
           e == [fence |-> RenderFence(n), uses |-> recording]
           p == [fence |-> PresentFence(n), uses |-> {Semaphores(n), Swapchain(swapchains)}]
<1>1. n \in Slots
  BY CurrentSlot
<1>2. /\ main = "record" /\ main' = "idle" /\ signaled[PresentFence(n)]
      /\ signaled' = [signaled EXCEPT ![PresentFence(n)] = FALSE]
      /\ gpu' = Append(gpu, e) /\ presents' = Append(presents, p) /\ recording' = {}
      /\ UNCHANGED <<m_frameData, m_frameIdx, swapchains, textures>>
  BY DEF EndFrame
<1>3. /\ e \in [fence : {RenderFence(k) : k \in Slots}, uses : SUBSET AllObjects]
      /\ p \in [fence : {PresentFence(k) : k \in Slots}, uses : SUBSET AllObjects]
      /\ e.fence = RenderFence(n) /\ p.fence = PresentFence(n)
  BY <1>1 DEF AllObjects, RingInv
<1>4. RingInv'
  BY <1>2 DEF RingInv
<1> HIDE DEF n, e, p
<1>5. /\ \A f \in AllFences : f # PresentFence(n) => signaled'[f] = signaled[f]
      /\ ~signaled'[PresentFence(n)]
      /\ signaled' \in [AllFences -> BOOLEAN]
  BY <1>1, <1>2, FencesDiffer DEF QueuesInv
<1>6. /\ ~signaled[RenderFence(n)]
      /\ \A i \in DOMAIN gpu : gpu[i].fence # RenderFence(n)
  BY <1>2 DEF FenceInv, n
<1>7. \A k \in Slots : signaled'[RenderFence(k)] = signaled[RenderFence(k)]
  BY <1>1, <1>5, FencesDiffer
<1>8. \A i \in DOMAIN gpu : signaled'[gpu[i].fence] = signaled[gpu[i].fence]
  BY <1>7, FencesOfQueues
<1>9. \A i \in DOMAIN presents : presents[i].fence # PresentFence(n) /\ presents[i].fence \in AllFences
  BY <1>2, FencesOfQueues DEF QueuesInv, Pending
<1>10. Pending(gpu)'
  <2>1. ~signaled'[e.fence]
    BY <1>1, <1>3, <1>6, <1>7
  <2> QED
    BY <1>2, <1>3, <1>6, <1>8, <2>1, PendingAppend DEF QueuesInv, Pending
<1>11. Pending(presents)'
  BY <1>2, <1>3, <1>5, <1>9, PendingAppend DEF QueuesInv, Pending
<1>12. QueuesInv'
  BY <1>2, <1>3, <1>5, <1>10, <1>11 DEF QueuesInv
<1>13. FenceInv' /\ CleanupInv'
  BY <1>2, <1>7 DEF FenceInv, CleanupInv
<1> QED
  BY <1>2, <1>4, <1>12, <1>13

\* The new ring consists of fresh slots.
LEMMA CreateStep ==
    ASSUME Inv, CreateSwapchain
    PROVE  Inv'
<1> USE DEF Inv
<1>1. /\ main = "cleanup" /\ then \in {"begin", "acquire"} /\ swapchains < MaxSwapchains
      /\ swapchains' = swapchains + 1 /\ m_frameData' = Ring(swapchains + 1) /\ main' = then
      /\ UNCHANGED <<signaled, gpu, presents, recording, m_frameIdx, textures>>
  BY DEF CreateSwapchain, gpuVars, CleanupInv
<1>2. swapchains' \in 1 .. MaxSwapchains /\ swapchains \in Nat
  BY <1>1, BoundsAssumption DEF RingInv
<1>3. RingInv'
  BY <1>1, <1>2 DEF RingInv
<1>4. QueuesInv'
  BY <1>1 DEF QueuesInv, Pending
<1>5. Slot' \in Slots /\ Slot' > swapchains * NumImages
  <2>1. Slot' = Ring(swapchains + 1)[m_frameIdx + 1]
    BY <1>1 DEF Slot
  <2>2. swapchains + 1 - 1 = swapchains /\ m_frameIdx \in 0 .. NumImages - 1
    BY <1>2 DEF RingInv
  <2> QED
    BY <1>1, <1>2, <2>1, <2>2, RingSlots
<1>6. signaled[RenderFence(Slot')]
  BY <1>5 DEF FenceInv
<1>7. \A n \in Slots : n > swapchains' * NumImages => n > swapchains * NumImages
  <2>1. (swapchains + 1) * NumImages = swapchains * NumImages + NumImages /\ swapchains * NumImages \in Int
    BY <1>2, BoundsAssumption
  <2> QED
    BY <1>1, <2>1, BoundsAssumption DEF Slots
<1>8. FenceInv'
  <2>1. main' = "acquire" => signaled'[RenderFence(Slot)']
    BY <1>1, <1>6 DEF RenderFence
  <2> QED
    BY <1>1, <1>7, <2>1 DEF FenceInv
<1>9. CleanupInv'
  BY <1>1 DEF CleanupInv
<1> QED
  BY <1>1, <1>3, <1>4, <1>8, <1>9

\* The GPU signals the fence of the first submission or present, which then
\* belongs to none.
LEMMA GpuStep ==
    ASSUME Inv, GpuDone \/ PresentDone
    PROVE  Inv'
<1> USE DEF Inv
<1>1. UNCHANGED <<main, ringVars, recording, cleanupVars>>
  BY DEF GpuDone, PresentDone
<1>2. RingInv' /\ CleanupInv' /\ Slot' = Slot /\ UNCHANGED <<swapchains, textures>>
  BY <1>1 DEF ringVars, cleanupVars, RingInv, CleanupInv, Slot
<1>3. Slot \in Slots
  BY CurrentSlot
<1>4. CASE GpuDone
  <2>1. /\ gpu # <<>> /\ gpu' = Tail(gpu) /\ presents' = presents
        /\ signaled' = [signaled EXCEPT ![Head(gpu).fence] = TRUE]
    BY <1>4 DEF GpuDone
  <2>2. /\ \A i \in DOMAIN gpu : gpu[i].fence \in AllFences
        /\ Head(gpu) = gpu[1] /\ 1 \in DOMAIN gpu
    BY <2>1, FencesOfQueues
  <2>3. /\ gpu' \in Seq([fence : {RenderFence(n) : n \in Slots}, uses : SUBSET AllObjects])
        /\ Pending(gpu)'
        /\ \A i \in DOMAIN gpu' : \E j \in DOMAIN gpu : gpu'[i] = gpu[j]
    <3> DEFINE E == [fence : {RenderFence(n) : n \in Slots}, uses : SUBSET AllObjects]
    <3>1. gpu \in Seq(E) /\ signaled \in [AllFences -> BOOLEAN] /\ Pending(gpu)
      BY DEF QueuesInv
    <3> HIDE DEF E
    <3>2. /\ Tail(gpu) \in Seq(E)
          /\ \A i \in DOMAIN Tail(gpu) :
                /\ ~signaled'[Tail(gpu)[i].fence]
                /\ \A j \in DOMAIN Tail(gpu) : Tail(gpu)[j].fence = Tail(gpu)[i].fence => i = j
          /\ \A i \in DOMAIN Tail(gpu) : \E j \in DOMAIN gpu : Tail(gpu)[i] = gpu[j]
      BY <2>1, <2>2, <3>1, PendingTail
    <3> QED
      BY <2>1, <3>2 DEF Pending, E
  <2>4. /\ signaled' \in [AllFences -> BOOLEAN]
        /\ \A f \in AllFences : f # gpu[1].fence => signaled'[f] = signaled[f]
        /\ signaled'[gpu[1].fence]
    BY <2>1, <2>2 DEF QueuesInv
  <2>5. \A i \in DOMAIN presents : presents[i].fence \in AllFences /\ presents[i].fence # gpu[1].fence
    BY <2>2, FencesOfQueues, FencesDiffer
  <2>6. Pending(presents)'
    BY <2>1, <2>4, <2>5 DEF QueuesInv, Pending
  <2>7. QueuesInv'
    BY <2>1, <2>3, <2>4, <2>6 DEF QueuesInv
  <2>8. \A n \in Slots : signaled[RenderFence(n)] => signaled'[RenderFence(n)]
    BY <2>4, FencesDiffer
  <2>9. main = "record" => gpu[1].fence # RenderFence(Slot)
    BY <2>2 DEF FenceInv
  <2>10. main = "record" => ~signaled'[RenderFence(Slot)]
    BY <1>3, <2>4, <2>9, FencesDiffer DEF FenceInv
  <2>11. main = "record" => \A i \in DOMAIN gpu' : gpu'[i].fence # RenderFence(Slot)
    BY <2>3 DEF FenceInv
  <2>12. FenceInv'
    BY <1>1, <1>2, <1>3, <2>8, <2>10, <2>11 DEF FenceInv
  <2> QED
    BY <1>1, <1>2, <2>7, <2>12
<1>5. CASE PresentDone
  <2>1. /\ presents # <<>> /\ presents' = Tail(presents) /\ gpu' = gpu
        /\ signaled' = [signaled EXCEPT ![Head(presents).fence] = TRUE]
    BY <1>5 DEF PresentDone
  <2>2. /\ \A i \in DOMAIN presents : presents[i].fence \in AllFences
        /\ Head(presents) = presents[1] /\ 1 \in DOMAIN presents
    BY <2>1, FencesOfQueues
  <2>3. /\ presents' \in Seq([fence : {PresentFence(n) : n \in Slots}, uses : SUBSET AllObjects])
        /\ Pending(presents)'
    BY <2>1, <2>2, PendingTail DEF QueuesInv, Pending
  <2>4. /\ signaled' \in [AllFences -> BOOLEAN]
        /\ \A f \in AllFences : f # presents[1].fence => signaled'[f] = signaled[f]
    BY <2>1, <2>2 DEF QueuesInv
  <2>5. \A n \in Slots : signaled'[RenderFence(n)] = signaled[RenderFence(n)]
    BY <2>2, <2>4, FencesOfQueues, FencesDiffer
  <2>6. \A i \in DOMAIN gpu : signaled'[gpu[i].fence] = signaled[gpu[i].fence]
    BY <2>5, FencesOfQueues
  <2>7. Pending(gpu)'
    BY <2>1, <2>6 DEF QueuesInv, Pending
  <2>8. QueuesInv'
    BY <2>1, <2>3, <2>4, <2>7 DEF QueuesInv
  <2>9. FenceInv'
    BY <1>1, <1>2, <1>3, <2>1, <2>5 DEF FenceInv
  <2> QED
    BY <1>1, <1>2, <2>8, <2>9
<1> QED
  BY <1>4, <1>5

\* The invariant holds at first.
LEMMA InvInit == Init => Inv
<1> SUFFICES ASSUME Init
             PROVE  Inv
  OBVIOUS
<1>1. RingInv /\ textures \in 1 .. MaxTextures /\ recording \subseteq AllObjects
  BY BoundsAssumption DEF Init, RingInv
<1>2. signaled = [f \in AllFences |-> TRUE]
  BY DEF Init, GarbageInit
<1>3. signaled \in [AllFences -> BOOLEAN] /\ \A n \in Slots : signaled[RenderFence(n)]
  BY <1>2, FencesDiffer
<1>4. QueuesInv
  BY <1>3 DEF Init, QueuesInv, Pending
<1>5. FenceInv /\ CleanupInv
  BY <1>3 DEF Init, FenceInv, CleanupInv
<1> QED
  BY <1>1, <1>4, <1>5 DEF Inv

\* The invariant is inductive.
LEMMA InvStep == Inv /\ [Next]_vars => Inv'
<1> SUFFICES ASSUME Inv, [Next]_vars
             PROVE  Inv'
  OBVIOUS
<1> DEFINE still == UNCHANGED <<signaled, gpu, presents, recording, m_frameData, m_frameIdx, swapchains>>
<1>1. CASE Render \/ WaitRender \/ Shutdown \/ NotifyReaper \/ Joined \/ Close
  <2>1. still /\ textures' = textures /\ main' # "record" /\ CleanupInv'
        /\ (main' = "acquire" => main = "wait" /\ signaled[RenderFence(Slot)])
    BY <1>1 DEF Render, WaitRender, Shutdown, NotifyReaper, Joined, Close, CleanupInv, ringVars, gpuVars
  <2> QED
    BY <2>1, OtherStep DEF Inv
<1>2. CASE Replace
  <2>1. still /\ main' = main /\ then' = then /\ textures < MaxTextures /\ textures' = textures + 1
    BY <1>2 DEF Replace, gpuVars, cleanupVars
  <2>2. textures' \in 1 .. MaxTextures /\ CleanupInv'
    BY <2>1, BoundsAssumption DEF Inv, CleanupInv
  <2> QED
    BY <2>1, <2>2, OtherStep
<1>3. CASE Resize \/ AcquireFailed
  <2>1. still /\ textures' = textures /\ main' = "cleanup" /\ CleanupInv'
    BY <1>3 DEF Resize, AcquireFailed, CleanupInv, ringVars, gpuVars
  <2> QED
    BY <2>1, OtherStep DEF Inv
<1>4. CASE CleanupSwapchain \/ Reaper \/ UNCHANGED vars
  <2>1. still /\ textures' = textures /\ main' = main /\ CleanupInv'
    BY <1>4 DEF CleanupSwapchain, Reaper, vars, Inv, CleanupInv, ringVars, gpuVars, cleanupVars
  <2> QED
    BY <2>1, OtherStep DEF Inv
<1> QED
  BY <1>1, <1>2, <1>3, <1>4, BeginStep, AcquireStep, EndStep, CreateStep, GpuStep DEF Next, MainStep

\* No fence belongs to two pieces of work, and none is signaled, reset or
\* submitted again before its work is over, whatever the size of the ring.
THEOREM FencesNeverReused == Spec => []FencesAreFree
<1>1. Inv => FencesAreFree
  BY DEF Inv, QueuesInv, Pending, FencesAreFree
<1> QED
  BY <1>1, InvInit, InvStep, PTL DEF Spec

-----------------------------------------------------------------------------
(* Nothing is destroyed while it is in use.                                *)

\* By how many frames the presents are behind the submissions: the i-th
\* submission belongs to the present i + Lag.
Lag == Len(presents) - Len(gpu)

\* If f is signaled no work uses o: all that does is not later than work that
\* signals f.  A present is over after its submission, not the other way round.
Covered(o, f) ==
    /\ \A i \in DOMAIN gpu : o \in gpu[i].uses =>
          \/ \E j \in DOMAIN gpu : j >= i /\ gpu[j].fence = f
          \/ \E j \in DOMAIN presents : j >= i + Lag /\ presents[j].fence = f
    /\ \A i \in DOMAIN presents : o \in presents[i].uses =>
          \E j \in DOMAIN presents : j >= i /\ presents[j].fence = f

\* The swapchains NothingFreedInUse leaves out.
Excepted == {Swapchain(k) : k \in outOfDate}

\* What no frame will be drawn with any more: the rings and textures replaced,
\* when the viewer closes the last ones too.
RetiredRings == IF main = "cleanup" \/ then = "shutdown" THEN swapchains ELSE swapchains - 1
RetiredTextures == IF then = "shutdown" THEN textures ELSE textures - 1
FirstObjects(r, t) ==
    {o \in AllObjects :
        \/ \E n \in Slots : n <= r * NumImages /\ o \in {CommandBuffer(n), Semaphores(n)}
        \/ \E k \in 1 .. r : o = Swapchain(k)
        \/ \E m \in 1 .. t : o = Texture(m)}
Retired == FirstObjects(RetiredRings, RetiredTextures)

MadeSlots == {n \in Slots : n <= swapchains * NumImages}

\* What submissions and presents are made of, and which the last ones are.
WorkInv ==
    /\ Len(gpu) <= Len(presents)
    /\ \A i \in DOMAIN gpu : \E n \in MadeSlots, t \in 1 .. textures :
          /\ gpu[i] = [fence |-> RenderFence(n), uses |-> {CommandBuffer(n), Semaphores(n), Texture(t)}]
          /\ presents[i + Lag].fence = PresentFence(n)
    /\ \A i \in DOMAIN presents : \E n \in MadeSlots, k \in 1 .. swapchains :
          presents[i] = [fence |-> PresentFence(n), uses |-> {Semaphores(n), Swapchain(k)}]
    /\ recording = IF main = "record" THEN {CommandBuffer(Slot), Semaphores(Slot), Texture(textures)} ELSE {}
    /\ gpu # <<>> => gpu[Len(gpu)].fence = m_currentRenderFence
    /\ main = "idle" \/ (main = "cleanup" /\ then # "acquire") => m_currentRenderFence \in AllFences
    /\ main = "idle" /\ presents # <<>> => presents[Len(presents)].fence = PresentFence(Slot)

\* What waits for a fence, and what CleanupSwapchain is about to hand over.
InGarbage == UNION {m_garbage[f] : f \in AllFences}
Coming == UNION {recycling[i].objects : i \in DOMAIN recycling}

\* Where the main thread and the reaper stand.
PhaseInv ==
    /\ m_garbage \in [AllFences -> SUBSET AllObjects]
    /\ recycling \in Seq([fence : AllFences, objects : SUBSET AllObjects])
    /\ recycling # <<>> => main = "cleanup"
    /\ tmp # {} => reaper = "destroy"
    /\ main \in {"notify", "join", "gone"} <=> m_shutdown
    /\ m_shutdown => then = "shutdown"
    /\ then = "shutdown" => m_shutdown \/ main = "cleanup"
    /\ main = "gone" => reaper = "exited" /\ InGarbage = {} /\ gpu = <<>> /\ presents = <<>>

\* What is retired is with the collector or about to be, and nothing else is.
Accounted == destroyed \cup tmp \cup InGarbage \cup Coming = Retired

WaitsForItsWork ==
    /\ \A f \in AllFences : \A o \in m_garbage[f] : o \in Excepted \/ Covered(o, f)
    /\ \A i \in DOMAIN recycling : \A o \in recycling[i].objects : o \in Excepted \/ Covered(o, recycling[i].fence)

TakenIsUnused == \A o \in tmp \cup destroyed : o \in Excepted \/ o \notin InFlight

GarbageInv == PhaseInv /\ Accounted /\ WaitsForItsWork /\ TakenIsUnused

AllInv == Inv /\ WorkInv /\ GarbageInv

-----------------------------------------------------------------------------

\* Sequences without their first element, or with another one at the end.
LEMMA TailFacts ==
    ASSUME NEW S, NEW q \in Seq(S), q # <<>>
    PROVE  /\ Tail(q) \in Seq(S) /\ Head(q) = q[1]
           /\ Len(q) \in Nat \ {0} /\ DOMAIN q = 1 .. Len(q)
           /\ Len(Tail(q)) = Len(q) - 1 /\ DOMAIN Tail(q) = 1 .. Len(q) - 1
           /\ \A i \in 1 .. Len(q) - 1 : Tail(q)[i] = q[i + 1]
OBVIOUS

LEMMA AppendFacts ==
    ASSUME NEW S, NEW q \in Seq(S), NEW e \in S
    PROVE  /\ Append(q, e) \in Seq(S)
           /\ Len(q) \in Nat /\ DOMAIN q = 1 .. Len(q)
           /\ Len(Append(q, e)) = Len(q) + 1 /\ DOMAIN Append(q, e) = 1 .. Len(q) + 1
           /\ \A i \in 1 .. Len(q) : Append(q, e)[i] = q[i]
           /\ Append(q, e)[Len(q) + 1] = e
OBVIOUS

LEMMA LenFacts ==
    ASSUME NEW S, NEW q \in Seq(S)
    PROVE  Len(q) \in Nat /\ DOMAIN q = 1 .. Len(q) /\ (q # <<>> <=> Len(q) > 0)
OBVIOUS

Submissions == [fence : {RenderFence(n) : n \in Slots}, uses : SUBSET AllObjects]
Presentations == [fence : {PresentFence(n) : n \in Slots}, uses : SUBSET AllObjects]
Recycled == [fence : AllFences, objects : SUBSET AllObjects]

\* The three queues are sequences.
LEMMA QueueLengths ==
    ASSUME Inv
    PROVE  /\ gpu \in Seq(Submissions) /\ presents \in Seq(Presentations)
           /\ Len(gpu) \in Nat /\ DOMAIN gpu = 1 .. Len(gpu) /\ (gpu # <<>> <=> Len(gpu) > 0)
           /\ Len(presents) \in Nat /\ DOMAIN presents = 1 .. Len(presents)
           /\ (presents # <<>> <=> Len(presents) > 0)
<1>1. gpu \in Seq(Submissions) /\ presents \in Seq(Presentations)
  BY DEF Inv, QueuesInv, Submissions, Presentations
<1> QED
  BY <1>1, LenFacts

\* Objects of different kinds, slots or numbers are different.
LEMMA ObjectsDiffer ==
    /\ \A n, m : CommandBuffer(n) = CommandBuffer(m) => n = m
    /\ \A n, m : Semaphores(n) = Semaphores(m) => n = m
    /\ \A n, m : Swapchain(n) = Swapchain(m) => n = m
    /\ \A n, m : Texture(n) = Texture(m) => n = m
    /\ \A n, m : CommandBuffer(n) # Semaphores(m) /\ CommandBuffer(n) # Swapchain(m) /\ CommandBuffer(n) # Texture(m)
    /\ \A n, m : Semaphores(n) # Swapchain(m) /\ Semaphores(n) # Texture(m) /\ Swapchain(n) # Texture(m)
    /\ \A n \in Slots : CommandBuffer(n) \in AllObjects /\ Semaphores(n) \in AllObjects
    /\ \A k \in 1 .. MaxSwapchains : Swapchain(k) \in AllObjects
    /\ \A t \in 1 .. MaxTextures : Texture(t) \in AllObjects
BY DEF CommandBuffer, Semaphores, Swapchain, Texture, AllObjects

\* What is in flight is used by some work.
LEMMA InFlightFacts ==
    ASSUME NEW o
    PROVE  o \in InFlight <=> \/ \E i \in DOMAIN gpu : o \in gpu[i].uses
                              \/ \E i \in DOMAIN presents : o \in presents[i].uses
BY DEF InFlight

\* What waits for a fence is in use by nothing once the fence is signaled.
LEMMA SignaledIsUnused ==
    ASSUME Inv, NEW o, NEW f, Covered(o, f), signaled[f]
    PROVE  o \notin InFlight
<1>1. /\ \A i \in DOMAIN gpu : ~signaled[gpu[i].fence]
      /\ \A i \in DOMAIN presents : ~signaled[presents[i].fence]
  BY DEF Inv, QueuesInv, Pending
<1> QED
  BY <1>1, InFlightFacts DEF Covered

\* A new frame covers what was covered and is not drawn with.
LEMMA CoveredEnd ==
    ASSUME Inv, WorkInv, EndFrame, NEW o, NEW f, Covered(o, f),
           o \notin recording, o # Semaphores(Slot), o # Swapchain(swapchains)
    PROVE  Covered(o, f)'
<1> DEFINE e == [fence |-> RenderFence(Slot), uses |-> recording]
           p == [fence |-> PresentFence(Slot), uses |-> {Semaphores(Slot), Swapchain(swapchains)}]
<1>1. gpu' = Append(gpu, e) /\ presents' = Append(presents, p)
  BY DEF EndFrame
<1>2. e \in Submissions /\ p \in Presentations
  <2>1. Slot \in Slots /\ swapchains \in 1 .. MaxSwapchains
    BY CurrentSlot DEF Inv, RingInv
  <2> QED
    BY <2>1, ObjectsDiffer DEF Inv, Submissions, Presentations
<1>3. o \notin e.uses /\ o \notin p.uses
  OBVIOUS
<1> HIDE DEF e, p
<1>4. /\ Len(gpu) \in Nat /\ DOMAIN gpu = 1 .. Len(gpu) /\ Len(gpu') = Len(gpu) + 1
      /\ DOMAIN gpu' = 1 .. Len(gpu) + 1 /\ gpu'[Len(gpu) + 1] = e
      /\ \A i \in 1 .. Len(gpu) : gpu'[i] = gpu[i]
  BY <1>1, <1>2, QueueLengths, AppendFacts
<1>5. /\ Len(presents) \in Nat /\ DOMAIN presents = 1 .. Len(presents) /\ Len(presents') = Len(presents) + 1
      /\ DOMAIN presents' = 1 .. Len(presents) + 1 /\ presents'[Len(presents) + 1] = p
      /\ \A i \in 1 .. Len(presents) : presents'[i] = presents[i]
  BY <1>1, <1>2, QueueLengths, AppendFacts
<1>6. Lag' = Lag
  BY <1>4, <1>5 DEF Lag
<1>7. ASSUME NEW i \in DOMAIN gpu', o \in gpu'[i].uses
      PROVE  \/ \E j \in DOMAIN gpu' : j >= i /\ gpu'[j].fence = f
             \/ \E j \in DOMAIN presents' : j >= i + Lag' /\ presents'[j].fence = f
  <2>1. i \in DOMAIN gpu /\ o \in gpu[i].uses
    BY <1>3, <1>4, <1>7
  <2>2. \/ \E j \in DOMAIN gpu : j >= i /\ gpu[j].fence = f
        \/ \E j \in DOMAIN presents : j >= i + Lag /\ presents[j].fence = f
    BY <2>1 DEF Covered
  <2> QED
    BY <1>4, <1>5, <1>6, <2>2
<1>8. ASSUME NEW i \in DOMAIN presents', o \in presents'[i].uses
      PROVE  \E j \in DOMAIN presents' : j >= i /\ presents'[j].fence = f
  <2>1. i \in DOMAIN presents /\ o \in presents[i].uses
    BY <1>3, <1>5, <1>8
  <2>2. \E j \in DOMAIN presents : j >= i /\ presents[j].fence = f
    BY <2>1 DEF Covered
  <2> QED
    BY <1>5, <2>2
<1> QED
  BY <1>7, <1>8 DEF Covered

\* The end of a submission uncovers nothing.
LEMMA CoveredGpuDone ==
    ASSUME Inv, WorkInv, GpuDone, NEW o, NEW f, Covered(o, f)
    PROVE  Covered(o, f)'
<1>1. gpu # <<>> /\ gpu' = Tail(gpu) /\ presents' = presents
  BY DEF GpuDone
<1>2. /\ Len(gpu) \in Nat \ {0} /\ DOMAIN gpu = 1 .. Len(gpu) /\ Len(gpu') = Len(gpu) - 1
      /\ DOMAIN gpu' = 1 .. Len(gpu) - 1 /\ \A i \in 1 .. Len(gpu) - 1 : gpu'[i] = gpu[i + 1]
  BY <1>1, QueueLengths, TailFacts
<1>3. Lag \in Int /\ Lag' = Lag + 1 /\ Len(presents) \in Nat /\ DOMAIN presents = 1 .. Len(presents)
  BY <1>1, <1>2, QueueLengths DEF Lag
<1>4. ASSUME NEW i \in DOMAIN gpu', o \in gpu'[i].uses
      PROVE  \/ \E j \in DOMAIN gpu' : j >= i /\ gpu'[j].fence = f
             \/ \E j \in DOMAIN presents' : j >= i + Lag' /\ presents'[j].fence = f
  <2>1. i + 1 \in DOMAIN gpu /\ o \in gpu[i + 1].uses
    BY <1>2, <1>4
  <2>2. CASE \E j \in DOMAIN gpu : j >= i + 1 /\ gpu[j].fence = f
    <3>1. PICK j \in DOMAIN gpu : j >= i + 1 /\ gpu[j].fence = f
      BY <2>2
    <3>2. j - 1 \in DOMAIN gpu' /\ j - 1 >= i /\ gpu'[j - 1] = gpu[j]
      BY <1>2, <1>4, <3>1
    <3> QED
      BY <3>1, <3>2
  <2>3. CASE \E j \in DOMAIN presents : j >= i + 1 + Lag /\ presents[j].fence = f
    BY <1>1, <1>2, <1>3, <2>3
  <2> QED
    BY <2>1, <2>2, <2>3 DEF Covered
<1> QED
  BY <1>1, <1>4 DEF Covered

\* Nor does the end of a present, whose submission is over.
LEMMA CoveredPresentDone ==
    ASSUME Inv, WorkInv, PresentDone, NEW o, NEW f, Covered(o, f)
    PROVE  Covered(o, f)'
<1>1. presents # <<>> /\ Len(presents) > Len(gpu) /\ presents' = Tail(presents) /\ gpu' = gpu
  BY DEF PresentDone
<1>2. /\ Len(presents) \in Nat \ {0} /\ DOMAIN presents = 1 .. Len(presents) /\ Len(presents') = Len(presents) - 1
      /\ DOMAIN presents' = 1 .. Len(presents) - 1
      /\ \A i \in 1 .. Len(presents) - 1 : presents'[i] = presents[i + 1]
  BY <1>1, QueueLengths, TailFacts
<1>3. Lag \in Int /\ Lag >= 1 /\ Lag' = Lag - 1 /\ Len(gpu) \in Nat /\ DOMAIN gpu = 1 .. Len(gpu)
  BY <1>1, <1>2, QueueLengths DEF Lag
<1>4. ASSUME NEW n \in Nat, n >= 1, NEW j \in DOMAIN presents, j >= n + 1, presents[j].fence = f
      PROVE  \E k \in DOMAIN presents' : k >= n /\ presents'[k].fence = f
  <2>1. j - 1 \in DOMAIN presents' /\ j - 1 >= n /\ presents'[j - 1] = presents[j]
    BY <1>2, <1>4
  <2> QED
    BY <1>4, <2>1
<1>5. ASSUME NEW i \in DOMAIN gpu', o \in gpu'[i].uses
      PROVE  \/ \E j \in DOMAIN gpu' : j >= i /\ gpu'[j].fence = f
             \/ \E j \in DOMAIN presents' : j >= i + Lag' /\ presents'[j].fence = f
  <2>1. \/ \E j \in DOMAIN gpu : j >= i /\ gpu[j].fence = f
        \/ \E j \in DOMAIN presents : j >= i + Lag /\ presents[j].fence = f
    BY <1>1, <1>5 DEF Covered
  <2>2. i + Lag' \in Nat /\ i + Lag' >= 1 /\ i + Lag = (i + Lag') + 1
    BY <1>1, <1>3, <1>5
  <2> QED
    BY <1>1, <1>4, <2>1, <2>2
<1>6. ASSUME NEW i \in DOMAIN presents', o \in presents'[i].uses
      PROVE  \E j \in DOMAIN presents' : j >= i /\ presents'[j].fence = f
  <2>1. i + 1 \in DOMAIN presents /\ o \in presents[i + 1].uses /\ i \in Nat /\ i >= 1
    BY <1>2, <1>6
  <2> QED
    BY <1>4, <2>1 DEF Covered
<1> QED
  BY <1>5, <1>6 DEF Covered
-----------------------------------------------------------------------------
(* What work is made of stays so.                                          *)

\* Steps that begin and end no work and draw nothing.
LEMMA WorkStill ==
    ASSUME Inv, WorkInv,
           UNCHANGED <<gpu, presents, recording, m_currentRenderFence>>,
           MadeSlots \subseteq MadeSlots', swapchains <= swapchains', textures <= textures',
           swapchains' \in Nat, textures' \in Nat,
           main' = "record" <=> main = "record",
           main = "record" => UNCHANGED <<Slot, textures>>,
           main' = "idle" \/ (main' = "cleanup" /\ then' # "acquire") => m_currentRenderFence \in AllFences,
           main' = "idle" => main = "idle" /\ UNCHANGED Slot
    PROVE  WorkInv'
<1>1. Lag' = Lag
  BY DEF Lag
<1>2. swapchains \in Nat /\ textures \in Nat
  BY BoundsAssumption DEF Inv, RingInv
<1>3. \A i \in DOMAIN gpu' : \E n \in MadeSlots', t \in 1 .. textures' :
          /\ gpu'[i] = [fence |-> RenderFence(n), uses |-> {CommandBuffer(n), Semaphores(n), Texture(t)}]
          /\ presents'[i + Lag'].fence = PresentFence(n)
  <2> SUFFICES ASSUME NEW i \in DOMAIN gpu
               PROVE  \E n \in MadeSlots', t \in 1 .. textures' :
                        /\ gpu[i] = [fence |-> RenderFence(n), uses |-> {CommandBuffer(n), Semaphores(n), Texture(t)}]
                        /\ presents[i + Lag].fence = PresentFence(n)
    BY <1>1
  <2>1. PICK n \in MadeSlots, t \in 1 .. textures :
          /\ gpu[i] = [fence |-> RenderFence(n), uses |-> {CommandBuffer(n), Semaphores(n), Texture(t)}]
          /\ presents[i + Lag].fence = PresentFence(n)
    BY DEF WorkInv
  <2>2. n \in MadeSlots' /\ t \in 1 .. textures'
    BY <1>2
  <2> QED
    BY <2>1, <2>2
<1>4. \A i \in DOMAIN presents' : \E n \in MadeSlots', k \in 1 .. swapchains' :
          presents'[i] = [fence |-> PresentFence(n), uses |-> {Semaphores(n), Swapchain(k)}]
  <2> SUFFICES ASSUME NEW i \in DOMAIN presents
               PROVE  \E n \in MadeSlots', k \in 1 .. swapchains' :
                        presents[i] = [fence |-> PresentFence(n), uses |-> {Semaphores(n), Swapchain(k)}]
    OBVIOUS
  <2>1. PICK n \in MadeSlots, k \in 1 .. swapchains :
          presents[i] = [fence |-> PresentFence(n), uses |-> {Semaphores(n), Swapchain(k)}]
    BY DEF WorkInv
  <2>2. n \in MadeSlots' /\ k \in 1 .. swapchains'
    BY <1>2
  <2> QED
    BY <2>1, <2>2
<1>5. /\ Len(gpu') <= Len(presents')
      /\ recording' = IF main' = "record" THEN {CommandBuffer(Slot'), Semaphores(Slot'), Texture(textures')} ELSE {}
      /\ gpu' # <<>> => gpu'[Len(gpu')].fence = m_currentRenderFence'
      /\ main' = "idle" \/ (main' = "cleanup" /\ then' # "acquire") => m_currentRenderFence' \in AllFences
      /\ main' = "idle" /\ presents' # <<>> => presents'[Len(presents')].fence = PresentFence(Slot')
  BY DEF WorkInv
<1> QED
  BY <1>3, <1>4, <1>5 DEF WorkInv, CommandBuffer, Semaphores, Texture, PresentFence

\* What is submitted and presented is new at the end of both queues.
LEMMA WorkEnd ==
    ASSUME Inv, WorkInv, EndFrame
    PROVE  WorkInv'
<1> DEFINE n == Slot
           e == [fence |-> RenderFence(n), uses |-> recording]
           p == [fence |-> PresentFence(n), uses |-> {Semaphores(n), Swapchain(swapchains)}]
<1>1. /\ main = "record" /\ main' = "idle" /\ recording' = {} /\ m_currentRenderFence' = RenderFence(n)
      /\ gpu' = Append(gpu, e) /\ presents' = Append(presents, p)
      /\ UNCHANGED <<m_frameData, m_frameIdx, swapchains, textures>>
  BY DEF EndFrame
<1>2. n \in MadeSlots /\ n \in Slots /\ swapchains \in 1 .. swapchains /\ textures \in 1 .. textures
      /\ swapchains \in 1 .. MaxSwapchains
  BY CurrentSlot, BoundsAssumption DEF Inv, RingInv, MadeSlots
<1>3. e \in Submissions /\ p \in Presentations
  BY <1>2, ObjectsDiffer DEF Inv, Submissions, Presentations
<1>4. MadeSlots' = MadeSlots /\ Slot' = n
  BY <1>1 DEF MadeSlots, Slot
<1>5. e.uses = {CommandBuffer(n), Semaphores(n), Texture(textures)}
  BY <1>1 DEF WorkInv
<1>6. e = [fence |-> RenderFence(n), uses |-> {CommandBuffer(n), Semaphores(n), Texture(textures)}]
  BY <1>5
<1>7. /\ p = [fence |-> PresentFence(n), uses |-> {Semaphores(n), Swapchain(swapchains)}]
      /\ p.fence = PresentFence(n) /\ e.fence = RenderFence(n)
  OBVIOUS
<1> HIDE DEF n, e, p
<1>8. /\ Len(gpu) \in Nat /\ DOMAIN gpu = 1 .. Len(gpu) /\ Len(gpu') = Len(gpu) + 1
      /\ DOMAIN gpu' = 1 .. Len(gpu) + 1 /\ gpu'[Len(gpu) + 1] = e
      /\ \A i \in 1 .. Len(gpu) : gpu'[i] = gpu[i]
  BY <1>1, <1>3, QueueLengths, AppendFacts
<1>9. /\ Len(presents) \in Nat /\ DOMAIN presents = 1 .. Len(presents) /\ Len(presents') = Len(presents) + 1
      /\ DOMAIN presents' = 1 .. Len(presents) + 1 /\ presents'[Len(presents) + 1] = p
      /\ \A i \in 1 .. Len(presents) : presents'[i] = presents[i]
  BY <1>1, <1>3, QueueLengths, AppendFacts
<1>10. Lag' = Lag /\ Lag \in Nat /\ Len(gpu) + 1 + Lag = Len(presents) + 1 /\ Len(gpu) + Lag = Len(presents)
  BY <1>8, <1>9 DEF Lag, WorkInv
<1>11. ASSUME NEW i \in DOMAIN gpu'
       PROVE  \E k \in MadeSlots', t \in 1 .. textures' :
                 /\ gpu'[i] = [fence |-> RenderFence(k), uses |-> {CommandBuffer(k), Semaphores(k), Texture(t)}]
                 /\ presents'[i + Lag'].fence = PresentFence(k)
  <2>1. CASE i = Len(gpu) + 1
    BY <1>1, <1>2, <1>4, <1>6, <1>7, <1>8, <1>9, <1>10, <2>1
  <2>2. CASE i # Len(gpu) + 1
    <3>1. i \in DOMAIN gpu /\ gpu'[i] = gpu[i] /\ i + Lag \in 1 .. Len(presents)
      BY <1>8, <1>10, <2>2
    <3>2. presents'[i + Lag'] = presents[i + Lag]
      BY <1>9, <1>10, <3>1
    <3>3. PICK k \in MadeSlots, t \in 1 .. textures :
            /\ gpu[i] = [fence |-> RenderFence(k), uses |-> {CommandBuffer(k), Semaphores(k), Texture(t)}]
            /\ presents[i + Lag].fence = PresentFence(k)
      BY <3>1 DEF WorkInv
    <3> QED
      BY <1>1, <1>4, <3>1, <3>2, <3>3
  <2> QED
    BY <2>1, <2>2
<1>12. ASSUME NEW i \in DOMAIN presents'
       PROVE  \E m \in MadeSlots', k \in 1 .. swapchains' :
                 presents'[i] = [fence |-> PresentFence(m), uses |-> {Semaphores(m), Swapchain(k)}]
  <2>1. CASE i = Len(presents) + 1
    BY <1>1, <1>2, <1>4, <1>7, <1>9, <2>1
  <2>2. CASE i # Len(presents) + 1
    <3>1. i \in DOMAIN presents /\ presents'[i] = presents[i]
      BY <1>9, <2>2
    <3>2. PICK m \in MadeSlots, k \in 1 .. swapchains :
            presents[i] = [fence |-> PresentFence(m), uses |-> {Semaphores(m), Swapchain(k)}]
      BY <3>1 DEF WorkInv
    <3> QED
      BY <1>1, <1>4, <3>1, <3>2
  <2> QED
    BY <2>1, <2>2
<1>13. /\ Len(gpu') <= Len(presents')
       /\ gpu'[Len(gpu')].fence = RenderFence(n)
       /\ presents'[Len(presents')].fence = PresentFence(n)
       /\ RenderFence(n) \in AllFences
  BY <1>2, <1>7, <1>8, <1>9, <1>10, FencesDiffer
<1>14. PresentFence(Slot)' = PresentFence(n)
  BY <1>4 DEF PresentFence
<1> QED
  BY <1>1, <1>11, <1>12, <1>13, <1>14 DEF WorkInv, CommandBuffer, Semaphores, Texture, PresentFence

\* What is left is as it was.
LEMMA WorkGpu ==
    ASSUME Inv, WorkInv, GpuDone \/ PresentDone
    PROVE  WorkInv'
<1>1. UNCHANGED <<main, recording, then, m_frameData, m_frameIdx, swapchains, textures, m_currentRenderFence>>
  BY DEF GpuDone, PresentDone, ringVars, cleanupVars
<1>2. MadeSlots' = MadeSlots /\ Slot' = Slot
  BY <1>1 DEF MadeSlots, Slot
<1>3. /\ recording' = IF main' = "record" THEN {CommandBuffer(Slot), Semaphores(Slot), Texture(textures)}' ELSE {}
      /\ (main' = "idle" \/ (main' = "cleanup" /\ then' # "acquire")) => m_currentRenderFence' \in AllFences
  BY <1>1, <1>2 DEF WorkInv, CommandBuffer, Semaphores, Texture
<1>4. CASE GpuDone
  <2>1. gpu # <<>> /\ gpu' = Tail(gpu) /\ presents' = presents
    BY <1>4 DEF GpuDone
  <2>2. /\ Len(gpu) \in Nat \ {0} /\ DOMAIN gpu = 1 .. Len(gpu) /\ Len(gpu') = Len(gpu) - 1
        /\ DOMAIN gpu' = 1 .. Len(gpu) - 1 /\ \A i \in 1 .. Len(gpu) - 1 : gpu'[i] = gpu[i + 1]
        /\ gpu' \in Seq(Submissions)
    BY <2>1, QueueLengths, TailFacts
  <2>3. Lag \in Int /\ Lag' = Lag + 1 /\ Len(presents) \in Nat /\ Len(gpu') <= Len(presents')
    BY <2>1, <2>2, QueueLengths DEF Lag, WorkInv
  <2>4. ASSUME NEW i \in DOMAIN gpu'
        PROVE  \E k \in MadeSlots', t \in 1 .. textures' :
                 /\ gpu'[i] = [fence |-> RenderFence(k), uses |-> {CommandBuffer(k), Semaphores(k), Texture(t)}]
                 /\ presents'[i + Lag'].fence = PresentFence(k)
    <3>1. i + 1 \in DOMAIN gpu /\ gpu'[i] = gpu[i + 1] /\ i + Lag' = (i + 1) + Lag
      BY <2>2, <2>3
    <3>2. PICK k \in MadeSlots, t \in 1 .. textures :
            /\ gpu[i + 1] = [fence |-> RenderFence(k), uses |-> {CommandBuffer(k), Semaphores(k), Texture(t)}]
            /\ presents[(i + 1) + Lag].fence = PresentFence(k)
      BY <3>1 DEF WorkInv
    <3> QED
      BY <1>1, <1>2, <2>1, <3>1, <3>2
  <2>5. gpu' # <<>> => gpu'[Len(gpu')].fence = m_currentRenderFence'
    <3>1. gpu' # <<>> => Len(gpu') \in 1 .. Len(gpu) - 1 /\ Len(gpu') + 1 = Len(gpu)
      BY <2>2, LenFacts
    <3> QED
      BY <1>1, <2>1, <2>2, <3>1 DEF WorkInv
  <2>6. /\ \A i \in DOMAIN presents' : \E n \in MadeSlots', k \in 1 .. swapchains' :
             presents'[i] = [fence |-> PresentFence(n), uses |-> {Semaphores(n), Swapchain(k)}]
        /\ main' = "idle" /\ presents' # <<>> => presents'[Len(presents')].fence = PresentFence(Slot')
    BY <1>1, <1>2, <2>1 DEF WorkInv
  <2> QED
    BY <1>3, <2>3, <2>4, <2>5, <2>6 DEF WorkInv, CommandBuffer, Semaphores, Texture, PresentFence
<1>5. CASE PresentDone
  <2>1. presents # <<>> /\ Len(presents) > Len(gpu) /\ presents' = Tail(presents) /\ gpu' = gpu
    BY <1>5 DEF PresentDone
  <2>2. /\ Len(presents) \in Nat \ {0} /\ DOMAIN presents = 1 .. Len(presents) /\ Len(presents') = Len(presents) - 1
        /\ DOMAIN presents' = 1 .. Len(presents) - 1
        /\ \A i \in 1 .. Len(presents) - 1 : presents'[i] = presents[i + 1]
        /\ presents' \in Seq(Presentations)
    BY <2>1, QueueLengths, TailFacts
  <2>3. /\ Lag \in Int /\ Lag >= 1 /\ Lag' = Lag - 1 /\ Len(gpu) \in Nat /\ DOMAIN gpu = 1 .. Len(gpu)
        /\ Len(gpu') <= Len(presents')
    BY <2>1, <2>2, QueueLengths DEF Lag
  <2> Lag = Len(presents) - Len(gpu)
    BY DEF Lag
  <2>4. ASSUME NEW i \in DOMAIN gpu'
        PROVE  \E k \in MadeSlots', t \in 1 .. textures' :
                 /\ gpu'[i] = [fence |-> RenderFence(k), uses |-> {CommandBuffer(k), Semaphores(k), Texture(t)}]
                 /\ presents'[i + Lag'].fence = PresentFence(k)
    <3>1. i \in DOMAIN gpu
      BY <2>1
    <3>2. PICK k \in MadeSlots, t \in 1 .. textures :
            /\ gpu[i] = [fence |-> RenderFence(k), uses |-> {CommandBuffer(k), Semaphores(k), Texture(t)}]
            /\ presents[i + Lag].fence = PresentFence(k)
      BY <3>1 DEF WorkInv
    <3>3. i + Lag' \in 1 .. Len(presents) - 1 /\ (i + Lag') + 1 = i + Lag
      BY <2>2, <2>3, <3>1
    <3>4. presents'[i + Lag'] = presents[i + Lag]
      BY <2>2, <3>3
    <3> QED
      BY <1>1, <1>2, <2>1, <3>2, <3>4
  <2>5. ASSUME NEW i \in DOMAIN presents'
        PROVE  \E n \in MadeSlots', k \in 1 .. swapchains' :
                 presents'[i] = [fence |-> PresentFence(n), uses |-> {Semaphores(n), Swapchain(k)}]
    <3>1. i + 1 \in DOMAIN presents /\ presents'[i] = presents[i + 1]
      BY <2>2
    <3>2. PICK n \in MadeSlots, k \in 1 .. swapchains :
            presents[i + 1] = [fence |-> PresentFence(n), uses |-> {Semaphores(n), Swapchain(k)}]
      BY <3>1 DEF WorkInv
    <3> QED
      BY <1>1, <1>2, <3>1, <3>2
  <2>6. main' = "idle" /\ presents' # <<>> => presents'[Len(presents')].fence = PresentFence(Slot')
    <3>1. presents' # <<>> => Len(presents') \in 1 .. Len(presents) - 1 /\ Len(presents') + 1 = Len(presents)
      BY <2>2, LenFacts
    <3> QED
      BY <1>1, <1>2, <2>1, <2>2, <3>1 DEF WorkInv
  <2>7. gpu' # <<>> => gpu'[Len(gpu')].fence = m_currentRenderFence'
    BY <1>1, <2>1 DEF WorkInv
  <2> QED
    BY <1>3, <2>3, <2>4, <2>5, <2>6, <2>7 DEF WorkInv, CommandBuffer, Semaphores, Texture, PresentFence
<1> QED
  BY <1>4, <1>5

\* An image is acquired: the current slot and the texture are drawn with.
LEMMA WorkAcquire ==
    ASSUME Inv, WorkInv, Acquire
    PROVE  WorkInv'
<1>1. /\ main' = "record" /\ recording' = {CommandBuffer(Slot), Semaphores(Slot), Texture(textures)}
      /\ UNCHANGED <<gpu, presents, m_frameData, m_frameIdx, swapchains, textures, m_currentRenderFence>>
  BY DEF Acquire, ringVars
<1>2. MadeSlots' = MadeSlots /\ Slot' = Slot /\ Lag' = Lag
  BY <1>1 DEF MadeSlots, Slot, Lag
<1>3. \A i \in DOMAIN gpu' : \E n \in MadeSlots', t \in 1 .. textures' :
          /\ gpu'[i] = [fence |-> RenderFence(n), uses |-> {CommandBuffer(n), Semaphores(n), Texture(t)}]
          /\ presents'[i + Lag'].fence = PresentFence(n)
  BY <1>1, <1>2 DEF WorkInv
<1>4. \A i \in DOMAIN presents' : \E n \in MadeSlots', k \in 1 .. swapchains' :
          presents'[i] = [fence |-> PresentFence(n), uses |-> {Semaphores(n), Swapchain(k)}]
  BY <1>1, <1>2 DEF WorkInv
<1>5. Len(gpu') <= Len(presents') /\ (gpu' # <<>> => gpu'[Len(gpu')].fence = m_currentRenderFence')
  BY <1>1 DEF WorkInv
<1> QED
  BY <1>1, <1>2, <1>3, <1>4, <1>5 DEF WorkInv, CommandBuffer, Semaphores, Texture

\* A new ring adds slots.
LEMMA WorkCreate ==
    ASSUME Inv, WorkInv, CreateSwapchain
    PROVE  WorkInv'
<1>1. /\ main = "cleanup" /\ main' \in {"begin", "acquire"} /\ swapchains' = swapchains + 1
      /\ UNCHANGED <<gpu, presents, recording, m_currentRenderFence, textures>>
  BY DEF CreateSwapchain, gpuVars, Inv, CleanupInv
<1>2. swapchains \in Nat /\ textures \in Nat
  BY BoundsAssumption DEF Inv, RingInv
<1>3. MadeSlots \subseteq MadeSlots'
  <2>1. (swapchains + 1) * NumImages = swapchains * NumImages + NumImages /\ swapchains * NumImages \in Int
    BY <1>2, BoundsAssumption
  <2> QED
    BY <1>1, <2>1, BoundsAssumption DEF MadeSlots, Slots
<1> QED
  BY <1>1, <1>2, <1>3, WorkStill

\* What submissions and presents are made of is as described in every state.
LEMMA WorkStep ==
    ASSUME Inv, WorkInv, [Next]_vars
    PROVE  WorkInv'
<1>1. swapchains \in Nat /\ textures \in Nat
  BY BoundsAssumption DEF Inv, RingInv
<1> DEFINE still == UNCHANGED <<gpu, presents, recording, m_currentRenderFence, swapchains, m_frameData>>
<1>2. ASSUME still, textures' \in Nat, textures <= textures',
             main' = "record" => main = "record" /\ UNCHANGED <<m_frameIdx, textures>>,
             main = "record" => main' = "record",
             main' = "idle" \/ (main' = "cleanup" /\ then' # "acquire") => m_currentRenderFence \in AllFences,
             main' = "idle" => main = "idle" /\ UNCHANGED m_frameIdx
      PROVE  WorkInv'
  <2>1. MadeSlots' = MadeSlots /\ (m_frameIdx' = m_frameIdx => Slot' = Slot)
    BY <1>2 DEF MadeSlots, Slot
  <2> QED
    BY <1>1, <1>2, <2>1, WorkStill
<1>3. CASE Render \/ BeginFrame \/ WaitRender \/ Shutdown \/ NotifyReaper \/ Joined
  <2>1. still /\ textures' = textures /\ main' \in {"begin", "wait", "acquire", "notify", "join", "gone"} /\ main # "record"
    BY <1>3 DEF Render, BeginFrame, WaitRender, Shutdown, NotifyReaper, Joined, ringVars, gpuVars
  <2> QED
    BY <1>1, <1>2, <2>1
<1>4. CASE Resize \/ Close \/ AcquireFailed
  <2>1. /\ still /\ textures' = textures /\ main' = "cleanup"
        /\ main = "idle" \/ (main = "acquire" /\ then' = "acquire")
    BY <1>4 DEF Resize, Close, AcquireFailed, ringVars, gpuVars
  <2> QED
    BY <1>1, <1>2, <2>1 DEF WorkInv
<1>5. CASE Replace
  <2>1. still /\ textures' = textures + 1 /\ main \in {"idle", "cleanup"} /\ UNCHANGED <<main, then, m_frameIdx>>
    BY <1>5 DEF Replace, gpuVars, cleanupVars
  <2> QED
    BY <1>1, <1>2, <2>1 DEF WorkInv
<1>6. CASE CleanupSwapchain \/ Reaper \/ UNCHANGED vars
  <2>1. still /\ UNCHANGED <<main, then, m_frameIdx, textures>>
    BY <1>6 DEF CleanupSwapchain, Reaper, vars, ringVars, gpuVars, cleanupVars
  <2> QED
    BY <1>1, <1>2, <2>1 DEF WorkInv
<1> QED
  BY <1>3, <1>4, <1>5, <1>6, WorkEnd, WorkGpu, WorkAcquire, WorkCreate DEF Next, MainStep

-----------------------------------------------------------------------------
(* What CleanupSwapchain hands over.                                       *)

LEMMA ModFacts ==
    ASSUME NEW L \in Nat \ {0}, NEW a \in Nat
    PROVE  /\ a % L \in 0 .. L - 1
           /\ a < L => a % L = a
           /\ L <= a /\ a < 2 * L => a % L = a - L
<1> DEFINE q == a \div L
<1>1. a = (L * q) + (a % L) /\ q \in Int /\ a % L \in 0 .. L - 1
  OBVIOUS
<1> HIDE DEF q
<1>2. q >= 0
  <2>1. q < 0 => L * q <= 0 - L
    BY <1>1
  <2> QED
    BY <1>1, <2>1
<1>3. a < L => q = 0
  <2>1. q >= 1 => L * q >= L
    BY <1>1
  <2> QED
    BY <1>1, <1>2, <2>1
<1>4. L <= a /\ a < 2 * L => q = 1
  <2>1. q >= 2 => L * q >= 2 * L
    BY <1>1
  <2>2. q = 0 => L * q = 0
    BY <1>1
  <2> QED
    BY <1>1, <1>2, <2>1, <2>2
<1> QED
  BY <1>1, <1>3, <1>4

\* The slots of the ring that is replaced.
RingSlot(n) == n \in Slots /\ n > (swapchains - 1) * NumImages /\ n <= swapchains * NumImages

\* Turn i looks at one slot of the ring, and every slot has its turn; the first
\* is the current one.
SlotAt(i) == m_frameData[((m_frameIdx + i - 1) % Len(m_frameData)) + 1]

LEMMA SlotsAt ==
    ASSUME Inv
    PROVE  /\ \A i \in 1 .. NumImages : RingSlot(SlotAt(i))
           /\ \A n : RingSlot(n) => \E i \in 1 .. NumImages : SlotAt(i) = n
           /\ SlotAt(1) = Slot
<1>1. Len(m_frameData) = NumImages /\ m_frameIdx \in 0 .. NumImages - 1 /\ swapchains \in 1 .. MaxSwapchains
  BY CurrentSlot DEF Inv, RingInv
<1>2. \A q \in 0 .. NumImages - 1 : RingSlot(m_frameData[q + 1]) /\ m_frameData[q + 1] = (swapchains - 1) * NumImages + q + 1
  BY <1>1, RingSlots DEF Inv, RingInv, RingSlot
<1>3. ASSUME NEW i \in 1 .. NumImages
      PROVE  RingSlot(SlotAt(i))
  <2>1. m_frameIdx + i - 1 \in Nat
    BY <1>1, <1>3, BoundsAssumption
  <2>2. (m_frameIdx + i - 1) % NumImages \in 0 .. NumImages - 1
    BY <2>1, ModFacts, BoundsAssumption
  <2> QED
    BY <1>1, <1>2, <2>2 DEF SlotAt
<1>4. ASSUME NEW n, RingSlot(n)
      PROVE  \E i \in 1 .. NumImages : SlotAt(i) = n
  <2> DEFINE before == (swapchains - 1) * NumImages
             q == n - before - 1
             i == IF q >= m_frameIdx THEN q - m_frameIdx + 1 ELSE q - m_frameIdx + 1 + NumImages
  <2>1. before \in Int /\ swapchains * NumImages = before + NumImages
    BY <1>1, BoundsAssumption
  <2> HIDE DEF before
  <2>2. q \in 0 .. NumImages - 1 /\ n = before + q + 1
    BY <1>4, <2>1, BoundsAssumption DEF RingSlot, Slots, before
  <2> HIDE DEF q
  <2>3. i \in 1 .. NumImages /\ m_frameIdx + i - 1 \in Nat
        /\ (m_frameIdx + i - 1 = q \/ m_frameIdx + i - 1 = q + NumImages)
    BY <1>1, <2>2, BoundsAssumption
  <2> HIDE DEF i
  <2>4. (m_frameIdx + i - 1) % NumImages = q
    <3> DEFINE a == m_frameIdx + i - 1
    <3>1. a \in Nat /\ (a = q \/ a = q + NumImages) /\ NumImages \in Nat \ {0}
      BY <2>3, BoundsAssumption
    <3> HIDE DEF a
    <3>2. q \in 0 .. NumImages - 1
      BY <2>2
    <3>3. a = q => a % NumImages = q
      BY <3>1, <3>2, ModFacts
    <3>4. a = q + NumImages => NumImages <= a /\ a < 2 * NumImages /\ a - NumImages = q
      BY <3>1, <3>2
    <3>5. a % NumImages = q
      BY <3>1, <3>3, <3>4, ModFacts
    <3> QED
      BY <3>5 DEF a
  <2>5. SlotAt(i) = m_frameData[q + 1]
    BY <1>1, <2>4 DEF SlotAt
  <2>6. m_frameData[q + 1] = before + q + 1
    BY <1>2, <2>2 DEF before
  <2> QED
    BY <2>2, <2>3, <2>5, <2>6
<1>5. SlotAt(1) = Slot
  <2>1. m_frameIdx \in Nat /\ m_frameIdx < NumImages /\ NumImages \in Nat \ {0} /\ m_frameIdx + 1 - 1 = m_frameIdx
    BY <1>1, BoundsAssumption
  <2>2. m_frameIdx % NumImages = m_frameIdx
    BY <2>1, ModFacts
  <2> QED
    BY <1>1, <2>1, <2>2 DEF SlotAt, Slot
<1> QED
  BY <1>3, <1>4, <1>5

LEMMA RecyclingsFacts ==
    ASSUME Inv
    PROVE  /\ Recyclings \in Seq(Recycled)
           /\ DOMAIN Recyclings = 1 .. 2 * NumImages
           /\ \A i \in 1 .. NumImages :
                 /\ Recyclings[2 * i - 1] = [fence |-> RenderFence(SlotAt(i)), objects |-> {CommandBuffer(SlotAt(i))}]
                 /\ Recyclings[2 * i] =
                      [fence |-> PresentFence(SlotAt(i)),
                       objects |-> {Semaphores(SlotAt(i))} \cup (IF i = 1 THEN {Swapchain(swapchains)} ELSE {})]
           /\ \A j \in 1 .. 2 * NumImages : \E i \in 1 .. NumImages : j = 2 * i - 1 \/ j = 2 * i
<1>1. Len(m_frameData) = NumImages /\ swapchains \in 1 .. MaxSwapchains
  BY CurrentSlot DEF Inv, RingInv
<1>2. \A i \in 1 .. NumImages : RingSlot(SlotAt(i)) /\ SlotAt(i) \in Slots
  BY SlotsAt DEF RingSlot
<1>3. DOMAIN Recyclings = 1 .. 2 * NumImages
  BY <1>1 DEF Recyclings
<1>4. \A i \in 1 .. NumImages :
         /\ 2 * i - 1 \in 1 .. 2 * NumImages /\ 2 * i \in 1 .. 2 * NumImages
         /\ (2 * i - 1) % 2 = 1 /\ (2 * i - 1 + 1) \div 2 = i
         /\ (2 * i) % 2 # 1 /\ (2 * i + 1) \div 2 = i /\ (2 * i = 2 <=> i = 1)
  BY BoundsAssumption
<1>5. \A i \in 1 .. NumImages :
         /\ Recyclings[2 * i - 1] = [fence |-> RenderFence(SlotAt(i)), objects |-> {CommandBuffer(SlotAt(i))}]
         /\ Recyclings[2 * i] =
              [fence |-> PresentFence(SlotAt(i)),
               objects |-> {Semaphores(SlotAt(i))} \cup (IF i = 1 THEN {Swapchain(swapchains)} ELSE {})]
  BY <1>1, <1>4 DEF Recyclings, SlotAt
<1>6. \A j \in 1 .. 2 * NumImages : \E i \in 1 .. NumImages : j = 2 * i - 1 \/ j = 2 * i
  <2> SUFFICES ASSUME NEW j \in 1 .. 2 * NumImages
               PROVE  \E i \in 1 .. NumImages : j = 2 * i - 1 \/ j = 2 * i
    OBVIOUS
  <2>1. (j + 1) \div 2 \in 1 .. NumImages /\ (j = 2 * ((j + 1) \div 2) - 1 \/ j = 2 * ((j + 1) \div 2))
    BY BoundsAssumption
  <2> QED
    BY <2>1
<1>7. \A j \in 1 .. 2 * NumImages : Recyclings[j] \in Recycled
  <2> SUFFICES ASSUME NEW j \in 1 .. 2 * NumImages
               PROVE  Recyclings[j] \in Recycled
    OBVIOUS
  <2>1. PICK i \in 1 .. NumImages : j = 2 * i - 1 \/ j = 2 * i
    BY <1>6
  <2> DEFINE n == SlotAt(i)
             r == [fence |-> RenderFence(n), objects |-> {CommandBuffer(n)}]
             p == [fence |-> PresentFence(n), objects |-> {Semaphores(n)} \cup (IF i = 1 THEN {Swapchain(swapchains)} ELSE {})]
  <2>2. /\ RenderFence(SlotAt(i)) \in AllFences /\ PresentFence(SlotAt(i)) \in AllFences
        /\ CommandBuffer(SlotAt(i)) \in AllObjects /\ Semaphores(SlotAt(i)) \in AllObjects
        /\ Swapchain(swapchains) \in AllObjects
    BY <1>1, <1>2, FencesDiffer, ObjectsDiffer
  <2>3. Recyclings[2 * i - 1] = r /\ Recyclings[2 * i] = p
    BY <1>5
  <2>4. r \in Recycled /\ p \in Recycled
    BY <2>2 DEF Recycled
  <2> QED
    BY <2>1, <2>3, <2>4
<1>8. Recyclings = [j \in 1 .. 2 * NumImages |-> Recyclings[j]]
  BY <1>1 DEF Recyclings
<1>9. 2 * NumImages \in Nat
  BY BoundsAssumption
<1>10. Recyclings \in Seq(Recycled)
  BY <1>7, <1>8, <1>9
<1> QED
  BY <1>3, <1>5, <1>6, <1>10

\* What is handed over is the ring, the command buffers with the render fences,
\* the rest with the present fences.
LEMMA RecyclingsAreRing ==
    ASSUME Inv
    PROVE  /\ \A j \in DOMAIN Recyclings : \A o \in Recyclings[j].objects :
                 \/ \E n : RingSlot(n) /\ o = CommandBuffer(n) /\ Recyclings[j].fence = RenderFence(n)
                 \/ \E n : RingSlot(n) /\ o = Semaphores(n) /\ Recyclings[j].fence = PresentFence(n)
                 \/ o = Swapchain(swapchains) /\ Recyclings[j].fence = PresentFence(Slot)
           /\ \A n : RingSlot(n) =>
                 /\ \E j \in DOMAIN Recyclings : CommandBuffer(n) \in Recyclings[j].objects
                 /\ \E j \in DOMAIN Recyclings : Semaphores(n) \in Recyclings[j].objects
           /\ \E j \in DOMAIN Recyclings : Swapchain(swapchains) \in Recyclings[j].objects
<1>1. ASSUME NEW j \in DOMAIN Recyclings, NEW o \in Recyclings[j].objects
      PROVE  \/ \E n : RingSlot(n) /\ o = CommandBuffer(n) /\ Recyclings[j].fence = RenderFence(n)
             \/ \E n : RingSlot(n) /\ o = Semaphores(n) /\ Recyclings[j].fence = PresentFence(n)
             \/ o = Swapchain(swapchains) /\ Recyclings[j].fence = PresentFence(Slot)
  <2>1. PICK i \in 1 .. NumImages : j = 2 * i - 1 \/ j = 2 * i
    BY RecyclingsFacts
  <2>2. RingSlot(SlotAt(i)) /\ SlotAt(1) = Slot
    BY SlotsAt
  <2>3. CASE j = 2 * i - 1
    <3>1. Recyclings[j] = [fence |-> RenderFence(SlotAt(i)), objects |-> {CommandBuffer(SlotAt(i))}]
      BY <2>3, RecyclingsFacts
    <3> QED
      BY <1>1, <2>2, <3>1
  <2>4. CASE j = 2 * i
    <3>1. Recyclings[j] =
             [fence |-> PresentFence(SlotAt(i)),
              objects |-> {Semaphores(SlotAt(i))} \cup (IF i = 1 THEN {Swapchain(swapchains)} ELSE {})]
      BY <2>4, RecyclingsFacts
    <3> QED
      BY <1>1, <2>2, <3>1
  <2> QED
    BY <2>1, <2>3, <2>4
<1>2. ASSUME NEW i \in 1 .. NumImages
      PROVE  2 * i - 1 \in 1 .. 2 * NumImages /\ 2 * i \in 1 .. 2 * NumImages
  BY <1>2, BoundsAssumption
<1>3. ASSUME NEW n, RingSlot(n)
      PROVE  /\ \E j \in DOMAIN Recyclings : CommandBuffer(n) \in Recyclings[j].objects
             /\ \E j \in DOMAIN Recyclings : Semaphores(n) \in Recyclings[j].objects
  <2>1. PICK i \in 1 .. NumImages : SlotAt(i) = n
    BY <1>3, SlotsAt
  <2> DEFINE r == [fence |-> RenderFence(n), objects |-> {CommandBuffer(n)}]
             p == [fence |-> PresentFence(n), objects |-> {Semaphores(n)} \cup (IF i = 1 THEN {Swapchain(swapchains)} ELSE {})]
  <2>2. CommandBuffer(n) \in Recyclings[2 * i - 1].objects /\ Semaphores(n) \in Recyclings[2 * i].objects
    <3>1. CommandBuffer(n) \in r.objects /\ Semaphores(n) \in p.objects
      OBVIOUS
    <3>2. Recyclings[2 * i - 1] = r /\ Recyclings[2 * i] = p
      BY <2>1, RecyclingsFacts
    <3> QED
      BY <3>1, <3>2
  <2> QED
    BY <1>2, <2>2, RecyclingsFacts
<1>4. \E j \in DOMAIN Recyclings : Swapchain(swapchains) \in Recyclings[j].objects
  <2>1. 1 \in 1 .. NumImages /\ 2 * 1 = 2 /\ 2 \in 1 .. 2 * NumImages
    BY BoundsAssumption
  <2>2. Swapchain(swapchains) \in Recyclings[2].objects
    <3> DEFINE p == [fence |-> PresentFence(SlotAt(1)),
                     objects |-> {Semaphores(SlotAt(1))} \cup (IF 1 = 1 THEN {Swapchain(swapchains)} ELSE {})]
    <3>1. Swapchain(swapchains) \in p.objects
      OBVIOUS
    <3>2. Recyclings[2 * 1] = p
      BY <2>1, RecyclingsFacts
    <3> QED
      BY <2>1, <3>1, <3>2
  <2> QED
    BY <2>1, <2>2, RecyclingsFacts
<1> QED
  BY <1>1, <1>3, <1>4

-----------------------------------------------------------------------------
(* What is handed over waits for the right fence.                          *)

\* Work uses a command buffer or semaphores only with the fence of their slot.
LEMMA SlotIsCovered ==
    ASSUME Inv, WorkInv, NEW n
    PROVE  Covered(CommandBuffer(n), RenderFence(n)) /\ Covered(Semaphores(n), PresentFence(n))
<1>1. Lag \in Nat /\ Len(gpu) \in Nat /\ DOMAIN gpu = 1 .. Len(gpu)
      /\ Len(presents) \in Nat /\ DOMAIN presents = 1 .. Len(presents) /\ Lag = Len(presents) - Len(gpu)
  BY QueueLengths DEF Lag, WorkInv
<1>2. ASSUME NEW i \in DOMAIN gpu
      PROVE  /\ CommandBuffer(n) \in gpu[i].uses => gpu[i].fence = RenderFence(n)
             /\ Semaphores(n) \in gpu[i].uses => presents[i + Lag].fence = PresentFence(n)
             /\ i + Lag \in DOMAIN presents
  <2>1. PICK k \in MadeSlots, t \in 1 .. textures :
          /\ gpu[i] = [fence |-> RenderFence(k), uses |-> {CommandBuffer(k), Semaphores(k), Texture(t)}]
          /\ presents[i + Lag].fence = PresentFence(k)
    BY DEF WorkInv
  <2>2. gpu[i].uses = {CommandBuffer(k), Semaphores(k), Texture(t)} /\ gpu[i].fence = RenderFence(k)
    BY <2>1
  <2>3. i + Lag \in DOMAIN presents
    BY <1>1
  <2> QED
    BY <2>1, <2>2, <2>3, ObjectsDiffer
<1>3. ASSUME NEW i \in DOMAIN presents
      PROVE  /\ CommandBuffer(n) \notin presents[i].uses
             /\ Semaphores(n) \in presents[i].uses => presents[i].fence = PresentFence(n)
  <2>1. PICK m \in MadeSlots, k \in 1 .. swapchains :
          presents[i] = [fence |-> PresentFence(m), uses |-> {Semaphores(m), Swapchain(k)}]
    BY DEF WorkInv
  <2>2. presents[i].uses = {Semaphores(m), Swapchain(k)} /\ presents[i].fence = PresentFence(m)
    BY <2>1
  <2> QED
    BY <2>2, ObjectsDiffer
<1> QED
  BY <1>1, <1>2, <1>3 DEF Covered

\* A texture is drawn with until the last submission at most.
LEMMA TextureIsCovered ==
    ASSUME Inv, WorkInv, NEW t
    PROVE  Covered(Texture(t), m_currentRenderFence)
<1>1. Len(gpu) \in Nat /\ DOMAIN gpu = 1 .. Len(gpu)
  BY QueueLengths
<1>2. ASSUME NEW i \in DOMAIN gpu
      PROVE  \E j \in DOMAIN gpu : j >= i /\ gpu[j].fence = m_currentRenderFence
  <2>1. gpu # <<>> /\ Len(gpu) \in DOMAIN gpu /\ Len(gpu) >= i
    BY <1>1, QueueLengths
  <2> QED
    BY <2>1 DEF WorkInv
<1>3. ASSUME NEW i \in DOMAIN presents
      PROVE  Texture(t) \notin presents[i].uses
  <2>1. PICK m \in MadeSlots, k \in 1 .. swapchains :
          presents[i] = [fence |-> PresentFence(m), uses |-> {Semaphores(m), Swapchain(k)}]
    BY DEF WorkInv
  <2>2. presents[i].uses = {Semaphores(m), Swapchain(k)}
    BY <2>1
  <2> QED
    BY <2>2, ObjectsDiffer
<1> QED
  BY <1>2, <1>3 DEF Covered

\* Between frames the last present has the present fence of the current slot.
LEMMA SwapchainIsCovered ==
    ASSUME Inv, WorkInv, main = "idle", NEW k
    PROVE  Covered(Swapchain(k), PresentFence(Slot))
<1>1. Len(presents) \in Nat /\ DOMAIN presents = 1 .. Len(presents)
  BY QueueLengths
<1>2. ASSUME NEW i \in DOMAIN presents
      PROVE  \E j \in DOMAIN presents : j >= i /\ presents[j].fence = PresentFence(Slot)
  <2>1. presents # <<>> /\ Len(presents) \in DOMAIN presents /\ Len(presents) >= i
    BY <1>1, QueueLengths
  <2> QED
    BY <2>1 DEF WorkInv
<1>3. ASSUME NEW i \in DOMAIN gpu
      PROVE  Swapchain(k) \notin gpu[i].uses
  <2>1. PICK n \in MadeSlots, t \in 1 .. textures :
          gpu[i] = [fence |-> RenderFence(n), uses |-> {CommandBuffer(n), Semaphores(n), Texture(t)}]
    BY DEF WorkInv
  <2>2. gpu[i].uses = {CommandBuffer(n), Semaphores(n), Texture(t)}
    BY <2>1
  <2> QED
    BY <2>2, ObjectsDiffer
<1> QED
  BY <1>2, <1>3 DEF Covered

-----------------------------------------------------------------------------
(* What is retired.                                                        *)

LEMMA NextTexture ==
    ASSUME NEW r, NEW t \in Nat, t + 1 <= MaxTextures
    PROVE  FirstObjects(r, t + 1) = FirstObjects(r, t) \cup {Texture(t + 1)}
<1>1. Texture(t + 1) \in AllObjects /\ t + 1 \in 1 .. t + 1 /\ 1 .. t + 1 = (1 .. t) \cup {t + 1}
  BY ObjectsDiffer, BoundsAssumption
<1> QED
  BY <1>1 DEF FirstObjects

LEMMA NextRing ==
    ASSUME RingInv, NEW t
    PROVE  FirstObjects(swapchains, t) =
             FirstObjects(swapchains - 1, t)
               \cup {o \in AllObjects : \/ \E n : RingSlot(n) /\ o \in {CommandBuffer(n), Semaphores(n)}
                                        \/ o = Swapchain(swapchains)}
<1>1. swapchains \in 1 .. MaxSwapchains /\ swapchains \in Nat
  BY BoundsAssumption DEF RingInv
<1>2. 1 .. swapchains = (1 .. swapchains - 1) \cup {swapchains}
  BY <1>1
<1>3. ASSUME NEW n \in Slots
      PROVE  n <= swapchains * NumImages <=> n <= (swapchains - 1) * NumImages \/ RingSlot(n)
  <2> DEFINE a == swapchains * NumImages
             b == (swapchains - 1) * NumImages
  <2>1. n \in Int
    BY DEF Slots
  <2>2. a \in Int /\ b \in Int /\ b <= a
    BY <1>1, BoundsAssumption
  <2>3. RingSlot(n) <=> n > b /\ n <= a
    BY DEF RingSlot
  <2> HIDE DEF a, b
  <2>4. n <= a <=> n <= b \/ (n > b /\ n <= a)
    BY <2>1, <2>2
  <2> QED
    BY <2>3, <2>4 DEF a, b
<1>4. \A n : RingSlot(n) => n \in Slots
  BY DEF RingSlot
<1> QED
  BY <1>2, <1>3, <1>4 DEF FirstObjects

\* What a frame is drawn with is not retired.
LEMMA LiveNotRetired ==
    ASSUME Inv, main # "cleanup", then # "shutdown"
    PROVE  /\ CommandBuffer(Slot) \notin Retired /\ Semaphores(Slot) \notin Retired
           /\ Swapchain(swapchains) \notin Retired /\ Texture(textures) \notin Retired
<1>1. RetiredRings = swapchains - 1 /\ RetiredTextures = textures - 1
  BY DEF RetiredRings, RetiredTextures
<1>2. swapchains \in Nat /\ textures \in Nat
  BY BoundsAssumption DEF Inv, RingInv
<1>3. ~(Slot <= (swapchains - 1) * NumImages)
  <2>1. m_frameIdx \in 0 .. NumImages - 1 /\ swapchains \in 1 .. MaxSwapchains /\ Slot = Ring(swapchains)[m_frameIdx + 1]
    BY DEF Inv, RingInv, Slot
  <2>2. Slot > (swapchains - 1) * NumImages /\ Slot \in Slots
    BY <2>1, RingSlots
  <2>3. (swapchains - 1) * NumImages \in Int /\ Slot \in Int
    BY <1>2, <2>2, BoundsAssumption DEF Slots
  <2> QED
    BY <2>2, <2>3
<1>4. /\ \A n \in Slots : n <= (swapchains - 1) * NumImages => n # Slot
      /\ \A k \in 1 .. swapchains - 1 : k # swapchains
      /\ \A t \in 1 .. textures - 1 : t # textures
  BY <1>2, <1>3
<1> QED
  BY <1>1, <1>4, ObjectsDiffer DEF Retired, FirstObjects

-----------------------------------------------------------------------------
(* The collector's part of the invariant, one action after the other.      *)

\* Without new work and without the end of work, coverage stays.
LEMMA CoveredSame ==
    ASSUME UNCHANGED <<gpu, presents>>, NEW o, NEW f
    PROVE  (Covered(o, f)' <=> Covered(o, f)) /\ (o \in InFlight' <=> o \in InFlight)
BY DEF Covered, Lag, InFlight

\* Steps of the threads: the retired objects move towards destroyed.
LEMMA GarbageMoves ==
    ASSUME Inv, GarbageInv, PhaseInv', UNCHANGED <<gpu, presents>>, outOfDate \subseteq outOfDate',
           Accounted',
           \A f \in AllFences : \A o \in m_garbage'[f] : o \in m_garbage[f] \/ o \in Excepted' \/ Covered(o, f),
           \A i \in DOMAIN recycling' : \A o \in recycling'[i].objects :
               o \in Excepted' \/ Covered(o, recycling'[i].fence),
           \A o \in tmp' \cup destroyed' : o \in tmp \cup destroyed \/ o \in Excepted' \/ o \notin InFlight
    PROVE  GarbageInv'
<1>1. \A o : o \in Excepted => o \in Excepted'
  BY DEF Excepted
<1>2. \A f \in AllFences : \A o \in m_garbage'[f] : o \in Excepted' \/ Covered(o, f)'
  BY <1>1, CoveredSame DEF GarbageInv, WaitsForItsWork
<1>3. \A i \in DOMAIN recycling' : \A o \in recycling'[i].objects :
        o \in Excepted' \/ Covered(o, recycling[i].fence)'
  <2> SUFFICES ASSUME NEW i \in DOMAIN recycling', NEW o \in recycling'[i].objects
               PROVE  o \in Excepted' \/ Covered(o, recycling[i].fence)'
    OBVIOUS
  <2>1. o \in Excepted' \/ Covered(o, recycling'[i].fence)
    OBVIOUS
  <2> QED
    BY <2>1 DEF Covered, Lag
<1>4. \A o \in tmp' \cup destroyed' : o \in Excepted' \/ o \notin InFlight'
  BY <1>1, CoveredSame DEF GarbageInv, TakenIsUnused
<1>5. WaitsForItsWork'
  BY <1>2, <1>3 DEF WaitsForItsWork
<1>6. TakenIsUnused'
  BY <1>4 DEF TakenIsUnused
<1> QED
  BY <1>5, <1>6 DEF GarbageInv

\* Steps that leave the retired objects where they are.
LEMMA GarbageStill ==
    ASSUME Inv, GarbageInv, PhaseInv',
           UNCHANGED <<gpu, presents, outOfDate, m_garbage, recycling, tmp, destroyed>>,
           RetiredRings' = RetiredRings, RetiredTextures' = RetiredTextures
    PROVE  GarbageInv'
<1>1. Retired' = Retired
  BY DEF Retired, FirstObjects
<1>2. Accounted'
  BY <1>1 DEF GarbageInv, Accounted, InGarbage, Coming
<1>3. Excepted' = Excepted
  BY DEF Excepted
<1>4. /\ \A f \in AllFences : \A o \in m_garbage'[f] : o \in m_garbage[f]
      /\ \A o \in tmp' \cup destroyed' : o \in tmp \cup destroyed
  OBVIOUS
<1>5. \A i \in DOMAIN recycling' : \A o \in recycling'[i].objects :
        o \in Excepted' \/ Covered(o, recycling'[i].fence)
  BY <1>3 DEF GarbageInv, WaitsForItsWork
<1> QED
  BY <1>2, <1>4, <1>5, GarbageMoves

\* Steps that neither hand over nor destroy anything.
LEMMA GarbageQuiet ==
    ASSUME Inv, GarbageInv,
           \/ Render \/ BeginFrame \/ WaitRender \/ Acquire \/ CreateSwapchain \/ Shutdown \/ NotifyReaper
           \/ UNCHANGED vars
           \/ (ReaperWait \/ ReaperBlock \/ ReaperTimeout) /\ UNCHANGED <<signaled, main, ringVars, gpuVars, cleanupVars>>
    PROVE  GarbageInv'
<1> USE DEF ringVars, gpuVars, cleanupVars, garbageVars
<1>1. UNCHANGED <<gpu, presents, outOfDate, m_garbage, recycling, tmp, destroyed>>
  BY DEF Render, BeginFrame, WaitRender, Acquire, CreateSwapchain, Shutdown, NotifyReaper, StoreShutdown,
         NotifyShutdown, ReaperWait, ReaperBlock, ReaperTimeout, vars
<1>2. UNCHANGED <<swapchains, textures, then>> \/ CreateSwapchain
  BY DEF Render, BeginFrame, WaitRender, Acquire, Shutdown, NotifyReaper, vars
<1>3. CASE Render \/ BeginFrame \/ WaitRender \/ Acquire
  <2>1. /\ main \in {"idle", "begin", "wait", "acquire"} /\ main' \in {"begin", "wait", "acquire", "record"}
        /\ UNCHANGED <<m_shutdown, reaper, then, swapchains, textures>>
    BY <1>3 DEF Render, BeginFrame, WaitRender, Acquire
  <2>2. PhaseInv'
    BY <1>1, <2>1 DEF GarbageInv, PhaseInv
  <2>3. RetiredRings' = RetiredRings /\ RetiredTextures' = RetiredTextures
    BY <2>1 DEF RetiredRings, RetiredTextures
  <2> QED
    BY <1>1, <2>2, <2>3, GarbageStill
<1>4. CASE CreateSwapchain
  <2>1. /\ main = "cleanup" /\ main' \in {"begin", "acquire"} /\ recycling = <<>> /\ then # "shutdown"
        /\ swapchains' = swapchains + 1 /\ UNCHANGED <<m_shutdown, reaper, then, textures>>
    BY <1>4 DEF CreateSwapchain, Inv, CleanupInv
  <2>2. PhaseInv'
    BY <1>1, <2>1 DEF GarbageInv, PhaseInv
  <2>3. swapchains \in Nat
    BY BoundsAssumption DEF Inv, RingInv
  <2>4. RetiredRings' = RetiredRings /\ RetiredTextures' = RetiredTextures
    BY <2>1, <2>3 DEF RetiredRings, RetiredTextures
  <2> QED
    BY <1>1, <2>2, <2>4, GarbageStill
<1>5. CASE Shutdown
  <2>1. /\ main = "cleanup" /\ main' = "notify" /\ recycling = <<>> /\ then = "shutdown"
        /\ m_shutdown' = TRUE /\ UNCHANGED <<reaper, then, swapchains, textures>>
    BY <1>5 DEF Shutdown, StoreShutdown
  <2>2. PhaseInv'
    BY <1>1, <2>1 DEF GarbageInv, PhaseInv
  <2>3. RetiredRings' = RetiredRings /\ RetiredTextures' = RetiredTextures
    BY <2>1 DEF RetiredRings, RetiredTextures
  <2> QED
    BY <1>1, <2>2, <2>3, GarbageStill
<1>6. CASE NotifyReaper
  <2>1. /\ main = "notify" /\ main' = "join" /\ (reaper = "destroy" => reaper' = "destroy")
        /\ UNCHANGED <<m_shutdown, then, swapchains, textures>>
    BY <1>6 DEF NotifyReaper, NotifyShutdown, Notify
  <2>2. PhaseInv'
    BY <1>1, <2>1 DEF GarbageInv, PhaseInv
  <2>3. RetiredRings' = RetiredRings /\ RetiredTextures' = RetiredTextures
    BY <2>1, <2>2 DEF RetiredRings, RetiredTextures, GarbageInv, PhaseInv
  <2> QED
    BY <1>1, <2>2, <2>3, GarbageStill
<1>7. CASE \/ UNCHANGED vars
           \/ (ReaperWait \/ ReaperBlock \/ ReaperTimeout) /\ UNCHANGED <<signaled, main, ringVars, gpuVars, cleanupVars>>
  <2>1. /\ UNCHANGED <<m_shutdown, main, then, swapchains, textures>>
        /\ reaper' = reaper \/ reaper \notin {"destroy", "exited"}
    BY <1>7 DEF vars, ReaperWait, ReaperBlock, ReaperTimeout
  <2>2. InGarbage' = InGarbage
    BY <1>1 DEF InGarbage
  <2>3. PhaseInv'
    BY <1>1, <2>1, <2>2 DEF GarbageInv, PhaseInv
  <2>4. RetiredRings' = RetiredRings /\ RetiredTextures' = RetiredTextures
    BY <2>1 DEF RetiredRings, RetiredTextures
  <2> QED
    BY <1>1, <2>3, <2>4, GarbageStill
<1> QED
  BY <1>3, <1>4, <1>5, <1>6, <1>7

\* Handing over objects with a fence.
LEMMA RecycleFacts ==
    ASSUME m_garbage \in [AllFences -> SUBSET AllObjects], NEW F \in AllFences, NEW O \in SUBSET AllObjects,
           m_garbage' = [m_garbage EXCEPT ![F] = @ \cup O]
    PROVE  /\ m_garbage' \in [AllFences -> SUBSET AllObjects]
           /\ InGarbage' = InGarbage \cup O
           /\ \A f \in AllFences : \A o \in m_garbage'[f] : o \in m_garbage[f] \/ (f = F /\ o \in O)
<1>1. /\ m_garbage'[F] = m_garbage[F] \cup O
      /\ \A f \in AllFences : f # F => m_garbage'[f] = m_garbage[f]
      /\ m_garbage' \in [AllFences -> SUBSET AllObjects]
  OBVIOUS
<1> QED
  BY <1>1 DEF InGarbage

\* A texture that is replaced waits for the last submission.
LEMMA GarbageReplace ==
    ASSUME Inv, WorkInv, GarbageInv, Replace
    PROVE  GarbageInv'
<1>1. /\ main = "idle" \/ (main = "cleanup" /\ then = "begin")
      /\ textures < MaxTextures /\ textures' = textures + 1
      /\ m_garbage' = [m_garbage EXCEPT ![m_currentRenderFence] = @ \cup {Texture(textures)}]
      /\ reaper = "destroy" => reaper' = "destroy"
      /\ UNCHANGED <<main, then, swapchains, gpu, presents, outOfDate, recycling, m_shutdown, tmp, destroyed>>
  BY DEF Replace, Recycle, Notify, gpuVars, cleanupVars
<1>2. m_currentRenderFence \in AllFences /\ textures \in 1 .. MaxTextures /\ textures - 1 \in Nat /\ textures \in Nat
  BY <1>1, BoundsAssumption DEF WorkInv, Inv
<1>3. {Texture(textures)} \in SUBSET AllObjects
  BY <1>2, ObjectsDiffer
<1>4. /\ m_garbage' \in [AllFences -> SUBSET AllObjects] /\ InGarbage' = InGarbage \cup {Texture(textures)}
      /\ \A f \in AllFences : \A o \in m_garbage'[f] :
            o \in m_garbage[f] \/ (f = m_currentRenderFence /\ o = Texture(textures))
  <2>1. m_garbage \in [AllFences -> SUBSET AllObjects]
    BY DEF GarbageInv, PhaseInv
  <2> QED
    BY <1>1, <1>2, <1>3, <2>1, RecycleFacts, ZenonT(60)
<1>5. PhaseInv'
  BY <1>1, <1>4 DEF GarbageInv, PhaseInv
<1>6. then # "shutdown"
  BY <1>1 DEF GarbageInv, PhaseInv
<1>7. Retired' = Retired \cup {Texture(textures)}
  <2>1. RetiredRings' = RetiredRings /\ RetiredTextures = textures - 1 /\ RetiredTextures' = (textures - 1) + 1
    BY <1>1, <1>2, <1>6 DEF RetiredRings, RetiredTextures
  <2>2. FirstObjects(RetiredRings, (textures - 1) + 1) = FirstObjects(RetiredRings, textures - 1) \cup {Texture((textures - 1) + 1)}
    BY <1>2, NextTexture
  <2>3. (textures - 1) + 1 = textures
    BY <1>2
  <2> QED
    BY <2>1, <2>2, <2>3 DEF Retired, FirstObjects
<1>8. Accounted'
  <2>1. Coming' = Coming
    BY <1>1 DEF Coming
  <2> QED
    BY <1>1, <1>4, <1>7, <2>1 DEF GarbageInv, Accounted
<1>9. \A f \in AllFences : \A o \in m_garbage'[f] : o \in m_garbage[f] \/ o \in Excepted' \/ Covered(o, f)
  BY <1>4, TextureIsCovered
<1>10. Excepted' = Excepted
  BY <1>1 DEF Excepted
<1>11. \A i \in DOMAIN recycling' : \A o \in recycling'[i].objects :
         o \in Excepted' \/ Covered(o, recycling'[i].fence)
  BY <1>1, <1>10 DEF GarbageInv, WaitsForItsWork
<1> QED
  BY <1>1, <1>5, <1>8, <1>9, <1>11, GarbageMoves

\* CleanupSwapchain hands over the next thing to recycle, with its fence.
LEMMA GarbageCleanup ==
    ASSUME Inv, WorkInv, GarbageInv, CleanupSwapchain
    PROVE  GarbageInv'
<1> DEFINE h == Head(recycling)
<1>1. /\ main = "cleanup" /\ recycling # <<>> /\ recycling' = Tail(recycling)
      /\ m_garbage' = [m_garbage EXCEPT ![h.fence] = @ \cup h.objects]
      /\ reaper = "destroy" => reaper' = "destroy"
      /\ UNCHANGED <<main, then, swapchains, textures, gpu, presents, outOfDate, m_shutdown, tmp, destroyed>>
  BY DEF CleanupSwapchain, Recycle, Notify, gpuVars, ringVars
<1>2. recycling \in Seq(Recycled) /\ m_garbage \in [AllFences -> SUBSET AllObjects]
  BY DEF GarbageInv, PhaseInv, Recycled
<1>3. /\ recycling' \in Seq(Recycled) /\ h = recycling[1]
      /\ Len(recycling) \in Nat \ {0} /\ DOMAIN recycling = 1 .. Len(recycling)
      /\ DOMAIN recycling' = 1 .. Len(recycling) - 1
      /\ \A i \in 1 .. Len(recycling) - 1 : recycling'[i] = recycling[i + 1]
  BY <1>1, <1>2, TailFacts
<1>4. h.fence \in AllFences /\ h.objects \in SUBSET AllObjects
  <2>1. h \in Recycled
    BY <1>1, <1>2, <1>3
  <2> HIDE DEF h
  <2> QED
    BY <2>1 DEF Recycled
<1> HIDE DEF h
<1>5. /\ m_garbage' \in [AllFences -> SUBSET AllObjects] /\ InGarbage' = InGarbage \cup h.objects
      /\ \A f \in AllFences : \A o \in m_garbage'[f] : o \in m_garbage[f] \/ (f = h.fence /\ o \in h.objects)
  <2>1. PICK F \in AllFences, O \in SUBSET AllObjects : F = h.fence /\ O = h.objects
    BY <1>4
  <2>2. m_garbage' = [m_garbage EXCEPT ![F] = @ \cup O]
    BY <1>1, <2>1
  <2> HIDE DEF h
  <2> QED
    BY <1>2, <2>1, <2>2, RecycleFacts
<1>6. PhaseInv'
  BY <1>1, <1>3, <1>5 DEF GarbageInv, PhaseInv, Recycled
<1>7. Coming = Coming' \cup h.objects
  <2>1. \A o : o \in Coming <=> \E i \in DOMAIN recycling : o \in recycling[i].objects
    BY DEF Coming
  <2>2. \A o : o \in Coming' <=> \E i \in DOMAIN recycling' : o \in recycling'[i].objects
    BY DEF Coming
  <2>3. ASSUME NEW i \in DOMAIN recycling
        PROVE  i = 1 \/ (i - 1 \in DOMAIN recycling' /\ recycling'[i - 1] = recycling[i])
    <3>1. i # 1 => i - 1 \in 1 .. Len(recycling) - 1 /\ (i - 1) + 1 = i
      BY <1>3
    <3> QED
      BY <1>3, <3>1
  <2>4. ASSUME NEW i \in DOMAIN recycling'
        PROVE  i + 1 \in DOMAIN recycling /\ recycling'[i] = recycling[i + 1]
    BY <1>3
  <2>5. 1 \in DOMAIN recycling
    BY <1>3
  <2>6. ASSUME NEW o
        PROVE  o \in Coming <=> o \in Coming' \/ o \in h.objects
    <3>1. ASSUME o \in Coming
          PROVE  o \in Coming' \/ o \in h.objects
      <4>1. PICK i \in DOMAIN recycling : o \in recycling[i].objects
        BY <2>1, <3>1
      <4> QED
        BY <1>3, <2>2, <2>3, <4>1
    <3>2. ASSUME o \in Coming'
          PROVE  o \in Coming
      <4>1. PICK i \in DOMAIN recycling' : o \in recycling'[i].objects
        BY <2>2, <3>2
      <4> QED
        BY <2>1, <2>4, <4>1
    <3> QED
      BY <1>3, <2>1, <2>5, <3>1, <3>2
  <2> QED
    BY <2>6
<1>8. Accounted'
  <2>1. Retired' = Retired
    BY <1>1 DEF Retired, RetiredRings, RetiredTextures, FirstObjects
  <2> QED
    BY <1>1, <1>5, <1>7, <2>1 DEF GarbageInv, Accounted
<1>9. Excepted' = Excepted
  BY <1>1 DEF Excepted
<1>10. \A o \in h.objects : o \in Excepted \/ Covered(o, h.fence)
  BY <1>3 DEF GarbageInv, WaitsForItsWork
<1>11. \A f \in AllFences : \A o \in m_garbage'[f] : o \in m_garbage[f] \/ o \in Excepted' \/ Covered(o, f)
  BY <1>5, <1>9, <1>10
<1>12. \A i \in DOMAIN recycling' : \A o \in recycling'[i].objects :
         o \in Excepted' \/ Covered(o, recycling'[i].fence)
  <2> SUFFICES ASSUME NEW i \in DOMAIN recycling', NEW o \in recycling'[i].objects
               PROVE  o \in Excepted' \/ Covered(o, recycling'[i].fence)
    OBVIOUS
  <2>1. i + 1 \in DOMAIN recycling /\ recycling'[i] = recycling[i + 1]
    BY <1>3
  <2> QED
    BY <1>9, <2>1 DEF GarbageInv, WaitsForItsWork
<1> QED
  BY <1>1, <1>6, <1>8, <1>11, <1>12, GarbageMoves

\* The ring that is replaced, with its swapchain, is what CleanupSwapchain has to
\* recycle, and every object of it waits for its own fence.
LEMMA RingRecycled ==
    ASSUME Inv, WorkInv
    PROVE  /\ UNION {Recyclings[i].objects : i \in DOMAIN Recyclings} =
                {o \in AllObjects : \/ \E n : RingSlot(n) /\ o \in {CommandBuffer(n), Semaphores(n)}
                                    \/ o = Swapchain(swapchains)}
           /\ \A i \in DOMAIN Recyclings : \A o \in Recyclings[i].objects :
                (o = Swapchain(swapchains) /\ Recyclings[i].fence = PresentFence(Slot)) \/ Covered(o, Recyclings[i].fence)
<1>1. ASSUME NEW i \in DOMAIN Recyclings, NEW o \in Recyclings[i].objects
      PROVE  /\ o \in AllObjects
             /\ (\E n : RingSlot(n) /\ o \in {CommandBuffer(n), Semaphores(n)}) \/ o = Swapchain(swapchains)
             /\ (o = Swapchain(swapchains) /\ Recyclings[i].fence = PresentFence(Slot)) \/ Covered(o, Recyclings[i].fence)
  <2>1. \/ \E n : RingSlot(n) /\ o = CommandBuffer(n) /\ Recyclings[i].fence = RenderFence(n)
        \/ \E n : RingSlot(n) /\ o = Semaphores(n) /\ Recyclings[i].fence = PresentFence(n)
        \/ o = Swapchain(swapchains) /\ Recyclings[i].fence = PresentFence(Slot)
    BY RecyclingsAreRing
  <2>2. swapchains \in 1 .. MaxSwapchains
    BY DEF Inv, RingInv
  <2> QED
    BY <2>1, <2>2, SlotIsCovered, ObjectsDiffer DEF RingSlot
<1>2. ASSUME NEW n, RingSlot(n)
      PROVE  /\ \E i \in DOMAIN Recyclings : CommandBuffer(n) \in Recyclings[i].objects
             /\ \E i \in DOMAIN Recyclings : Semaphores(n) \in Recyclings[i].objects
  BY <1>2, RecyclingsAreRing
<1>3. \E i \in DOMAIN Recyclings : Swapchain(swapchains) \in Recyclings[i].objects
  BY RecyclingsAreRing
<1> QED
  BY <1>1, <1>2, <1>3

\* The swapchain is to be replaced.
LEMMA GarbageResize ==
    ASSUME Inv, WorkInv, GarbageInv, Resize \/ AcquireFailed
    PROVE  GarbageInv'
<1>1. /\ main' = "cleanup" /\ recycling' = Recyclings /\ then' # "shutdown"
      /\ \/ main = "idle" /\ outOfDate' = outOfDate
         \/ main = "acquire" /\ outOfDate' = outOfDate \cup {swapchains}
      /\ UNCHANGED <<swapchains, textures, gpu, presents, m_garbage, m_shutdown, reaper, tmp, destroyed>>
  BY DEF Resize, AcquireFailed, ringVars, gpuVars, garbageVars
<1>2. then # "shutdown" /\ recycling = <<>> /\ ~m_shutdown
  BY <1>1 DEF GarbageInv, PhaseInv
<1>3. PhaseInv'
  <2>1. recycling' \in Seq(Recycled)
    BY <1>1, RecyclingsFacts
  <2> QED
    BY <1>1, <1>2, <2>1 DEF GarbageInv, PhaseInv, Recycled
<1> DEFINE R == {o \in AllObjects : \/ \E n : RingSlot(n) /\ o \in {CommandBuffer(n), Semaphores(n)}
                                    \/ o = Swapchain(swapchains)}
<1>4. Coming = {} /\ Coming' = R
  <2>1. Coming' = UNION {Recyclings[i].objects : i \in DOMAIN Recyclings}
    BY <1>1 DEF Coming
  <2>2. Coming = {}
    BY <1>2 DEF Coming
  <2> QED
    BY <2>1, <2>2, RingRecycled
<1>5. Retired' = Retired \cup R
  <2>1. /\ RetiredRings = swapchains - 1 /\ RetiredRings' = swapchains
        /\ RetiredTextures = textures - 1 /\ RetiredTextures' = textures - 1
    BY <1>1, <1>2 DEF RetiredRings, RetiredTextures
  <2>2. FirstObjects(swapchains, textures - 1) = FirstObjects(swapchains - 1, textures - 1) \cup R
    BY NextRing DEF Inv
  <2> HIDE DEF R
  <2> QED
    BY <2>1, <2>2 DEF Retired, FirstObjects
<1> HIDE DEF R
<1>6. Accounted'
  <2>1. InGarbage' = InGarbage
    BY <1>1 DEF InGarbage
  <2> QED
    BY <1>1, <1>4, <1>5, <2>1 DEF GarbageInv, Accounted
<1>7. \A i \in DOMAIN recycling' : \A o \in recycling'[i].objects :
        o \in Excepted' \/ Covered(o, recycling'[i].fence)
  <2>1. main = "acquire" => Swapchain(swapchains) \in Excepted'
    BY <1>1 DEF Excepted
  <2>2. main = "idle" => Covered(Swapchain(swapchains), PresentFence(Slot))
    BY SwapchainIsCovered
  <2> QED
    BY <1>1, <2>1, <2>2, RingRecycled
<1>8. /\ \A f \in AllFences : \A o \in m_garbage'[f] : o \in m_garbage[f]
      /\ \A o \in tmp' \cup destroyed' : o \in tmp \cup destroyed
      /\ outOfDate \subseteq outOfDate' /\ UNCHANGED <<gpu, presents>>
  BY <1>1
<1> QED
  BY <1>3, <1>6, <1>7, <1>8, GarbageMoves

\* One element and what follows.
LEMMA ConsFacts ==
    ASSUME NEW S, NEW e \in S, NEW q \in Seq(S)
    PROVE  /\ <<e>> \o q \in Seq(S)
           /\ Len(q) \in Nat /\ DOMAIN q = 1 .. Len(q)
           /\ DOMAIN (<<e>> \o q) = 1 .. Len(q) + 1
           /\ (<<e>> \o q)[1] = e
           /\ \A i \in 2 .. Len(q) + 1 : (<<e>> \o q)[i] = q[i - 1]
OBVIOUS

\* The viewer closes: the last texture goes before the last ring.
LEMMA GarbageClose ==
    ASSUME Inv, WorkInv, GarbageInv, Close
    PROVE  GarbageInv'
<1> DEFINE e == [fence |-> m_currentRenderFence, objects |-> {Texture(textures)}]
<1>1. /\ main = "idle" /\ main' = "cleanup" /\ recycling' = <<e>> \o Recyclings /\ then' = "shutdown"
      /\ UNCHANGED <<swapchains, textures, gpu, presents, outOfDate, m_garbage, m_shutdown, reaper, tmp, destroyed>>
  BY DEF Close, ringVars, gpuVars, garbageVars
<1>2. then # "shutdown" /\ recycling = <<>> /\ ~m_shutdown
  BY <1>1 DEF GarbageInv, PhaseInv
<1>3. m_currentRenderFence \in AllFences /\ textures \in 1 .. MaxTextures /\ textures - 1 \in Nat /\ textures \in Nat
  BY <1>1, BoundsAssumption DEF WorkInv, Inv
<1>4. e \in Recycled /\ e.objects = {Texture(textures)} /\ e.fence = m_currentRenderFence
  BY <1>3, ObjectsDiffer DEF Recycled
<1> HIDE DEF e
<1>5. /\ recycling' \in Seq(Recycled) /\ Len(Recyclings) \in Nat /\ DOMAIN Recyclings = 1 .. Len(Recyclings)
      /\ DOMAIN recycling' = 1 .. Len(Recyclings) + 1 /\ recycling'[1] = e
      /\ \A i \in 2 .. Len(Recyclings) + 1 : recycling'[i] = Recyclings[i - 1]
  BY <1>1, <1>4, RecyclingsFacts, ConsFacts
<1>6. PhaseInv'
  BY <1>1, <1>2, <1>5 DEF GarbageInv, PhaseInv, Recycled
<1>7. /\ \A i \in DOMAIN recycling' :
            i = 1 \/ (i - 1 \in DOMAIN Recyclings /\ recycling'[i] = Recyclings[i - 1])
      /\ \A i \in DOMAIN Recyclings : i + 1 \in DOMAIN recycling' /\ recycling'[i + 1] = Recyclings[i]
      /\ 1 \in DOMAIN recycling'
  <2>1. \A i \in 1 .. Len(Recyclings) + 1 : i = 1 \/ (i \in 2 .. Len(Recyclings) + 1 /\ i - 1 \in 1 .. Len(Recyclings))
    BY <1>5
  <2>2. \A i \in 1 .. Len(Recyclings) : i + 1 \in 2 .. Len(Recyclings) + 1 /\ i + 1 \in 1 .. Len(Recyclings) + 1 /\ (i + 1) - 1 = i
    BY <1>5
  <2> QED
    BY <1>5, <2>1, <2>2
<1> DEFINE R == {o \in AllObjects : \/ \E n : RingSlot(n) /\ o \in {CommandBuffer(n), Semaphores(n)}
                                    \/ o = Swapchain(swapchains)}
<1>8. Coming = {} /\ Coming' = R \cup {Texture(textures)}
  <2>1. R = UNION {Recyclings[i].objects : i \in DOMAIN Recyclings}
    BY RingRecycled
  <2>2. Coming = {}
    BY <1>2 DEF Coming
  <2> HIDE DEF R
  <2>3. \A o : o \in Coming' <=> \E i \in DOMAIN recycling' : o \in recycling'[i].objects
    BY DEF Coming
  <2>4. \A o : o \in R <=> \E i \in DOMAIN Recyclings : o \in Recyclings[i].objects
    BY <2>1
  <2>5. ASSUME NEW o
        PROVE  o \in Coming' <=> o \in R \/ o \in e.objects
    <3>1. ASSUME o \in Coming'
          PROVE  o \in R \/ o \in e.objects
      <4>1. PICK i \in DOMAIN recycling' : o \in recycling'[i].objects
        BY <2>3, <3>1
      <4> QED
        BY <1>5, <1>7, <2>4, <4>1
    <3>2. ASSUME o \in R
          PROVE  o \in Coming'
      <4>1. PICK i \in DOMAIN Recyclings : o \in Recyclings[i].objects
        BY <2>4, <3>2
      <4> QED
        BY <1>7, <2>3, <4>1
    <3> QED
      BY <1>5, <1>7, <2>3, <3>1, <3>2
  <2> QED
    BY <1>4, <2>2, <2>5
<1>9. Retired' = Retired \cup R \cup {Texture(textures)}
  <2>1. /\ RetiredRings = swapchains - 1 /\ RetiredRings' = swapchains
        /\ RetiredTextures = textures - 1 /\ RetiredTextures' = textures
    BY <1>1, <1>2 DEF RetiredRings, RetiredTextures
  <2>2. FirstObjects(swapchains, textures - 1) = FirstObjects(swapchains - 1, textures - 1) \cup R
    BY NextRing DEF Inv
  <2> HIDE DEF R
  <2>3. (textures - 1) + 1 = textures
    BY <1>3
  <2>4. FirstObjects(swapchains, textures) = FirstObjects(swapchains, textures - 1) \cup {Texture(textures)}
    BY <1>3, <2>3, NextTexture
  <2>5. Retired' = FirstObjects(swapchains, textures)
    BY <2>1 DEF Retired, FirstObjects
  <2>6. Retired = FirstObjects(swapchains - 1, textures - 1)
    BY <2>1 DEF Retired
  <2> QED
    BY <2>2, <2>4, <2>5, <2>6
<1> HIDE DEF R
<1>10. Accounted'
  <2>1. InGarbage' = InGarbage
    BY <1>1 DEF InGarbage
  <2> QED
    BY <1>1, <1>8, <1>9, <2>1 DEF GarbageInv, Accounted
<1>11. \A i \in DOMAIN recycling' : \A o \in recycling'[i].objects :
         o \in Excepted' \/ Covered(o, recycling'[i].fence)
  BY <1>1, <1>4, <1>5, <1>7, TextureIsCovered, SwapchainIsCovered, RingRecycled
<1>12. /\ \A f \in AllFences : \A o \in m_garbage'[f] : o \in m_garbage[f]
       /\ \A o \in tmp' \cup destroyed' : o \in tmp \cup destroyed
       /\ outOfDate \subseteq outOfDate' /\ UNCHANGED <<gpu, presents>>
  BY <1>1
<1> QED
  BY <1>6, <1>10, <1>11, <1>12, GarbageMoves

\* The reaper takes out what waits for signaled fences.
LEMMA GarbageReap ==
    ASSUME Inv, GarbageInv, ReapGarbage, UNCHANGED <<signaled, main, ringVars, gpuVars, cleanupVars>>
    PROVE  GarbageInv'
<1> DEFINE done == {f \in Entries : signaled[f]}
<1>1. /\ reaper = "reap" /\ tmp' = UNION {m_garbage[f] : f \in done}
      /\ m_garbage' = [f \in AllFences |-> IF f \in done THEN {} ELSE m_garbage[f]]
      /\ reaper' = (IF tmp' # {} THEN "destroy" ELSE "sleep")
      /\ UNCHANGED <<m_shutdown, destroyed, main, then, swapchains, textures, gpu, presents, outOfDate, recycling>>
  BY DEF ReapGarbage, ringVars, gpuVars, cleanupVars
<1>2. \A f \in done : f \in AllFences /\ signaled[f]
  BY DEF Entries
<1> HIDE DEF done
<1>3. tmp = {} /\ main # "gone" /\ m_garbage \in [AllFences -> SUBSET AllObjects]
  BY <1>1 DEF GarbageInv, PhaseInv
<1>4. m_garbage' \in [AllFences -> SUBSET AllObjects]
  BY <1>1, <1>3
<1>5. PhaseInv'
  BY <1>1, <1>3, <1>4 DEF GarbageInv, PhaseInv
<1>6. /\ \A f \in AllFences : f \in done => m_garbage'[f] = {}
      /\ \A f \in AllFences : f \notin done => m_garbage'[f] = m_garbage[f]
  BY <1>1
<1>7. InGarbage = InGarbage' \cup tmp'
  BY <1>1, <1>2, <1>6 DEF InGarbage
<1>8. Accounted'
  <2>1. Retired' = Retired /\ Coming' = Coming
    BY <1>1 DEF Retired, RetiredRings, RetiredTextures, FirstObjects, Coming
  <2> QED
    BY <1>1, <1>3, <1>7, <2>1 DEF GarbageInv, Accounted
<1>9. Excepted' = Excepted
  BY <1>1 DEF Excepted
<1>10. \A f \in AllFences : \A o \in m_garbage'[f] : o \in m_garbage[f]
  BY <1>6
<1>11. \A o \in tmp' : o \in Excepted \/ o \notin InFlight
  <2> SUFFICES ASSUME NEW o \in tmp', o \notin Excepted
               PROVE  o \notin InFlight
    OBVIOUS
  <2>1. PICK f \in done : o \in m_garbage[f]
    BY <1>1
  <2>2. Covered(o, f) /\ signaled[f]
    BY <1>2, <2>1 DEF GarbageInv, WaitsForItsWork
  <2> QED
    BY <2>2, SignaledIsUnused
<1>12. \A o \in tmp' \cup destroyed' : o \in tmp \cup destroyed \/ o \in Excepted' \/ o \notin InFlight
  BY <1>1, <1>9, <1>11
<1>13. \A i \in DOMAIN recycling' : \A o \in recycling'[i].objects :
         o \in Excepted' \/ Covered(o, recycling'[i].fence)
  BY <1>1, <1>9 DEF GarbageInv, WaitsForItsWork
<1> QED
  BY <1>1, <1>5, <1>8, <1>10, <1>12, <1>13, GarbageMoves

\* The reaper destroys what it has taken out.
LEMMA GarbageDestroy ==
    ASSUME Inv, GarbageInv, ReapDestroy, UNCHANGED <<signaled, main, ringVars, gpuVars, cleanupVars>>
    PROVE  GarbageInv'
<1>1. /\ reaper = "destroy" /\ destroyed' = destroyed \cup tmp /\ tmp' = {} /\ reaper' # "destroy"
      /\ UNCHANGED <<m_garbage, m_shutdown, main, then, swapchains, textures, gpu, presents, outOfDate, recycling>>
  BY DEF ReapDestroy, ringVars, gpuVars, cleanupVars
<1>2. main # "gone"
  BY <1>1 DEF GarbageInv, PhaseInv
<1>3. PhaseInv'
  BY <1>1, <1>2 DEF GarbageInv, PhaseInv
<1>4. Retired' = Retired /\ Coming' = Coming /\ InGarbage' = InGarbage /\ Excepted' = Excepted
  BY <1>1 DEF Retired, RetiredRings, RetiredTextures, FirstObjects, Coming, InGarbage, Excepted
<1>5. Accounted'
  BY <1>1, <1>4 DEF GarbageInv, Accounted
<1>6. \A i \in DOMAIN recycling' : \A o \in recycling'[i].objects :
        o \in Excepted' \/ Covered(o, recycling'[i].fence)
  BY <1>1, <1>4 DEF GarbageInv, WaitsForItsWork
<1>7. /\ \A f \in AllFences : \A o \in m_garbage'[f] : o \in m_garbage[f]
      /\ \A o \in tmp' \cup destroyed' : o \in tmp \cup destroyed
  BY <1>1
<1> QED
  BY <1>1, <1>3, <1>5, <1>6, <1>7, GarbageMoves

\* The rest is destroyed when all of its fences are signaled.  Every command
\* buffer and semaphore ever made is then unused, so that no work is left.
LEMMA GarbageJoined ==
    ASSUME Inv, WorkInv, GarbageInv, Joined
    PROVE  GarbageInv'
<1>1. /\ main = "join" /\ main' = "gone" /\ reaper = "exited"
      /\ \A f \in Entries : signaled[f]
      /\ destroyed' = destroyed \cup UNION {m_garbage[f] : f \in Entries}
      /\ m_garbage' = [f \in AllFences |-> {}]
      /\ UNCHANGED <<m_shutdown, reaper, tmp, then, swapchains, textures, gpu, presents, outOfDate, recycling>>
  BY DEF Joined, DestroyRest, ringVars, gpuVars, cleanupVars
<1>2. m_shutdown /\ then = "shutdown" /\ tmp = {} /\ recycling = <<>> /\ Coming = {} /\ Coming' = {}
  BY <1>1 DEF GarbageInv, PhaseInv, Coming
<1>3. \A f \in AllFences : \A o \in m_garbage[f] : f \in Entries
  BY DEF Entries
<1>4. destroyed' = destroyed \cup InGarbage
  <2>1. UNION {m_garbage[f] : f \in Entries} = InGarbage
    BY <1>3 DEF InGarbage, Entries
  <2> QED
    BY <1>1, <2>1
<1>5. m_garbage' \in [AllFences -> SUBSET AllObjects] /\ InGarbage' = {}
  BY <1>1 DEF InGarbage
<1>6. \A o \in InGarbage : o \in Excepted \/ o \notin InFlight
  <2> SUFFICES ASSUME NEW o \in InGarbage, o \notin Excepted
               PROVE  o \notin InFlight
    OBVIOUS
  <2>1. PICK f \in AllFences : o \in m_garbage[f]
    BY DEF InGarbage
  <2>2. Covered(o, f) /\ signaled[f]
    BY <1>1, <1>3, <2>1 DEF GarbageInv, WaitsForItsWork
  <2> QED
    BY <2>2, SignaledIsUnused
<1>7. \A o \in destroyed' : o \in Excepted \/ o \notin InFlight
  BY <1>4, <1>6 DEF GarbageInv, TakenIsUnused
<1>8. destroyed' = Retired /\ RetiredRings = swapchains /\ Retired' = Retired
  BY <1>1, <1>2, <1>4 DEF GarbageInv, Accounted, Retired, RetiredRings, RetiredTextures, FirstObjects
<1>9. ASSUME NEW n \in MadeSlots
      PROVE  CommandBuffer(n) \notin InFlight /\ Semaphores(n) \notin InFlight
  <2>1. n \in Slots /\ n <= RetiredRings * NumImages
    BY <1>8 DEF MadeSlots
  <2>2. CommandBuffer(n) \in Retired /\ Semaphores(n) \in Retired
    BY <2>1, ObjectsDiffer DEF Retired, FirstObjects
  <2>3. CommandBuffer(n) \notin Excepted /\ Semaphores(n) \notin Excepted
    BY ObjectsDiffer DEF Excepted
  <2> QED
    BY <1>7, <1>8, <2>2, <2>3
<1>10. gpu = <<>>
  <2> SUFFICES ASSUME gpu # <<>>
               PROVE  FALSE
    OBVIOUS
  <2>1. 1 \in DOMAIN gpu
    BY QueueLengths
  <2>2. PICK n \in MadeSlots, t \in 1 .. textures :
          gpu[1] = [fence |-> RenderFence(n), uses |-> {CommandBuffer(n), Semaphores(n), Texture(t)}]
    BY <2>1 DEF WorkInv
  <2>3. CommandBuffer(n) \in gpu[1].uses
    BY <2>2
  <2> QED
    BY <1>9, <2>1, <2>3, InFlightFacts
<1>11. presents = <<>>
  <2> SUFFICES ASSUME presents # <<>>
               PROVE  FALSE
    OBVIOUS
  <2>1. 1 \in DOMAIN presents
    BY QueueLengths
  <2>2. PICK n \in MadeSlots, k \in 1 .. swapchains :
          presents[1] = [fence |-> PresentFence(n), uses |-> {Semaphores(n), Swapchain(k)}]
    BY <2>1 DEF WorkInv
  <2>3. Semaphores(n) \in presents[1].uses
    BY <2>2
  <2> QED
    BY <1>9, <2>1, <2>3, InFlightFacts
<1>12. PhaseInv'
  BY <1>1, <1>2, <1>5, <1>10, <1>11 DEF GarbageInv, PhaseInv
<1>13. Accounted'
  BY <1>1, <1>2, <1>5, <1>8 DEF Accounted
<1>14. Excepted' = Excepted
  BY <1>1 DEF Excepted
<1>15. /\ \A f \in AllFences : \A o \in m_garbage'[f] : o \in m_garbage[f]
       /\ \A i \in DOMAIN recycling' : \A o \in recycling'[i].objects : o \in Excepted' \/ Covered(o, recycling'[i].fence)
       /\ \A o \in tmp' \cup destroyed' : o \in tmp \cup destroyed \/ o \in Excepted' \/ o \notin InFlight
  BY <1>1, <1>2, <1>7, <1>14
<1> QED
  BY <1>1, <1>12, <1>13, <1>15, GarbageMoves

\* A frame is submitted: it is drawn with nothing that is retired.
LEMMA GarbageEnd ==
    ASSUME Inv, WorkInv, GarbageInv, EndFrame
    PROVE  GarbageInv'
<1> DEFINE e == [fence |-> RenderFence(Slot), uses |-> recording]
           p == [fence |-> PresentFence(Slot), uses |-> {Semaphores(Slot), Swapchain(swapchains)}]
<1>1. /\ main = "record" /\ main' = "idle"
      /\ gpu' = Append(gpu, e) /\ presents' = Append(presents, p)
      /\ UNCHANGED <<m_garbage, m_shutdown, reaper, tmp, destroyed, swapchains, textures, recycling, then, outOfDate>>
  BY DEF EndFrame, garbageVars, cleanupVars
<1>2. then # "shutdown"
  BY <1>1 DEF GarbageInv, PhaseInv
<1>3. recording = {CommandBuffer(Slot), Semaphores(Slot), Texture(textures)}
  BY <1>1 DEF WorkInv
<1>4. \A o \in Retired : o \notin recording /\ o # Semaphores(Slot) /\ o # Swapchain(swapchains)
  BY <1>1, <1>2, <1>3, LiveNotRetired
<1>5. PhaseInv'
  BY <1>1, <1>2 DEF GarbageInv, PhaseInv
<1>6. Accounted'
  <2>1. Retired' = Retired /\ Coming' = Coming /\ InGarbage' = InGarbage
    BY <1>1, <1>2 DEF Retired, RetiredRings, RetiredTextures, FirstObjects, Coming, InGarbage
  <2> QED
    BY <1>1, <2>1 DEF GarbageInv, Accounted
<1>7. Excepted' = Excepted
  BY <1>1 DEF Excepted
<1>8. \A o \in Retired : \A f : Covered(o, f) => Covered(o, f)'
  BY <1>4, CoveredEnd
<1>9. \A o \in Retired : o \in InFlight' => o \in InFlight
  <2> SUFFICES ASSUME NEW o \in Retired, o \in InFlight'
               PROVE  o \in InFlight
    OBVIOUS
  <2>1. e \in Submissions /\ p \in Presentations
    <3>1. Slot \in Slots /\ swapchains \in 1 .. MaxSwapchains
      BY CurrentSlot DEF Inv, RingInv
    <3> QED
      BY <3>1, ObjectsDiffer DEF Inv, Submissions, Presentations
  <2>2. o \notin e.uses /\ o \notin p.uses
    BY <1>4
  <2> HIDE DEF e, p
  <2>3. /\ Len(gpu) \in Nat /\ DOMAIN gpu = 1 .. Len(gpu)
        /\ DOMAIN gpu' = 1 .. Len(gpu) + 1 /\ gpu'[Len(gpu) + 1] = e
        /\ \A i \in 1 .. Len(gpu) : gpu'[i] = gpu[i]
    BY <1>1, <2>1, QueueLengths, AppendFacts
  <2>4. /\ Len(presents) \in Nat /\ DOMAIN presents = 1 .. Len(presents)
        /\ DOMAIN presents' = 1 .. Len(presents) + 1 /\ presents'[Len(presents) + 1] = p
        /\ \A i \in 1 .. Len(presents) : presents'[i] = presents[i]
    BY <1>1, <2>1, QueueLengths, AppendFacts
  <2>5. (\E i \in DOMAIN gpu' : o \in gpu'[i].uses) \/ (\E i \in DOMAIN presents' : o \in presents'[i].uses)
    BY DEF InFlight
  <2>6. (\E i \in DOMAIN gpu : o \in gpu[i].uses) \/ (\E i \in DOMAIN presents : o \in presents[i].uses)
    BY <2>2, <2>3, <2>4, <2>5
  <2> QED
    BY <2>6, InFlightFacts
<1>10. /\ \A f \in AllFences : \A o \in m_garbage[f] : o \in Retired
       /\ \A i \in DOMAIN recycling : \A o \in recycling[i].objects : o \in Retired
       /\ \A o \in tmp \cup destroyed : o \in Retired
  BY DEF GarbageInv, Accounted, InGarbage, Coming
<1>11. WaitsForItsWork'
  <2>1. ASSUME NEW f \in AllFences, NEW o \in m_garbage'[f]
        PROVE  o \in Excepted' \/ Covered(o, f)'
    BY <1>1, <1>7, <1>8, <1>10 DEF GarbageInv, WaitsForItsWork
  <2>2. recycling' = <<>>
    BY <1>1 DEF GarbageInv, PhaseInv
  <2> QED
    BY <2>1, <2>2 DEF WaitsForItsWork
<1>12. TakenIsUnused'
  BY <1>1, <1>7, <1>9, <1>10 DEF GarbageInv, TakenIsUnused
<1> QED
  BY <1>5, <1>6, <1>11, <1>12 DEF GarbageInv

\* Work ends.
LEMMA GarbageGpu ==
    ASSUME Inv, WorkInv, GarbageInv, GpuDone \/ PresentDone
    PROVE  GarbageInv'
<1>1. /\ UNCHANGED <<m_garbage, m_shutdown, reaper, tmp, destroyed, main, swapchains, textures, recycling, then, outOfDate>>
      /\ main # "gone"
  BY DEF GpuDone, PresentDone, garbageVars, cleanupVars, ringVars, GarbageInv, PhaseInv
<1>2. PhaseInv'
  BY <1>1 DEF GarbageInv, PhaseInv
<1>3. Accounted'
  <2>1. Retired' = Retired /\ Coming' = Coming /\ InGarbage' = InGarbage
    BY <1>1 DEF Retired, RetiredRings, RetiredTextures, FirstObjects, Coming, InGarbage
  <2> QED
    BY <1>1, <2>1 DEF GarbageInv, Accounted
<1>4. Excepted' = Excepted
  BY <1>1 DEF Excepted
<1>5. \A o, f : Covered(o, f) => Covered(o, f)'
  BY CoveredGpuDone, CoveredPresentDone
<1>6. \A o : o \in InFlight' => o \in InFlight
  <2> SUFFICES ASSUME NEW o, o \in InFlight'
               PROVE  o \in InFlight
    OBVIOUS
  <2>1. (\E i \in DOMAIN gpu' : o \in gpu'[i].uses) \/ (\E i \in DOMAIN presents' : o \in presents'[i].uses)
    BY DEF InFlight
  <2>2. CASE GpuDone
    <3>1. gpu # <<>> /\ gpu' = Tail(gpu) /\ presents' = presents
      BY <2>2 DEF GpuDone
    <3>2. \A i \in DOMAIN gpu' : i + 1 \in DOMAIN gpu /\ gpu'[i] = gpu[i + 1]
      BY <3>1, QueueLengths, TailFacts
    <3> QED
      BY <2>1, <3>1, <3>2, InFlightFacts
  <2>3. CASE PresentDone
    <3>1. presents # <<>> /\ presents' = Tail(presents) /\ gpu' = gpu
      BY <2>3 DEF PresentDone
    <3>2. \A i \in DOMAIN presents' : i + 1 \in DOMAIN presents /\ presents'[i] = presents[i + 1]
      BY <3>1, QueueLengths, TailFacts
    <3> QED
      BY <2>1, <3>1, <3>2, InFlightFacts
  <2> QED
    BY <2>2, <2>3
<1>7. WaitsForItsWork'
  <2>1. ASSUME NEW f \in AllFences, NEW o \in m_garbage'[f]
        PROVE  o \in Excepted' \/ Covered(o, f)'
    BY <1>1, <1>4, <1>5 DEF GarbageInv, WaitsForItsWork
  <2>2. ASSUME NEW i \in DOMAIN recycling, NEW o \in recycling[i].objects, NEW f, f = recycling[i].fence
        PROVE  o \in Excepted' \/ Covered(o, f)'
    BY <1>4, <1>5, <2>2 DEF GarbageInv, WaitsForItsWork
  <2>3. \A i \in DOMAIN recycling' : \A o \in recycling'[i].objects : o \in Excepted' \/ Covered(o, recycling[i].fence)'
    BY <1>1, <2>2 DEF Covered
  <2> QED
    BY <2>1, <2>3 DEF WaitsForItsWork
<1>8. TakenIsUnused'
  BY <1>1, <1>4, <1>6 DEF GarbageInv, TakenIsUnused
<1> QED
  BY <1>2, <1>3, <1>7, <1>8 DEF GarbageInv

-----------------------------------------------------------------------------
(* The invariant, and what it says.                                        *)

LEMMA AllInvInit == Init => AllInv
<1> SUFFICES ASSUME Init
             PROVE  AllInv
  OBVIOUS
<1>1. Inv
  BY InvInit
<1>2. /\ main = "begin" /\ then = "begin" /\ swapchains = 1 /\ textures = 1 /\ recording = {}
      /\ gpu = <<>> /\ presents = <<>> /\ recycling = <<>> /\ outOfDate = {}
      /\ m_garbage = [f \in AllFences |-> {}] /\ tmp = {} /\ destroyed = {} /\ m_shutdown = FALSE
  BY DEF Init, GarbageInit
<1>3. WorkInv
  <2>1. Len(gpu) <= Len(presents)
    BY <1>2
  <2> QED
    BY <1>2, <2>1 DEF WorkInv
<1>4. PhaseInv
  <2>1. m_garbage \in [AllFences -> SUBSET AllObjects]
    BY <1>2
  <2> QED
    BY <1>2, <2>1 DEF PhaseInv
<1>5. Retired = {}
  <2>1. RetiredRings = 0 /\ RetiredTextures = 0
    BY <1>2 DEF RetiredRings, RetiredTextures
  <2>2. \A n \in Slots : ~(n <= 0 * NumImages)
    BY BoundsAssumption DEF Slots
  <2> QED
    BY <2>1, <2>2 DEF Retired, FirstObjects
<1>6. Accounted
  <2>1. InGarbage = {} /\ Coming = {}
    BY <1>2 DEF InGarbage, Coming
  <2> QED
    BY <1>2, <1>5, <2>1 DEF Accounted
<1>7. WaitsForItsWork /\ TakenIsUnused
  BY <1>2 DEF WaitsForItsWork, TakenIsUnused
<1> QED
  BY <1>1, <1>3, <1>4, <1>6, <1>7 DEF AllInv, GarbageInv

LEMMA AllInvStep == AllInv /\ [Next]_vars => AllInv'
<1> SUFFICES ASSUME Inv, WorkInv, GarbageInv, [Next]_vars
             PROVE  Inv' /\ WorkInv' /\ GarbageInv'
  BY DEF AllInv
<1>1. Inv' /\ WorkInv'
  BY InvStep, WorkStep
<1> SUFFICES GarbageInv'
  BY <1>1
<1>2. CASE Reaper
  BY <1>2, GarbageQuiet, GarbageReap, GarbageDestroy DEF Reaper, ReaperStep
<1>3. CASE Next /\ ~Reaper
  BY <1>3, GarbageQuiet, GarbageReplace, GarbageResize, GarbageClose, GarbageCleanup, GarbageJoined, GarbageEnd, GarbageGpu
     DEF Next, MainStep
<1>4. CASE UNCHANGED vars
  BY <1>4, GarbageQuiet
<1> QED
  BY <1>2, <1>3, <1>4

\* Whatever the sizes of the rings and however many swapchains and textures are
\* made: the collector destroys nothing that a submission or a present still
\* uses, that is being recorded or that the next frame draws, but a swapchain
\* that was replaced inside BeginFrame.
THEOREM NothingFreedWhileUsed == Spec => []NothingFreedInUse
<1>1. AllInv => NothingFreedInUse
  <2> SUFFICES ASSUME AllInv
               PROVE  NothingFreedInUse
    OBVIOUS
  <2>1. Inv /\ WorkInv /\ PhaseInv /\ Accounted /\ TakenIsUnused
    BY DEF AllInv, GarbageInv
  <2>2. destroyed \subseteq Retired
    BY <2>1 DEF Accounted
  <2>3. ASSUME NEW o \in destroyed, o \in recording
        PROVE  FALSE
    <3>1. main = "record" /\ recording = {CommandBuffer(Slot), Semaphores(Slot), Texture(textures)}
      BY <2>1, <2>3 DEF WorkInv
    <3>2. then # "shutdown"
      BY <2>1, <3>1 DEF PhaseInv
    <3> QED
      BY <2>1, <2>2, <2>3, <3>1, <3>2, LiveNotRetired
  <2>4. \A o \in destroyed : o \in InFlight => o \in Excepted
    BY <2>1 DEF TakenIsUnused
  <2>5. main # "gone" /\ then # "shutdown" => Texture(textures) \notin destroyed
    <3>1. SUFFICES ASSUME then # "shutdown"
                   PROVE  Texture(textures) \notin Retired
      BY <2>2
    <3>2. RetiredTextures = textures - 1
      BY <3>1 DEF RetiredTextures
    <3>3. \A t \in 1 .. textures - 1 : t # textures
      BY <2>1, BoundsAssumption DEF Inv
    <3> QED
      BY <3>2, <3>3, ObjectsDiffer DEF Retired, FirstObjects
  <2> QED
    BY <2>3, <2>4, <2>5 DEF NothingFreedInUse, Excepted
<1> QED
  BY <1>1, AllInvInit, AllInvStep, PTL DEF Spec

\* When the collector is gone no submission and no present is left, so that the
\* device may go, and every object ever made has been destroyed.
THEOREM NothingIsLeftOver == Spec => []DeviceIdleWhenGone
<1>1. AllInv => DeviceIdleWhenGone
  <2> SUFFICES ASSUME AllInv, main = "gone"
               PROVE  /\ gpu = <<>> /\ presents = <<>>
                      /\ destroyed = {o \in AllObjects :
                            \/ \E n \in 1 .. swapchains * NumImages : o \in {CommandBuffer(n), Semaphores(n)}
                            \/ \E k \in 1 .. swapchains : o = Swapchain(k)
                            \/ \E t \in 1 .. textures : o = Texture(t)}
    BY DEF DeviceIdleWhenGone
  <2>1. Inv /\ PhaseInv /\ Accounted
    BY DEF AllInv, GarbageInv
  <2>2. m_shutdown /\ then = "shutdown" /\ tmp = {} /\ InGarbage = {} /\ recycling = <<>>
    BY <2>1 DEF PhaseInv
  <2>3. destroyed = Retired
    BY <2>1, <2>2 DEF Accounted, Coming
  <2>4. RetiredRings = swapchains /\ RetiredTextures = textures
    BY <2>2 DEF RetiredRings, RetiredTextures
  <2>5. ASSUME NEW o \in AllObjects
        PROVE  (\E n \in Slots : n <= swapchains * NumImages /\ o \in {CommandBuffer(n), Semaphores(n)})
                 <=> \E n \in 1 .. swapchains * NumImages : o \in {CommandBuffer(n), Semaphores(n)}
    <3>1. swapchains * NumImages \in Int
      BY <2>1, BoundsAssumption DEF Inv, RingInv
    <3>2. \A n \in Slots : n <= swapchains * NumImages => n \in 1 .. swapchains * NumImages
      BY <3>1 DEF Slots
    <3>3. \A n \in 1 .. swapchains * NumImages : n <= swapchains * NumImages
      BY <3>1
    <3>4. \A n : o \in {CommandBuffer(n), Semaphores(n)} => n \in Slots
      <4>1. \/ \E m \in Slots : o \in {CommandBuffer(m), Semaphores(m)}
            \/ \E k : o = Swapchain(k) \/ o = Texture(k)
        BY DEF AllObjects
      <4> QED
        BY <4>1, ObjectsDiffer
    <3> QED
      BY <3>2, <3>3, <3>4
  <2> QED
    BY <2>1, <2>2, <2>3, <2>4, <2>5 DEF PhaseInv, Retired, FirstObjects
<1> QED
  BY <1>1, AllInvInit, AllInvStep, PTL DEF Spec

\* The rest of the type invariant, which the other invariants do not imply.
ControlOK ==
    /\ m_shutdown \in BOOLEAN
    /\ reaper \in {"wait", "block", "blocked", "reap", "destroy", "sleep", "exited"}
    /\ main \in {"idle", "begin", "wait", "acquire", "record", "cleanup", "shutdown", "notify", "join", "gone"}
    /\ then \in {"begin", "acquire", "shutdown"}
    /\ m_currentRenderFence \in AllFences \cup {NoFence}
    /\ outOfDate \subseteq 1 .. MaxSwapchains

LEMMA ControlStep == Inv /\ ControlOK /\ [Next]_vars => ControlOK'
<1> SUFFICES ASSUME Inv, ControlOK, [Next]_vars
             PROVE  ControlOK'
  OBVIOUS
<1> USE DEF ControlOK, ringVars, gpuVars, cleanupVars, garbageVars
<1>1. CASE Render \/ BeginFrame \/ WaitRender \/ Acquire \/ UNCHANGED vars
  BY <1>1 DEF Render, BeginFrame, WaitRender, Acquire, vars
<1>2. CASE EndFrame
  <2>1. RenderFence(Slot) \in AllFences
    BY CurrentSlot, FencesDiffer DEF Inv
  <2> QED
    BY <1>2, <2>1 DEF EndFrame
<1>3. CASE Replace \/ CleanupSwapchain
  BY <1>3 DEF Replace, CleanupSwapchain, Recycle, Notify
<1>4. CASE Resize \/ AcquireFailed \/ Close
  <2>1. swapchains \in 1 .. MaxSwapchains
    BY DEF Inv, RingInv
  <2> QED
    BY <1>4, <2>1 DEF Resize, AcquireFailed, Close
<1>5. CASE CreateSwapchain
  BY <1>5 DEF CreateSwapchain
<1>6. CASE Shutdown \/ NotifyReaper \/ Joined
  BY <1>6 DEF Shutdown, NotifyReaper, Joined, StoreShutdown, NotifyShutdown, Notify, DestroyRest
<1>7. CASE Reaper
  <2>1. CASE ReaperWait
    <3>1. reaper' \in {"exited", "block", "reap"}
      BY <2>1, Zenon DEF ReaperWait
    <3> QED
      BY <1>7, <2>1, <3>1 DEF Reaper, ReaperWait
  <2>2. CASE ReaperBlock \/ ReapGarbage \/ ReapDestroy \/ ReaperTimeout
    BY <1>7, <2>2 DEF Reaper, ReaperBlock, ReapGarbage, ReapDestroy, ReaperTimeout
  <2> QED
    BY <1>7, <2>1, <2>2 DEF Reaper, ReaperStep
<1>8. CASE GpuDone \/ PresentDone
  BY <1>8 DEF GpuDone, PresentDone
<1> QED
  BY <1>1, <1>2, <1>3, <1>4, <1>5, <1>6, <1>7, <1>8 DEF Next, MainStep

\* The type invariant of frames and collector.
THEOREM FramesTypeCorrect == Spec => []TypeOK
<1>1. Init => ControlOK
  BY DEF Init, GarbageInit, ControlOK
<1>2. AllInv /\ ControlOK => TypeOK
  <2> SUFFICES ASSUME AllInv, ControlOK
               PROVE  TypeOK
    OBVIOUS
  <2>1. Inv /\ PhaseInv /\ Accounted
    BY DEF AllInv, GarbageInv
  <2>2. GarbageTypeOK
    <3>1. tmp \subseteq AllObjects /\ destroyed \subseteq AllObjects
      BY <2>1 DEF Accounted, Retired, FirstObjects
    <3> QED
      BY <2>1, <3>1 DEF GarbageTypeOK, ControlOK, Inv, QueuesInv, PhaseInv
  <2>3. m_frameData \in Seq(Slots)
    <3>1. m_frameData = [i \in 1 .. NumImages |-> m_frameData[i]] /\ swapchains \in 1 .. MaxSwapchains
      BY <2>1 DEF Inv, RingInv, Ring
    <3>2. ASSUME NEW i \in 1 .. NumImages
          PROVE  m_frameData[i] \in Slots
      <4>1. i - 1 \in 0 .. NumImages - 1 /\ (i - 1) + 1 = i
        BY BoundsAssumption
      <4>2. Ring(swapchains)[(i - 1) + 1] \in Slots
        BY <3>1, <4>1, RingSlots
      <4> QED
        BY <2>1, <4>1, <4>2 DEF Inv, RingInv
    <3> QED
      BY <3>1, <3>2, BoundsAssumption
  <2>4. /\ gpu \in Seq([fence : AllFences, uses : SUBSET AllObjects])
        /\ presents \in Seq([fence : AllFences, uses : SUBSET AllObjects])
    <3> DEFINE W == [fence : AllFences, uses : SUBSET AllObjects]
    <3>1. Submissions \subseteq W /\ Presentations \subseteq W
      BY DEF Submissions, Presentations, AllFences
    <3>2. gpu \in Seq(Submissions) /\ presents \in Seq(Presentations)
      BY <2>1, QueueLengths
    <3> HIDE DEF W
    <3>3. \A S, T : S \subseteq T => Seq(S) \subseteq Seq(T)
      OBVIOUS
    <3>4. gpu \in Seq(W) /\ presents \in Seq(W)
      BY <3>1, <3>2, <3>3
    <3> QED
      BY <3>4 DEF W
  <2> QED
    BY <2>1, <2>2, <2>3, <2>4 DEF TypeOK, ControlOK, Inv, RingInv, PhaseInv
<1>3. AllInv => Inv
  BY DEF AllInv
<1> QED
  BY <1>1, <1>2, <1>3, AllInvInit, AllInvStep, ControlStep, PTL DEF Spec

=============================================================================

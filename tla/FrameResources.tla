--------------------------- MODULE FrameResources ---------------------------
(***************************************************************************)
(* What lives how long on the GPU: the ring of frames of WaylandWindow     *)
(* (wayland/WaylandWindow.cpp), the objects iv draws with, and the         *)
(* collector VlkGarbage, against a GPU that works some frames behind.      *)
(*                                                                         *)
(* A slot of the ring is numbered once and for all; it has a render fence, *)
(* a present fence, a command buffer and two semaphores (one object here). *)
(* All that is drawn with and replaced under the lock of the ImageView     *)
(* (texture, vertex buffer, pipelines) is one object, the texture.         *)
(***************************************************************************)
EXTENDS Integers, Sequences

CONSTANTS
    NumImages,      \* images of a swapchain, and slots of the ring
    MaxSwapchains,  \* bound on the swapchains created
    MaxTextures     \* bound on the textures created

ASSUME BoundsAssumption ==
    NumImages \in Nat \ {0} /\ MaxSwapchains \in Nat \ {0} /\ MaxTextures \in Nat \ {0}

Slots == 1 .. NumImages * MaxSwapchains

RenderFence(n) == <<"renderFence", n>>
PresentFence(n) == <<"presentFence", n>>
AllFences == {RenderFence(n) : n \in Slots} \cup {PresentFence(n) : n \in Slots}

NoFence == <<"null", 0>>

CommandBuffer(n) == <<"commandBuffer", n>>
Semaphores(n) == <<"semaphores", n>>
Swapchain(k) == <<"swapchain", k>>
Texture(t) == <<"texture", t>>
AllObjects ==
    {CommandBuffer(n) : n \in Slots} \cup {Semaphores(n) : n \in Slots}
      \cup {Swapchain(k) : k \in 1 .. MaxSwapchains} \cup {Texture(t) : t \in 1 .. MaxTextures}

VARIABLES
    signaled, m_garbage, m_shutdown, reaper, tmp, destroyed,
    main,           \* where the main thread stands
    m_frameData,    \* slots of the ring
    m_frameIdx,
    swapchains,     \* number of swapchains created; the last one is m_swapchain
    textures,       \* number of textures created; the last one is shown
    m_currentRenderFence,
    recording,      \* objects the command buffer being recorded refers to
    gpu,            \* submissions the GPU has not finished
    presents,       \* presents that are not over
    recycling,      \* what CleanupSwapchain has still to recycle
    then,           \* where the main thread goes on after CleanupSwapchain
    outOfDate       \* swapchains that were replaced inside BeginFrame (history variable)

INSTANCE VlkGarbage WITH Fences <- AllFences, Objects <- AllObjects

garbageVars == <<m_garbage, m_shutdown, reaper, tmp, destroyed>>
ringVars == <<m_frameData, m_frameIdx, swapchains, textures, m_currentRenderFence>>
gpuVars == <<recording, gpu, presents>>
cleanupVars == <<recycling, then, outOfDate>>

vars == <<signaled, garbageVars, main, ringVars, gpuVars, cleanupVars>>

\* The type invariant of the frames.
TypeOK ==
    /\ GarbageTypeOK
    /\ main \in {"idle", "begin", "wait", "acquire", "record", "cleanup", "shutdown", "notify", "join", "gone"}
    /\ m_frameData \in Seq(Slots)
    /\ m_frameIdx \in 0 .. NumImages - 1
    /\ swapchains \in 1 .. MaxSwapchains
    /\ textures \in 1 .. MaxTextures
    /\ m_currentRenderFence \in AllFences \cup {NoFence}
    /\ recording \subseteq AllObjects
    /\ gpu \in Seq([fence : AllFences, uses : SUBSET AllObjects])
    /\ presents \in Seq([fence : AllFences, uses : SUBSET AllObjects])
    /\ recycling \in Seq([fence : AllFences, objects : SUBSET AllObjects])
    /\ then \in {"begin", "acquire", "shutdown"}
    /\ outOfDate \subseteq 1 .. MaxSwapchains

\* Slots of the n-th swapchain.
Ring(k) == [i \in 1 .. NumImages |-> (k - 1) * NumImages + i]

\* The constructor of the Viewport is about to draw the first frame.
Init ==
    /\ GarbageInit
    /\ main = "begin"
    /\ m_frameData = Ring(1) /\ m_frameIdx = 0
    /\ swapchains = 1 /\ textures = 1
    /\ m_currentRenderFence = NoFence
    /\ recording = {} /\ gpu = <<>> /\ presents = <<>>
    /\ recycling = <<>> /\ then = "begin" /\ outOfDate = {}

Slot == m_frameData[m_frameIdx + 1]

-----------------------------------------------------------------------------
(* A frame.                                                                *)

Render ==
    /\ main = "idle"
    /\ main' = "begin"
    /\ UNCHANGED <<signaled, garbageVars, ringVars, gpuVars, cleanupVars>>

BeginFrame ==
    /\ main = "begin"
    /\ m_frameIdx' = (m_frameIdx + 1) % Len(m_frameData)
    /\ main' = "wait"
    /\ UNCHANGED <<signaled, garbageVars, m_frameData, swapchains, textures, m_currentRenderFence, gpuVars, cleanupVars>>

WaitRenderNot ==
    /\ main = "wait"
    /\ main' = "acquire"
    /\ UNCHANGED <<signaled, garbageVars, ringVars, gpuVars, cleanupVars>>

WaitRender ==
    /\ main = "wait"
    /\ signaled[RenderFence(Slot)]
    /\ main' = "acquire"
    /\ UNCHANGED <<signaled, garbageVars, ringVars, gpuVars, cleanupVars>>

\* An image is acquired, the fence is reset, and drawing is recorded.
Acquire ==
    /\ main = "acquire"
    /\ signaled' = [signaled EXCEPT ![RenderFence(Slot)] = FALSE]
    /\ recording' = {CommandBuffer(Slot), Semaphores(Slot), Texture(textures)}
    /\ main' = "record"
    /\ UNCHANGED <<garbageVars, ringVars, gpu, presents, cleanupVars>>

\* Submit with the render fence, present with the present fence.
EndFrame ==
    /\ main = "record"
    /\ signaled[PresentFence(Slot)]
    /\ signaled' = [signaled EXCEPT ![PresentFence(Slot)] = FALSE]
    /\ gpu' = Append(gpu, [fence |-> RenderFence(Slot), uses |-> recording])
    /\ presents' = Append(presents, [fence |-> PresentFence(Slot), uses |-> {Semaphores(Slot), Swapchain(swapchains)}])
    /\ m_currentRenderFence' = RenderFence(Slot)
    /\ recording' = {}
    /\ main' = "idle"
    /\ UNCHANGED <<garbageVars, m_frameData, m_frameIdx, swapchains, textures, cleanupVars>>

-----------------------------------------------------------------------------
(* Replacing what is drawn with: SetTexture, UpdateVertexBuffer and so on, *)
(* on either thread, under the lock that Render holds during a frame.      *)

ReplaceWithNextFence ==
    /\ main = "idle" \/ (main = "cleanup" /\ then = "begin")
    /\ textures < MaxTextures
    /\ Recycle(RenderFence(m_frameData[((m_frameIdx + 1) % Len(m_frameData)) + 1]), {Texture(textures)})
    /\ textures' = textures + 1
    /\ UNCHANGED <<signaled, main, m_frameData, m_frameIdx, swapchains, m_currentRenderFence, gpuVars, cleanupVars>>

Replace ==
    /\ main = "idle" \/ (main = "cleanup" /\ then = "begin")
    /\ textures < MaxTextures
    /\ Recycle(m_currentRenderFence, {Texture(textures)})
    /\ textures' = textures + 1
    /\ UNCHANGED <<signaled, main, m_frameData, m_frameIdx, swapchains, m_currentRenderFence, gpuVars, cleanupVars>>

-----------------------------------------------------------------------------
(* Replacing the swapchain.                                                *)

\* What CleanupSwapchain recycles, in its order: the slot of m_frameIdx, with
\* the swapchain, then the others; of each the command buffer, then the rest.
Recyclings ==
    LET turn(j) == (j + 1) \div 2
        slot(j) == m_frameData[((m_frameIdx + turn(j) - 1) % Len(m_frameData)) + 1]
    IN  [j \in 1 .. 2 * Len(m_frameData) |->
            IF j % 2 = 1
              THEN [fence |-> RenderFence(slot(j)), objects |-> {CommandBuffer(slot(j))}]
              ELSE [fence |-> PresentFence(slot(j)),
                    objects |-> {Semaphores(slot(j))} \cup (IF j = 2 THEN {Swapchain(swapchains)} ELSE {})]]

\* WaylandWindow::Update finds another size, scale or HDR mode.
Resize ==
    /\ main = "idle" /\ swapchains < MaxSwapchains
    /\ recycling' = Recyclings
    /\ then' = "begin"
    /\ main' = "cleanup"
    /\ UNCHANGED <<signaled, garbageVars, ringVars, gpuVars, outOfDate>>

\* No image can be acquired: the swapchain is out of date.
AcquireFailed ==
    /\ main = "acquire" /\ swapchains < MaxSwapchains
    /\ recycling' = Recyclings
    /\ then' = "acquire"
    /\ outOfDate' = outOfDate \cup {swapchains}
    /\ main' = "cleanup"
    /\ UNCHANGED <<signaled, garbageVars, ringVars, gpuVars>>

\* The destructors of the Viewport and of the WaylandWindow.
Close ==
    /\ main = "idle"
    /\ recycling' = <<[fence |-> m_currentRenderFence, objects |-> {Texture(textures)}]>> \o Recyclings
    /\ then' = "shutdown"
    /\ main' = "cleanup"
    /\ UNCHANGED <<signaled, garbageVars, ringVars, gpuVars, outOfDate>>

CleanupSwapchain ==
    /\ main = "cleanup" /\ recycling # <<>>
    /\ Recycle(Head(recycling).fence, Head(recycling).objects)
    /\ recycling' = Tail(recycling)
    /\ UNCHANGED <<signaled, main, ringVars, gpuVars, then, outOfDate>>

\* The new ring has its fences signaled; m_frameIdx stays.
CreateSwapchain ==
    /\ main = "cleanup" /\ recycling = <<>> /\ then # "shutdown"
    /\ swapchains' = swapchains + 1
    /\ m_frameData' = Ring(swapchains + 1)
    /\ main' = then
    /\ UNCHANGED <<signaled, garbageVars, m_frameIdx, textures, m_currentRenderFence, gpuVars, cleanupVars>>

-----------------------------------------------------------------------------
(* The destructor of VlkGarbage.                                           *)

Shutdown ==
    /\ main = "cleanup" /\ recycling = <<>> /\ then = "shutdown"
    /\ StoreShutdown
    /\ main' = "notify"
    /\ UNCHANGED <<signaled, ringVars, gpuVars, cleanupVars>>

NotifyReaper ==
    /\ main = "notify"
    /\ NotifyShutdown
    /\ main' = "join"
    /\ UNCHANGED <<signaled, ringVars, gpuVars, cleanupVars>>

Joined ==
    /\ main = "join"
    /\ DestroyRest
    /\ main' = "gone"
    /\ UNCHANGED <<signaled, ringVars, gpuVars, cleanupVars>>

-----------------------------------------------------------------------------
(* The GPU works on the submissions in order, and a present waits for the  *)
(* semaphore of its submission.                                            *)

GpuDone ==
    /\ gpu # <<>>
    /\ signaled' = [signaled EXCEPT ![Head(gpu).fence] = TRUE]
    /\ gpu' = Tail(gpu)
    /\ UNCHANGED <<garbageVars, main, ringVars, recording, presents, cleanupVars>>

PresentDone ==
    /\ presents # <<>> /\ Len(presents) > Len(gpu)
    /\ signaled' = [signaled EXCEPT ![Head(presents).fence] = TRUE]
    /\ presents' = Tail(presents)
    /\ UNCHANGED <<garbageVars, main, ringVars, recording, gpu, cleanupVars>>

-----------------------------------------------------------------------------

MainStep == BeginFrame \/ WaitRender \/ Acquire \/ EndFrame \/ CleanupSwapchain \/ CreateSwapchain
            \/ Shutdown \/ NotifyReaper \/ Joined

Reaper == ReaperStep /\ UNCHANGED <<signaled, main, ringVars, gpuVars, cleanupVars>>

Next ==
    \/ Render \/ Replace \/ Resize \/ AcquireFailed \/ Close
    \/ MainStep
    \/ Reaper
    \/ GpuDone \/ PresentDone

Spec == Init /\ [][Next]_vars

\* Both threads and the GPU go on; CleanupSwapchain gets m_lock in the end.
Fairness ==
    /\ WF_vars(MainStep) /\ SF_vars(CleanupSwapchain)
    /\ WF_vars(Reaper)
    /\ WF_vars(GpuDone) /\ WF_vars(PresentDone)

FairSpec == Spec /\ Fairness

-----------------------------------------------------------------------------
(* Properties.                                                             *)

InFlight == (UNION {gpu[i].uses : i \in DOMAIN gpu}) \cup (UNION {presents[i].uses : i \in DOMAIN presents})

\* Nothing is destroyed that a submission or a present still uses, that is being
\* recorded or that the next frame will draw.  A swapchain that was replaced
\* inside BeginFrame is left out: it is recycled with the oldest present fence.
NothingFreedInUse ==
    /\ destroyed \cap (recording \cup InFlight) \subseteq {Swapchain(k) : k \in outOfDate}
    /\ main # "gone" /\ then # "shutdown" => Texture(textures) \notin destroyed

\* A fence belongs to at most one piece of work, and is unsignaled until that
\* is over: the ring never resets or submits a fence that is still in use.
FencesAreFree ==
    \A q \in {gpu, presents} : \A i \in DOMAIN q :
        /\ ~signaled[q[i].fence]
        /\ \A j \in DOMAIN q : q[j].fence = q[i].fence => i = j

\* When the collector is gone the GPU is idle, so that the device may go, and
\* every object ever made has been destroyed.
DeviceIdleWhenGone ==
    main = "gone" =>
        /\ gpu = <<>> /\ presents = <<>>
        /\ destroyed = {o \in AllObjects :
              \/ \E n \in 1 .. swapchains * NumImages : o \in {CommandBuffer(n), Semaphores(n)}
              \/ \E k \in 1 .. swapchains : o = Swapchain(k)
              \/ \E t \in 1 .. textures : o = Texture(t)}

\* Once the viewer stops drawing, everything that was recycled is destroyed.
\* (While it draws, a fence may be reset whenever the reaper looks at it.)
GarbageIsCollected == <>[](main = "idle") => <>[](\A f \in AllFences : m_garbage[f] = {})

\* Closing the viewer ends.
CloseEnds == main = "notify" ~> main = "gone"
=============================================================================

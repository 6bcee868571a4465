----------------------------- MODULE GpuSharing -----------------------------
(***************************************************************************)
(* Three threads of iv share the queues and the command pools of VlkDevice *)
(* and the locks of the viewport: main draws frames, reads textures back   *)
(* and uploads some; the provider's thread uploads the images it decoded   *)
(* and puts them into the view; the reaper of VlkGarbage frees what they   *)
(* submitted.                                                              *)
(*                                                                         *)
(* What a thread has still to do is a sequence of instructions: locks it   *)
(* takes and releases, commands it records, submissions, fences it waits   *)
(* for.  The operators below give the sequence of each function; a thread  *)
(* whose next instruction touches a Vulkan object is touching it now.  The *)
(* recursive locks are not taken twice on these paths.                     *)
(***************************************************************************)
EXTENDS VlkDevice, SequencesExt

CONSTANT MaxFamilies    \* bound on the number of queue families

ASSUME MaxFamiliesAssumption == MaxFamilies \in Nat \ {0}

Families == SUBSET {"graphics", "compute", "transfer", "present"}

(* What Vulkan promises of a machine that can draw: some family can both   *)
(* draw and compute; and the window can be presented by some family.       *)
(* Without them the constructor panics.                                    *)
Machines ==
    {qfp \in UNION {[1 .. n -> Families] : n \in 1 .. MaxFamilies} :
        /\ \E f \in DOMAIN qfp : {"graphics", "compute"} \subseteq qfp[f]
        /\ Having(qfp, {"present"}) # {}}

FlagSets == {{"Graphic", "Present"}, {"Graphic", "Compute", "Present"}, {"Graphic"}, {"Compute"}}

Threads == {"main", "provider", "reaper"}

VARIABLES
    qfp,                \* the machine; forgotten once the device is there
    flags,
    idx,                \* family of each type, forgotten likewise
    m_queue,            \* queue of each type
    m_queueLock,
    m_commandPool,
    m_hostImageCopy,
    todo,               \* what each thread has still to do
    holder,             \* holder of each lock that is held
    gpu,                \* work submitted to each queue and not done
    executed,           \* parts of each thread's last upload that were executed
    m_texture,          \* what was executed of the upload of the texture shown
    m_garbage           \* command buffers that wait for their work to be done

deviceVars == <<qfp, flags, idx, m_queue, m_queueLock, m_commandPool, m_hostImageCopy>>
vars == <<deviceVars, todo, holder, gpu, executed, m_texture, m_garbage>>

NoDevice == [t \in Types |-> "None"]

Init ==
    /\ qfp \in Machines
    /\ flags \in FlagSets
    /\ idx = [t \in Types |-> NoFamily]
    /\ m_queue = NoDevice
    /\ m_queueLock = NoDevice
    /\ m_commandPool = NoDevice
    /\ m_hostImageCopy = FALSE
    /\ todo = [th \in Threads |-> <<>>]
    /\ holder = <<>>
    /\ gpu = [t \in Types |-> <<>>]
    /\ executed = [th \in Threads |-> {}]
    /\ m_texture = {"none"}
    /\ m_garbage = {}

(* The constructor.  The machine matters no more afterwards: the threads   *)
(* know the queues by their types.  They run on a device made with the     *)
(* flags that every caller of the constructor passes; on a queue that only *)
(* presents nobody but main would ever be, so there is one less to run.    *)
Construct ==
    /\ qfp # <<>>
    /\ idx = [t \in Types |-> NoFamily]
    /\ idx' = QueueIdx(flags, qfp)
    /\ m_queue' = [t \in Types |-> QueueOf(idx', t)]
    /\ m_queueLock' = [t \in Types |-> LockOf(idx', t)]
    /\ m_commandPool' = [t \in Types |-> PoolOf(idx', t)]
    /\ \E supported \in BOOLEAN : m_hostImageCopy' = UsesHostImageCopy(idx', supported)
    /\ UNCHANGED <<qfp, flags, todo, holder, gpu, executed, m_texture, m_garbage>>

Forget ==
    /\ qfp # <<>>
    /\ idx # [t \in Types |-> NoFamily]
    /\ flags = {"Graphic", "Present"}
    /\ m_queue["Present"] # "Present"
    /\ qfp' = <<>>
    /\ idx' = [t \in Types |-> NoFamily]
    /\ UNCHANGED <<flags, m_queue, m_queueLock, m_commandPool, m_hostImageCopy>>
    /\ UNCHANGED <<todo, holder, gpu, executed, m_texture, m_garbage>>

(* Nothing runs on the other devices.                                      *)
Unused ==
    /\ qfp # <<>>
    /\ idx # [t \in Types |-> NoFamily]
    /\ flags # {"Graphic", "Present"} \/ m_queue["Present"] = "Present"
    /\ UNCHANGED vars
-----------------------------------------------------------------------------
(* Instructions.                                                           *)

Locked(l, body) == <<<<"lock", l>>>> \o body \o <<<<"unlock", l>>>>
Touch(l) == <<<<"touch", l>>>>  \* takes l, waits for nothing, and releases it

PoolLock(t) == <<"pool", m_commandPool[t]>>
QueueLock(t) == <<"queue", m_queueLock[t]>>

(* A call on a pool or a queue under its lock, which the call releases.    *)
CommandBuffer(t) == <<<<"lock", PoolLock(t)>>, <<"commands", t>>>>     \* allocates or frees one
Record(t, body) == Locked(PoolLock(t), <<<<"begin", t>>>> \o body)     \* Begin, ..., End
SubmitUnlocked(t, work) == <<<<"submit", t, work>>>>
Submit(t, work) == <<<<"lock", QueueLock(t)>>, <<"submit", t, work>>>>
Present == <<<<"lock", QueueLock("Present")>>, <<"present", "Present">>>>
Recycle(t, work) == <<<<"recycle", t, work>>>>
Wait(work) == <<<<"wait", work>>>>

SharesTransfer == m_queue["Graphic"] = m_queue["Transfer"]

UploadHalfAwaited(th) ==
    LET release == <<"release", th>>
        acquire == <<"acquire", th>>
    IN  CommandBuffer("Transfer") \o Record("Transfer", <<>>) \o Submit("Transfer", release)
          \o CommandBuffer("Graphic") \o Record("Graphic", <<>>) \o Submit("Graphic", acquire)
          \o Wait(release)

(* Texture::Upload, and the caller's wait for its fences.                  *)
Upload(th) ==
    LET copy == <<IF SharesTransfer THEN "copy" ELSE "release", th>>
        acquire == <<"acquire", th>>
        transfer == CommandBuffer("Transfer") \o Record("Transfer", <<>>)
                      \o Submit("Transfer", copy) \o Recycle("Transfer", copy)
        graphic == CommandBuffer("Graphic") \o Record("Graphic", <<>>)
                     \o Submit("Graphic", acquire) \o Recycle("Graphic", acquire)
    IN  IF m_hostImageCopy
          THEN <<<<"hostCopy">>>>
        ELSE IF SharesTransfer
          THEN transfer \o Wait(copy)
          ELSE transfer \o graphic \o Wait(copy) \o Wait(acquire)

(* ReadbackBuffer and ReadbackHost.                                        *)
Readback(th) ==
    LET work == <<"readback", th>>
    IN  IF m_hostImageCopy
          THEN <<>>
          ELSE CommandBuffer("Graphic") \o Record("Graphic", <<>>)
                 \o Submit("Graphic", work) \o Wait(work) \o CommandBuffer("Graphic")

(* SetBitmap: upload, then replace the texture under the view's lock.      *)
SetBitmap(th) ==
    Upload(th) \o Locked(<<"view">>, Touch(<<"garbage">>) \o <<<<"setTexture", th>>>>)

(* Viewport::Render, with WaylandWindow::BeginFrame and EndFrame: the pool *)
(* stays locked for as long as the frame is recorded, the view longer.     *)
Render ==
    LET frame == <<"frame", "main">>
        drawing == Locked(<<"viewport">>, Touch(<<"selection">>))
    IN  Touch(<<"viewport">>) \o Touch(<<"window">>)
          \o Locked(<<"view">>,
               Locked(<<"viewport">>, Touch(<<"selection">>))
                 \o Wait(frame)
                 \o Record("Graphic", drawing)
                 \o Submit("Graphic", frame)
                 \o Present)

LoadImage == Locked(<<"viewport">>, Touch(<<"provider">>))

FitWindow == Locked(<<"view">>, Locked(<<"window">>, Touch(<<"viewport">>)))   \* the F key

CutSelection ==
    Touch(<<"view">>) \o Locked(<<"view">>, Touch(<<"selection">>))
      \o Readback("main") \o SetBitmap("main") \o Touch(<<"viewport">>)

ImageHandlerLocksView == Locked(<<"view">>, SetBitmap("provider"))

(* The provider's thread with Viewport::ImageHandler, which it calls       *)
(* without its own lock and which must not hold the view's.                *)
ImageHandler ==
    Touch(<<"provider">>) \o Touch(<<"selection">>) \o SetBitmap("provider") \o Touch(<<"viewport">>)

Reap == <<<<"reap">>>>

Pending(work) == \E t \in Types : work \in Range(gpu[t])

Handlers(th) ==
    CASE th = "main"     -> {Render, LoadImage, FitWindow, CutSelection}
      [] th = "provider" -> {ImageHandler}
      [] th = "reaper"   -> IF \E g \in m_garbage : ~Pending(g[2]) THEN {Reap} ELSE {}
-----------------------------------------------------------------------------
Running == qfp = <<>>
Next1(th) == Head(todo[th])
Does(th, op) == todo[th] # <<>> /\ Next1(th)[1] = op
Continue(th) == todo' = [todo EXCEPT ![th] = Tail(@)]

Enqueue(th) ==
    /\ Running
    /\ todo[th] = <<>>
    /\ \E program \in Handlers(th) : todo' = [todo EXCEPT ![th] = program]
    /\ UNCHANGED <<deviceVars, holder, gpu, executed, m_texture, m_garbage>>

Lock(th) ==
    /\ Does(th, "lock")
    /\ Next1(th)[2] \notin DOMAIN holder
    /\ holder' = [l \in (DOMAIN holder) \cup {Next1(th)[2]} |->
                    IF l = Next1(th)[2] THEN th ELSE holder[l]]
    /\ Continue(th)
    /\ UNCHANGED <<deviceVars, gpu, executed, m_texture, m_garbage>>

TouchLocked(th) ==
    /\ Does(th, "touch")
    /\ Next1(th)[2] \notin DOMAIN holder
    /\ Continue(th)
    /\ UNCHANGED <<deviceVars, holder, gpu, executed, m_texture, m_garbage>>

Release(l) == holder' = [k \in (DOMAIN holder) \ {l} |-> holder[k]]

Unlock(th) ==
    /\ Does(th, "unlock")
    /\ Release(Next1(th)[2])
    /\ Continue(th)
    /\ UNCHANGED <<deviceVars, gpu, executed, m_texture, m_garbage>>

PoolCall(th) ==
    /\ \/ Does(th, "begin") /\ UNCHANGED holder
       \/ Does(th, "commands") /\ Release(PoolLock(Next1(th)[2]))
    /\ Continue(th)
    /\ UNCHANGED <<deviceVars, gpu, executed, m_texture, m_garbage>>

QueueCall(th) ==
    /\ \/ /\ Does(th, "submit")
          /\ gpu' = [gpu EXCEPT ![m_queue[Next1(th)[2]]] = Append(@, Next1(th)[3])]
       \/ Does(th, "present") /\ UNCHANGED gpu
    /\ Release(QueueLock(Next1(th)[2]))
    /\ Continue(th)
    /\ UNCHANGED <<deviceVars, executed, m_texture, m_garbage>>

HostCopy(th) ==
    /\ Does(th, "hostCopy")
    /\ executed' = [executed EXCEPT ![th] = {"copy"}]
    /\ Continue(th)
    /\ UNCHANGED <<deviceVars, holder, gpu, m_texture, m_garbage>>

WaitFence(th) ==
    /\ Does(th, "wait")
    /\ ~Pending(Next1(th)[2])
    /\ Continue(th)
    /\ UNCHANGED <<deviceVars, holder, gpu, executed, m_texture, m_garbage>>

SetTexture(th) ==
    /\ Does(th, "setTexture")
    /\ m_texture' = executed[th]
    /\ executed' = [executed EXCEPT ![th] = {}]
    /\ Continue(th)
    /\ UNCHANGED <<deviceVars, holder, gpu, m_garbage>>

PutGarbage(th) ==
    /\ Does(th, "recycle")
    /\ <<"garbage">> \notin DOMAIN holder
    /\ m_garbage' = m_garbage \cup {<<Next1(th)[2], Next1(th)[3]>>}
    /\ Continue(th)
    /\ UNCHANGED <<deviceVars, holder, gpu, executed, m_texture>>

(* ReapGarbage: what is done is taken out, and freed without the lock.     *)
ReapGarbage(th) ==
    /\ Does(th, "reap")
    /\ <<"garbage">> \notin DOMAIN holder
    /\ LET done == {g \in m_garbage : ~Pending(g[2])}
           freed == SetToSeq(done)
       IN  /\ m_garbage' = m_garbage \ done
           /\ todo' = [todo EXCEPT ![th] =
                         [i \in 1 .. 2 * Len(freed) |->
                            CommandBuffer(freed[(i + 1) \div 2][1])[2 - (i % 2)]]]
    /\ UNCHANGED <<deviceVars, holder, gpu, executed, m_texture>>

Step(th) ==
    \/ Lock(th)
    \/ Unlock(th)
    \/ TouchLocked(th)
    \/ PoolCall(th)
    \/ QueueCall(th)
    \/ HostCopy(th)
    \/ WaitFence(th)
    \/ SetTexture(th)
    \/ PutGarbage(th)
    \/ ReapGarbage(th)

(* The GPU finishes the work of a queue in order, and of two queues in any.*)
GpuDone(t) ==
    /\ gpu[t] # <<>>
    /\ LET work == Head(gpu[t])
       IN  executed' = IF work[1] \in {"copy", "release", "acquire"}
                         THEN [executed EXCEPT ![work[2]] = @ \cup {work[1]}]
                         ELSE executed
    /\ gpu' = [gpu EXCEPT ![t] = Tail(@)]
    /\ UNCHANGED <<deviceVars, todo, holder, m_texture, m_garbage>>

Next ==
    \/ Construct
    \/ Forget
    \/ Unused
    \/ \E th \in Threads : Enqueue(th) \/ Step(th)
    \/ \E t \in Types : GpuDone(t)

Spec == Init /\ [][Next]_vars
-----------------------------------------------------------------------------
(* Properties.                                                             *)

(* Every family the constructor chooses can do what its type is for, types *)
(* have the same lock exactly when they have the same queue, every queue   *)
(* that is got was created, and a family is created once.                  *)
ChoicesAreSound ==
    LET can == [Graphic |-> {"graphics"}, Compute |-> {"compute"},
                Transfer |-> {"graphics", "compute", "transfer"}, Present |-> {"present"}]
        has == {t \in Types : idx[t] # NoFamily}
    IN  idx # [t \in Types |-> NoFamily] =>
          /\ flags \cup {"Transfer"} = has
          /\ \A t \in has : qfp[idx[t]] \cap can[t] # {}
          /\ \A t, u \in has : (m_queueLock[t] = m_queueLock[u]) <=> (idx[t] = idx[u])
          /\ \A t \in has : Cardinality({u \in Created(idx) : idx[u] = idx[t]}) = 1
          /\ \A t \in has \ {"Present"} : m_commandPool[t] # "None"

(* Vulkan wants queues and command pools synchronized by the program: no   *)
(* two threads are in calls on the same queue, or on the same pool.        *)
Touched(th) ==
    IF todo[th] = <<>> THEN {}
    ELSE CASE Next1(th)[1] \in {"begin", "commands"} -> {<<"pool", m_commandPool[Next1(th)[2]]>>}
           [] Next1(th)[1] \in {"submit", "present"} -> {<<"queue", m_queue[Next1(th)[2]]>>}
           [] OTHER -> {}

ExternallySynchronized ==
    \A a, b \in Threads : a # b => Touched(a) \cap Touched(b) = {}

(* The texture shown was uploaded when it came into the view, and handed   *)
(* over to the graphics family if another family uploaded it.              *)
DrawnWhenReady ==
    \/ m_texture \in {{"none"}, {"copy"}}
    \/ m_texture = {"release", "acquire"}

(* Whoever waits for a lock does not wait, through others, for itself: the *)
(* order in which the view, the pools, the viewport and the others are     *)
(* locked has no circle.                                                   *)
WaitsFor(th) ==
    IF Does(th, "lock") \/ Does(th, "touch")
      THEN {holder[l] : l \in {Next1(th)[2]} \cap DOMAIN holder}
      ELSE {}

NoCircularWait ==
    \A S \in (SUBSET Threads) \ {{}} : \E th \in S : WaitsFor(th) \cap S = {}
=============================================================================

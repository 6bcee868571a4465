# Formal models of ModernCore

ModernCore is a set of C++ programs around one window and image library: the
image viewer `iv`, the terminal viewer `vv`, a converter, and the beginnings of
a display server.  Most of its own logic is concurrent: a thread pool, a
background image loader, a GPU that works some frames behind, a collector of GPU
objects, and a Wayland compositor whose events arrive whenever they like.  This
directory holds TLA+ models of that logic, TLC configurations that check them on
small instances, and proofs that hold for every size.

Paths below are relative to the root of the repository, whose own sources are in
`src/` (`src/util`, `src/wayland`, `src/vulkan`, `src/tools`) and whose tests are in
`tests/`.  In `PROJECT.json` the root of the repository is itself called `src/`.

1. [The system](#the-system)
2. [The modules](#the-modules)
3. [What the runs check](#what-the-runs-check)
4. [What is proved](#what-is-proved)
5. [Where the code and what is said of it differ](#where-the-code-and-what-is-said-of-it-differ)
6. [What is not modelled](#what-is-not-modelled)
7. [Plan](#plan)
8. [Running it](#running-it)

## The system

### Threads

| Thread | Created by | Runs |
|---|---|---|
| main | the process | Wayland dispatch; all handlers of `Viewport`, `WaylandSeat`, `WaylandWindow`; rendering |
| provider | `ImageProvider` | loads one image after the other and calls `Viewport::ImageHandler` |
| workers | `TaskDispatch` | tasks queued by main (filtering file lists) and by the provider (decoding) |
| init | `TaskDispatch` | creates the workers, then ends |
| reaper | `VlkGarbage` | destroys GPU objects whose fence is signaled |
| GPU | Vulkan | executes submissions in order, signals fences |

### Components

**TaskDispatch** (`src/util/TaskDispatch.cpp`).  State: the queue `m_queue`, the
number `m_jobs` of tasks the workers run, `m_exit`, `m_initDone`, the vector of
workers.  Operations: `Queue`, `Sync`, `WaitInit`, the destructor, the workers'
loop.  Used by `Viewport` and by every loader.  Hard: two condition variables,
callers of `Sync` that run tasks themselves, construction and destruction that
overlap with use.  Correct if no task is lost or run twice, if `Sync` is a
barrier for its caller (tasks refer to the caller's stack) and returns, and if
the destructor leaves no thread behind.

**ImageProvider** (`src/tools/iv/ImageProvider.cpp`).  State: a stack of jobs,
the id of the one being loaded (cleared to cancel it), the next id.  Operations:
`LoadImage` (by path or by descriptor), `Cancel`, `CancelAll`, the worker, the
destructor.  Every job ends in one callback: Success, Error or Cancelled.  Hard:
the newest job is taken first; callbacks run on two threads.  Correct if every
job is answered exactly once.

**Viewport, loading** (`src/tools/iv/Viewport.cpp`: `LoadImage`, `ImageHandler`,
`CutSelection`, the destructor).  State: the current job, the busy indicator,
the image shown by `ImageView`, the name in the title.  It calls the provider
with its own `m_lock` held, and is called back with and without it.  Correct if
an older image never replaces a newer one, if the title names the image, if the
busy indicator goes away, and if each descriptor is closed once, by its owner.

**Viewport, file list** (`LoadImage` with a scan or a list, `SetFileList`,
`FindLoadableImages`, `FindValidFiles`, the arrow keys).  State: `m_fileList`,
`m_fileIndex`, `m_origin`.  Hard: the disk changes between any two looks at it;
work is split by the number of processors.  Correct if the index is inside the
list and names what is shown, and if no file is lost between the batches.

**Render loop** (`src/wayland/WaylandWindow.cpp`: `InvokeRender`, `FrameDone`,
`ResumeIfIdle`, the configure handlers; `Viewport::Render`, `Update`,
`WantRender`, `SetBusy`).  State: `m_idle`, `m_render`, what differs between the
screen and what it should show, frame callbacks on their way.  Hard: the loop
stops by itself when there is nothing to draw, and both threads may restart it.
Correct if an idle window has nothing left to show and every change is drawn.

**WaylandWindow, frames** (`BeginFrame`, `EndFrame`, `CreateSwapchain`,
`CleanupSwapchain`) and **VlkGarbage** (`src/vulkan/VlkGarbage.cpp`).  State: a
ring of frames, each with a render fence, a present fence, a command buffer and
semaphores; objects waiting for a fence.  Hard: the GPU lags behind, fences are
reused, swapchains are replaced in the middle of a frame.  Correct if nothing is
destroyed while it is in use, everything in the end, and closing ends.

**WaylandSeat, drag and drop** (`src/wayland/WaylandSeat.cpp`: `DataOffer`,
`DataEnter`, `DataLeave`, `DataDrop`, `AcceptDndMime`, `GetDnd`, `FinishDnd`,
`DrainDnd`; `Viewport::Drag`, `Drop`).  State: the offer being made, the one over
the window, the accepted type, the descriptors whose offer is still to be
finished.  Hard: `wl_display_roundtrip` inside a handler dispatches further
events, so handlers nest; `FinishDnd` also runs on the provider's thread.
Correct if each dropped offer is finished once and each descriptor closed once.

**VlkDevice and Texture** (`src/vulkan/VlkDevice.cpp`, `VlkCommandBuffer.cpp`,
`src/vulkan/ext/Texture.cpp`).  State: the queue family of each of four types, the
queues, command pools and locks the types share; the images and buffers of an
upload.  Hard: what is shared depends on the machine; three threads record and
submit, under locks that nest with those of the viewport.  Correct if no two threads
are in a call on one queue or pool, if a texture is complete and owned by the right
family when it is drawn, and if the locks have no circle.

**iv, the view** (`src/tools/iv/ImageView.cpp`) and **the window's state**
(`WaylandWindow`: size, scales, HDR; `WaylandOutput`: luminance).  What the compositor
and the provider's thread ask for is noted and acted on before the next frame, in
three calls; descriptions of outputs are asked for while others are under way.
Correct if each frame draws the image where it belongs, with pipelines of the
swapchain's format, and if an output's luminance is the compositor's.

**iv, selection** (`src/tools/iv/Selection.cpp`).  State: two corners, what is dragged.
Hard: the provider's thread puts another image under a drag.  Correct if the
selection lies on the image and is dragged only while the button is down.

**iv, clipboard** (`CopyToClipboard`, `SendClipboard`, `PasteClipboard`, and the
selection offer and data source of `WaylandSeat`).  Hard: each request of a paste
makes a round trip in which the focus leaves, other offers come, and another key
pastes.  Correct if requests are made to the current offer and what is offered
can be sent.

**vv** (`src/tools/vv`).  One thread loads, the other asks the terminal what it can do;
answers come late, merged, torn or never.  Correct if the image is drawn in a way the
terminal has, fits it, and an animation is played.

**Image loaders** (`src/image`) and **Bitmap** (`src/util/Bitmap.cpp`).  Thirteen formats
are asked for pictures by three programs, in orders of their own; pictures are cut
into chunks for the pool; bitmaps are turned, mirrored and cropped in place.  Correct
if an intact file becomes the picture the program wants, what a call could not do for a
damaged one is noticed before it is used, and every pixel ends up in its place.

**Cursors** (`src/cursor`).  A theme is put together from files that may be missing or
damaged, in two formats; `CursorLogic` sets cursors and runs their animations.  Correct
if whatever is set has a frame to show, and the frame is the one its time has come for.

**The rest.**  DRM backend, server, D-Bus, wrappers, utilities: see
[What is not modelled](#what-is-not-modelled).

### How they interact

```
        compositor ----events----> WaylandSeat / WaylandWindow
                                        | Drag, Drop, keys, frame callback
                                        v
   files, pipes <---- LoadImage ----- Viewport ---- Render ----> frame ring ----> GPU
                          |             ^   |                        |             |
                          v             |   | tasks                  | Recycle     | fences
                     ImageProvider ---ImageHandler                   v             v
                          |   (provider's thread)                VlkGarbage <------+
                          +--- tasks ---> TaskDispatch <--- tasks ---+
```

Locks on the main thread, outermost first: the lock of the `ImageView`,
`WaylandWindow`'s state lock, `Viewport::m_lock` (recursive), and below them those
of the provider, the pool and the collector; `WaylandWindow::Update` gives the
state lock up before it calls back.  `ImageHandler` takes the lock of the view
and `m_lock` one after the other, never both: comments in the code ask for it.

## The modules

| Module | Models | Extends / uses |
|---|---|---|
| `TaskBarrier` | what users of the pool rely on (abstract) | |
| `TaskDispatch` | `TaskDispatch.cpp` | refines `TaskBarrier` |
| `ImageProvider` | `ImageProvider.cpp` | |
| `ImageLoading` | `Viewport` and provider together | `ImageProvider` |
| `FileList` | file list of `Viewport` | |
| `RenderLoop` | when `iv` draws, both threads | |
| `VlkGarbage` | `VlkGarbage.cpp` | |
| `FrameResources` | frame ring, GPU and collector | instance of `VlkGarbage` |
| `DragAndDrop` | seat, `Drag`/`Drop`, provider's side of `FinishDnd` | |
| `VlkDevice` | the choice of queue families and what they share | |
| `GpuSharing` | three threads on the queues, pools and locks; uploads | `VlkDevice` |
| `Selecting` | selection of `iv`, against `SetBitmap` | |
| `Clipboard` | copying and pasting in `iv`, seat and viewport together | |
| `ViewWindow` | size, scale and format of the window; place of the image | |
| `TerminalViewer` | `vv` and a terminal | |
| `OutputColor` | image descriptions of a `WaylandOutput` | |
| `Bitmaps` | operations on `Bitmap` and `BitmapHdr` | |
| `Loaders` | loaders and the programs that call them | |
| `Pixels` | chunks of HEIF pictures, blocks of DDS and PVR pictures | |
| `Cursors` | cursor themes and `CursorLogic` | |
| `TaskDispatchProofs`, `ImageLoadingProofs`, `FrameResourcesProofs`, `DragAndDropProofs`, `GpuSharingProofs` | proofs about the module of the same name | |
| `ViewProofs` | proofs about `Selecting`, `ViewWindow`, `FileList`, `TerminalViewer` and `Cursors` | |
| `WaylandProofs` | proofs about `Clipboard`, `OutputColor` and `RenderLoop` | |
| `PictureProofs` | proofs about `Bitmaps`, `Pixels` and `Loaders` | |
| `MCParts` | components that do not need one another, side by side | `FileList` and the nine modules from `Selecting` on |
| other `MC*` | what TLC needs beside a module | |

Conventions.  Names of variables and operators are those of the code where there
is one; other variables say where a thread stands (`pc`, `main`, `worker`,
`provider`, `reaper`), hold the local variables of a handler that has not
returned, or are history variables (said so where they are declared).  A
critical section of one lock is one action: all shared state is accessed inside
it, so no other thread can see its middle.  Where the code reads or writes
without a lock, that access is an action of its own.  An operator that differs
from its neighbour by a plausible mistake (`CancelAllKeepsJobs`,
`WorkerRanNoNotify`, ...) is a mutant of it: it is not part of the specification
and shows that a property notices the mistake.

**TaskDispatch.**  `pc[th]` says where each client and worker stands between
critical sections; the threads waiting on a condition variable are those with
`pc = "blocked"`.  Waking and rechecking a predicate are separate steps, so a
woken thread races with others for the lock.  `Queue` (two overloads in the
code, which differ in copying and moving) pushes a task and wakes one worker.
`SyncTake`/`SyncRan` are the loop in which `Sync` runs tasks itself, without
counting them in `m_jobs`, as in the code.  The creating thread is modelled by
workers that come into being at any time.  `owner` and `finished` are history
variables that say what "its tasks" means.  `Nesting` lets tasks queue tasks;
`Spurious` lets condition variables wake up for no reason.

**ImageProvider and ImageLoading.**  A job is its id; the `Viewport` holds
`m_lock` from `LoadPath`/`LoadList`/`LoadFd` to `Assign` and the provider's
thread runs in between except where it needs that lock (`HandlerLocked`).
`ImageHandler` on the provider's thread is three actions: closing a dropped
descriptor, `SetBitmap` without `m_lock`, and the rest under it.
`Cancel` and `CancelAll` call back on the main thread after they have released
the provider's lock: the jobs wait in `dropped`.  What a loader makes of the
bytes is a choice.  `fd` follows each descriptor; the loader's buffer closes a
clipboard's, `ImageHandler` a dropped one's.

**FileList.**  A file is a number, so that names sort as numbers do.
`FindLoadableImages` is the batching arithmetic of the code, with `Sync` as the
barrier it was written for.  `DiskChanges` happens between any two steps.  A
scan is one step: `opendir` and the tests of the files see one state of the
disk, another one than the step that decided to scan.

**RenderLoop.**  What is drawn is abstracted to flags that say which aspect of
the screen is out of date.  Surface commits and frame callbacks are counted as
the protocol defines them: a callback request counts from the next commit.  On
the provider's thread `ResumeIfIdle` is two steps (the exchange of `m_idle`, the
commit); on the main thread nobody else commits in between, and it is one.

**VlkGarbage and FrameResources.**  The reaper's wait is split where the code
can be interrupted without the lock: `m_shutdown` is stored, and notified,
between the evaluation of the predicate and the blocking.  Fences and objects
are parameters of `VlkGarbage`; `FrameResources` numbers every slot of every
ring ever made, so a fence or command buffer of an old ring can be told from a
new one's.  The GPU completes submissions in order and presents not before their
submission.

**DragAndDrop.**  The main thread is a stack of handlers: one that calls
`wl_display_roundtrip` waits at the top until its `done` event is dispatched, and
events before it are handled on top of it.  The compositor's events are a queue;
a drag enters, leaves or drops at any time.  Descriptors are numbered lowest
free first, as the kernel does, because reuse of a number is what
`m_pendingDnd`'s assertion is about.

**VlkDevice and GpuSharing.**  `QueueIdx` is the constructor's choice, family by family,
for every machine of up to three families that Vulkan allows.  What a thread has
still to do is a sequence of instructions (`lock`, `commands`, `begin`, `submit`,
`wait`, `recycle`, ...); `Upload`, `Readback`, `Frame` and so on give the sequence each
function stands for, callees included.  An instruction that waits is a guard.  The
machine is forgotten once the queues are known: threads see only what is shared.
Uploading the busy indicator in `Viewport::Scale` is left out.

**Selecting.**  Positions are half pixels of the image, so that a position is inside a
pixel or between two; the width of the border that resizes is any of `Borders`.
`SetBitmap` on the provider's thread ends the drag first (`AbortDrag`) and replaces the
image later, under the lock: two actions, with the mouse handlers in between.

**Clipboard.**  A paste that waits for its round trip is an element of the stack, as in
`DragAndDrop`.  Events of data sources that have been replaced are dropped, as
libwayland does with destroyed proxies.

**ViewWindow.**  Positions are integers in a unit small enough, and sizes and scales in the
run powers of two, so that what is floating point in the code is exact here.  That the
units are small enough for that is a statement of its own, `UnitsSuffice`.  Positions are
followed along x.  `Update` is three actions, `Compare`,
`Apply` and `InvokeListener`, because events of other threads (`EnableHdr`, a new
image) come between them; events of the main thread do not.

**TerminalViewer.**  The terminal is one of four kinds: none, one that only answers with
text, one with sixels, one with the Kitty protocol.  Each answer arrives before or
after the time limit, together with others or torn in two.

**OutputColor.**  Requests and events are two queues.  Descriptions and the information
on them carry numbers, by which those under way are told apart.

**Bitmaps, Loaders, Pixels.**  Pixels are numbers.  `Bitmaps` computes with indices into an
array as the code does and keeps beside it, by coordinates, the picture the
operations mean.  `Loaders` follows one file from `GetImageLoader` to the picture; a
loader's `Load` is the set of what it can end in for a file that is intact or damaged
in the header, the data or the gain map: a picture, nothing, or the end of the program
(`Crash`: an assertion, an exception, a read too far, a search without an end).  `Misused`
is what a program gets that goes on with what a failed call did not give.  `Pixels` gives every sample the number of
its place in memory, so that a picture says where each of its pixels came from.

**Cursors.**  What a theme has of a type in a size is a number of bitmaps and a sequence of
frames; the numbers of types, sizes, frames and delays are parameters.  What a file
holds is chosen when it is read, once.  `pause` is the time since
`m_lastTime`; `age` is how long the animation has run, by which the frame is judged.
Nothing in the repository draws a cursor yet: who calls `NeedUpdate` and draws what it
says is the model's own.

## What the runs check

Times are for two TLC workers; states are distinct states.

| Run | Instance | States | Depth | Time |
|---|---|---|---|---|
| `sync_barrier` | 1 client, 2 workers, 3 tasks, nesting | 3,864 | 19 | 3 s |
| `shared_pool` | 2 clients, 2 workers, 3 tasks, nesting, spurious wake-ups, symmetry | 5,403 | 20 | 2 s |
| `image_loading` | 3 jobs | 41,250 | 34 | 7 s |
| `render_loop` | no parameters | 10,674 | 41 | 5 s |
| `frame_resources` | ring of 2, 2 swapchains, 2 textures | 328,041 | 72 | 57 s |
| `drag_and_drop` | 3 drags | 143,530 | 34 | 106 s |
| `gpu_sharing` | all machines of up to 3 queue families | 1,538,205 | 199 | 126 s |
| `parts` | ten components, see below | 940,654 | 59 | 92 s |

Four more runs end in a violation; they are in
[Where the code and what is said of it differ](#where-the-code-and-what-is-said-of-it-differ).

The type invariants (`TypeOK`, `SelectingTypeOK`, ...) describe the variables and are used
by the proofs; they are not among the properties of the runs.

**sync_barrier.**  With one client, as in `vv` and in `tests/`, the pool
implements `TaskBarrier` (`SyncIsBarrier`), `Sync` returns (`SyncReturns`), and the
destructor returns (`DestructorReturns`).  Two workers are needed for a worker to finish
while another runs, three tasks for one to run, one to wait and one to be queued by a task.

**shared_pool.**  In `iv` the main thread and the provider share one pool.  No
task is lost or run twice (`TasksRunOnce`); `m_init` is joined once, although
`WaitInit` tests `m_initDone` without the lock first, and when the destructor has
returned every worker has come and gone and runs nothing (`GoneMeansQuiet`).

**image_loading.**  Each job is answered once (`OneAnswer`).  The busy indicator
stands for an answer still to come (`BusyMeansOutstanding`).
No older image replaces a newer one (`NewestImageStays`); only superseded jobs
are cancelled (`CancelledWasSuperseded`); the title names the image
(`TitleMatchesImage`); descriptors are closed once (`FdDiscipline`); the busy
indicator goes and closing ends (`WaitsEnd`).  Three jobs are one being loaded, one waiting and one being queued,
which is all that `Viewport` ever lets coexist (this is proved, see `WaitsForNewest`
in `ImageLoadingProofs`).

Two exceptions are part of the statements.  `CutSelection` may put an edited older
image back over a newer one (`putBack`).  The descriptor of a paste whose job is
cancelled while it waits is never closed by anybody (`ImageProvider.cpp:84`,
`:101`; `ImageHandler` closes only dropped ones, `Viewport.cpp:989`), so
`FdDiscipline` demands the closing of dropped descriptors only.

**render_loop.**  An idle window has nothing left to show (`IdleIsUpToDate`), there
is exactly one frame callback between events and none arrives while the window is
idle, as `InvokeRender` asserts (`OneFrameCallback`), and changes get drawn
(`ChangesAreDrawn`).  One fact made
these hold that no line of the code says: `m_idle` is stored after `Render` has
returned (`WaylandWindow.cpp:522`), and a request for a frame from the provider's
thread in between finds it false and is lost.  It does no harm because the
provider works only while the busy indicator turns, and then `Render` always
draws.  The mutant `UpdateIgnoresBusy` removes that and `IdleIsUpToDate` fails.

**frame_resources.**  Nothing is destroyed that the GPU, a present or a recording
uses (`NothingFreedInUse`); no fence is reset or submitted before its work is over
(`FencesAreFree`); at the end the GPU is idle and everything is destroyed
(`DeviceIdleWhenGone`); garbage does not pile up (`GarbageIsCollected`).  A ring of
two comes around while both its submissions are in flight; a second swapchain
replaces one in use.  A swapchain that is replaced inside `BeginFrame` is exempt
from `NothingFreedInUse` by name: it is recycled with the present fence of the
slot after the newest one, which is the oldest (`WaylandWindow.cpp:381`).

**drag_and_drop.**  An offer that waits has its own open descriptor and a reader
(`PendingHasReader`, with the assertion "DnD already pending!"); it is finished
exactly once and only if it was dropped (`FinishedOnce`, `DropsAreFinished`);
the accepted type belongs to the offer (`AcceptedWasOffered`); nobody reads from a
closed descriptor (part of `PendingHasReader`).  Three drags are needed for one that is being read, one that waits and one that enters.

**gpu_sharing.**  Whatever families a machine has, each type of queue gets one that can do
what it is for, and types share a lock exactly when they share a queue
(`ChoicesAreSound`).  On whatever they come to share, no two threads are ever in calls
on the same queue or command pool (`ExternallySynchronized`, which Vulkan leaves to the
program); a texture in the view has been uploaded and handed over (`DrawnWhenReady`);
and no set of threads waits for itself (`NoCircularWait`).  The mutant
`ImageHandlerLocksView`, in which the provider's thread uploads with the lock of the
view held, makes a circle with `Render`: the comments in the code that forbid it are
right.  Three families are enough for the queue types that `iv` asks for to have one each.

**parts.**  Ten components that do not need one another: one runs, chosen at first,
the others stay where they began, so that the states of the run are the sum of theirs
and not the product.

- *File list.*  The index that the keys use is inside the list and names the image
  asked for last, unless the scan for it found nothing (`ListNamesRequest`); a scan
  finds all images that are there (`DirectoryIsScanned`), whatever the number of
  processors by which `FindLoadableImages` is cut.  Four files are two images, one file
  that is no image, and one image in `/`, whose directory the code does not scan (its
  path up to the last slash is empty, `Viewport.cpp:202`) and which the property excepts.
- *Selection.*  `SelectionIsSound`: it lies on the image and is dragged only while the
  button is down; images of 1 and 2 pixels, so that a border is wider than the image.
- *Clipboard.*  `ClipboardIsCurrent`: what the viewport was told of an offer does not
  outlive it, although pastes wait in round trips, two deep; what the data source offers
  can be sent.
- *View and window.*  `FrameIsPlaced`: each frame draws the image whole and in the middle
  when it is fitted, under the middle of the window otherwise, at a scale that is never
  0 and in units that suffice.  `PipelinesMatch`: with
  pipelines for the swapchain's format.  One picture smaller than the windows, one wider.
- *vv.*  `ShownAsTerminalCan`: drawn in a way the terminal has, on the screen, with its
  animation, and the terminal left as it was.
- *Outputs.*  `OutputFollows`: the information that arrives is the one waited for, and the
  luminance is the compositor's in the end; three changes, for one being read, one being
  asked for and one on its way.
- *Bitmaps.*  `DataIsPicture`: two operations on sizes 2x3, 3x3 and 3x1, from each of the
  eight orientations, give what they mean.
- *Loaders.*  `IntactIsShown`: every caller gets from every intact format the picture it
  needs.  `FailureIsNoticed`: however a file is damaged, no program and no loader uses what a
  failed call did not give, but for the calls `Unnoticed` names; that a decoder ends
  the program by itself is possible for most formats.  All inputs are initial states.
- *Pixels.*  `PixelsAreInPlace`: chunks of 2, 4 and 7 pixels (16,384 in the code) begin and end
  at every place in lines of 3 and 5, with and without a gap between lines.
- *Cursors.*  `CursorIsShown`: the size is the nearest the theme has; whatever is set has its
  frame and bitmap, although files are missing or end too early; an animation is where its
  time puts it, however it is polled.  Two types and two sizes, animations of two frames
  of different lengths.

Some statements have exceptions, by name.  A history variable marks the step that
makes the difference: `between` (a selection begun while an image is being replaced),
`estranged` (a change of scale together with one of size, or a size asked for by Shift+F
that the window was not given), `raced` (`EnableHdr` in the middle of `Update`), `gaveUp` and `torn`
(answers after their time or in two parts), `overtaken` (a description that changed while
information on the last was under way), `reentered` (another drag during `Drag`'s round
trip), `Unknown` (the age of an animation set some time after the last look at the clock),
`gaveUpAni` (a `.ani` given up halfway), `kept` (a scan that found nothing), `putBack` (`CutSelection`), `outOfDate` (a swapchain
replaced inside `BeginFrame`).  What each exception lets through is in
[Disagreements not among the runs](#disagreements-not-among-the-runs).

### Fairness

Weak fairness stands for a thread that is scheduled and not blocked; tasks and
loaders end.  Strong fairness is used where a thread competes for a lock that
others take again and again: `std::mutex` makes no promise, but every holder in
the code releases its lock for long enough, and starvation is not what the
properties are about (`RenderLoop`: both threads; `FrameResources`:
`CleanupSwapchain`).  `FrameDone` is strongly fair: a compositor answers the
callback of a visible window.  Nothing that the user or another program does is
fair.  `CHECK_DEADLOCK FALSE` is set where the system may stop: when everything
has been destroyed, the bound is used up, or an assertion ended the process.
`RenderLoop` and `GpuSharing` have no such end and are checked for deadlock, their locks
included.  `parts` states no fairness: its properties say what may never happen.

### Bounds

`MaxJobs`, `MaxOffers`, `MaxSwapchains`, `MaxTextures`, `MaxChanges`, `MaxNesting`, `MaxSteps`, `MaxPause`,
`MaxImages` (frames of a cursor in a size), the set `Tasks` and `MaxUris` bound what is unbounded in the code: ids, requests, drags.  None of
the actions looks at the distance to a bound except to stop.  `MaxFamilies` bounds the
machine.  `MaxCpus` is `hardware_concurrency()`, which is assumed not to be 0.  `LeastZoom`,
`MostZoom`, `Levels`, `Points`, `Deltas` and the sets of sizes are the inputs of the view, the bitmaps
and `vv`; `ChunkSizes` stands for the 16,384 pixels of a chunk; block pictures have widths and
heights that are multiples of 4.

## What is proved

TLAPS checks the forty-two theorems that `PROJECT.json` lists, for every value of the
constants that the named assumptions admit.  **Every safety property of every passing run
is among them**: the run shows it on the small instance, the theorem for any.

**TaskDispatchProofs**, from `ConstantsAssumption` (finitely many workers, distinct
from the clients):

- `TypeCorrect`: `Spec => []TypeOK`; the counter `m_jobs`, a `size_t` in the code,
  never goes below zero.  It needs `RunningIsCounted`: `m_jobs` is the number of
  workers that run a task.
- `NoTaskLostOrRepeated`: `Spec => []TasksRunOnce`, for any number of clients.
  The invariant `Held` says where tasks are without cardinalities: nothing
  forgotten, nothing taken twice, whatever runs is unfinished.
- `DestructorLeavesNothing`: `Spec => []GoneMeansQuiet`.  `QuietInv` says that `m_init` is
  joined if and only if `m_initDone`, that the destructor does not go on before it, and
  that no client is in the pool then; hence no worker is still to be created when the
  destructor joins them.
- `SyncInvariant`: with one client, `Spec => []SyncInv`.  `Sync` leaves when
  `m_jobs` is 0, which is right only if the queue is empty as well; when it wakes
  up it does not look.  `SafeToReturn` says why it need not: either no task
  queues another, or the wake-up was sent when nothing could.  The assumption
  `~(Nesting /\ Spurious)` is needed: a spurious wake-up while a queued task of a
  task waits lets `Sync` return early (`TaskDispatch.cpp:78`).  Only a
  test queues tasks from tasks (`tests/util/TaskDispatch.cpp:278`); no program does, so
  the theorem covers the programs with one client.
- `SyncImplementsBarrier`: under the same assumption, `TaskDispatch` implements
  `TaskBarrier`: initial states map to initial states, steps to steps or stutters.

**ImageLoadingProofs**, from `MaxJobs \in Nat`, that is, for any number of
requests: `TypeCorrect`, `EveryJobAnsweredOnce`, `BusyIsOutstanding`,
`NewestImageWins`, `OnlySupersededCancelled`, `TitleNamesImage` and
`DescriptorsClosedOnce`.  Each is one property of the run `image_loading`.

The inductive invariant is `Core`.  Its parts: a job waits, has been taken out, is
being loaded or is answered, and only one of these (`InOnePlace`), at least one
(`NoneForgotten`); what the worker has at hand where it stands (`WorkerHasJob`);
what the main thread holds where it stands (`MainHolds`); and the key of the
protocol, `WaitsForNewest`: the viewport waits for the newest job, or for the one
before while the newest is being queued, and no other job is in the stack.  From it:

- `ViewIsOlder`: a waiting job older than the image shown exists only while the main
  thread is between queueing its successor and cancelling it, and then the
  provider's thread is held up at `m_lock`.  Hence no image overtakes another.
- `CancelledSuperseded`, `TitleFollows` and `FdsFollow` are the inductive forms of the
  three properties of similar names.

The provider's stack is a sequence; four lemmas say what `Append`, `Front`, `Tail`
and `RemoveAt` do to the set of elements of a sequence without repetitions, and
one lemma per operation of the provider says what it does to the sets of waiting
and taken-out jobs.  The proofs of the steps use these sets only.

**FrameResourcesProofs**, from `BoundsAssumption` (at least one image, swapchain and
texture), for any number of images in the ring and any number of swapchains and
textures:

- `FencesNeverReused`, that is `Spec => []FencesAreFree`.  The inductive invariant `Inv` needs,
  besides the property, that the ring is the one of the last swapchain and the index
  inside it (`RingInv`), that submissions hold render fences and presents hold present
  fences (`QueuesInv`), and `FenceInv`: the render fence of the current slot is signaled
  between `BeginFrame`'s wait and its reset, then held by no submission until `EndFrame`,
  and the slots of swapchains to come are fresh.  The wait at `WaylandWindow.cpp:371` is
  what makes the reset safe; when the swapchain is replaced between the two, the index
  stays and it is the fresh slot that is reset.  `RingSlots` says that the slots of two
  swapchains are disjoint.
- `NothingFreedWhileUsed`: `Spec => []NothingFreedInUse`.  `AllInv` adds what each piece of work in
  the two queues is made of (`WorkInv`) and where garbage stands (`GarbageInv`).  Its key is
  `WaitsForItsWork`: an object that waits for a fence is used by no submission or present
  later than one that will signal this fence.  Since the GPU works in order and a fence is
  not reused before its work is over, the fence is signaled only when nothing uses the
  object any more; then the reaper may take it (`TakenIsUnused`).
- `NothingIsLeftOver`: `Spec => []DeviceIdleWhenGone`.  `Accounted`: what has been retired, and
  nothing else, is destroyed, taken by the reaper, waiting for a fence, or about to be handed
  over by `CleanupSwapchain`.
- `FramesTypeCorrect`: `Spec => []TypeOK`.

**DragAndDropProofs**, from `MaxOffersAssumption`, for any number of drags: `DragsAreInOrder`, the
inductive invariant, and from it `NoOfferFinishedTwice`, `PendingIsRead` and `AcceptedIsOffered`,
that is `FinishedOnce`, `PendingHasReader` and `AcceptedWasOffered`.  `EventsInv`: offers are announced
in the order of their numbers and before they enter.  `OffersInv`: the offer being made and
the one over the window are the latest.  `FdsInv` is about owners: an open descriptor
belongs to one handler on the stack, or to one job, or to a thread about to close it;
because numbers are used again, this is what makes the assertion "DnD already
pending!" hold.  `PendingInv` and `DropsInv`: an offer that waits, or is still in a handler of
its drop, has been dropped and not finished, and waits once, under the descriptor of one who
reads it.  `AcceptInv`: `Drag` is about the current offer unless another drag entered meanwhile.

**GpuSharingProofs**, from `MaxFamiliesAssumption`:

- `ConstructorChoosesSoundly`: `Spec => []ChoicesAreSound` for machines of any number of
  families.  One lemma per type says which family the constructor's loop leaves in its index
  (`GraphicChoice`, `ComputeChoice`, `TransferChoice`, `PresentChoice`), one that types of one
  queue share what the first of them created (`CreatedOnce`).
- `SharingInvariant`.  For each thread `Points` names the places between instructions by what
  is held, submitted and waited for there; `Runs` says that the instructions a thread has still
  to do lead from the point where it is to rest.  Each function's program is a run
  (lemmas about `Upload`, `Readback`, `Frame` and the others), and runs can be joined, which is how
  a caller's program contains its callees'.
- `QueuesAndPoolsAreLocked` (`ExternallySynchronized`): at every point where a call may be under
  way the lock of its queue or pool is held, and types that share a queue share the
  lock.  `ShownTextureIsUploaded` (`DrawnWhenReady`).  `NobodyWaitsForItself` (`NoCircularWait`): `Rank` orders
  the locks and each thread asks only for locks of a higher rank than those it holds.

**ViewProofs**.

- `SelectingCorrect` (`SelectionIsSound`), from `ImageSizesAssumption` and `BordersAssumption`: images
  and borders of any size.  `DragInv` ties a drag to the button and to an image; `ActiveInv` says
  that a drag which resizes keeps the selection active, and that the drag `AbortDrag` has ended
  leaves none until the new image is in place, which is why the old selection cannot
  reach it.  The assertions of `MouseMove` follow from the lemmas about clamping: a point
  of the screen is moved onto the image, and what a drag spans has at least one pixel on
  each axis.
- `PipelinesCorrect` (`PipelinesMatch`) and `ViewCorrect` (`ViewKnowsWindow`, a conjunct of `FrameIsPlaced`), from
  `WindowSizesAssumption`: any sizes of windows and pictures.  `PipelinesFollow` and `ViewFollows` say
  that pipelines and view differ from the swapchain only while the listener that tells
  them is due; `DecidedStands` and `SizeStands` say that what `Update` has found is still so
  when it acts on it, which is where the exceptions `raced` and `estranged` come from.
- `FramesArePlaced`: `ViewWindowSpec /\ []UnitsSuffice => []FrameIsPlaced`, with `WantedAssumption` and
  `InputAssumption` besides.  `PlaceInv`: the view has the scale of the window but for a listener
  that is due (`ScaleFollows`), and the image is placed in what the view takes for the window
  (`ImagePlaced`).  The hypothesis belongs to the model, not to the code: its
  integers must be fine enough that no scale is rounded to 0 or halved to a fraction.  It is
  a conjunct of `FrameIsPlaced`, so the run checks it on the instance.  The lemmas about products, quotients and
  remainders do by hand what no prover here does: arithmetic that is not linear.
- `BatchesFindAll`: for any number of processors and any list, `FindLoadableImages` finds in its
  batches what one pass over the list would, in the same order.  `FileListTypeCorrect`,
  `ListFollowsRequest` (`ListNamesRequest`) and `NeighboursAreListed` (`DirectoryIsScanned`) rest on it and on `FilesInv`: the index is inside the list, and names the
  file asked for when the opening is over (`PlaceOK`).  From `FilesAssumption` (any finite set of files) and
  `BoundsAssumption`.
- `ViewerCorrect` (`ShownAsTerminalCan`), from `SizesAssumption`: pictures and screens of any sizes.
  `QueueOK`: no answer is left over from one query to the next, unless one was given up or
  torn; hence `ModeOK`: the mode is one the terminal has; `DrawnOK`: what is drawn is inside a
  screen.
- `CursorsCorrect` (`CursorIsShown`), from the assumptions of `Cursors`: any finite set of sizes with
  32 in it, any numbers of types, frames and delays.  `CursorsInvariant`
  follows the theme from the files to the finished table, then the cursor
  that is set.  The lemmas `Ends`, `Lasts`, `Rounds` and `ClockStep` are about the clock: subtracting
  delays one by one while time is left arrives at the frame in whose interval the age
  of the animation falls, whole rounds apart, however the time was divided into polls.

**WaylandProofs**.

- `ClipboardCorrect` (`ClipboardIsCurrent`), from `OffersAssumption` and `MaxNestingAssumption`: any offers,
  and pastes nested to any depth.  A request is always in the offer it was chosen from
  (`RequestsAreOffered`), and going on with a paste after its round trip only adds such requests
  (`AskKeepsRequests`).
- `OutputCorrect` (`OutputFollows`), from `MaxChangesAssumption`: any number of changes.  `DescriptionsInv`:
  descriptions are asked for and answered in order.  `InformationInv`: information is
  asked for on one at a time.  `LuminanceInv`: the last description is being made, or is being
  read, or its luminance is that of the output, unless information was overtaken.
- `RenderLoopTypeCorrect`, `CallbackIsAlone` (`OneFrameCallback`) and `IdleShowsAll` (`IdleIsUpToDate`).
  `RenderLoop` has no constants and its run is complete; the proof gives the reason.
  `LoopInv`: an idle window has nothing to show that is not about to be asked for
  (`ChangesAreWanted`), and the one callback is where `m_idle` says (`CallbackInv`).  Two facts carry it.
  The provider works only while the busy indicator turns (`BusyWhileWorking`).  And
  only a job taken while `LoadImage` held the lock can find the window idle, so that the commit
  with which the provider's thread ends `ResumeIfIdle` comes before anything is drawn.

**PictureProofs**.

- `BitmapsCorrect` (`DataIsPicture`): bitmaps of any size and any number of operations.  `BitmapInv`
  says that the array draws the picture; each operation's lemma computes
  the index of a pixel in rows and columns and back.
- `PixelsCorrect` (`PixelsAreInPlace`): any sizes, gaps and chunks.  The chunks cut the pixels
  without a gap, and where a chunk begins in the middle of a line the pointer is moved
  on by what that line still has.  For pictures in blocks it assumes `WholeBlocks`: their widths and
  heights are multiples of 4.  For others the code is wrong, see below.
- `IntactFilesAreShown` (`IntactIsShown`) and `FailuresAreNoticed` (`FailureIsNoticed`).  `Loaders`
  has no constants and its run is complete; `IntactInv` and `NoticedInv` give the reason: what a
  program has found out about the file by the time it makes each call.

**How data is reasoned about.**  The library's induction theorems take an operator as a
parameter and cannot be used.  Where a proof needs induction (over the batches or the
elements of a list, the frames of an animation, a finite set of files) the set of numbers
for which the statement holds is shown to contain the first and, with each, the next.
Each recursive function of the models is first shown to exist and to satisfy its equation,
which is then used once per step.

**Only model-checked:** the liveness properties `SyncReturns`, `DestructorReturns`, `WaitsEnd`,
`ChangesAreDrawn`, `GarbageIsCollected` and `DropsAreFinished`, since the prover has no rule for fairness
and `ENABLED`.  That `UnitsSuffice` holds is checked on the instance, as said above.  The properties of the four
runs that end in a violation are of course not theorems.

## Where the code and what is said of it differ

| Run | What happens |
|---|---|
| `shared_pool_barrier` | Two threads in `Sync`: one returns while the other still runs its task, because tasks run inside `Sync` are not counted in `m_jobs` (`src/util/TaskDispatch.cpp:75`). The task refers to the stack of the caller that returned. |
| `cut_races_load` | `CutSelection` takes the texture, edits it and puts it back; if an image of another size arrives in between, an assertion ends the viewer (`src/tools/iv/Viewport.cpp:970`, `ImageView.cpp:320`). |
| `origin_missing` | A single file that no loader accepts, beside images: it is not in the list of its directory and the assertion "Origin not found in file list" ends the viewer (`Viewport.cpp:1175`). |
| `close_hangs` | The destructor of `VlkGarbage` stores and notifies without the lock; the reaper may sleep through it, and the join does not return (`src/vulkan/VlkGarbage.cpp:18`). |

The first concerns one pool with two clients, which is how `iv` uses it: a file
list is dropped while the provider decodes an image.  Against the code stand
the test "Sync waits for in-flight tasks" (`tests/util/TaskDispatch.cpp:166`), two assertions
of the code itself, and "`Escape` exits the application." (`doc/iv.md:75`).

### Disagreements not among the runs

Found while modelling.  Where a model has the step, the property that excludes it or
breaks with it is named; the others are outside the models.

Protocols between threads and events:

- Two threads in `Sync` can also leave one asleep: a caller of `Sync` takes the last queued
  task, the worker that finished before saw a queue that was not empty and notified
  nobody (`TaskDispatch.cpp:95`).  `SyncReturns` is broken with two clients.
- The focus may leave during a paste's round trip; when the handler of the key returns,
  the keyboard looks for its window and the assertion of `GetWindow` fails
  (`WaylandSeat.cpp:386`): `KeyHasWindow`.
- `SetMousePointer` asks whether the selection is active, then for its resize area; the
  provider's thread may end the selection in between, and the assertion of
  `GetResizeArea` fails (`Selection.cpp:264`): `AreaOfActive`.
- A selection begun while `SetBitmap` has ended the drag and not yet set the texture may
  not fit the new image (`between`).
- `EnableHdr` in the middle of `Update` leaves pipelines of one format drawing into a
  swapchain of another until the next change (`raced`).
- A change of scale that comes together with one of size calls `OnScale` only, which
  keeps the old place (`estranged = "scaled"`); Shift+F fits the view to a size that the
  compositor need not give (`estranged = "asked"`).
- `ColorDone` destroys the newest description, although the information is on an older one
  when the description has changed meanwhile (`overtaken`; `WaylandOutput.cpp:118`).
- A window takes the luminance of its outputs when it enters or leaves one
  (`RecalcMaxLuminance`, `WaylandWindow.cpp:679`); a luminance that an output learns later
  (`WaylandOutput.cpp:163`) does not reach it until the next of these.
- An output that is removed is forgotten by the display, not by the windows on it; if one
  enters or leaves an output before the compositor says that it has left the removed
  one, the assertion "Output not found" fails (`WaylandDisplay.cpp:154`,
  `WaylandWindow.cpp:686`).
- `m_loadOrigin` is set while a drag is over the window and cleared by a drop only; the
  next image is given its name (`Viewport.cpp:445`).
- `vv`: an answer after its time limit is taken for that of the next query (`gaveUp`, `torn`).
- The descriptor of a paste whose job is cancelled while it waits stays open
  (`ImageProvider.cpp:84`, `:101`).

Loaders and edges of numbers:

- HEIF pictures for HDR whose primaries are BT.709 are not converted to the colour space
  asked for (`HeifLoader.cpp:618`); one with a gain map and no profile fails an assertion
  (`:635`): `HeifUnsupported`.
- In `vv`, a WebP file that cannot be opened is opened again and fails "Already opened"
  (`WebpLoader.cpp:91`); an animation of no frames has no frame 0 (`vv.cpp:64`).
- A damaged HDR picture whose loader answers `LoadHdr` with nothing is used all the same
  (`ImageProvider.cpp:144`, `vv.cpp:480`), and JPEG XL and HEIF files that could not be opened
  are decoded (`JxlLoader.cpp:137`, `HeifLoader.cpp:302`): `Unnoticed`.  `exrconv` asserts that
  there is a picture (`exrconv.cpp:58`) where it reports other failures.
- A damaged file can end a program inside most loaders.  Sizes are taken as they are and
  may be too large for the memory, an exception nobody catches (`XCursorLoader.cpp:59`, `:88`,
  `TiffLoader.cpp:44`, JPEG, PCX and others).  The multi-picture index of a JPEG is read at offsets
  the file gives (`JpgLoader.cpp:757`), and the search for it does not stop at the end of
  the file (`:812`); a profile or a gain map it does not expect fails an assertion (`:420`, `:595`).
  EXR throws, raw uses the image that LibRaw did not make (`RawLoader.cpp:64`), and
  truncated PVR and DDS files are read past their end.
- A theme that lacks the default cursor in the size in use, or a `.ani` that is given up
  when some of its pictures are there, leaves a cursor without frames, whose first frame is
  taken all the same (`CursorLogic.cpp:15`, `:44`).  A `.ani` with delays of its own is given up
  if any size of the theme is not in it (`WinCursor.cpp:411`).  An animation whose delays are
  all 0, which the model leaves out, never leaves the loop of `NeedUpdate` (`:73`).
- An animation set some time after the last look at the clock starts in the middle:
  `SetCursor` does not reset `m_lastTime`, and only animations do (`CursorLogic.cpp:69`).
- A JPEG file whose gain map is damaged loses the picture that is intact (`JpgLoader.cpp:458`).
- The loops over blocks leave out the last columns and shift the rows of pictures whose
  width is not a multiple of four (`DdsLoader.cpp:404`).
- `UrlDecode` throws on a `%` that no hexadecimal digit follows (`Url.cpp`).
- `hardware_concurrency()` may be 0, by which the batches are divided (`Viewport.cpp:1141`).
- `VlkGarbage.hpp:34` declares the reaper before `m_cv`: the thread starts before the
  condition variable it waits on is constructed.

## What is not modelled

`PROJECT.json` lists every component with its files and what is left out of it.  Not
modelled at all:

- `contrib/`: libraries by other authors, more than half of the repository's lines;
- wrappers that hold one handle of an external library (Vulkan objects, D-Bus, vector
  images), logging and call stacks;
- the server, which draws one colour so far, and the Wayland backend, which opens a window
  for it; the DRM backend, in which `PauseDevice`, `ResumeDevice`, `Run` and `DrmCrtc::Enable` are
  stubs;
- the translation of protocol events into calls of the window (`WaylandKeyboard`,
  `WaylandPointer`), except for the focus;
- strings: URL decoding, path normalisation, escape sequences printed to a terminal;
- arithmetic on pixels (floating point), and the decoding done by external libraries.
  `VlkGarbage::Collect` has no caller.

Left out of the modelled components: the order of construction of members, a driver that
changes the number of swapchain images (`WaylandWindow.cpp:369` keeps a reference
across it), failures of Vulkan calls other than an image that cannot be acquired,
uploading the busy indicator when the scale changes, mip levels, the vertical axis of the
view (it is treated as the horizontal one), and what strings contain.

## Plan

Built so far, in this order: TaskDispatch with its abstract specification and proofs, image
loading with its proofs, file list, render loop, frame resources with the proof about its
fences, drag and drop; then the GPU shared by three threads, selection, clipboard and
view with their proofs, `vv`, outputs, bitmaps, loaders and cursors; then the proofs of all
other safety properties that the runs check.

To prove next, in this order:

1. An abstract mailbox that keeps the newest request, and that `ImageLoading` implements it.
2. `UnitsSuffice` from an assumption on the constants (sizes, levels and bounds on the zoom that are
   powers of two), so that `FramesArePlaced` needs no hypothesis.
3. The safety halves of the liveness properties: when nothing can move, nothing is owed
   (`WaitsEnd`, `DropsAreFinished`), and the measures that decrease.
4. That the collector of `FrameResources` implements "destroyed when its fence is signaled".

Models still to write: mode setting once the code does it; the drag and drop and
clipboard halves of a seat in one queue of events, which they share in the code; the
vertical axis of the view.

## Running it

```
tlc -workers 2 -config ImageLoading.cfg MCImageLoading.tla
tlapm ImageLoadingProofs.tla
```

`PROJECT.json` lists the runs with their modules and configurations, the mutant that
breaks each property, the lines of code each definition stands for, the hazards each
property is about and the theorems.

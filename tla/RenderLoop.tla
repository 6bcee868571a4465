----------------------------- MODULE RenderLoop -----------------------------
(***************************************************************************)
(* When iv draws.  WaylandWindow asks the compositor for a frame callback  *)
(* before every render; a callback only counts once the surface has been   *)
(* committed.  If Viewport::Render finds nothing to draw it does not       *)
(* commit, and the window is idle: whoever wants a frame must commit the   *)
(* surface (ResumeIfIdle).  The provider's thread reports a loaded image   *)
(* while the main thread is anywhere in Render.                            *)
(*                                                                         *)
(* Pictures, sizes and cursors are abstracted to whether what is on the    *)
(* screen is up to date.  m_lock is Viewport::m_lock, viewLock the lock of *)
(* the ImageView.  main and provider say where the two threads stand.      *)
(***************************************************************************)
EXTENDS Naturals

VARIABLES
    m_idle,         \* WaylandWindow::m_idle
    m_render,       \* Viewport::m_render
    m_isBusy,
    selecting,      \* the selection is active and animated
    hasBitmap,
    viewDirty,      \* the image or its position has changed since the last frame
    busyDrawn,      \* the last frame shows the busy indicator
    cursorDirty,    \* m_cursor is not the cursor of the seat
    hdrDirty,       \* m_hdr differs from m_prevHdr
    sizeDirty,      \* m_staged or m_scale differs from what the swapchain has
    pendingCb,      \* frame callbacks requested since the last commit
    sentCb,         \* frame callbacks committed and not yet answered
    m_lock, viewLock,
    main, caller,   \* main thread; who called Render
    provider, after,  \* thread of the ImageProvider; where it goes on after ResumeIfIdle
    superseded,     \* the provider's job is no longer the current one
    waiting         \* a job waits in the provider

flags == <<m_idle, m_render, m_isBusy, selecting, hasBitmap>>
screen == <<viewDirty, busyDrawn, cursorDirty, hdrDirty, sizeDirty>>
surface == <<pendingCb, sentCb>>
locks == <<m_lock, viewLock>>
jobs == <<provider, after, superseded, waiting>>

vars == <<flags, screen, surface, locks, main, caller, jobs>>

\* The type invariant of the render loop.
TypeOK ==
    /\ {m_idle, m_render, m_isBusy, selecting, hasBitmap} \subseteq BOOLEAN
    /\ {viewDirty, busyDrawn, cursorDirty, hdrDirty, sizeDirty} \subseteq BOOLEAN
    /\ {pendingCb, sentCb} \subseteq 0 .. 1
    /\ {m_lock, viewLock} \subseteq {"free", "main", "provider"}
    /\ main \in {"dispatch", "window", "view", "update", "check", "draw", "present", "return", "busy", "panic"}
    /\ caller \in {"InvokeRender", "InvokeRenderIdle", "Configure"}
    /\ provider \in {"rest", "load", "bitmap", "hdr", "lock", "want", "resume", "commit", "ended", "unlock"}
    /\ after \in {"want", "ended", "unlock"}
    /\ {superseded, waiting} \subseteq BOOLEAN

\* The constructor of the Viewport has drawn the first, empty frame.
Init ==
    /\ m_idle = FALSE /\ m_render = FALSE /\ m_isBusy = FALSE /\ selecting = FALSE /\ hasBitmap = FALSE
    /\ viewDirty = FALSE /\ busyDrawn = FALSE /\ cursorDirty = FALSE /\ hdrDirty = FALSE /\ sizeDirty = FALSE
    /\ pendingCb = 0 /\ sentCb = 1
    /\ m_lock = "free" /\ viewLock = "free"
    /\ main = "dispatch" /\ caller = "InvokeRender"
    /\ provider = "rest" /\ after = "want" /\ superseded = FALSE /\ waiting = FALSE

\* wl_surface_commit
Commit == pendingCb' = 0 /\ sentCb' = sentCb + pendingCb

\* ResumeIfIdle on the main thread, to which nobody else's commit can come between.
ResumeIfIdle ==
    \/ m_idle /\ m_idle' = FALSE /\ Commit
    \/ ~m_idle /\ UNCHANGED <<m_idle, surface>>

WantRenderNoResume ==
    m_render' = TRUE /\ UNCHANGED <<m_idle, surface>>

WantRender ==
    \/ m_render /\ UNCHANGED <<m_render, m_idle, surface>>
    \/ ~m_render /\ m_render' = TRUE /\ ResumeIfIdle

-----------------------------------------------------------------------------
(* Events of the window.                                                   *)

FrameDoneNoRequest ==
    /\ main = "dispatch" /\ sentCb > 0
    /\ sentCb' = sentCb - 1
    /\ caller' = "InvokeRender"
    /\ main' = IF m_idle THEN "panic" ELSE "window"
    /\ UNCHANGED <<flags, screen, pendingCb, locks, jobs>>

\* FrameDone and the first half of InvokeRender, with its assertion.
FrameDone ==
    /\ main = "dispatch" /\ sentCb > 0
    /\ sentCb' = sentCb - 1
    /\ pendingCb' = pendingCb + 1
    /\ caller' = "InvokeRender"
    /\ main' = IF m_idle THEN "panic" ELSE "window"
    /\ UNCHANGED <<flags, screen, locks, jobs>>

\* XdgToplevelConfigure and XdgSurfaceConfigure; Update is called by Render too.
ConfigureBusy ==
    /\ main = "dispatch" /\ ~m_idle
    /\ sizeDirty' \in {sizeDirty, TRUE}
    /\ UNCHANGED <<flags, viewDirty, busyDrawn, cursorDirty, hdrDirty, surface, locks, main, caller, jobs>>

ConfigureIdle ==
    /\ main = "dispatch" /\ m_idle
    /\ sizeDirty' \in {sizeDirty, TRUE}
    /\ caller' = "Configure"
    /\ main' = "window"
    /\ UNCHANGED <<flags, viewDirty, busyDrawn, cursorDirty, hdrDirty, surface, locks, jobs>>

\* A new scale, maximum luminance or size.
ScaleChange ==
    /\ main = "dispatch"
    /\ sizeDirty' = TRUE
    /\ ResumeIfIdle
    /\ UNCHANGED <<m_render, m_isBusy, selecting, hasBitmap, viewDirty, busyDrawn, cursorDirty, hdrDirty, locks, main, caller, jobs>>

-----------------------------------------------------------------------------
(* Input.                                                                  *)

\* Panning, zooming, cutting, toggling fullscreen.
ChangeView ==
    /\ main = "dispatch" /\ m_lock = "free" /\ viewLock = "free"
    /\ viewDirty' = TRUE
    /\ WantRender
    /\ UNCHANGED <<m_isBusy, selecting, hasBitmap, busyDrawn, cursorDirty, hdrDirty, sizeDirty, locks, main, caller, jobs>>

\* The left button starts or ends a selection; m_lock is not taken.
LeftButton ==
    /\ main = "dispatch" /\ viewLock = "free" /\ hasBitmap
    /\ selecting' \in BOOLEAN
    /\ cursorDirty' = TRUE
    /\ viewDirty' = TRUE
    /\ WantRender
    /\ UNCHANGED <<m_isBusy, hasBitmap, busyDrawn, hdrDirty, sizeDirty, locks, main, caller, jobs>>

\* The right button changes the cursor only.
RightButton ==
    /\ main = "dispatch" /\ viewLock = "free" /\ hasBitmap
    /\ cursorDirty' = TRUE
    /\ ResumeIfIdle
    /\ UNCHANGED <<m_render, m_isBusy, selecting, hasBitmap, viewDirty, busyDrawn, hdrDirty, sizeDirty, locks, main, caller, jobs>>

\* LoadImage queues the job, which the provider may take at once.  A job that
\* still waits is taken out, and ImageHandler ends it on this thread.
LoadImage ==
    /\ main = "dispatch" /\ m_lock = "free"
    /\ m_lock' = "main"
    /\ waiting' = TRUE
    /\ superseded' = (superseded \/ provider # "rest")
    /\ \/ waiting /\ m_isBusy' = FALSE /\ cursorDirty' = TRUE /\ WantRender
       \/ ~waiting /\ UNCHANGED <<m_isBusy, cursorDirty, m_render, m_idle, surface>>
    /\ main' = "busy"
    /\ UNCHANGED <<selecting, hasBitmap, viewDirty, busyDrawn, hdrDirty, sizeDirty, viewLock, caller, provider, after>>

SetBusy ==
    /\ main = "busy"
    /\ \/ m_isBusy /\ UNCHANGED <<flags, cursorDirty, surface>>
       \/ /\ ~m_isBusy
          /\ m_isBusy' = TRUE
          /\ cursorDirty' = TRUE
          /\ WantRender
          /\ UNCHANGED <<selecting, hasBitmap>>
    /\ m_lock' = "free"
    /\ main' = "dispatch"
    /\ UNCHANGED <<viewDirty, busyDrawn, hdrDirty, sizeDirty, viewLock, caller, jobs>>

-----------------------------------------------------------------------------
(* Viewport::Render.                                                       *)

\* WaylandWindow::Update; Scale, Resize and FormatChange take both locks.
WindowUpdate ==
    /\ main = "window"
    /\ \/ /\ sizeDirty \/ hdrDirty
          /\ m_lock = "free" /\ viewLock = "free"
          /\ m_render' = TRUE
          /\ viewDirty' = TRUE
       \/ ~(sizeDirty \/ hdrDirty) /\ UNCHANGED <<m_render, viewDirty>>
    /\ sizeDirty' = FALSE
    /\ hdrDirty' = FALSE
    /\ cursorDirty' = FALSE
    /\ main' = "view"
    /\ UNCHANGED <<m_idle, m_isBusy, selecting, hasBitmap, busyDrawn, surface, locks, caller, jobs>>

LockView ==
    /\ main = "view" /\ viewLock = "free"
    /\ viewLock' = "main"
    /\ main' = "update"
    /\ UNCHANGED <<flags, screen, surface, m_lock, caller, jobs>>

UpdateIgnoresBusy ==
    /\ main = "update" /\ m_lock = "free"
    /\ IF selecting THEN WantRender ELSE UNCHANGED <<m_render, m_idle, surface>>
    /\ main' = "check"
    /\ UNCHANGED <<m_isBusy, selecting, hasBitmap, screen, locks, caller, jobs>>

\* Viewport::Update: the busy indicator and the selection want the next frame.
Update ==
    /\ main = "update" /\ m_lock = "free"
    /\ \/ selecting /\ (m_isBusy \/ m_render) /\ m_render' = TRUE /\ UNCHANGED <<m_idle, surface>>
       \/ selecting /\ ~m_isBusy /\ ~m_render /\ WantRender
       \/ ~selecting /\ m_render' = (m_render \/ m_isBusy) /\ UNCHANGED <<m_idle, surface>>
    /\ main' = "check"
    /\ UNCHANGED <<m_isBusy, selecting, hasBitmap, screen, locks, caller, jobs>>

NothingToDraw ==
    /\ main = "check" /\ ~m_render
    /\ viewLock' = "free"
    /\ caller' = IF caller = "InvokeRender" THEN "InvokeRenderIdle" ELSE caller
    /\ main' = "return"
    /\ UNCHANGED <<flags, screen, surface, m_lock, jobs>>

StartDrawing ==
    /\ main = "check" /\ m_render
    /\ m_render' = FALSE
    /\ main' = "draw"
    /\ UNCHANGED <<m_idle, m_isBusy, selecting, hasBitmap, screen, surface, locks, caller, jobs>>

\* The commands are recorded under m_lock.
Draw ==
    /\ main = "draw" /\ m_lock = "free"
    /\ viewDirty' = FALSE
    /\ busyDrawn' = m_isBusy
    /\ main' = "present"
    /\ UNCHANGED <<flags, cursorDirty, hdrDirty, sizeDirty, surface, locks, caller, jobs>>

\* Presenting commits the surface.
EndFrame ==
    /\ main = "present"
    /\ Commit
    /\ viewLock' = "free"
    /\ main' = "return"
    /\ UNCHANGED <<flags, screen, m_lock, caller, jobs>>

\* Back in InvokeRender, or in XdgSurfaceConfigure, which commits again.
Return ==
    /\ main = "return"
    /\ \/ caller = "InvokeRender" /\ UNCHANGED <<m_idle, surface>>
       \/ caller = "InvokeRenderIdle" /\ m_idle' = TRUE /\ UNCHANGED surface
       \/ caller = "Configure" /\ m_idle' = FALSE /\ Commit
    /\ main' = "dispatch"
    /\ UNCHANGED <<m_render, m_isBusy, selecting, hasBitmap, screen, locks, caller, jobs>>

-----------------------------------------------------------------------------
(* The provider's thread: a job, then ImageHandler.                        *)

TakeJob ==
    /\ provider = "rest" /\ waiting
    /\ waiting' = FALSE
    /\ superseded' = FALSE
    /\ provider' = "load"
    /\ UNCHANGED <<flags, screen, surface, locks, main, caller, after>>

\* Success, or Error and Cancelled, which differ in nothing here.
Loaded ==
    /\ provider = "load"
    /\ provider' \in (IF superseded THEN {"lock"} ELSE {"bitmap", "lock"})
    /\ UNCHANGED <<flags, screen, surface, locks, main, caller, after, superseded, waiting>>

SetBitmap ==
    /\ provider = "bitmap" /\ viewLock = "free"
    /\ viewDirty' = TRUE
    /\ hasBitmap' = TRUE
    /\ provider' = "hdr"
    /\ UNCHANGED <<m_idle, m_render, m_isBusy, selecting, busyDrawn, cursorDirty, hdrDirty, sizeDirty, surface, locks, main, caller, after, superseded, waiting>>

EnableHdr ==
    /\ provider = "hdr"
    /\ \/ hdrDirty' = ~hdrDirty /\ provider' = "resume" /\ after' = "want"
       \/ provider' = "want" /\ UNCHANGED <<hdrDirty, after>>
    /\ UNCHANGED <<flags, viewDirty, busyDrawn, cursorDirty, sizeDirty, surface, locks, main, caller, superseded, waiting>>

\* compare_exchange in ResumeIfIdle; the commit is a later step.
ProviderResume ==
    /\ provider = "resume"
    /\ m_idle' = FALSE
    /\ provider' = IF m_idle THEN "commit" ELSE after
    /\ UNCHANGED <<m_render, m_isBusy, selecting, hasBitmap, screen, surface, locks, main, caller, after, superseded, waiting>>

ProviderCommit ==
    /\ provider = "commit"
    /\ Commit
    /\ provider' = after
    /\ UNCHANGED <<flags, screen, locks, main, caller, after, superseded, waiting>>

\* m_lock is taken, and WantRender called, for a new image.
HandlerLock ==
    /\ provider = "want" /\ m_lock = "free"
    /\ m_lock' = "provider"
    /\ m_render' = TRUE
    /\ provider' = IF m_render THEN "ended" ELSE "resume"
    /\ after' = "ended"
    /\ UNCHANGED <<m_idle, m_isBusy, selecting, hasBitmap, screen, surface, viewLock, main, caller, superseded, waiting>>

HandlerLockFailed ==
    /\ provider = "lock" /\ m_lock = "free"
    /\ m_lock' = "provider"
    /\ provider' = "ended"
    /\ UNCHANGED <<flags, screen, surface, viewLock, main, caller, after, superseded, waiting>>

\* The current job is over.
JobEnded ==
    /\ provider = "ended"
    /\ \/ /\ superseded
          /\ provider' = "unlock"
          /\ UNCHANGED <<m_render, m_isBusy, cursorDirty, after>>
       \/ /\ ~superseded
          /\ m_isBusy' = FALSE
          /\ cursorDirty' = TRUE
          /\ m_render' = TRUE
          /\ provider' = IF m_render THEN "unlock" ELSE "resume"
          /\ after' = "unlock"
    /\ UNCHANGED <<m_idle, selecting, hasBitmap, viewDirty, busyDrawn, hdrDirty, sizeDirty, surface, locks, main, caller, superseded, waiting>>

HandlerUnlock ==
    /\ provider = "unlock"
    /\ m_lock' = "free"
    /\ provider' = "rest"
    /\ UNCHANGED <<flags, screen, surface, viewLock, main, caller, after, superseded, waiting>>

-----------------------------------------------------------------------------

Event == FrameDone \/ ConfigureBusy \/ ConfigureIdle \/ ScaleChange
         \/ ChangeView \/ LeftButton \/ RightButton \/ LoadImage

MainStep == SetBusy \/ WindowUpdate \/ LockView \/ Update \/ NothingToDraw \/ StartDrawing
            \/ Draw \/ EndFrame \/ Return

ProviderStep ==
    /\ main # "panic"
    /\ \/ TakeJob \/ Loaded \/ SetBitmap \/ EnableHdr \/ HandlerLock \/ HandlerLockFailed
       \/ JobEnded \/ HandlerUnlock
       \/ ProviderResume \/ ProviderCommit

Next == Event \/ MainStep \/ ProviderStep

Spec == Init /\ [][Next]_vars

\* Both threads run and get the locks they wait for, the compositor answers a
\* committed frame callback (the window is visible), and events are dispatched
\* in the order they arrive.
Fairness == SF_vars(MainStep) /\ SF_vars(ProviderStep) /\ SF_vars(FrameDone)

FairSpec == Spec /\ Fairness

-----------------------------------------------------------------------------
(* Properties.                                                             *)

\* Between events there is exactly one frame callback: with none the window
\* would never draw again, with two it would draw twice per frame.  And none
\* arrives while the window is idle, as InvokeRender asserts, although the
\* provider's thread commits the surface some time after it has cleared m_idle.
OneFrameCallback ==
    /\ main = "dispatch" => pendingCb + sentCb = 1
    /\ main # "panic"

\* An idle window has nothing left to show: no change of the image, the busy
\* indicator, the cursor, the size or the HDR mode is waiting for a frame.
IdleIsUpToDate ==
    main = "dispatch" /\ m_idle =>
        /\ ~m_render
        /\ ~viewDirty /\ ~cursorDirty /\ ~hdrDirty /\ ~sizeDirty
        /\ busyDrawn = m_isBusy

\* Every change of the image is drawn, and once loading is over the busy
\* indicator is removed from the screen, unless another load begins.
ChangesAreDrawn ==
    /\ viewDirty ~> ~viewDirty
    /\ busyDrawn /\ ~m_isBusy ~> ~busyDrawn \/ m_isBusy
=============================================================================

------------------------------ MODULE ViewWindow ------------------------------
(***************************************************************************)
(* Where iv draws the image: the size, scale and format of the window      *)
(* (wayland/WaylandWindow.cpp), the place and scale of the image in it     *)
(* (tools/iv/ImageView.cpp), and the handlers that change them.  What the  *)
(* compositor and the provider's thread ask for is only noted; Update,     *)
(* called before a frame is drawn, makes the swapchain follow and tells    *)
(* the viewport.                                                           *)
(*                                                                         *)
(* Sizes are pairs <<width, height>> of powers of two, so that arithmetic  *)
(* is exact: the scale of the window is 1 or 2, that of the image is in    *)
(* units of 1/16, and positions, followed along x only, in units of 1/32   *)
(* of a pixel.                                                             *)
(***************************************************************************)
EXTENDS Integers

CONSTANTS
    WindowSizes,        \* logical sizes the compositor gives the window
    Pictures,           \* images that are loaded: <<width, height, hdr>>
    Bounds,             \* logical bounds of the window
    LeastWindow,        \* logical size under which Shift+F does not go (150)
    Levels,             \* what the number keys zoom to
    LeastZoom, MostZoom,\* limits of zooming (1/128 and 128), in 1/16
    Points,             \* where the pointer may be, in 1/32 pixels
    Deltas              \* by how much it moves at once

Scales == {1, 2}
One == 16

ASSUME WindowSizesAssumption == WindowSizes \subseteq (Nat \ {0}) \X (Nat \ {0})
ASSUME ImagesAssumption == Pictures \subseteq (Nat \ {0}) \X (Nat \ {0}) \X BOOLEAN
ASSUME ZoomAssumption ==
    LeastZoom \in Nat \ {0} /\ MostZoom \in Nat /\ LeastZoom <= One /\ One <= MostZoom
ASSUME WantedAssumption == Bounds \in Nat \X Nat /\ LeastWindow \in Nat
ASSUME InputAssumption == Levels \subseteq Nat \ {0} /\ Points \subseteq Int /\ Deltas \subseteq Int

VARIABLES
    m_staged, m_windowExtent,     \* logical sizes of the window
    m_scale, m_prevScale, m_hdr, m_prevHdr,
    swapchain,      \* size in pixels, and whether its format is for HDR
    pipelines,      \* whether those of the viewport are for HDR
    m_image,        \* the texture, or NoImage
    m_viewExtent, m_viewScale, m_fitMode, m_imgOrigin, m_imgScale,
    rendering,      \* where Render stands
    decided,        \* what its Update has found changed
    handler,        \* where the provider's ImageHandler stands
    estranged,      \* why the view may have lost the window (history)
    raced           \* EnableHdr came in the middle of Update (history)

windowVars == <<m_staged, m_windowExtent,
                m_scale, m_prevScale, m_hdr, m_prevHdr, swapchain>>
placeVars == <<m_viewExtent, m_viewScale, m_fitMode, m_imgOrigin, m_imgScale>>
viewWindowVars == <<windowVars, pipelines, m_image, placeVars, rendering, decided, handler, estranged, raced>>

NoImage == <<0, 0, FALSE>>
HasImage == m_image # NoImage

Smaller(i, j) == IF i < j THEN i ELSE j
Larger(i, j) == IF i < j THEN j ELSE i
Bounded(i, lo, hi) == Smaller(Larger(i, lo), hi)

Times(size, n) == <<size[1] * n, size[2] * n>>
CeilDiv(n, d) == (n + d - 1) \div d

(* Width of the image at a scale, and the middle of a size, as positions.  *)
Drawn(image, scale) == image[1] * scale * 2
Middle(size) == size[1] * One

Fits(image, size) == image[1] <= size[1] /\ image[2] <= size[2]
WholeScale(image, size) ==
    Smaller((size[1] * One) \div image[1], (size[2] * One) \div image[2])
CentredAt(image, size, scale) == Middle(size) - Drawn(image, scale) \div 2

Resized == m_staged # m_windowExtent
DpiChange == m_scale # m_prevScale
HdrChange == m_hdr # m_prevHdr

Decision == [resized |-> Resized, dpi |-> DpiChange, hdr |-> HdrChange]
Nothing == [resized |-> FALSE, dpi |-> FALSE, hdr |-> FALSE]

(* The state that SetDevice, ResizeNoScale and the constructors leave.     *)
ViewWindowInit ==
    /\ \E size \in WindowSizes :
         /\ m_staged = size /\ m_windowExtent = size
         /\ swapchain = [size |-> size, hdr |-> FALSE]
         /\ m_viewExtent = size
         /\ m_imgOrigin = Middle(size)
    /\ m_scale = 1 /\ m_prevScale = 1 /\ m_hdr = FALSE /\ m_prevHdr = FALSE
    /\ pipelines = FALSE
    /\ m_image = NoImage
    /\ m_viewScale = 1 /\ m_fitMode = "TooSmall" /\ m_imgScale = One
    /\ rendering = "idle" /\ decided = Nothing
    /\ handler = "idle"
    /\ estranged = "no"
    /\ raced = FALSE
-----------------------------------------------------------------------------
(* ImageView, under its lock.                                              *)

FitToExtent(image, size) ==
    LET scale == IF Fits(image, size) THEN One ELSE WholeScale(image, size)
    IN  /\ m_fitMode' = "TooSmall"
        /\ m_viewExtent' = size
        /\ m_imgScale' = scale
        /\ m_imgOrigin' = CentredAt(image, size, scale)
        /\ UNCHANGED m_viewScale

FitToWindow(image, size) ==
    /\ m_fitMode' = "Always"
    /\ m_viewExtent' = size
    /\ m_imgScale' = WholeScale(image, size)
    /\ m_imgOrigin' = CentredAt(image, size, m_imgScale')
    /\ UNCHANGED m_viewScale

(* The middle of the window stays on the image.                            *)
ClampImagePosition(origin, size, scale) ==
    Bounded(origin, Middle(size) - Drawn(m_image, scale), Middle(size))

(* The place of the origin when the scale changes about a point.  Points   *)
(* for which positions would need a finer unit are left out.               *)
Exact(point, scale) == ((m_imgOrigin - point) * scale) % m_imgScale = 0
About(point, scale) == point + ((m_imgOrigin - point) * scale) \div m_imgScale

FitPixelPerfect(size, scale, points) ==
    /\ m_fitMode' = "None"
    /\ m_viewExtent' = size
    /\ m_imgScale' = scale
    /\ IF points = {}
         THEN m_imgOrigin' = CentredAt(m_image, size, scale)
         ELSE \E p \in points :
                /\ Exact(p, scale)
                /\ m_imgOrigin' = ClampImagePosition(About(p, scale), size, scale)
    /\ UNCHANGED m_viewScale

ResizeKeepsExtent(size) ==
    /\ m_imgOrigin' = m_imgOrigin + Middle(size) - Middle(m_viewExtent)
    /\ UNCHANGED <<m_viewExtent, m_viewScale, m_fitMode, m_imgScale>>

(* Resize moves the image with the middle of the window, but fits it anew  *)
(* in the modes that fit.                                                  *)
ResizeUnfitted(size) ==
    /\ m_viewExtent' = size
    /\ m_imgOrigin' = m_imgOrigin + Middle(size) - Middle(m_viewExtent)
    /\ UNCHANGED <<m_viewScale, m_fitMode, m_imgScale>>

Resize(size) ==
    IF size = m_viewExtent THEN UNCHANGED placeVars
    ELSE IF m_fitMode = "TooSmall" THEN FitToExtent(m_image, size)
    ELSE IF m_fitMode = "Always" THEN FitToWindow(m_image, size)
    ELSE ResizeUnfitted(size)

SetScale(scale, size) ==
    /\ m_viewScale' = scale
    /\ m_viewExtent' = size
    /\ IF HasImage
         THEN /\ m_imgOrigin' = (m_imgOrigin * scale) \div m_viewScale
              /\ m_imgScale' = (m_imgScale * scale) \div m_viewScale
         ELSE UNCHANGED <<m_imgOrigin, m_imgScale>>
    /\ UNCHANGED m_fitMode
-----------------------------------------------------------------------------
(* Events of the compositor, between two frames.                           *)

Idle == rendering = "idle"

(* A size the compositor gives, or the one the window had while it floated. *)
Configure ==
    /\ Idle
    /\ m_staged' \in WindowSizes
    /\ UNCHANGED <<m_windowExtent, m_scale, m_prevScale, m_hdr, m_prevHdr, swapchain,
                   pipelines, m_image, placeVars, rendering, decided, handler, estranged, raced>>

(* Bound: the scale changes again only when the image has been placed      *)
(* anew; otherwise it may drift away from the window without end.          *)
PreferredScale ==
    /\ Idle
    /\ estranged = "no"
    /\ m_scale' \in Scales
    /\ UNCHANGED <<m_staged, m_windowExtent, m_prevScale, m_hdr,
                   m_prevHdr, swapchain, pipelines, m_image, placeVars, rendering, decided, handler, estranged, raced>>
-----------------------------------------------------------------------------
(* Render: Update in three steps, then the frame.  Update holds the lock   *)
(* of the window in the first two; EnableHdr does not take it.             *)

Compare ==
    /\ Idle
    /\ rendering' = IF Decision = Nothing THEN "draw" ELSE "apply"
    /\ decided' = Decision
    /\ UNCHANGED <<windowVars, pipelines, m_image, placeVars, handler, estranged, raced>>

(* CreateSwapchain reads m_hdr at the same time as m_prevHdr follows it.   *)
Apply ==
    /\ rendering = "apply"
    /\ rendering' = "invoke"
    /\ m_windowExtent' = m_staged
    /\ m_prevScale' = m_scale
    /\ m_prevHdr' = m_hdr
    /\ swapchain' = [size |-> Times(m_staged, m_scale), hdr |-> m_hdr]
    /\ UNCHANGED <<m_staged, m_scale, m_hdr, decided,
                   pipelines, m_image, placeVars, handler, estranged, raced>>

(* OnScale keeps the place of the image, and stands in for OnResize when   *)
(* the size has changed as well.  Then the view may have lost the window,  *)
(* until the image is placed anew.                                         *)
Invoke(formatChange) ==
    /\ rendering = "invoke"
    /\ rendering' = "draw"
    /\ IF decided.dpi
         THEN /\ SetScale(m_scale, swapchain.size)
              /\ estranged' = IF decided.resized \/ estranged = "asked" THEN "scaled" ELSE estranged
         ELSE IF decided.resized
           THEN /\ Resize(swapchain.size)
                /\ estranged' = IF (m_fitMode # "None" /\ m_viewExtent # swapchain.size) \/ estranged = "asked"
                                  THEN "no" ELSE estranged
           ELSE UNCHANGED <<placeVars, estranged>>
    /\ IF formatChange THEN pipelines' = swapchain.hdr /\ raced' = FALSE
                       ELSE UNCHANGED <<pipelines, raced>>
    /\ decided' = Nothing
    /\ UNCHANGED <<windowVars, m_image, handler>>

InvokeOneListener == Invoke(decided.hdr /\ ~decided.dpi /\ ~decided.resized)

InvokeListener == Invoke(decided.hdr)

DrawFrame ==
    /\ rendering = "draw"
    /\ rendering' = "idle"
    /\ UNCHANGED <<windowVars, pipelines, m_image, placeVars, decided, handler, estranged, raced>>
-----------------------------------------------------------------------------
(* Keys and the pointer.                                                   *)

Placed == UNCHANGED <<windowVars, pipelines, m_image, rendering, decided, handler, raced>>

KeyFit ==
    /\ Idle /\ HasImage
    /\ FitToExtent(m_image, swapchain.size) \/ FitToWindow(m_image, swapchain.size)
    /\ estranged' = "no"
    /\ Placed

(* The size the window would need to show the image, within its bounds.    *)
Wanted ==
    LET bounds == Times(Bounds, m_scale)
        scale == WholeScale(m_image, bounds)
        whole(i) == IF Fits(m_image, bounds) THEN m_image[i] ELSE (m_image[i] * scale) \div One
    IN  [i \in 1 .. 2 |-> Larger(whole(i), LeastWindow * m_scale)]

(* Shift+F tells the view the size it asks the window to have, unless the  *)
(* window is maximised or its bounds are not known; then it is KeyFit.     *)
KeyFitWindow ==
    /\ Idle /\ HasImage
    /\ FitToExtent(m_image, Wanted)
    /\ m_staged' = <<CeilDiv(Wanted[1], m_scale), CeilDiv(Wanted[2], m_scale)>>
    /\ estranged' = IF Wanted = swapchain.size THEN "no" ELSE "asked"
    /\ UNCHANGED <<m_windowExtent, m_scale, m_prevScale, m_hdr, m_prevHdr, swapchain,
                   pipelines, m_image, rendering, decided, handler, raced>>

KeyLevel ==
    /\ Idle /\ HasImage
    /\ \E level \in Levels, points \in {{}, Points} : FitPixelPerfect(swapchain.size, level * One, points)
    /\ estranged' = "no"
    /\ Placed

(* What Pan and Zoom have in common: the size the view knows is kept.      *)
Moved(origin, scale) ==
    /\ m_fitMode' = "None"
    /\ m_imgScale' = scale
    /\ m_imgOrigin' = ClampImagePosition(origin, m_viewExtent, scale)
    /\ estranged' = IF estranged = "scaled" THEN "no" ELSE estranged
    /\ UNCHANGED <<m_viewExtent, m_viewScale>>
    /\ Placed

Pan ==
    /\ Idle /\ HasImage
    /\ \E delta \in Deltas : Moved(m_imgOrigin + delta, m_imgScale)

Zoom ==
    /\ Idle /\ HasImage
    /\ \E p \in Points, scale \in {m_imgScale * 2, m_imgScale \div 2} :
         LET clamped == Bounded(scale, LeastZoom, MostZoom)
         IN  Exact(p, clamped) /\ Moved(About(p, clamped), clamped)
-----------------------------------------------------------------------------
(* ImageHandler on the provider's thread: SetTexture under the lock of the *)
(* view, then EnableHdr.                                                   *)

ReplaceTexture ==
    /\ handler = "idle"
    /\ handler' = "texture"
    /\ m_image' \in Pictures
    /\ FitToExtent(m_image', m_viewExtent)
    /\ estranged' = IF estranged = "scaled" THEN "no" ELSE estranged
    /\ UNCHANGED <<windowVars, pipelines, rendering, decided, raced>>

EnableHdr ==
    /\ handler = "texture"
    /\ handler' = "idle"
    /\ m_hdr' = m_image[3]
    /\ raced' = (raced \/ (m_hdr' # m_hdr /\ rendering = "apply"))
    /\ UNCHANGED <<m_staged, m_windowExtent, m_scale, m_prevScale,
                   m_prevHdr, swapchain, pipelines, m_image, placeVars, rendering, decided, estranged>>

ViewWindowNext ==
    \/ Configure \/ PreferredScale
    \/ Compare \/ Apply \/ InvokeListener \/ DrawFrame
    \/ KeyFit \/ KeyFitWindow \/ KeyLevel
    \/ Pan \/ Zoom
    \/ ReplaceTexture \/ EnableHdr

ViewWindowSpec == ViewWindowInit /\ [][ViewWindowNext]_viewWindowVars
-----------------------------------------------------------------------------
(* Properties.                                                             *)

Drawing == rendering = "draw"

(* When a frame is drawn, the view knows the size of what it draws on.  A  *)
(* size asked for by Shift+F that the window was not given is excepted.    *)
ViewKnowsWindow == Drawing /\ estranged # "asked" => m_viewExtent = swapchain.size

(* What makes the arithmetic of the model exact: the scale of the image is *)
(* not below its unit, nor odd when the scale of the window may be halved. *)
UnitsSuffice == HasImage => m_imgScale > 0 /\ (m_viewScale = 2 => m_imgScale % 2 = 0)

(* However resizes, changes of scale, new images, zooming and panning      *)
(* follow one another, the image of every frame is where it belongs:       *)
(* whole and in the middle of the window when it is fitted, and otherwise  *)
(* under the middle of the window.  Excepted is what follows a change of   *)
(* the window's scale that came together with one of its size.             *)
ImageIsPlaced ==
    Drawing /\ HasImage /\ estranged = "no" =>
        LET width == Drawn(m_image, m_imgScale)
            middle == Middle(swapchain.size)
        IN  IF m_fitMode = "None"
              THEN m_imgOrigin <= middle /\ middle <= m_imgOrigin + width
              ELSE /\ 2 * m_imgOrigin + width = 2 * middle
                   /\ m_imgScale <= WholeScale(m_image, swapchain.size)

(* Every frame draws the image where it belongs, in a view that knows the  *)
(* window; and zooming and changes of scale, in any order, never make the  *)
(* image so small that it cannot be drawn.                                 *)
FrameIsPlaced == ViewKnowsWindow /\ ImageIsPlaced /\ UnitsSuffice

(* Every frame is drawn by pipelines made for the format of the swapchain, *)
(* unless EnableHdr came between Update's comparison and its assignment.   *)
PipelinesMatch == Drawing /\ ~raced => pipelines = swapchain.hdr
=============================================================================

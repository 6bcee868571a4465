------------------------------ MODULE Selecting ------------------------------
(***************************************************************************)
(* The selection of iv (tools/iv/Selection.cpp) and the handlers of the    *)
(* viewport that drag it, while the provider's thread replaces the image   *)
(* under it: ImageView::SetBitmap ends the drag first, without the lock of *)
(* the view, and puts the new texture in under that lock later.            *)
(*                                                                         *)
(* Positions on the screen are given in half pixels of the image; where    *)
(* the image lies and how large it is drawn does not matter then, and the  *)
(* width of the border by which a selection is resized, which is fixed on  *)
(* the screen, may be anything.  Corners are functions of the axis.        *)
(***************************************************************************)
EXTENDS Integers

CONSTANTS
    ImageSizes,     \* widths and heights of images
    Borders         \* widths of the border, in half pixels

ASSUME ImageSizesAssumption == ImageSizes \subseteq Nat \ {0}
ASSUME BordersAssumption == Borders \subseteq Nat

Axes == {"x", "y"}
Extents == [Axes -> ImageSizes]
Positions == UNION {-1 .. 2 * n + 1 : n \in ImageSizes}

VARIABLES
    m_bitmapExtent,     \* size of the image
    m_drag,
    m_resizeArea,       \* which edge is dragged on each axis
    m_posMin, m_posMax, m_origin,
    m_selectionDrag, m_imageDrag,
    buttons,            \* buttons that are down
    hand,               \* where the main thread stands
    setBitmap,          \* where the provider's SetBitmap stands
    between             \* the selection was changed on an image being replaced (history)

selectingVars == <<m_bitmapExtent, m_drag, m_resizeArea, m_posMin, m_posMax, m_origin,
                   m_selectionDrag, m_imageDrag, buttons, hand, setBitmap, between>>

Nowhere == [a \in Axes |-> 0]
NoEdge == [a \in Axes |-> "none"]

SelectingTypeOK ==
    /\ m_bitmapExtent \in Extents \cup {Nowhere}
    /\ m_drag \in BOOLEAN /\ m_selectionDrag \in BOOLEAN /\ m_imageDrag \in BOOLEAN
    /\ m_resizeArea \in [Axes -> {"none", "min", "max"}]
    /\ {m_posMin, m_posMax, m_origin} \subseteq [Axes -> Int]
    /\ buttons \subseteq {"left", "right"}
    /\ hand \in {"idle", "pointer", "panicked"}
    /\ setBitmap \in {"idle", "upload"}
    /\ between \in BOOLEAN

SelectingInit ==
    /\ m_bitmapExtent = Nowhere
    /\ m_drag = FALSE /\ m_resizeArea = NoEdge
    /\ m_posMin = Nowhere /\ m_posMax = Nowhere /\ m_origin = Nowhere
    /\ m_selectionDrag = FALSE /\ m_imageDrag = FALSE
    /\ buttons = {}
    /\ hand = "idle"
    /\ setBitmap = "idle"
    /\ between = FALSE

HasBitmap == m_bitmapExtent # Nowhere
IsActive(min, max) == \A a \in Axes : min[a] # max[a]
Active == IsActive(m_posMin, m_posMax)

Least(i, j) == IF i < j THEN i ELSE j
Greatest(i, j) == IF i < j THEN j ELSE i
Clamp(i, lo, hi) == Least(Greatest(i, lo), hi)

Floor(p) == p \div 2
Ceil(p) == (p + 1) \div 2
Round(p) == (p + 1) \div 2

ScreenToImagePos(p) == [a \in Axes |-> Clamp(Floor(p[a]), 0, m_bitmapExtent[a])]
ScreenToImagePosRound(p) == [a \in Axes |-> Clamp(Round(p[a]), 0, m_bitmapExtent[a])]
ScreenToImagePosWithOrigin(p) ==
    [a \in Axes |-> Clamp(IF p[a] > 2 * m_origin[a] THEN Ceil(p[a]) ELSE Floor(p[a]),
                          0, m_bitmapExtent[a])]

Near(p, edge, border) == p - edge < border /\ edge - p < border

GetResizeArea(p, border) ==
    LET inRange == \A a \in Axes :
            p[a] + border > 2 * m_posMin[a] /\ p[a] - border < 2 * m_posMax[a]
        edge(a) ==
            IF p[a] < m_posMin[a] + m_posMax[a] /\ Near(p[a], 2 * m_posMin[a], border) THEN "min"
            ELSE IF p[a] > m_posMin[a] + m_posMax[a] /\ Near(p[a], 2 * m_posMax[a], border) THEN "max"
            ELSE "none"
    IN  IF inRange THEN [a \in Axes |-> edge(a)] ELSE NoEdge
-----------------------------------------------------------------------------
(* The main thread; a handler holds the lock of the view.                  *)

imageVars == <<m_bitmapExtent, setBitmap>>
dragVars == <<m_drag, m_resizeArea, m_origin>>
cornerVars == <<m_posMin, m_posMax>>

(* SetMousePointer asks for the area of a selection it has found active.   *)
(* Between the two calls only AbortDrag, which does not take the lock of   *)
(* the view, can come.                                                     *)
SetMousePointer(selectionDrag, imageDrag, active) ==
    hand' = IF ~imageDrag /\ ~selectionDrag /\ active THEN "pointer" ELSE "idle"

PointerArea ==
    /\ hand = "pointer"
    /\ hand' = IF Active THEN "idle" ELSE "panicked"
    /\ UNCHANGED <<imageVars, dragVars, cornerVars, m_selectionDrag, m_imageDrag, buttons, between>>

(* A selection, or a drag, begun while the image is being replaced.        *)
Touches == between' = (between \/ setBitmap = "upload")

(* The left button counts unless the image is being dragged; its release   *)
(* counts whenever a selection is.                                         *)
LeftCounts(pressed) == ~m_imageDrag \/ (m_selectionDrag /\ ~pressed)

PressLeft ==
    /\ hand = "idle"
    /\ "left" \notin buttons
    /\ buttons' = buttons \cup {"left"}
    /\ IF ~HasBitmap \/ ~LeftCounts(TRUE)
         THEN UNCHANGED <<dragVars, cornerVars, m_selectionDrag, hand, between>>
         ELSE \E p \in [Axes -> Positions], border \in Borders :
                /\ m_selectionDrag' = TRUE
                /\ m_drag' = TRUE
                /\ m_resizeArea' = IF Active THEN GetResizeArea(p, border) ELSE NoEdge
                /\ IF m_resizeArea' = NoEdge
                     THEN /\ m_origin' = ScreenToImagePos(p)
                          /\ m_posMin' = m_origin' /\ m_posMax' = m_origin'
                          /\ between' = (setBitmap = "upload")
                     ELSE UNCHANGED <<m_origin, cornerVars, between>>
                /\ SetMousePointer(TRUE, m_imageDrag, FALSE)
    /\ UNCHANGED <<imageVars, m_imageDrag>>

(* The end of a drag.  What only a drag uses is forgotten.                 *)
ReleaseLeft ==
    /\ hand = "idle"
    /\ "left" \in buttons
    /\ buttons' = buttons \ {"left"}
    /\ IF HasBitmap /\ LeftCounts(FALSE)
         THEN /\ m_selectionDrag' = FALSE
              /\ m_drag' = FALSE
              /\ m_resizeArea' = NoEdge
              /\ m_origin' = Nowhere
              /\ SetMousePointer(FALSE, m_imageDrag, Active)
         ELSE UNCHANGED <<m_selectionDrag, dragVars, hand>>
    /\ UNCHANGED <<imageVars, cornerVars, m_imageDrag, between>>

RightButton(pressed) ==
    /\ hand = "idle"
    /\ ("right" \in buttons) = ~pressed
    /\ buttons' = IF pressed THEN buttons \cup {"right"} ELSE buttons \ {"right"}
    /\ IF HasBitmap
         THEN m_imageDrag' = pressed /\ SetMousePointer(m_selectionDrag, pressed, Active)
         ELSE UNCHANGED <<m_imageDrag, hand>>
    /\ UNCHANGED <<imageVars, dragVars, cornerVars, m_selectionDrag, between>>

(* The corners after a move to p of a drag that resizes, or of one that    *)
(* spans a new selection.                                                  *)
ResizedMin(img) ==
    [a \in Axes |-> IF m_resizeArea[a] = "min" THEN Least(m_posMax[a] - 1, img[a]) ELSE m_posMin[a]]
ResizedMax(img) ==
    [a \in Axes |-> IF m_resizeArea[a] = "max" THEN Greatest(m_posMin[a] + 1, img[a]) ELSE m_posMax[a]]

SpannedMin(img) ==
    [a \in Axes |-> Least(Least(m_origin[a], img[a]), m_bitmapExtent[a] - 1)]
SpannedMax(img) ==
    [a \in Axes |-> Least(Greatest(m_origin[a] + 1, img[a]), m_bitmapExtent[a])]

ValidCorners(min, max) == \A a \in Axes : min[a] < m_bitmapExtent[a] /\ min[a] < max[a]

DragSelection ==
    /\ hand = "idle"
    /\ m_selectionDrag
    /\ IF m_drag
         THEN /\ \E p \in [Axes -> Positions] :
                   LET spans == m_resizeArea = NoEdge
                   IN  /\ m_posMin' = IF spans THEN SpannedMin(ScreenToImagePosWithOrigin(p))
                                               ELSE ResizedMin(ScreenToImagePosRound(p))
                       /\ m_posMax' = IF spans THEN SpannedMax(ScreenToImagePosWithOrigin(p))
                                               ELSE ResizedMax(ScreenToImagePosRound(p))
              /\ hand' = IF ValidCorners(m_posMin', m_posMax') THEN "idle" ELSE "panicked"
              /\ Touches
              /\ UNCHANGED m_selectionDrag
         ELSE /\ m_selectionDrag' = FALSE
              /\ UNCHANGED <<cornerVars, hand, between>>
    /\ UNCHANGED <<imageVars, dragVars, m_imageDrag, buttons>>

Hover ==
    /\ hand = "idle"
    /\ ~m_selectionDrag /\ ~m_imageDrag /\ Active
    /\ SetMousePointer(m_selectionDrag, m_imageDrag, Active)
    /\ UNCHANGED <<imageVars, dragVars, cornerVars, m_selectionDrag, m_imageDrag, buttons, between>>
-----------------------------------------------------------------------------
(* The provider's thread: SetBitmap of a new image.                        *)

AbortDragKeepsSelection ==
    /\ setBitmap = "idle"
    /\ setBitmap' = "upload"
    /\ m_drag' = FALSE
    /\ between' = FALSE
    /\ UNCHANGED <<m_bitmapExtent, m_resizeArea, m_origin, cornerVars, m_selectionDrag, m_imageDrag, buttons, hand>>

AbortDrag ==
    /\ setBitmap = "idle"
    /\ setBitmap' = "upload"
    /\ m_drag' = FALSE
    /\ m_posMin' = m_posMax
    /\ between' = FALSE
    /\ UNCHANGED <<m_bitmapExtent, m_resizeArea, m_origin, m_posMax, m_selectionDrag, m_imageDrag, buttons, hand>>

SetTexture ==
    /\ setBitmap = "upload"
    /\ hand # "pointer"         \* the lock of the view
    /\ setBitmap' = "idle"
    /\ m_bitmapExtent' \in Extents
    /\ UNCHANGED <<dragVars, cornerVars, m_selectionDrag, m_imageDrag, buttons, hand, between>>

SelectingNext ==
    /\ hand # "panicked"
    /\ \/ PressLeft
       \/ ReleaseLeft
       \/ \E pressed \in BOOLEAN : RightButton(pressed)
       \/ DragSelection
       \/ Hover
       \/ PointerArea
       \/ AbortDrag
       \/ SetTexture

SelectingSpec == SelectingInit /\ [][SelectingNext]_selectingVars
-----------------------------------------------------------------------------
(* Properties.                                                             *)

(* Whatever is dragged across however many images, the selection is empty  *)
(* or lies on the image: MouseMove's two assertions hold, and what is cut  *)
(* or copied is there.  Excepted is a selection made while SetBitmap has   *)
(* ended the drag and not yet set the texture.                             *)
SelectionOnImage ==
    Active /\ HasBitmap /\ ~between =>
        \A a \in Axes : m_posMin[a] < m_posMax[a] /\ m_posMax[a] <= m_bitmapExtent[a]

(* A selection is dragged only while the left button is down, in whatever  *)
(* order the two buttons are used and images arrive; otherwise it would    *)
(* follow the pointer after the button was released.                       *)
DragEndsWithButton == (m_selectionDrag \/ m_drag) => "left" \in buttons /\ m_selectionDrag

(* The selection is on the image, and follows the pointer only while it    *)
(* should: a selection is well formed whatever the user and the provider   *)
(* do at the same time.                                                    *)
SelectionIsSound == SelectionOnImage /\ DragEndsWithButton

(* SetMousePointer never asks for the resize area of a selection that is   *)
(* not active, as GetResizeArea asserts (tools/iv/Selection.cpp:264).      *)
(* AbortDrag between the two calls breaks it.                              *)
AreaOfActive == hand = "pointer" => Active
=============================================================================

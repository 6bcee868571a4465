---------------------------- MODULE ViewProofs ------------------------------
(***************************************************************************)
(* Proofs about iv: the selection is sound for images and borders of any   *)
(* size; frames are drawn by pipelines made for the swapchain's format, in *)
(* a view that knows its size, for any sizes, pictures, scales and levels  *)
(* of zooming; the batches of FindLoadableImages find what one pass would, *)
(* for every number of processors; and the index that the keys use stays   *)
(* inside the list of files and names the image asked for last.  And about *)
(* vv: it draws in a way the terminal has, whatever becomes of the answers.*)
(* And about the mouse cursor: it is there, and its animation is on time,  *)
(* for themes of any sizes, numbers of images and delays.                  *)
(*                                                                         *)
(* FindLoadableImages and LoadableIn are recursive functions, and Sorted   *)
(* chooses one: what they are is proved by induction over the numbers and  *)
(* over the sequences, which Numbers and Sequences state for sets.         *)
(***************************************************************************)
EXTENDS Selecting, ViewWindow, FileList, TerminalViewer, Cursors, FiniteSetTheorems, SequenceTheorems, TLAPS

-----------------------------------------------------------------------------
(* The selection.                                                          *)

\* A drag ends with the button, and only begins on an image.
DragInv ==
    /\ DragEndsWithButton
    /\ m_selectionDrag => HasBitmap

\* A drag that resizes keeps the selection active; a drag that was ended by a
\* new image leaves none until that is in place.
ActiveInv ==
    /\ m_drag /\ m_resizeArea # NoEdge => Active
    /\ setBitmap = "upload" /\ ~between => ~Active

SelectingInv == SelectingTypeOK /\ DragInv /\ ActiveInv /\ SelectionOnImage

\* The corners of a function on the axes are its two values.
LEMMA CornersAreInts ==
    ASSUME SelectingTypeOK
    PROVE  /\ \A a \in Axes : m_posMin[a] \in Int /\ m_posMax[a] \in Int /\ m_origin[a] \in Int
           /\ \A a \in Axes : m_bitmapExtent[a] \in Nat
           /\ m_posMin \in [Axes -> Int] /\ m_posMax \in [Axes -> Int] /\ m_origin \in [Axes -> Int]
<1>1. m_posMin \in [Axes -> Int] /\ m_posMax \in [Axes -> Int] /\ m_origin \in [Axes -> Int]
  BY DEF SelectingTypeOK
<1>2. \A a \in Axes : m_bitmapExtent[a] \in Nat
  <2>1. CASE m_bitmapExtent \in [Axes -> ImageSizes]
    BY <2>1, ImageSizesAssumption
  <2>2. CASE m_bitmapExtent = Nowhere
    BY <2>2 DEF Nowhere
  <2>3. QED
    BY <2>1, <2>2 DEF SelectingTypeOK, Extents
<1>3. QED
  BY <1>1, <1>2

\* An image that is there has a pixel on every axis.
LEMMA ImagesHavePixels ==
    ASSUME SelectingTypeOK, HasBitmap
    PROVE  \A a \in Axes : m_bitmapExtent[a] \in Nat /\ m_bitmapExtent[a] > 0
<1>1. m_bitmapExtent \in [Axes -> ImageSizes]
  BY DEF SelectingTypeOK, HasBitmap, Extents
<1>2. ImageSizes \subseteq Nat \ {0}
  BY ImageSizesAssumption
<1>3. \A n \in Nat \ {0} : n \in Nat /\ n > 0
  OBVIOUS
<1>4. ASSUME NEW a \in Axes
      PROVE  m_bitmapExtent[a] \in Nat \ {0}
  BY <1>1, <1>2
<1>5. QED
  BY <1>3, <1>4

LEMMA NewImagesHavePixels == \A extent \in Extents : extent # Nowhere
  BY ImageSizesAssumption DEF Extents, Nowhere, Axes

\* A point of the screen is moved onto the image.
LEMMA PointsOnImage ==
    ASSUME SelectingTypeOK, NEW p \in [Axes -> Positions]
    PROVE  /\ ScreenToImagePos(p) \in [Axes -> Int]
           /\ \A a \in Axes : /\ ScreenToImagePosRound(p)[a] \in 0 .. m_bitmapExtent[a]
                              /\ ScreenToImagePosWithOrigin(p)[a] \in 0 .. m_bitmapExtent[a]
<1>1. \A a \in Axes : p[a] \in Int
  BY ImageSizesAssumption DEF Positions
<1>2. ASSUME NEW a \in Axes
      PROVE  /\ Floor(p[a]) \in Int /\ Ceil(p[a]) \in Int /\ Round(p[a]) \in Int
             /\ m_bitmapExtent[a] \in Nat
  BY <1>1, CornersAreInts DEF Floor, Ceil, Round
<1>3. ASSUME NEW i \in Int, NEW n \in Nat
      PROVE  Clamp(i, 0, n) \in 0 .. n
  BY DEF Clamp, Least, Greatest
<1>4. ASSUME NEW a \in Axes
      PROVE  /\ ScreenToImagePos(p)[a] \in Int
             /\ ScreenToImagePosRound(p)[a] \in 0 .. m_bitmapExtent[a]
             /\ ScreenToImagePosWithOrigin(p)[a] \in 0 .. m_bitmapExtent[a]
  <2>1. ScreenToImagePos(p)[a] \in 0 .. m_bitmapExtent[a]
    BY <1>2, <1>3 DEF ScreenToImagePos
  <2>2. ScreenToImagePosRound(p)[a] \in 0 .. m_bitmapExtent[a]
    BY <1>2, <1>3 DEF ScreenToImagePosRound
  <2>3. ScreenToImagePosWithOrigin(p)[a] \in 0 .. m_bitmapExtent[a]
    BY <1>2, <1>3 DEF ScreenToImagePosWithOrigin
  <2>4. QED
    BY <2>1, <2>2, <2>3
<1>5. ScreenToImagePos(p) \in [Axes -> Int]
  BY <1>4 DEF ScreenToImagePos
<1>6. QED
  BY <1>4, <1>5

\* Wherever a drag began, what it spans is a selection on the image.
LEMMA SpannedIsOnImage ==
    ASSUME SelectingTypeOK, HasBitmap, NEW img,
           \A a \in Axes : img[a] \in 0 .. m_bitmapExtent[a]
    PROVE  /\ SpannedMin(img) \in [Axes -> Int] /\ SpannedMax(img) \in [Axes -> Int]
           /\ \A a \in Axes : /\ SpannedMin(img)[a] < SpannedMax(img)[a]
                              /\ SpannedMax(img)[a] <= m_bitmapExtent[a]
<1>1. ASSUME NEW a \in Axes
      PROVE  /\ m_origin[a] \in Int /\ img[a] \in Int
             /\ m_bitmapExtent[a] \in Nat /\ m_bitmapExtent[a] > 0
  BY CornersAreInts, ImagesHavePixels
<1>2. ASSUME NEW a \in Axes
      PROVE  /\ SpannedMin(img)[a] \in Int /\ SpannedMax(img)[a] \in Int
             /\ SpannedMin(img)[a] < SpannedMax(img)[a]
             /\ SpannedMax(img)[a] <= m_bitmapExtent[a]
  BY <1>1 DEF SpannedMin, SpannedMax, Least, Greatest
<1>3. QED
  BY <1>2 DEF SpannedMin, SpannedMax

\* Resizing an active selection leaves it active, and one on the image on it.
LEMMA ResizedStaysOnImage ==
    ASSUME SelectingTypeOK, Active, NEW img,
           \A a \in Axes : img[a] \in 0 .. m_bitmapExtent[a]
    PROVE  /\ ResizedMin(img) \in [Axes -> Int] /\ ResizedMax(img) \in [Axes -> Int]
           /\ \A a \in Axes : ResizedMin(img)[a] # ResizedMax(img)[a]
           /\ (\A a \in Axes : m_posMin[a] < m_posMax[a] /\ m_posMax[a] <= m_bitmapExtent[a]) =>
                 \A a \in Axes : /\ ResizedMin(img)[a] < ResizedMax(img)[a]
                                  /\ ResizedMax(img)[a] <= m_bitmapExtent[a]
<1>1. ASSUME NEW a \in Axes
      PROVE  /\ m_posMin[a] \in Int /\ m_posMax[a] \in Int /\ m_posMin[a] # m_posMax[a]
             /\ img[a] \in Int /\ img[a] <= m_bitmapExtent[a] /\ m_bitmapExtent[a] \in Nat
  BY CornersAreInts DEF Active, IsActive
<1>2. ASSUME NEW a \in Axes
      PROVE  /\ ResizedMin(img)[a] \in Int /\ ResizedMax(img)[a] \in Int
             /\ ResizedMin(img)[a] # ResizedMax(img)[a]
             /\ m_posMin[a] < m_posMax[a] /\ m_posMax[a] <= m_bitmapExtent[a] =>
                  /\ ResizedMin(img)[a] < ResizedMax(img)[a]
                  /\ ResizedMax(img)[a] <= m_bitmapExtent[a]
  BY <1>1 DEF ResizedMin, ResizedMax, Least, Greatest
<1>3. ResizedMin(img) \in [Axes -> Int] /\ ResizedMax(img) \in [Axes -> Int]
  BY <1>2 DEF ResizedMin, ResizedMax
<1>4. QED
  BY <1>2, <1>3
-----------------------------------------------------------------------------
LEMMA ConstantTypes ==
    Nowhere \in [Axes -> Int] /\ NoEdge \in [Axes -> {"none", "min", "max"}]
  BY DEF Nowhere, NoEdge

LEMMA SelectingInitInv == SelectingInit => SelectingInv
<1> SUFFICES ASSUME SelectingInit PROVE SelectingInv
  OBVIOUS
<1>1. SelectingTypeOK
  BY ConstantTypes DEF SelectingInit, SelectingTypeOK
<1>2. DragInv /\ ActiveInv /\ SelectionOnImage
  BY DEF SelectingInit, DragInv, DragEndsWithButton, ActiveInv, SelectionOnImage, HasBitmap
<1>3. QED
  BY <1>1, <1>2 DEF SelectingInv

\* SetMousePointer only moves the hand.
LEMMA PointerType ==
    ASSUME NEW selectionDrag, NEW imageDrag, NEW active,
           SetMousePointer(selectionDrag, imageDrag, active)
    PROVE  hand' \in {"idle", "pointer", "panicked"}
  BY DEF SetMousePointer

LEMMA ResizeAreaType ==
    ASSUME NEW p, NEW border
    PROVE  GetResizeArea(p, border) \in [Axes -> {"none", "min", "max"}]
  BY DEF GetResizeArea, NoEdge

\* Nothing else is touched by the pointer, the right button and hovering.
LEMMA PointerInv ==
    SelectingInv /\ (PointerArea \/ Hover \/ \E pressed \in BOOLEAN : RightButton(pressed))
      => SelectingInv'
<1> SUFFICES ASSUME SelectingInv,
                    PointerArea \/ Hover \/ \E pressed \in BOOLEAN : RightButton(pressed)
             PROVE  SelectingInv'
  OBVIOUS
<1>1. UNCHANGED <<m_bitmapExtent, m_drag, m_resizeArea, m_posMin, m_posMax, m_origin,
                  m_selectionDrag, setBitmap, between>>
  BY DEF PointerArea, Hover, RightButton, imageVars, dragVars, cornerVars
<1>2. /\ hand' \in {"idle", "pointer", "panicked"}
      /\ m_imageDrag' \in BOOLEAN
      /\ buttons' \subseteq {"left", "right"}
      /\ "left" \in buttons => "left" \in buttons'
  <2>1. CASE PointerArea
    BY <2>1 DEF PointerArea, SelectingInv, SelectingTypeOK
  <2>2. CASE Hover
    BY <2>2, PointerType DEF Hover, SelectingInv, SelectingTypeOK
  <2>3. ASSUME NEW pressed \in BOOLEAN, RightButton(pressed)
        PROVE  /\ hand' \in {"idle", "pointer", "panicked"}
               /\ m_imageDrag' \in BOOLEAN
               /\ buttons' \subseteq {"left", "right"}
               /\ "left" \in buttons => "left" \in buttons'
    BY <2>3, PointerType DEF RightButton, SelectingInv, SelectingTypeOK
  <2>4. QED
    BY <2>1, <2>2, <2>3
<1>3. SelectingTypeOK'
  BY <1>1, <1>2 DEF SelectingInv, SelectingTypeOK
<1>4. DragInv' /\ ActiveInv' /\ SelectionOnImage'
  BY <1>1, <1>2 DEF SelectingInv, DragInv, DragEndsWithButton, ActiveInv, Active,
                    SelectionOnImage, HasBitmap
<1>5. QED
  BY <1>3, <1>4 DEF SelectingInv

LEMMA PressLeftInv == SelectingInv /\ PressLeft => SelectingInv'
<1> SUFFICES ASSUME SelectingInv, PressLeft PROVE SelectingInv'
  OBVIOUS
<1>1. /\ "left" \notin buttons /\ buttons' = buttons \cup {"left"}
      /\ UNCHANGED <<m_bitmapExtent, setBitmap, m_imageDrag>>
  BY DEF PressLeft, imageVars
<1>2. ~m_selectionDrag /\ ~m_drag
  BY <1>1 DEF SelectingInv, DragInv, DragEndsWithButton
<1>3. CASE ~HasBitmap \/ ~LeftCounts(TRUE)
  <2>1. UNCHANGED <<m_drag, m_resizeArea, m_origin, m_posMin, m_posMax, m_selectionDrag, hand, between>>
    BY <1>3 DEF PressLeft, dragVars, cornerVars
  <2>2. SelectingTypeOK'
    BY <1>1, <2>1 DEF SelectingInv, SelectingTypeOK
  <2>3. QED
    BY <1>1, <2>1, <2>2 DEF SelectingInv, DragInv, DragEndsWithButton, ActiveInv, Active,
                            SelectionOnImage, HasBitmap
<1>4. CASE HasBitmap /\ LeftCounts(TRUE)
  <2>1. PICK p \in [Axes -> Positions], border \in Borders :
          /\ m_selectionDrag' = TRUE
          /\ m_drag' = TRUE
          /\ m_resizeArea' = IF Active THEN GetResizeArea(p, border) ELSE NoEdge
          /\ IF m_resizeArea' = NoEdge
               THEN /\ m_origin' = ScreenToImagePos(p)
                    /\ m_posMin' = m_origin' /\ m_posMax' = m_origin'
                    /\ between' = (setBitmap = "upload")
               ELSE UNCHANGED <<m_origin, cornerVars, between>>
          /\ SetMousePointer(TRUE, m_imageDrag, FALSE)
    BY <1>4 DEF PressLeft
  <2>2. m_resizeArea' \in [Axes -> {"none", "min", "max"}]
    BY <2>1, ResizeAreaType DEF NoEdge
  <2>3. hand' \in {"idle", "pointer", "panicked"}
    BY <2>1, PointerType
  <2>4. DragInv'
    BY <1>1, <1>4, <2>1 DEF DragInv, DragEndsWithButton, HasBitmap
  <2>5. CASE m_resizeArea' = NoEdge
    <3>1. /\ m_origin' = ScreenToImagePos(p) /\ m_posMin' = m_origin' /\ m_posMax' = m_origin'
          /\ between' = (setBitmap = "upload")
      BY <2>1, <2>5
    <3>2. m_origin' \in [Axes -> Int]
      BY <3>1, PointsOnImage DEF SelectingInv
    <3>3. SelectingTypeOK'
      BY <1>1, <2>1, <2>2, <2>3, <3>1, <3>2 DEF SelectingInv, SelectingTypeOK
    <3>4. ~Active'
      BY <3>1 DEF Active, IsActive, Axes
    <3>5. QED
      BY <2>4, <2>5, <3>3, <3>4 DEF SelectingInv, ActiveInv, SelectionOnImage
  <2>6. CASE m_resizeArea' # NoEdge
    <3>1. UNCHANGED <<m_origin, m_posMin, m_posMax, between>> /\ Active
      BY <2>1, <2>6 DEF cornerVars
    <3>2. SelectingTypeOK'
      BY <1>1, <2>1, <2>2, <2>3, <3>1 DEF SelectingInv, SelectingTypeOK
    <3>3. ActiveInv' /\ SelectionOnImage'
      BY <1>1, <3>1 DEF SelectingInv, ActiveInv, Active, SelectionOnImage, HasBitmap
    <3>4. QED
      BY <2>4, <3>2, <3>3 DEF SelectingInv
  <2>7. QED
    BY <2>5, <2>6
<1>5. QED
  BY <1>3, <1>4

LEMMA ReleaseLeftInv == SelectingInv /\ ReleaseLeft => SelectingInv'
<1> SUFFICES ASSUME SelectingInv, ReleaseLeft PROVE SelectingInv'
  OBVIOUS
<1>1. /\ buttons' = buttons \ {"left"}
      /\ UNCHANGED <<m_bitmapExtent, setBitmap, m_posMin, m_posMax, m_imageDrag, between>>
  BY DEF ReleaseLeft, imageVars, cornerVars
<1>2. CASE HasBitmap /\ LeftCounts(FALSE)
  <2>1. /\ m_selectionDrag' = FALSE /\ m_drag' = FALSE
        /\ m_resizeArea' = NoEdge /\ m_origin' = Nowhere
        /\ hand' \in {"idle", "pointer", "panicked"}
    BY <1>2, PointerType DEF ReleaseLeft
  <2>2. SelectingTypeOK'
    BY <1>1, <2>1, ConstantTypes DEF SelectingInv, SelectingTypeOK
  <2>3. QED
    BY <1>1, <2>1, <2>2 DEF SelectingInv, DragInv, DragEndsWithButton, ActiveInv, Active,
                            SelectionOnImage, HasBitmap
<1>3. CASE ~(HasBitmap /\ LeftCounts(FALSE))
  <2>1. UNCHANGED <<m_selectionDrag, m_drag, m_resizeArea, m_origin, hand>>
    BY <1>3 DEF ReleaseLeft, dragVars
  <2>2. ~m_selectionDrag
    BY <1>3 DEF SelectingInv, DragInv, LeftCounts
  <2>3. ~m_drag
    BY <2>2 DEF SelectingInv, DragInv, DragEndsWithButton
  <2>4. SelectingTypeOK'
    BY <1>1, <2>1 DEF SelectingInv, SelectingTypeOK
  <2>5. QED
    BY <1>1, <2>1, <2>2, <2>3, <2>4
    DEF SelectingInv, DragInv, DragEndsWithButton, ActiveInv, Active, SelectionOnImage, HasBitmap
<1>4. QED
  BY <1>2, <1>3

LEMMA DragSelectionInv == SelectingInv /\ DragSelection => SelectingInv'
<1> SUFFICES ASSUME SelectingInv, DragSelection PROVE SelectingInv'
  OBVIOUS
<1>1. /\ m_selectionDrag /\ HasBitmap /\ "left" \in buttons
      /\ UNCHANGED <<m_bitmapExtent, setBitmap, m_drag, m_resizeArea, m_origin, m_imageDrag, buttons>>
  BY DEF DragSelection, imageVars, dragVars, SelectingInv, DragInv, DragEndsWithButton
<1>2. CASE ~m_drag
  <2>1. m_selectionDrag' = FALSE /\ UNCHANGED <<m_posMin, m_posMax, hand, between>>
    BY <1>2 DEF DragSelection, cornerVars
  <2>2. SelectingTypeOK'
    BY <1>1, <2>1 DEF SelectingInv, SelectingTypeOK
  <2>3. QED
    BY <1>1, <1>2, <2>1, <2>2
    DEF SelectingInv, DragInv, DragEndsWithButton, ActiveInv, Active, SelectionOnImage, HasBitmap
<1>3. CASE m_drag
  <2>1. PICK p \in [Axes -> Positions] :
          /\ m_posMin' = IF m_resizeArea = NoEdge THEN SpannedMin(ScreenToImagePosWithOrigin(p))
                         ELSE ResizedMin(ScreenToImagePosRound(p))
          /\ m_posMax' = IF m_resizeArea = NoEdge THEN SpannedMax(ScreenToImagePosWithOrigin(p))
                         ELSE ResizedMax(ScreenToImagePosRound(p))
    BY <1>3 DEF DragSelection
  <2>2. /\ hand' \in {"idle", "pointer", "panicked"}
        /\ between' = (between \/ setBitmap = "upload")
        /\ UNCHANGED m_selectionDrag
    BY <1>3 DEF DragSelection, Touches
  <2>3. /\ m_posMin' \in [Axes -> Int] /\ m_posMax' \in [Axes -> Int]
        /\ m_resizeArea # NoEdge => \A a \in Axes : m_posMin'[a] # m_posMax'[a]
        /\ ~between' => \A a \in Axes : m_posMin'[a] < m_posMax'[a] /\ m_posMax'[a] <= m_bitmapExtent[a]
    <3>1. CASE m_resizeArea = NoEdge
      <4> DEFINE img == ScreenToImagePosWithOrigin(p)
      <4>1. \A a \in Axes : img[a] \in 0 .. m_bitmapExtent[a]
        BY PointsOnImage DEF SelectingInv
      <4>2. m_posMin' = SpannedMin(img) /\ m_posMax' = SpannedMax(img)
        BY <2>1, <3>1
      <4> HIDE DEF img
      <4>3. QED
        BY <1>1, <3>1, <4>1, <4>2, SpannedIsOnImage DEF SelectingInv
    <3>2. CASE m_resizeArea # NoEdge
      <4> DEFINE img == ScreenToImagePosRound(p)
      <4>1. \A a \in Axes : img[a] \in 0 .. m_bitmapExtent[a]
        BY PointsOnImage DEF SelectingInv
      <4>2. m_posMin' = ResizedMin(img) /\ m_posMax' = ResizedMax(img)
        BY <2>1, <3>2
      <4>3. Active
        BY <1>3, <3>2 DEF SelectingInv, ActiveInv
      <4>4. ~between' =>
              \A a \in Axes : m_posMin[a] < m_posMax[a] /\ m_posMax[a] <= m_bitmapExtent[a]
        BY <1>1, <2>2, <4>3 DEF SelectingInv, SelectionOnImage
      <4> HIDE DEF img
      <4>5. QED
        BY <4>1, <4>2, <4>3, <4>4, ResizedStaysOnImage DEF SelectingInv
    <3>3. QED
      BY <3>1, <3>2
  <2>4. SelectingTypeOK'
    BY <1>1, <2>2, <2>3 DEF SelectingInv, SelectingTypeOK
  <2>5. DragInv'
    BY <1>1, <2>2 DEF SelectingInv, DragInv, DragEndsWithButton, HasBitmap
  <2>6. ActiveInv'
    <3>1. m_resizeArea' # NoEdge => Active'
      BY <1>1, <2>3 DEF Active, IsActive
    <3>2. setBitmap' = "upload" => between'
      BY <1>1, <2>2
    <3>3. QED
      BY <3>1, <3>2 DEF ActiveInv
  <2>7. SelectionOnImage'
    BY <1>1, <2>3 DEF SelectionOnImage
  <2>8. QED
    BY <2>4, <2>5, <2>6, <2>7 DEF SelectingInv
<1>4. QED
  BY <1>2, <1>3 DEF SelectingInv, SelectingTypeOK

LEMMA ProviderInv == SelectingInv /\ (AbortDrag \/ SetTexture) => SelectingInv'
<1> SUFFICES ASSUME SelectingInv, AbortDrag \/ SetTexture PROVE SelectingInv'
  OBVIOUS
<1>1. CASE AbortDrag
  <2>1. /\ setBitmap' = "upload" /\ m_drag' = FALSE /\ m_posMin' = m_posMax /\ between' = FALSE
        /\ UNCHANGED <<m_bitmapExtent, m_resizeArea, m_origin, m_posMax, m_selectionDrag,
                       m_imageDrag, buttons, hand>>
    BY <1>1 DEF AbortDrag
  <2>2. SelectingTypeOK'
    BY <2>1 DEF SelectingInv, SelectingTypeOK
  <2>3. ~Active'
    BY <2>1 DEF Active, IsActive, Axes
  <2>4. QED
    BY <2>1, <2>2, <2>3 DEF SelectingInv, DragInv, DragEndsWithButton, ActiveInv,
                            SelectionOnImage, HasBitmap
<1>2. CASE SetTexture
  <2>1. /\ setBitmap = "upload" /\ setBitmap' = "idle" /\ m_bitmapExtent' \in Extents
        /\ UNCHANGED <<m_drag, m_resizeArea, m_origin, m_posMin, m_posMax, m_selectionDrag,
                       m_imageDrag, buttons, hand, between>>
    BY <1>2 DEF SetTexture, dragVars, cornerVars
  <2>2. SelectingTypeOK'
    BY <2>1 DEF SelectingInv, SelectingTypeOK
  <2>3. HasBitmap'
    BY <2>1, NewImagesHavePixels DEF HasBitmap
  <2>4. ~between => ~Active'
    BY <2>1 DEF SelectingInv, ActiveInv, Active
  <2>5. QED
    BY <2>1, <2>2, <2>3, <2>4 DEF SelectingInv, DragInv, DragEndsWithButton, ActiveInv, Active,
                                  SelectionOnImage
<1>3. QED
  BY <1>1, <1>2

LEMMA SelectingNextInv == SelectingInv /\ [SelectingNext]_selectingVars => SelectingInv'
<1>1. SelectingInv /\ UNCHANGED selectingVars => SelectingInv'
  BY DEF selectingVars, SelectingInv, SelectingTypeOK, DragInv, DragEndsWithButton, ActiveInv,
         Active, SelectionOnImage, HasBitmap
<1>2. QED
  BY <1>1, PointerInv, PressLeftInv, ReleaseLeftInv, DragSelectionInv, ProviderInv
  DEF SelectingNext

\* However the buttons are used and whenever the provider's thread replaces the
\* image, the selection lies on it and follows the pointer only while the left
\* button is down; excepted is a selection made while the image is replaced.
THEOREM SelectingCorrect == SelectingSpec => []SelectionIsSound
<1>1. SelectingInv => SelectionIsSound
  BY DEF SelectingInv, DragInv, SelectionIsSound
<1>2. QED
  BY <1>1, SelectingInitInv, SelectingNextInv, PTL DEF SelectingSpec

-----------------------------------------------------------------------------
(* Frames and their view.                                                  *)

\* The swapchain was made for the value of m_hdr that Update has remembered.
SwapchainFollows == swapchain.hdr = m_prevHdr

\* The pipelines differ from the swapchain only while the listener that makes
\* them anew is due.
PipelinesFollow ==
    ~raced => \/ rendering = "invoke" /\ decided.hdr
              \/ pipelines = swapchain.hdr

\* What Update has found is still so when it acts on it.
DecidedStands == rendering = "apply" /\ ~raced => (decided.hdr <=> m_hdr # m_prevHdr)

PipelinesInv == SwapchainFollows /\ PipelinesFollow /\ DecidedStands

\* A format change never leaves Compare unnoticed.
LEMMA NothingIsNoHdr == Decision.hdr = (m_hdr # m_prevHdr)
  BY DEF Decision, HdrChange

LEMMA PipelinesInitInv == ViewWindowInit => PipelinesInv
<1> SUFFICES ASSUME ViewWindowInit PROVE PipelinesInv
  OBVIOUS
<1>1. swapchain.hdr = FALSE /\ m_prevHdr = FALSE /\ pipelines = FALSE /\ rendering = "idle"
  BY DEF ViewWindowInit
<1>2. QED
  BY <1>1 DEF PipelinesInv, SwapchainFollows, PipelinesFollow, DecidedStands

LEMMA PipelinesNextInv == PipelinesInv /\ [ViewWindowNext]_viewWindowVars => PipelinesInv'
<1> SUFFICES ASSUME PipelinesInv, [ViewWindowNext]_viewWindowVars
             PROVE  PipelinesInv'
  OBVIOUS
<1> USE DEF PipelinesInv, SwapchainFollows, PipelinesFollow, DecidedStands
<1>1. CASE Configure \/ PreferredScale
  BY <1>1 DEF Configure, PreferredScale
<1>2. CASE Compare
  <2>1. decided'.hdr = (m_hdr # m_prevHdr)
    BY <1>2, NothingIsNoHdr DEF Compare
  <2>2. UNCHANGED <<m_hdr, m_prevHdr, swapchain, pipelines, raced>> /\ rendering # "invoke"
    BY <1>2 DEF Compare, windowVars, Idle
  <2>3. QED
    BY <2>1, <2>2
<1>3. CASE Apply
  <2>1. /\ rendering = "apply" /\ rendering' = "invoke"
        /\ m_prevHdr' = m_hdr /\ swapchain'.hdr = m_hdr
        /\ UNCHANGED <<decided, pipelines, raced>>
    BY <1>3 DEF Apply
  <2>2. ~raced => decided.hdr \/ m_hdr = m_prevHdr
    BY <2>1
  <2>3. ~raced => pipelines = m_prevHdr
    BY <2>1
  <2>4. QED
    BY <2>1, <2>2, <2>3
<1>4. CASE InvokeListener
  <2>1. /\ rendering = "invoke" /\ rendering' = "draw"
        /\ UNCHANGED <<m_prevHdr, swapchain>>
        /\ IF decided.hdr THEN pipelines' = swapchain.hdr /\ raced' = FALSE
                          ELSE UNCHANGED <<pipelines, raced>>
    BY <1>4 DEF InvokeListener, Invoke, windowVars
  <2>2. QED
    BY <2>1
<1>5. CASE DrawFrame
  BY <1>5 DEF DrawFrame, windowVars
<1>6. CASE KeyFit \/ KeyLevel \/ Pan \/ Zoom
  <2>1. UNCHANGED <<windowVars, pipelines, rendering, decided, raced>>
    BY <1>6 DEF KeyFit, KeyLevel, Pan, Zoom, Moved, Placed
  <2>2. QED
    BY <2>1 DEF windowVars
<1>7. CASE KeyFitWindow
  BY <1>7 DEF KeyFitWindow
<1>8. CASE ReplaceTexture
  BY <1>8 DEF ReplaceTexture, windowVars
<1>9. CASE EnableHdr
  <2>1. /\ UNCHANGED <<m_prevHdr, swapchain, pipelines, rendering, decided>>
        /\ raced' = (raced \/ (m_hdr' # m_hdr /\ rendering = "apply"))
    BY <1>9 DEF EnableHdr
  <2>2. QED
    BY <2>1
<1>10. CASE UNCHANGED viewWindowVars
  BY <1>10 DEF viewWindowVars, windowVars
<1>11. QED
  BY <1>1, <1>2, <1>3, <1>4, <1>5, <1>6, <1>7, <1>8, <1>9, <1>10 DEF ViewWindowNext

\* Whatever resizes, changes of scale and new images come between and inside
\* the calls of Update, a frame is drawn by pipelines of the swapchain's format
\* unless EnableHdr came in the middle of one.
THEOREM PipelinesCorrect == ViewWindowSpec => []PipelinesMatch
<1>1. PipelinesInv => PipelinesMatch
  BY DEF PipelinesInv, PipelinesFollow, PipelinesMatch, Drawing
<1>2. QED
  BY <1>1, PipelinesInitInv, PipelinesNextInv, PTL DEF ViewWindowSpec
-----------------------------------------------------------------------------
\* The size of the swapchain is the window's as Update has remembered it.
SizeFollows == swapchain.size = Times(m_windowExtent, m_prevScale)

\* The view differs from the swapchain only while a listener that tells it the
\* size is due, or after Shift+F has told it a size the window has not got.
ViewFollows ==
    estranged # "asked" =>
        \/ rendering = "invoke" /\ (decided.dpi \/ decided.resized)
        \/ m_viewExtent = swapchain.size

\* No event changes what Update has found of the size.
SizeStands ==
    rendering = "apply" => /\ decided.resized <=> m_staged # m_windowExtent
                           /\ decided.dpi <=> m_scale # m_prevScale

ViewInv == SizeFollows /\ ViewFollows /\ SizeStands

\* Every way of fitting, resizing and scaling the image tells the view the size.
LEMMA PlacesTellSize ==
    ASSUME NEW size
    PROVE  /\ \A picture : FitToExtent(picture, size) => m_viewExtent' = size
           /\ \A picture : FitToWindow(picture, size) => m_viewExtent' = size
           /\ \A scale, points : FitPixelPerfect(size, scale, points) => m_viewExtent' = size
           /\ \A scale : SetScale(scale, size) => m_viewExtent' = size
           /\ Resize(size) => m_viewExtent' = size
<1>1. \A picture : FitToExtent(picture, size) => m_viewExtent' = size
  BY DEF FitToExtent
<1>2. \A picture : FitToWindow(picture, size) => m_viewExtent' = size
  BY DEF FitToWindow
<1>3. \A scale, points : FitPixelPerfect(size, scale, points) => m_viewExtent' = size
  BY DEF FitPixelPerfect
<1>4. \A scale : SetScale(scale, size) => m_viewExtent' = size
  BY DEF SetScale
<1>5. Resize(size) => m_viewExtent' = size
  BY <1>1, <1>2 DEF Resize, ResizeUnfitted, placeVars
<1>6. QED
  BY <1>1, <1>2, <1>3, <1>4, <1>5

LEMMA ViewInitInv == ViewWindowInit => ViewInv
<1> SUFFICES ASSUME ViewWindowInit PROVE ViewInv
  OBVIOUS
<1>1. PICK size \in WindowSizes :
        m_windowExtent = size /\ swapchain.size = size /\ m_viewExtent = size
  BY DEF ViewWindowInit
<1>2. Times(size, 1) = size
  BY WindowSizesAssumption DEF Times
<1>3. m_prevScale = 1 /\ rendering = "idle"
  BY DEF ViewWindowInit
<1>4. QED
  BY <1>1, <1>2, <1>3 DEF ViewInv, SizeFollows, ViewFollows, SizeStands

LEMMA ViewNextInv == ViewInv /\ [ViewWindowNext]_viewWindowVars => ViewInv'
<1> SUFFICES ASSUME ViewInv, [ViewWindowNext]_viewWindowVars
             PROVE  ViewInv'
  OBVIOUS
<1> USE DEF ViewInv, SizeFollows, ViewFollows, SizeStands
<1>1. CASE Configure \/ PreferredScale
  BY <1>1 DEF Configure, PreferredScale, placeVars, Idle
<1>2. CASE Compare
  <2>1. /\ rendering = "idle" /\ rendering' # "invoke"
        /\ UNCHANGED <<m_staged, m_windowExtent, m_scale, m_prevScale, swapchain,
                       m_viewExtent, estranged>>
    BY <1>2 DEF Compare, windowVars, placeVars, Idle
  <2>2. /\ decided'.resized <=> m_staged # m_windowExtent
        /\ decided'.dpi <=> m_scale # m_prevScale
    BY <1>2 DEF Compare, Decision, Resized, DpiChange
  <2>3. QED
    BY <2>1, <2>2
<1>3. CASE Apply
  <2>1. /\ rendering = "apply" /\ rendering' = "invoke"
        /\ m_windowExtent' = m_staged /\ m_prevScale' = m_scale
        /\ swapchain'.size = Times(m_staged, m_scale)
        /\ UNCHANGED <<decided, m_viewExtent, estranged>>
    BY <1>3 DEF Apply, placeVars
  <2>2. decided.dpi \/ decided.resized \/ swapchain'.size = swapchain.size
    BY <2>1
  <2>3. QED
    BY <2>1, <2>2 DEF Times
<1>4. CASE InvokeListener
  <2>1. /\ rendering = "invoke" /\ rendering' = "draw"
        /\ UNCHANGED <<m_staged, m_windowExtent, m_scale, m_prevScale, swapchain>>
    BY <1>4 DEF InvokeListener, Invoke, windowVars
  <2>2. CASE decided.dpi
    BY <1>4, <2>1, <2>2, PlacesTellSize DEF InvokeListener, Invoke
  <2>3. CASE ~decided.dpi /\ decided.resized
    BY <1>4, <2>1, <2>3, PlacesTellSize DEF InvokeListener, Invoke
  <2>4. CASE ~decided.dpi /\ ~decided.resized
    <3>1. UNCHANGED <<m_viewExtent, estranged>>
      BY <1>4, <2>4 DEF InvokeListener, Invoke, placeVars
    <3>2. QED
      BY <2>1, <2>4, <3>1
  <2>5. QED
    BY <2>2, <2>3, <2>4
<1>5. CASE DrawFrame
  BY <1>5 DEF DrawFrame, windowVars, placeVars
<1>6. CASE KeyFit \/ KeyLevel
  <2>1. m_viewExtent' = swapchain.size
    BY <1>6, PlacesTellSize DEF KeyFit, KeyLevel
  <2>2. UNCHANGED <<windowVars, rendering, decided>>
    BY <1>6 DEF KeyFit, KeyLevel, Placed
  <2>3. QED
    BY <2>1, <2>2 DEF windowVars
<1>7. CASE Pan \/ Zoom
  <2>1. /\ UNCHANGED <<windowVars, m_viewExtent, rendering, decided>>
        /\ estranged' = IF estranged = "scaled" THEN "no" ELSE estranged
    BY <1>7 DEF Pan, Zoom, Moved, Placed
  <2>2. QED
    BY <2>1 DEF windowVars
<1>8. CASE KeyFitWindow
  <2>1. /\ m_viewExtent' = Wanted
        /\ estranged' = IF Wanted = swapchain.size THEN "no" ELSE "asked"
        /\ rendering = "idle"
        /\ UNCHANGED <<m_windowExtent, m_prevScale, swapchain, rendering>>
    BY <1>8, PlacesTellSize DEF KeyFitWindow, Idle
  <2>2. QED
    BY <2>1
<1>9. CASE ReplaceTexture
  <2>1. /\ UNCHANGED <<windowVars, m_viewExtent, rendering, decided>>
        /\ estranged' = IF estranged = "scaled" THEN "no" ELSE estranged
    BY <1>9, PlacesTellSize DEF ReplaceTexture
  <2>2. QED
    BY <2>1 DEF windowVars
<1>10. CASE EnableHdr
  BY <1>10 DEF EnableHdr, placeVars
<1>11. CASE UNCHANGED viewWindowVars
  BY <1>11 DEF viewWindowVars, windowVars, placeVars
<1>12. QED
  BY <1>1, <1>2, <1>3, <1>4, <1>5, <1>6, <1>7, <1>8, <1>9, <1>10, <1>11 DEF ViewWindowNext

\* When a frame is drawn the view knows the size of what it draws on, unless
\* Shift+F has told it one that the window has not got.
THEOREM ViewCorrect == ViewWindowSpec => []ViewKnowsWindow
<1>1. ViewInv => ViewKnowsWindow
  BY DEF ViewInv, ViewFollows, ViewKnowsWindow, Drawing
<1>2. QED
  BY <1>1, ViewInitInv, ViewNextInv, PTL DEF ViewWindowSpec

-----------------------------------------------------------------------------
(* The place of the image.                                                  *)

\* The product of two numbers is a number.
LEMMA Product ==
    ASSUME NEW a \in Nat, NEW b \in Nat
    PROVE  a * b \in Nat
OBVIOUS

\* A number has one quotient and one remainder.
LEMMA DivMod ==
    ASSUME NEW w \in Nat \ {0}, NEW q \in Nat, NEW r \in Nat, r < w, NEW n, n = w * q + r
    PROVE  n \div w = q /\ n % w = r
<1> DEFINE q2 == n \div w
           r2 == n % w
<1>1. n \in Nat /\ w * q \in Nat
  BY Product
<1>2. n = w * q + r
  OBVIOUS
<1>3. q2 \in Nat /\ r2 \in Nat /\ r2 < w /\ n = w * q2 + r2
  BY <1>1
<1> HIDE DEF q2, r2
<1>4. \A k \in Nat \ {0} : w * k >= w
  OBVIOUS
<1>5. ~(q2 < q)
  <2> SUFFICES ASSUME q2 < q PROVE FALSE
    OBVIOUS
  <2>1. q - q2 \in Nat \ {0} /\ w * (q - q2) = w * q - w * q2
    BY <1>3
  <2>2. w * q - w * q2 >= w
    BY <1>4, <2>1
  <2> QED
    BY <1>1, <1>2, <1>3, <2>2
<1>6. ~(q < q2)
  <2> SUFFICES ASSUME q < q2 PROVE FALSE
    OBVIOUS
  <2>1. q2 - q \in Nat \ {0} /\ w * (q2 - q) = w * q2 - w * q
    BY <1>3
  <2>2. w * q2 - w * q >= w
    BY <1>4, <2>1
  <2> QED
    BY <1>1, <1>2, <1>3, <2>2
<1>7. q2 = q
  BY <1>3, <1>5, <1>6
<1>8. r2 = r
  BY <1>2, <1>3, <1>7
<1> QED
  BY <1>7, <1>8 DEF q2, r2

\* What the quotient and the remainder are.
LEMMA Division ==
    ASSUME NEW w \in Nat \ {0}, NEW n \in Nat
    PROVE  n \div w \in Nat /\ n % w \in Nat /\ n % w < w /\ n = w * (n \div w) + (n % w)
OBVIOUS

IsSize(size) == size[1] \in Nat /\ size[2] \in Nat

\* The image is where it belongs in a view of this size.
PlacedIn(size, picture, scale, origin, mode) ==
    IF mode = "None"
      THEN origin <= Middle(size) /\ Middle(size) <= origin + Drawn(picture, scale)
      ELSE /\ 2 * origin + Drawn(picture, scale) = 2 * Middle(size)
           /\ scale <= WholeScale(picture, size)

PlaceTypes ==
    /\ IsSize(m_staged) /\ IsSize(m_windowExtent) /\ IsSize(m_viewExtent)
    /\ m_scale \in Scales /\ m_prevScale \in Scales /\ m_viewScale \in Scales
    /\ m_image \in Pictures \cup {NoImage} /\ m_fitMode \in {"None", "TooSmall", "Always"}
    /\ HasImage => m_imgScale \in Nat /\ m_imgOrigin \in Int

\* The view has the scale of the window, but for a listener that is due.
ScaleFollows ==
    /\ (rendering = "invoke" /\ decided.dpi) \/ m_viewScale = m_prevScale
    /\ rendering = "invoke" => m_scale = m_prevScale
    /\ rendering = "invoke" /\ decided.dpi /\ ~decided.resized /\ estranged # "asked" =>
          m_viewExtent = Times(m_windowExtent, m_viewScale)

\* The image is placed in what the view takes for the window.
ImagePlaced ==
    HasImage /\ estranged # "scaled" => PlacedIn(m_viewExtent, m_image, m_imgScale, m_imgOrigin, m_fitMode)

PlaceInv == PlaceTypes /\ ScaleFollows /\ ImagePlaced

\* The quotient is the greatest number whose product fits.
LEMMA QuotientFits ==
    ASSUME NEW a \in Nat, NEW d \in Nat \ {0}, NEW k \in Nat
    PROVE  /\ a \div d \in Nat
           /\ k <= a \div d <=> k * d <= a
<1> DEFINE q == a \div d
           r == a % d
<1>1. q \in Nat /\ r \in Nat /\ r < d /\ a = d * q + r
  BY Division
<1> HIDE DEF q, r
<1>2. ASSUME k <= q PROVE k * d <= a
  <2>1. q - k \in Nat /\ q = k + (q - k)
    BY <1>1, <1>2
  <2>2. d * q = k * d + d * (q - k) /\ d * (q - k) \in Nat /\ k * d \in Nat
    BY <1>1, <2>1, Product
  <2> QED
    BY <1>1, <2>2
<1>3. ASSUME ~(k <= q) PROVE ~(k * d <= a)
  <2>1. k - (q + 1) \in Nat /\ k = (q + 1) + (k - (q + 1))
    BY <1>1, <1>3
  <2>2. k * d = d * q + d + d * (k - (q + 1)) /\ d * (k - (q + 1)) \in Nat /\ k * d \in Nat /\ d * q \in Nat
    BY <1>1, <2>1, Product
  <2> QED
    BY <1>1, <2>2
<1> QED
  BY <1>1, <1>2, <1>3 DEF q

LEMMA PicturesHaveSizes ==
    ASSUME NEW picture \in Pictures
    PROVE  picture[1] \in Nat \ {0} /\ picture[2] \in Nat \ {0} /\ picture # NoImage
<1>1. picture \in (Nat \ {0}) \X (Nat \ {0}) \X BOOLEAN
  BY ImagesAssumption
<1>2. picture[1] \in Nat \ {0} /\ picture[2] \in Nat \ {0}
  BY <1>1
<1>3. NoImage[1] = 0
  BY DEF NoImage
<1> QED
  BY <1>2, <1>3

\* The scale at which the image just fits.
LEMMA WholeScaleFits ==
    ASSUME NEW picture \in Pictures, NEW size, IsSize(size), NEW k \in Nat
    PROVE  /\ WholeScale(picture, size) \in Nat
           /\ k <= WholeScale(picture, size) <=> k * picture[1] <= size[1] * One /\ k * picture[2] <= size[2] * One
<1> DEFINE a == size[1] * One
           b == size[2] * One
           p == a \div picture[1]
           q == b \div picture[2]
<1>1. a \in Nat /\ b \in Nat
  BY DEF IsSize, One
<1>2. picture[1] \in Nat \ {0} /\ picture[2] \in Nat \ {0}
  BY PicturesHaveSizes
<1> HIDE DEF a, b
<1>3. /\ p \in Nat /\ (k <= p <=> k * picture[1] <= a)
      /\ q \in Nat /\ (k <= q <=> k * picture[2] <= b)
  BY <1>1, <1>2, QuotientFits
<1>4. WholeScale(picture, size) = Smaller(p, q)
  BY DEF WholeScale, a, b
<1> HIDE DEF p, q
<1>5. Smaller(p, q) \in Nat /\ (k <= Smaller(p, q) <=> k <= p /\ k <= q)
  BY <1>3 DEF Smaller
<1> QED
  BY <1>3, <1>4, <1>5 DEF a, b

\* Where a scale puts the middle.
LEMMA CentredFacts ==
    ASSUME NEW picture \in Pictures, NEW size, IsSize(size), NEW scale \in Nat
    PROVE  /\ Middle(size) \in Nat /\ Drawn(picture, scale) \in Nat /\ Drawn(picture, scale) = 2 * (picture[1] * scale)
           /\ picture[1] * scale \in Nat
           /\ CentredAt(picture, size, scale) = Middle(size) - picture[1] * scale
<1>1. picture[1] \in Nat
  BY PicturesHaveSizes
<1> DEFINE p == picture[1] * scale
<1>2. p \in Nat
  BY <1>1, Product
<1>3. Drawn(picture, scale) = p * 2
  BY DEF Drawn
<1>4. Middle(size) \in Nat
  BY DEF Middle, IsSize, One
<1> HIDE DEF p
<1>5. (p * 2) \div 2 = p
  BY <1>2
<1> QED
  BY <1>2, <1>3, <1>4, <1>5 DEF CentredAt, p

\* Fitting places the image.
LEMMA FittingPlaces ==
    ASSUME NEW picture \in Pictures, NEW size, IsSize(size)
    PROVE  /\ FitToExtent(picture, size) =>
                 m_imgScale' \in Nat /\ m_imgOrigin' \in Int /\ PlacedIn(size, picture, m_imgScale', m_imgOrigin', m_fitMode')
           /\ FitToWindow(picture, size) =>
                 m_imgScale' \in Nat /\ m_imgOrigin' \in Int /\ PlacedIn(size, picture, m_imgScale', m_imgOrigin', m_fitMode')
<1>1. ASSUME NEW scale \in Nat, scale <= WholeScale(picture, size), NEW mode, mode # "None",
             NEW origin, origin = CentredAt(picture, size, scale)
      PROVE  origin \in Int /\ PlacedIn(size, picture, scale, origin, mode)
  <2>1. /\ Middle(size) \in Nat /\ Drawn(picture, scale) = 2 * (picture[1] * scale)
        /\ picture[1] * scale \in Nat /\ origin = Middle(size) - picture[1] * scale
    BY <1>1, CentredFacts
  <2> DEFINE p == picture[1] * scale
  <2>2. p \in Nat /\ Drawn(picture, scale) = 2 * p /\ origin = Middle(size) - p
    BY <2>1
  <2> HIDE DEF p
  <2> QED
    BY <1>1, <2>1, <2>2 DEF PlacedIn
<1>2. WholeScale(picture, size) \in Nat /\ WholeScale(picture, size) <= WholeScale(picture, size)
  BY WholeScaleFits
<1>3. Fits(picture, size) => One <= WholeScale(picture, size)
  <2> SUFFICES ASSUME Fits(picture, size) PROVE One <= WholeScale(picture, size)
    OBVIOUS
  <2>1. One * picture[1] <= size[1] * One /\ One * picture[2] <= size[2] * One /\ One \in Nat
    BY PicturesHaveSizes DEF Fits, IsSize, One
  <2> QED
    BY <2>1, WholeScaleFits
<1>4. ASSUME FitToExtent(picture, size)
      PROVE  m_imgScale' \in Nat /\ m_imgOrigin' \in Int /\ PlacedIn(size, picture, m_imgScale', m_imgOrigin', m_fitMode')
  <2>1. /\ m_imgScale' = IF Fits(picture, size) THEN One ELSE WholeScale(picture, size)
        /\ m_fitMode' = "TooSmall" /\ m_imgOrigin' = CentredAt(picture, size, m_imgScale')
    BY <1>4 DEF FitToExtent
  <2>2. m_imgScale' \in Nat /\ m_imgScale' <= WholeScale(picture, size)
    BY <1>2, <1>3, <2>1 DEF One
  <2> QED
    BY <1>1, <2>1, <2>2
<1>5. ASSUME FitToWindow(picture, size)
      PROVE  m_imgScale' \in Nat /\ m_imgOrigin' \in Int /\ PlacedIn(size, picture, m_imgScale', m_imgOrigin', m_fitMode')
  <2>1. /\ m_imgScale' = WholeScale(picture, size)
        /\ m_fitMode' = "Always" /\ m_imgOrigin' = CentredAt(picture, size, m_imgScale')
    BY <1>5 DEF FitToWindow
  <2> QED
    BY <1>1, <1>2, <2>1
<1> QED
  BY <1>4, <1>5

\* Clamping places the image.
LEMMA ClampingPlaces ==
    ASSUME m_image \in Pictures, NEW size, IsSize(size), NEW scale \in Nat, NEW from \in Int,
           NEW origin, origin = ClampImagePosition(from, size, scale)
    PROVE  origin \in Int /\ PlacedIn(size, m_image, scale, origin, "None")
<1> DEFINE middle == Middle(size)
           width == Drawn(m_image, scale)
<1>1. middle \in Nat /\ width \in Nat
  BY CentredFacts
<1>2. origin = Smaller(Larger(from, middle - width), middle)
  BY DEF ClampImagePosition, Bounded
<1> HIDE DEF middle, width
<1>3. origin \in Int /\ origin <= middle /\ middle <= origin + width
  BY <1>1, <1>2 DEF Smaller, Larger
<1> QED
  BY <1>3 DEF PlacedIn, middle, width

\* In every state that matters there is an image of Pictures, of a scale that is not zero.
LEMMA ImageFacts ==
    ASSUME PlaceTypes, HasImage
    PROVE  m_image \in Pictures /\ m_imgScale \in Nat /\ m_imgOrigin \in Int
BY DEF PlaceTypes, HasImage

\* A change of the window's scale by a factor n over d keeps the image in its place.
LEMMA ScalingPlaces ==
    ASSUME NEW picture \in Pictures, NEW extent, IsSize(extent), NEW n \in Scales, NEW d \in Scales,
           NEW scale \in Nat, d = 2 => scale % 2 = 0, NEW origin \in Int, NEW mode,
           PlacedIn(Times(extent, d), picture, scale, origin, mode)
    PROVE  /\ (scale * n) \div d \in Nat /\ (origin * n) \div d \in Int
           /\ PlacedIn(Times(extent, n), picture, (scale * n) \div d, (origin * n) \div d, mode)
<1>0. n \in {1, 2} /\ d \in {1, 2} /\ extent[1] \in Nat /\ extent[2] \in Nat /\ picture[1] \in Nat
  BY PicturesHaveSizes DEF Scales, IsSize
<1> DEFINE m == extent[1] * One
           t == (scale * n) \div d
           o == (origin * n) \div d
           p == picture[1] * scale
           r == picture[1] * t
<1>1. IsSize(Times(extent, n)) /\ IsSize(Times(extent, d)) /\ m \in Nat
  BY <1>0 DEF IsSize, Times, One
<1>2. Middle(Times(extent, n)) = m * n /\ Middle(Times(extent, d)) = m * d
  BY <1>0 DEF Middle, Times, One
<1>3. t \in Nat /\ t * d = scale * n
  BY <1>0
<1>4. o \in Int /\ (o * d <= origin * n) /\ (origin * n < o * d + d)
  BY <1>0
<1>5. Drawn(picture, scale) = 2 * p /\ Drawn(picture, t) = 2 * r /\ p \in Nat /\ r \in Nat
  BY <1>3, CentredFacts, <1>1
<1>6. r * d = p * n
  <2> DEFINE i == picture[1]
  <2>1. i \in Nat
    BY <1>0
  <2>2. p = i * scale /\ r = i * t
    OBVIOUS
  <2> HIDE DEF i, p, r, t
  <2>3. (i * t) * d = i * (t * d)
    BY <1>0, <1>3, <2>1
  <2>4. (i * scale) * n = i * (scale * n)
    BY <1>0, <2>1
  <2> QED
    BY <1>3, <2>2, <2>3, <2>4
<1> HIDE DEF m, t, o, p, r
<1>7. CASE mode = "None"
  <2>1. origin <= m * d /\ m * d <= origin + 2 * p
    BY <1>2, <1>5, <1>7 DEF PlacedIn
  <2>2. o <= m * n /\ m * n <= o + 2 * r
    BY <1>0, <1>1, <1>4, <1>5, <1>6, <2>1
  <2> QED
    BY <1>2, <1>3, <1>4, <1>5, <1>7, <2>2 DEF PlacedIn, t, o
<1>8. CASE mode # "None"
  <2>1. 2 * origin + 2 * p = 2 * (m * d) /\ scale <= WholeScale(picture, Times(extent, d))
    BY <1>2, <1>5, <1>8 DEF PlacedIn
  <2>2. 2 * o + 2 * r = 2 * (m * n)
    BY <1>0, <1>1, <1>4, <1>5, <1>6, <2>1
  <2>3. t <= WholeScale(picture, Times(extent, n))
    <3> DEFINE i == picture[1]
               j == picture[2]
               a == extent[1]
               b == extent[2]
    <3>1. scale * i <= (a * d) * One /\ scale * j <= (b * d) * One
      BY <1>1, <2>1, WholeScaleFits DEF Times
    <3>2. i \in Nat /\ j \in Nat /\ a \in Nat /\ b \in Nat
      BY <1>0, PicturesHaveSizes
    <3>3. /\ (t * i) * d = (scale * i) * n /\ (t * j) * d = (scale * j) * n
          /\ t * i \in Nat /\ t * j \in Nat /\ scale * i \in Nat /\ scale * j \in Nat
      <4> HIDE DEF i, j
      <4>1. (t * i) * d = (t * d) * i /\ (scale * i) * n = (scale * n) * i
        BY <1>0, <1>3, <3>2
      <4>2. (t * j) * d = (t * d) * j /\ (scale * j) * n = (scale * n) * j
        BY <1>0, <1>3, <3>2
      <4> QED
        BY <1>3, <3>2, <4>1, <4>2, Product
    <3> HIDE DEF i, j, a, b
    <3>4. t * i <= (a * n) * One /\ t * j <= (b * n) * One
      BY <1>0, <3>1, <3>2, <3>3 DEF One
    <3> QED
      BY <1>1, <1>3, <3>4, WholeScaleFits DEF Times, i, j, a, b
  <2> QED
    BY <1>2, <1>3, <1>4, <1>5, <1>8, <2>2, <2>3 DEF PlacedIn, t, o
<1> QED
  BY <1>7, <1>8

LEMMA PlaceInit == ViewWindowInit => PlaceInv
<1> SUFFICES ASSUME ViewWindowInit PROVE PlaceInv
  OBVIOUS
<1>1. PICK size \in WindowSizes : m_staged = size /\ m_windowExtent = size /\ m_viewExtent = size
  BY DEF ViewWindowInit
<1>2. IsSize(size)
  BY WindowSizesAssumption DEF IsSize
<1>3. /\ m_scale = 1 /\ m_prevScale = 1 /\ m_viewScale = 1 /\ m_image = NoImage
      /\ rendering = "idle" /\ m_fitMode = "TooSmall"
  BY DEF ViewWindowInit
<1> QED
  BY <1>1, <1>2, <1>3 DEF PlaceInv, PlaceTypes, ScaleFollows, ImagePlaced, HasImage, Scales

\* The swapchain has a size.
LEMMA SwapchainHasSize ==
    ASSUME PlaceInv, ViewInv
    PROVE  IsSize(swapchain.size)
BY DEF PlaceInv, PlaceTypes, ViewInv, SizeFollows, IsSize, Times, Scales

\* Where the image comes when the scale changes about a point is a place.
LEMMA AboutIsPlace ==
    ASSUME PlaceTypes, UnitsSuffice, HasImage, NEW p \in Int, NEW scale \in Nat
    PROVE  About(p, scale) \in Int
<1>1. m_imgOrigin \in Int /\ m_imgScale \in Nat \ {0}
  BY ImageFacts DEF UnitsSuffice
<1> DEFINE moved == (m_imgOrigin - p) * scale
<1>2. moved \in Int
  BY <1>1
<1> HIDE DEF moved
<1>3. moved \div m_imgScale \in Int
  BY <1>1, <1>2
<1> QED
  BY <1>3 DEF About, moved

LEMMA PlaceEvents ==
    ASSUME PlaceInv, Configure \/ PreferredScale \/ Compare \/ DrawFrame \/ EnableHdr
    PROVE  PlaceInv'
<1> USE DEF PlaceInv, PlaceTypes, ScaleFollows, ImagePlaced, HasImage, placeVars, windowVars, Idle
<1>1. CASE Configure
  <2>1. IsSize(m_staged')
    BY <1>1, WindowSizesAssumption DEF Configure, IsSize
  <2> QED
    BY <1>1, <2>1 DEF Configure
<1>2. CASE PreferredScale
  BY <1>2 DEF PreferredScale
<1>3. CASE Compare
  <2>1. rendering' # "invoke" /\ rendering = "idle"
    BY <1>3 DEF Compare
  <2> QED
    BY <1>3, <2>1 DEF Compare
<1>4. CASE DrawFrame
  BY <1>4 DEF DrawFrame
<1>5. CASE EnableHdr
  BY <1>5 DEF EnableHdr
<1> QED
  BY <1>1, <1>2, <1>3, <1>4, <1>5

LEMMA PlaceApply ==
    ASSUME PlaceInv, ViewInv, Apply
    PROVE  PlaceInv'
<1>1. /\ rendering = "apply" /\ rendering' = "invoke"
      /\ m_windowExtent' = m_staged /\ m_prevScale' = m_scale
      /\ UNCHANGED <<m_staged, m_scale, decided, m_image, m_viewExtent, m_viewScale, m_fitMode,
                     m_imgOrigin, m_imgScale, estranged>>
  BY DEF Apply, placeVars
<1>2. m_viewScale = m_prevScale
  BY <1>1 DEF PlaceInv, ScaleFollows
<1>3. PlaceTypes'
  BY <1>1 DEF PlaceInv, PlaceTypes, HasImage
<1>4. ImagePlaced'
  BY <1>1 DEF PlaceInv, ImagePlaced, HasImage
<1>5. /\ decided.resized <=> m_staged # m_windowExtent
      /\ decided.dpi <=> m_scale # m_prevScale
  BY <1>1 DEF ViewInv, SizeStands
<1>6. estranged # "asked" => m_viewExtent = Times(m_windowExtent, m_prevScale)
  BY <1>1 DEF ViewInv, ViewFollows, SizeFollows
<1>7. ScaleFollows'
  BY <1>1, <1>2, <1>5, <1>6 DEF ScaleFollows
<1> QED
  BY <1>3, <1>4, <1>7 DEF PlaceInv

\* A listener that is told the scale.
LEMMA PlaceScaled ==
    ASSUME PlaceInv, ViewInv, UnitsSuffice, InvokeListener, decided.dpi
    PROVE  PlaceInv'
<1>1. /\ rendering = "invoke" /\ rendering' = "draw"
      /\ UNCHANGED <<m_staged, m_windowExtent, m_scale, m_prevScale, m_image>>
      /\ SetScale(m_scale, swapchain.size)
      /\ estranged' = IF decided.resized \/ estranged = "asked" THEN "scaled" ELSE estranged
  BY DEF InvokeListener, Invoke, windowVars
<1>2. /\ m_viewScale' = m_scale /\ m_viewExtent' = swapchain.size /\ m_fitMode' = m_fitMode
      /\ HasImage => /\ m_imgOrigin' = (m_imgOrigin * m_scale) \div m_viewScale
                     /\ m_imgScale' = (m_imgScale * m_scale) \div m_viewScale
  BY <1>1 DEF SetScale
<1>3. m_scale \in Scales /\ m_viewScale \in Scales /\ m_scale = m_prevScale /\ IsSize(m_windowExtent)
  BY <1>1 DEF PlaceInv, PlaceTypes, ScaleFollows
<1>4. HasImage => m_imgScale' \in Nat /\ m_imgOrigin' \in Int
  <2> SUFFICES ASSUME HasImage PROVE m_imgScale' \in Nat /\ m_imgOrigin' \in Int
    OBVIOUS
  <2>1. m_imgScale \in Nat /\ m_imgOrigin \in Int
    BY ImageFacts DEF PlaceInv
  <2> QED
    BY <1>2, <1>3, <2>1 DEF Scales
<1>5. PlaceTypes'
  BY <1>1, <1>2, <1>3, <1>4, SwapchainHasSize DEF PlaceInv, PlaceTypes, HasImage
<1>6. ScaleFollows'
  BY <1>1, <1>2, <1>3 DEF ScaleFollows
<1>7. ASSUME HasImage, estranged' # "scaled"
      PROVE  PlacedIn(m_viewExtent', m_image, m_imgScale', m_imgOrigin', m_fitMode')
  <2>1. ~decided.resized /\ estranged # "asked" /\ estranged # "scaled"
    BY <1>1, <1>7
  <2>2. m_viewExtent = Times(m_windowExtent, m_viewScale)
    BY <1>1, <2>1 DEF PlaceInv, ScaleFollows
  <2>3. PlacedIn(Times(m_windowExtent, m_viewScale), m_image, m_imgScale, m_imgOrigin, m_fitMode)
    BY <1>7, <2>1, <2>2 DEF PlaceInv, ImagePlaced
  <2>4. m_image \in Pictures /\ m_imgScale \in Nat /\ m_imgOrigin \in Int
    BY <1>7, ImageFacts DEF PlaceInv
  <2>5. m_viewScale = 2 => m_imgScale % 2 = 0
    BY <1>7 DEF UnitsSuffice
  <2>6. PlacedIn(Times(m_windowExtent, m_scale), m_image, (m_imgScale * m_scale) \div m_viewScale,
                 (m_imgOrigin * m_scale) \div m_viewScale, m_fitMode)
    BY <1>3, <2>3, <2>4, <2>5, ScalingPlaces
  <2>7. swapchain.size = Times(m_windowExtent, m_scale)
    BY <1>3 DEF ViewInv, SizeFollows
  <2> QED
    BY <1>2, <1>7, <2>6, <2>7
<1>8. ImagePlaced'
  BY <1>1, <1>7 DEF ImagePlaced, HasImage
<1> QED
  BY <1>5, <1>6, <1>8 DEF PlaceInv

\* Resizing moves an image that is placed, or places it anew.
LEMMA ResizingPlaces ==
    ASSUME PlaceTypes, HasImage, NEW size, IsSize(size), Resize(size)
    PROVE  /\ m_imgScale' \in Nat /\ m_imgOrigin' \in Int
           /\ \/ m_viewExtent # size /\ m_fitMode # "None"
              \/ PlacedIn(m_viewExtent, m_image, m_imgScale, m_imgOrigin, m_fitMode)
              => PlacedIn(size, m_image, m_imgScale', m_imgOrigin', m_fitMode')
<1>1. m_image \in Pictures /\ m_imgScale \in Nat /\ m_imgOrigin \in Int /\ IsSize(m_viewExtent)
  BY ImageFacts DEF PlaceTypes
<1>2. CASE size = m_viewExtent
  BY <1>1, <1>2 DEF Resize, placeVars
<1>3. CASE size # m_viewExtent /\ m_fitMode = "TooSmall"
  BY <1>1, <1>3, FittingPlaces DEF Resize
<1>4. CASE size # m_viewExtent /\ m_fitMode = "Always"
  BY <1>1, <1>4, FittingPlaces DEF Resize
<1>5. CASE size # m_viewExtent /\ m_fitMode = "None"
  <2>1. /\ m_imgOrigin' = m_imgOrigin + Middle(size) - Middle(m_viewExtent)
        /\ m_imgScale' = m_imgScale /\ m_fitMode' = m_fitMode
    BY <1>5 DEF Resize, ResizeUnfitted
  <2>2. Middle(size) \in Nat /\ Middle(m_viewExtent) \in Nat /\ Drawn(m_image, m_imgScale) \in Nat
    BY <1>1, CentredFacts
  <2>3. m_imgScale' \in Nat /\ m_imgOrigin' \in Int
    BY <1>1, <2>1, <2>2
  <2>4. PlacedIn(m_viewExtent, m_image, m_imgScale, m_imgOrigin, m_fitMode)
        => PlacedIn(size, m_image, m_imgScale', m_imgOrigin', m_fitMode')
    BY <1>1, <1>5, <2>1, <2>2 DEF PlacedIn
  <2> QED
    BY <1>5, <2>3, <2>4
<1>6. m_fitMode \in {"None", "TooSmall", "Always"}
  BY DEF PlaceTypes
<1> QED
  BY <1>2, <1>3, <1>4, <1>5, <1>6

\* A listener that is told the size, or nothing.
LEMMA PlaceResized ==
    ASSUME PlaceInv, ViewInv, InvokeListener, ~decided.dpi
    PROVE  PlaceInv'
<1>1. /\ rendering = "invoke" /\ rendering' = "draw"
      /\ UNCHANGED <<m_staged, m_windowExtent, m_scale, m_prevScale, m_image>>
      /\ m_viewScale = m_prevScale
  BY DEF InvokeListener, Invoke, windowVars, PlaceInv, ScaleFollows
<1>2. CASE ~decided.resized
  <2>1. UNCHANGED <<m_viewExtent, m_viewScale, m_fitMode, m_imgOrigin, m_imgScale, estranged>>
    BY <1>2 DEF InvokeListener, Invoke, placeVars
  <2> QED
    BY <1>1, <2>1 DEF PlaceInv, PlaceTypes, ScaleFollows, ImagePlaced, HasImage
<1>3. CASE decided.resized
  <2>1. /\ Resize(swapchain.size)
        /\ estranged' = IF (m_fitMode # "None" /\ m_viewExtent # swapchain.size) \/ estranged = "asked"
                          THEN "no" ELSE estranged
    BY <1>3 DEF InvokeListener, Invoke
  <2>2. IsSize(swapchain.size)
    BY SwapchainHasSize
  <2>3. m_viewExtent' = swapchain.size
    BY <2>1, PlacesTellSize
  <2>4. m_viewScale' = m_viewScale /\ m_fitMode' \in {"None", "TooSmall", "Always"}
    BY <2>1 DEF Resize, ResizeUnfitted, FitToExtent, FitToWindow, placeVars, PlaceInv, PlaceTypes
  <2>5. HasImage => m_imgScale' \in Nat /\ m_imgOrigin' \in Int
    BY <2>1, <2>2, ResizingPlaces DEF PlaceInv
  <2>6. PlaceTypes'
    BY <1>1, <2>2, <2>3, <2>4, <2>5 DEF PlaceInv, PlaceTypes, HasImage
  <2>7. ScaleFollows'
    BY <1>1, <2>4 DEF ScaleFollows
  <2>8. ASSUME HasImage, estranged' # "scaled"
        PROVE  PlacedIn(m_viewExtent', m_image, m_imgScale', m_imgOrigin', m_fitMode')
    <3>1. \/ m_viewExtent # swapchain.size /\ m_fitMode # "None"
          \/ PlacedIn(m_viewExtent, m_image, m_imgScale, m_imgOrigin, m_fitMode)
      BY <2>1, <2>8 DEF PlaceInv, ImagePlaced
    <3> QED
      BY <2>1, <2>2, <2>3, <2>8, <3>1, ResizingPlaces DEF PlaceInv
  <2>9. ImagePlaced'
    BY <1>1, <2>8 DEF ImagePlaced, HasImage
  <2> QED
    BY <2>6, <2>7, <2>9 DEF PlaceInv
<1> QED
  BY <1>2, <1>3

\* A key that fits the image, or a new one.
LEMMA PlaceFitted ==
    ASSUME PlaceInv, NEW size, IsSize(size), m_image' \in Pictures,
           FitToExtent(m_image', size) \/ FitToWindow(m_image', size),
           IsSize(m_staged'), rendering # "invoke" \/ (size = m_viewExtent /\ (estranged' = "asked" <=> estranged = "asked")),
           UNCHANGED <<m_windowExtent, m_scale, m_prevScale, rendering, decided>>
    PROVE  PlaceInv'
<1>1. /\ m_imgScale' \in Nat /\ m_imgOrigin' \in Int
      /\ PlacedIn(size, m_image', m_imgScale', m_imgOrigin', m_fitMode')
  BY FittingPlaces
<1>2. m_viewExtent' = size /\ m_viewScale' = m_viewScale /\ m_fitMode' \in {"None", "TooSmall", "Always"}
  BY DEF FitToExtent, FitToWindow
<1>3. PlaceTypes'
  BY <1>1, <1>2 DEF PlaceInv, PlaceTypes, HasImage
<1>4. ScaleFollows'
  BY <1>2 DEF PlaceInv, ScaleFollows
<1> QED
  BY <1>1, <1>2, <1>3, <1>4 DEF PlaceInv, ImagePlaced

\* What Shift+F wants the window to be is a size, and so is what it asks for.
LEMMA WantedIsSize ==
    ASSUME PlaceInv, HasImage
    PROVE  IsSize(Wanted) /\ IsSize(<<CeilDiv(Wanted[1], m_scale), CeilDiv(Wanted[2], m_scale)>>)
<1>1. m_image \in Pictures /\ m_scale \in {1, 2}
  BY ImageFacts DEF PlaceInv, PlaceTypes, Scales
<1> DEFINE bounds == Times(Bounds, m_scale)
           scale == WholeScale(m_image, bounds)
           whole(i) == IF Fits(m_image, bounds) THEN m_image[i] ELSE (m_image[i] * scale) \div One
<1>2. IsSize(bounds)
  BY <1>1, WantedAssumption DEF IsSize, Times
<1>3. scale \in Nat
  BY <1>1, <1>2, WholeScaleFits
<1>4. m_image[1] \in Nat /\ m_image[2] \in Nat
  BY <1>1, PicturesHaveSizes
<1>5. m_image[1] * scale \in Nat /\ m_image[2] * scale \in Nat
  <2> HIDE DEF scale
  <2> QED
    BY <1>3, <1>4, Product
<1>6. ASSUME NEW n \in Nat PROVE n \div One \in Nat
  BY DEF One
<1>7. whole(1) \in Nat /\ whole(2) \in Nat
  BY <1>4, <1>5, <1>6
<1>8. Wanted = [i \in 1 .. 2 |-> Larger(whole(i), LeastWindow * m_scale)]
  BY DEF Wanted
<1> HIDE DEF whole
<1>9. LeastWindow * m_scale \in Nat
  BY <1>1, WantedAssumption
<1>10. Wanted[1] \in Nat /\ Wanted[2] \in Nat
  BY <1>7, <1>8, <1>9 DEF Larger
<1>11. CeilDiv(Wanted[1], m_scale) \in Nat /\ CeilDiv(Wanted[2], m_scale) \in Nat
  BY <1>1, <1>10 DEF CeilDiv
<1> QED
  BY <1>10, <1>11 DEF IsSize

\* A level that a key asks for, about the middle or a point.
LEMMA PlaceLevel ==
    ASSUME PlaceInv, ViewInv, UnitsSuffice, KeyLevel
    PROVE  PlaceInv'
<1>1. /\ HasImage /\ rendering = "idle"
      /\ UNCHANGED <<m_staged, m_windowExtent, m_scale, m_prevScale, m_image, rendering, decided>>
  BY DEF KeyLevel, Placed, windowVars, Idle
<1> DEFINE size == swapchain.size
<1>2. PICK level \in Levels, points \in {{}, Points} : FitPixelPerfect(size, level * One, points)
  BY DEF KeyLevel
<1> DEFINE scale == level * One
<1>3. scale \in Nat
  BY <1>2, InputAssumption DEF One
<1>4. IsSize(size)
  BY SwapchainHasSize
<1> HIDE DEF size, scale
<1>5. /\ m_fitMode' = "None" /\ m_viewExtent' = size /\ m_imgScale' = scale /\ m_viewScale' = m_viewScale
  BY <1>2 DEF FitPixelPerfect, scale
<1>6. m_image \in Pictures
  BY <1>1, ImageFacts DEF PlaceInv
<1>7. m_imgOrigin' \in Int /\ PlacedIn(size, m_image, scale, m_imgOrigin', "None")
  <2>1. CASE points = {}
    <3>1. m_imgOrigin' = CentredAt(m_image, size, scale)
      BY <1>2, <2>1 DEF FitPixelPerfect, scale
    <3> DEFINE p == m_image[1] * scale
               middle == Middle(size)
    <3>2. /\ middle \in Nat /\ Drawn(m_image, scale) = 2 * p /\ p \in Nat
          /\ m_imgOrigin' = middle - p
      BY <1>3, <1>4, <1>6, <3>1, CentredFacts
    <3> HIDE DEF p, middle
    <3>3. m_imgOrigin' \in Int /\ m_imgOrigin' <= middle /\ middle <= m_imgOrigin' + 2 * p
      BY <3>2
    <3> QED
      BY <3>2, <3>3 DEF PlacedIn, middle
  <2>2. CASE points # {}
    <3>1. PICK p \in Points : m_imgOrigin' = ClampImagePosition(About(p, scale), size, scale)
      BY <1>2, <2>2 DEF FitPixelPerfect, scale
    <3>2. About(p, scale) \in Int
      BY <1>1, <1>3, <3>1, InputAssumption, AboutIsPlace DEF PlaceInv
    <3> QED
      BY <1>3, <1>4, <1>6, <3>1, <3>2, ClampingPlaces
  <2> QED
    BY <2>1, <2>2
<1>8. PlaceTypes'
  BY <1>1, <1>3, <1>4, <1>5, <1>7 DEF PlaceInv, PlaceTypes, HasImage
<1>9. ScaleFollows'
  BY <1>1, <1>5 DEF PlaceInv, ScaleFollows
<1> QED
  BY <1>1, <1>5, <1>7, <1>8, <1>9 DEF PlaceInv, ImagePlaced

\* What panning and zooming have in common.
LEMMA PlaceMoved ==
    ASSUME PlaceInv, HasImage, Idle, NEW from \in Int, NEW scale \in Nat, Moved(from, scale)
    PROVE  PlaceInv'
<1>1. /\ UNCHANGED <<m_staged, m_windowExtent, m_scale, m_prevScale, m_image, rendering, decided,
                     m_viewExtent, m_viewScale>>
      /\ m_fitMode' = "None" /\ m_imgScale' = scale /\ rendering = "idle"
      /\ m_imgOrigin' = ClampImagePosition(from, m_viewExtent, scale)
  BY DEF Moved, Placed, windowVars, Idle
<1>2. m_image \in Pictures /\ IsSize(m_viewExtent)
  BY ImageFacts DEF PlaceInv, PlaceTypes
<1>3. m_imgOrigin' \in Int /\ PlacedIn(m_viewExtent, m_image, scale, m_imgOrigin', "None")
  BY <1>1, <1>2, ClampingPlaces
<1> QED
  BY <1>1, <1>3 DEF PlaceInv, PlaceTypes, ScaleFollows, ImagePlaced, HasImage

LEMMA PlaceZoom ==
    ASSUME PlaceInv, UnitsSuffice, Pan \/ Zoom
    PROVE  PlaceInv'
<1>1. HasImage /\ Idle /\ m_imgOrigin \in Int /\ m_imgScale \in Nat
  BY ImageFacts DEF Pan, Zoom, PlaceInv
<1>2. CASE Pan
  <2>1. PICK delta \in Deltas : Moved(m_imgOrigin + delta, m_imgScale)
    BY <1>2 DEF Pan
  <2>2. m_imgOrigin + delta \in Int
    BY <1>1, <2>1, InputAssumption
  <2> QED
    BY <1>1, <2>1, <2>2, PlaceMoved
<1>3. CASE Zoom
  <2>1. PICK p \in Points, scale \in {m_imgScale * 2, m_imgScale \div 2} :
          Moved(About(p, Bounded(scale, LeastZoom, MostZoom)), Bounded(scale, LeastZoom, MostZoom))
    BY <1>3 DEF Zoom
  <2> DEFINE clamped == Bounded(scale, LeastZoom, MostZoom)
  <2>2. clamped \in Nat
    BY <1>1, ZoomAssumption DEF Bounded, Smaller, Larger
  <2> HIDE DEF clamped
  <2>3. About(p, clamped) \in Int
    BY <1>1, <2>1, <2>2, InputAssumption, AboutIsPlace DEF PlaceInv
  <2>4. Moved(About(p, clamped), clamped)
    BY <2>1 DEF clamped
  <2> QED
    BY <1>1, <2>2, <2>3, <2>4, PlaceMoved
<1> QED
  BY <1>2, <1>3

LEMMA PlaceNext ==
    ASSUME PlaceInv, ViewInv, UnitsSuffice, [ViewWindowNext]_viewWindowVars
    PROVE  PlaceInv'
<1>1. CASE Configure \/ PreferredScale \/ Compare \/ DrawFrame \/ EnableHdr
  BY <1>1, PlaceEvents
<1>2. CASE Apply
  BY <1>2, PlaceApply
<1>3. CASE InvokeListener
  BY <1>3, PlaceScaled, PlaceResized
<1>4. CASE KeyFit
  <2>1. /\ HasImage /\ rendering = "idle"
        /\ FitToExtent(m_image, swapchain.size) \/ FitToWindow(m_image, swapchain.size)
        /\ UNCHANGED <<m_staged, m_windowExtent, m_scale, m_prevScale, m_image, rendering, decided>>
    BY <1>4 DEF KeyFit, Placed, windowVars, Idle
  <2>2. m_image \in Pictures /\ IsSize(m_staged)
    BY <2>1, ImageFacts DEF PlaceInv, PlaceTypes
  <2>3. m_image' \in Pictures /\ IsSize(m_staged') /\ m_image' = m_image
    BY <2>1, <2>2
  <2> QED
    BY <2>1, <2>3, SwapchainHasSize, PlaceFitted
<1>5. CASE KeyFitWindow
  <2>1. /\ HasImage /\ rendering = "idle" /\ FitToExtent(m_image, Wanted)
        /\ m_staged' = <<CeilDiv(Wanted[1], m_scale), CeilDiv(Wanted[2], m_scale)>>
        /\ UNCHANGED <<m_windowExtent, m_scale, m_prevScale, m_image, rendering, decided>>
    BY <1>5 DEF KeyFitWindow, Idle
  <2>2. m_image' \in Pictures /\ m_image' = m_image
    BY <2>1, ImageFacts DEF PlaceInv
  <2>3. IsSize(Wanted) /\ IsSize(m_staged')
    BY <2>1, WantedIsSize
  <2> QED
    BY <2>1, <2>2, <2>3, PlaceFitted
<1>6. CASE KeyLevel
  BY <1>6, PlaceLevel
<1>7. CASE Pan \/ Zoom
  BY <1>7, PlaceZoom
<1>8. CASE ReplaceTexture
  <2>1. /\ m_image' \in Pictures /\ FitToExtent(m_image', m_viewExtent)
        /\ estranged' = IF estranged = "scaled" THEN "no" ELSE estranged
        /\ UNCHANGED <<m_staged, m_windowExtent, m_scale, m_prevScale, rendering, decided>>
    BY <1>8 DEF ReplaceTexture, windowVars
  <2>2. IsSize(m_viewExtent) /\ IsSize(m_staged')
    BY <2>1 DEF PlaceInv, PlaceTypes
  <2> QED
    BY <2>1, <2>2, PlaceFitted
<1>9. CASE UNCHANGED viewWindowVars
  BY <1>9 DEF viewWindowVars, windowVars, placeVars, PlaceInv, PlaceTypes, ScaleFollows, ImagePlaced, HasImage
<1> QED
  BY <1>1, <1>2, <1>3, <1>4, <1>5, <1>6, <1>7, <1>8, <1>9 DEF ViewWindowNext

\* A frame draws the image in the size the view takes for the window, which it is.
LEMMA PlacedFrames == ViewInv /\ PlaceInv /\ UnitsSuffice => FrameIsPlaced
<1> SUFFICES ASSUME ViewInv, PlaceInv, UnitsSuffice PROVE FrameIsPlaced
  OBVIOUS
<1>1. ViewKnowsWindow
  BY DEF ViewKnowsWindow, Drawing, ViewInv, ViewFollows
<1>2. ASSUME Drawing, HasImage, estranged = "no"
      PROVE  PlacedIn(swapchain.size, m_image, m_imgScale, m_imgOrigin, m_fitMode)
  BY <1>1, <1>2 DEF ViewKnowsWindow, PlaceInv, ImagePlaced
<1>3. ImageIsPlaced
  BY <1>2 DEF ImageIsPlaced, PlacedIn
<1> QED
  BY <1>1, <1>3 DEF FrameIsPlaced

\* FrameIsPlaced: however events, keys and new images follow one another, the
\* image of every frame is whole and in the middle of the window when it is
\* fitted, and under its middle otherwise; for windows, pictures, levels and
\* movements of any size.  Its last conjunct is the hypothesis: the units of the
\* model must be fine enough for its integers to be what the code computes,
\* which they are for the sizes that TLC is given.
THEOREM FramesArePlaced == ViewWindowSpec /\ []UnitsSuffice => []FrameIsPlaced
<1>1. ViewWindowInit => ViewInv /\ PlaceInv
  BY ViewInitInv, PlaceInit
<1>2. ViewInv /\ PlaceInv /\ UnitsSuffice /\ [ViewWindowNext]_viewWindowVars => ViewInv' /\ PlaceInv'
  BY ViewNextInv, PlaceNext
<1> QED
  BY <1>1, <1>2, PlacedFrames, PTL DEF ViewWindowSpec

-----------------------------------------------------------------------------
(* Numbers, sequences and recursive functions.                             *)

\* A set of numbers has a least one.
LEMMA LeastOf ==
    ASSUME NEW S \in SUBSET Nat, S # {}
    PROVE  Min(S) \in S /\ \A y \in S : Min(S) <= y
<1>1. PICK R : IsWellFoundedOn(R, Nat) /\ \A x, y \in Nat : y < x => <<y, x>> \in R
  <2>1. \A x, y \in Nat : y < x => <<y, x>> \in OpToRel(<, Nat)
    BY DEF OpToRel
  <2> QED
    BY <2>1, NatLessThanWellFounded
<1>2. PICK x \in S : \A y \in S : <<y, x>> \notin R
  BY <1>1, WFMin
<1>3. \A y \in S : x <= y
  <2> TAKE y \in S
  <2>1. x \in Nat /\ y \in Nat
    OBVIOUS
  <2>2. ~(y < x)
    BY <1>1, <1>2, <2>1
  <2> QED
    BY <2>1, <2>2
<1> QED
  BY <1>2, <1>3 DEF Min

\* Induction over the numbers, for a set instead of a predicate.
LEMMA Numbers ==
    ASSUME NEW S, 0 \in S, \A n \in Nat : n \in S => n + 1 \in S
    PROVE  Nat \subseteq S
<1> SUFFICES ASSUME Nat \ S # {}
             PROVE  FALSE
  OBVIOUS
<1> DEFINE n == Min(Nat \ S)
<1>1. n \in Nat \ S /\ \A m \in Nat \ S : n <= m
  BY LeastOf
<1> HIDE DEF n
<1>2. n - 1 \in Nat /\ (n - 1) + 1 = n /\ ~(n <= n - 1)
  BY <1>1
<1>3. n - 1 \in S
  BY <1>1, <1>2
<1> QED
  BY <1>1, <1>2, <1>3

\* The same for the sequences over a set.
LEMMA Sequences ==
    ASSUME NEW S, NEW G, <<>> \in G, \A s \in Seq(S), e \in S : s \in G => Append(s, e) \in G
    PROVE  Seq(S) \subseteq G
<1> DEFINE N == {n \in Nat : \A s \in Seq(S) : Len(s) = n => s \in G}
<1>1. 0 \in N
  <2>1. \A s \in Seq(S) : Len(s) = 0 => s = <<>>
    BY EmptySeq
  <2> QED
    BY <2>1
<1>2. ASSUME NEW n \in Nat, n \in N
      PROVE  n + 1 \in N
  <2> SUFFICES ASSUME NEW s \in Seq(S), Len(s) = n + 1
               PROVE  s \in G
    OBVIOUS
  <2>1. s # <<>>
    BY EmptySeq
  <2>2. PICK front \in Seq(S), e \in S : s = Append(front, e)
    BY <2>1, SequenceEmptyOrAppend
  <2>3. Len(s) = Len(front) + 1 /\ Len(front) \in Nat
    BY <2>2, AppendProperties, LenProperties
  <2>4. Len(front) = n
    BY <2>3
  <2> QED
    BY <1>2, <2>2, <2>4
<1> HIDE DEF N
<1>3. Nat \subseteq N
  BY <1>1, <1>2, Numbers
<1> QED
  BY <1>3, LenProperties DEF N

\* The two forms in which a recursive function meets the lemmas below.
Iterates(n, b, g, f) == f[0] = b /\ \A i \in 1 .. n : f[i] = g[<<i, f[i - 1]>>]
Agree(n, f, h) == f[0] = h[0] /\ \A i \in 1 .. n : f[i - 1] = h[i - 1] => f[i] = h[i]

\* A function defined by what it is at 0, and at each number from what it is before.
LEMMA Recursion ==
    ASSUME NEW V, NEW n \in Nat, NEW b \in V, NEW g \in [(1 .. n) \X V -> V]
    PROVE  \E f \in [0 .. n -> V] : Iterates(n, b, g, f)
<1> DEFINE Has(m) == \E f \in [0 .. m -> V] : f[0] = b /\ \A i \in 1 .. m : f[i] = g[<<i, f[i - 1]>>]
           N == {m \in Nat : m <= n => Has(m)}
<1>1. 0 \in N
  <2> DEFINE f == [i \in 0 .. 0 |-> b]
  <2>1. f \in [0 .. 0 -> V] /\ f[0] = b /\ \A i \in 1 .. 0 : f[i] = g[<<i, f[i - 1]>>]
    OBVIOUS
  <2>2. Has(0)
    BY <2>1
  <2> HIDE DEF Has
  <2> QED
    BY <2>2
<1>2. ASSUME NEW m \in Nat, m \in N, m + 1 <= n
      PROVE  Has(m + 1)
  <2>1. PICK f \in [0 .. m -> V] : f[0] = b /\ \A i \in 1 .. m : f[i] = g[<<i, f[i - 1]>>]
    BY <1>2
  <2> DEFINE last == g[<<m + 1, f[m]>>]
             h == [i \in 0 .. m + 1 |-> IF i = m + 1 THEN last ELSE f[i]]
  <2>2. last \in V
    <3>1. <<m + 1, f[m]>> \in (1 .. n) \X V
      BY <1>2, <2>1
    <3> QED
      BY <3>1
  <2>3. h \in [0 .. m + 1 -> V]
    <3>1. \A i \in 0 .. m + 1 : i # m + 1 => i \in 0 .. m
      OBVIOUS
    <3> HIDE DEF last
    <3> QED
      BY <2>1, <2>2, <3>1
  <2>4. h[0] = b
    BY <2>1
  <2>6. h[m + 1] = last
    OBVIOUS
  <2>5. ASSUME NEW i \in 1 .. m + 1
        PROVE  h[i] = g[<<i, h[i - 1]>>]
    <3>1. i - 1 \in 0 .. m /\ h[i - 1] = f[i - 1]
      OBVIOUS
    <3>2. CASE i = m + 1
      <4>1. h[i] = last /\ h[i - 1] = f[m] /\ i - 1 = m
        BY <2>6, <3>1, <3>2
      <4> HIDE DEF h
      <4> QED
        BY <3>2, <4>1
    <3>3. CASE i # m + 1
      <4>1. i \in 1 .. m /\ h[i] = f[i]
        BY <3>3
      <4> QED
        BY <2>1, <3>1, <4>1
    <3> QED
      BY <3>2, <3>3
  <2> HIDE DEF h
  <2> QED
    BY <2>3, <2>4, <2>5
<1> HIDE DEF Has
<1>3. \A m \in Nat : m \in N => m + 1 \in N
  BY <1>2
<1> HIDE DEF N
<1>4. Nat \subseteq N
  BY <1>1, <1>3, Numbers
<1>5. Has(n)
  BY <1>4 DEF N
<1> QED
  BY <1>5 DEF Has, Iterates

\* Two functions that start alike and continue alike are the same.
LEMMA Stepwise ==
    ASSUME NEW n \in Nat, NEW f, NEW h, Agree(n, f, h)
    PROVE  \A i \in 0 .. n : f[i] = h[i]
<1> DEFINE N == {i \in Nat : i <= n => f[i] = h[i]}
<1>1. 0 \in N
  BY DEF Agree
<1>2. ASSUME NEW i \in Nat, i \in N
      PROVE  i + 1 \in N
  <2>1. i + 1 <= n => (i + 1) \in 1 .. n /\ (i + 1) - 1 = i /\ i <= n
    OBVIOUS
  <2> QED
    BY <1>2, <2>1 DEF Agree
<1> HIDE DEF N
<1>3. Nat \subseteq N
  BY <1>1, <1>2, Numbers
<1> QED
  BY <1>3 DEF N

\* What LoadableIn finds, file by file.
LEMMA FoundFunction ==
    ASSUME NEW list \in Seq(Files)
    PROVE  \E f \in [0 .. Len(list) -> Seq(Files)] :
             /\ LoadableIn(list) = f[Len(list)]
             /\ f[0] = <<>>
             /\ \A i \in 1 .. Len(list) : f[i] = IF Loadable(list[i]) THEN Append(f[i - 1], list[i]) ELSE f[i - 1]
<1> DEFINE n == Len(list)
           V == Seq(Files)
           g == [p \in (1 .. n) \X V |-> IF Loadable(list[p[1]]) THEN Append(p[2], list[p[1]]) ELSE p[2]]
           Is(f) == f = [i \in 0 .. n |-> IF i = 0 THEN <<>>
                                          ELSE IF Loadable(list[i]) THEN Append(f[i - 1], list[i]) ELSE f[i - 1]]
<1>1. n \in Nat /\ <<>> \in V /\ \A i \in 1 .. n : list[i] \in Files
  BY LenProperties, EmptySeq
<1>2. \A s \in V, e \in Files : Append(s, e) \in V
  BY AppendProperties
<1> HIDE DEF n, V
<1>3. g \in [(1 .. n) \X V -> V]
  BY <1>1, <1>2
<1>4. PICK f \in [0 .. n -> V] : f[0] = <<>> /\ \A i \in 1 .. n : f[i] = g[<<i, f[i - 1]>>]
  <2> HIDE DEF g, Is
  <2>1. \E f \in [0 .. n -> V] : Iterates(n, <<>>, g, f)
    BY <1>1, <1>3, Recursion
  <2> QED
    BY <2>1 DEF Iterates
<1>5. \A i \in 1 .. n : f[i] = IF Loadable(list[i]) THEN Append(f[i - 1], list[i]) ELSE f[i - 1]
  <2>1. \A i \in 1 .. n : i - 1 \in 0 .. n /\ <<i, f[i - 1]>> \in (1 .. n) \X V
    BY <1>1, <1>4
  <2> QED
    BY <1>4, <2>1
<1>6. Is(f)
  <2>1. \A i \in 0 .. n : i = 0 \/ i \in 1 .. n
    BY <1>1
  <2>2. \A i \in 0 .. n : f[i] = IF i = 0 THEN <<>> ELSE IF Loadable(list[i]) THEN Append(f[i - 1], list[i]) ELSE f[i - 1]
    BY <1>4, <1>5, <2>1
  <2> QED
    BY <1>4, <2>2
<1> DEFINE h == CHOOSE f2 : Is(f2)
<1>7. Is(h)
  BY <1>6
<1>8. LoadableIn(list) = h[n]
  BY DEF LoadableIn, n
<1> HIDE DEF h, g
<1>9. \A i \in 0 .. n : h[i] = f[i]
  <2>1. h[0] = f[0]
    BY <1>1, <1>4, <1>7
  <2>2. \A i \in 1 .. n : i \in 0 .. n /\ i # 0 /\ i - 1 \in 0 .. n
    BY <1>1
  <2>3. \A i \in 1 .. n : h[i - 1] = f[i - 1] => h[i] = f[i]
    BY <1>5, <1>7, <2>2
  <2>4. Agree(n, h, f)
    BY <2>1, <2>3 DEF Agree
  <2> QED
    BY <1>1, <2>4, Stepwise
<1>10. LoadableIn(list) = f[n]
  BY <1>1, <1>8, <1>9
<1> QED
  BY <1>4, <1>5, <1>10 DEF n, V

\* An empty list holds nothing to find.
LEMMA FoundNothing == LoadableIn(<<>>) = <<>>
<1>1. <<>> \in Seq(Files) /\ Len(<<>>) = 0
  BY EmptySeq
<1>2. PICK f \in [0 .. Len(<<>>) -> Seq(Files)] : LoadableIn(<<>>) = f[Len(<<>>)] /\ f[0] = <<>>
  BY <1>1, FoundFunction
<1> QED
  BY <1>1, <1>2

\* One file more at the end of a list.
LEMMA FoundNext ==
    ASSUME NEW s \in Seq(Files), NEW e \in Files
    PROVE  LoadableIn(Append(s, e)) = IF Loadable(e) THEN Append(LoadableIn(s), e) ELSE LoadableIn(s)
<1> DEFINE t == Append(s, e)
           n == Len(s)
<1>1. n \in Nat /\ t \in Seq(Files) /\ Len(t) = n + 1 /\ t[n + 1] = e /\ \A i \in 1 .. n : t[i] = s[i]
  BY AppendProperties, LenProperties
<1> HIDE DEF t
<1>2. PICK f \in [0 .. Len(s) -> Seq(Files)] :
        /\ LoadableIn(s) = f[Len(s)] /\ f[0] = <<>>
        /\ \A i \in 1 .. Len(s) : f[i] = IF Loadable(s[i]) THEN Append(f[i - 1], s[i]) ELSE f[i - 1]
  BY FoundFunction
<1>3. PICK h \in [0 .. Len(t) -> Seq(Files)] :
        /\ LoadableIn(t) = h[Len(t)] /\ h[0] = <<>>
        /\ \A i \in 1 .. Len(t) : h[i] = IF Loadable(t[i]) THEN Append(h[i - 1], t[i]) ELSE h[i - 1]
  BY <1>1, FoundFunction
<1>4. Agree(n, h, f)
  <2>1. \A i \in 1 .. n : i \in 1 .. Len(t) /\ t[i] = s[i]
    BY <1>1
  <2>2. \A i \in 1 .. n : h[i] = IF Loadable(s[i]) THEN Append(h[i - 1], s[i]) ELSE h[i - 1]
    BY <1>3, <2>1
  <2> QED
    BY <1>2, <1>3, <2>2 DEF Agree
<1>5. h[n] = f[n]
  <2>1. \A i \in 0 .. n : h[i] = f[i]
    BY <1>1, <1>4, Stepwise, SMTT(60)
  <2> QED
    BY <1>1, <2>1
<1>6. n + 1 \in 1 .. Len(t) /\ (n + 1) - 1 = n
  BY <1>1
<1>7. h[n + 1] = IF Loadable(e) THEN Append(h[n], e) ELSE h[n]
  BY <1>1, <1>3, <1>6
<1> QED
  BY <1>1, <1>2, <1>3, <1>5, <1>7 DEF t

\* It finds the files that can be loaded, all of them and no others, and those of one
\* list after those of another.
LEMMA FoundFiles ==
    ASSUME NEW list \in Seq(Files)
    PROVE  LoadableIn(list) \in Seq(Images) /\ Range(LoadableIn(list)) = Range(list) \cap disk \cap Images
<1> DEFINE Right(s) == LoadableIn(s) \in Seq(Images) /\ Range(LoadableIn(s)) = Range(s) \cap disk \cap Images
           G == {s \in Seq(Files) : Right(s)}
<1>1. \A S : \A s \in Seq(S), e \in S : Range(Append(s, e)) = Range(s) \cup {e}
  <2> SUFFICES ASSUME NEW S, NEW s \in Seq(S), NEW e \in S
               PROVE  Range(Append(s, e)) = Range(s) \cup {e}
    OBVIOUS
  <2>1. <<e>> \in Seq(S) /\ Range(<<e>>) = {e}
    BY DEF Range
  <2>2. Range(s \o <<e>>) = Range(s) \cup Range(<<e>>)
    BY <2>1, RangeConcatenation, ZenonT(60)
  <2>3. Append(s, e) = s \o <<e>>
    BY AppendIsConcat
  <2> QED
    BY <2>1, <2>2, <2>3
<1>2. Right(<<>>)
  <2>1. Range(<<>>) = {}
    BY DEF Range
  <2> QED
    BY <2>1, FoundNothing, EmptySeq
<1>3. ASSUME NEW s \in Seq(Files), NEW e \in Files, Right(s)
      PROVE  Right(Append(s, e))
  <2> DEFINE found == LoadableIn(s)
  <2>1. found \in Seq(Images) /\ Range(found) = Range(s) \cap disk \cap Images
    BY <1>3
  <2>2. Range(Append(s, e)) = Range(s) \cup {e}
    BY <1>1
  <2>3. CASE Loadable(e)
    <3>1. e \in disk \cap Images
      BY <2>3 DEF Loadable
    <3>2. LoadableIn(Append(s, e)) = Append(found, e)
      BY <2>3, FoundNext
    <3> HIDE DEF found
    <3>3. Append(found, e) \in Seq(Images)
      BY <2>1, <3>1, AppendProperties
    <3>4. Range(Append(found, e)) = Range(found) \cup {e}
      BY <1>1, <2>1, <3>1
    <3> QED
      BY <2>1, <2>2, <3>1, <3>2, <3>3, <3>4
  <2>4. CASE ~Loadable(e)
    <3>1. e \notin disk \cap Images
      BY <2>4 DEF Loadable
    <3>2. LoadableIn(Append(s, e)) = found
      BY <2>4, FoundNext
    <3> HIDE DEF found
    <3> QED
      BY <2>1, <2>2, <3>1, <3>2
  <2> QED
    BY <2>3, <2>4
<1> HIDE DEF Right
<1>4. <<>> \in G /\ \A s \in Seq(Files), e \in Files : s \in G => Append(s, e) \in G
  BY <1>2, <1>3, EmptySeq, AppendProperties
<1> HIDE DEF G
<1>5. Seq(Files) \subseteq G
  BY <1>4, Sequences
<1>6. Right(list)
  BY <1>5 DEF G
<1> QED
  BY <1>6 DEF Right

\* The files found in two lists are those found in the one and then those in the other.
LEMMA FoundConcat ==
    ASSUME NEW p \in Seq(Files), NEW q \in Seq(Files)
    PROVE  LoadableIn(p \o q) = LoadableIn(p) \o LoadableIn(q)
<1> DEFINE Right(s) == LoadableIn(p \o s) = LoadableIn(p) \o LoadableIn(s)
           G == {s \in Seq(Files) : Right(s)}
<1>1. Right(<<>>)
  <2>1. p \o <<>> = p /\ LoadableIn(p) \o <<>> = LoadableIn(p)
    BY FoundFiles, ConcatEmptySeq
  <2> QED
    BY <2>1, FoundNothing
<1>2. ASSUME NEW s \in Seq(Files), NEW e \in Files, Right(s)
      PROVE  Right(Append(s, e))
  <2>1. p \o s \in Seq(Files)
    BY ConcatProperties
  <2>2. p \o Append(s, e) = Append(p \o s, e)
    OBVIOUS
  <2>3. LoadableIn(Append(p \o s, e)) = IF Loadable(e) THEN Append(LoadableIn(p \o s), e) ELSE LoadableIn(p \o s)
    BY <2>1, FoundNext
  <2>4. LoadableIn(Append(s, e)) = IF Loadable(e) THEN Append(LoadableIn(s), e) ELSE LoadableIn(s)
    BY FoundNext
  <2> DEFINE a == LoadableIn(p)
             b == LoadableIn(s)
  <2>5. a \in Seq(Images) /\ b \in Seq(Images) /\ Images \subseteq Files
    BY FoundFiles, FilesAssumption
  <2>6. a \o Append(b, e) = Append(a \o b, e)
    <3>1. a \in Seq(Files) /\ b \in Seq(Files)
      BY <2>5, SeqMonotonic
    <3> HIDE DEF a, b
    <3> QED
      BY <3>1
  <2>7. LoadableIn(p \o s) = a \o b
    BY <1>2
  <2> QED
    BY <2>2, <2>3, <2>4, <2>6, <2>7
<1> HIDE DEF Right
<1>3. <<>> \in G /\ \A s \in Seq(Files), e \in Files : s \in G => Append(s, e) \in G
  BY <1>1, <1>2, EmptySeq, AppendProperties
<1> HIDE DEF G
<1>4. Seq(Files) \subseteq G
  BY <1>3, Sequences
<1>5. Right(q)
  BY <1>4 DEF G
<1> QED
  BY <1>5 DEF Right
-----------------------------------------------------------------------------
(* The batches.                                                            *)

\* The lesser of two numbers.
LEMMA SmallerOf ==
    ASSUME NEW a \in Nat, NEW b \in Nat
    PROVE  Min({a, b}) = IF a <= b THEN a ELSE b
<1>1. {a, b} \in SUBSET Nat /\ {a, b} # {}
  OBVIOUS
<1>2. Min({a, b}) \in {a, b} /\ Min({a, b}) <= a /\ Min({a, b}) <= b
  BY <1>1, LeastOf
<1> QED
  BY <1>2

\* As many batches as there are processors are enough for the list.
LEMMA BatchesSuffice ==
    ASSUME NEW n \in Nat, NEW c \in Nat \ {0}
    PROVE  (n + c - 1) \div c \in Nat /\ c * ((n + c - 1) \div c) >= n
<1> DEFINE x == n + c - 1
           q == x \div c
           r == x % c
<1>1. x \in Nat /\ c \in Int /\ c > 0
  OBVIOUS
<1> HIDE DEF x
<1>2. q \in Nat /\ r \in 0 .. c - 1 /\ x = c * q + r
  BY <1>1
<1> HIDE DEF q, r
<1>3. c * q \in Int
  BY <1>2
<1>4. c * q >= x - (c - 1)
  BY <1>1, <1>2, <1>3
<1>5. c * q >= n
  BY <1>3, <1>4 DEF x
<1> QED
  BY <1>2, <1>5 DEF q, x

\* The batches follow one another, and nothing is left between them or behind them.
LEMMA BatchFollows ==
    ASSUME cpus \in Nat \ {0}, NEW list \in Seq(Files), NEW n \in Nat
    PROVE  LET cut(k) == IF k * BatchSize(list) <= Len(list) THEN k * BatchSize(list) ELSE Len(list)
           IN  /\ Batch(list, n) \in Seq(Files)
               /\ SubSeq(list, 1, cut(n)) \in Seq(Files)
               /\ SubSeq(list, 1, cut(n)) \o Batch(list, n) = SubSeq(list, 1, cut(n + 1))
<1> DEFINE l == Len(list)
           b == BatchSize(list)
           cut(k) == IF k * b <= l THEN k * b ELSE l
           k == n * b
<1>1. l \in Nat /\ \A i \in 1 .. l : list[i] \in Files
  BY LenProperties
<1>2. b \in Nat
  BY <1>1, BatchesSuffice DEF BatchSize
<1> HIDE DEF l, b
<1>3. k \in Nat /\ (n + 1) * b = k + b
  BY <1>2
<1>4. Batch(list, n) = SubSeq(list, k + 1, IF k + b <= l THEN k + b ELSE l)
  <2>1. Batch(list, n) = SubSeq(list, k + 1, Min({(n + 1) * b, l}))
    BY DEF Batch, b, l
  <2> HIDE DEF k
  <2>2. Min({k + b, l}) = IF k + b <= l THEN k + b ELSE l
    BY <1>1, <1>2, <1>3, SmallerOf
  <2> QED
    BY <1>3, <2>1, <2>2
<1>5. cut(n) = (IF k <= l THEN k ELSE l) /\ cut(n + 1) = (IF k + b <= l THEN k + b ELSE l)
  BY <1>3
<1> HIDE DEF k, cut
<1> DEFINE m == IF k + b <= l THEN k + b ELSE l
           j == IF k <= l THEN k ELSE l
<1>6. m \in 0 .. l /\ j \in 0 .. l /\ j <= m
  BY <1>1, <1>2, <1>3
<1>7. SubSeq(list, 1, j) \in Seq(Files)
  <2>1. \A i \in 1 .. j : list[i] \in Files
    BY <1>1, <1>6
  <2> HIDE DEF j
  <2> QED
    BY <1>1, <1>6, <2>1, SubSeqProperties
<1>8. SubSeq(list, k + 1, m) \in Seq(Files)
  <2>1. \A i \in k + 1 .. m : list[i] \in Files
    BY <1>1, <1>3, <1>6
  <2>2. k + 1 \in Int /\ m \in Int
    BY <1>1, <1>3, <1>6
  <2> HIDE DEF m
  <2> QED
    BY <2>1, <2>2, SubSeqProperties
<1>9. SubSeq(list, 1, j) \o SubSeq(list, k + 1, m) = SubSeq(list, 1, m)
  <2>1. CASE k <= l
    <3>1. j = k /\ 1 \in 1 .. l + 1 /\ j \in 1 - 1 .. l /\ m \in j .. l
      BY <1>1, <1>3, <1>6, <2>1
    <3> HIDE DEF j, m
    <3>2. SubSeq(list, 1, j) \o SubSeq(list, j + 1, m) = SubSeq(list, 1, m)
      BY <3>1, ConcatAdjacentSubSeq DEF l
    <3> QED
      BY <3>1, <3>2
  <2>2. CASE ~(k <= l)
    <3>1. j = l /\ m = l /\ m < k + 1 /\ k + 1 \in Int /\ m \in Int
      BY <1>1, <1>2, <1>3, <2>2
    <3> HIDE DEF j, m
    <3>2. SubSeq(list, k + 1, m) = <<>>
      BY <3>1, SubSeqEmpty
    <3> QED
      BY <1>7, <3>1, <3>2, ConcatEmptySeq
  <2> QED
    BY <2>1, <2>2
<1> QED
  BY <1>4, <1>5, <1>7, <1>8, <1>9 DEF cut, b, l

\* However many processors there are, the batches find what one pass over the list would,
\* in the same order.
THEOREM BatchesFindAll ==
    ASSUME cpus \in Nat \ {0}, NEW list \in Seq(Files)
    PROVE  FindLoadableImages(list) = LoadableIn(list)
<1> DEFINE l == Len(list)
           b == BatchSize(list)
           cut(k) == IF k * b <= l THEN k * b ELSE l
           part(k) == LoadableIn(SubSeq(list, 1, cut(k)))
           Is(f) == f = [n \in 0 .. cpus |-> IF n = 0 THEN <<>> ELSE f[n - 1] \o LoadableIn(Batch(list, n - 1))]
           e == [n \in 0 .. cpus |-> part(n)]
           h == CHOOSE f : Is(f)
<1>1. l \in Nat /\ b \in Nat /\ cpus * b >= l
  <2>1. l \in Nat
    BY LenProperties
  <2> QED
    BY <2>1, BatchesSuffice DEF BatchSize
<1>2. cpus \in Nat /\ cpus * b \in Nat
  BY <1>1
<1>3. part(0) = <<>>
  <2>1. cut(0) = 0
    BY <1>1
  <2>2. SubSeq(list, 1, 0) = <<>>
    BY SubSeqEmpty
  <2> QED
    BY <2>1, <2>2, FoundNothing
<1>4. part(cpus) = LoadableIn(list)
  <2>1. cut(cpus) = l
    BY <1>1, <1>2
  <2> QED
    BY <2>1, SubSeqFull
<1>5. ASSUME NEW n \in Nat
      PROVE  part(n + 1) = part(n) \o LoadableIn(Batch(list, n))
  <2>1. /\ Batch(list, n) \in Seq(Files) /\ SubSeq(list, 1, cut(n)) \in Seq(Files)
        /\ SubSeq(list, 1, cut(n)) \o Batch(list, n) = SubSeq(list, 1, cut(n + 1))
    BY BatchFollows
  <2> HIDE DEF cut
  <2> QED
    BY <2>1, FoundConcat
<1> HIDE DEF part
<1>6. \A n \in 1 .. cpus : n - 1 \in Nat /\ (n - 1) + 1 = n /\ n \in 0 .. cpus /\ n - 1 \in 0 .. cpus /\ n # 0
  BY <1>2
<1>7. \A n \in 1 .. cpus : part(n) = part(n - 1) \o LoadableIn(Batch(list, n - 1))
  BY <1>5, <1>6
<1>8. Is(e)
  <2>1. \A n \in 0 .. cpus : n = 0 \/ n \in 1 .. cpus
    BY <1>2
  <2>2. \A n \in 1 .. cpus : e[n - 1] = part(n - 1)
    BY <1>6
  <2>3. \A n \in 0 .. cpus : part(n) = IF n = 0 THEN <<>> ELSE e[n - 1] \o LoadableIn(Batch(list, n - 1))
    BY <1>3, <1>7, <2>1, <2>2
  <2> QED
    BY <2>3
<1>9. Is(h)
  BY <1>8
<1>10. FindLoadableImages(list) = h[cpus]
  BY DEF FindLoadableImages
<1> HIDE DEF h
<1>11. Agree(cpus, h, e)
  <2>1. \A n \in 1 .. cpus : h[n] = h[n - 1] \o LoadableIn(Batch(list, n - 1))
    BY <1>6, <1>9
  <2>2. \A n \in 1 .. cpus : e[n] = e[n - 1] \o LoadableIn(Batch(list, n - 1))
    BY <1>6, <1>8
  <2>3. h[0] = <<>> /\ e[0] = <<>>
    BY <1>2, <1>3, <1>9
  <2> HIDE DEF e
  <2> QED
    BY <2>1, <2>2, <2>3 DEF Agree
<1>12. h[cpus] = e[cpus]
  <2>1. \A n \in 0 .. cpus : h[n] = e[n]
    BY <1>2, <1>11, Stepwise
  <2> QED
    BY <1>2, <2>1
<1>13. e[cpus] = part(cpus)
  BY <1>2
<1> QED
  BY <1>4, <1>10, <1>12, <1>13
-----------------------------------------------------------------------------
(* The directory, and the place of a file in the list.                     *)

\* The order that std::sort leaves.
Increasing(s) == \A i, j \in DOMAIN s : i < j => s[i] < s[j]

\* A finite set of numbers can be written down in increasing order.
LEMMA CanBeSorted ==
    ASSUME NEW S \in SUBSET Nat, IsFiniteSet(S)
    PROVE  \E s \in [1 .. Cardinality(S) -> S] : Increasing(s)
<1> DEFINE Sortable(T) == \E s \in [1 .. Cardinality(T) -> T] : Increasing(s)
           N == {n \in Nat : \A T \in SUBSET Nat : IsFiniteSet(T) /\ Cardinality(T) = n => Sortable(T)}
<1>1. 0 \in N
  <2> SUFFICES ASSUME NEW T \in SUBSET Nat, IsFiniteSet(T), Cardinality(T) = 0
               PROVE  Sortable(T)
    OBVIOUS
  <2> DEFINE s == [i \in 1 .. 0 |-> CHOOSE x \in T : TRUE]
  <2>1. s \in [1 .. 0 -> T] /\ Increasing(s)
    BY DEF Increasing
  <2> QED
    BY <2>1
<1>2. ASSUME NEW n \in Nat, n \in N
      PROVE  n + 1 \in N
  <2> SUFFICES ASSUME NEW T \in SUBSET Nat, IsFiniteSet(T), Cardinality(T) = n + 1
               PROVE  Sortable(T)
    OBVIOUS
  <2> DEFINE x == Min(T)
             U == T \ {x}
  <2>1. T # {}
    BY FS_EmptySet
  <2>2. x \in T /\ \A y \in T : x <= y
    BY <2>1, LeastOf
  <2> HIDE DEF x
  <2>3. U \in SUBSET Nat /\ IsFiniteSet(U) /\ Cardinality(U) = n
    <3>1. IsFiniteSet(U) /\ Cardinality(U) = Cardinality(T) - 1
      BY <2>2, FS_RemoveElement
    <3>2. (n + 1) - 1 = n
      OBVIOUS
    <3>3. U \in SUBSET Nat
      OBVIOUS
    <3> HIDE DEF U
    <3> QED
      BY <3>1, <3>2, <3>3
  <2>4. \A y \in U : y \in Nat /\ x \in Nat /\ x < y
    <3> TAKE y \in U
    <3>1. y \in Nat /\ x \in Nat /\ x <= y /\ x # y
      BY <2>2
    <3> QED
      BY <3>1
  <2>5. PICK t \in [1 .. n -> U] : Increasing(t)
    BY <1>2, <2>3
  <2> HIDE DEF U
  <2> DEFINE s == [i \in 1 .. n + 1 |-> IF i = 1 THEN x ELSE t[i - 1]]
  <2>6. \A i \in 1 .. n + 1 : i # 1 => i - 1 \in 1 .. n
    OBVIOUS
  <2>7. U \subseteq T
    BY DEF U
  <2>8. s \in [1 .. n + 1 -> T]
    BY <2>2, <2>5, <2>6, <2>7
  <2>9. ASSUME NEW i \in 1 .. n + 1, NEW j \in 1 .. n + 1, i < j
        PROVE  s[i] < s[j]
    <3>1. j # 1 /\ j - 1 \in 1 .. n /\ s[j] = t[j - 1]
      BY <2>9
    <3>2. CASE i = 1
      <4>1. s[i] = x /\ t[j - 1] \in U
        BY <2>5, <3>1, <3>2
      <4> QED
        BY <2>4, <3>1, <4>1
    <3>3. CASE i # 1
      <4>1. i - 1 \in 1 .. n /\ s[i] = t[i - 1] /\ i - 1 < j - 1
        BY <2>9, <3>3
      <4>2. t[i - 1] < t[j - 1]
        BY <2>5, <3>1, <4>1 DEF Increasing
      <4> QED
        BY <3>1, <4>1, <4>2
    <3> QED
      BY <3>2, <3>3
  <2>10. Increasing(s)
    BY <2>9 DEF Increasing
  <2> HIDE DEF s
  <2> QED
    BY <2>8, <2>10
<1> HIDE DEF Sortable
<1>3. \A n \in Nat : n \in N => n + 1 \in N
  BY <1>2
<1> HIDE DEF N
<1>4. Nat \subseteq N
  BY <1>1, <1>3, Numbers
<1>5. Cardinality(S) \in Nat
  BY FS_CardinalityType
<1>6. Sortable(S)
  BY <1>4, <1>5 DEF N
<1> QED
  BY <1>6 DEF Sortable

\* Sorting neither loses nor invents a file.
LEMMA SortedSequence ==
    ASSUME NEW S \in SUBSET Nat, IsFiniteSet(S)
    PROVE  Sorted(S) \in Seq(S) /\ Range(Sorted(S)) = S
<1> DEFINE s == Sorted(S)
           n == Cardinality(S)
<1>1. s \in [1 .. n -> S] /\ Increasing(s)
  BY CanBeSorted DEF Sorted, Increasing
<1>2. n \in Nat
  BY FS_CardinalityType
<1>3. IsFiniteSet(1 .. n) /\ Cardinality(1 .. n) = n
  BY <1>2, FS_Interval
<1> HIDE DEF s
<1>4. s \in Injection(1 .. n, S)
  <2>1. \A i, j \in 1 .. n : i # j => s[i] # s[j]
    <3> SUFFICES ASSUME NEW i \in 1 .. n, NEW j \in 1 .. n, i < j
                 PROVE  s[i] # s[j]
      BY <1>2
    <3>1. s[i] < s[j]
      BY <1>1 DEF Increasing
    <3>2. s[i] \in Nat /\ s[j] \in Nat
      BY <1>1
    <3> QED
      BY <3>1, <3>2
  <2> QED
    BY <1>1, <2>1 DEF Injection, IsInjective
<1>5. s \in Surjection(1 .. n, S)
  BY <1>3, <1>4, FS_Injection
<1>6. \A y \in S : \E i \in 1 .. n : s[i] = y
  BY <1>5 DEF Surjection
<1>7. Range(s) = S
  BY <1>1, <1>6 DEF Range
<1>8. s \in Seq(S)
  BY <1>1, <1>2, SeqDef
<1> QED
  BY <1>7, <1>8 DEF s

\* ListDirectory lists the files that are there, each in the directory of the one asked for.
LEMMA Listed ==
    ASSUME disk \subseteq Files, NEW f \in Files
    PROVE  /\ ListDirectory(f) \in Seq(Files)
           /\ Range(ListDirectory(f)) = IF f \in InRoot THEN {} ELSE disk \cap SameDirectory(f)
<1> DEFINE S == disk \cap SameDirectory(f)
<1>1. S \subseteq Files /\ S \in SUBSET Nat /\ IsFiniteSet(S)
  BY FilesAssumption, FS_Subset
<1>2. CASE f \in InRoot
  <2>1. <<>> \in Seq(Files) /\ Range(<<>>) = {}
    BY EmptySeq DEF Range
  <2> QED
    BY <1>2, <2>1 DEF ListDirectory
<1>3. CASE f \notin InRoot
  <2>1. ListDirectory(f) = Sorted(S)
    BY <1>3 DEF ListDirectory
  <2> HIDE DEF S
  <2>2. Sorted(S) \in Seq(S) /\ Range(Sorted(S)) = S
    BY <1>1, SortedSequence
  <2>3. Sorted(S) \in Seq(Files)
    BY <1>1, <2>2, SeqMonotonic
  <2> QED
    BY <1>3, <2>1, <2>2, <2>3 DEF S
<1> QED
  BY <1>2, <1>3

\* SetFileList finds the first entry that is the file.
LEMMA EntryFound ==
    ASSUME NEW S, NEW list \in Seq(S), NEW f \in Range(list)
    PROVE  /\ IndexOf(list, f) \in Nat
           /\ IndexOf(list, f) < Len(list)
           /\ list[IndexOf(list, f) + 1] = f
<1> DEFINE D == {i \in DOMAIN list : list[i] = f}
           m == Min(D)
<1>1. DOMAIN list = 1 .. Len(list) /\ Len(list) \in Nat
  BY LenProperties
<1>2. D \in SUBSET Nat /\ D # {}
  BY <1>1 DEF Range
<1>3. m \in D
  BY <1>2, LeastOf
<1>4. IndexOf(list, f) = m - 1
  BY DEF IndexOf
<1> HIDE DEF m
<1>5. m \in 1 .. Len(list) /\ list[m] = f
  BY <1>1, <1>3
<1>6. (m - 1) + 1 = m /\ m - 1 \in Nat /\ m - 1 < Len(list)
  BY <1>1, <1>5
<1> QED
  BY <1>4, <1>5, <1>6
-----------------------------------------------------------------------------
(* The invariant.                                                          *)

\* The two steps that wait for an answer have what they ask about.
AskedOK ==
    /\ opening = "start" => m_fileList = <<>>
    /\ opening = "scan" => requested \in Files

\* The entry the index names.
PlaceOK ==
    opening # "panic" /\ m_fileList # <<>> =>
        /\ m_fileIndex < Len(m_fileList)
        /\ opening \in {"idle", "filter"} /\ ~kept => m_fileList[m_fileIndex + 1] = requested

FilesInv == FileListTypeOK /\ AskedOK /\ PlaceOK

\* What FindLoadableImages returns, in every state the program reaches.
LEMMA Found ==
    ASSUME FilesInv, NEW list \in Seq(Files)
    PROVE  /\ FindLoadableImages(list) \in Seq(Images)
           /\ Range(FindLoadableImages(list)) = Range(list) \cap disk \cap Images
<1>1. cpus \in Nat \ {0}
  BY BoundsAssumption DEF FilesInv, FileListTypeOK
<1> QED
  BY <1>1, BatchesFindAll, FoundFiles

\* The head of a list is one of its entries.
LEMMA FirstOf ==
    ASSUME NEW S, NEW list \in Seq(S), list # <<>>
    PROVE  Head(list) \in S /\ Head(list) \in Range(list)
<1>1. Len(list) \in Nat /\ DOMAIN list = 1 .. Len(list) /\ Len(list) # 0 /\ Head(list) = list[1]
  BY LenProperties, EmptySeq
<1>2. 1 \in DOMAIN list
  BY <1>1
<1>3. list[1] \in S
  BY <1>1, <1>2, LenProperties
<1> QED
  BY <1>1, <1>2, <1>3 DEF Range

\* The invariant holds at first.
LEMMA FilesInvInit == FileListInit => FilesInv
<1> SUFFICES ASSUME FileListInit
             PROVE  FilesInv
  OBVIOUS
<1>1. <<>> \in Seq(Files) /\ <<>> \in Seq(Images)
  BY EmptySeq
<1> QED
  BY <1>1 DEF FileListInit, FilesInv, FileListTypeOK, AskedOK, PlaceOK

\* The keys keep the invariant, which sends them to an index inside the list.
LEMMA FilesInvGotoFile ==
    ASSUME FilesInv, opening = "idle", m_fileList # <<>>, NEW i \in Nat, i < Len(m_fileList), GotoFile(i)
    PROVE  FilesInv'
<1>1. m_fileList \in Seq(Images) /\ Len(m_fileList) \in Nat
  BY LenProperties DEF FilesInv, FileListTypeOK
<1>2. i + 1 \in 1 .. Len(m_fileList)
  BY <1>1
<1>3. m_fileList[i + 1] \in Files
  BY <1>1, <1>2, LenProperties, FilesAssumption
<1>4. FileListTypeOK'
  BY <1>3 DEF FilesInv, FileListTypeOK, GotoFile
<1>5. AskedOK' /\ PlaceOK'
  BY <1>3 DEF AskedOK, PlaceOK, GotoFile
<1> QED
  BY <1>4, <1>5 DEF FilesInv

\* Every step keeps the invariant.
LEMMA FilesInvNext ==
    ASSUME FilesInv, [FileListNext]_fileListVars
    PROVE  FilesInv'
<1> USE DEF FilesInv
<1>0. /\ <<>> \in Seq(Files) /\ <<>> \in Seq(Images)
      /\ Images \subseteq Files /\ NoFile \notin Files
      /\ m_fileList \in Seq(Images) /\ Len(m_fileList) \in Nat
      /\ m_fileList # <<>> => Len(m_fileList) > 0
  BY EmptySeq, LenProperties, FilesAssumption DEF FileListTypeOK, NoFile
<1>1. CASE NoArgument
  BY <1>1 DEF FileListTypeOK, AskedOK, PlaceOK, NoArgument
<1>2. CASE \E f \in Files : Argument(f)
  BY <1>2 DEF FileListTypeOK, AskedOK, PlaceOK, Argument
<1>3. CASE \E s \in SeqOf(Files, MaxUris) : OpenFiles(s)
  <2>1. PICK s \in SeqOf(Files, MaxUris) : OpenFiles(s)
    BY <1>3
  <2>2. s \in Seq(Files)
    <3>1. \A n \in 0 .. MaxUris : n \in Nat
      BY BoundsAssumption
    <3>2. PICK n \in 0 .. MaxUris : s \in [1 .. n -> Files]
      BY DEF SeqOf
    <3> QED
      BY <3>1, <3>2, SeqDef
  <2> QED
    BY <2>1, <2>2 DEF FileListTypeOK, AskedOK, PlaceOK, OpenFiles
<1>4. CASE OpenNone
  BY <1>0, <1>4 DEF FileListTypeOK, AskedOK, PlaceOK, OpenNone
<1> DEFINE files == FindLoadableImages(candidates)
           scanned == FindLoadableImages(ListDirectory(requested))
<1>5. files \in Seq(Images) /\ Len(files) \in Nat /\ (files # <<>> <=> Len(files) > 0)
  <2>1. files \in Seq(Images)
    BY Found DEF FileListTypeOK
  <2> HIDE DEF files
  <2> QED
    BY <2>1, LenProperties, EmptySeq
<1>6. CASE OpenSingle
  <2>1. /\ requested' = Head(files) /\ Len(files) = 1 /\ opening = "filter" /\ opening' = "scan"
        /\ candidates' = <<>> /\ UNCHANGED <<disk, cpus, m_fileList, m_fileIndex, kept>>
    BY <1>6 DEF OpenSingle
  <2> HIDE DEF files
  <2>2. requested' \in Files
    BY <1>0, <1>5, <2>1, FirstOf
  <2> QED
    BY <1>0, <2>1, <2>2 DEF FileListTypeOK, AskedOK, PlaceOK
<1>7. CASE OpenSeveral
  <2>1. /\ Len(files) > 1 /\ m_fileList' = files /\ m_fileIndex' = IndexOf(files, Head(files))
        /\ requested' = Head(files) /\ kept' = FALSE /\ opening' = "idle" /\ candidates' = <<>>
        /\ UNCHANGED <<disk, cpus>>
    BY <1>7 DEF OpenSeveral
  <2> HIDE DEF files
  <2>2. files # <<>>
    BY <1>5, <2>1
  <2>3. Head(files) \in Images /\ Head(files) \in Range(files)
    BY <1>5, <2>2, FirstOf
  <2>4. /\ IndexOf(files, Head(files)) \in Nat /\ IndexOf(files, Head(files)) < Len(files)
        /\ files[IndexOf(files, Head(files)) + 1] = Head(files)
    BY <1>5, <2>3, EntryFound
  <2> QED
    BY <1>0, <1>5, <2>1, <2>3, <2>4 DEF FileListTypeOK, AskedOK, PlaceOK
<1>8. CASE ScanNothing
  BY <1>0, <1>8 DEF FileListTypeOK, AskedOK, PlaceOK, ScanNothing
<1>9. CASE ScanDirectory
  <2>1. /\ opening = "scan" /\ scanned # <<>> /\ m_fileList' = scanned
        /\ \/ requested \in Range(scanned) /\ m_fileIndex' = IndexOf(scanned, requested) /\ opening' = "idle"
           \/ opening' = "panic" /\ UNCHANGED m_fileIndex
        /\ kept' = FALSE /\ UNCHANGED <<disk, cpus, candidates, requested>>
    BY <1>9 DEF ScanDirectory
  <2>2. scanned \in Seq(Images)
    BY <2>1, Found, Listed DEF FileListTypeOK, AskedOK
  <2> HIDE DEF scanned
  <2>3. requested \in Range(scanned) =>
          /\ IndexOf(scanned, requested) \in Nat /\ IndexOf(scanned, requested) < Len(scanned)
          /\ scanned[IndexOf(scanned, requested) + 1] = requested
    BY <2>2, EntryFound
  <2> QED
    BY <2>1, <2>2, <2>3 DEF FileListTypeOK, AskedOK, PlaceOK
<1>10. CASE RawImage
  BY <1>0, <1>10 DEF FileListTypeOK, AskedOK, PlaceOK, RawImage
<1>11. CASE KeyRight
  <2> DEFINE i == (m_fileIndex + 1) % Len(m_fileList)
  <2>1. m_fileIndex \in Nat /\ Len(m_fileList) \in Nat /\ Len(m_fileList) > 1
    BY <1>0, <1>11 DEF FileListTypeOK, KeyRight
  <2>2. i \in Nat /\ i < Len(m_fileList) /\ m_fileList # <<>>
    BY <2>1, EmptySeq
  <2>3. opening = "idle" /\ GotoFile(i)
    BY <1>11 DEF KeyRight
  <2> HIDE DEF i
  <2> QED
    BY <2>2, <2>3, FilesInvGotoFile
<1>12. CASE KeyLeft
  <2> DEFINE i == (m_fileIndex + Len(m_fileList) - 1) % Len(m_fileList)
  <2>1. m_fileIndex \in Nat /\ Len(m_fileList) \in Nat /\ Len(m_fileList) > 1
    BY <1>0, <1>12 DEF FileListTypeOK, KeyLeft
  <2>2. i \in Nat /\ i < Len(m_fileList) /\ m_fileList # <<>>
    BY <2>1, EmptySeq
  <2>3. opening = "idle" /\ GotoFile(i)
    BY <1>12 DEF KeyLeft
  <2> HIDE DEF i
  <2> QED
    BY <2>2, <2>3, FilesInvGotoFile
<1>13. CASE ToggleHdr
  <2>1. m_fileIndex \in Nat /\ m_fileIndex < Len(m_fileList) /\ m_fileList # <<>> /\ opening = "idle"
    BY <1>13 DEF FileListTypeOK, PlaceOK, ToggleHdr
  <2>2. GotoFile(m_fileIndex)
    BY <1>13 DEF ToggleHdr
  <2> QED
    BY <2>1, <2>2, FilesInvGotoFile
<1>14. CASE DiskChanges
  BY <1>14 DEF FileListTypeOK, AskedOK, PlaceOK, DiskChanges
<1>15. CASE UNCHANGED fileListVars
  BY <1>15 DEF FileListTypeOK, AskedOK, PlaceOK, fileListVars
<1> QED
  BY <1>1, <1>2, <1>3, <1>4, <1>6, <1>7, <1>8, <1>9, <1>10, <1>11, <1>12, <1>13, <1>14, <1>15 DEF FileListNext

\* So it always holds.
LEMMA FilesInvAlways == FileListSpec => []FilesInv
BY FilesInvInit, FilesInvNext, PTL DEF FileListSpec

-----------------------------------------------------------------------------

\* The file list keeps its type: in particular every entry is a file some loader accepted.
THEOREM FileListTypeCorrect == FileListSpec => []FileListTypeOK
<1>1. FilesInv => FileListTypeOK
  BY DEF FilesInv
<1> QED
  BY <1>1, FilesInvAlways, PTL

\* Whatever is opened, pasted and pressed, and however the disk changes, an index used
\* by a key is inside the list and names the image asked for last.
THEOREM ListFollowsRequest == FileListSpec => []ListNamesRequest
<1>1. FilesInv => ListNamesRequest
  BY DEF FilesInv, PlaceOK, ListNamesRequest
<1> QED
  BY <1>1, FilesInvAlways, PTL

\* However the directory is cut into batches, opening one image lists all its neighbours.
THEOREM NeighboursAreListed == FileListSpec => DirectoryIsScanned
<1> DEFINE Complete == opening = "scan" /\ opening' = "idle" /\ requested \notin InRoot =>
               (disk \cap Images \cap SameDirectory(requested)) \ {requested} \subseteq Range(m_fileList')
<1>1. ASSUME FilesInv, [FileListNext]_fileListVars
      PROVE  [Complete]_fileListVars
  <2> SUFFICES ASSUME opening = "scan", opening' = "idle", requested \notin InRoot
               PROVE  (disk \cap Images \cap SameDirectory(requested)) \ {requested} \subseteq Range(m_fileList')
    OBVIOUS
  <2> DEFINE list == ListDirectory(requested)
             scanned == FindLoadableImages(list)
  <2>1. scanned = <<>> \/ m_fileList' = scanned
    BY <1>1 DEF FileListNext, fileListVars, NoArgument, Argument, OpenFiles, OpenNone, OpenSingle, OpenSeveral,
                ScanNothing, ScanDirectory, RawImage, KeyRight, KeyLeft, ToggleHdr, DiskChanges
  <2>2. list \in Seq(Files) /\ Range(list) = disk \cap SameDirectory(requested)
    BY <1>1, Listed DEF FilesInv, FileListTypeOK, AskedOK
  <2> HIDE DEF list
  <2>3. Range(scanned) = Range(list) \cap disk \cap Images
    BY <1>1, <2>2, Found
  <2>4. Range(<<>>) = {}
    BY DEF Range
  <2> HIDE DEF scanned
  <2> QED
    BY <2>1, <2>2, <2>3, <2>4
<1> QED
  BY <1>1, FilesInvAlways, PTL DEF DirectoryIsScanned, FileListSpec

-----------------------------------------------------------------------------
(* vv.                                                                      *)

\* A picture that touches the edge of the screen with one side has the other inside it.
LEMMA ShrunkFits ==
    ASSUME NEW size \in (Nat \ {0}) \X (Nat \ {0}), NEW screen \in (Nat \ {0}) \X (Nat \ {0}),
           NEW s \in Shrunk(size, screen)
    PROVE  Within(s, screen)
<1>1. /\ size[1] \in Nat \ {0} /\ size[2] \in Nat \ {0}
      /\ screen[1] \in Nat \ {0} /\ screen[2] \in Nat \ {0}
  OBVIOUS
<1>2. ASSUME NEW a \in Nat, NEW b \in Nat \ {0}, NEW c \in Nat, a <= c * b
      PROVE  a \div b <= c
  <2> DEFINE q == a \div b
  <2>1. q \in Nat /\ b * q <= a
    OBVIOUS
  <2> HIDE DEF q
  <2>2. ASSUME q > c
        PROVE  FALSE
    <3>1. b * q >= b * (c + 1) /\ b * (c + 1) = c * b + b
      BY <2>1, <2>2
    <3> QED
      BY <1>2, <2>1, <3>1
  <2> QED
    BY <2>1, <2>2 DEF q
<1>3. CASE screen[1] * size[2] <= screen[2] * size[1]
  <2>1. (size[2] * screen[1]) \div size[1] <= screen[2]
    <3>1. size[2] * screen[1] \in Nat /\ size[2] * screen[1] = screen[1] * size[2]
      BY <1>1
    <3> QED
      BY <1>1, <1>2, <1>3, <3>1
  <2>2. s[1] <= screen[1] /\ s[2] = (size[2] * screen[1]) \div size[1]
    BY <1>1, <1>3 DEF Shrunk
  <2> QED
    BY <2>1, <2>2 DEF Within
<1>4. CASE ~(screen[1] * size[2] <= screen[2] * size[1])
  <2>1. (size[1] * screen[2]) \div size[2] <= screen[1]
    <3>1. /\ size[1] * screen[2] \in Nat /\ size[1] * screen[2] = screen[2] * size[1]
          /\ screen[1] * size[2] \in Nat
      BY <1>1
    <3>2. size[1] * screen[2] <= screen[1] * size[2]
      BY <1>4, <3>1
    <3> QED
      BY <1>1, <1>2, <3>1, <3>2
  <2>2. s[2] <= screen[2] /\ s[1] = (size[1] * screen[2]) \div size[2]
    BY <1>1, <1>4 DEF Shrunk
  <2> QED
    BY <2>1, <2>2 DEF Within
<1> QED
  BY <1>3, <1>4

\* Whatever scaling was asked for.
LEMMA AdjustedFits ==
    ASSUME NEW size \in (Nat \ {0}) \X (Nat \ {0}), NEW screen \in (Nat \ {0}) \X (Nat \ {0}),
           NEW s \in Adjusted(size, screen)
    PROVE  Within(s, screen)
BY ShrunkFits DEF Adjusted

\* What the queue between the terminal and vv can hold.
Single(a) ==
    \/ input = <<>> /\ coming = <<a>>
    \/ input = <<a>> /\ coming = <<>>
Couple(a, b) ==
    \/ input = <<>> /\ coming = <<a, b>>
    \/ input = <<a>> /\ coming = <<b>>
    \/ input = <<a, b>> /\ coming = <<>>
Empty == input = <<>> /\ coming = <<>>

\* What this terminal can answer.
Answers == {"size", "attributes", "number"}
               \cup {a \in {"ok"} : terminal = "kitty"} \cup {a \in {"sixel"} : terminal = "sixel"}

\* What is taken from a queue, and what is put in.
LEMMA Taken ==
    ASSUME NEW S, NEW s \in Seq(S), s # <<>>
    PROVE  Head(s) \in S /\ Tail(s) \in Seq(S)
OBVIOUS

\* The same of a queue that is put behind another.
LEMMA Put ==
    ASSUME NEW S, NEW s \in Seq(S)
    PROVE  /\ \A a \in S : Append(s, a) \in Seq(S)
           /\ \A t \in Seq(S) : s \o t \in Seq(S)
OBVIOUS

\* Queues of one answer and of two.
LEMMA ShortQueues ==
    ASSUME NEW S, NEW a \in S, NEW b \in S
    PROVE  <<a>> \in Seq(S) /\ <<a, b>> \in Seq(S) /\ <<>> \in Seq(S)
OBVIOUS

\* What is taken from one answer, and what becomes of an empty queue.
LEMMA OneAnswer ==
    ASSUME NEW a
    PROVE  /\ Head(<<a>>) = a /\ Last(<<a>>) = a /\ <<a>> # <<>>
           /\ Tail(<<a>>) = <<>>
           /\ Append(<<>>, a) = <<a>>
<1>1. Head(<<a>>) = a /\ Last(<<a>>) = a /\ <<a>> # <<>>
  BY DEF Last
<1>2. Tail(<<a>>) = <<>>
  OBVIOUS
<1>3. Append(<<>>, a) = <<a>>
  OBVIOUS
<1> QED
  BY <1>1, <1>2, <1>3

\* The same of two.
LEMMA TwoAnswers ==
    ASSUME NEW a, NEW b
    PROVE  /\ Head(<<a, b>>) = a /\ <<a, b>> # <<>>
           /\ Tail(<<a, b>>) = <<b>>
           /\ Append(<<a>>, b) = <<a, b>>
<1>1. Head(<<a, b>>) = a /\ <<a, b>> # <<>>
  OBVIOUS
<1>2. Tail(<<a, b>>) = <<b>>
  OBVIOUS
<1>3. Append(<<a>>, b) = <<a, b>>
  <2>1. <<a>> \in Seq({a, b}) /\ b \in {a, b} /\ Len(<<a>>) = 1
    OBVIOUS
  <2>2. Append(<<a>>, b) \in Seq({a, b}) /\ Len(Append(<<a>>, b)) = 2
    BY <2>1, AppendProperties
  <2>3. Append(<<a>>, b)[1] = a /\ Append(<<a>>, b)[2] = b
    BY <2>1, AppendProperties
  <2>4. <<a, b>> \in Seq({a, b}) /\ Len(<<a, b>>) = 2 /\ <<a, b>>[1] = a /\ <<a, b>>[2] = b
    OBVIOUS
  <2> DEFINE s == Append(<<a>>, b)
             t == <<a, b>>
  <2>5. s \in Seq({a, b}) /\ t \in Seq({a, b}) /\ Len(s) = Len(t) /\ Len(s) = 2 /\ s[1] = t[1] /\ s[2] = t[2]
    BY <2>2, <2>3, <2>4
  <2> HIDE DEF s, t
  <2>6. \A i \in 1 .. Len(s) : s[i] = t[i]
    BY <2>5
  <2>7. s = t
    BY <2>5, <2>6, SeqEqual
  <2> QED
    BY <2>7 DEF s, t
<1> QED
  BY <1>1, <1>2, <1>3

\* Nothing before them.
LEMMA Joined ==
    ASSUME NEW a, NEW b
    PROVE  <<>> \o <<a>> = <<a>> /\ <<>> \o <<a, b>> = <<a, b>>
<1>1. <<>> \o <<a>> = <<a>>
  OBVIOUS
<1>2. <<>> \o <<a, b>> = <<a, b>>
  OBVIOUS
<1> QED
  BY <1>1, <1>2

QueuesOK == coming \in Seq(Answers) /\ input \in Seq(Answers)

\* The variables keep their types.
ViewerTypeOK ==
    /\ options \in [output : {"Kitty", "Sixel", "Block", "WriteFile"}, scale : {"None", "Fit", "Scale2x"}]
    /\ terminal \in {"kitty", "sixel", "text", "plain", "none"}
    /\ \/ image = Loading
       \/ image \in [kind : Kinds, size : PictureSizes]
       \/ image = [kind |-> "none", size |-> <<0, 0>>]
    /\ step \in {"start", "size", "graphics", "join", "draw", "numbered", "frames", "playing", "exited"}

\* Until the query for graphics is answered, the mode is the one asked for; then it is one
\* the terminal has.
ModeOK ==
    /\ step \in {"start", "size", "graphics"} => gfxMode = options.output
    /\ step \in {"join", "draw", "numbered", "frames"} =>
          /\ gfxMode = "Kitty" => terminal = "kitty"
          /\ gfxMode = "Sixel" => terminal = "sixel" \/ (terminal = "kitty" /\ options.output = "Sixel")

\* No answer is left over from one query to the next, unless one was given up or torn.
QueueOK ==
    /\ step \in {"start", "size", "graphics"} => ~torn
    /\ ~gaveUp /\ ~torn =>
           /\ step = "start" => Empty
           /\ step = "size" => IF terminal = "plain" THEN Empty ELSE Single("size")
           /\ step = "graphics" =>
                 CASE terminal = "kitty" -> Couple("ok", "attributes")
                   [] terminal = "sixel" -> Single("sixel")
                   [] OTHER -> Single("attributes")
           /\ step \in {"join", "draw"} /\ gfxMode = "Kitty" => Empty
           /\ step = "numbered" => Single("number")

\* What is known of the picture that is drawn, and of the terminal it is drawn on.
DrawnOK ==
    /\ step \in {"start", "size", "graphics", "join", "draw"} => drawn = <<0, 0>>
    /\ step \in {"draw", "numbered", "frames", "playing", "exited"} => image # Loading
    /\ step \in {"draw", "numbered", "frames", "playing"} => image.kind # "none"
    /\ step \in {"numbered", "frames", "playing", "exited"} /\ gfxMode # "WriteFile" =>
          \E s \in ScreenSizes : Within(drawn, s)
    /\ step \in {"numbered", "frames"} => gfxMode = "Kitty"
    /\ step = "exited" => ~termOpen

ViewerInv == ViewerTypeOK /\ QueuesOK /\ ModeOK /\ QueueOK /\ DrawnOK /\ AnimationIsShown

\* Before anything has happened.
LEMMA ViewerInvInit == ViewerInit => ViewerInv
BY DEF ViewerInit, ViewerInv, ViewerTypeOK, QueuesOK, ModeOK, QueueOK, DrawnOK, AnimationIsShown, Empty, Answers

\* What a query returns.
LEMMA ReturnedAnswers ==
    ASSUME NEW answers, Returns(answers)
    PROVE  \/ answers = input /\ input # <<>> /\ input' = <<>> /\ gaveUp' = gaveUp
           \/ answers = <<>> /\ gaveUp' = TRUE /\ input' = <<>> /\ input = <<>>
BY DEF Returns, Reads, TimesOut

\* The terminal stays what it is.
LEMMA AnswersKept ==
    ASSUME terminal' = terminal
    PROVE  Answers' = Answers
BY DEF Answers

\* What can be answered.
LEMMA AnswersAre ==
    /\ "size" \in Answers /\ "attributes" \in Answers /\ "number" \in Answers
    /\ "ok" \in Answers <=> terminal = "kitty"
    /\ "sixel" \in Answers <=> terminal = "sixel"
BY DEF Answers

\* The terminal answers what it can.
LEMMA TerminalAnswers ==
    /\ <<>> \in Seq(Answers) /\ <<"number">> \in Seq(Answers)
    /\ SizeAnswers \in Seq(Answers) /\ GraphicsAnswers \in Seq(Answers)
<1>1. CASE terminal = "kitty"
  BY <1>1, AnswersAre, ShortQueues DEF SizeAnswers, GraphicsAnswers
<1>2. CASE terminal = "sixel"
  BY <1>2, AnswersAre, ShortQueues DEF SizeAnswers, GraphicsAnswers
<1>3. CASE terminal \notin {"kitty", "sixel"}
  BY <1>3, AnswersAre, ShortQueues DEF SizeAnswers, GraphicsAnswers
<1> QED
  BY <1>1, <1>2, <1>3

\* Every step keeps the invariant.
LEMMA ViewerInvNext ==
    ASSUME ViewerInv, [ViewerNext]_viewerVars
    PROVE  ViewerInv'
<1> USE DEF ViewerInv
<1> USE AnswersKept
<1>1. CASE ImageThread
  <2>1. QueuesOK'
    BY <1>1 DEF ImageThread, request, QueuesOK
  <2> QED
    BY <1>1, <2>1 DEF ImageThread, request, ViewerTypeOK, ModeOK, QueueOK, DrawnOK, AnimationIsShown, Empty,
      Single, Couple, Loading, Kinds
<1>2. CASE Answer
  <2>1. QueuesOK'
    BY <1>2, Taken, Put DEF Answer, request, QueuesOK
  <2>2. ViewerTypeOK'
    BY <1>2 DEF Answer, request, ViewerTypeOK
  <2>3. ASSUME NEW a, Single(a)
        PROVE  Single(a)'
    BY <1>2, <2>3, OneAnswer, Zenon DEF Answer, Single
  <2>6. ASSUME NEW a, NEW b, Couple(a, b)
        PROVE  Couple(a, b)'
    <3>1. CASE input = <<>> /\ coming = <<a, b>>
      <4>1. input' = <<a>> /\ coming' = <<b>>
        BY <1>2, <3>1, OneAnswer, TwoAnswers DEF Answer
      <4> QED
        BY <4>1 DEF Couple
    <3>2. CASE input = <<a>> /\ coming = <<b>>
      <4>1. input' = <<a, b>> /\ coming' = <<>>
        BY <1>2, <3>2, OneAnswer, TwoAnswers DEF Answer
      <4> QED
        BY <4>1 DEF Couple
    <3> QED
      BY <1>2, <2>6, <3>1, <3>2 DEF Answer, Couple
  <2>7. ~Empty
    BY <1>2 DEF Answer, Empty
  <2>4. QueueOK'
    BY <1>2, <2>3, <2>6, <2>7 DEF QueueOK, Answer, request
  <2>5. ModeOK' /\ DrawnOK' /\ AnimationIsShown'
    BY <1>2 DEF Answer, request, ModeOK, DrawnOK, AnimationIsShown
  <2> QED
    BY <2>1, <2>2, <2>4, <2>5
<1>3. CASE OpenTerminal
  <2>1. ViewerTypeOK' /\ QueuesOK'
    BY <1>3, TerminalAnswers DEF OpenTerminal, request, ViewerTypeOK, QueuesOK
  <2>2. ModeOK' /\ DrawnOK' /\ AnimationIsShown'
    BY <1>3 DEF OpenTerminal, request, ViewerTypeOK, ModeOK, DrawnOK, AnimationIsShown
  <2>3. QueueOK'
    BY <1>3 DEF OpenTerminal, request, ViewerTypeOK, ModeOK, QueueOK, Empty, SizeAnswers, Single
  <2> QED
    BY <2>1, <2>2, <2>3
<1>4. CASE CharacterSize
  <2>1. PICK answers \in Replies :
          /\ Returns(answers)
          /\ IF answers # <<>> /\ Head(answers) = "size"
               THEN /\ step' = "graphics"
                    /\ coming' = coming \o GraphicsAnswers
                    /\ UNCHANGED gfxMode
               ELSE /\ step' = "join"
                    /\ gfxMode' = "Block"
                    /\ UNCHANGED coming
    BY <1>4 DEF CharacterSize
  <2>2. step = "size" /\ UNCHANGED <<options, terminal, image, termOpen, torn, animId, drawn, status>>
    BY <1>4 DEF CharacterSize, request
  <2>3. input' = <<>> /\ (gaveUp' \/ gaveUp' = gaveUp)
    BY <2>1, ReturnedAnswers
  <2>4. ViewerTypeOK' /\ QueuesOK'
    <3>1. coming \o GraphicsAnswers \in Seq(Answers)
      BY TerminalAnswers, Put DEF QueuesOK
    <3>2. coming' \in Seq(Answers)
      BY <2>1, <3>1 DEF QueuesOK
    <3> QED
      BY <2>1, <2>2, <2>3, <3>2, TerminalAnswers DEF ViewerTypeOK, QueuesOK
  <2>5. ModeOK' /\ DrawnOK' /\ AnimationIsShown'
    BY <2>1, <2>2, <2>3 DEF ModeOK, DrawnOK, AnimationIsShown
  <2>6. QueueOK'
    <3>1. SUFFICES ASSUME ~gaveUp', ~torn', step' = "graphics"
                   PROVE  QueueOK'
      BY <2>1, <2>2 DEF QueueOK
    <3>2. answers = input /\ input # <<>> /\ ~gaveUp /\ ~torn
      BY <2>1, <2>2, <3>1, ReturnedAnswers
    <3>3. coming = <<>>
      BY <2>2, <3>2 DEF QueueOK, Single, Empty
    <3>4. coming' = GraphicsAnswers
      BY <2>1, <3>1, <3>3, Joined DEF GraphicsAnswers
    <3>5. CASE terminal = "kitty"
      <4>1. Couple("ok", "attributes")'
        BY <2>3, <3>4, <3>5 DEF GraphicsAnswers, Couple
      <4> QED
        BY <2>2, <3>1, <3>5, <4>1 DEF QueueOK
    <3>6. CASE terminal = "sixel"
      <4>1. Single("sixel")'
        BY <2>3, <3>4, <3>6 DEF GraphicsAnswers, Single
      <4> QED
        BY <2>2, <3>1, <3>6, <4>1 DEF QueueOK
    <3>7. CASE terminal \notin {"kitty", "sixel"}
      <4>1. Single("attributes")'
        BY <2>3, <3>4, <3>7 DEF GraphicsAnswers, Single
      <4> QED
        BY <2>2, <3>1, <3>7, <4>1 DEF QueueOK
    <3>8. terminal \in {"kitty", "sixel"} \/ terminal \notin {"kitty", "sixel"}
      OBVIOUS
    <3> QED
      BY <3>5, <3>6, <3>7, <3>8
  <2> QED
    BY <2>4, <2>5, <2>6
<1>5. CASE Graphics
  <2>1. PICK answers \in Replies :
          /\ Returns(answers)
          /\ torn' = (answers = <<"ok">>)
          /\ gfxMode' = IF answers = <<>> THEN "Block"
                        ELSE IF Head(answers) = "ok" THEN gfxMode
                        ELSE IF Head(answers) = "sixel" THEN "Sixel"
                        ELSE "Block"
    BY <1>5 DEF Graphics
  <2>2. /\ step = "graphics" /\ step' = "join"
        /\ UNCHANGED <<options, terminal, image, termOpen, coming, animId, drawn, status>>
    BY <1>5 DEF Graphics, request
  <2>3. input' = <<>> /\ (gaveUp' \/ gaveUp' = gaveUp)
    BY <2>1, ReturnedAnswers
  <2>4. ViewerTypeOK' /\ QueuesOK'
    BY <2>2, <2>3, TerminalAnswers DEF ViewerTypeOK, QueuesOK
  <2>5. answers # <<>> => Head(answers) \in Answers
    BY <2>1, ReturnedAnswers, Taken DEF QueuesOK
  <2>6. ModeOK'
    BY <2>1, <2>2, <2>5, AnswersAre DEF ModeOK
  <2>7. QueueOK'
    <3>1. SUFFICES ASSUME ~gaveUp', ~torn', gfxMode' = "Kitty"
                   PROVE  Empty'
      BY <2>2, <2>3 DEF QueueOK
    <3>2. answers = input /\ input # <<>> /\ ~gaveUp
      BY <2>1, <3>1, ReturnedAnswers
    <3>3. input # <<"ok">>
      BY <2>1, <3>1, <3>2
    <3>4. \/ Couple("ok", "attributes")
          \/ Single("sixel") \/ Single("attributes")
      BY <2>2, <3>1, <3>2 DEF QueueOK
    <3>5. coming = <<>>
      BY <3>2, <3>3, <3>4, Zenon DEF Single, Couple
    <3> QED
      BY <2>2, <2>3, <3>5 DEF Empty
  <2>8. DrawnOK' /\ AnimationIsShown'
    BY <2>2 DEF DrawnOK, AnimationIsShown
  <2> QED
    BY <2>4, <2>6, <2>7, <2>8
<1>6. CASE Join
  <2>1. UNCHANGED <<options, terminal, image, gfxMode, coming, gaveUp, torn, animId, drawn>> /\ step = "join" /\ image # Loading
    BY <1>6 DEF Join, request
  <2>2. CASE image.kind = "none"
    <3>1. step' = "exited" /\ termOpen' = FALSE /\ input' = <<>>
      BY <1>6, <2>2 DEF Join, Exit
    <3>2. PICK screen \in ScreenSizes : screen[1] >= 0 /\ screen[2] >= 0
      BY SizesAssumption
    <3>3. Within(drawn, screen)
      BY <2>1, <3>2 DEF DrawnOK, Within
    <3>4. ViewerTypeOK' /\ QueuesOK'
      BY <2>1, <3>1, TerminalAnswers DEF ViewerTypeOK, QueuesOK
    <3>5. DrawnOK'
      BY <2>1, <3>1, <3>2, <3>3 DEF DrawnOK, Within
    <3> QED
      BY <2>1, <2>2, <3>1, <3>4, <3>5 DEF ModeOK, QueueOK, AnimationIsShown
  <2>3. CASE image.kind # "none"
    <3>1. step' = "draw" /\ UNCHANGED <<termOpen, input>>
      BY <1>6, <2>3 DEF Join
    <3> QED
      BY <2>1, <2>3, <3>1 DEF ViewerTypeOK, QueuesOK, ModeOK, QueueOK, DrawnOK, AnimationIsShown, Empty
  <2> QED
    BY <2>2, <2>3
<1>7. CASE \E screen \in ScreenSizes : DrawImage(screen)
  <2>1. PICK screen \in ScreenSizes : DrawImage(screen)
    BY <1>7
  <2>2. step = "draw" /\ UNCHANGED <<options, terminal, image, gfxMode, gaveUp, torn, animId>>
    BY <2>1 DEF DrawImage, request
  <2>3. image \in [kind : Kinds, size : PictureSizes] /\ image # Loading /\ image.kind # "none"
    BY <2>2 DEF DrawnOK, ViewerTypeOK
  <2>4. gfxMode # "WriteFile" => Within(drawn', screen)
    <3>1. CASE gfxMode = "Sixel" /\ image.kind = "anim"
      <4>1. drawn' = <<0, 0>> /\ screen[1] >= 0 /\ screen[2] >= 0
        BY <2>1, <2>2, <3>1, SizesAssumption DEF DrawImage, DrawnOK
      <4> QED
        BY <4>1 DEF Within
    <3>2. CASE ~(gfxMode = "Sixel" /\ image.kind = "anim") /\ gfxMode # "WriteFile"
      <4>1. drawn' \in Adjusted(image.size, screen)
        BY <2>1, <3>2 DEF DrawImage
      <4>2. image.size \in (Nat \ {0}) \X (Nat \ {0}) /\ screen \in (Nat \ {0}) \X (Nat \ {0})
        BY <2>3, SizesAssumption
      <4> QED
        BY <4>1, <4>2, AdjustedFits
    <3> QED
      BY <3>1, <3>2
  <2>5. \/ step' = "exited" /\ termOpen' = FALSE /\ input' = <<>> /\ coming' = coming
           /\ (image.kind = "anim" => gfxMode # "Kitty")
        \/ step' = "playing" /\ gfxMode = "Block" /\ UNCHANGED <<termOpen, coming, input>>
        \/ step' = "numbered" /\ gfxMode = "Kitty" /\ coming' = Append(coming, "number") /\ UNCHANGED <<termOpen, input>>
    BY <2>1 DEF DrawImage, Exit
  <2>6. ViewerTypeOK' /\ QueuesOK'
    <3>1. Append(coming, "number") \in Seq(Answers)
      BY AnswersAre, Put DEF QueuesOK
    <3>2. coming' \in Seq(Answers) /\ input' \in Seq(Answers)
      BY <2>5, <3>1, TerminalAnswers DEF QueuesOK
    <3> QED
      BY <2>2, <2>5, <3>2 DEF ViewerTypeOK, QueuesOK
  <2>7. ModeOK' /\ AnimationIsShown'
    BY <2>2, <2>5 DEF ModeOK, AnimationIsShown
  <2>8. QueueOK'
    BY <2>2, <2>5, OneAnswer DEF QueueOK, Empty, Single
  <2>9. DrawnOK'
    BY <2>2, <2>3, <2>4, <2>5 DEF DrawnOK
  <2> QED
    BY <2>6, <2>7, <2>8, <2>9
<1>8. CASE Upload
  <2>1. PICK answers \in Replies :
          /\ Returns(answers)
          /\ IF answers # <<>> /\ Last(answers) = "number"
               THEN /\ animId' = (Head(answers) = "number")
                    /\ step' = "frames"
                    /\ UNCHANGED <<status, termOpen>>
               ELSE /\ step' = "exited"
                    /\ status' = "failed"
                    /\ termOpen' = FALSE
                    /\ UNCHANGED animId
    BY <1>8 DEF Upload
  <2>2. step = "numbered" /\ UNCHANGED <<options, terminal, image, gfxMode, coming, torn, drawn>>
    BY <1>8 DEF Upload, request
  <2>3. input' = <<>> /\ (gaveUp' \/ gaveUp' = gaveUp)
    BY <2>1, ReturnedAnswers
  <2>4. ViewerTypeOK' /\ QueuesOK'
    BY <2>1, <2>2, <2>3, TerminalAnswers DEF ViewerTypeOK, QueuesOK
  <2>5. ModeOK' /\ QueueOK' /\ DrawnOK'
    BY <2>1, <2>2, <2>3 DEF ModeOK, QueueOK, DrawnOK
  <2>6. AnimationIsShown'
    <3>1. SUFFICES ASSUME ~gaveUp', ~torn'
                   PROVE  animId'
      BY DEF AnimationIsShown
    <3>2. answers = input /\ input # <<>> /\ ~gaveUp /\ ~torn
      BY <2>1, <2>2, <3>1, ReturnedAnswers
    <3>3. answers = <<"number">>
      BY <2>2, <3>2 DEF QueueOK, Single
    <3> QED
      BY <2>1, <3>3, OneAnswer
  <2> QED
    BY <2>4, <2>5, <2>6
<1>9. CASE Frames
  <2>1. /\ UNCHANGED <<options, terminal, image, gfxMode, coming, gaveUp, torn, animId, drawn>> /\ step = "frames"
        /\ step' = "exited" /\ termOpen' = FALSE /\ input' = <<>>
    BY <1>9 DEF Frames, Exit, request
  <2>2. ViewerTypeOK' /\ QueuesOK'
    BY <2>1, TerminalAnswers DEF ViewerTypeOK, QueuesOK
  <2> QED
    BY <2>1, <2>2 DEF ModeOK, QueueOK, DrawnOK, AnimationIsShown
<1>10. CASE UNCHANGED viewerVars
  <2>1. QueuesOK'
    BY <1>10 DEF viewerVars, QueuesOK
  <2> QED
    BY <1>10, <2>1 DEF viewerVars, ViewerTypeOK, ModeOK, QueueOK, DrawnOK, AnimationIsShown, Empty, Single, Couple
<1> QED
  BY <1>1, <1>2, <1>3, <1>4, <1>5, <1>6, <1>7, <1>8, <1>9, <1>10 DEF ViewerNext

\* ShownAsTerminalCan: however the answers are delayed, merged and torn apart, for pictures
\* and screens of any size, vv draws in a way the terminal has, what fits it, and shows an
\* animation under the number the terminal gave it.
THEOREM ViewerCorrect == ViewerInit /\ [][ViewerNext]_viewerVars => []ShownAsTerminalCan
<1>1. ViewerInv => ShownAsTerminalCan
  BY DEF ViewerInv, ShownAsTerminalCan, ModeOK, ModeIsSupported, DrawnOK, DrawnFits
<1> QED
  BY <1>1, ViewerInvInit, ViewerInvNext, PTL

-----------------------------------------------------------------------------
(* The mouse cursor.                                                        *)

\* A finite set of numbers has a greatest one.
LEMMA GreatestOf ==
    ASSUME NEW S \in SUBSET Nat, S # {}, IsFiniteSet(S)
    PROVE  Max(S) \in S /\ \A y \in S : Max(S) >= y
<1> DEFINE HasGreatest(T) == \E x \in T : \A y \in T : x >= y
           N == {n \in Nat : \A T \in SUBSET Nat : IsFiniteSet(T) /\ Cardinality(T) = n /\ T # {} => HasGreatest(T)}
<1>1. 0 \in N
  BY FS_EmptySet
<1>2. ASSUME NEW n \in Nat, n \in N
      PROVE  n + 1 \in N
  <2> SUFFICES ASSUME NEW T \in SUBSET Nat, IsFiniteSet(T), Cardinality(T) = n + 1, T # {}
               PROVE  HasGreatest(T)
    OBVIOUS
  <2>1. PICK x \in T : TRUE
    OBVIOUS
  <2> DEFINE R == T \ {x}
  <2>2. R \in SUBSET Nat /\ IsFiniteSet(R) /\ Cardinality(R) = n
    <3>1. IsFiniteSet(R) /\ Cardinality(R) = Cardinality(T) - 1
      BY FS_RemoveElement
    <3> QED
      BY <3>1
  <2>3. CASE R = {}
    <3>1. \A y \in T : y = x
      BY <2>3
    <3> QED
      BY <3>1
  <2>4. CASE R # {}
    <3>1. PICK z \in R : \A y \in R : z >= y
      BY <1>2, <2>2, <2>4
    <3>2. CASE x >= z
      <4>1. \A y \in T : x >= y
        BY <3>1, <3>2
      <4> QED
        BY <4>1
    <3>3. CASE ~(x >= z)
      <4>1. \A y \in T : z >= y
        BY <3>1, <3>3
      <4> QED
        BY <4>1
    <3> QED
      BY <3>2, <3>3
  <2> QED
    BY <2>3, <2>4
<1> HIDE DEF N
<1>3. Nat \subseteq N
  BY <1>1, <1>2, Numbers
<1>4. HasGreatest(S)
  BY <1>3, FS_CardinalityType DEF N
<1> QED
  BY <1>4 DEF Max

\* The size in use is the nearest one to the size asked for.
LEMMA NearestSize ==
    ASSUME SizesIn(m_cursor) # {}, NEW wanted \in Nat
    PROVE  /\ FitSize(wanted) \in SizesIn(m_cursor)
           /\ \A s \in SizesIn(m_cursor) :
                 (FitSize(wanted) - wanted) * (FitSize(wanted) - wanted) <= (s - wanted) * (s - wanted)
<1> DEFINE S == SizesIn(m_cursor)
           above == {s \in S : s >= wanted}
           below == {s \in S : s < wanted}
           size == FitSize(wanted)
<1>1. S \in SUBSET CursorSizes /\ S \in SUBSET Nat /\ IsFiniteSet(S) /\ S # {}
  <2>1. S \subseteq CursorSizes
    BY DEF SizesIn
  <2> QED
    BY <2>1, CursorSizesAssumption, FS_Subset
<1>2. size = CASE wanted < Min(S) -> Min(S)
               [] wanted > Max(S) -> Max(S)
               [] wanted \in S -> wanted
               [] OTHER -> IF Min(above) - wanted > wanted - Max(below) THEN Max(below) ELSE Min(above)
  BY DEF FitSize
<1> HIDE DEF S, size
<1>3. /\ Min(S) \in S /\ \A y \in S : Min(S) <= y
      /\ Max(S) \in S /\ \A y \in S : Max(S) >= y
  BY <1>1, LeastOf, GreatestOf
<1>4. ASSUME NEW a \in Nat, NEW b \in Nat, \/ wanted <= a /\ a <= b
                                           \/ b <= a /\ a <= wanted
                                           \/ a <= wanted /\ wanted <= b /\ wanted - a <= b - wanted
                                           \/ b <= wanted /\ wanted <= a /\ a - wanted <= wanted - b
      PROVE  (a - wanted) * (a - wanted) <= (b - wanted) * (b - wanted)
  <2>1. ASSUME NEW x \in Nat, NEW y \in Nat, x <= y
        PROVE  x * x <= y * y
    <3>1. x * x <= x * y /\ x * y <= y * y
      BY <2>1
    <3> QED
      BY <3>1
  <2>2. PICK x \in Nat : x = a - wanted \/ x = wanted - a
    <3>1. a - wanted \in Nat \/ wanted - a \in Nat
      OBVIOUS
    <3> QED
      BY <3>1
  <2>3. PICK y \in Nat : y = b - wanted \/ y = wanted - b
    <3>1. b - wanted \in Nat \/ wanted - b \in Nat
      OBVIOUS
    <3> QED
      BY <3>1
  <2>4. (a - wanted) * (a - wanted) = x * x /\ (b - wanted) * (b - wanted) = y * y
    BY <2>2, <2>3
  <2>5. x <= y
    BY <1>4, <2>2, <2>3
  <2> QED
    BY <2>1, <2>4, <2>5
<1>5. CASE wanted < Min(S)
  BY <1>1, <1>2, <1>3, <1>4, <1>5 DEF S, size
<1>6. CASE ~(wanted < Min(S)) /\ wanted > Max(S)
  BY <1>1, <1>2, <1>3, <1>4, <1>6 DEF S, size
<1>7. CASE ~(wanted < Min(S)) /\ ~(wanted > Max(S)) /\ wanted \in S
  BY <1>1, <1>2, <1>3, <1>4, <1>7 DEF S, size
<1>8. CASE ~(wanted < Min(S)) /\ ~(wanted > Max(S)) /\ wanted \notin S
  <2>1. Max(S) \in above /\ Min(S) \in below
    <3> DEFINE most == Max(S)
               least == Min(S)
    <3>1. most \in S /\ least \in S /\ most \in Nat /\ least \in Nat
      BY <1>1, <1>3
    <3> HIDE DEF most, least
    <3>2. most >= wanted /\ least < wanted
      <4>1. most >= wanted /\ least <= wanted
        BY <1>8, <3>1 DEF most, least
      <4> QED
        BY <1>8, <3>1, <4>1
    <3> QED
      BY <3>1, <3>2 DEF most, least
  <2>2. above \in SUBSET Nat /\ below \in SUBSET Nat /\ IsFiniteSet(below)
    BY <1>1, FS_Subset
  <2>3. /\ Min(above) \in above /\ \A y \in above : Min(above) <= y
        /\ Max(below) \in below /\ \A y \in below : Max(below) >= y
    BY <2>1, <2>2, LeastOf, GreatestOf
  <2> DEFINE u == Min(above)
             d == Max(below)
  <2>4. u \in S /\ d \in S /\ u \in Nat /\ d \in Nat /\ u >= wanted /\ d < wanted
    BY <1>1, <2>3
  <2>5. \A y \in S : y \in Nat /\ (y >= u \/ y <= d)
    BY <1>1, <2>3
  <2>6. size = IF u - wanted > wanted - d THEN d ELSE u
    BY <1>2, <1>8
  <2> HIDE DEF u, d
  <2>7. ASSUME NEW y \in S
        PROVE  (size - wanted) * (size - wanted) <= (y - wanted) * (y - wanted)
    <3>1. y \in Nat /\ size \in Nat
      BY <2>4, <2>5, <2>6
    <3>2. \/ wanted <= size /\ size <= y
          \/ y <= size /\ size <= wanted
          \/ size <= wanted /\ wanted <= y /\ wanted - size <= y - wanted
          \/ y <= wanted /\ wanted <= size /\ size - wanted <= wanted - y
      BY <2>4, <2>5, <2>6, <3>1
    <3> QED
      BY <1>4, <3>1, <3>2
  <2> QED
    BY <2>4, <2>6, <2>7 DEF S, size
<1> QED
  BY <1>5, <1>6, <1>7, <1>8

-----------------------------------------------------------------------------
(* The time an animation takes.                                             *)

\* A number below the divisor is the remainder.
LEMMA Remains ==
    ASSUME NEW w \in Nat \ {0}, NEW n \in Nat, n < w
    PROVE  n % w = n
<1>1. n = w * 0 + n
  OBVIOUS
<1> QED
  BY <1>1, DivMod

L(data) == Len(data.frames)

\* Every frame of an animation lasts.
Moving(data) == L(data) \in Nat \ {0} /\ \A i \in 1 .. L(data) : data.frames[i].delay \in Nat \ {0}

\* The frames repeat.
LEMMA DelayRepeats ==
    ASSUME NEW data, Moving(data), NEW k \in Nat
    PROVE  /\ Delay(data, k) \in Nat \ {0}
           /\ \A q \in Nat : Delay(data, k + q * L(data)) = Delay(data, k)
           /\ k % L(data) \in 0 .. L(data) - 1 /\ Delay(data, k) = Delay(data, k % L(data))
<1> DEFINE r == k % L(data)
           d == k \div L(data)
<1>1. L(data) \in Nat \ {0}
  BY DEF Moving
<1>2. d \in Nat /\ r \in Nat /\ r < L(data) /\ k = L(data) * d + r
  BY <1>1, Division
<1>3. \A i \in Nat : Delay(data, i) = data.frames[(i % L(data)) + 1].delay
  BY DEF Delay, L
<1> HIDE DEF r, d
<1>4. r + 1 \in 1 .. L(data)
  BY <1>1, <1>2
<1>5. Delay(data, k) \in Nat \ {0}
  BY <1>3, <1>4 DEF Moving, r
<1>6. ASSUME NEW q \in Nat
      PROVE  Delay(data, k + q * L(data)) = Delay(data, k)
  <2> DEFINE n == k + q * L(data)
             e == d + q
  <2>1. n \in Nat /\ e \in Nat /\ n = L(data) * e + r
    BY <1>1, <1>2, Product
  <2> HIDE DEF n, e
  <2>2. n % L(data) = r
    BY <1>1, <1>2, <2>1, DivMod
  <2> QED
    BY <1>3, <2>1, <2>2 DEF n, r
<1>7. r % L(data) = r
  <2>1. r = L(data) * 0 + r
    BY <1>1, <1>2
  <2> QED
    BY <1>1, <1>2, <2>1, DivMod
<1>8. Delay(data, k) = Delay(data, r)
  BY <1>2, <1>3, <1>7 DEF r
<1> QED
  BY <1>1, <1>2, <1>5, <1>6, <1>8 DEF r

\* What e says: when the frames end, each as much later as it lasts.
EndsOf(data, frame, rest, most, e) ==
    /\ e \in [0 .. most -> Nat] /\ e[0] = rest
    /\ \A n \in 1 .. most : e[n] = e[n - 1] + Delay(data, frame + n)

\* When the frames end: each as much later as it lasts.
LEMMA EndsAre ==
    ASSUME NEW data, Moving(data), NEW frame \in Nat, NEW rest \in Nat, NEW most \in Nat
    PROVE  EndsOf(data, frame, rest, most, Ends(data, frame, rest, most))
<1> DEFINE g == [p \in (1 .. most) \X Nat |-> p[2] + Delay(data, frame + p[1])]
           e == Ends(data, frame, rest, most)
           Is(f) == f = [n \in 0 .. most |-> IF n = 0 THEN rest ELSE f[n - 1] + Delay(data, frame + n)]
<1>1. g \in [(1 .. most) \X Nat -> Nat]
  <2> SUFFICES ASSUME NEW n \in 1 .. most, NEW t \in Nat
               PROVE  t + Delay(data, frame + n) \in Nat
    OBVIOUS
  <2>1. Delay(data, frame + n) \in Nat
    BY DelayRepeats
  <2> QED
    BY <2>1
<1>2. PICK f \in [0 .. most -> Nat] : Iterates(most, rest, g, f)
  <2> HIDE DEF g
  <2> QED
    BY <1>1, Recursion
<1>3. f = [n \in 0 .. most |-> IF n = 0 THEN rest ELSE f[n - 1] + Delay(data, frame + n)]
  <2>1. ASSUME NEW n \in 0 .. most
        PROVE  f[n] = IF n = 0 THEN rest ELSE f[n - 1] + Delay(data, frame + n)
    <3>1. CASE n = 0
      BY <1>2, <3>1 DEF Iterates
    <3>2. CASE n # 0
      <4>1. n \in 1 .. most /\ f[n - 1] \in Nat
        BY <1>2, <3>2
      <4>2. f[n] = g[<<n, f[n - 1]>>]
        BY <1>2, <4>1 DEF Iterates
      <4> QED
        BY <3>2, <4>1, <4>2
    <3> QED
      BY <3>1, <3>2
  <2> QED
    BY <1>2, <2>1
<1>4. e = CHOOSE h : Is(h)
  BY DEF Ends
<1> HIDE DEF e
<1>5. e = [n \in 0 .. most |-> IF n = 0 THEN rest ELSE e[n - 1] + Delay(data, frame + n)]
  <2>1. Is(f)
    BY <1>3
  <2>2. Is(e)
    <3> HIDE DEF Is
    <3> QED
      BY <1>4, <2>1
  <2> QED
    BY <2>2
<1>6. e[0] = rest /\ \A n \in 1 .. most : e[n] = e[n - 1] + Delay(data, frame + n)
  BY <1>5
<1>7. f[0] = rest /\ \A n \in 1 .. most : f[n] = f[n - 1] + Delay(data, frame + n)
  BY <1>3
<1>8. Agree(most, e, f)
  BY <1>6, <1>7 DEF Agree
<1>9. \A n \in 0 .. most : e[n] = f[n]
  BY <1>8, Stepwise
<1>10. e \in [0 .. most -> Nat]
  BY <1>2, <1>5, <1>9
<1> QED
  BY <1>6, <1>10 DEF e, EndsOf

\* What the frames from the first on last together.
LEMMA LastsAre ==
    ASSUME NEW data, Moving(data)
    PROVE  /\ \A n \in Nat : Lasts(data, n) \in Nat /\ Lasts(data, n + 1) = Lasts(data, n) + Delay(data, n + 1)
           /\ Lasts(data, 0) = Delay(data, 0)
<1> DEFINE e(n) == Ends(data, 0, Delay(data, 0), n)
<1>1. Delay(data, 0) \in Nat
  BY DelayRepeats
<1>2. ASSUME NEW n \in Nat
      PROVE  /\ e(n) \in [0 .. n -> Nat] /\ e(n)[0] = Delay(data, 0)
             /\ \A i \in 1 .. n : e(n)[i] = e(n)[i - 1] + Delay(data, i)
  <2>1. /\ e(n) \in [0 .. n -> Nat] /\ e(n)[0] = Delay(data, 0)
        /\ \A i \in 1 .. n : e(n)[i] = e(n)[i - 1] + Delay(data, 0 + i)
    <3>1. 0 \in Nat
      OBVIOUS
    <3>2. EndsOf(data, 0, Delay(data, 0), n, e(n))
      BY <1>1, <3>1, EndsAre
    <3> QED
      BY <3>2 DEF EndsOf
  <2>2. \A i \in 1 .. n : 0 + i = i
    OBVIOUS
  <2> HIDE DEF e
  <2> QED
    BY <2>1, <2>2
<1>3. \A n : Lasts(data, n) = e(n)[n]
  BY DEF Lasts
<1> HIDE DEF e
<1>4. ASSUME NEW n \in Nat
      PROVE  Lasts(data, n + 1) = Lasts(data, n) + Delay(data, n + 1)
  <2>1. /\ n + 1 \in Nat /\ (n + 1) - 1 = n /\ n + 1 \in 1 .. n + 1
        /\ \A i \in 1 .. n : i \in 1 .. n + 1
    OBVIOUS
  <2>2. Agree(n, e(n + 1), e(n))
    BY <1>2, <2>1 DEF Agree
  <2>3. e(n + 1)[n] = e(n)[n]
    BY <2>2, Stepwise
  <2> QED
    BY <1>2, <1>3, <2>1, <2>3
<1>5. ASSUME NEW n \in Nat
      PROVE  Lasts(data, n) \in Nat
  <2>1. e(n) \in [0 .. n -> Nat] /\ n \in 0 .. n
    BY <1>2
  <2> QED
    BY <1>3, <2>1
<1>6. Lasts(data, 0) = Delay(data, 0)
  <2>1. 0 \in Nat
    OBVIOUS
  <2> QED
    BY <1>2, <1>3, <2>1
<1> QED
  BY <1>4, <1>5, <1>6

\* The end of a frame, as time since the beginning.
LEMMA EndsLast ==
    ASSUME NEW data, Moving(data), NEW frame \in Nat, NEW rest \in Nat, NEW most \in Nat
    PROVE  \A n \in 0 .. most : Ends(data, frame, rest, most)[n] = rest + Lasts(data, frame + n) - Lasts(data, frame)
<1> DEFINE h == [n \in 0 .. most |-> rest + Lasts(data, frame + n) - Lasts(data, frame)]
           e == Ends(data, frame, rest, most)
<1>1. e[0] = rest /\ \A n \in 1 .. most : e[n] = e[n - 1] + Delay(data, frame + n)
  <2>1. EndsOf(data, frame, rest, most, e)
    BY EndsAre
  <2> QED
    BY <2>1 DEF EndsOf
<1> HIDE DEF e
<1>2. h[0] = rest
  BY LastsAre
<1>3. ASSUME NEW n \in 1 .. most
      PROVE  h[n] = h[n - 1] + Delay(data, frame + n)
  <2> DEFINE k == frame + (n - 1)
  <2>1. k \in Nat /\ k + 1 = frame + n /\ n - 1 \in 0 .. most /\ n \in 0 .. most
    OBVIOUS
  <2>2. Lasts(data, frame + n) = Lasts(data, k) + Delay(data, frame + n)
    <3> HIDE DEF k
    <3> QED
      BY <2>1, LastsAre
  <2>3. Lasts(data, k) \in Nat /\ Lasts(data, frame) \in Nat
    <3> HIDE DEF k
    <3> QED
      BY <2>1, LastsAre
  <2>4. Delay(data, frame + n) \in Nat
    <3>1. frame + n \in Nat
      OBVIOUS
    <3> QED
      BY <3>1, DelayRepeats
  <2> QED
    BY <2>1, <2>2, <2>3, <2>4
<1> HIDE DEF h
<1>4. Agree(most, e, h)
  BY <1>1, <1>2, <1>3 DEF Agree
<1> QED
  BY <1>4, Stepwise DEF e, h

\* A round takes the same time as any other.
LEMMA Rounds ==
    ASSUME NEW data, Moving(data), NEW q \in Nat
    PROVE  \A k \in Nat : Lasts(data, k + q * L(data)) = Lasts(data, k) + q * Period(data)
<1>1. L(data) \in Nat \ {0} /\ L(data) - 1 \in Nat /\ (L(data) - 1) + 1 = L(data)
  BY DEF Moving
<1>2. Period(data) = Lasts(data, L(data) - 1) /\ Period(data) \in Nat
  BY <1>1, LastsAre DEF Period, L
<1>3. Lasts(data, L(data)) = Period(data) + Delay(data, 0)
  <2>1. Lasts(data, L(data)) = Lasts(data, L(data) - 1) + Delay(data, L(data))
    BY <1>1, LastsAre
  <2>2. Delay(data, 0 + 1 * L(data)) = Delay(data, 0)
    BY DelayRepeats
  <2>3. 0 + 1 * L(data) = L(data)
    BY <1>1
  <2> QED
    BY <1>2, <2>1, <2>2, <2>3
<1> HIDE DEF L
<1> DEFINE N == {k \in Nat : Lasts(data, k + L(data)) = Lasts(data, k) + Period(data)}
<1>4. 0 \in N
  <2>1. 0 + L(data) = L(data) /\ Delay(data, 0) \in Nat
    BY <1>1, DelayRepeats
  <2> QED
    BY <1>2, <1>3, <2>1, LastsAre
<1>5. ASSUME NEW k \in Nat, k \in N
      PROVE  k + 1 \in N
  <2>1. /\ k + L(data) \in Nat /\ (k + 1) + L(data) = (k + L(data)) + 1
        /\ (k + 1) + 1 * L(data) = (k + 1) + L(data) /\ k + 1 \in Nat
    BY <1>1
  <2>2. Lasts(data, (k + L(data)) + 1) = Lasts(data, k + L(data)) + Delay(data, (k + L(data)) + 1)
    BY <2>1, LastsAre
  <2>3. Delay(data, (k + L(data)) + 1) = Delay(data, k + 1)
    <3>1. Delay(data, (k + 1) + 1 * L(data)) = Delay(data, k + 1)
      BY <2>1, DelayRepeats
    <3> QED
      BY <2>1, <3>1
  <2>4. Lasts(data, k + 1) = Lasts(data, k) + Delay(data, k + 1) /\ Lasts(data, k) \in Nat /\ Delay(data, k + 1) \in Nat
    <3>1. Delay(data, k + 1) \in Nat
      BY <2>1, DelayRepeats
    <3> QED
      BY <3>1, LastsAre
  <2>5. Lasts(data, k + L(data)) = Lasts(data, k) + Period(data)
    BY <1>5
  <2>6. Lasts(data, (k + 1) + L(data)) = Lasts(data, k + 1) + Period(data)
    BY <1>2, <2>1, <2>2, <2>3, <2>4, <2>5
  <2> QED
    BY <2>6
<1>6. \A k \in Nat : Lasts(data, k + L(data)) = Lasts(data, k) + Period(data)
  <2> HIDE DEF N
  <2>1. Nat \subseteq N
    BY <1>4, <1>5, Numbers
  <2> QED
    BY <2>1 DEF N
<1> DEFINE M == {i \in Nat : \A k \in Nat : Lasts(data, k + i * L(data)) = Lasts(data, k) + i * Period(data)}
<1>7. 0 \in M
  <2>1. \A k \in Nat : k + 0 * L(data) = k /\ Lasts(data, k) + 0 * Period(data) = Lasts(data, k)
    BY <1>1, <1>2, LastsAre
  <2> QED
    BY <2>1
<1>8. ASSUME NEW i \in Nat, i \in M
      PROVE  i + 1 \in M
  <2> SUFFICES ASSUME NEW k \in Nat
               PROVE  Lasts(data, k + (i + 1) * L(data)) = Lasts(data, k) + (i + 1) * Period(data)
    OBVIOUS
  <2> DEFINE j == k + i * L(data)
  <2>1. j \in Nat /\ j + L(data) = k + (i + 1) * L(data)
    BY <1>1, Product
  <2>2. Lasts(data, j) = Lasts(data, k) + i * Period(data)
    BY <1>8
  <2> HIDE DEF j
  <2>3. Lasts(data, j + L(data)) = Lasts(data, j) + Period(data)
    BY <1>6, <2>1
  <2>4. (Lasts(data, k) + i * Period(data)) + Period(data) = Lasts(data, k) + (i + 1) * Period(data)
    BY <1>2, LastsAre
  <2> QED
    BY <2>1, <2>2, <2>3, <2>4
<1> HIDE DEF M
<1>9. Nat \subseteq M
  BY <1>7, <1>8, Numbers
<1> QED
  BY <1>9 DEF M

\* Later frames end later.
LEMMA LastsGrow ==
    ASSUME NEW data, Moving(data), NEW k \in Nat
    PROVE  \A n \in Nat : Lasts(data, k + n) >= Lasts(data, k) + n
<1> DEFINE N == {n \in Nat : Lasts(data, k + n) >= Lasts(data, k) + n}
<1>1. 0 \in N
  <2>1. k + 0 = k /\ Lasts(data, k) \in Nat
    BY LastsAre
  <2> QED
    BY <2>1
<1>2. ASSUME NEW n \in Nat, n \in N
      PROVE  n + 1 \in N
  <2> DEFINE j == k + n
  <2>1. j \in Nat /\ j + 1 = k + (n + 1) /\ Lasts(data, j) >= Lasts(data, k) + n
    BY <1>2
  <2> HIDE DEF j
  <2>2. Lasts(data, j + 1) = Lasts(data, j) + Delay(data, j + 1) /\ Lasts(data, j) \in Nat /\ Lasts(data, k) \in Nat
    BY <2>1, LastsAre
  <2>3. Delay(data, j + 1) \in Nat \ {0}
    BY <2>1, DelayRepeats
  <2>4. Lasts(data, k + (n + 1)) >= Lasts(data, k) + (n + 1)
    BY <2>1, <2>2, <2>3
  <2> QED
    BY <2>4
<1> HIDE DEF N
<1>3. Nat \subseteq N
  BY <1>1, <1>2, Numbers
<1> QED
  BY <1>3 DEF N

\* Time has passed since there was rest left of frame, and now r is left of f.
Passes(data, frame, rest, time, f, r) ==
    LET run == Lasts(data, frame) - rest + time
    IN  /\ f \in 0 .. L(data) - 1 /\ r \in Nat /\ r <= Delay(data, f) /\ (r < Delay(data, f) \/ f = 0)
        /\ Lasts(data, frame) - rest \in Nat /\ Period(data) \in Nat \ {0}
        /\ Lasts(data, f) - r = IF run = 0 THEN 0 ELSE ((run - 1) % Period(data)) + 1
        /\ r < Delay(data, f) \/ run = 0

\* One look at the clock: the next frame is the first that has not ended yet.
LEMMA ClockStep ==
    ASSUME NEW data, Moving(data), NEW frame \in 0 .. L(data) - 1,
           NEW rest \in Nat, rest <= Delay(data, frame), rest < Delay(data, frame) \/ frame = 0,
           MaxPause \in Nat, NEW time \in 0 .. MaxPause
    PROVE  LET end == Ends(data, frame, rest, MaxPause)
               n == Min({i \in DOMAIN end : time <= end[i]})
           IN  Passes(data, frame, rest, time, (frame + n) % L(data), end[n] - time)
<1> DEFINE end == Ends(data, frame, rest, MaxPause)
           S == {i \in DOMAIN end : time <= end[i]}
           n == Min(S)
           f == (frame + n) % L(data)
           r == end[n] - time
           run == Lasts(data, frame) - rest + time
<1>0. L(data) \in Nat \ {0} /\ frame \in Nat /\ L(data) - 1 \in Nat
  BY DEF Moving
<1>1. /\ end \in [0 .. MaxPause -> Nat] /\ end[0] = rest
      /\ \A i \in 1 .. MaxPause : end[i] = end[i - 1] + Delay(data, frame + i)
  <2>1. frame \in Nat /\ rest \in Nat /\ MaxPause \in Nat
    BY <1>0
  <2>2. EndsOf(data, frame, rest, MaxPause, end)
    BY <2>1, EndsAre
  <2> QED
    BY <2>2 DEF EndsOf
<1>2. \A i \in 0 .. MaxPause : end[i] = rest + Lasts(data, frame + i) - Lasts(data, frame)
  BY <1>0, EndsLast
<1>3. Lasts(data, frame) \in Nat /\ Delay(data, frame) \in Nat \ {0} /\ Lasts(data, frame) >= Delay(data, frame)
  <2>1. Lasts(data, frame) \in Nat /\ Delay(data, frame) \in Nat \ {0}
    BY <1>0, LastsAre, DelayRepeats
  <2>2. CASE frame = 0
    BY <2>1, <2>2, LastsAre
  <2>3. CASE frame # 0
    <3>1. frame - 1 \in Nat /\ (frame - 1) + 1 = frame
      BY <1>0, <2>3
    <3>2. Lasts(data, frame) = Lasts(data, frame - 1) + Delay(data, frame) /\ Lasts(data, frame - 1) \in Nat
      BY <3>1, LastsAre
    <3> QED
      BY <2>1, <3>2
  <2> QED
    BY <2>1, <2>2, <2>3
<1> HIDE DEF end
<1>4. n \in S /\ \A i \in S : n <= i
  <2>1. S \in SUBSET Nat
    BY <1>1
  <2>2. Lasts(data, frame + MaxPause) >= Lasts(data, frame) + MaxPause
    BY <1>0, LastsGrow
  <2>3. end[MaxPause] >= MaxPause
    <3>1. Lasts(data, frame + MaxPause) \in Nat
      BY <1>0, LastsAre
    <3> QED
      BY <1>2, <1>3, <2>2, <3>1
  <2>4. MaxPause \in S
    BY <1>1, <2>3
  <2> HIDE DEF S
  <2> QED
    BY <2>1, <2>4, LeastOf
<1> HIDE DEF n
<1>5. n \in 0 .. MaxPause /\ n \in Nat /\ time <= end[n] /\ end[n] \in Nat
  BY <1>1, <1>4
<1> DEFINE k == frame + n
           q == k \div L(data)
<1>6. k \in Nat /\ Lasts(data, k) \in Nat /\ end[n] = rest + Lasts(data, k) - Lasts(data, frame)
  BY <1>0, <1>2, <1>5, LastsAre
<1>7. k \in Nat /\ Delay(data, k) \in Nat \ {0} /\ Delay(data, k) = Delay(data, f) /\ f \in 0 .. L(data) - 1
  <2>1. frame + n \in Nat
    BY <1>0, <1>5
  <2> QED
    BY <2>1, DelayRepeats, Zenon
<1>8. q \in Nat /\ f \in Nat /\ k = f + q * L(data)
  <2> HIDE DEF k
  <2>1. q \in Nat /\ f \in Nat /\ k = L(data) * q + f
    BY <1>0, <1>6, Division DEF k
  <2> HIDE DEF q, f
  <2> QED
    BY <1>0, <2>1
<1>9. Period(data) \in Nat /\ Period(data) = Lasts(data, L(data) - 1)
  BY <1>0, LastsAre DEF Period, L
<1> DEFINE p == Period(data)
           past == Lasts(data, f) - r
<1>10. Lasts(data, k) = Lasts(data, f) + q * p
  <2>1. Lasts(data, f + q * L(data)) = Lasts(data, f) + q * Period(data)
    BY <1>8, Rounds
  <2> HIDE DEF k, q, f
  <2> QED
    BY <1>8, <2>1
<1>11. r \in Nat /\ Lasts(data, f) \in Nat
  BY <1>5, <1>8, LastsAre
<1>12. run \in Nat /\ Lasts(data, k) - r = run
  BY <1>3, <1>5, <1>6
<1>13. Lasts(data, f) <= p /\ p \in Nat \ {0}
  <2>1. (L(data) - 1) - f \in Nat /\ f + ((L(data) - 1) - f) = L(data) - 1
    BY <1>0, <1>7
  <2>2. Lasts(data, L(data) - 1) >= Lasts(data, f) + ((L(data) - 1) - f)
    <3> HIDE DEF f
    <3>1. Lasts(data, f + ((L(data) - 1) - f)) >= Lasts(data, f) + ((L(data) - 1) - f)
      BY <1>8, <2>1, LastsGrow
    <3> QED
      BY <2>1, <3>1
  <2>3. /\ Lasts(data, L(data) - 1) >= Lasts(data, 0) + (L(data) - 1)
        /\ Lasts(data, 0) = Delay(data, 0) /\ Delay(data, 0) \in Nat \ {0}
    <3>1. 0 + (L(data) - 1) = L(data) - 1
      BY <1>0
    <3>2. Lasts(data, 0 + (L(data) - 1)) >= Lasts(data, 0) + (L(data) - 1)
      BY <1>0, LastsGrow
    <3> QED
      BY <3>1, <3>2, LastsAre, DelayRepeats
  <2> QED
    BY <1>0, <1>9, <1>11, <2>1, <2>2, <2>3
<1>14. Lasts(data, f) >= Delay(data, f) /\ Delay(data, f) \in Nat \ {0}
  <2> HIDE DEF f
  <2>1. CASE f = 0
    BY <1>7, <1>11, <2>1, LastsAre
  <2>2. CASE f # 0
    <3>1. f - 1 \in Nat /\ (f - 1) + 1 = f
      BY <1>8, <2>2
    <3>2. Lasts(data, f) = Lasts(data, f - 1) + Delay(data, f) /\ Lasts(data, f - 1) \in Nat
      BY <3>1, LastsAre
    <3> QED
      BY <1>7, <3>2
  <2> QED
    BY <2>1, <2>2, <1>7
<1>15. r <= Delay(data, f) /\ (r < Delay(data, f) \/ (run = 0 /\ f = 0 /\ r = Delay(data, f)))
  <2>1. CASE n = 0
    <3>1. k = frame /\ end[n] = rest
      BY <1>0, <1>1, <2>1
    <3>2. f = frame
      <4>1. frame < L(data)
        BY <1>0
      <4>2. frame % L(data) = frame
        BY <1>0, <4>1, Remains
      <4> QED
        BY <3>1, <4>2
    <3>3. r = rest - time
      BY <3>1
    <3>4. CASE rest < Delay(data, frame) \/ time > 0
      BY <1>3, <3>2, <3>3, <3>4
    <3>5. CASE ~(rest < Delay(data, frame)) /\ ~(time > 0)
      <4>1. time = 0 /\ rest = Delay(data, frame) /\ frame = 0
        BY <1>3, <3>5
      <4>2. Lasts(data, frame) = Delay(data, frame)
        BY <4>1, LastsAre
      <4>3. run = 0
        BY <1>3, <4>1, <4>2
      <4> QED
        BY <1>3, <3>2, <3>3, <4>1, <4>3
    <3> QED
      BY <3>4, <3>5
  <2>2. CASE n # 0
    <3>1. n \in 1 .. MaxPause /\ n - 1 \in 0 .. MaxPause /\ ~(n <= n - 1)
      BY <1>5, <2>2
    <3>2. n - 1 \notin S
      BY <1>4, <3>1
    <3>3. end[n - 1] < time /\ end[n - 1] \in Nat
      BY <1>1, <3>1, <3>2
    <3>4. end[n] = end[n - 1] + Delay(data, k)
      BY <1>1, <3>1
    <3> QED
      BY <1>5, <1>7, <3>3, <3>4
  <2> QED
    BY <2>1, <2>2
<1> HIDE DEF k, q, f, r, run, p
<1>16. past \in Nat /\ past <= p /\ run = q * p + past
  <2>1. q * p \in Nat
    BY <1>8, <1>13, Product
  <2> QED
    BY <1>10, <1>11, <1>12, <1>13, <1>14, <1>15, <2>1
<1>17. CASE run = 0
  <2>1. q * p \in Nat
    BY <1>8, <1>13, Product
  <2>2. past = 0
    BY <1>16, <1>17, <2>1
  <2>3. r = Lasts(data, f)
    BY <1>11, <2>2
  <2>4. f = 0
    <3>1. r < Delay(data, f) => FALSE
      BY <1>11, <1>14, <2>3
    <3> QED
      BY <1>15, <3>1
  <2> QED
    BY <1>3, <1>7, <1>9, <1>11, <1>13, <1>15, <1>17, <2>2, <2>4 DEF k, q, f, r, run, p, n, end, S, Passes
<1>18. CASE run # 0
  <2>1. r < Delay(data, f)
    BY <1>15, <1>18
  <2>2. past - 1 \in Nat /\ past - 1 < p
    BY <1>11, <1>13, <1>14, <1>16, <2>1
  <2>3. (run - 1) % p = past - 1
    <3> DEFINE m == run - 1
               t == past - 1
    <3>1. m = p * q + t
      BY <1>8, <1>12, <1>13, <1>16
    <3> HIDE DEF m, t, past
    <3>2. t \in Nat /\ t < p
      BY <2>2 DEF t
    <3>3. m % p = t
      BY <1>8, <1>13, <3>1, <3>2, DivMod
    <3> QED
      BY <3>3 DEF m, t
  <2>4. ((run - 1) % p) + 1 = past
    BY <1>16, <2>3
  <2> QED
    BY <1>3, <1>7, <1>9, <1>11, <1>13, <1>15, <1>18, <2>1, <2>4 DEF k, q, f, r, run, p, n, end, S, Passes
<1> QED
  BY <1>17, <1>18

-----------------------------------------------------------------------------
(* What a theme has.                                                        *)

CursorData == [bitmaps : Nat, frames : Seq([delay : Nat, frame : Nat])]

\* Only a cursor of one bitmap has a frame that takes no time, and a cursor that has bitmaps has
\* those of its frames.
SoundData(data) ==
    /\ data \in CursorData
    /\ data.bitmaps # 1 => \A i \in 1 .. Len(data.frames) : data.frames[i].delay # 0
    /\ data.bitmaps # 0 => \A i \in 1 .. Len(data.frames) : data.frames[i].frame < data.bitmaps

SoundCursors(cursor) ==
    /\ cursor \in [CursorSizes -> [CursorTypes -> CursorData]]
    /\ \A s \in CursorSizes, t \in CursorTypes : SoundData(cursor[s][t])

\* A cursor that has bitmaps has frames.
Whole(cursor) == \A s \in CursorSizes, t \in CursorTypes : cursor[s][t].bitmaps # 0 => cursor[s][t].frames # <<>>

\* There is nothing of a type.
Fresh(cursor, t) == \A s \in CursorSizes : cursor[s][t] = NoCursorData

\* Nothing else has changed.
OnlyOf(t, before, after) ==
    \A s \in CursorSizes, u \in CursorTypes : u # t => after[s][u] = before[s][u]

\* A type that a theme does not have is sound.
LEMMA NothingIsSound == SoundData(NoCursorData) /\ NoCursorData.bitmaps = 0 /\ NoCursorData.frames = <<>>
BY DEF SoundData, CursorData, NoCursorData

\* Only a single image has no delay.
Lasting(d) == Len(d) = 1 \/ \A i \in 1 .. Len(d) : d[i] # 0

\* What a file has of a size.
OfDelays(d) == [bitmaps |-> Len(d), frames |-> [i \in 1 .. Len(d) |-> [delay |-> d[i], frame |-> i - 1]]]

LEMMA SizeOf ==
    ASSUME NEW d \in Seq(Nat), Lasting(d), d # <<>>
    PROVE  SoundData(OfDelays(d)) /\ OfDelays(d).bitmaps # 0 /\ OfDelays(d).frames # <<>>
<1> DEFINE m == Len(d)
           data == OfDelays(d)
<1>0. m \in Nat \ {0} /\ d \in [1 .. m -> Nat]
  OBVIOUS
<1> DEFINE frames == [i \in 1 .. m |-> [delay |-> d[i], frame |-> i - 1]]
<1>1. ASSUME NEW i \in 1 .. m
      PROVE  frames[i] \in [delay : Nat, frame : Nat] /\ frames[i].delay = d[i] /\ frames[i].frame < m
  BY <1>0
<1>2. frames \in Seq([delay : Nat, frame : Nat]) /\ Len(frames) = m
  <2>1. frames \in [1 .. m -> [delay : Nat, frame : Nat]]
    BY <1>1
  <2> QED
    BY <1>0, <2>1
<1>3. data.bitmaps = m /\ data.frames = frames /\ data = [bitmaps |-> m, frames |-> frames]
  BY DEF OfDelays
<1> HIDE DEF frames, data
<1>4. data \in CursorData
  BY <1>0, <1>2, <1>3 DEF CursorData
<1>5. frames # <<>>
  BY <1>0, <1>2
<1>6. m = 1 \/ \A i \in 1 .. m : d[i] # 0
  BY DEF Lasting
<1> HIDE DEF m
<1>7. SoundData(data)
  BY <1>1, <1>2, <1>3, <1>4, <1>6 DEF SoundData
<1> QED
  BY <1>0, <1>3, <1>5, <1>7 DEF data

Timed(delays) ==
    /\ delays \in [CursorSizes -> Seq(Nat)]
    /\ \A s \in CursorSizes : Lasting(delays[s])

\* The images of a file are added soundly.
LEMMA ImagesAreSound ==
    ASSUME NEW cursor, SoundCursors(cursor), NEW t \in CursorTypes, NEW delays, Timed(delays),
           NEW new, new = WithImages(cursor, t, delays)
    PROVE  /\ SoundCursors(new) /\ OnlyOf(t, cursor, new)
           /\ Whole(cursor) => Whole(new)
           /\ \A s \in CursorSizes : new[s] = cursor[s] \/ new[s][t].bitmaps # 0
<1> DEFINE d(s) == delays[s]
           of(s) == OfDelays(d(s))
<1>1. ASSUME NEW s \in CursorSizes
      PROVE  IF d(s) = <<>> THEN new[s] = cursor[s]
             ELSE new[s] = [cursor[s] EXCEPT ![t] = of(s)]
  <2>1. DOMAIN d(s) = 1 .. Len(d(s))
    BY DEF Timed
  <2> QED
    BY <2>1 DEF WithImages, OfDelays
<1>2. ASSUME NEW s \in CursorSizes, d(s) # <<>>
      PROVE  SoundData(of(s)) /\ of(s).bitmaps # 0 /\ of(s).frames # <<>>
  BY <1>2, SizeOf DEF Timed
<1> HIDE DEF d, of
<1>3. cursor \in [CursorSizes -> [CursorTypes -> CursorData]]
  BY DEF SoundCursors
<1>4. ASSUME NEW s \in CursorSizes
      PROVE  /\ new[s] \in [CursorTypes -> CursorData]
             /\ \A u \in CursorTypes : u # t => new[s][u] = cursor[s][u]
             /\ new[s] = cursor[s] \/ (SoundData(new[s][t]) /\ new[s][t].bitmaps # 0 /\ new[s][t].frames # <<>>)
  <2>1. cursor[s] \in [CursorTypes -> CursorData]
    BY <1>3
  <2>2. CASE d(s) = <<>>
    BY <1>1, <2>1, <2>2
  <2>3. CASE d(s) # <<>>
    <3>1. new[s] = [cursor[s] EXCEPT ![t] = of(s)] /\ SoundData(of(s)) /\ of(s).bitmaps # 0 /\ of(s).frames # <<>>
      BY <1>1, <1>2, <2>3
    <3>2. of(s) \in CursorData
      BY <3>1 DEF SoundData
    <3> QED
      BY <2>1, <3>1, <3>2
  <2> QED
    BY <2>2, <2>3
<1>5. new \in [CursorSizes -> [CursorTypes -> CursorData]]
  <2>1. new = [s \in CursorSizes |-> new[s]]
    BY DEF WithImages
  <2> QED
    BY <1>4, <2>1
<1>6. ASSUME NEW s \in CursorSizes, NEW u \in CursorTypes
      PROVE  /\ SoundData(new[s][u])
             /\ new[s][u] = cursor[s][u] \/ new[s][u].frames # <<>>
  BY <1>4 DEF SoundCursors
<1> QED
  BY <1>4, <1>5, <1>6 DEF SoundCursors, OnlyOf, Whole

\* What BoundedSeq has are sequences.
LEMMA BoundedSequences ==
    ASSUME NEW S, NEW n \in Nat, NEW q \in BoundedSeq(S, n)
    PROVE  q \in Seq(S)
BY DEF BoundedSeq, SeqOf

\* The sequences over a set are sequences over any that contains it.
LEMMA WiderSequences ==
    ASSUME NEW S, NEW T, S \subseteq T, NEW q \in Seq(S)
    PROVE  q \in Seq(T)
<1>1. q \in [1 .. Len(q) -> S] /\ Len(q) \in Nat
  OBVIOUS
<1>2. q \in [1 .. Len(q) -> T]
  BY <1>1
<1> QED
  BY <1>1, <1>2

\* What a .ani says.
SoundAni(ani) ==
    /\ ani.sizes \subseteq CursorSizes /\ ani.sizes # {}
    /\ ani.pictures \in Nat \ {0}
    /\ ani.displayRate \in Nat \ {0}
    /\ ani.rate \in Seq(Nat \ {0})
    /\ ani.seq \in Seq(Nat) /\ \A i \in 1 .. Len(ani.seq) : ani.seq[i] < ani.pictures

\* The files that are read are like that.
LEMMA AniFilesAreSound ==
    ASSUME NEW ani \in SoundAniFiles
    PROVE  SoundAni(ani)
<1>1. /\ ani \in AniFiles
      /\ \A i \in DOMAIN ani.seq : ani.seq[i] < ani.pictures
  BY DEF SoundAniFiles
<1>2. /\ ani.sizes \in (SUBSET CursorSizes) \ {{}} /\ ani.pictures \in 1 .. MaxImages /\ ani.displayRate \in Delays
      /\ ani.rate \in BoundedSeq(Delays, MaxImages) /\ ani.seq \in BoundedSeq(0 .. MaxImages - 1, MaxImages)
  BY <1>1 DEF AniFiles
<1>3. MaxImages \in Nat /\ Delays \subseteq Nat \ {0}
  BY CursorBoundsAssumption, DelaysAssumption
<1>4. ani.rate \in Seq(Delays) /\ ani.seq \in Seq(0 .. MaxImages - 1)
  BY <1>2, <1>3, BoundedSequences
<1>5. ani.rate \in Seq(Nat \ {0}) /\ ani.seq \in Seq(Nat)
  <2>1. 0 .. MaxImages - 1 \subseteq Nat
    BY <1>3
  <2> QED
    <3>1. ani.rate \in Seq(Nat \ {0})
      BY <1>3, <1>4, WiderSequences, Zenon
    <3>2. ani.seq \in Seq(Nat)
      BY <1>4, <2>1, WiderSequences, Zenon
    <3> QED
      BY <3>1, <3>2
<1>6. DOMAIN ani.seq = 1 .. Len(ani.seq)
  BY <1>5
<1>7. \A i \in 1 .. Len(ani.seq) : ani.seq[i] < ani.pictures
  BY <1>1, <1>6
<1>8. ani.pictures \in Nat \ {0} /\ ani.displayRate \in Nat \ {0}
  <2>1. ani.pictures \in 1 .. MaxImages /\ ani.displayRate \in Delays
    BY <1>2
  <2>2. \A n \in 1 .. MaxImages : n \in Nat \ {0}
    OBVIOUS
  <2> QED
    BY <1>3, <2>1, <2>2, Zenon
<1>9. ani.sizes \subseteq CursorSizes /\ ani.sizes # {}
  BY <1>2
<1> QED
  BY <1>5, <1>7, <1>8, <1>9 DEF SoundAni

\* The frames that a .ani gives a size.
WithFramesOf(ani, bitmaps) == [bitmaps |-> bitmaps, frames |-> FramesOf(ani, bitmaps)]

\* They are sound where the file's delays fit.
LEMMA FramesAreSound ==
    ASSUME NEW ani, SoundAni(ani), NEW b \in {0, ani.pictures}, RateFits(ani, b)
    PROVE  SoundData(WithFramesOf(ani, b)) /\ (b # 0 => WithFramesOf(ani, b).frames # <<>>)
<1> DEFINE n == IF ani.seq # <<>> THEN Len(ani.seq) ELSE b
           delay(i) == IF ani.rate # <<>> THEN ani.rate[i] ELSE ani.displayRate
           frame(i) == IF ani.seq # <<>> THEN ani.seq[i] ELSE i - 1
           frames == [i \in 1 .. n |-> [delay |-> delay(i), frame |-> frame(i)]]
<1>1. b \in Nat /\ n \in Nat /\ (b # 0 => n # 0)
  <2>1. b \in Nat /\ Len(ani.seq) \in Nat
    BY DEF SoundAni
  <2>2. ani.seq # <<>> => Len(ani.seq) # 0
    BY DEF SoundAni
  <2> QED
    BY <2>1, <2>2
<1>2. ASSUME NEW i \in 1 .. n
      PROVE  delay(i) \in Nat \ {0}
  <2>1. CASE ani.rate # <<>>
    <3>1. Len(ani.rate) = n
      BY <2>1 DEF RateFits
    <3>2. ani.rate[i] \in Nat \ {0}
      BY <3>1 DEF SoundAni
    <3> QED
      BY <2>1, <3>2
  <2>2. CASE ani.rate = <<>>
    BY <2>2 DEF SoundAni
  <2> QED
    BY <2>1, <2>2
<1>3. ASSUME NEW i \in 1 .. n
      PROVE  frame(i) \in Nat /\ (b # 0 => frame(i) < b)
  <2>1. CASE ani.seq # <<>>
    <3>1. ani.seq[i] \in Nat /\ ani.seq[i] < ani.pictures
      BY <2>1 DEF SoundAni
    <3> QED
      BY <2>1, <3>1
  <2>2. CASE ani.seq = <<>>
    <3>1. i \in 1 .. b
      BY <2>2
    <3> QED
      BY <1>1, <2>2, <3>1
  <2> QED
    BY <2>1, <2>2
<1>4. WithFramesOf(ani, b).bitmaps = b /\ WithFramesOf(ani, b).frames = frames
  BY DEF WithFramesOf, FramesOf
<1> HIDE DEF n, delay, frame
<1>5. frames \in Seq([delay : Nat, frame : Nat]) /\ Len(frames) = n
  <2>1. frames \in [1 .. n -> [delay : Nat, frame : Nat]]
    BY <1>2, <1>3
  <2> QED
    BY <1>1, <2>1
<1>6. \A i \in 1 .. n : frames[i].delay = delay(i) /\ frames[i].frame = frame(i)
  OBVIOUS
<1> HIDE DEF frames
<1>7. WithFramesOf(ani, b) \in CursorData
  BY <1>1, <1>4, <1>5 DEF WithFramesOf, CursorData
<1>8. SoundData(WithFramesOf(ani, b))
  BY <1>2, <1>3, <1>4, <1>5, <1>6, <1>7 DEF SoundData
<1> QED
  BY <1>1, <1>4, <1>5, <1>8

\* The pictures of a .ani are added soundly, and there are some.
LEMMA PicturesAreSound ==
    ASSUME NEW cursor, SoundCursors(cursor), NEW t \in CursorTypes, Fresh(cursor, t),
           NEW ani \in SoundAniFiles, NEW all, all = WithPictures(cursor, t, ani)
    PROVE  /\ SoundCursors(all) /\ OnlyOf(t, cursor, all)
           /\ \A s \in CursorSizes : all[s][t].bitmaps \in {0, ani.pictures} /\ all[s][t].frames = <<>>
           /\ \E s \in CursorSizes : all[s][t].bitmaps # 0
<1>1. SoundAni(ani)
  BY AniFilesAreSound
<1>2. cursor \in [CursorSizes -> [CursorTypes -> CursorData]]
  BY DEF SoundCursors
<1> DEFINE of == [bitmaps |-> ani.pictures, frames |-> <<>>]
<1>3. SoundData(of) /\ of.frames = <<>> /\ of.bitmaps = ani.pictures /\ ani.pictures # 0
  BY <1>1 DEF SoundAni, SoundData, CursorData
<1>4. of \in CursorData
  BY <1>3 DEF SoundData
<1>5. ASSUME NEW s \in CursorSizes
      PROVE  all[s] = IF s \in ani.sizes THEN [cursor[s] EXCEPT ![t] = of] ELSE cursor[s]
  BY DEF WithPictures
<1> HIDE DEF of
<1>6. ASSUME NEW s \in CursorSizes
      PROVE  /\ all[s] \in [CursorTypes -> CursorData]
             /\ \A u \in CursorTypes : u # t => all[s][u] = cursor[s][u]
             /\ all[s][t] = IF s \in ani.sizes THEN of ELSE NoCursorData
  <2>1. cursor[s] \in [CursorTypes -> CursorData] /\ cursor[s][t] = NoCursorData
    BY <1>2 DEF Fresh
  <2> QED
    BY <1>4, <1>5, <2>1
<1>7. all \in [CursorSizes -> [CursorTypes -> CursorData]]
  <2>1. all = [s \in CursorSizes |-> all[s]]
    BY DEF WithPictures
  <2> QED
    BY <1>6, <2>1
<1>8. ASSUME NEW s \in CursorSizes, NEW u \in CursorTypes
      PROVE  SoundData(all[s][u])
  BY <1>3, <1>6, NothingIsSound DEF SoundCursors
<1>9. ASSUME NEW s \in CursorSizes
      PROVE  all[s][t].bitmaps \in {0, ani.pictures} /\ all[s][t].frames = <<>>
  BY <1>3, <1>6, NothingIsSound
<1>10. \E s \in CursorSizes : all[s][t].bitmaps # 0
  <2>1. PICK s \in ani.sizes : s \in CursorSizes
    BY <1>1 DEF SoundAni
  <2> QED
    BY <1>3, <1>6, <2>1
<1> QED
  BY <1>6, <1>7, <1>8, <1>9, <1>10 DEF SoundCursors, OnlyOf

\* The frames of sizes that the file's delays fit are added soundly.
LEMMA FramesAreAdded ==
    ASSUME NEW cursor, SoundCursors(cursor), NEW t \in CursorTypes, NEW ani, SoundAni(ani),
           \A s \in CursorSizes : cursor[s][t].bitmaps \in {0, ani.pictures},
           NEW sizes \in SUBSET SizesIn(cursor), \A s \in sizes : RateFits(ani, cursor[s][t].bitmaps),
           NEW new, new = WithFrames(cursor, t, ani, sizes)
    PROVE  /\ SoundCursors(new) /\ OnlyOf(t, cursor, new)
           /\ \A s \in CursorSizes : new[s][t].bitmaps = cursor[s][t].bitmaps
           /\ \A s \in sizes : new[s][t].bitmaps # 0 => new[s][t].frames # <<>>
<1>1. cursor \in [CursorSizes -> [CursorTypes -> CursorData]] /\ sizes \subseteq CursorSizes
  BY DEF SoundCursors, SizesIn
<1> DEFINE of(s) == WithFramesOf(ani, cursor[s][t].bitmaps)
<1>2. ASSUME NEW s \in sizes
      PROVE  /\ SoundData(of(s)) /\ of(s) \in CursorData /\ of(s).bitmaps = cursor[s][t].bitmaps
             /\ of(s).bitmaps # 0 => of(s).frames # <<>>
  <2>1. cursor[s][t].bitmaps \in {0, ani.pictures} /\ RateFits(ani, cursor[s][t].bitmaps)
    BY <1>1
  <2>2. SoundData(of(s)) /\ (cursor[s][t].bitmaps # 0 => of(s).frames # <<>>)
    BY <2>1, FramesAreSound
  <2>3. of(s).bitmaps = cursor[s][t].bitmaps
    BY DEF WithFramesOf
  <2> QED
    BY <2>2, <2>3 DEF SoundData
<1>3. ASSUME NEW s \in CursorSizes
      PROVE  new[s] = IF s \in sizes THEN [cursor[s] EXCEPT ![t] = of(s)] ELSE cursor[s]
  <2>1. new[s] = IF s \in sizes THEN [cursor[s] EXCEPT ![t].frames = FramesOf(ani, cursor[s][t].bitmaps)] ELSE cursor[s]
    BY DEF WithFrames
  <2>2. cursor[s] \in [CursorTypes -> CursorData] /\ cursor[s][t] \in CursorData
    BY <1>1
  <2>3. [cursor[s][t] EXCEPT !.frames = FramesOf(ani, cursor[s][t].bitmaps)] = of(s)
    BY <2>2 DEF CursorData, WithFramesOf
  <2> QED
    BY <2>1, <2>2, <2>3
<1> HIDE DEF of
<1>4. ASSUME NEW s \in CursorSizes
      PROVE  /\ new[s] \in [CursorTypes -> CursorData]
             /\ \A u \in CursorTypes : u # t => new[s][u] = cursor[s][u]
             /\ new[s][t] = IF s \in sizes THEN of(s) ELSE cursor[s][t]
  <2>1. cursor[s] \in [CursorTypes -> CursorData]
    BY <1>1
  <2> QED
    BY <1>2, <1>3, <2>1
<1>5. new \in [CursorSizes -> [CursorTypes -> CursorData]]
  <2>1. new = [s \in CursorSizes |-> new[s]]
    BY DEF WithFrames
  <2> QED
    BY <1>4, <2>1
<1>6. ASSUME NEW s \in CursorSizes, NEW u \in CursorTypes
      PROVE  SoundData(new[s][u])
  BY <1>2, <1>4 DEF SoundCursors
<1>7. ASSUME NEW s \in CursorSizes
      PROVE  new[s][t].bitmaps = cursor[s][t].bitmaps
  BY <1>2, <1>4
<1>8. ASSUME NEW s \in sizes
      PROVE  new[s][t].bitmaps # 0 => new[s][t].frames # <<>>
  BY <1>1, <1>2, <1>4
<1> QED
  BY <1>4, <1>5, <1>6, <1>7, <1>8 DEF SoundCursors, OnlyOf

\* A Windows cursor is added soundly, to a theme that has nothing of its type.
LEMMA LoadedSoundly ==
    ASSUME SoundCursors(m_cursor), NEW t \in CursorTypes, Fresh(m_cursor, t), NEW ok, LoadCursor(t, ok)
    PROVE  /\ SoundCursors(m_cursor') /\ OnlyOf(t, m_cursor, m_cursor')
           /\ gaveUpAni \/ Whole(m_cursor) => gaveUpAni' \/ Whole(m_cursor')
           /\ m_cursor' = m_cursor \/ \E s \in CursorSizes : m_cursor'[s][t].bitmaps # 0
<1>1. CASE LoadCur(t, ok)
  <2>1. PICK sizes \in SUBSET CursorSizes :
            m_cursor' = WithImages(m_cursor, t, [s \in CursorSizes |-> IF s \in sizes THEN <<0>> ELSE <<>>])
    BY <1>1 DEF LoadCur
  <2>2. UNCHANGED gaveUpAni
    BY <1>1 DEF LoadCur
  <2> DEFINE delays == [s \in CursorSizes |-> IF s \in sizes THEN <<0>> ELSE <<>>]
  <2>3. ASSUME NEW s \in CursorSizes
        PROVE  delays[s] \in Seq(Nat) /\ Lasting(delays[s])
    <3>1. delays[s] = IF s \in sizes THEN <<0>> ELSE <<>>
      OBVIOUS
    <3>2. <<0>> \in Seq(Nat) /\ Len(<<0>>) = 1 /\ <<>> \in Seq(Nat) /\ Len(<<>>) = 0
      OBVIOUS
    <3> HIDE DEF delays
    <3> QED
      BY <3>1, <3>2 DEF Lasting
  <2>4. delays \in [CursorSizes -> Seq(Nat)]
    BY <2>3
  <2>5. m_cursor' = WithImages(m_cursor, t, delays)
    BY <2>1
  <2> HIDE DEF delays
  <2>6. Timed(delays)
    BY <2>3, <2>4 DEF Timed
  <2>7. /\ SoundCursors(m_cursor') /\ OnlyOf(t, m_cursor, m_cursor')
        /\ Whole(m_cursor) => Whole(m_cursor')
        /\ \A s \in CursorSizes : m_cursor'[s] = m_cursor[s] \/ m_cursor'[s][t].bitmaps # 0
    BY <2>5, <2>6, ImagesAreSound
  <2>8. m_cursor' = m_cursor \/ \E s \in CursorSizes : m_cursor'[s][t].bitmaps # 0
    BY <2>7 DEF SoundCursors
  <2> QED
    BY <2>2, <2>7, <2>8
<1>2. CASE LoadAni(t, ok)
  <2>1. PICK ani \in SoundAniFiles :
            LET all == WithPictures(m_cursor, t, ani)
                fits == {s \in SizesIn(all) : RateFits(ani, all[s][t].bitmaps)}
            IN  \/ m_cursor' = all /\ gaveUpAni' = TRUE
                \/ /\ fits = SizesIn(all)
                   /\ m_cursor' = WithFrames(all, t, ani, fits) /\ UNCHANGED gaveUpAni
                \/ \E before \in SUBSET fits : m_cursor' = WithFrames(all, t, ani, before) /\ gaveUpAni' = TRUE
    BY <1>2 DEF LoadAni
  <2> DEFINE all == WithPictures(m_cursor, t, ani)
             fits == {s \in SizesIn(all) : RateFits(ani, all[s][t].bitmaps)}
  <2>2. /\ SoundCursors(all) /\ OnlyOf(t, m_cursor, all)
        /\ \A s \in CursorSizes : all[s][t].bitmaps \in {0, ani.pictures} /\ all[s][t].frames = <<>>
        /\ \E s \in CursorSizes : all[s][t].bitmaps # 0
    BY PicturesAreSound
  <2>3. \/ m_cursor' = all /\ gaveUpAni' = TRUE
        \/ /\ fits = SizesIn(all)
           /\ m_cursor' = WithFrames(all, t, ani, fits) /\ UNCHANGED gaveUpAni
        \/ \E before \in SUBSET fits : m_cursor' = WithFrames(all, t, ani, before) /\ gaveUpAni' = TRUE
    BY <2>1
  <2>4. fits \in SUBSET SizesIn(all) /\ \A s \in fits : RateFits(ani, all[s][t].bitmaps)
    OBVIOUS
  <2>5. SoundAni(ani) /\ \A s \in CursorSizes : all[s][t].bitmaps \in {0, ani.pictures}
    BY <2>2, AniFilesAreSound
  <2> HIDE DEF all, fits
  <2>6. ASSUME NEW sizes \in SUBSET fits, m_cursor' = WithFrames(all, t, ani, sizes)
        PROVE  /\ SoundCursors(m_cursor') /\ OnlyOf(t, all, m_cursor')
               /\ \A s \in CursorSizes : m_cursor'[s][t].bitmaps = all[s][t].bitmaps
               /\ \A s \in sizes : m_cursor'[s][t].bitmaps # 0 => m_cursor'[s][t].frames # <<>>
    <3>1. sizes \in SUBSET SizesIn(all) /\ \A s \in sizes : RateFits(ani, all[s][t].bitmaps)
      BY <2>4
    <3> QED
      BY <2>2, <2>5, <2>6, <3>1, FramesAreAdded
  <2>7. CASE m_cursor' = all /\ gaveUpAni' = TRUE
    BY <2>2, <2>7
  <2>8. CASE fits = SizesIn(all) /\ m_cursor' = WithFrames(all, t, ani, fits) /\ UNCHANGED gaveUpAni
    <3>1. /\ SoundCursors(m_cursor') /\ OnlyOf(t, all, m_cursor')
          /\ \A s \in CursorSizes : m_cursor'[s][t].bitmaps = all[s][t].bitmaps
          /\ \A s \in fits : m_cursor'[s][t].bitmaps # 0 => m_cursor'[s][t].frames # <<>>
      BY <2>6, <2>8
    <3>2. OnlyOf(t, m_cursor, m_cursor')
      BY <2>2, <3>1 DEF OnlyOf
    <3>3. \E s \in CursorSizes : m_cursor'[s][t].bitmaps # 0
      BY <2>2, <3>1
    <3>4. Whole(m_cursor) => Whole(m_cursor')
      <4> SUFFICES ASSUME Whole(m_cursor), NEW s \in CursorSizes, NEW u \in CursorTypes, m_cursor'[s][u].bitmaps # 0
                   PROVE  m_cursor'[s][u].frames # <<>>
        BY DEF Whole
      <4>1. CASE u # t
        BY <3>2, <4>1 DEF OnlyOf, Whole
      <4>2. CASE u = t
        <5>1. all[s][t].bitmaps # 0
          BY <3>1, <4>2
        <5>2. all[s][t].bitmaps \in Nat
          BY <2>2 DEF SoundCursors, CursorData
        <5>3. s \in SizesIn(all)
          BY <5>1, <5>2 DEF SizesIn
        <5> QED
          BY <2>8, <3>1, <4>2, <5>3
      <4> QED
        BY <4>1, <4>2
    <3> QED
      BY <2>8, <3>1, <3>2, <3>3, <3>4
  <2>9. CASE \E before \in SUBSET fits : m_cursor' = WithFrames(all, t, ani, before) /\ gaveUpAni' = TRUE
    <3>1. PICK before \in SUBSET fits : m_cursor' = WithFrames(all, t, ani, before) /\ gaveUpAni' = TRUE
      BY <2>9
    <3>2. /\ SoundCursors(m_cursor') /\ OnlyOf(t, all, m_cursor')
          /\ \A s \in CursorSizes : m_cursor'[s][t].bitmaps = all[s][t].bitmaps
      BY <2>6, <3>1
    <3>3. OnlyOf(t, m_cursor, m_cursor')
      BY <2>2, <3>2 DEF OnlyOf
    <3>4. \E s \in CursorSizes : m_cursor'[s][t].bitmaps # 0
      BY <2>2, <3>2
    <3> QED
      BY <3>1, <3>2, <3>3, <3>4
  <2> QED
    BY <2>3, <2>7, <2>8, <2>9
<1> QED
  BY <1>1, <1>2 DEF LoadCursor

-----------------------------------------------------------------------------
(* An animation is on time: the frame it stands at has not ended, and       *)
(* what is left of it is what the time the animation has run leaves.        *)
OnTime(data, frame, rest, time) ==
    /\ rest \in Nat /\ rest <= Delay(data, frame) /\ (rest < Delay(data, frame) \/ frame = 0)
    /\ time \in Nat \cup {Unknown}
    /\ time # Unknown => Lasts(data, frame) - rest = time /\ (rest < Delay(data, frame) \/ time = 0)

\* An animation that is on time is on time when it is looked at next.
LEMMA ClockKeepsTime ==
    ASSUME NEW data, Moving(data), NEW frame \in 0 .. L(data) - 1, NEW rest, NEW time, OnTime(data, frame, rest, time),
           NEW passed \in 0 .. MaxPause,
           NEW end, end = Ends(data, frame, rest, MaxPause), NEW n, n = Min({i \in DOMAIN end : passed <= end[i]}),
           NEW f, f = (frame + n) % L(data),
           NEW later, later = IF time = Unknown \/ time + passed = 0 THEN time ELSE (((time + passed) - 1) % Period(data)) + 1
    PROVE  f \in 0 .. L(data) - 1 /\ OnTime(data, f, end[n] - passed, later)
<1>1. rest \in Nat /\ rest <= Delay(data, frame) /\ (rest < Delay(data, frame) \/ frame = 0) /\ MaxPause \in Nat
  BY CursorBoundsAssumption DEF OnTime
<1> DEFINE r == end[n] - passed
           run == Lasts(data, frame) - rest + passed
<1>2. /\ f \in 0 .. L(data) - 1 /\ r \in Nat /\ r <= Delay(data, f) /\ (r < Delay(data, f) \/ f = 0)
      /\ Lasts(data, frame) - rest \in Nat /\ Period(data) \in Nat \ {0}
      /\ Lasts(data, f) - r = IF run = 0 THEN 0 ELSE ((run - 1) % Period(data)) + 1
      /\ r < Delay(data, f) \/ run = 0
  <2>1. Passes(data, frame, rest, passed, f, r)
    BY <1>1, ClockStep
  <2> QED
    BY <2>1 DEF Passes
<1> HIDE DEF r
<1>3. CASE time = Unknown
  BY <1>2, <1>3 DEF OnTime, r
<1>4. CASE time # Unknown
  <2>1. time \in Nat /\ Lasts(data, frame) - rest = time
    BY <1>4 DEF OnTime
  <2>2. run = time + passed
    BY <2>1
  <2> HIDE DEF run
  <2>3. later = IF run = 0 THEN 0 ELSE ((run - 1) % Period(data)) + 1
    BY <1>4, <2>1, <2>2
  <2>4. later \in Nat
    <3>1. CASE run = 0
      BY <2>3, <3>1
    <3>2. CASE run # 0
      <4>1. run - 1 \in Nat /\ later = ((run - 1) % Period(data)) + 1
        BY <2>1, <2>2, <2>3, <3>2
      <4>2. (run - 1) % Period(data) \in Nat
        BY <1>2, <4>1, Division
      <4> QED
        BY <4>1, <4>2
    <3> QED
      BY <3>1, <3>2
  <2>5. Lasts(data, f) - r = later /\ (r < Delay(data, f) \/ later = 0)
    BY <1>2, <2>3
  <2> QED
    BY <1>2, <2>4, <2>5 DEF OnTime, r
<1> QED
  BY <1>3, <1>4

LoadsTheme == making \in {"themes", "win", "logic"}

\* A cursor is shown that there is, and it is on time.
ShownIsSound ==
    /\ m_size \in CursorSizes /\ m_type \in CursorTypes
    /\ m_frame \in 0 .. Len(Current.frames) - 1
    /\ pause \in 0 .. MaxPause
    /\ Animates(Current) => OnTime(Current, m_frame, m_frameTime, age)
    /\ ~m_needUpdate => onScreen = <<Looks(m_cursor, m_size, m_type), Bitmap(Current, m_frame)>>

\* The inductive invariant: what each stage of loading has left behind.
CursorsInvariant ==
    /\ SoundCursors(m_cursor)
    /\ gaveUpAni \/ Whole(m_cursor)
    /\ making = "themes" =>
          /\ file[2] \in CursorTypes
          /\ \A s \in CursorSizes, t \in CursorTypes : m_cursor[s][t].bitmaps = 0 => m_cursor[s][t] = NoCursorData
    /\ making = "win" =>
          /\ file[2] \in 0 .. NumTypes
          /\ \A t \in CursorTypes : t >= file[2] => Fresh(m_cursor, t)
          /\ file[2] # 0 => SizesIn(m_cursor) # {}
    /\ making = "logic" => SizesIn(m_cursor) # {}
    /\ LoadsTheme => m_type = 0 /\ m_frame = 0 /\ m_needUpdate = FALSE /\ pause = 0 /\ age = 0
    /\ making = "broken" => gaveUpAni \/ Get(m_cursor, m_size, 0).bitmaps = 0
    /\ making = "shown" => ShownIsSound

\* Loading a theme and showing its cursors.
CursorsSpec == CursorsInit /\ [][CursorsNext]_cursorVars

\* There is a default.
LEMMA DefaultIsAType == 0 \in CursorTypes
BY NumTypesAssumption DEF CursorTypes

\* A theme that has nothing is sound.
LEMMA NothingInTheme ==
    /\ SoundCursors(NoCursors) /\ Whole(NoCursors)
    /\ \A s \in CursorSizes, t \in CursorTypes : NoCursors[s][t] = NoCursorData
<1>1. NoCursorData \in CursorData
  BY NothingIsSound DEF SoundData
<1>2. NoCursors \in [CursorSizes -> [CursorTypes -> CursorData]]
  BY <1>1 DEF NoCursors
<1>3. ASSUME NEW s \in CursorSizes, NEW t \in CursorTypes
      PROVE  NoCursors[s][t] = NoCursorData
  BY DEF NoCursors
<1> QED
  BY <1>2, <1>3, NothingIsSound DEF SoundCursors, Whole

\* What Get finds.
LEMMA GetFinds ==
    ASSUME NEW cursor, SoundCursors(cursor), NEW s \in CursorSizes, NEW t \in CursorTypes
    PROVE  /\ SoundData(Get(cursor, s, t)) /\ Looks(cursor, s, 0) = 0
           /\ Get(cursor, s, t) = cursor[s][t] \/ Get(cursor, s, t) = cursor[s][0]
           /\ Get(cursor, s, t).bitmaps = 0 => Get(cursor, s, 0).bitmaps = 0
           /\ Whole(cursor) /\ Get(cursor, s, t).bitmaps # 0 => Get(cursor, s, t).frames # <<>>
<1>1. Looks(cursor, s, t) \in CursorTypes /\ 0 \in CursorTypes /\ Looks(cursor, s, 0) = 0
  BY DefaultIsAType DEF Looks
<1>2. SoundData(Get(cursor, s, t))
  BY <1>1 DEF Get, SoundCursors
<1>3. Get(cursor, s, t) = cursor[s][t] \/ Get(cursor, s, t) = cursor[s][0]
  BY DEF Get, Looks
<1>4. ASSUME Get(cursor, s, t).bitmaps = 0
      PROVE  Get(cursor, s, 0).bitmaps = 0
  <2>1. Get(cursor, s, 0) = cursor[s][0]
    BY <1>1 DEF Get
  <2>2. Get(cursor, s, t) = IF cursor[s][t].bitmaps = 0 THEN cursor[s][0] ELSE cursor[s][t]
    BY DEF Get, Looks
  <2> QED
    BY <1>4, <2>1, <2>2
<1>5. Whole(cursor) /\ Get(cursor, s, t).bitmaps # 0 => Get(cursor, s, t).frames # <<>>
  BY <1>1 DEF Get, Whole
<1> QED
  BY <1>1, <1>2, <1>3, <1>4, <1>5

\* What animates moves.
LEMMA AnimatedMoves ==
    ASSUME NEW data, SoundData(data), Animates(data), data.frames # <<>>
    PROVE  Moving(data)
<1>1. data.frames \in Seq([delay : Nat, frame : Nat]) /\ data.bitmaps # 1
  BY DEF SoundData, CursorData, Animates
<1>2. L(data) \in Nat \ {0}
  BY <1>1 DEF L
<1>3. ASSUME NEW i \in 1 .. L(data)
      PROVE  data.frames[i].delay \in Nat \ {0}
  <2>1. i \in 1 .. Len(data.frames) /\ data.frames[i] \in [delay : Nat, frame : Nat]
    <3> DEFINE frames == data.frames
               Frame == [delay : Nat, frame : Nat]
    <3>1. i \in 1 .. Len(frames) /\ frames \in Seq(Frame)
      BY <1>1 DEF L
    <3> HIDE DEF frames, Frame
    <3>2. frames[i] \in Frame
      BY <3>1
    <3> QED
      BY <3>1, <3>2 DEF frames, Frame
  <2>2. data.frames[i].delay # 0
    BY <1>1, <2>1 DEF SoundData
  <2> QED
    BY <2>1, <2>2
<1> QED
  BY <1>2, <1>3 DEF Moving

\* An animation begins on time.
LEMMA StartsOnTime ==
    ASSUME NEW data, Moving(data), NEW time \in {0, Unknown}
    PROVE  OnTime(data, 0, data.frames[1].delay, time)
<1>1. 0 % L(data) = 0 /\ L(data) \in Nat \ {0}
  BY Remains DEF Moving
<1>2. Delay(data, 0) = data.frames[1].delay
  BY <1>1 DEF Delay, L
<1>3. Lasts(data, 0) = Delay(data, 0) /\ Delay(data, 0) \in Nat \ {0}
  BY LastsAre, DelayRepeats
<1> QED
  BY <1>2, <1>3 DEF OnTime, Unknown

\* The invariant says what the property does.
LEMMA InvariantShows ==
    CursorsInvariant => CursorIsShown
<1> SUFFICES ASSUME CursorsInvariant PROVE CursorIsShown
  OBVIOUS
<1>1. SizeFits
  <2>1. making = "logic" => SizesIn(m_cursor) # {}
    BY DEF CursorsInvariant
  <2>2. \A wanted \in WantedSizes : wanted \in Nat
    BY WantedSizesAssumption
  <2> QED
    BY <2>1, <2>2, NearestSize DEF SizeFits
<1>2. making = "shown" => SoundData(Current) /\ ShownIsSound
  BY GetFinds DEF CursorsInvariant, ShownIsSound, Current
<1>3. CursorIsThere
  <2>1. making = "broken" => gaveUpAni \/ Get(m_cursor, m_size, 0).bitmaps = 0
    BY DEF CursorsInvariant
  <2>2. ASSUME making = "shown", Current.bitmaps # 0
        PROVE  m_frame < Len(Current.frames) /\ Bitmap(Current, m_frame) < Current.bitmaps
    <3>1. Current.frames \in Seq([delay : Nat, frame : Nat]) /\ m_frame \in 0 .. Len(Current.frames) - 1
      BY <1>2, <2>2 DEF SoundData, CursorData, ShownIsSound
    <3>2. m_frame + 1 \in 1 .. Len(Current.frames) /\ m_frame < Len(Current.frames)
      BY <3>1
    <3>3. CASE Animates(Current)
      <4>1. Current.frames[m_frame + 1].frame < Current.bitmaps
        BY <1>2, <2>2, <3>2 DEF SoundData
      <4> QED
        BY <3>2, <3>3, <4>1 DEF Bitmap
    <3>4. CASE ~Animates(Current)
      BY <3>2, <3>4 DEF Bitmap, Animates
    <3> QED
      BY <3>3, <3>4
  <2> QED
    BY <2>1, <2>2 DEF CursorIsThere
<1>4. AnimationKeepsTime
  BY <1>2 DEF ShownIsSound, OnTime, AnimationKeepsTime
<1>5. DrawnIsCurrent
  BY <1>2 DEF ShownIsSound, DrawnIsCurrent
<1> QED
  BY <1>1, <1>3, <1>4, <1>5 DEF CursorIsShown

\* The invariant holds before the theme is looked for.
LEMMA CursorsStart == CursorsInit => CursorsInvariant
<1> SUFFICES ASSUME CursorsInit PROVE CursorsInvariant
  OBVIOUS
<1>1. making = "themes" /\ m_cursor = NoCursors /\ file[2] = 0
  BY DEF CursorsInit
<1>2. m_type = 0 /\ m_frame = 0 /\ m_needUpdate = FALSE /\ pause = 0 /\ age = 0
  BY DEF CursorsInit
<1> QED
  BY <1>1, <1>2, NothingInTheme, DefaultIsAType DEF CursorsInvariant, LoadsTheme

\* Nothing is shown while the theme is loaded, so that only what it has matters.
LEMMA StillLoading ==
    ASSUME CursorsInvariant, LoadsTheme, UNCHANGED shownVars, making' \in {"themes", "win", "logic", "failed", "panicked"},
           SoundCursors(m_cursor'), gaveUpAni' \/ Whole(m_cursor'),
           making' = "themes" =>
               /\ file'[2] \in CursorTypes
               /\ \A s \in CursorSizes, t \in CursorTypes : m_cursor'[s][t].bitmaps = 0 => m_cursor'[s][t] = NoCursorData,
           making' = "win" =>
               /\ file'[2] \in 0 .. NumTypes
               /\ \A t \in CursorTypes : t >= file'[2] => Fresh(m_cursor', t)
               /\ file'[2] # 0 => SizesIn(m_cursor') # {},
           making' = "logic" => SizesIn(m_cursor') # {}
    PROVE  CursorsInvariant'
<1>1. m_type' = 0 /\ m_frame' = 0 /\ m_needUpdate' = FALSE /\ pause' = 0 /\ age' = 0
  BY DEF CursorsInvariant, shownVars
<1> QED
  BY <1>1 DEF CursorsInvariant, LoadsTheme

\* Looking for the theme changes nothing that it has.
LEMMA GetThemeDataKeeps == CursorsInvariant /\ GetThemeData => CursorsInvariant'
<1> SUFFICES ASSUME CursorsInvariant, GetThemeData PROVE CursorsInvariant'
  OBVIOUS
<1>1. making = "themes" /\ UNCHANGED <<making, file, m_cursor, gaveUpAni, shownVars>>
  BY DEF GetThemeData
<1>2. LoadsTheme
  BY <1>1 DEF LoadsTheme
<1> QED
  BY <1>1, <1>2, StillLoading DEF CursorsInvariant

\* A type is loaded from an X cursor only while it is missing.
LEMMA LoadXCursorFileKeeps == CursorsInvariant /\ LoadXCursorFile => CursorsInvariant'
<1> SUFFICES ASSUME CursorsInvariant, LoadXCursorFile PROVE CursorsInvariant'
  OBVIOUS
<1>1. making = "themes" /\ UNCHANGED <<making, gaveUpAni, shownVars>> /\ file' = NextFile
  BY DEF LoadXCursorFile
<1>2. LoadsTheme
  BY <1>1 DEF LoadsTheme
<1>3. file[2] \in CursorTypes /\ SoundCursors(m_cursor) /\ (gaveUpAni \/ Whole(m_cursor))
  BY <1>1 DEF CursorsInvariant
<1>4. file'[2] \in CursorTypes
  <2>1. CASE file[2] = NumTypes - 1
    BY <1>1, <2>1, DefaultIsAType DEF NextFile
  <2>2. CASE file[2] # NumTypes - 1
    <3>1. file'[2] = file[2] + 1
      BY <1>1, <2>2 DEF NextFile
    <3> QED
      BY <1>3, <2>2, <3>1, NumTypesAssumption DEF CursorTypes
  <2> QED
    BY <2>1, <2>2
<1>5. CASE UNCHANGED m_cursor
  BY <1>1, <1>2, <1>4, <1>5, StillLoading DEF CursorsInvariant
<1>6. CASE ~UNCHANGED m_cursor
  <2>1. PICK images \in XCursorImages : m_cursor' = WithImages(m_cursor, file[2], images)
    BY <1>6 DEF LoadXCursorFile
  <2>2. ASSUME NEW s \in CursorSizes
        PROVE  images[s] \in Seq(Nat) /\ Lasting(images[s])
    <3>1. images[s] \in BoundedSeq(Delays, MaxImages)
      BY DEF XCursorImages
    <3>2. images[s] \in Seq(Delays) /\ Delays \subseteq Nat \ {0} /\ Delays \subseteq Nat
      BY <3>1, BoundedSequences, CursorBoundsAssumption, DelaysAssumption
    <3>3. images[s] \in Seq(Nat)
      BY <3>2, WiderSequences, Zenon
    <3>4. images[s] \in [1 .. Len(images[s]) -> Delays]
      BY <3>2
    <3>5. \A i \in 1 .. Len(images[s]) : images[s][i] # 0
      BY <3>2, <3>4
    <3> QED
      BY <3>3, <3>5 DEF Lasting
  <2>3. Timed(images)
    <3>1. images = [s \in CursorSizes |-> images[s]]
      BY DEF XCursorImages
    <3>2. images \in [CursorSizes -> Seq(Nat)]
      BY <2>2, <3>1
    <3> QED
      BY <2>2, <3>2 DEF Timed
  <2>4. /\ SoundCursors(m_cursor') /\ OnlyOf(file[2], m_cursor, m_cursor')
        /\ Whole(m_cursor) => Whole(m_cursor')
        /\ \A s \in CursorSizes : m_cursor'[s] = m_cursor[s] \/ m_cursor'[s][file[2]].bitmaps # 0
    BY <1>3, <2>1, <2>3, ImagesAreSound
  <2>5. ASSUME NEW s \in CursorSizes, NEW t \in CursorTypes, m_cursor'[s][t].bitmaps = 0
        PROVE  m_cursor'[s][t] = NoCursorData
    <3>1. m_cursor'[s][t] = m_cursor[s][t]
      BY <2>4, <2>5 DEF OnlyOf
    <3> QED
      BY <1>1, <2>5, <3>1 DEF CursorsInvariant
  <2>6. gaveUpAni' \/ Whole(m_cursor')
    BY <1>1, <1>3, <2>4
  <2>7. making' = "themes"
    BY <1>1
  <2> QED
    BY <1>1, <1>2, <1>4, <2>4, <2>5, <2>6, <2>7, StillLoading
<1> QED
  BY <1>5, <1>6

\* Where no size is, there is nothing.
LEMMA NoSizes ==
    ASSUME NEW cursor, SoundCursors(cursor), SizesIn(cursor) = {}, NEW s \in CursorSizes, NEW t \in CursorTypes
    PROVE  cursor[s][t].bitmaps = 0
<1>1. cursor[s][t].bitmaps \in Nat
  BY DEF SoundCursors, SoundData, CursorData
<1>2. ~(cursor[s][t].bitmaps > 0)
  BY DEF SizesIn
<1> QED
  BY <1>1, <1>2

\* Where something is, there is a size.
LEMMA SomeSize ==
    ASSUME NEW cursor, SoundCursors(cursor), NEW s \in CursorSizes, NEW t \in CursorTypes, cursor[s][t].bitmaps # 0
    PROVE  SizesIn(cursor) # {}
BY NoSizes

\* Windows cursors are looked for only where there is nothing.
LEMMA EndXCursorKeeps == CursorsInvariant /\ EndXCursor => CursorsInvariant'
<1> SUFFICES ASSUME CursorsInvariant, EndXCursor PROVE CursorsInvariant'
  OBVIOUS
<1>1. /\ making = "themes" /\ UNCHANGED <<m_cursor, gaveUpAni, shownVars>> /\ file' = <<1, 0>>
      /\ making' = IF SizesIn(m_cursor) = {} THEN "win" ELSE "logic"
  BY DEF EndXCursor
<1>2. LoadsTheme
  BY <1>1 DEF LoadsTheme
<1>3. making' = "win" => \A t \in CursorTypes : Fresh(m_cursor', t)
  <2> SUFFICES ASSUME making' = "win", NEW t \in CursorTypes, NEW s \in CursorSizes
               PROVE  m_cursor[s][t] = NoCursorData
    BY <1>1 DEF Fresh
  <2>1. SizesIn(m_cursor) = {}
    BY <1>1
  <2> QED
    BY <1>1, <2>1, NoSizes DEF CursorsInvariant
<1>4. file'[2] = 0 /\ file'[2] \in 0 .. NumTypes
  BY <1>1, NumTypesAssumption
<1>5. SoundCursors(m_cursor') /\ (gaveUpAni' \/ Whole(m_cursor'))
  BY <1>1 DEF CursorsInvariant
<1>6. making' = "logic" => SizesIn(m_cursor') # {}
  BY <1>1
<1>7. making' \in {"win", "logic"}
  BY <1>1
<1> QED
  BY <1>1, <1>2, <1>3, <1>4, <1>5, <1>6, <1>7, StillLoading

\* The types that are still to come remain missing.
LEMMA OthersStayFresh ==
    ASSUME NEW t \in CursorTypes, NEW before, NEW after, OnlyOf(t, before, after),
           NEW n \in Nat, \A u \in CursorTypes : u >= n => Fresh(before, u), n = t
    PROVE  \A u \in CursorTypes : u >= n + 1 => Fresh(after, u)
<1> SUFFICES ASSUME NEW u \in CursorTypes, u >= n + 1 PROVE Fresh(after, u)
  OBVIOUS
<1>1. u # t /\ u >= n
  BY DEF CursorTypes
<1> QED
  BY <1>1 DEF OnlyOf, Fresh

\* The default comes first, and without it nothing has been loaded.
LEMMA LoadWinDefaultKeeps == CursorsInvariant /\ LoadWinDefault => CursorsInvariant'
<1> SUFFICES ASSUME CursorsInvariant, LoadWinDefault PROVE CursorsInvariant'
  OBVIOUS
<1>1. making = "win" /\ file[2] = 0 /\ UNCHANGED shownVars
  BY DEF LoadWinDefault
<1>2. LoadsTheme
  BY <1>1 DEF LoadsTheme
<1>3. SoundCursors(m_cursor) /\ (gaveUpAni \/ Whole(m_cursor)) /\ \A t \in CursorTypes : Fresh(m_cursor, t)
  <2>1. \A t \in CursorTypes : t >= 0
    BY DEF CursorTypes
  <2> QED
    BY <1>1, <2>1 DEF CursorsInvariant
<1>4. CASE UNCHANGED <<making, m_cursor, gaveUpAni>> /\ file' = <<file[1] + 1, 0>>
  <2>1. file'[2] = 0 /\ 0 \in 0 .. NumTypes
    BY <1>4, NumTypesAssumption
  <2> QED
    BY <1>1, <1>2, <1>3, <1>4, <2>1, StillLoading
<1>5. ASSUME NEW ok \in BOOLEAN, LoadCursor(0, ok),
             making' = IF ok /\ 32 \notin SizesIn(m_cursor') THEN "panicked"
                       ELSE IF ~ok /\ SizesIn(m_cursor') # {} THEN "logic"
                       ELSE "win",
             file' = IF ok THEN <<file[1], 1>> ELSE <<file[1] + 1, 0>>
      PROVE  CursorsInvariant'
  <2>1. /\ SoundCursors(m_cursor') /\ OnlyOf(0, m_cursor, m_cursor')
        /\ gaveUpAni \/ Whole(m_cursor) => gaveUpAni' \/ Whole(m_cursor')
        /\ m_cursor' = m_cursor \/ \E s \in CursorSizes : m_cursor'[s][0].bitmaps # 0
    BY <1>3, <1>5, DefaultIsAType, LoadedSoundly
  <2>2. CASE making' = "win" /\ ok
    <3>1. SizesIn(m_cursor') # {} /\ file'[2] = 1 /\ 1 \in 0 .. NumTypes
      BY <1>5, <2>2, NumTypesAssumption
    <3>2. \A t \in CursorTypes : t >= 0 + 1 => Fresh(m_cursor', t)
      BY <1>3, <2>1, DefaultIsAType, OthersStayFresh
    <3> QED
      BY <1>1, <1>2, <1>3, <2>1, <2>2, <3>1, <3>2, StillLoading
  <2>3. CASE making' = "win" /\ ~ok
    <3>1. SizesIn(m_cursor') = {} /\ file'[2] = 0 /\ 0 \in 0 .. NumTypes
      BY <1>5, <2>3, NumTypesAssumption
    <3>2. m_cursor' = m_cursor
      BY <2>1, <3>1, DefaultIsAType, SomeSize
    <3> QED
      BY <1>1, <1>2, <1>3, <2>1, <2>3, <3>1, <3>2, StillLoading
  <2>4. CASE making' # "win"
    <3>1. making' \in {"panicked", "logic"} /\ (making' = "logic" => SizesIn(m_cursor') # {})
      BY <1>5, <2>4
    <3> QED
      BY <1>1, <1>2, <1>3, <2>1, <3>1, StillLoading
  <2> QED
    BY <2>2, <2>3, <2>4
<1> QED
  BY <1>4, <1>5 DEF LoadWinDefault

\* Each other type is loaded once, and leaves the default there.
LEMMA LoadWinCursorKeeps == CursorsInvariant /\ LoadWinCursor => CursorsInvariant'
<1> SUFFICES ASSUME CursorsInvariant, LoadWinCursor PROVE CursorsInvariant'
  OBVIOUS
<1> DEFINE t == file[2]
<1>1. making = "win" /\ UNCHANGED <<making, shownVars>> /\ t \in 1 .. NumTypes - 1 /\ file'[2] = t + 1
  BY DEF LoadWinCursor
<1>2. LoadsTheme
  BY <1>1 DEF LoadsTheme
<1>3. /\ SoundCursors(m_cursor) /\ (gaveUpAni \/ Whole(m_cursor)) /\ SizesIn(m_cursor) # {}
      /\ \A u \in CursorTypes : u >= t => Fresh(m_cursor, u)
  BY <1>1 DEF CursorsInvariant
<1>4. t \in CursorTypes /\ t \in Nat /\ t >= t /\ t + 1 \in 0 .. NumTypes
  BY <1>1, NumTypesAssumption DEF CursorTypes
<1>5. CASE UNCHANGED <<m_cursor, gaveUpAni>>
  <2>1. \A u \in CursorTypes : u >= t + 1 => Fresh(m_cursor', u)
    <3>1. \A u \in CursorTypes : u >= t + 1 => u >= t
      BY <1>4 DEF CursorTypes
    <3> QED
      BY <1>3, <1>5, <3>1
  <2> QED
    BY <1>1, <1>2, <1>3, <1>4, <1>5, <2>1, StillLoading
<1>6. ASSUME NEW ok \in BOOLEAN, LoadCursor(t, ok)
      PROVE  CursorsInvariant'
  <2>1. Fresh(m_cursor, t)
    BY <1>3, <1>4
  <2>2. /\ SoundCursors(m_cursor') /\ OnlyOf(t, m_cursor, m_cursor')
        /\ gaveUpAni \/ Whole(m_cursor) => gaveUpAni' \/ Whole(m_cursor')
    BY <1>3, <1>4, <1>6, <2>1, LoadedSoundly
  <2>3. \A u \in CursorTypes : u >= t + 1 => Fresh(m_cursor', u)
    BY <1>3, <1>4, <2>2, OthersStayFresh
  <2>4. SizesIn(m_cursor') # {}
    <3>1. PICK s \in CursorSizes, u \in CursorTypes : m_cursor[s][u].bitmaps > 0
      BY <1>3 DEF SizesIn
    <3>2. u # t
      BY <2>1, <3>1, NothingIsSound DEF Fresh
    <3>3. m_cursor'[s][u].bitmaps > 0
      BY <2>2, <3>1, <3>2 DEF OnlyOf
    <3> QED
      BY <3>3 DEF SizesIn
  <2> QED
    BY <1>1, <1>2, <1>3, <1>4, <2>2, <2>3, <2>4, StillLoading
<1> QED
  BY <1>5, <1>6 DEF LoadWinCursor

\* A theme is made of Windows cursors only after the default was there.
LEMMA EndWinCursorKeeps == CursorsInvariant /\ EndWinCursor => CursorsInvariant'
<1> SUFFICES ASSUME CursorsInvariant, EndWinCursor PROVE CursorsInvariant'
  OBVIOUS
<1>1. /\ making = "win" /\ UNCHANGED <<m_cursor, gaveUpAni, shownVars>>
      /\ making' = "failed" \/ (file[2] = NumTypes /\ making' = "logic")
  BY DEF EndWinCursor
<1>2. LoadsTheme
  BY <1>1 DEF LoadsTheme
<1>3. making' = "logic" => SizesIn(m_cursor') # {}
  BY <1>1, NumTypesAssumption DEF CursorsInvariant
<1>4. SoundCursors(m_cursor') /\ (gaveUpAni' \/ Whole(m_cursor')) /\ making' \in {"failed", "logic"}
  BY <1>1 DEF CursorsInvariant
<1> QED
  BY <1>1, <1>2, <1>3, <1>4, StillLoading

\* The default is shown first, unless it has no frame.
LEMMA MakeLogicKeeps == CursorsInvariant /\ MakeLogic => CursorsInvariant'
<1> SUFFICES ASSUME CursorsInvariant, MakeLogic PROVE CursorsInvariant'
  OBVIOUS
<1>1. making = "logic" /\ UNCHANGED <<gaveUpAni, m_type, m_frame, m_needUpdate, pause, age>>
  BY DEF MakeLogic
<1>2. /\ SoundCursors(m_cursor) /\ (gaveUpAni \/ Whole(m_cursor)) /\ SizesIn(m_cursor) # {}
      /\ m_type = 0 /\ m_frame = 0 /\ m_needUpdate = FALSE /\ pause = 0 /\ age = 0
  BY <1>1 DEF CursorsInvariant, LoadsTheme
<1>3. PICK wanted \in WantedSizes :
          LET size == FitSize(wanted)
              data == Get(m_cursor, size, 0)
          IN  /\ m_size' = size
              /\ m_cursor' = [NoCursors EXCEPT ![size] = m_cursor[size]]
              /\ IF data.frames = <<>>
                   THEN making' = "broken" /\ UNCHANGED <<m_frameTime, onScreen>>
                   ELSE /\ making' = "shown"
                        /\ m_frameTime' = data.frames[1].delay
                        /\ onScreen' = <<0, Bitmap(data, 0)>>
  BY DEF MakeLogic
<1> DEFINE size == FitSize(wanted)
           data == Get(m_cursor, size, 0)
<1>4. /\ m_size' = size /\ m_cursor' = [NoCursors EXCEPT ![size] = m_cursor[size]]
      /\ \/ data.frames = <<>> /\ making' = "broken"
         \/ /\ data.frames # <<>> /\ making' = "shown"
            /\ m_frameTime' = data.frames[1].delay
            /\ onScreen' = <<0, Bitmap(data, 0)>>
  BY <1>3
<1>5. size \in CursorSizes
  BY <1>2, WantedSizesAssumption, NearestSize DEF SizesIn
<1> HIDE DEF size
<1>6. SoundCursors(m_cursor') /\ (gaveUpAni' \/ Whole(m_cursor')) /\ m_cursor'[size] = m_cursor[size]
  <2>1. /\ NoCursors \in [CursorSizes -> [CursorTypes -> CursorData]] /\ m_cursor[size] \in [CursorTypes -> CursorData]
        /\ m_cursor' \in [CursorSizes -> [CursorTypes -> CursorData]]
    BY <1>2, <1>4, <1>5, NothingInTheme DEF SoundCursors
  <2>2. \A s \in CursorSizes : IF s = size THEN m_cursor'[s] = m_cursor[s] ELSE m_cursor'[s] = NoCursors[s]
    <3>1. DOMAIN NoCursors = CursorSizes
      BY DEF NoCursors
    <3> QED
      BY <1>4, <3>1
  <2>3. m_cursor'[size] = m_cursor[size]
    BY <1>5, <2>2
  <2>4. SoundCursors(m_cursor')
    BY <1>2, <2>1, <2>2, NothingInTheme DEF SoundCursors
  <2>5. Whole(m_cursor) => Whole(m_cursor')
    BY <2>2, NothingInTheme DEF Whole
  <2> QED
    BY <1>1, <1>2, <2>3, <2>4, <2>5
<1>7. \A t : Get(m_cursor', size, t) = Get(m_cursor, size, t) /\ Looks(m_cursor', size, t) = Looks(m_cursor, size, t)
  BY <1>6 DEF Get, Looks
<1>8. Get(m_cursor', m_size', 0) = data /\ Looks(m_cursor', m_size', 0) = 0
  BY <1>4, <1>5, <1>6, <1>7, GetFinds, DefaultIsAType
<1>9. SoundData(data) /\ (Whole(m_cursor) /\ data.bitmaps # 0 => data.frames # <<>>)
  BY <1>2, <1>5, GetFinds, DefaultIsAType
<1>10. m_type' = 0 /\ m_frame' = 0 /\ m_needUpdate' = FALSE /\ pause' = 0 /\ age' = 0 /\ gaveUpAni' = gaveUpAni
  BY <1>1, <1>2
<1>11. Current' = data
  BY <1>8, <1>10 DEF Current
<1> HIDE DEF data
<1>12. CASE data.frames = <<>> /\ making' = "broken"
  <2>1. gaveUpAni' \/ Get(m_cursor', m_size', 0).bitmaps = 0
    BY <1>2, <1>8, <1>9, <1>10, <1>12
  <2> QED
    BY <1>6, <1>12, <2>1 DEF CursorsInvariant, LoadsTheme
<1>13. CASE /\ data.frames # <<>> /\ making' = "shown"
            /\ m_frameTime' = data.frames[1].delay
            /\ onScreen' = <<0, Bitmap(data, 0)>>
  <2>1. m_frame' \in 0 .. Len(data.frames) - 1
    <3>1. Len(data.frames) \in Nat \ {0}
      BY <1>9, <1>13 DEF SoundData, CursorData
    <3> QED
      BY <1>10, <3>1
  <2>2. Animates(data) => OnTime(data, m_frame', m_frameTime', age')
    BY <1>9, <1>10, <1>13, AnimatedMoves, StartsOnTime
  <2>3. m_size' \in CursorSizes /\ m_type' \in CursorTypes /\ pause' \in 0 .. MaxPause
    BY <1>4, <1>5, <1>10, DefaultIsAType, CursorBoundsAssumption
  <2>4. onScreen' = <<Looks(m_cursor', m_size', m_type'), Bitmap(data, m_frame')>>
    BY <1>8, <1>10, <1>13
  <2>5. ShownIsSound'
    BY <1>11, <2>1, <2>2, <2>3, <2>4 DEF ShownIsSound
  <2> QED
    BY <1>6, <1>13, <2>5 DEF CursorsInvariant, LoadsTheme
<1> QED
  BY <1>4, <1>12, <1>13

\* A cursor that is set begins at its first frame, unless it has none.
LEMMA SetAnyCursorKeeps == CursorsInvariant /\ SetAnyCursor => CursorsInvariant'
<1> SUFFICES ASSUME CursorsInvariant, SetAnyCursor PROVE CursorsInvariant'
  OBVIOUS
<1>1. making = "shown" /\ UNCHANGED <<m_cursor, m_size, gaveUpAni, pause>>
  BY DEF SetAnyCursor
<1>2. SoundCursors(m_cursor) /\ (gaveUpAni \/ Whole(m_cursor)) /\ m_size \in CursorSizes /\ pause \in 0 .. MaxPause
  BY <1>1 DEF CursorsInvariant, ShownIsSound
<1>3. PICK t \in CursorTypes : SetCursor(t)
  BY DEF SetAnyCursor
<1> DEFINE data == Get(m_cursor, m_size, t)
<1>4. /\ m_type' = t /\ m_needUpdate' = TRUE /\ age' \in {0, Unknown}
      /\ \/ data.frames = <<>> /\ making' = "broken"
         \/ data.frames # <<>> /\ m_frameTime' = data.frames[1].delay /\ m_frame' = 0 /\ UNCHANGED making
  BY <1>3 DEF SetCursor
<1>5. /\ SoundData(data) /\ (data.bitmaps = 0 => Get(m_cursor, m_size, 0).bitmaps = 0)
      /\ Whole(m_cursor) /\ data.bitmaps # 0 => data.frames # <<>>
  BY <1>2, GetFinds
<1>6. Current' = data
  BY <1>1, <1>4 DEF Current
<1>7. SoundCursors(m_cursor') /\ (gaveUpAni' \/ Whole(m_cursor'))
  BY <1>1, <1>2
<1>8. Get(m_cursor', m_size', 0) = Get(m_cursor, m_size, 0)
  BY <1>1
<1> HIDE DEF data
<1>9. CASE data.frames = <<>> /\ making' = "broken"
  <2>1. gaveUpAni' \/ Get(m_cursor', m_size', 0).bitmaps = 0
    BY <1>1, <1>2, <1>5, <1>8, <1>9
  <2> QED
    BY <1>7, <1>9, <2>1 DEF CursorsInvariant, LoadsTheme
<1>10. CASE data.frames # <<>> /\ m_frameTime' = data.frames[1].delay /\ m_frame' = 0 /\ UNCHANGED making
  <2>1. m_frame' \in 0 .. Len(data.frames) - 1
    <3>1. Len(data.frames) \in Nat \ {0}
      BY <1>5, <1>10 DEF SoundData, CursorData
    <3> QED
      BY <1>10, <3>1
  <2>2. Animates(data) => OnTime(data, m_frame', m_frameTime', age')
    BY <1>4, <1>5, <1>10, AnimatedMoves, StartsOnTime
  <2>3. m_size' \in CursorSizes /\ m_type' \in CursorTypes /\ pause' \in 0 .. MaxPause /\ m_needUpdate'
    BY <1>1, <1>2, <1>4
  <2>4. ShownIsSound'
    BY <1>6, <2>1, <2>2, <2>3 DEF ShownIsSound
  <2> QED
    BY <1>1, <1>7, <1>10, <2>4 DEF CursorsInvariant, LoadsTheme
<1> QED
  BY <1>4, <1>9, <1>10

\* A look at the clock finds the frame that is due, which is then drawn.
LEMMA NeedUpdateKeeps == CursorsInvariant /\ NeedUpdate => CursorsInvariant'
<1> SUFFICES ASSUME CursorsInvariant, NeedUpdate PROVE CursorsInvariant'
  OBVIOUS
<1>1. making = "shown" /\ UNCHANGED <<making, m_cursor, m_size, gaveUpAni, m_type>> /\ m_needUpdate' = FALSE
  BY DEF NeedUpdate
<1>2. SoundCursors(m_cursor) /\ (gaveUpAni \/ Whole(m_cursor)) /\ ShownIsSound
  BY <1>1 DEF CursorsInvariant
<1>3. SoundData(Current) /\ Current.frames # <<>> /\ m_frame \in 0 .. L(Current) - 1
  <2>1. SoundData(Current) /\ m_frame \in 0 .. Len(Current.frames) - 1
    BY <1>2, GetFinds DEF ShownIsSound, Current
  <2>2. Current.frames # <<>>
    BY <2>1
  <2> QED
    BY <2>1, <2>2 DEF L
<1>4. /\ m_size \in CursorSizes /\ m_type \in CursorTypes /\ pause \in 0 .. MaxPause
      /\ Animates(Current) => OnTime(Current, m_frame, m_frameTime, age)
  BY <1>2 DEF ShownIsSound
<1>5. Current' = Current
  BY <1>1 DEF Current
<1>6. /\ m_frame' \in 0 .. L(Current) - 1 /\ pause' \in 0 .. MaxPause
      /\ Animates(Current) => OnTime(Current, m_frame', m_frameTime', age')
  <2>1. CASE Animates(Current)
    <3> DEFINE end == Ends(Current, m_frame, m_frameTime, MaxPause)
               n == Min({i \in DOMAIN end : pause <= end[i]})
    <3>1. /\ m_frame' = (m_frame + n) % L(Current) /\ m_frameTime' = end[n] - pause /\ pause' = 0
          /\ age' = IF age = Unknown \/ age + pause = 0 THEN age ELSE (((age + pause) - 1) % Period(Current)) + 1
      <4>1. LET run == age + pause
            IN  /\ m_frame' = (m_frame + n) % Len(Current.frames)
                /\ m_frameTime' = end[n] - pause
                /\ pause' = 0
                /\ age' = IF age = Unknown \/ run = 0 THEN age ELSE ((run - 1) % Period(Current)) + 1
        BY <2>1 DEF NeedUpdate
      <4> HIDE DEF n, end
      <4>2. L(Current) = Len(Current.frames)
        BY DEF L
      <4> QED
        BY <4>1, <4>2
    <3>2. Moving(Current)
      BY <1>3, <2>1, AnimatedMoves
    <3>3. m_frame' \in 0 .. L(Current) - 1 /\ OnTime(Current, m_frame', end[n] - pause, age')
      BY <1>3, <1>4, <2>1, <3>1, <3>2, ClockKeepsTime
    <3>4. pause' \in 0 .. MaxPause
      BY <3>1, CursorBoundsAssumption
    <3> QED
      BY <3>1, <3>3, <3>4
  <2>2. CASE ~Animates(Current)
    <3>1. UNCHANGED <<m_frame, pause>>
      BY <2>2 DEF NeedUpdate
    <3> QED
      BY <1>3, <1>4, <2>2, <3>1
  <2> QED
    BY <2>1, <2>2
<1>7. onScreen' = <<Looks(m_cursor, m_size, m_type), Bitmap(Current, m_frame')>>
  <2>1. CASE Animates(Current) \/ m_needUpdate
    BY <2>1 DEF NeedUpdate
  <2>2. CASE ~(Animates(Current) \/ m_needUpdate)
    <3>1. onScreen' = onScreen /\ UNCHANGED m_frame
      BY <2>2 DEF NeedUpdate
    <3> QED
      BY <1>2, <2>2, <3>1 DEF ShownIsSound
  <2> QED
    BY <2>1, <2>2
<1>8. ShownIsSound'
  <2>1. m_size' \in CursorSizes /\ m_type' \in CursorTypes /\ m_frame' \in 0 .. Len(Current.frames) - 1
    BY <1>1, <1>4, <1>6 DEF L
  <2>2. onScreen' = <<Looks(m_cursor', m_size', m_type'), Bitmap(Current, m_frame')>>
    BY <1>1, <1>7
  <2> QED
    BY <1>5, <1>6, <2>1, <2>2 DEF ShownIsSound
<1> QED
  BY <1>1, <1>2, <1>8 DEF CursorsInvariant, LoadsTheme

\* Between two looks at the clock nothing happens.
LEMMA TimePassesKeeps == CursorsInvariant /\ TimePasses => CursorsInvariant'
<1> SUFFICES ASSUME CursorsInvariant, TimePasses PROVE CursorsInvariant'
  OBVIOUS
<1>1. /\ making = "shown" /\ pause < MaxPause /\ pause' = pause + 1
      /\ UNCHANGED <<making, m_cursor, m_size, gaveUpAni, m_type, m_frame, m_frameTime, m_needUpdate, age, onScreen>>
  BY DEF TimePasses
<1>2. SoundCursors(m_cursor) /\ (gaveUpAni \/ Whole(m_cursor)) /\ ShownIsSound
  BY <1>1 DEF CursorsInvariant
<1>3. Current' = Current
  BY <1>1 DEF Current
<1>4. pause' \in 0 .. MaxPause
  BY <1>1, <1>2, CursorBoundsAssumption DEF ShownIsSound
<1>5. Animates(Current) => OnTime(Current, m_frame', m_frameTime', age')
  BY <1>1, <1>2 DEF ShownIsSound
<1>6. ~m_needUpdate' => onScreen' = <<Looks(m_cursor', m_size', m_type'), Bitmap(Current, m_frame')>>
  BY <1>1, <1>2 DEF ShownIsSound
<1>7. ShownIsSound'
  BY <1>1, <1>2, <1>3, <1>4, <1>5, <1>6 DEF ShownIsSound
<1> QED
  BY <1>1, <1>2, <1>7 DEF CursorsInvariant, LoadsTheme

\* CursorIsShown: from whatever files a theme is made, the size in use is the nearest it has to
\* the one asked for, the cursor set has the frame it stands at and that frame's bitmap, and
\* however often the clock is looked at, an animation is where the time it has run puts it.
THEOREM CursorsCorrect == CursorsSpec => []CursorIsShown
<1>1. CursorsInit => CursorsInvariant
  BY CursorsStart
<1>2. CursorsInvariant /\ [CursorsNext]_cursorVars => CursorsInvariant'
  <2>1. CursorsInvariant /\ CursorsNext => CursorsInvariant'
    BY GetThemeDataKeeps, LoadXCursorFileKeeps, EndXCursorKeeps, LoadWinDefaultKeeps, LoadWinCursorKeeps,
       EndWinCursorKeeps, MakeLogicKeeps, SetAnyCursorKeeps, NeedUpdateKeeps, TimePassesKeeps DEF CursorsNext
  <2>2. ASSUME CursorsInvariant, UNCHANGED cursorVars PROVE CursorsInvariant'
    <3>1. UNCHANGED <<making, file, m_cursor, m_size, gaveUpAni, m_type, m_frame, m_frameTime, m_needUpdate,
                      pause, age, onScreen>>
      BY <2>2 DEF cursorVars, themeVars, shownVars
    <3>2. ShownIsSound' = ShownIsSound
      BY <3>1 DEF ShownIsSound, Current
    <3> QED
      BY <2>2, <3>1, <3>2 DEF CursorsInvariant, LoadsTheme
  <2> QED
    BY <2>1, <2>2
<1> QED
  BY <1>1, <1>2, InvariantShows, PTL DEF CursorsSpec
=============================================================================

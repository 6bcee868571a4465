------------------------------- MODULE Bitmaps -------------------------------
(***************************************************************************)
(* The operations that move the pixels of a bitmap (util/Bitmap.cpp; those *)
(* of BitmapHdr.cpp are the same).  They compute with indices into one     *)
(* array and swap width and height; beside the array, shown holds what the *)
(* picture must look like after the same operations, by coordinates.       *)
(***************************************************************************)
EXTENDS Integers, Sequences, SequencesExt, FiniteSets

CONSTANTS
    BitmapSizes,    \* <<width, height>> of bitmaps that are loaded
    MaxSteps        \* bound on operations on one bitmap

ASSUME BitmapSizesAssumption == BitmapSizes \subseteq (Nat \ {0}) \X (Nat \ {0})
ASSUME MaxStepsAssumption == MaxSteps \in Nat

VARIABLES
    m_data,                 \* the pixels, row after row
    m_width, m_height,
    m_orientation,          \* as in EXIF, 1 to 8
    shown,                  \* <<x, y>> to pixel
    steps

bitmapVars == <<m_data, m_width, m_height, m_orientation, shown, steps>>

Transparent == 0
Black == -1

Places(w, h) == (0 .. w - 1) \X (0 .. h - 1)

BitmapInit ==
    /\ \E size \in BitmapSizes :
         /\ m_width = size[1] /\ m_height = size[2]
         /\ m_data = [i \in 1 .. size[1] * size[2] |-> i]
         /\ shown = [p \in Places(size[1], size[2]) |-> p[2] * size[1] + p[1] + 1]
    /\ m_orientation \in 1 .. 8
    /\ steps = 0
-----------------------------------------------------------------------------
(* The array after each operation, for an array of width w and height h.   *)
(* Index i of the code is i + 1 here.                                      *)

At(data, i) == data[i + 1]
Column(i, w) == i % w
Row(i, w) == i \div w

Array(n, value(_)) == [j \in 1 .. n |-> value(j - 1)]

FlipVertical(data, w, h) ==
    LET pixel(i) == At(data, (h - 1 - Row(i, w)) * w + Column(i, w)) IN Array(w * h, pixel)

FlipHorizontal(data, w, h) ==
    LET pixel(i) == At(data, Row(i, w) * w + w - 1 - Column(i, w)) IN Array(w * h, pixel)

Rotate180(data, w, h) == Reverse(data)

(* The rotations write each pixel to an index computed from its place.     *)
Scattered(data, w, h, index(_, _)) ==
    LET pixel(i) == LET p == CHOOSE q \in Places(w, h) : index(q[1], q[2]) = i IN At(data, p[2] * w + p[1])
    IN  Array(w * h, pixel)

Rotate90(data, w, h) ==
    LET index(x, y) == x * h + h - y - 1 IN Scattered(data, w, h, index)

Rotate270(data, w, h) ==
    LET index(x, y) == (w - x - 1) * h + y IN Scattered(data, w, h, index)

(* The orientations in which the picture lies on its side.                 *)
Sideways(o, data, w, h) ==
    CASE o = 5 -> FlipVertical(Rotate270(data, w, h), h, w)
      [] o = 6 -> Rotate90(data, w, h)
      [] o = 7 -> FlipVertical(Rotate90(data, w, h), h, w)
      [] o = 8 -> Rotate270(data, w, h)

Standing(o, data, w, h) ==
    CASE o = 1 -> data
      [] o = 2 -> FlipHorizontal(data, w, h)
      [] o = 3 -> Rotate180(data, w, h)
      [] o = 4 -> FlipVertical(data, w, h)
-----------------------------------------------------------------------------
(* The operations.  The second conjunct of each says what is to be seen.   *)

Shows(w, h, at(_)) == m_width' = w /\ m_height' = h /\ shown' = [p \in Places(w, h) |-> at(p)]

Step == steps < MaxSteps /\ steps' = steps + 1

(* Where EXIF has the pixel that is seen at p once the picture is upright. *)
Stored(o, p, w, h) ==
    CASE o = 1 -> p
      [] o = 2 -> <<w - 1 - p[1], p[2]>>
      [] o = 3 -> <<w - 1 - p[1], h - 1 - p[2]>>
      [] o = 4 -> <<p[1], h - 1 - p[2]>>
      [] o = 5 -> <<p[2], p[1]>>
      [] o = 6 -> <<p[2], h - 1 - p[1]>>
      [] o = 7 -> <<w - 1 - p[2], h - 1 - p[1]>>
      [] o = 8 -> <<w - 1 - p[2], p[1]>>

NormalizeOrientation ==
    LET sideways == m_orientation \in 5 .. 8
        stored(p) == shown[Stored(m_orientation, p, m_width, m_height)]
    IN  /\ Step
        /\ m_data' = IF sideways THEN Sideways(m_orientation, m_data, m_width, m_height)
                                 ELSE Standing(m_orientation, m_data, m_width, m_height)
        /\ IF sideways THEN Shows(m_height, m_width, stored) ELSE Shows(m_width, m_height, stored)
        /\ m_orientation' = 1

CropByNewStride(data, x, y, w, width, height) ==
    LET pixel(i) == At(data, y * w + x + Row(i, width) * width + Column(i, width))
    IN  Array(width * height, pixel)

(* A rectangle of an array of width w.                                     *)
Cropped(data, x, y, w, width, height) ==
    LET pixel(i) == At(data, y * w + x + Row(i, width) * w + Column(i, width))
    IN  Array(width * height, pixel)

Crop ==
    /\ Step
    /\ \E x \in 0 .. m_width - 1, y \in 0 .. m_height - 1 :
       \E width \in 1 .. m_width - x, height \in 1 .. m_height - y :
         LET at(p) == shown[<<x + p[1], y + p[2]>>]
         IN  /\ m_data' = Cropped(m_data, x, y, m_width, width, height)
             /\ Shows(width, height, at)
    /\ UNCHANGED m_orientation

(* Extend copies row after row, clears the rest of each, then the rows     *)
(* below.                                                                  *)
Extended(width, height) ==
    LET pixel(i) == IF Column(i, width) < m_width /\ Row(i, width) < m_height
                      THEN At(m_data, Row(i, width) * m_width + Column(i, width)) ELSE Transparent
    IN  Array(width * height, pixel)

Extend ==
    /\ Step
    /\ \E right, below \in 0 .. 1 :
         LET at(p) == IF p \in DOMAIN shown THEN shown[p] ELSE Transparent
         IN  /\ m_data' = Extended(m_width + right, m_height + below)
             /\ Shows(m_width + right, m_height + below, at)
    /\ UNCHANGED m_orientation

(* The same rectangle of an array made black.                              *)
Blackened(data, x, y, w, width, height) ==
    LET filled == {(y + j) * w + x + i : i \in 0 .. width - 1, j \in 0 .. height - 1}
        pixel(i) == IF i \in filled THEN Black ELSE At(data, i)
    IN  Array(Len(data), pixel)

FillBlack ==
    /\ Step
    /\ \E x \in 0 .. m_width - 1, y \in 0 .. m_height - 1 :
       \E width \in 1 .. m_width - x, height \in 1 .. m_height - y :
         LET at(p) == IF p[1] - x \in 0 .. width - 1 /\ p[2] - y \in 0 .. height - 1 THEN Black ELSE shown[p]
         IN  /\ m_data' = Blackened(m_data, x, y, m_width, width, height)
             /\ Shows(m_width, m_height, at)
    /\ UNCHANGED m_orientation

BitmapNext == NormalizeOrientation \/ Crop \/ Extend \/ FillBlack
-----------------------------------------------------------------------------
(* Properties.                                                             *)

(* Whatever sequence of operations a bitmap goes through, odd sizes and    *)
(* single rows included, its array holds the picture those operations      *)
(* mean, and EXIF's eight orientations all end upright.                    *)
DataIsPicture ==
    /\ Len(m_data) = m_width * m_height
    /\ \A p \in Places(m_width, m_height) : At(m_data, p[2] * m_width + p[1]) = shown[p]
=============================================================================

-------------------------------- MODULE Pixels --------------------------------
(***************************************************************************)
(* How a decoded picture gets its pixels.  HEIF has planes whose lines are  *)
(* longer than the picture is wide; the picture is cut into chunks of equal *)
(* length, which begin and end in the middle of a line, and which the pool  *)
(* works on in any order.  The block formats are written 4 by 4 pixels at a *)
(* time with a pointer that is moved along.                                 *)
(***************************************************************************)
EXTENDS Integers

CONSTANTS
    PlaneSizes,     \* width and height of the pictures in planes
    Gaps,           \* what a line of a plane is longer than the picture
    ChunkSizes,     \* 16 * 1024 in the code
    BlockPictures   \* width and height of the pictures in blocks

ASSUME PixelsAssumption ==
    /\ PlaneSizes \subseteq (Nat \ {0}) \X (Nat \ {0}) /\ Gaps \subseteq Nat
    /\ ChunkSizes \subseteq Nat \ {0}
    /\ BlockPictures \subseteq (Nat \ {0}) \X (Nat \ {0})

VARIABLES
    layout,     \* "planes" or "blocks", and the sizes
    sz, offset, \* pixels that are left, and where the next chunk begins
    tasks,      \* the chunks that have been queued
    dst, block, \* where the next block goes, and how many have been read
    pixels      \* for each pixel the sample it has been made of

pixelsVars == <<layout, sz, offset, tasks, dst, block, pixels>>

NoSample == -1

Layouts ==
    [kind: {"planes"}, size: PlaneSizes, gap: Gaps, chunk: ChunkSizes]
    \cup [kind: {"blocks"}, size: BlockPictures, gap: {0}, chunk: {16}]

Width == layout.size[1]
Area == Width * layout.size[2]
Stride == Width + layout.gap

PixelsInit ==
    /\ layout \in Layouts
    /\ sz = Area /\ offset = 0 /\ tasks = {}
    /\ dst = 0 /\ block = 0
    /\ pixels = [p \in 0 .. Area - 1 |-> NoSample]

Smallest(a, b) == IF a < b THEN a ELSE b

(* Load and LoadHdr cut off one chunk after another.                        *)
QueueChunk ==
    /\ layout.kind = "planes" /\ sz > 0
    /\ LET chunk == Smallest(sz, layout.chunk)
       IN  /\ tasks' = tasks \cup {[offset |-> offset, sz |-> chunk]}
           /\ sz' = sz - chunk
           /\ offset' = offset + chunk
    /\ UNCHANGED <<layout, dst, block, pixels>>

SampleWithoutReset(first, i) ==
    LET py == first \div Width
        px == first % Width
    IN  py * Stride + px + i + layout.gap * (i \div (Width - px))

(* ProcessYCbCr: a chunk begins at px in its first line, and each end of a  *)
(* line it passes adds the gap.                                             *)
Sample(first, i) ==
    LET py == first \div Width
        px == first % Width
        lineEnds == IF i < Width - px THEN 0 ELSE 1 + (i - (Width - px)) \div Width
    IN  py * Stride + px + i + layout.gap * lineEnds

(* A thread of the pool, or the caller in Sync, takes a chunk.              *)
LoadYCbCr ==
    \E t \in tasks :
        /\ tasks' = tasks \ {t}
        /\ pixels' = [p \in DOMAIN pixels |->
               IF p \in t.offset .. t.offset + t.sz - 1 THEN Sample(t.offset, p - t.offset)
               ELSE pixels[p]]
        /\ UNCHANGED <<layout, sz, offset, dst, block>>

(* DecodeBc, DecodeRgb and their like: the loops count whole blocks, and    *)
(* dst is left at the end of the first of the four lines of a row.          *)
BlocksAcross == Width \div 4
BlocksDown == layout.size[2] \div 4

AfterRow == Width * 3

DecodeBlock ==
    /\ layout.kind = "blocks" /\ block < BlocksAcross * BlocksDown
    /\ pixels' = [p \in DOMAIN pixels |->
           LET row == IF p < dst THEN 4 ELSE (p - dst) \div Width
               col == IF p < dst THEN 4 ELSE (p - dst) % Width
           IN  IF row < 4 /\ col < 4 THEN 16 * block + 4 * row + col ELSE pixels[p]]
    /\ block' = block + 1
    /\ dst' = dst + 4 + IF (block + 1) % BlocksAcross = 0 THEN AfterRow ELSE 0
    /\ UNCHANGED <<layout, sz, offset, tasks>>

PixelsNext == QueueChunk \/ LoadYCbCr \/ DecodeBlock

-----------------------------------------------------------------------------
(* When Sync returns, or the loops end, every pixel has been made of the    *)
(* sample at its own place, whichever chunks the lines were cut into and    *)
(* whichever order the chunks were worked on; none is left as the memory    *)
(* was.                                                                     *)
PixelsAreInPlace ==
    /\ layout.kind = "planes" /\ sz = 0 /\ tasks = {} =>
           \A p \in DOMAIN pixels : pixels[p] = (p \div Width) * Stride + (p % Width)
    /\ layout.kind = "blocks" /\ block = BlocksAcross * BlocksDown =>
           \A p \in DOMAIN pixels :
               LET x == p % Width
                   y == p \div Width
               IN  pixels[p] = 16 * ((y \div 4) * BlocksAcross + x \div 4) + 4 * (y % 4) + (x % 4)
=============================================================================

--------------------------- MODULE PictureProofs ---------------------------
(***************************************************************************)
(* Proofs about pictures: the array of a bitmap of any size holds the      *)
(* picture that the operations on it mean; and a picture of any size read  *)
(* in chunks of planes or in blocks has each sample at its own pixel when  *)
(* the work ends, whatever the order in which the workers take the chunks. *)
(*                                                                         *)
(* And the programs get from the loaders the picture they need.            *)
(*                                                                         *)
(* The first two use quotients and remainders of products of two unknowns, *)
(* which the solver does not find: DivMod and Division give them to it.    *)
(***************************************************************************)
EXTENDS Bitmaps, Pixels, Loaders, SequenceTheorems, TLAPS

-----------------------------------------------------------------------------
(* Numbers.                                                                *)

\* The product of two numbers is a number.
LEMMA Product ==
    ASSUME NEW a \in Nat, NEW b \in Nat
    PROVE  a * b \in Nat
OBVIOUS

\* A number has one quotient and one remainder.
LEMMA DivMod ==
    ASSUME NEW w \in Nat \ {0}, NEW q \in Nat, NEW r \in Nat, r < w, NEW n, n = w * q + r
    PROVE  n \div w = q /\ n % w = r
<1> DEFINE q2 == n \div w
           r2 == n % w
<1>1. n \in Nat /\ w * q \in Nat
  BY Product
<1>2. n = w * q + r
  OBVIOUS
<1>3. q2 \in Nat /\ r2 \in Nat /\ r2 < w /\ n = w * q2 + r2
  BY <1>1
<1> HIDE DEF q2, r2
<1>4. \A k \in Nat \ {0} : w * k >= w
  OBVIOUS
<1>5. ~(q2 < q)
  <2> SUFFICES ASSUME q2 < q PROVE FALSE
    OBVIOUS
  <2>1. q - q2 \in Nat \ {0} /\ w * (q - q2) = w * q - w * q2
    BY <1>3
  <2>2. w * q - w * q2 >= w
    BY <1>4, <2>1
  <2> QED
    BY <1>1, <1>2, <1>3, <2>2
<1>6. ~(q < q2)
  <2> SUFFICES ASSUME q < q2 PROVE FALSE
    OBVIOUS
  <2>1. q2 - q \in Nat \ {0} /\ w * (q2 - q) = w * q2 - w * q
    BY <1>3
  <2>2. w * q2 - w * q >= w
    BY <1>4, <2>1
  <2> QED
    BY <1>1, <1>2, <1>3, <2>2
<1>7. q2 = q
  BY <1>3, <1>5, <1>6
<1>8. r2 = r
  BY <1>2, <1>3, <1>7
<1> QED
  BY <1>7, <1>8 DEF q2, r2

\* What the quotient and the remainder are.
LEMMA Division ==
    ASSUME NEW w \in Nat \ {0}, NEW n \in Nat
    PROVE  n \div w \in Nat /\ n % w \in Nat /\ n % w < w /\ n = w * (n \div w) + (n % w)
OBVIOUS

-----------------------------------------------------------------------------
(* The indices of an array of w columns and h rows.                         *)

Dimension == Nat \ {0}

\* The place in column x and row y has an index of its own.
LEMMA Indices ==
    ASSUME NEW w \in Dimension, NEW h \in Dimension, NEW x \in 0 .. w - 1, NEW y \in 0 .. h - 1
    PROVE  /\ y * w + x \in 0 .. w * h - 1
           /\ Column(y * w + x, w) = x
           /\ Row(y * w + x, w) = y
           /\ w * h \in Dimension
<1> DEFINE n == y * w + x
<1>1. w \in Nat \ {0} /\ h \in Nat \ {0} /\ x \in Nat /\ x < w /\ y \in Nat /\ y < h
  BY DEF Dimension
<1>2. n = w * y + x /\ w * y \in Nat
  BY <1>1, Product
<1>3. n \div w = y /\ n % w = x
  <2> HIDE DEF n
  <2> QED
    BY <1>1, <1>2, DivMod
<1>4. w * (y + 1) <= w * h /\ w * (y + 1) = w * y + w
  BY <1>1
<1>5. w * h \in Nat /\ n \in Nat /\ n < w * h
  BY <1>1, <1>2, <1>4, Product
<1>6. w * h \in Dimension
  BY <1>5, <1>2 DEF Dimension
<1> QED
  BY <1>3, <1>5, <1>6 DEF Column, Row

\* Every index is that of one place.
LEMMA PlaceOf ==
    ASSUME NEW w \in Dimension, NEW h \in Dimension, NEW i \in 0 .. w * h - 1
    PROVE  /\ Column(i, w) \in 0 .. w - 1 /\ Row(i, w) \in 0 .. h - 1
           /\ i = Row(i, w) * w + Column(i, w)
<1> DEFINE x == i % w
           y == i \div w
<1>1. w \in Nat \ {0} /\ h \in Nat \ {0} /\ w * h \in Nat
  BY Product DEF Dimension
<1>2. i \in Nat /\ i < w * h
  BY <1>1
<1>3. x \in Nat /\ y \in Nat /\ x < w /\ i = w * y + x
  BY <1>1, <1>2, Division
<1> HIDE DEF x, y
<1>4. y < h
  <2>1. SUFFICES ASSUME y >= h PROVE FALSE
    BY <1>1, <1>3
  <2>2. w * y >= w * h
    BY <1>1, <1>3, <2>1
  <2>3. w * y \in Nat
    BY <1>1, <1>3, Product
  <2> QED
    BY <1>1, <1>2, <1>3, <2>2, <2>3
<1>5. i = y * w + x
  BY <1>1, <1>3
<1> QED
  BY <1>1, <1>3, <1>4, <1>5 DEF Column, Row, x, y

Cells(w, h) == [1 .. w * h -> Int]


\* The array holds the picture: that is DataIsPicture, for any array and picture.
Draws(data, w, h, picture) ==
    /\ data \in Cells(w, h)
    /\ picture \in [Places(w, h) -> Int]
    /\ \A x \in 0 .. w - 1, y \in 0 .. h - 1 : At(data, y * w + x) = picture[<<x, y>>]

\* It is enough to look at the places.
LEMMA Drawn ==
    ASSUME NEW w \in Dimension, NEW h \in Dimension, NEW data, data = [j \in 1 .. w * h |-> data[j]],
           NEW picture \in [Places(w, h) -> Int],
           \A x \in 0 .. w - 1, y \in 0 .. h - 1 : At(data, y * w + x) = picture[<<x, y>>]
    PROVE  Draws(data, w, h, picture)
<1> DEFINE n == w * h
<1>1. n \in Nat
  BY Product DEF Dimension
<1>2. ASSUME NEW j \in 1 .. n
      PROVE  data[j] \in Int
  <2> DEFINE i == j - 1
             x == Column(i, w)
             y == Row(i, w)
  <2>1. i \in 0 .. n - 1 /\ i + 1 = j
    BY <1>1
  <2> HIDE DEF i
  <2>2. x \in 0 .. w - 1 /\ y \in 0 .. h - 1 /\ i = y * w + x
    BY <2>1, PlaceOf
  <2> HIDE DEF x, y
  <2>3. At(data, i) = picture[<<x, y>>] /\ <<x, y>> \in Places(w, h)
    BY <2>2 DEF Places
  <2>4. At(data, i) \in Int
    BY <2>3
  <2> QED
    BY <2>1, <2>4 DEF At
<1>3. data \in Cells(w, h)
  <2> HIDE DEF n
  <2>1. data = [j \in 1 .. n |-> data[j]]
    BY DEF n
  <2>2. data \in [1 .. n -> Int]
    BY <1>2, <2>1
  <2> QED
    BY <2>2 DEF Cells, n
<1> QED
  BY <1>3 DEF Draws

\* The flips put every pixel at the place across.
LEMMA FlipVerticalDraws ==
    ASSUME NEW w \in Dimension, NEW h \in Dimension, NEW data, NEW picture, Draws(data, w, h, picture)
    PROVE  Draws(FlipVertical(data, w, h), w, h, [p \in Places(w, h) |-> picture[<<p[1], h - 1 - p[2]>>]])
<1> DEFINE pixel(i) == At(data, (h - 1 - Row(i, w)) * w + Column(i, w))
           array == [j \in 1 .. w * h |-> pixel(j - 1)]
           new == [p \in Places(w, h) |-> picture[<<p[1], h - 1 - p[2]>>]]
<1>1. w \in Nat \ {0} /\ h \in Nat \ {0} /\ w * h \in Nat
  BY Product DEF Dimension
<1>2. \A y \in 0 .. h - 1 : h - 1 - y \in 0 .. h - 1
  BY <1>1
<1>3. new \in [Places(w, h) -> Int]
  BY <1>2 DEF Draws, Places
<1>4. ASSUME NEW x \in 0 .. w - 1, NEW y \in 0 .. h - 1
      PROVE  At(array, y * w + x) = new[<<x, y>>]
  <2> DEFINE i == y * w + x
  <2>1. i \in 0 .. w * h - 1 /\ Column(i, w) = x /\ Row(i, w) = y
    BY Indices
  <2> HIDE DEF i
  <2>2. i + 1 \in 1 .. w * h /\ (i + 1) - 1 = i
    BY <1>1, <2>1
  <2>3. At(array, i) = pixel(i)
    <3> HIDE DEF pixel
    <3> QED
      BY <2>2 DEF At
  <2>4. pixel(i) = At(data, (h - 1 - y) * w + x)
    BY <2>1
  <2>5. At(data, (h - 1 - y) * w + x) = picture[<<x, h - 1 - y>>]
    BY <1>2 DEF Draws
  <2> QED
    BY <2>3, <2>4, <2>5 DEF Places, i
<1>5. array = [j \in 1 .. w * h |-> array[j]]
  OBVIOUS
<1> HIDE DEF array, new
<1>6. Draws(array, w, h, new)
  BY <1>3, <1>4, <1>5, Drawn
<1> QED
  BY <1>6 DEF FlipVertical, Array, array, new

\* The same from left to right.
LEMMA FlipHorizontalDraws ==
    ASSUME NEW w \in Dimension, NEW h \in Dimension, NEW data, NEW picture, Draws(data, w, h, picture)
    PROVE  Draws(FlipHorizontal(data, w, h), w, h, [p \in Places(w, h) |-> picture[<<w - 1 - p[1], p[2]>>]])
<1> DEFINE pixel(i) == At(data, Row(i, w) * w + w - 1 - Column(i, w))
           array == [j \in 1 .. w * h |-> pixel(j - 1)]
           new == [p \in Places(w, h) |-> picture[<<w - 1 - p[1], p[2]>>]]
<1>1. w \in Nat \ {0} /\ h \in Nat \ {0} /\ w * h \in Nat
  BY Product DEF Dimension
<1>2. \A x \in 0 .. w - 1 : w - 1 - x \in 0 .. w - 1
  BY <1>1
<1>3. new \in [Places(w, h) -> Int]
  BY <1>2 DEF Draws, Places
<1>4. ASSUME NEW x \in 0 .. w - 1, NEW y \in 0 .. h - 1
      PROVE  At(array, y * w + x) = new[<<x, y>>]
  <2> DEFINE i == y * w + x
  <2>1. i \in 0 .. w * h - 1 /\ Column(i, w) = x /\ Row(i, w) = y
    BY Indices
  <2> HIDE DEF i
  <2>2. i + 1 \in 1 .. w * h /\ (i + 1) - 1 = i
    BY <1>1, <2>1
  <2>3. At(array, i) = pixel(i)
    <3> HIDE DEF pixel
    <3> QED
      BY <2>2 DEF At
  <2>4. pixel(i) = At(data, y * w + (w - 1 - x))
    BY <2>1
  <2>5. At(data, y * w + (w - 1 - x)) = picture[<<w - 1 - x, y>>]
    BY <1>2 DEF Draws
  <2> QED
    BY <2>3, <2>4, <2>5 DEF Places, i
<1>5. array = [j \in 1 .. w * h |-> array[j]]
  OBVIOUS
<1> HIDE DEF array, new
<1>6. Draws(array, w, h, new)
  BY <1>3, <1>4, <1>5, Drawn
<1> QED
  BY <1>6 DEF FlipHorizontal, Array, array, new

\* Half a turn is the array backwards.
LEMMA Rotate180Draws ==
    ASSUME NEW w \in Dimension, NEW h \in Dimension, NEW data, NEW picture, Draws(data, w, h, picture)
    PROVE  Draws(Rotate180(data, w, h), w, h, [p \in Places(w, h) |-> picture[<<w - 1 - p[1], h - 1 - p[2]>>]])
<1> DEFINE array == [j \in 1 .. Len(data) |-> data[(Len(data) - j) + 1]]
           new == [p \in Places(w, h) |-> picture[<<w - 1 - p[1], h - 1 - p[2]>>]]
           n == w * h
<1>1. w \in Nat \ {0} /\ h \in Nat \ {0} /\ n \in Nat /\ n > 0
  <2>1. 0 \in 0 .. w - 1 /\ 0 \in 0 .. h - 1
    BY DEF Dimension
  <2> QED
    BY <2>1, Indices DEF Dimension
<1>2. Len(data) = n
  <2> HIDE DEF n
  <2>1. data \in [1 .. n -> Int]
    BY DEF Draws, Cells, n
  <2> QED
    BY <1>1, <2>1
<1>3. (\A x \in 0 .. w - 1 : w - 1 - x \in 0 .. w - 1) /\ (\A y \in 0 .. h - 1 : h - 1 - y \in 0 .. h - 1)
  BY <1>1
<1>4. new \in [Places(w, h) -> Int]
  BY <1>3 DEF Draws, Places
<1>5. ASSUME NEW x \in 0 .. w - 1, NEW y \in 0 .. h - 1
      PROVE  At(array, y * w + x) = new[<<x, y>>]
  <2> DEFINE i == y * w + x
             x2 == w - 1 - x
             y2 == h - 1 - y
             k == y2 * w + x2
  <2>1. i \in 0 .. n - 1
    BY Indices
  <2>2. x2 \in 0 .. w - 1 /\ y2 \in 0 .. h - 1
    BY <1>3
  <2>3. k = n - 1 - i
    <3>1. x \in Int /\ y \in Int /\ w \in Int /\ h \in Int
      BY <1>1
    <3> QED
      BY <3>1
  <2> HIDE DEF n, i, x2, y2
  <2>4. At(array, i) = data[(n - (i + 1)) + 1]
    <3>1. i + 1 \in 1 .. n
      BY <1>1, <2>1
    <3> QED
      BY <1>2, <3>1 DEF At
  <2>5. (n - (i + 1)) + 1 = (n - 1 - i) + 1
    BY <1>1, <2>1
  <2>6. At(array, i) = At(data, k)
    BY <2>3, <2>4, <2>5 DEF At
  <2>7. At(data, k) = picture[<<x2, y2>>]
    BY <2>2 DEF Draws
  <2>8. new[<<x, y>>] = picture[<<x2, y2>>]
    BY DEF Places, x2, y2
  <2> QED
    BY <2>6, <2>7, <2>8 DEF i
<1>6. array = [j \in 1 .. w * h |-> array[j]]
  BY <1>2
<1>7. Rotate180(data, w, h) = array
  BY DEF Rotate180, Reverse
<1> HIDE DEF array, new
<1>8. Draws(array, w, h, new)
  BY <1>4, <1>5, <1>6, Drawn
<1> QED
  BY <1>7, <1>8 DEF new
\* The rotations write every place to an index of its own.
LEMMA Rotate90Draws ==
    ASSUME NEW w \in Dimension, NEW h \in Dimension, NEW data, NEW picture, Draws(data, w, h, picture)
    PROVE  Draws(Rotate90(data, w, h), h, w, [p \in Places(h, w) |-> picture[<<p[2], h - 1 - p[1]>>]])
<1> DEFINE Goes(i, q) == q[1] * h + h - q[2] - 1 = i
           pixel(i) == LET p == CHOOSE q \in Places(w, h) : q[1] * h + h - q[2] - 1 = i IN At(data, p[2] * w + p[1])
           array == [j \in 1 .. w * h |-> pixel(j - 1)]
           new == [p \in Places(h, w) |-> picture[<<p[2], h - 1 - p[1]>>]]
<1>1. w \in Nat \ {0} /\ h \in Nat \ {0} /\ w * h \in Nat /\ w * h = h * w
  BY Product DEF Dimension
<1>2. \A y \in 0 .. h - 1 : h - 1 - y \in 0 .. h - 1
  BY <1>1
<1>3. new \in [Places(h, w) -> Int]
  BY <1>2 DEF Draws, Places
<1>4. ASSUME NEW x \in 0 .. h - 1, NEW y \in 0 .. w - 1
      PROVE  At(array, y * h + x) = new[<<x, y>>]
  <2> DEFINE i == y * h + x
             x2 == h - 1 - x
             r == <<y, x2>>
  <2>1. i \in 0 .. h * w - 1 /\ Column(i, h) = x /\ Row(i, h) = y
    BY Indices, ZenonT(60)
  <2>2. x2 \in 0 .. h - 1 /\ r \in Places(w, h) /\ r[1] = y /\ r[2] = x2
    BY <1>2 DEF Places
  <2>3. y * h + h - x2 - 1 = i
    <3>1. x \in Int /\ y \in Int /\ y * h \in Int
      BY <1>1
    <3> QED
      BY <1>1, <3>1
  <2> HIDE DEF i, x2
  <2>4. ASSUME NEW q \in Places(w, h), Goes(i, q)
        PROVE  q = r
    <3>1. PICK a \in 0 .. w - 1, b \in 0 .. h - 1 : q = <<a, b>>
      BY DEF Places
    <3> DEFINE c == h - 1 - b
    <3>2. c \in 0 .. h - 1
      BY <1>2
    <3>3. i = a * h + c
      <4>1. a \in Int /\ b \in Int /\ a * h \in Int
        BY <1>1
      <4>2. a * h + h - b - 1 = i
        BY <2>4, <3>1
      <4> QED
        BY <1>1, <4>1, <4>2
    <3> HIDE DEF c
    <3>4. Column(i, h) = c /\ Row(i, h) = a
      BY <3>2, <3>3, Indices
    <3>5. a = y /\ c = x
      BY <2>1, <3>4
    <3>6. b = x2
      BY <1>1, <3>5 DEF c, x2
    <3> QED
      BY <3>1, <3>5, <3>6
  <2>5. Goes(i, r)
    BY <2>2, <2>3
  <2>6. (CHOOSE q \in Places(w, h) : q[1] * h + h - q[2] - 1 = i) = r
    <3> HIDE DEF r
    <3> QED
      BY <2>2, <2>4, <2>5
  <2>7. i + 1 \in 1 .. w * h /\ (i + 1) - 1 = i
    BY <1>1, <2>1
  <2>8. At(array, i) = pixel(i)
    <3> HIDE DEF pixel
    <3> QED
      BY <2>7 DEF At
  <2>9. pixel(i) = At(data, x2 * w + y)
    <3> HIDE DEF r
    <3> QED
      BY <2>2, <2>6
  <2>10. At(data, x2 * w + y) = picture[<<y, x2>>]
    BY <2>2 DEF Draws
  <2>11. new[<<x, y>>] = picture[<<y, x2>>]
    BY DEF Places, x2
  <2> QED
    BY <2>8, <2>9, <2>10, <2>11 DEF i
<1>5. array = [j \in 1 .. h * w |-> array[j]]
  BY <1>1
<1>6. Rotate90(data, w, h) = array
  BY DEF Rotate90, Scattered, Array
<1> HIDE DEF array, new
<1>7. Draws(array, h, w, new)
  BY <1>3, <1>4, <1>5, Drawn
<1> QED
  BY <1>6, <1>7 DEF new

\* The same the other way round.
LEMMA Rotate270Draws ==
    ASSUME NEW w \in Dimension, NEW h \in Dimension, NEW data, NEW picture, Draws(data, w, h, picture)
    PROVE  Draws(Rotate270(data, w, h), h, w, [p \in Places(h, w) |-> picture[<<w - 1 - p[2], p[1]>>]])
<1> DEFINE Goes(i, q) == (w - q[1] - 1) * h + q[2] = i
           pixel(i) == LET p == CHOOSE q \in Places(w, h) : (w - q[1] - 1) * h + q[2] = i IN At(data, p[2] * w + p[1])
           array == [j \in 1 .. w * h |-> pixel(j - 1)]
           new == [p \in Places(h, w) |-> picture[<<w - 1 - p[2], p[1]>>]]
<1>1. w \in Nat \ {0} /\ h \in Nat \ {0} /\ w * h \in Nat /\ w * h = h * w
  BY Product DEF Dimension
<1>2. \A x \in 0 .. w - 1 : w - 1 - x \in 0 .. w - 1 /\ w - x - 1 = w - 1 - x
  BY <1>1
<1>3. new \in [Places(h, w) -> Int]
  BY <1>2 DEF Draws, Places
<1>4. ASSUME NEW x \in 0 .. h - 1, NEW y \in 0 .. w - 1
      PROVE  At(array, y * h + x) = new[<<x, y>>]
  <2> DEFINE i == y * h + x
             y2 == w - 1 - y
             r == <<y2, x>>
  <2>1. i \in 0 .. h * w - 1 /\ Column(i, h) = x /\ Row(i, h) = y
    BY Indices, ZenonT(60)
  <2>2. y2 \in 0 .. w - 1 /\ r \in Places(w, h) /\ r[1] = y2 /\ r[2] = x
    BY <1>2 DEF Places
  <2>3. (w - y2 - 1) * h + x = i
    <3>1. w - y2 - 1 = y
      BY <1>1
    <3> QED
      BY <3>1
  <2> HIDE DEF i, y2
  <2>4. ASSUME NEW q \in Places(w, h), Goes(i, q)
        PROVE  q = r
    <3>1. PICK a \in 0 .. w - 1, b \in 0 .. h - 1 : q = <<a, b>>
      BY DEF Places
    <3> DEFINE c == w - a - 1
    <3>2. c \in 0 .. w - 1
      BY <1>2
    <3>3. i = c * h + b
      BY <2>4, <3>1
    <3> HIDE DEF c
    <3>4. Column(i, h) = b /\ Row(i, h) = c
      BY <3>2, <3>3, Indices
    <3>5. c = y /\ b = x
      BY <2>1, <3>4
    <3>6. a = y2
      BY <1>1, <3>5 DEF c, y2
    <3> QED
      BY <3>1, <3>5, <3>6
  <2>5. Goes(i, r)
    BY <2>2, <2>3
  <2>6. (CHOOSE q \in Places(w, h) : (w - q[1] - 1) * h + q[2] = i) = r
    <3> HIDE DEF r
    <3> QED
      BY <2>2, <2>4, <2>5
  <2>7. i + 1 \in 1 .. w * h /\ (i + 1) - 1 = i
    BY <1>1, <2>1
  <2>8. At(array, i) = pixel(i)
    <3> HIDE DEF pixel
    <3> QED
      BY <2>7 DEF At
  <2>9. pixel(i) = At(data, x * w + y2)
    <3> HIDE DEF r
    <3> QED
      BY <2>2, <2>6
  <2>10. At(data, x * w + y2) = picture[<<y2, x>>]
    BY <2>2 DEF Draws
  <2>11. new[<<x, y>>] = picture[<<y2, x>>]
    BY DEF Places, y2
  <2> QED
    BY <2>8, <2>9, <2>10, <2>11 DEF i
<1>5. array = [j \in 1 .. h * w |-> array[j]]
  BY <1>1
<1>6. Rotate270(data, w, h) = array
  BY DEF Rotate270, Scattered, Array
<1> HIDE DEF array, new
<1>7. Draws(array, h, w, new)
  BY <1>3, <1>4, <1>5, Drawn
<1> QED
  BY <1>6, <1>7 DEF new
-----------------------------------------------------------------------------
(* The operations.                                                          *)

BitmapInv ==
    /\ m_width \in Dimension /\ m_height \in Dimension
    /\ m_orientation \in 1 .. 8
    /\ Draws(m_data, m_width, m_height, shown)

\* A loaded bitmap holds its picture.
LEMMA BitmapInvInit == BitmapInit => BitmapInv
<1> SUFFICES ASSUME BitmapInit
             PROVE  BitmapInv
  OBVIOUS
<1>1. PICK size \in BitmapSizes :
        /\ m_width = size[1] /\ m_height = size[2]
        /\ m_data = [i \in 1 .. size[1] * size[2] |-> i]
        /\ shown = [p \in Places(size[1], size[2]) |-> p[2] * size[1] + p[1] + 1]
  BY DEF BitmapInit
<1> DEFINE w == m_width
           h == m_height
<1>2. w \in Dimension /\ h \in Dimension
  <2>1. size \in (Nat \ {0}) \X (Nat \ {0})
    BY BitmapSizesAssumption
  <2> QED
    BY <1>1, <2>1 DEF Dimension
<1>3. m_data = [i \in 1 .. w * h |-> i] /\ shown = [p \in Places(w, h) |-> p[2] * w + p[1] + 1]
  BY <1>1
<1>4. w \in Nat \ {0} /\ h \in Nat \ {0} /\ w * h \in Nat
  BY <1>2, Product DEF Dimension
<1> HIDE DEF w, h
<1>5. ASSUME NEW x \in 0 .. w - 1, NEW y \in 0 .. h - 1
      PROVE  At(m_data, y * w + x) = shown[<<x, y>>] /\ shown[<<x, y>>] \in Int
  <2> DEFINE i == y * w + x
  <2>1. i \in 0 .. w * h - 1
    BY <1>2, Indices
  <2>2. shown[<<x, y>>] = i + 1
    BY <1>3 DEF Places
  <2> HIDE DEF i
  <2>3. i + 1 \in 1 .. w * h
    BY <1>4, <2>1
  <2>4. At(m_data, i) = i + 1
    BY <1>3, <2>3 DEF At
  <2> QED
    BY <2>2, <2>3, <2>4 DEF i
<1>6. shown \in [Places(w, h) -> Int]
  <2>1. \A p \in Places(w, h) : p = <<p[1], p[2]>> /\ p[1] \in 0 .. w - 1 /\ p[2] \in 0 .. h - 1
    BY DEF Places
  <2>2. \A p \in Places(w, h) : shown[p] \in Int
    BY <1>5, <2>1
  <2> QED
    BY <1>3, <2>2
<1>7. m_data = [j \in 1 .. w * h |-> m_data[j]]
  BY <1>3
<1>8. Draws(m_data, w, h, shown)
  BY <1>2, <1>5, <1>6, <1>7, Drawn
<1> QED
  BY <1>2, <1>8 DEF BitmapInv, BitmapInit, w, h

\* Each of the eight orientations ends upright.
LEMMA Upright ==
    ASSUME NEW w \in Dimension, NEW h \in Dimension, NEW data, NEW picture, Draws(data, w, h, picture),
           NEW o \in 1 .. 8
    PROVE  /\ o \in 5 .. 8 => Draws(Sideways(o, data, w, h), h, w, [p \in Places(h, w) |-> picture[Stored(o, p, w, h)]])
           /\ o \notin 5 .. 8 => Draws(Standing(o, data, w, h), w, h, [p \in Places(w, h) |-> picture[Stored(o, p, w, h)]])
<1> DEFINE rotated == [p \in Places(h, w) |-> picture[<<p[2], h - 1 - p[1]>>]]
           back == [p \in Places(h, w) |-> picture[<<w - 1 - p[2], p[1]>>]]
<1>1. w \in Nat \ {0} /\ h \in Nat \ {0}
  BY DEF Dimension
<1>2. Draws(Rotate90(data, w, h), h, w, rotated) /\ Draws(Rotate270(data, w, h), h, w, back)
  BY Rotate90Draws, Rotate270Draws
<1>3. \A p \in Places(h, w) : /\ p[1] \in 0 .. h - 1 /\ p[2] \in 0 .. w - 1
                              /\ <<p[1], w - 1 - p[2]>> \in Places(h, w) /\ w - 1 - (w - 1 - p[2]) = p[2]
  BY <1>1 DEF Places
<1>4. /\ Draws(FlipVertical(Rotate90(data, w, h), h, w), h, w, [p \in Places(h, w) |-> rotated[<<p[1], w - 1 - p[2]>>]])
      /\ Draws(FlipVertical(Rotate270(data, w, h), h, w), h, w, [p \in Places(h, w) |-> back[<<p[1], w - 1 - p[2]>>]])
  <2> HIDE DEF rotated, back
  <2> QED
    BY <1>2, FlipVerticalDraws
<1>5. [p \in Places(h, w) |-> rotated[<<p[1], w - 1 - p[2]>>]] = [p \in Places(h, w) |-> picture[<<w - 1 - p[2], h - 1 - p[1]>>]]
  BY <1>3
<1>6. [p \in Places(h, w) |-> back[<<p[1], w - 1 - p[2]>>]] = [p \in Places(h, w) |-> picture[<<p[2], p[1]>>]]
  BY <1>3
<1>7. CASE o = 1
  <2>1. picture = [p \in Places(w, h) |-> picture[p]]
    BY DEF Draws
  <2> QED
    BY <1>7, <2>1 DEF Standing, Stored
<1>8. CASE o = 2
  BY <1>8, FlipHorizontalDraws DEF Standing, Stored
<1>9. CASE o = 3
  BY <1>9, Rotate180Draws DEF Standing, Stored
<1>10. CASE o = 4
  BY <1>10, FlipVerticalDraws DEF Standing, Stored
<1>11. CASE o = 5
  <2>1. Draws(FlipVertical(Rotate270(data, w, h), h, w), h, w, [p \in Places(h, w) |-> picture[<<p[2], p[1]>>]])
    BY <1>4, <1>6
  <2> QED
    BY <1>11, <2>1 DEF Sideways, Stored
<1>12. CASE o = 6
  BY <1>2, <1>12 DEF Sideways, Stored
<1>13. CASE o = 7
  <2>1. Draws(FlipVertical(Rotate90(data, w, h), h, w), h, w, [p \in Places(h, w) |-> picture[<<w - 1 - p[2], h - 1 - p[1]>>]])
    BY <1>4, <1>5
  <2> QED
    BY <1>13, <2>1 DEF Sideways, Stored
<1>14. CASE o = 8
  BY <1>2, <1>14 DEF Sideways, Stored
<1>15. o = 1 \/ o = 2 \/ o = 3 \/ o = 4 \/ o = 5 \/ o = 6 \/ o = 7 \/ o = 8
  OBVIOUS
<1> QED
  BY <1>7, <1>8, <1>9, <1>10, <1>11, <1>12, <1>13, <1>14, <1>15

\* NormalizeOrientation turns the picture upright, with one or two of the operations.
LEMMA NormalizeStep ==
    ASSUME BitmapInv, NormalizeOrientation
    PROVE  BitmapInv'
<1> DEFINE w == m_width
           h == m_height
           o == m_orientation
<1>1. w \in Dimension /\ h \in Dimension /\ o \in 1 .. 8 /\ Draws(m_data, w, h, shown)
  BY DEF BitmapInv
<1>2. m_orientation' = 1
  BY DEF NormalizeOrientation
<1>3. CASE o \in 5 .. 8
  <2>1. /\ m_data' = Sideways(o, m_data, w, h) /\ m_width' = h /\ m_height' = w
        /\ shown' = [p \in Places(h, w) |-> shown[Stored(o, p, w, h)]]
    BY <1>3 DEF NormalizeOrientation, Shows
  <2> HIDE DEF w, h, o
  <2>2. Draws(m_data', h, w, shown')
    BY <1>1, <1>3, <2>1, Upright
  <2> QED
    BY <1>1, <1>2, <2>1, <2>2 DEF BitmapInv
<1>4. CASE o \notin 5 .. 8
  <2>1. /\ m_data' = Standing(o, m_data, w, h) /\ m_width' = w /\ m_height' = h
        /\ shown' = [p \in Places(w, h) |-> shown[Stored(o, p, w, h)]]
    BY <1>4 DEF NormalizeOrientation, Shows
  <2> HIDE DEF w, h, o
  <2>2. Draws(m_data', w, h, shown')
    BY <1>1, <1>4, <2>1, Upright
  <2> QED
    BY <1>1, <1>2, <2>1, <2>2 DEF BitmapInv
<1> QED
  BY <1>3, <1>4
\* A rectangle of the picture is the same rectangle of the array.
LEMMA CroppedDraws ==
    ASSUME NEW w \in Dimension, NEW h \in Dimension, NEW data, NEW picture, Draws(data, w, h, picture),
           NEW x0 \in 0 .. w - 1, NEW y0 \in 0 .. h - 1,
           NEW width \in Dimension, NEW height \in Dimension, x0 + width =< w, y0 + height =< h
    PROVE  Draws(Cropped(data, x0, y0, w, width, height), width, height,
                 [p \in Places(width, height) |-> picture[<<x0 + p[1], y0 + p[2]>>]])
<1> DEFINE n == width * height
           pixel(i) == At(data, y0 * w + x0 + Row(i, width) * w + Column(i, width))
           array == [j \in 1 .. n |-> pixel(j - 1)]
           new == [p \in Places(width, height) |-> picture[<<x0 + p[1], y0 + p[2]>>]]
<1>1. width \in Nat \ {0} /\ height \in Nat \ {0} /\ w \in Nat \ {0} /\ h \in Nat \ {0}
  BY DEF Dimension
<1>2. n \in Nat
  BY <1>1, Product
<1>3. ASSUME NEW x \in 0 .. width - 1, NEW y \in 0 .. height - 1
      PROVE  x0 + x \in 0 .. w - 1 /\ y0 + y \in 0 .. h - 1
  BY <1>1
<1>4. new \in [Places(width, height) -> Int]
  BY <1>3 DEF Draws, Places
<1>5. ASSUME NEW x \in 0 .. width - 1, NEW y \in 0 .. height - 1
      PROVE  At(array, y * width + x) = new[<<x, y>>]
  <2> DEFINE i == y * width + x
             x2 == x0 + x
             y2 == y0 + y
  <2>1. i \in 0 .. n - 1 /\ Column(i, width) = x /\ Row(i, width) = y
    BY Indices
  <2> HIDE DEF i
  <2>2. i + 1 \in 1 .. n /\ (i + 1) - 1 = i
    BY <1>2, <2>1
  <2>3. At(array, i) = pixel(i)
    <3> HIDE DEF pixel, n
    <3> QED
      BY <2>2 DEF At
  <2>4. pixel(i) = At(data, y2 * w + x2)
    <3>1. y0 * w + x0 + y * w + x = y2 * w + x2
      BY <1>1
    <3> QED
      BY <2>1, <3>1
  <2>5. x2 \in 0 .. w - 1 /\ y2 \in 0 .. h - 1
    BY <1>3
  <2>6. new[<<x, y>>] = picture[<<x2, y2>>]
    BY DEF Places
  <2> HIDE DEF x2, y2, new, pixel
  <2>7. At(data, y2 * w + x2) = picture[<<x2, y2>>]
    BY <2>5 DEF Draws
  <2> QED
    BY <2>3, <2>4, <2>6, <2>7 DEF i
<1>6. array = [j \in 1 .. width * height |-> array[j]]
  OBVIOUS
<1>7. Cropped(data, x0, y0, w, width, height) = array
  BY DEF Cropped, Array
<1> HIDE DEF array, new
<1>8. Draws(array, width, height, new)
  BY <1>4, <1>5, <1>6, Drawn
<1> QED
  BY <1>7, <1>8 DEF new

\* Crop keeps the rectangle.
LEMMA CropStep ==
    ASSUME BitmapInv, Crop
    PROVE  BitmapInv'
<1>1. PICK x \in 0 .. m_width - 1, y \in 0 .. m_height - 1 :
      \E width \in 1 .. m_width - x, height \in 1 .. m_height - y :
        /\ m_data' = Cropped(m_data, x, y, m_width, width, height)
        /\ m_width' = width /\ m_height' = height
        /\ shown' = [p \in Places(width, height) |-> shown[<<x + p[1], y + p[2]>>]]
  BY DEF Crop, Shows
<1>2. PICK width \in 1 .. m_width - x, height \in 1 .. m_height - y :
        /\ m_data' = Cropped(m_data, x, y, m_width, width, height)
        /\ m_width' = width /\ m_height' = height
        /\ shown' = [p \in Places(width, height) |-> shown[<<x + p[1], y + p[2]>>]]
  BY <1>1
<1>3. m_width \in Dimension /\ m_height \in Dimension /\ Draws(m_data, m_width, m_height, shown)
  BY DEF BitmapInv
<1>4. /\ width \in Dimension /\ height \in Dimension
      /\ x + width =< m_width /\ y + height =< m_height
  BY <1>3 DEF Dimension
<1>5. Draws(Cropped(m_data, x, y, m_width, width, height), width, height,
            [p \in Places(width, height) |-> shown[<<x + p[1], y + p[2]>>]])
  BY <1>3, <1>4, CroppedDraws
<1>6. m_orientation' = m_orientation
  BY DEF Crop
<1> QED
  BY <1>2, <1>4, <1>5, <1>6 DEF BitmapInv

\* Extend keeps the picture and fills what is new.
LEMMA ExtendStep ==
    ASSUME BitmapInv, Extend
    PROVE  BitmapInv'
<1>1. PICK right \in 0 .. 1, below \in 0 .. 1 :
        /\ m_data' = Extended(m_width + right, m_height + below)
        /\ m_width' = m_width + right /\ m_height' = m_height + below
        /\ shown' = [p \in Places(m_width + right, m_height + below) |-> IF p \in DOMAIN shown THEN shown[p] ELSE Transparent]
  BY DEF Extend, Shows
<1> DEFINE w == m_width
           h == m_height
           w2 == w + right
           h2 == h + below
           n == w2 * h2
           pixel(i) == IF Column(i, w2) < w /\ Row(i, w2) < h
                         THEN At(m_data, Row(i, w2) * w + Column(i, w2)) ELSE Transparent
           array == [j \in 1 .. n |-> pixel(j - 1)]
<1>2. w \in Dimension /\ h \in Dimension /\ Draws(m_data, w, h, shown) /\ m_orientation' = m_orientation
  BY DEF BitmapInv, Extend
<1>3. /\ m_width' = w2 /\ m_height' = h2
      /\ shown' = [p \in Places(w2, h2) |-> IF p \in DOMAIN shown THEN shown[p] ELSE Transparent]
  BY <1>1
<1>4. m_data' = array
  BY <1>1 DEF Extended, Array
<1> HIDE DEF w, h
<1>5. w2 \in Dimension /\ h2 \in Dimension /\ w \in Nat \ {0} /\ h \in Nat \ {0}
  BY <1>2 DEF Dimension
<1> HIDE DEF w2, h2
<1>6. n \in Nat
  BY <1>5, Product DEF Dimension
<1>7. DOMAIN shown = Places(w, h) /\ shown \in [Places(w, h) -> Int]
  BY <1>2 DEF Draws
<1>8. shown' \in [Places(w2, h2) -> Int]
  BY <1>3, <1>7 DEF Transparent
<1>9. ASSUME NEW x \in 0 .. w2 - 1, NEW y \in 0 .. h2 - 1
      PROVE  At(array, y * w2 + x) = shown'[<<x, y>>]
  <2> DEFINE i == y * w2 + x
  <2>1. i \in 0 .. n - 1 /\ Column(i, w2) = x /\ Row(i, w2) = y
    BY <1>5, Indices
  <2> HIDE DEF i
  <2>2. i + 1 \in 1 .. n /\ (i + 1) - 1 = i
    BY <1>6, <2>1
  <2>3. At(array, i) = pixel(i)
    <3> HIDE DEF pixel, n
    <3> QED
      BY <2>2 DEF At
  <2>4. x \in Int /\ y \in Int /\ x >= 0 /\ y >= 0
    BY <1>5 DEF Dimension
  <2>5. <<x, y>> \in Places(w, h) <=> x < w /\ y < h
    BY <1>5, <2>4 DEF Places
  <2>6. shown'[<<x, y>>] = IF <<x, y>> \in Places(w, h) THEN shown[<<x, y>>] ELSE Transparent
    BY <1>3, <1>7 DEF Places
  <2>7. pixel(i) = IF x < w /\ y < h THEN At(m_data, y * w + x) ELSE Transparent
    BY <2>1
  <2>8. x < w /\ y < h => At(m_data, y * w + x) = shown[<<x, y>>]
    <3>1. SUFFICES ASSUME x < w, y < h
                   PROVE  At(m_data, y * w + x) = shown[<<x, y>>]
      OBVIOUS
    <3>2. x \in 0 .. w - 1 /\ y \in 0 .. h - 1
      BY <1>5, <2>4, <3>1
    <3> QED
      BY <1>2, <3>2 DEF Draws
  <2> HIDE DEF pixel, array
  <2> QED
    BY <2>3, <2>5, <2>6, <2>7, <2>8 DEF i
<1>10. array = [j \in 1 .. w2 * h2 |-> array[j]]
  OBVIOUS
<1> HIDE DEF array
<1>11. Draws(array, w2, h2, shown')
  BY <1>5, <1>8, <1>9, <1>10, Drawn
<1> QED
  BY <1>2, <1>3, <1>4, <1>5, <1>11 DEF BitmapInv

\* FillBlack makes the rectangle black and no other pixel.
LEMMA FillStep ==
    ASSUME BitmapInv, FillBlack
    PROVE  BitmapInv'
<1> DEFINE w == m_width
           h == m_height
           n == w * h
<1>1. PICK x0 \in 0 .. w - 1, y0 \in 0 .. h - 1 :
      \E width \in 1 .. w - x0, height \in 1 .. h - y0 :
        /\ m_data' = Blackened(m_data, x0, y0, w, width, height)
        /\ shown' = [p \in Places(w, h) |->
              IF p[1] - x0 \in 0 .. width - 1 /\ p[2] - y0 \in 0 .. height - 1 THEN Black ELSE shown[p]]
  BY DEF FillBlack, Shows
<1>2. PICK width \in 1 .. w - x0, height \in 1 .. h - y0 :
        /\ m_data' = Blackened(m_data, x0, y0, w, width, height)
        /\ shown' = [p \in Places(w, h) |->
              IF p[1] - x0 \in 0 .. width - 1 /\ p[2] - y0 \in 0 .. height - 1 THEN Black ELSE shown[p]]
  BY <1>1
<1> DEFINE filled == {(y0 + j) * w + x0 + i : i \in 0 .. width - 1, j \in 0 .. height - 1}
           pixel(i) == IF i \in filled THEN Black ELSE At(m_data, i)
<1>2a. m_data' = [j \in 1 .. Len(m_data) |-> pixel(j - 1)]
  BY <1>2 DEF Blackened, Array
<1>3. w \in Dimension /\ h \in Dimension /\ Draws(m_data, w, h, shown)
  BY DEF BitmapInv
<1>4. m_width' = w /\ m_height' = h /\ m_orientation' = m_orientation
  BY DEF FillBlack, Shows
<1> HIDE DEF w, h
<1>5. w \in Nat \ {0} /\ h \in Nat \ {0} /\ n \in Nat
  BY <1>3, Product DEF Dimension
<1>6. Len(m_data) = n
  <2> HIDE DEF n
  <2>1. m_data \in [1 .. n -> Int]
    BY <1>3 DEF Draws, Cells, n
  <2> QED
    BY <1>5, <2>1
<1>7. shown' \in [Places(w, h) -> Int]
  BY <1>2, <1>3 DEF Draws, Black
<1>8. ASSUME NEW x \in 0 .. w - 1, NEW y \in 0 .. h - 1
      PROVE  At(m_data', y * w + x) = shown'[<<x, y>>]
  <2> DEFINE i == y * w + x
             in == x - x0 \in 0 .. width - 1 /\ y - y0 \in 0 .. height - 1
  <2>1. i \in 0 .. n - 1 /\ Column(i, w) = x /\ Row(i, w) = y
    BY <1>3, Indices
  <2>2. i \in filled <=> in
    <3>1. ASSUME in
          PROVE  i \in filled
      <4>1. (y0 + (y - y0)) * w + x0 + (x - x0) = i
        <5>1. x \in Int /\ y \in Int /\ x0 \in Int /\ y0 \in Int
          BY <1>5
        <5>2. y0 + (y - y0) = y
          BY <5>1
        <5>3. y * w \in Int
          BY <1>5
        <5> QED
          BY <5>1, <5>2, <5>3
      <4> DEFINE a == x - x0
                 b == y - y0
      <4>2. a \in 0 .. width - 1 /\ b \in 0 .. height - 1 /\ i = (y0 + b) * w + x0 + a
        BY <3>1, <4>1
      <4> HIDE DEF a, b, i
      <4> QED
        BY <4>2
    <3>2. ASSUME i \in filled
          PROVE  in
      <4> HIDE DEF i
      <4>1. PICK a \in 0 .. width - 1, b \in 0 .. height - 1 : i = (y0 + b) * w + x0 + a
        BY <3>2
      <4> DEFINE x2 == x0 + a
                 y2 == y0 + b
      <4>2. x2 \in 0 .. w - 1 /\ y2 \in 0 .. h - 1 /\ i = y2 * w + x2
        <5>1. y2 * w \in Int
          BY <1>5
        <5> HIDE DEF y2
        <5>2. i = y2 * w + x2
          BY <1>5, <4>1, <5>1 DEF y2
        <5> QED
          BY <1>5, <5>2 DEF y2
      <4> HIDE DEF x2, y2
      <4>3. x = x2 /\ y = y2
        BY <1>3, <2>1, <4>2, Indices
      <4>4. x - x0 = a /\ y - y0 = b
        BY <1>5, <4>3 DEF x2, y2
      <4> QED
        BY <4>4
    <3> QED
      BY <3>1, <3>2
  <2> HIDE DEF in, filled, i
  <2>3. i + 1 \in 1 .. n /\ (i + 1) - 1 = i
    BY <1>5, <2>1
  <2>4. At(m_data', i) = IF i \in filled THEN Black ELSE At(m_data, i)
    BY <1>2a, <1>6, <2>3 DEF At
  <2>5. shown'[<<x, y>>] = IF in THEN Black ELSE shown[<<x, y>>]
    BY <1>2 DEF Places, in
  <2>6. At(m_data, i) = shown[<<x, y>>]
    BY <1>3 DEF Draws, i
  <2>7. At(m_data', i) = shown'[<<x, y>>]
    BY <2>2, <2>4, <2>5, <2>6
  <2> QED
    BY <2>7 DEF i
<1>9. m_data' = [j \in 1 .. w * h |-> m_data'[j]]
  <2> HIDE DEF pixel
  <2> QED
    BY <1>2a, <1>6
<1>10. Draws(m_data', w, h, shown')
  BY <1>3, <1>7, <1>8, <1>9, Drawn
<1> QED
  BY <1>3, <1>4, <1>10 DEF BitmapInv

\* Every operation keeps the invariant.
LEMMA BitmapInvNext ==
    ASSUME BitmapInv, [BitmapNext]_bitmapVars
    PROVE  BitmapInv'
<1>1. CASE UNCHANGED bitmapVars
  BY <1>1 DEF BitmapInv, bitmapVars
<1> QED
  BY <1>1, NormalizeStep, CropStep, ExtendStep, FillStep DEF BitmapNext

\* DataIsPicture: for bitmaps of every size and however many operations in whichever
\* order, the array holds the picture that the operations mean.
THEOREM BitmapsCorrect == BitmapInit /\ [][BitmapNext]_bitmapVars => []DataIsPicture
<1>1. ASSUME BitmapInv
      PROVE  DataIsPicture
  <2> DEFINE n == m_width * m_height
  <2>1. m_width \in Dimension /\ m_height \in Dimension /\ Draws(m_data, m_width, m_height, shown)
    BY <1>1 DEF BitmapInv
  <2>2. n \in Nat
    BY <2>1, Product DEF Dimension
  <2>3. m_data \in [1 .. n -> Int]
    BY <2>1 DEF Draws, Cells
  <2> HIDE DEF n
  <2>4. Len(m_data) = n
    BY <2>2, <2>3
  <2>5. \A p \in Places(m_width, m_height) : At(m_data, p[2] * m_width + p[1]) = shown[p]
    <3> TAKE p \in Places(m_width, m_height)
    <3>1. PICK x \in 0 .. m_width - 1, y \in 0 .. m_height - 1 : p = <<x, y>>
      BY DEF Places
    <3> QED
      BY <2>1, <3>1 DEF Draws
  <2> QED
    BY <2>4, <2>5 DEF DataIsPicture, n
<1>2. BitmapInit => BitmapInv
  BY BitmapInvInit
<1>3. BitmapInv /\ [BitmapNext]_bitmapVars => BitmapInv'
  BY BitmapInvNext
<1> QED
  BY <1>1, <1>2, <1>3, PTL

-----------------------------------------------------------------------------
(* Pictures in planes.                                                      *)

InPlace(p) == (p \div Width) * Stride + (p % Width)

\* Wherever a chunk begins, its loop finds the sample of each of its pixels.
LEMMA SampleInPlace ==
    ASSUME Width \in Nat \ {0}, layout.gap \in Nat, NEW first \in Nat, NEW i \in Nat
    PROVE  Sample(first, i) = InPlace(first + i)
<1> DEFINE w == Width
           g == layout.gap
           y == first \div w
           x == first % w
           j == i - (w - x)
           q == j \div w
           r == j % w
<1>1. w \in Nat \ {0} /\ g \in Nat /\ Stride = w + g
  BY DEF Stride
<1> HIDE DEF w, g
<1>2. y \in Nat /\ x \in Nat /\ x < w /\ first = w * y + x
  BY <1>1, Division
<1> HIDE DEF y, x
<1>3. CASE i < w - x
  <2>1. x + i \in Nat /\ x + i < w /\ first + i = w * y + (x + i)
    BY <1>1, <1>2, <1>3
  <2> DEFINE n == first + i
             r2 == x + i
  <2>2. n \div w = y /\ n % w = r2
    <3>1. n = w * y + r2 /\ r2 \in Nat /\ r2 < w
      BY <2>1
    <3> HIDE DEF n, r2
    <3> QED
      BY <1>1, <1>2, <3>1, DivMod
  <2>3. Sample(first, i) = y * (w + g) + x + i + g * 0
    BY <1>1, <1>3 DEF Sample, y, x, w, g
  <2>4. InPlace(first + i) = y * (w + g) + (x + i)
    BY <1>1, <2>2 DEF InPlace, w
  <2> QED
    BY <1>1, <1>2, <2>3, <2>4
<1>4. CASE ~(i < w - x)
  <2>1. j \in Nat /\ i = j + (w - x)
    BY <1>1, <1>2, <1>4
  <2>2. Sample(first, i) = y * (w + g) + x + i + g * (1 + q)
    BY <1>1, <1>4 DEF Sample, y, x, w, g
  <2> HIDE DEF j
  <2>3. q \in Nat /\ r \in Nat /\ r < w /\ j = w * q + r
    BY <1>1, <2>1, Division
  <2> HIDE DEF q, r
  <2>4. first + i = w * (y + 1 + q) + r
    BY <1>1, <1>2, <2>1, <2>3
  <2> DEFINE n == first + i
             q2 == y + 1 + q
  <2>5. n \div w = q2 /\ n % w = r
    <3>1. n = w * q2 + r /\ q2 \in Nat
      BY <1>2, <2>3, <2>4
    <3> HIDE DEF n, q2
    <3> QED
      BY <1>1, <2>3, <3>1, DivMod
  <2>6. InPlace(first + i) = (y + 1 + q) * (w + g) + r
    BY <1>1, <2>5 DEF InPlace, w
  <2>7. y * (w + g) + x + i + g * (1 + q) = (y + 1 + q) * (w + g) + r
    BY <1>1, <1>2, <2>1, <2>3
  <2> QED
    BY <2>2, <2>6, <2>7
<1> QED
  BY <1>3, <1>4
\* What is known of a picture in planes: what has been cut off it is made already, or is in
\* a chunk that waits.
PlanesOK ==
    layout.kind = "planes" =>
        /\ sz + offset = Area
        /\ \A t \in tasks : t.offset + t.sz <= offset
        /\ \A p \in DOMAIN pixels :
              \/ pixels[p] = InPlace(p)
              \/ p >= offset
              \/ \E t \in tasks : p \in t.offset .. t.offset + t.sz - 1

\* The place of pixel p among the blocks, and in its own block.
BlockOf(p) == BlocksAcross * ((p \div Width) \div 4) + (p % Width) \div 4
InBlock(p) == 16 * BlockOf(p) + 4 * ((p \div Width) % 4) + ((p % Width) % 4)

\* What is known of a picture in blocks: dst is the corner of the next block, and the pixels
\* of the blocks before it are made.
BlocksOK ==
    layout.kind = "blocks" =>
        /\ tasks = {}
        /\ block <= BlocksAcross * BlocksDown
        /\ dst = 4 * (Width * (block \div BlocksAcross)) + 4 * (block % BlocksAcross)
        /\ \A p \in DOMAIN pixels : BlockOf(p) < block => pixels[p] = InBlock(p)

PixelsTypeOK ==
    /\ layout \in Layouts
    /\ sz \in Nat /\ offset \in Nat /\ dst \in Nat /\ block \in Nat
    /\ tasks \subseteq [offset : Nat, sz : Nat]
    /\ DOMAIN pixels = 0 .. Area - 1

PixelsInv == PixelsTypeOK /\ PlanesOK /\ BlocksOK

\* The block formats have pictures of whole blocks.
WholeBlocks == \A size \in BlockPictures : size[1] % 4 = 0 /\ size[2] % 4 = 0

\* What the layouts have in common.
LEMMA LayoutFacts ==
    ASSUME layout \in Layouts
    PROVE  /\ Width \in Nat \ {0} /\ layout.size[2] \in Nat \ {0} /\ layout.gap \in Nat
           /\ Area \in Nat /\ Area = Width * layout.size[2]
           /\ layout.kind = "planes" => layout.chunk \in Nat \ {0}
           /\ layout.kind \in {"planes", "blocks"}
<1> DEFINE s == layout.size
<1>1. s \in (Nat \ {0}) \X (Nat \ {0})
  BY PixelsAssumption DEF Layouts
<1>2. layout.gap \in Nat /\ (layout.kind = "planes" => layout.chunk \in Nat \ {0}) /\ layout.kind \in {"planes", "blocks"}
  <2>1. CASE layout \in [kind: {"planes"}, size: PlaneSizes, gap: Gaps, chunk: ChunkSizes]
    <3>1. layout.kind = "planes" /\ layout.gap \in Gaps /\ layout.chunk \in ChunkSizes
      BY <2>1
    <3> QED
      BY <3>1, PixelsAssumption
  <2>2. CASE layout \in [kind: {"blocks"}, size: BlockPictures, gap: {0}, chunk: {16}]
    <3>1. layout.kind = "blocks" /\ layout.gap = 0
      BY <2>2
    <3> QED
      BY <3>1
  <2> QED
    BY <2>1, <2>2 DEF Layouts
<1> HIDE DEF s
<1>3. s[1] \in Nat \ {0} /\ s[2] \in Nat \ {0}
  BY <1>1
<1>4. s[1] * s[2] \in Nat
  BY <1>3, Product
<1> QED
  BY <1>2, <1>3, <1>4 DEF Width, Area, s

\* Whole blocks fill the lines and the columns.
LEMMA BlockFacts ==
    ASSUME WholeBlocks, layout \in Layouts, layout.kind = "blocks"
    PROVE  /\ BlocksAcross \in Nat \ {0} /\ Width = 4 * BlocksAcross
           /\ BlocksDown \in Nat \ {0} /\ layout.size[2] = 4 * BlocksDown
<1> DEFINE s == layout.size
<1>1. s \in (Nat \ {0}) \X (Nat \ {0}) /\ s \in BlockPictures
  BY PixelsAssumption DEF Layouts
<1> HIDE DEF s
<1>2. s[1] \in Nat \ {0} /\ s[2] \in Nat \ {0} /\ s[1] % 4 = 0 /\ s[2] % 4 = 0
  BY <1>1 DEF WholeBlocks
<1>3. \A n \in Nat \ {0} : n % 4 = 0 => n \div 4 \in Nat \ {0} /\ n = 4 * (n \div 4)
  OBVIOUS
<1> QED
  BY <1>2, <1>3 DEF Width, BlocksAcross, BlocksDown, s

\* Every pixel is in one of the blocks.
LEMMA PlaceFacts ==
    ASSUME WholeBlocks, layout \in Layouts, layout.kind = "blocks", NEW p \in 0 .. Area - 1
    PROVE  /\ BlockOf(p) \in Nat /\ BlockOf(p) < BlocksAcross * BlocksDown
           /\ (p \div Width) \div 4 \in Nat /\ (p % Width) \div 4 \in Nat /\ (p % Width) \div 4 < BlocksAcross
           /\ BlocksAcross * BlocksDown \in Nat
<1> DEFINE w == Width
           n == BlocksAcross
           m == BlocksDown
           y == p \div w
           x == p % w
           i == y \div 4
           j == x \div 4
<1>1. n \in Nat \ {0} /\ m \in Nat \ {0} /\ w = 4 * n /\ layout.size[2] = 4 * m
  BY BlockFacts
<1>2. Area = w * (4 * m)
  BY <1>1 DEF Area
<1> HIDE DEF w, n, m
<1>3. w \in Nat \ {0} /\ p \in Nat /\ p < w * (4 * m)
  BY <1>1, <1>2, Product
<1>4. y \in Nat /\ x \in Nat /\ x < w /\ p = w * y + x
  BY <1>3, Division
<1> HIDE DEF y, x
<1>5. y < 4 * m
  <2>1. SUFFICES ASSUME y >= 4 * m PROVE FALSE
    BY <1>1, <1>4
  <2>2. w * y >= w * (4 * m)
    BY <1>1, <1>4, <2>1
  <2> QED
    BY <1>1, <1>3, <1>4, <2>2
<1>6. i \in Nat /\ i < m /\ j \in Nat /\ j < n
  BY <1>1, <1>4, <1>5
<1> HIDE DEF i, j
<1>7. n * i + j \in Nat /\ n * m \in Nat
  BY <1>1, <1>6, Product
<1>8. n * i + j < n * m
  <2>1. n * (i + 1) <= n * m
    BY <1>1, <1>6
  <2>2. n * (i + 1) = n * i + n
    BY <1>1, <1>6
  <2> QED
    BY <1>1, <1>6, <1>7, <2>1, <2>2
<1>9. BlockOf(p) = n * i + j
  BY DEF BlockOf, n, i, j, y, x, w
<1> QED
  BY <1>6, <1>7, <1>8, <1>9 DEF n, m, i, j, y, x, w

\* At first nothing has been cut off, nothing waits and no block is made.
LEMMA PixelsInvInit ==
    ASSUME WholeBlocks, PixelsInit
    PROVE  PixelsInv
<1>1. layout \in Layouts /\ sz = Area /\ offset = 0 /\ tasks = {} /\ dst = 0 /\ block = 0 /\ DOMAIN pixels = 0 .. Area - 1
  BY DEF PixelsInit
<1>2. Width \in Nat \ {0} /\ Area \in Nat
  BY <1>1, LayoutFacts
<1>3. PixelsTypeOK
  BY <1>1, <1>2 DEF PixelsTypeOK
<1>4. PlanesOK
  BY <1>1, <1>2 DEF PlanesOK
<1>5. BlocksOK
  <2> SUFFICES ASSUME layout.kind = "blocks"
               PROVE  /\ tasks = {}
                      /\ block <= BlocksAcross * BlocksDown
                      /\ dst = 4 * (Width * (block \div BlocksAcross)) + 4 * (block % BlocksAcross)
                      /\ \A p \in DOMAIN pixels : BlockOf(p) < block => pixels[p] = InBlock(p)
    BY DEF BlocksOK
  <2>1. BlocksAcross \in Nat \ {0} /\ BlocksDown \in Nat \ {0}
    BY <1>1, BlockFacts
  <2>2. BlocksAcross * BlocksDown \in Nat
    BY <2>1, Product
  <2>3. 0 \div BlocksAcross = 0 /\ 0 % BlocksAcross = 0
    BY <2>1
  <2>4. Width * 0 = 0
    BY <1>2
  <2>5. \A p \in DOMAIN pixels : BlockOf(p) \in Nat
    BY <1>1, PlaceFacts
  <2>6. block <= BlocksAcross * BlocksDown
    BY <1>1, <2>2
  <2>7. dst = 4 * (Width * (block \div BlocksAcross)) + 4 * (block % BlocksAcross)
    BY <1>1, <2>3, <2>4
  <2> QED
    BY <1>1, <2>5, <2>6, <2>7
<1> QED
  BY <1>3, <1>4, <1>5 DEF PixelsInv

\* Cutting off a chunk, and working on one in any order.
LEMMA ChunkStep ==
    ASSUME PixelsInv, QueueChunk
    PROVE  PixelsInv'
<1> DEFINE chunk == Smallest(sz, layout.chunk)
<1>1. /\ layout.kind = "planes" /\ sz > 0 /\ tasks' = tasks \cup {[offset |-> offset, sz |-> chunk]}
      /\ sz' = sz - chunk /\ offset' = offset + chunk /\ UNCHANGED <<layout, dst, block, pixels>>
  BY DEF QueueChunk
<1>2. sz \in Nat /\ offset \in Nat /\ layout \in Layouts
  BY DEF PixelsInv, PixelsTypeOK
<1>3. layout.chunk \in Nat \ {0}
  BY <1>1, <1>2, LayoutFacts
<1>4. chunk \in Nat /\ chunk <= sz
  BY <1>2, <1>3 DEF Smallest
<1> HIDE DEF chunk
<1>5. sz' \in Nat /\ offset' \in Nat /\ sz' + offset' = sz + offset
  BY <1>1, <1>2, <1>4
<1>6. PixelsTypeOK'
  <2>1. Area' = Area
    BY <1>1 DEF Area, Width
  <2> QED
    BY <1>1, <1>2, <1>4, <1>5, <2>1 DEF PixelsInv, PixelsTypeOK
<1>7. PlanesOK'
  <2>1. Area' = Area /\ \A p : InPlace(p)' = InPlace(p)
    BY <1>1 DEF Area, Width, InPlace, Stride
  <2>2. /\ sz + offset = Area /\ \A t \in tasks : t.offset + t.sz <= offset
        /\ tasks \subseteq [offset : Nat, sz : Nat]
    BY <1>1 DEF PixelsInv, PixelsTypeOK, PlanesOK
  <2> DEFINE new == [offset |-> offset, sz |-> chunk]
  <2>3. new.offset = offset /\ new.sz = chunk /\ tasks' = tasks \cup {new} /\ new \in tasks'
    BY <1>1
  <2> HIDE DEF new
  <2>4. \A t \in tasks' : t.offset + t.sz <= offset'
    <3> TAKE t \in tasks'
    <3>1. CASE t \in tasks
      <4>1. t.offset \in Nat /\ t.sz \in Nat /\ t.offset + t.sz <= offset
        BY <2>2, <3>1
      <4> QED
        BY <1>1, <1>2, <1>4, <4>1
    <3>2. CASE t = new
      BY <1>1, <1>2, <1>4, <2>3, <3>2
    <3> QED
      BY <2>3, <3>1, <3>2
  <2>5. ASSUME NEW p \in DOMAIN pixels
        PROVE  \/ pixels[p] = InPlace(p)
               \/ p >= offset'
               \/ \E t \in tasks' : p \in t.offset .. t.offset + t.sz - 1
    <3>1. p \in Nat
      BY DEF PixelsInv, PixelsTypeOK
    <3>2. CASE pixels[p] = InPlace(p) \/ \E t \in tasks : p \in t.offset .. t.offset + t.sz - 1
      BY <2>3, <3>2
    <3>3. CASE p >= offset
      <4>1. p >= offset' \/ p \in new.offset .. new.offset + new.sz - 1
        BY <1>1, <1>2, <1>4, <2>3, <3>1, <3>3
      <4> QED
        BY <2>3, <4>1
    <3> QED
      BY <1>1, <3>2, <3>3 DEF PixelsInv, PlanesOK
  <2> QED
    BY <1>1, <1>5, <2>1, <2>2, <2>4, <2>5 DEF PlanesOK
<1>8. BlocksOK'
  BY <1>1 DEF BlocksOK
<1> QED
  BY <1>6, <1>7, <1>8 DEF PixelsInv

\* A worker makes the pixels of its chunk and of no other.
LEMMA LoadStep ==
    ASSUME PixelsInv, LoadYCbCr
    PROVE  PixelsInv'
<1>1. PICK t \in tasks :
        /\ tasks' = tasks \ {t}
        /\ pixels' = [p \in DOMAIN pixels |->
              IF p \in t.offset .. t.offset + t.sz - 1 THEN Sample(t.offset, p - t.offset) ELSE pixels[p]]
        /\ UNCHANGED <<layout, sz, offset, dst, block>>
  BY DEF LoadYCbCr
<1>2. t.offset \in Nat /\ t.sz \in Nat /\ layout \in Layouts
  BY DEF PixelsInv, PixelsTypeOK
<1>3. /\ Area' = Area /\ \A p : InPlace(p)' = InPlace(p)
      /\ BlocksAcross' = BlocksAcross /\ BlocksDown' = BlocksDown /\ Width' = Width
      /\ \A p : BlockOf(p)' = BlockOf(p) /\ InBlock(p)' = InBlock(p)
  BY <1>1 DEF Area, Width, InPlace, Stride, BlockOf, InBlock, BlocksAcross, BlocksDown
<1>4. PixelsTypeOK'
  BY <1>1, <1>3 DEF PixelsInv, PixelsTypeOK
<1>5. Width \in Nat \ {0} /\ layout.gap \in Nat
  BY <1>2, LayoutFacts
<1>6. ASSUME NEW p \in DOMAIN pixels, p \in t.offset .. t.offset + t.sz - 1
      PROVE  pixels'[p] = InPlace(p)
  <2> DEFINE i == p - t.offset
  <2>1. i \in Nat /\ t.offset + i = p
    BY <1>2, <1>6
  <2>2. pixels'[p] = Sample(t.offset, i)
    BY <1>1, <1>6
  <2> HIDE DEF i
  <2> QED
    BY <1>2, <1>5, <2>1, <2>2, SampleInPlace
<1>7. \A p \in DOMAIN pixels : p \notin t.offset .. t.offset + t.sz - 1 => pixels'[p] = pixels[p]
  BY <1>1
<1>8. PlanesOK'
  BY <1>1, <1>3, <1>6, <1>7 DEF PixelsInv, PlanesOK
<1>9. BlocksOK'
  <2>1. layout.kind # "blocks"
    BY <1>1 DEF PixelsInv, BlocksOK
  <2> QED
    BY <1>1, <2>1 DEF BlocksOK
<1> QED
  BY <1>4, <1>8, <1>9 DEF PixelsInv
-----------------------------------------------------------------------------
(* Pictures in blocks.                                                      *)

\* How DecodeBlock finds out, k blocks across n having been written to lines of w pixels, in
\* which row and column from its pointer pixel p is.
FromPointer(n, w, k, p, d, row, col) ==
    /\ w = 4 * n
    /\ d = 4 * (w * (k \div n)) + 4 * (k % n)
    /\ row = IF p < d THEN 4 ELSE (p - d) \div w
    /\ col = IF p < d THEN 4 ELSE (p - d) % w

\* The pixels that it writes are those of one block, each with its own sample.
LEMMA WrittenBlock ==
    ASSUME NEW n \in Nat \ {0}, NEW w \in Nat \ {0}, NEW k \in Nat, NEW d, NEW p \in Nat, NEW row, NEW col,
           FromPointer(n, w, k, p, d, row, col)
    PROVE  /\ (row < 4 /\ col < 4) <=> n * ((p \div w) \div 4) + (p % w) \div 4 = k
           /\ row < 4 /\ col < 4 => row = (p \div w) % 4 /\ col = (p % w) % 4
<1> DEFINE y == p \div w
           x == p % w
           r == k \div n
           c == k % n
           i == y \div 4
           j == x \div 4
           a == y % 4
           b == x % 4
<1>0. w = 4 * n
  BY DEF FromPointer
<1>1. w \in Nat \ {0}
  OBVIOUS
<1>2. y \in Nat /\ x \in Nat /\ x < w /\ p = w * y + x
  BY <1>1, Division
<1>3. r \in Nat /\ c \in Nat /\ c < n /\ k = n * r + c
  BY Division
<1>4. /\ d = 4 * (w * r) + 4 * c
      /\ row = IF p < d THEN 4 ELSE (p - d) \div w
      /\ col = IF p < d THEN 4 ELSE (p - d) % w
  BY DEF FromPointer
<1> HIDE DEF y, x, r, c
<1>5. i \in Nat /\ j \in Nat /\ a \in 0 .. 3 /\ b \in 0 .. 3 /\ y = 4 * i + a /\ x = 4 * j + b
  BY <1>2
<1> HIDE DEF i, j, a, b
<1>6. j < n
  BY <1>0, <1>2, <1>5
<1>7. n * i + j = k <=> i = r /\ j = c
  <2>1. CASE n * i + j = k
    <3>1. k \div n = i /\ k % n = j
      BY <1>5, <1>6, <2>1, DivMod
    <3> QED
      BY <2>1, <3>1 DEF r, c
  <2>2. CASE i = r /\ j = c
    BY <1>3, <2>2
  <2> QED
    BY <2>1, <2>2
<1>8. w * r \in Nat /\ w * i \in Nat /\ w * y \in Nat
  BY <1>1, <1>2, <1>3, <1>5, Product
<1>9. w * y = 4 * (w * i) + w * a
  BY <1>1, <1>5
<1>10. w * a \in Nat
  BY <1>1, <1>5, Product
<1>11. CASE i = r /\ j = c
  <2>1. p - d = w * a + b
    BY <1>2, <1>4, <1>5, <1>8, <1>9, <1>10, <1>11
  <2>2. d \in Nat /\ ~(p < d) /\ b < w /\ a \in Nat /\ b \in Nat
    BY <1>0, <1>3, <1>4, <1>5, <1>8, <1>10, <2>1
  <2> DEFINE e == p - d
  <2>3. e \div w = a /\ e % w = b
    <3>1. e = w * a + b
      BY <2>1
    <3> HIDE DEF e
    <3> QED
      BY <1>1, <2>2, <3>1, DivMod
  <2>4. row = a /\ col = b
    BY <1>4, <2>2, <2>3
  <2> QED
    BY <1>5, <1>7, <1>11, <2>4 DEF y, x, i, j, a, b
<1>12. CASE ~(i = r /\ j = c)
  <2>1. ~(row < 4 /\ col < 4)
    <3>a. SUFFICES ASSUME row < 4, col < 4
                   PROVE  FALSE
      OBVIOUS
    <3>1. d \in Nat
      BY <1>3, <1>4, <1>8
    <3>2. ~(p < d) /\ row = (p - d) \div w /\ col = (p - d) % w
      BY <3>a, <1>4, <3>1
    <3>3. p - d \in Nat
      BY <3>1, <3>2
    <3> DEFINE e == p - d
    <3>4. row \in Nat /\ col \in Nat /\ e = w * row + col
      <4> HIDE DEF e
      <4>1. e \in Nat /\ row = e \div w /\ col = e % w
        BY <3>2, <3>3 DEF e
      <4> QED
        BY <1>1, <4>1, Division
    <3> HIDE DEF e
    <3> DEFINE y2 == 4 * r + row
               x2 == 4 * c + col
    <3>5. p = w * y2 + x2
      <4>1. w * y2 = 4 * (w * r) + w * row
        BY <1>1, <1>3, <3>4
      <4>2. w * row \in Nat
        BY <1>1, <3>4, Product
      <4>3. p = e + d
        BY <3>1 DEF e
      <4> HIDE DEF y2
      <4> QED
        BY <1>3, <1>4, <1>8, <3>1, <3>4, <4>1, <4>2, <4>3
    <3>6. y2 \in Nat /\ x2 \in Nat /\ x2 < w
      BY <1>0, <1>3, <3>4, <3>a
    <3>7. y = y2 /\ x = x2
      <4> HIDE DEF y2, x2
      <4>1. p \div w = y2 /\ p % w = x2
        BY <1>1, <3>5, <3>6, DivMod
      <4> QED
        BY <4>1 DEF y, x
    <3>8. i = r /\ j = c
      BY <1>3, <1>5, <3>4, <3>7, <3>a
    <3> QED
      BY <1>12, <3>8
  <2> QED
    BY <1>7, <1>12, <2>1 DEF y, x, i, j
<1> QED
  BY <1>11, <1>12

\* The next block is written to its own place, and dst moves on to the next corner.
LEMMA DecodeStep ==
    ASSUME WholeBlocks, PixelsInv, DecodeBlock
    PROVE  PixelsInv'
<1> DEFINE n == BlocksAcross
           m == BlocksDown
           w == Width
           r == block \div n
           c == block % n
<1>1. /\ layout.kind = "blocks" /\ block < n * m /\ block' = block + 1
      /\ dst' = dst + 4 + IF (block + 1) % n = 0 THEN w * 3 ELSE 0
      /\ UNCHANGED <<layout, sz, offset, tasks>>
  BY DEF DecodeBlock, AfterRow
<1>2. layout \in Layouts /\ block \in Nat /\ dst \in Nat /\ DOMAIN pixels = 0 .. Area - 1
  BY DEF PixelsInv, PixelsTypeOK
<1>3. n \in Nat \ {0} /\ w = 4 * n /\ m \in Nat \ {0} /\ Area \in Nat /\ n * m \in Nat
  BY <1>1, <1>2, BlockFacts, LayoutFacts, Product
<1>4. /\ Area' = Area /\ BlocksAcross' = n /\ BlocksDown' = m /\ Width' = w
      /\ \A p : BlockOf(p)' = BlockOf(p) /\ InBlock(p)' = InBlock(p)
  BY <1>1 DEF Area, Width, BlockOf, InBlock, BlocksAcross, BlocksDown
<1>5. /\ tasks = {} /\ dst = 4 * (w * r) + 4 * c
      /\ \A p \in DOMAIN pixels : BlockOf(p) < block => pixels[p] = InBlock(p)
  BY <1>1 DEF PixelsInv, BlocksOK
<1>6. DOMAIN pixels' = DOMAIN pixels
  BY DEF DecodeBlock
<1>7. ASSUME NEW p \in DOMAIN pixels
      PROVE  /\ BlockOf(p) = block => pixels'[p] = InBlock(p)
             /\ BlockOf(p) # block => pixels'[p] = pixels[p]
  <2> DEFINE row == IF p < dst THEN 4 ELSE (p - dst) \div w
             col == IF p < dst THEN 4 ELSE (p - dst) % w
             y == p \div w
             x == p % w
  <2>1. pixels'[p] = IF row < 4 /\ col < 4 THEN 16 * block + 4 * row + col ELSE pixels[p]
    BY DEF DecodeBlock
  <2>2. p \in Nat
    BY <1>2, <1>3
  <2>3. /\ (row < 4 /\ col < 4) <=> n * (y \div 4) + x \div 4 = block
        /\ row < 4 /\ col < 4 => row = y % 4 /\ col = x % 4
    <3>0. n \in Nat \ {0} /\ w \in Nat \ {0} /\ block \in Nat
      BY <1>2, <1>3
    <3>1. w \in Nat \ {0} /\ dst = 4 * (w * (block \div n)) + 4 * (block % n)
      BY <1>3, <1>5
    <3>2. FromPointer(n, w, block, p, dst, row, col)
      BY <1>3, <3>1 DEF FromPointer
    <3> HIDE DEF n, w, row, col
    <3>3. \A n2, w2 \in Nat \ {0}, k2, p2 \in Nat : \A d2, row2, col2 :
            FromPointer(n2, w2, k2, p2, d2, row2, col2) =>
              /\ (row2 < 4 /\ col2 < 4) <=> n2 * ((p2 \div w2) \div 4) + (p2 % w2) \div 4 = k2
              /\ row2 < 4 /\ col2 < 4 => row2 = (p2 \div w2) % 4 /\ col2 = (p2 % w2) % 4
      BY WrittenBlock
    <3>4.     /\ (row < 4 /\ col < 4) <=> n * ((p \div w) \div 4) + (p % w) \div 4 = block
              /\ row < 4 /\ col < 4 => row = (p \div w) % 4 /\ col = (p % w) % 4
      <4> HIDE DEF y, x
      <4> QED
      BY <2>2, <3>0, <3>2, <3>3, SMTT(90)
    <3> QED
      BY <3>4
  <2>4. BlockOf(p) = n * (y \div 4) + x \div 4 /\ InBlock(p) = 16 * BlockOf(p) + 4 * (y % 4) + (x % 4)
    BY DEF BlockOf, InBlock
  <2> HIDE DEF row, col, y, x
  <2> QED
    BY <2>1, <2>3, <2>4
<1>8. ASSUME NEW p \in DOMAIN pixels, BlockOf(p) < block + 1
      PROVE  pixels'[p] = InBlock(p)
  <2>1. BlockOf(p) \in Nat
    BY <1>1, <1>2, PlaceFacts
  <2>2. BlockOf(p) = block \/ BlockOf(p) < block
    BY <1>2, <1>8, <2>1
  <2>3. BlockOf(p) < block => BlockOf(p) # block
    BY <1>2, <2>1
  <2> QED
    BY <1>5, <1>7, <2>2, <2>3
<1> HIDE DEF n, m, w
<1>9. r \in Nat /\ c \in Nat /\ c < n /\ block = n * r + c
  BY <1>2, <1>3, Division
<1> HIDE DEF r, c
<1>10. w * r \in Nat
  BY <1>3, <1>9, Product
<1> DEFINE next == block + 1
<1>11. ASSUME c + 1 < n
       PROVE  dst' = 4 * (w * (next \div n)) + 4 * (next % n)
  <2>1. next \div n = r /\ next % n = c + 1
    <3> DEFINE c1 == c + 1
    <3>1. next = n * r + c1 /\ c1 \in Nat /\ c1 < n
      BY <1>9, <1>3, <1>11, Product
    <3> HIDE DEF next, c1
    <3>2. next \div n = r /\ next % n = c1
      BY <1>3, <1>9, <3>1, DivMod
    <3> QED
      BY <3>2 DEF c1
  <2>2. dst' = dst + 4
    BY <1>1, <1>9, <2>1, <1>2
  <2>3. dst' = 4 * (w * r) + 4 * (c + 1)
    BY <1>5, <1>9, <1>10, <2>2
  <2> QED
    BY <2>1, <2>3
<1>12. ASSUME ~(c + 1 < n)
       PROVE  dst' = 4 * (w * (next \div n)) + 4 * (next % n)
  <2>1. next \div n = r + 1 /\ next % n = 0
    <3> DEFINE r1 == r + 1
    <3>1. next = n * r1 + 0 /\ r1 \in Nat /\ 0 < n
      BY <1>9, <1>12, <1>3, Product
    <3> HIDE DEF next, r1
    <3>2. next \div n = r1 /\ next % n = 0
      BY <1>3, <3>1, DivMod
    <3> QED
      BY <3>2 DEF r1
  <2>2. dst' = dst + 4 + w * 3
    BY <1>1, <2>1
  <2>3. 4 * (w * (r + 1)) + 4 * 0 = 4 * (w * r) + 4 * w
    BY <1>3, <1>9
  <2>4. dst' = 4 * (w * (r + 1)) + 4 * 0
    BY <1>3, <1>5, <1>9, <1>10, <1>12, <2>2, <2>3
  <2> QED
    BY <2>1, <2>4
<1>13. dst' = 4 * (w * (next \div n)) + 4 * (next % n) /\ dst' \in Nat /\ next \in Nat /\ next <= n * m
  <2>1. dst' = 4 * (w * (next \div n)) + 4 * (next % n)
    BY <1>11, <1>12
  <2>2. dst' = dst + 4 + w * 3 \/ dst' = dst + 4
    BY <1>1, <1>2
  <2> QED
    BY <1>1, <1>2, <1>3, <2>1, <2>2 DEF m
<1>14. PixelsTypeOK'
  BY <1>1, <1>2, <1>4, <1>6, <1>13 DEF PixelsInv, PixelsTypeOK
<1>15. PlanesOK'
  BY <1>1 DEF PlanesOK
<1>16. BlocksOK'
  BY <1>1, <1>4, <1>5, <1>6, <1>8, <1>13 DEF BlocksOK
<1> QED
  BY <1>14, <1>15, <1>16 DEF PixelsInv

\* Every step keeps the invariant.
LEMMA PixelsInvNext ==
    ASSUME WholeBlocks, PixelsInv, [PixelsNext]_pixelsVars
    PROVE  PixelsInv'
<1>1. CASE UNCHANGED pixelsVars
  <2>1. /\ UNCHANGED <<layout, sz, offset, tasks, dst, block, pixels>>
        /\ Area' = Area /\ BlocksAcross' = BlocksAcross /\ BlocksDown' = BlocksDown /\ Width' = Width
        /\ \A p : BlockOf(p)' = BlockOf(p) /\ InBlock(p)' = InBlock(p) /\ InPlace(p)' = InPlace(p)
    BY <1>1 DEF pixelsVars, Area, Width, BlockOf, InBlock, InPlace, Stride, BlocksAcross, BlocksDown
  <2> QED
    BY <2>1 DEF PixelsInv, PixelsTypeOK, PlanesOK, BlocksOK
<1> QED
  BY <1>1, ChunkStep, LoadStep, DecodeStep DEF PixelsNext

\* PixelsAreInPlace: pictures of any size, in planes with lines of any length and cut into
\* chunks of any length, or in whole blocks: when the work ends, every pixel has been made
\* of the sample at its place.
THEOREM PixelsCorrect ==
    ASSUME WholeBlocks
    PROVE  PixelsInit /\ [][PixelsNext]_pixelsVars => []PixelsAreInPlace
<1>1. ASSUME PixelsInv
      PROVE  PixelsAreInPlace
  <2>1. ASSUME layout.kind = "planes", sz = 0, tasks = {}, NEW p \in DOMAIN pixels
        PROVE  pixels[p] = (p \div Width) * Stride + (p % Width)
    <3>1. ~(p >= offset)
      BY <1>1, <2>1, LayoutFacts DEF PixelsInv, PixelsTypeOK, PlanesOK
    <3>2. pixels[p] = InPlace(p)
      BY <1>1, <2>1, <3>1 DEF PixelsInv, PlanesOK
    <3> QED
      BY <3>2 DEF InPlace
  <2>2. ASSUME layout.kind = "blocks", block = BlocksAcross * BlocksDown, NEW p \in DOMAIN pixels
        PROVE  LET x == p % Width
                   y == p \div Width
               IN  pixels[p] = 16 * ((y \div 4) * BlocksAcross + x \div 4) + 4 * (y % 4) + (x % 4)
    <3> DEFINE n == BlocksAcross
               i == (p \div Width) \div 4
               j == (p % Width) \div 4
    <3>1. /\ BlockOf(p) < block /\ i \in Nat /\ j \in Nat /\ n \in Nat
      BY <1>1, <2>2, PlaceFacts, BlockFacts DEF PixelsInv, PixelsTypeOK
    <3>2. pixels[p] = InBlock(p)
      BY <1>1, <2>2, <3>1 DEF PixelsInv, BlocksOK
    <3>3. BlockOf(p) = n * i + j
      BY DEF BlockOf
    <3>4. n * i + j = i * n + j
      <4> HIDE DEF n, i, j
      <4> QED
        BY <3>1
    <3> QED
      BY <3>2, <3>3, <3>4 DEF InBlock
  <2> QED
    BY <2>1, <2>2 DEF PixelsAreInPlace
<1>2. PixelsInit => PixelsInv
  BY PixelsInvInit
<1>3. PixelsInv /\ [PixelsNext]_pixelsVars => PixelsInv'
  BY PixelsInvNext
<1> QED
  BY <1>1, <1>2, <1>3, PTL

-----------------------------------------------------------------------------
(* The loaders.                                                            *)

Inputted ==
    /\ caller \in Callers /\ source \in Inputs
    /\ stage \in {"GetImageLoader", "IsAnimated", "IsHdr", "Load", "LoadHdr", "LoadAnim", "ended"}
    /\ stage = "GetImageLoader" => m_loader = "closed"

Animated == caller.animate /\ source.pixels = "anim"
Readable == caller.fd => source.format \in {"png", "exr"}

\* What the program has found out about an intact file when it makes a call.
IntactInv ==
    source.damage = "none" =>
        /\ m_loader \in {"closed", "open"}
        /\ stage \notin {"GetImageLoader", "ended"} => Readable
        /\ stage = "IsAnimated" => caller.animate
        /\ stage = "LoadAnim" => Animated
        /\ stage \in {"IsHdr", "Load", "LoadHdr"} => ~Animated
        /\ stage = "LoadHdr" => HoldsHdr /\ (caller.hdr \/ PreferHdr)
        /\ stage = "Load" => caller.program # "exrconv" /\ ~(HoldsHdr /\ caller.hdr)
        /\ stage = "ended" /\ ~HeifUnsupported => loaded = PictureWanted

\* What has been found out about any file when a call is made that may give nothing.
NoticedInv ==
    /\ stage # "ended" => loaded = NullBitmap
    /\ stage = "IsAnimated" => caller.animate
    /\ stage = "LoadAnim" => source.format = "webp" /\ caller.animate
    /\ stage = "LoadHdr" =>
           /\ caller.hdr \/ PreferHdr
           /\ source.format \in {"jpg", "heif", "jxl", "stb", "exr", "raw"}
    /\ FailureIsNoticed

LoadersInv == Inputted /\ IntactInv /\ NoticedInv

\* What a file is.
LEMMA FileFacts ==
    ASSUME source \in Inputs
    PROVE  /\ source.format \in Formats /\ source.damage \in {"none", "header", "data", "map"}
           /\ source.pixels \in {"sdr", "hdr", "anim"} /\ source.grey \in BOOLEAN /\ source.map \in BOOLEAN
           /\ source.profile \in {"none", "icc", "bt709", "bt2020"}
           /\ Sensible(source)
BY DEF Inputs

LEMMA CallerFacts ==
    ASSUME caller \in Callers
    PROVE  /\ caller.program \in {"iv", "vv", "exrconv"}
           /\ caller.hdr \in BOOLEAN /\ caller.fd \in BOOLEAN /\ caller.animate \in BOOLEAN
           /\ caller.program = "exrconv" => caller.hdr /\ ~caller.fd /\ ~caller.animate
           /\ caller.program = "vv" => ~caller.hdr /\ ~caller.fd
           /\ caller.program = "iv" => ~caller.animate
BY DEF Callers

\* The results that a program can tell from one another.
LEMMA ResultsDiffer ==
    ASSUME NEW space
    PROVE  /\ Crash # Sdr /\ Crash # Hdr(space) /\ Crash # NullBitmap
           /\ Sdr # NullBitmap /\ Hdr(space) # NullBitmap /\ NoFrames # Picture("anim", "bt709")
           /\ Misused \notin {Crash, Sdr, Hdr(space), Failed, NullBitmap, Picture("anim", "bt709")}
BY DEF Crash, Misused, Sdr, Hdr, Failed, NullBitmap, NoFrames, Picture

\* An intact file is opened, and its loader says truly whether it is HDR.
LEMMA IntactFacts ==
    ASSUME Inputted, source.damage = "none", m_loader \in {"closed", "open"}
    PROVE  /\ Opens = {"open"}
           /\ IsHdr("open") <=> HoldsHdr
           /\ source.format \notin {"jpg", "jxl", "heif"} => (IsHdr(m_loader) <=> HoldsHdr)
           /\ IsAnimated("open") <=> source.pixels = "anim"
           /\ source.format # "webp" => ~IsAnimated(m_loader) /\ source.pixels # "anim"
           /\ IsValid = {Readable}
<1> USE DEF Inputted
<1>1. Opens = {"open"}
  <2>1. CASE m_loader = "open"
    BY <2>1 DEF Opens
  <2>2. CASE m_loader = "closed"
    BY <2>2 DEF Opens
  <2> QED
    BY <2>1, <2>2
<1>2. /\ IsAnimated("open") <=> source.pixels = "anim"
      /\ source.format # "webp" => ~IsAnimated(m_loader) /\ source.pixels # "anim"
  BY FileFacts DEF IsAnimated, Sensible
<1>3. IsValid = {Readable}
  BY CallerFacts DEF IsValid, Readable
<1>4. IsHdr("open") <=> HoldsHdr
  BY FileFacts DEF IsHdr, IsHdrJpg, IsHdrHeif, IsHdrJxl, HoldsHdr, Sensible
<1>5. source.format \notin {"jpg", "jxl", "heif"} => (IsHdr(m_loader) <=> HoldsHdr)
  BY FileFacts DEF IsHdr, HoldsHdr, Sensible
<1> QED
  BY <1>1, <1>2, <1>3, <1>4, <1>5

\* Every loader gives the picture of an intact file.
LEMMA IntactLoad ==
    ASSUME Inputted, source.damage = "none", m_loader \in {"closed", "open"}
    PROVE  Load = {Sdr}
<1>1. source.format \in Formats
  BY FileFacts DEF Inputted
<1>2. Summed(Sdr) = {Sdr} /\ Checked(Sdr) = {Sdr} /\ Careless(Sdr) = {Sdr} /\ Trusting(Sdr) = {Sdr}
  BY DEF Damaged, Summed, Checked, Careless, Trusting
<1>3. LoadAgain = {Sdr} /\ LoadJpg = {Sdr} /\ LoadWebp = {Sdr}
  BY <1>2 DEF LoadAgain, LoadJpg, LoadWebp
<1> QED
  BY <1>1, <1>2, <1>3
  DEF Load, Formats, LoadPng, LoadPcx, LoadTiff, LoadXCursor, LoadStb, LoadPvr, LoadDds, LoadExr, LoadRaw,
      LoadJxl, LoadHeif

\* So does every loader that is asked for HDR, in the colour space asked for.
LEMMA IntactLoadHdr ==
    ASSUME Inputted, source.damage = "none", HoldsHdr, ~HeifUnsupported, caller.hdr \/ PreferHdr, NEW asked
    PROVE  LoadHdr(asked) = {Hdr(asked)}
<1>1. source.format \in {"jpg", "heif", "jxl", "stb", "exr", "raw"}
  BY FileFacts DEF Inputted, HoldsHdr, Sensible
<1>2. Checked(Hdr(asked)) = {Hdr(asked)} /\ Careless(Hdr(asked)) = {Hdr(asked)} /\ Trusting(Hdr(asked)) = {Hdr(asked)}
  BY DEF Damaged, Checked, Careless, Trusting
<1>3. source.format = "heif" => SetupDecode(asked) = Hdr(asked)
  BY FileFacts DEF Inputted, HeifUnsupported, PreferHdr, SetupDecode
<1>4. source.format = "heif" => LoadHdrHeif(asked) = {Hdr(asked)}
  BY <1>3 DEF LoadHdrHeif, WithMap
<1>5. LoadHdrJpg(asked) = {Hdr(asked)}
  BY DEF LoadHdrJpg, WithMap
<1> QED
  BY <1>1, <1>2, <1>4, <1>5 DEF LoadHdr, LoadHdrJxl, LoadHdrStb, LoadHdrExr, LoadHdrRaw

\* Only a half-open file that is opened again is misused inside a loader.
LEMMA LoadMisuses ==
    ASSUME source \in Inputs, Misused \in Load
    PROVE  m_loader = "half" /\ source.format \in {"jxl", "heif"}
<1>1. source.format \in Formats
  BY FileFacts
<1>2. /\ Misused \notin Summed(Sdr) /\ Misused \notin Checked(Sdr)
      /\ Misused \notin Careless(Sdr) /\ Misused \notin Trusting(Sdr)
      /\ Misused \notin {NullBitmap} /\ Misused \notin {Crash}
  BY ResultsDiffer DEF Summed, Checked, Careless, Trusting
<1>3. Misused \notin LoadJpg /\ Misused \notin LoadWebp
  BY <1>2 DEF LoadJpg, LoadWebp
<1>4. Misused \in LoadAgain => m_loader = "half"
  BY <1>2 DEF LoadAgain
<1> QED
  BY <1>1, <1>2, <1>3, <1>4
  DEF Load, Formats, LoadPng, LoadPcx, LoadTiff, LoadXCursor, LoadStb, LoadPvr, LoadDds, LoadExr, LoadRaw,
      LoadJxl, LoadHeif

LEMMA LoadersStart == LoadersInit => LoadersInv
<1> SUFFICES ASSUME LoadersInit PROVE LoadersInv
  OBVIOUS
<1>1. loaded = NullBitmap /\ loaded # Misused /\ stage = "GetImageLoader" /\ m_loader = "closed"
  BY ResultsDiffer DEF LoadersInit
<1> QED
  BY <1>1 DEF LoadersInit, LoadersInv, Inputted, IntactInv, NoticedInv, FailureIsNoticed

LEMMA GetImageLoaderKeeps == LoadersInv /\ GetImageLoader => LoadersInv'
<1> SUFFICES ASSUME LoadersInv, GetImageLoader PROVE LoadersInv'
  OBVIOUS
<1>1. /\ stage = "GetImageLoader" /\ m_loader = "closed" /\ loaded = NullBitmap
      /\ UNCHANGED <<caller, source, m_loader>>
  BY DEF GetImageLoader, LoadersInv, Inputted, NoticedInv
<1>2. PICK valid \in IsValid :
        IF valid THEN stage' = (IF caller.animate THEN "IsAnimated" ELSE "IsHdr") /\ UNCHANGED loaded ELSE End(Failed)
  BY DEF GetImageLoader
<1>3. source.damage = "none" => valid = Readable
  BY <1>1, <1>2, IntactFacts DEF LoadersInv
<1>4. CASE valid
  <2>1. stage' = (IF caller.animate THEN "IsAnimated" ELSE "IsHdr") /\ loaded' = NullBitmap /\ caller.animate \in BOOLEAN
    BY <1>1, <1>2, <1>4, CallerFacts DEF LoadersInv, Inputted
  <2>2. FailureIsNoticed'
    BY <2>1, ResultsDiffer DEF FailureIsNoticed
  <2> QED
    BY <1>1, <1>3, <1>4, <2>1, <2>2 DEF LoadersInv, Inputted, IntactInv, NoticedInv, Readable, Animated
<1>5. CASE ~valid
  <2>1. stage' = "ended" /\ loaded' = Failed
    BY <1>2, <1>5 DEF End
  <2>2. source.damage = "none" => PictureWanted = Failed
    BY <1>3, <1>5 DEF PictureWanted, Readable
  <2>3. source.damage = "none" => PictureWanted' = Failed
    BY <1>1, <2>2 DEF PictureWanted, HoldsHdr
  <2>4. FailureIsNoticed'
    BY <2>1, ResultsDiffer DEF FailureIsNoticed
  <2> QED
    BY <1>1, <2>1, <2>3, <2>4 DEF LoadersInv, Inputted, IntactInv, NoticedInv
<1> QED
  BY <1>4, <1>5

LEMMA AskAnimatedKeeps == LoadersInv /\ AskAnimated => LoadersInv'
<1> SUFFICES ASSUME LoadersInv, AskAnimated PROVE LoadersInv'
  OBVIOUS
<1>1. PICK opened \in OpenedBy({"webp"}) :
        m_loader' = opened /\ stage' = IF IsAnimated(opened) THEN "LoadAnim" ELSE "IsHdr"
  BY DEF AskAnimated
<1>2. /\ stage = "IsAnimated" /\ loaded = NullBitmap /\ caller.animate
      /\ UNCHANGED <<caller, source, loaded>>
  BY DEF AskAnimated, LoadersInv, NoticedInv
<1>3. ASSUME source.damage = "none"
      PROVE  /\ opened \in {"closed", "open"} /\ Readable
             /\ IsAnimated(opened) <=> source.pixels = "anim"
  <2>1. Inputted /\ m_loader \in {"closed", "open"} /\ Readable
    BY <1>2, <1>3 DEF LoadersInv, IntactInv
  <2>2. CASE source.format = "webp"
    BY <1>1, <1>3, <2>1, <2>2, IntactFacts DEF OpenedBy
  <2>3. CASE source.format # "webp"
    BY <1>1, <1>3, <2>1, <2>3, IntactFacts DEF OpenedBy
  <2> QED
    BY <2>1, <2>2, <2>3
<1>4. Inputted'
  BY <1>1, <1>2 DEF LoadersInv, Inputted
<1>5. IntactInv'
  BY <1>1, <1>2, <1>3 DEF IntactInv, Readable, Animated
<1>6. NoticedInv'
  <2>1. FailureIsNoticed'
    BY <1>2, ResultsDiffer DEF FailureIsNoticed
  <2>2. IsAnimated(opened) => source.format = "webp"
    BY DEF IsAnimated
  <2> QED
    BY <1>1, <1>2, <2>1, <2>2 DEF NoticedInv
<1> QED
  BY <1>4, <1>5, <1>6 DEF LoadersInv

LEMMA AskHdrKeeps == LoadersInv /\ AskHdr => LoadersInv'
<1> SUFFICES ASSUME LoadersInv, AskHdr PROVE LoadersInv'
  OBVIOUS
<1> DEFINE Refused(opened) == caller.program = "exrconv" /\ ~IsHdr(opened)
           Asked(opened) == IsHdr(opened) /\ (caller.hdr \/ PreferHdr)
<1>1. PICK opened \in OpenedBy({"jpg", "jxl", "heif"}) :
        /\ m_loader' = opened
        /\ \/ opened = "lost" /\ stage' = "ended" /\ loaded' = Crash
           \/ Refused(opened) /\ stage' = "ended" /\ loaded' = Failed
           \/ Asked(opened) /\ stage' = "LoadHdr" /\ loaded' = loaded
           \/ ~Refused(opened) /\ ~Asked(opened) /\ stage' = "Load" /\ loaded' = loaded
  BY DEF AskHdr, End
<1>2. stage = "IsHdr" /\ loaded = NullBitmap /\ UNCHANGED <<caller, source>>
  BY DEF AskHdr, LoadersInv, NoticedInv
<1>3. /\ caller.program = "exrconv" => caller.hdr /\ ~caller.fd /\ ~caller.animate
      /\ caller.hdr \in BOOLEAN
  BY CallerFacts DEF LoadersInv, Inputted
<1>4. ASSUME source.damage = "none"
      PROVE  /\ opened \in {"closed", "open"} /\ Readable /\ ~Animated
             /\ IsHdr(opened) <=> HoldsHdr
  <2>1. Inputted /\ m_loader \in {"closed", "open"} /\ Readable /\ ~Animated
    BY <1>2, <1>4 DEF LoadersInv, IntactInv
  <2>2. CASE source.format \in {"jpg", "jxl", "heif"}
    BY <1>1, <1>4, <2>1, <2>2, IntactFacts DEF OpenedBy
  <2>3. CASE source.format \notin {"jpg", "jxl", "heif"}
    BY <1>1, <1>4, <2>1, <2>3, IntactFacts DEF OpenedBy
  <2> QED
    BY <2>1, <2>2, <2>3
<1>5. Inputted'
  BY <1>1, <1>2 DEF LoadersInv, Inputted
<1>6. HoldsHdr' = HoldsHdr /\ PreferHdr' = PreferHdr /\ Readable' = Readable /\ Animated' = Animated
  BY <1>2 DEF HoldsHdr, PreferHdr, Readable, Animated
<1>7. IntactInv'
  <2> SUFFICES ASSUME source.damage = "none" PROVE IntactInv'
    BY <1>2 DEF IntactInv
  <2>1. CASE stage' = "ended"
    <3>1. caller.program = "exrconv" /\ ~HoldsHdr /\ loaded' = Failed /\ ~caller.fd /\ ~caller.animate
      BY <1>1, <1>3, <1>4, <2>1
    <3>2. PictureWanted = Failed
      BY <3>1 DEF PictureWanted
    <3>3. PictureWanted' = PictureWanted
      BY <1>2, <1>6 DEF PictureWanted
    <3> QED
      BY <1>1, <1>4, <2>1, <3>1, <3>2, <3>3 DEF IntactInv
  <2>2. CASE stage' = "LoadHdr"
    BY <1>1, <1>2, <1>4, <1>6, <2>2 DEF IntactInv
  <2>3. CASE stage' = "Load"
    BY <1>1, <1>2, <1>3, <1>4, <1>6, <2>3 DEF IntactInv
  <2> QED
    BY <1>1, <2>1, <2>2, <2>3
<1>8. NoticedInv'
  <2>1. loaded' \in {Crash, Failed, NullBitmap}
    BY <1>1, <1>2
  <2>2. FailureIsNoticed'
    BY <2>1, ResultsDiffer DEF FailureIsNoticed
  <2>3. IsHdr(opened) => source.format \in {"jpg", "heif", "jxl", "stb", "exr", "raw"}
    BY FileFacts DEF LoadersInv, Inputted, IsHdr, Sensible
  <2> QED
    BY <1>1, <1>2, <1>6, <2>2, <2>3 DEF NoticedInv
<1> QED
  BY <1>5, <1>7, <1>8 DEF LoadersInv

\* What a call for a picture ends in.
LEMMA Ended ==
    ASSUME LoadersInv, NEW result, stage' = "ended", loaded' = result,
           UNCHANGED <<caller, source, m_loader>>, stage # "GetImageLoader", stage # "ended",
           source.damage = "none" /\ ~HeifUnsupported => result = PictureWanted,
           result = Misused => Unnoticed
    PROVE  LoadersInv'
<1>1. Inputted'
  BY DEF LoadersInv, Inputted
<1>2. HeifUnsupported' = HeifUnsupported /\ PictureWanted' = PictureWanted
  BY DEF HeifUnsupported, PictureWanted, HoldsHdr
<1>3. IntactInv'
  BY <1>2 DEF LoadersInv, IntactInv
<1>4. NoticedInv'
  BY DEF NoticedInv, FailureIsNoticed, Unnoticed
<1> QED
  BY <1>1, <1>3, <1>4 DEF LoadersInv

LEMMA CallLoadKeeps == LoadersInv /\ CallLoad => LoadersInv'
<1> SUFFICES ASSUME LoadersInv, CallLoad PROVE LoadersInv'
  OBVIOUS
<1>1. PICK result \in Load : loaded' = IF result = NullBitmap THEN Failed ELSE result
  BY DEF CallLoad, End
<1>2. stage = "Load" /\ stage' = "ended" /\ UNCHANGED <<caller, source, m_loader>>
  BY DEF CallLoad, End
<1>3. ASSUME source.damage = "none" PROVE loaded' = PictureWanted
  <2>1. /\ m_loader \in {"closed", "open"} /\ Readable /\ ~Animated
        /\ caller.program # "exrconv" /\ ~(HoldsHdr /\ caller.hdr) /\ Inputted
    BY <1>2, <1>3 DEF LoadersInv, IntactInv
  <2>2. loaded' = Sdr
    BY <1>1, <1>3, <2>1, IntactLoad, ResultsDiffer
  <2>3. PictureWanted = Sdr
    BY <2>1 DEF PictureWanted, Readable, Animated
  <2> QED
    BY <2>2, <2>3
<1>4. loaded' = Misused => Unnoticed
  <2>1. loaded' = Misused => Misused \in Load
    BY <1>1, ResultsDiffer
  <2> QED
    BY <2>1, LoadMisuses DEF LoadersInv, Inputted, Unnoticed
<1> QED
  BY <1>2, <1>3, <1>4, Ended

LEMMA CallLoadHdrKeeps == LoadersInv /\ CallLoadHdr => LoadersInv'
<1> SUFFICES ASSUME LoadersInv, CallLoadHdr PROVE LoadersInv'
  OBVIOUS
<1> DEFINE asked == IF caller.program = "iv" /\ caller.hdr THEN "bt2020" ELSE "bt709"
<1>1. PICK result \in LoadHdr(asked) :
        loaded' = CASE result = Crash -> Crash
                    [] result = NullBitmap -> NoPicture
                    [] OTHER -> IF caller.hdr THEN result ELSE Sdr
  BY DEF CallLoadHdr, End
<1>2. stage = "LoadHdr" /\ stage' = "ended" /\ UNCHANGED <<caller, source, m_loader>>
  BY DEF CallLoadHdr, End
<1>3. ASSUME source.damage = "none", ~HeifUnsupported PROVE loaded' = PictureWanted
  <2>1. Readable /\ ~Animated /\ HoldsHdr /\ (caller.hdr \/ PreferHdr) /\ Inputted
    BY <1>2, <1>3 DEF LoadersInv, IntactInv
  <2>2. result = Hdr(asked)
    BY <1>1, <1>3, <2>1, IntactLoadHdr
  <2>3. loaded' = IF caller.hdr THEN Hdr(asked) ELSE Sdr
    BY <1>1, <2>2, ResultsDiffer
  <2>4. PictureWanted = IF caller.hdr THEN Hdr(asked) ELSE Sdr
    BY <2>1, CallerFacts DEF PictureWanted, Readable, Animated, Inputted
  <2> QED
    BY <2>3, <2>4
<1>4. loaded' = Misused => Unnoticed
  <2>1. caller \in Callers /\ source \in Inputs /\ (caller.hdr \/ PreferHdr)
    BY <1>2 DEF LoadersInv, Inputted, NoticedInv
  <2>2. Misused \notin LoadHdr(asked)
    <3>1. Misused # SetupDecode(asked)
      BY ResultsDiffer DEF SetupDecode
    <3>2. /\ Misused \notin Checked(Hdr(asked)) /\ Misused \notin Careless(Hdr(asked))
          /\ Misused \notin Trusting(Hdr(asked)) /\ Misused \notin WithMap(Hdr(asked))
          /\ Misused \notin WithMap(SetupDecode(asked))
      BY <3>1, ResultsDiffer DEF Checked, Careless, Trusting, WithMap
    <3>3. source.format \in {"jpg", "heif", "jxl", "stb", "exr", "raw"}
      BY <1>2 DEF LoadersInv, NoticedInv
    <3> QED
      BY <3>2, <3>3
      DEF LoadHdr, LoadHdrJpg, LoadHdrHeif, LoadHdrJxl, LoadHdrStb, LoadHdrExr, LoadHdrRaw
  <2>3. NoPicture = Misused => ~caller.hdr /\ PreferHdr
    BY <2>1, ResultsDiffer, CallerFacts DEF NoPicture
  <2>4. loaded' = Misused => NoPicture = Misused
    BY <1>1, <2>2, ResultsDiffer
  <2> QED
    BY <2>3, <2>4 DEF PreferHdr, Unnoticed
<1> QED
  BY <1>2, <1>3, <1>4, Ended

LEMMA CallLoadAnimKeeps == LoadersInv /\ CallLoadAnim => LoadersInv'
<1> SUFFICES ASSUME LoadersInv, CallLoadAnim PROVE LoadersInv'
  OBVIOUS
<1>1. PICK result \in LoadAnim : loaded' = IF result = NoFrames THEN Misused ELSE result
  BY DEF CallLoadAnim, End
<1>2. stage = "LoadAnim" /\ stage' = "ended" /\ UNCHANGED <<caller, source, m_loader>>
  BY DEF CallLoadAnim, End
<1>3. ASSUME source.damage = "none" PROVE loaded' = PictureWanted
  <2>1. Animated /\ Readable
    BY <1>2, <1>3 DEF LoadersInv, IntactInv
  <2>2. loaded' = Picture("anim", "bt709")
    BY <1>1, <1>3, ResultsDiffer DEF LoadAnim, Damaged
  <2>3. PictureWanted = Picture("anim", "bt709")
    BY <2>1 DEF PictureWanted, Readable, Animated
  <2> QED
    BY <2>2, <2>3
<1>4. Unnoticed
  BY <1>2 DEF LoadersInv, NoticedInv, Unnoticed
<1> QED
  BY <1>2, <1>3, <1>4, Ended

LEMMA LoadersKeep == LoadersInv /\ [LoadersNext]_loaderVars => LoadersInv'
<1>1. LoadersInv /\ UNCHANGED loaderVars => LoadersInv'
  BY DEF loaderVars, LoadersInv, Inputted, IntactInv, NoticedInv, Readable, Animated, HoldsHdr, PreferHdr,
         HeifUnsupported, PictureWanted, FailureIsNoticed, Unnoticed
<1> QED
  BY <1>1, GetImageLoaderKeeps, AskAnimatedKeeps, AskHdrKeeps, CallLoadKeeps, CallLoadHdrKeeps,
     CallLoadAnimKeeps DEF LoadersNext

LEMMA LoadersAlways == LoadersInit /\ [][LoadersNext]_loaderVars => []LoadersInv
BY LoadersStart, LoadersKeep, PTL

\* IntactIsShown: through whichever calls, a program gets from an intact file the
\* picture it needs, in the colour space it asked for.
THEOREM IntactFilesAreShown == LoadersInit /\ [][LoadersNext]_loaderVars => []IntactIsShown
<1>1. LoadersInv => IntactIsShown
  BY DEF LoadersInv, IntactInv, IntactIsShown
<1> QED
  BY <1>1, LoadersAlways, PTL

\* FailureIsNoticed: however a file is damaged, no program and no loader uses
\* what a failed call did not give, but for the calls that Unnoticed names.
THEOREM FailuresAreNoticed == LoadersInit /\ [][LoadersNext]_loaderVars => []FailureIsNoticed
<1>1. LoadersInv => FailureIsNoticed
  BY DEF LoadersInv, NoticedInv
<1> QED
  BY <1>1, LoadersAlways, PTL
=============================================================================

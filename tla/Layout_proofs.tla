---------------------------- MODULE Layout_proofs ----------------------------
(***************************************************************************)
(* Proofs about the intermediate configuration: how products are cut into  *)
(* tiles, where tensors lie, and that the tiles written for the rows        *)
(* contain what the rows use.                                              *)
(***************************************************************************)
EXTENDS TileGen_proofs

-----------------------------------------------------------------------------
(* A matrix cut in both dimensions: bands of rows, the parts of one band    *)
(* one behind the other. Where a cell begins, and its elements.            *)
CellStart(s, A, k, B, i, j) == (s * i) * B + Part(i, s, A) * (k * j)
CellSize(s, A, k, B, i, j) == Part(i, s, A) * Part(j, k, B)
Cell(s, A, k, B, base, u, i, j) ==
  base + CellStart(s, A, k, B, i, j) * u ..
    base + CellStart(s, A, k, B, i, j) * u + CellSize(s, A, k, B, i, j) * u - 1

(* A cell in bytes: behind the bands before it, and the parts before it in  *)
(* its own band.                                                           *)
LEMMA CellInBand ==
  ASSUME NEW s \in Pos, NEW A \in Pos, NEW k \in Pos, NEW B \in Pos, NEW u \in Pos,
         NEW i \in Bands(s, A), NEW j \in Bands(k, B)
  PROVE  LET c == B * u
             d == Part(i, s, A) * u
             from == (s * i) * c + (k * j) * d
         IN /\ c \in Pos /\ d \in Pos /\ B * d = Part(i, s, A) * c
            /\ CellStart(s, A, k, B, i, j) \in Nat
            /\ CellStart(s, A, k, B, i, j) * u = from
            /\ CellSize(s, A, k, B, i, j) \in Pos
            /\ CellSize(s, A, k, B, i, j) * u = Part(j, k, B) * d
            /\ (A * B) * u = A * c
<1> DEFINE p == Part(i, s, A)
           q == Part(j, k, B)
           x == s * i
           y == k * j
<1>1. x \in Nat /\ p \in Pos /\ y \in Nat /\ q \in Pos
  BY PartSize DEF Bands, Pos
<1> HIDE DEF p, q, x, y
<1>2. B * u \in Pos /\ p * u \in Pos /\ p * q \in Pos
  BY <1>1, PosProduct
<1>3. x * B \in Nat /\ p * y \in Nat
  BY <1>1, NatProduct DEF Pos
<1>4. B * (p * u) = p * (B * u)
  BY <1>1 DEF Pos
<1>5. (x * B + p * y) * u = x * (B * u) + y * (p * u)
  <2>1. (x * B + p * y) * u = (x * B) * u + (p * y) * u
    BY <1>3, Distributes DEF Pos
  <2>2. (x * B) * u = x * (B * u)
    BY <1>1, Associates DEF Pos
  <2>3. (p * y) * u = y * (p * u)
    BY <1>1 DEF Pos
  <2> QED BY <2>1, <2>2, <2>3
<1>6. (p * q) * u = q * (p * u)
  BY <1>1 DEF Pos
<1>7. (A * B) * u = A * (B * u)
  BY Associates DEF Pos
<1> QED BY <1>1, <1>2, <1>3, <1>4, <1>5, <1>6, <1>7 DEF p, q, x, y, CellStart, CellSize

(* Cells are not empty, lie in the matrix, cover it, and have no element in *)
(* common.                                                                 *)
LEMMA CellsInside ==
  ASSUME NEW s \in Pos, NEW A \in Pos, NEW k \in Pos, NEW B \in Pos, NEW u \in Pos, NEW base \in Int,
         NEW i \in Bands(s, A), NEW j \in Bands(k, B)
  PROVE  /\ Cell(s, A, k, B, base, u, i, j) # {}
         /\ Cell(s, A, k, B, base, u, i, j) \subseteq base .. base + (A * B) * u - 1
<1> DEFINE c == B * u
           d == Part(i, s, A) * u
           start == CellStart(s, A, k, B, i, j) * u
           size == CellSize(s, A, k, B, i, j) * u
<1>1. /\ c \in Pos /\ d \in Pos /\ B * d = Part(i, s, A) * c /\ (A * B) * u = A * c
      /\ start = (s * i) * c + (k * j) * d /\ size = Part(j, k, B) * d
  BY CellInBand
<1>2. (s * i) * c \in Nat /\ (s * i) * c + Part(i, s, A) * c <= A * c /\ Part(i, s, A) * c \in Pos
  BY <1>1, PartsInOrder DEF Bands
<1>3. /\ (k * j) * d \in Nat /\ (k * j) * d + Part(j, k, B) * d <= B * d
      /\ Part(j, k, B) * d \in Pos
  BY <1>1, PartsInOrder DEF Bands
<1> HIDE DEF c, d
<1>4. start \in Nat /\ size \in Pos /\ start + size <= (A * B) * u /\ A * c \in Int
  BY <1>1, <1>2, <1>3 DEF Pos
<1> HIDE DEF start, size
<1>5. Cell(s, A, k, B, base, u, i, j) = base + start .. base + start + size - 1
  BY DEF Cell, start, size
<1> DEFINE total == (A * B) * u
<1>6. base + start \in base + start .. base + start + size - 1
  BY <1>4 DEF Pos
<1>7. start + size <= total /\ total \in Int
  BY <1>1, <1>4
<1> HIDE DEF total
<1>8. base + start .. base + start + size - 1 \subseteq base .. base + total - 1
  BY <1>4, <1>7 DEF Pos
<1> QED BY <1>5, <1>6, <1>8 DEF total

(* The cells of a matrix cover it.                                         *)
LEMMA CellsCover ==
  ASSUME NEW s \in Pos, NEW A \in Pos, NEW k \in Pos, NEW B \in Pos, NEW u \in Pos, NEW base \in Int,
         NEW x \in base .. base + (A * B) * u - 1
  PROVE  \E i \in Bands(s, A), j \in Bands(k, B) : x \in Cell(s, A, k, B, base, u, i, j)
<1> DEFINE c == B * u
           z == x - base
<1>1. c \in Pos /\ (A * B) * u = A * c
  BY PosProduct, Associates DEF Pos
<1>2. A * c \in Int
  BY <1>1 DEF Pos
<1> HIDE DEF c
<1>3. z \in Nat /\ z < A * c /\ x = base + z
  BY <1>1, <1>2
<1> HIDE DEF z
<1>4. PICK i \in Bands(s, A) : (s * i) * c <= z /\ z < (s * i) * c + Part(i, s, A) * c
  BY <1>1, <1>3, PartsFill DEF Bands
<1> DEFINE d == Part(i, s, A) * u
           y == z - (s * i) * c
<1>5. /\ d \in Pos /\ B * d = Part(i, s, A) * c /\ (s * i) * c \in Nat
      /\ Part(i, s, A) * c \in Pos
  <2>1. Part(i, s, A) \in Pos
    BY PartSize DEF Bands, Pos
  <2>2. d \in Pos /\ B * d = Part(i, s, A) * c
    BY <2>1, PosProduct DEF c, Pos
  <2> QED BY <1>1, <2>2, PartsInOrder DEF Bands
<1> HIDE DEF d
<1>6. y \in Nat /\ y < B * d /\ z = (s * i) * c + y
  BY <1>3, <1>4, <1>5 DEF Pos
<1> HIDE DEF y
<1>7. PICK j \in Bands(k, B) : (k * j) * d <= y /\ y < (k * j) * d + Part(j, k, B) * d
  BY <1>5, <1>6, PartsFill DEF Bands
<1>8. /\ CellStart(s, A, k, B, i, j) * u = (s * i) * c + (k * j) * d
      /\ CellSize(s, A, k, B, i, j) * u = Part(j, k, B) * d
  BY CellInBand DEF c, d
<1>9. (k * j) * d \in Nat /\ Part(j, k, B) * d \in Pos
  BY <1>5, PartsInOrder DEF Bands
<1>10. x \in base + ((s * i) * c + (k * j) * d) ..
               base + ((s * i) * c + (k * j) * d) + Part(j, k, B) * d - 1
  BY <1>3, <1>5, <1>6, <1>7, <1>9 DEF Pos
<1> QED BY <1>8, <1>10 DEF Cell

(* Two cells of a matrix have nothing in common.                           *)
LEMMA CellsApart ==
  ASSUME NEW s \in Pos, NEW A \in Pos, NEW k \in Pos, NEW B \in Pos, NEW u \in Pos, NEW base \in Int,
         NEW i \in Bands(s, A), NEW j \in Bands(k, B),
         NEW m \in Bands(s, A), NEW n \in Bands(k, B), i # m \/ j # n
  PROVE  Cell(s, A, k, B, base, u, i, j) \cap Cell(s, A, k, B, base, u, m, n) = {}
<1> DEFINE start(x, y) == CellStart(s, A, k, B, x, y) * u
           size(x, y) == CellSize(s, A, k, B, x, y) * u
           c == B * u
           d(x) == Part(x, s, A) * u
<1>1. ASSUME NEW x \in Bands(s, A), NEW y \in Bands(k, B)
      PROVE  /\ c \in Pos /\ d(x) \in Pos /\ B * d(x) = Part(x, s, A) * c
             /\ start(x, y) = (s * x) * c + (k * y) * d(x) /\ size(x, y) = Part(y, k, B) * d(x)
             /\ start(x, y) \in Nat /\ size(x, y) \in Pos
  <2>1. /\ c \in Pos /\ d(x) \in Pos /\ B * d(x) = Part(x, s, A) * c
        /\ start(x, y) = (s * x) * c + (k * y) * d(x) /\ size(x, y) = Part(y, k, B) * d(x)
        /\ CellStart(s, A, k, B, x, y) \in Nat /\ CellSize(s, A, k, B, x, y) \in Pos
    BY CellInBand
  <2> QED BY <2>1, NatProduct, PosProduct DEF Pos
<1> HIDE DEF start, size, c, d
<1>2. ASSUME NEW x \in Bands(s, A), NEW y \in Bands(k, B),
             NEW v \in Bands(s, A), NEW w \in Bands(k, B), x < v
      PROVE  start(x, y) + size(x, y) <= start(v, w)
  <2>1. (s * x) * c + Part(x, s, A) * c <= (s * v) * c
        /\ (s * x) * c \in Nat /\ Part(x, s, A) * c \in Pos
    BY <1>1, <1>2, PartsInOrder DEF Bands
  <2>2. /\ (k * y) * d(x) + Part(y, k, B) * d(x) <= B * d(x)
        /\ (k * y) * d(x) \in Nat /\ Part(y, k, B) * d(x) \in Pos
    BY <1>1, PartsInOrder DEF Bands
  <2>3. (k * w) * d(v) \in Nat /\ (s * v) * c \in Nat
    BY <1>1, PartsInOrder DEF Bands
  <2> QED BY <1>1, <2>1, <2>2, <2>3 DEF Pos
<1>3. ASSUME NEW x \in Bands(s, A), NEW y \in Bands(k, B), NEW w \in Bands(k, B), y < w
      PROVE  start(x, y) + size(x, y) <= start(x, w)
  <2>1. /\ (k * y) * d(x) + Part(y, k, B) * d(x) <= (k * w) * d(x)
        /\ (k * y) * d(x) \in Nat /\ Part(y, k, B) * d(x) \in Pos
    BY <1>1, <1>3, PartsInOrder DEF Bands
  <2>2. (s * x) * c \in Nat /\ (k * w) * d(x) \in Nat
    BY <1>1, PartsInOrder DEF Bands
  <2> QED BY <1>1, <2>1, <2>2 DEF Pos
<1>4. i \in Int /\ j \in Int /\ m \in Int /\ n \in Int
  BY DEF Bands
<1>5. start(i, j) + size(i, j) <= start(m, n) \/ start(m, n) + size(m, n) <= start(i, j)
  BY <1>2, <1>3, <1>4
<1>6. start(i, j) \in Nat /\ size(i, j) \in Pos /\ start(m, n) \in Nat /\ size(m, n) \in Pos
  BY <1>1
<1>7. (base + start(i, j) .. base + start(i, j) + size(i, j) - 1)
        \cap (base + start(m, n) .. base + start(m, n) + size(m, n) - 1) = {}
  BY <1>5, <1>6 DEF Pos
<1> QED BY <1>7 DEF Cell, start, size

-----------------------------------------------------------------------------
(* The running sums of the offsets are where the cells begin.              *)
LEMMA CellsFollow ==
  ASSUME NEW s \in Pos, NEW A \in Pos, NEW k \in Pos, NEW B \in Pos,
         NEW i \in Bands(s, A), NEW j \in Bands(k, B)
  PROVE  LET next == CellStart(s, A, k, B, i, j) + CellSize(s, A, k, B, i, j)
         IN /\ CellStart(s, A, k, B, i, j) \in Nat
            /\ CellStart(s, A, k, B, i, 0) = (s * i) * B
            /\ j # CeilDiv(B, k) - 1 => next = CellStart(s, A, k, B, i, j + 1)
            /\ j = CeilDiv(B, k) - 1 /\ i # CeilDiv(A, s) - 1 => next = (s * (i + 1)) * B
<1> DEFINE p == Part(i, s, A)
           q == Part(j, k, B)
           x == s * i
           y == k * j
<1>1. /\ x \in Nat /\ p \in Pos /\ y \in Nat /\ q \in Pos
      /\ i # CeilDiv(A, s) - 1 => p = s
      /\ q = IF j = CeilDiv(B, k) - 1 THEN B - y ELSE k
  BY PartSize DEF Bands, Pos
<1>2. k * (j + 1) = y + k /\ s * (i + 1) = x + s
  BY DEF Bands, Pos
<1> HIDE DEF p, q, x, y
<1>3. x * B \in Nat /\ p * y \in Nat
  BY <1>1, NatProduct DEF Pos
<1>4. p * (k * 0) = 0
  <2>1. k * 0 = 0 /\ p * 0 = 0
    BY <1>1 DEF Pos
  <2> QED BY <2>1
<1>5. j # CeilDiv(B, k) - 1 => p * y + p * q = p * (y + k)
  BY <1>1, Distributes DEF Pos
<1>6. j = CeilDiv(B, k) - 1 => p * y + p * q = p * B
  <2>1. p * (y + q) = p * y + p * q
    BY <1>1, Distributes DEF Pos
  <2>2. j = CeilDiv(B, k) - 1 => y + q = B
    BY <1>1 DEF Pos
  <2> QED BY <2>1, <2>2
<1>7. (x + s) * B = x * B + s * B
  BY <1>1, Distributes DEF Pos
<1>8. p * q \in Int /\ p * (y + k) \in Int /\ s * B \in Int
  BY <1>1 DEF Pos
<1>9. CellStart(s, A, k, B, i, j) = x * B + p * y
  BY DEF CellStart, p, x, y
<1>10. CellSize(s, A, k, B, i, j) = p * q
  BY DEF CellSize, p, q
<1>11. CellStart(s, A, k, B, i, 0) = x * B + p * (k * 0)
  BY DEF CellStart, p, x
<1>12. CellStart(s, A, k, B, i, j + 1) = x * B + p * (y + k)
  BY <1>2 DEF CellStart, p, x
<1>13. (s * (i + 1)) * B = x * B + s * B
  BY <1>2, <1>7
<1>14. i # CeilDiv(A, s) - 1 => p * B = s * B
  BY <1>1
<1> DEFINE next == CellStart(s, A, k, B, i, j) + CellSize(s, A, k, B, i, j)
<1>15. next = x * B + (p * y + p * q)
  BY <1>3, <1>8, <1>9, <1>10
<1> HIDE DEF next
<1>16. j # CeilDiv(B, k) - 1 => next = CellStart(s, A, k, B, i, j + 1)
  BY <1>5, <1>12, <1>15
<1>17. j = CeilDiv(B, k) - 1 /\ i # CeilDiv(A, s) - 1 => next = (s * (i + 1)) * B
  BY <1>6, <1>13, <1>14, <1>15
<1>18. CellStart(s, A, k, B, i, j) \in Nat /\ CellStart(s, A, k, B, i, 0) = (s * i) * B
  BY <1>3, <1>4, <1>9, <1>11 DEF x
<1> QED BY <1>16, <1>17, <1>18 DEF next

(* The sizes of a product and of its tiles.                                *)
Sized(l, shape) ==
  /\ l.ifmap_height \in Pos /\ l.ifmap_width \in Pos /\ l.filter_width \in Pos
  /\ shape.height \in Pos /\ shape.width \in Pos /\ shape.filter_width \in Pos
BandsOf(l, shape) == CeilDiv(l.ifmap_height, shape.height)
DepthsOf(l, shape) == CeilDiv(l.ifmap_width, shape.width)
ColumnsOf(l, shape) == CeilDiv(l.filter_width, shape.filter_width)

(* A tile by its place, and the offset to which the results return.        *)
TileSize(l, shape, i, j, k) ==
  [h |-> Part(i, shape.height, l.ifmap_height),
   w |-> Part(j, shape.width, l.ifmap_width),
   f |-> Part(k, shape.filter_width, l.filter_width)]
TileOffset(l, shape, i, j, k) ==
  [ifmap |-> CellStart(shape.height, l.ifmap_height, shape.width, l.ifmap_width, i, j),
   filter |-> CellStart(shape.width, l.ifmap_width, shape.filter_width, l.filter_width, j, k),
   ofmap |-> CellStart(shape.height, l.ifmap_height, shape.filter_width, l.filter_width, i, k),
   prev |-> (shape.height * i) * l.filter_width]
SizeAt(l, shape, m) ==
  LET J == DepthsOf(l, shape)
      K == ColumnsOf(l, shape)
  IN TileSize(l, shape, Band(J, K, m), Depth(J, K, m), Column(K, m))
OffsetAt(l, shape, m) ==
  LET J == DepthsOf(l, shape)
      K == ColumnsOf(l, shape)
  IN TileOffset(l, shape, Band(J, K, m), Depth(J, K, m), Column(K, m))
NumberOfTiles(l, shape) == BandsOf(l, shape) * DepthsOf(l, shape) * ColumnsOf(l, shape)

(* Offsets by place satisfy the equation of the running sums: what comes    *)
(* behind a tile, within the columns, and at the ends of both loops.       *)
OffsetBehind(l, shape, m, before, s) ==
  LET J == DepthsOf(l, shape)
      K == ColumnsOf(l, shape)
      endK == m % K = 0
      endJ == m % (J * K) = 0
      ofmap == before.ofmap + s.h * s.f
  IN [ifmap |-> before.ifmap + IF endK THEN s.h * s.w ELSE 0,
      filter |-> IF endJ THEN 0 ELSE before.filter + s.w * s.f,
      ofmap |-> IF endK /\ Rewinds(endJ) THEN before.prev ELSE ofmap,
      prev |-> IF endJ THEN ofmap ELSE before.prev]

(* Every product has a tile in each of the three dimensions.               *)
LEMMA CountsOfTiles ==
  ASSUME NEW l, NEW shape, Sized(l, shape)
  PROVE  /\ BandsOf(l, shape) \in Pos /\ DepthsOf(l, shape) \in Pos /\ ColumnsOf(l, shape) \in Pos
         /\ NumberOfTiles(l, shape) \in Pos
<1>1. /\ BandsOf(l, shape) \in Pos /\ DepthsOf(l, shape) \in Pos /\ ColumnsOf(l, shape) \in Pos
  BY CeilDivBounds DEF Sized, BandsOf, DepthsOf, ColumnsOf
<1> QED BY <1>1, PosProduct DEF NumberOfTiles

(* The offsets by place satisfy the equation of the running sums.          *)
LEMMA OffsetsFollow ==
  ASSUME NEW l, NEW shape, Sized(l, shape), NEW m \in 1 .. NumberOfTiles(l, shape) - 1
  PROVE  OffsetAt(l, shape, m)
           = OffsetBehind(l, shape, m, OffsetAt(l, shape, m - 1), SizeAt(l, shape, m - 1))
<1> DEFINE H == l.ifmap_height
           W == l.ifmap_width
           F == l.filter_width
           h == shape.height
           w == shape.width
           f == shape.filter_width
           I == BandsOf(l, shape)
           J == DepthsOf(l, shape)
           K == ColumnsOf(l, shape)
           i == Band(J, K, m)
           j == Depth(J, K, m)
           k == Column(K, m)
           behind(x, y, z) == OffsetBehind(l, shape, m, TileOffset(l, shape, x, y, z),
                                           TileSize(l, shape, x, y, z))
<1>1. I \in Pos /\ J \in Pos /\ K \in Pos /\ m \in 0 .. I * J * K - 1 /\ m # 0
  BY CountsOfTiles DEF NumberOfTiles, Pos
<1>2. /\ H \in Pos /\ W \in Pos /\ F \in Pos /\ h \in Pos /\ w \in Pos /\ f \in Pos
      /\ I = CeilDiv(H, h) /\ J = CeilDiv(W, w) /\ K = CeilDiv(F, f)
  BY DEF Sized, BandsOf, DepthsOf, ColumnsOf
<1> HIDE DEF H, W, F, h, w, f, I, J, K
<1>3. i \in 0 .. I - 1 /\ j \in 0 .. J - 1 /\ k \in 0 .. K - 1
  BY <1>1, NumberOfDigits
<1>4. /\ (m % K = 0) = (k = 0)
      /\ (m % (J * K) = 0) = (j = 0 /\ k = 0)
      /\ k # 0 => /\ Band(J, K, m - 1) = i /\ Depth(J, K, m - 1) = j
                  /\ Column(K, m - 1) = k - 1
      /\ k = 0 /\ j # 0 => /\ Band(J, K, m - 1) = i /\ Depth(J, K, m - 1) = j - 1
                           /\ Column(K, m - 1) = K - 1
      /\ k = 0 /\ j = 0 => /\ Band(J, K, m - 1) = i - 1 /\ Depth(J, K, m - 1) = J - 1
                           /\ Column(K, m - 1) = K - 1 /\ i # 0
  BY <1>1, NextNumber
<1>5. OffsetAt(l, shape, m) = TileOffset(l, shape, i, j, k)
  BY DEF OffsetAt, i, j, k, J, K
<1>6. OffsetBehind(l, shape, m, OffsetAt(l, shape, m - 1), SizeAt(l, shape, m - 1))
        = behind(Band(J, K, m - 1), Depth(J, K, m - 1), Column(K, m - 1))
  BY DEF OffsetAt, SizeAt, J, K
<1> HIDE DEF i, j, k
<1>7. ASSUME NEW x, NEW y, NEW z
      PROVE  /\ TileOffset(l, shape, x, y, z)
                  = [ifmap |-> CellStart(h, H, w, W, x, y), filter |-> CellStart(w, W, f, F, y, z),
                     ofmap |-> CellStart(h, H, f, F, x, z), prev |-> (h * x) * F]
             /\ behind(x, y, z)
                  = LET ofmap == CellStart(h, H, f, F, x, z) + CellSize(h, H, f, F, x, z)
                    IN [ifmap |-> CellStart(h, H, w, W, x, y)
                                    + IF k = 0 THEN CellSize(h, H, w, W, x, y) ELSE 0,
                        filter |-> IF j = 0 /\ k = 0 THEN 0
                                   ELSE CellStart(w, W, f, F, y, z) + CellSize(w, W, f, F, y, z),
                        ofmap |-> IF k = 0 /\ j # 0 THEN (h * x) * F ELSE ofmap,
                        prev |-> IF j = 0 /\ k = 0 THEN ofmap ELSE (h * x) * F]
  <2>1. TileOffset(l, shape, x, y, z)
                  = [ifmap |-> CellStart(h, H, w, W, x, y), filter |-> CellStart(w, W, f, F, y, z),
                     ofmap |-> CellStart(h, H, f, F, x, z), prev |-> (h * x) * F]
    BY DEF TileOffset, h, H, w, W, f, F
  <2>2. TileSize(l, shape, x, y, z) = [h |-> Part(x, h, H), w |-> Part(y, w, W), f |-> Part(z, f, F)]
    BY DEF TileSize, h, H, w, W, f, F
  <2> QED BY <1>4, <2>1, <2>2 DEF OffsetBehind, CellSize, Rewinds, J, K
<1> HIDE DEF behind
<1>8. CASE k # 0
  <2>1. k - 1 \in 0 .. K - 1 /\ k - 1 # K - 1 /\ (k - 1) + 1 = k
    BY <1>1, <1>3, <1>8 DEF Pos
  <2>2. CellStart(w, W, f, F, j, k) = CellStart(w, W, f, F, j, k - 1) + CellSize(w, W, f, F, j, k - 1)
    BY <1>2, <1>3, <2>1, CellsFollow DEF Bands
  <2>3. CellStart(h, H, f, F, i, k) = CellStart(h, H, f, F, i, k - 1) + CellSize(h, H, f, F, i, k - 1)
    BY <1>2, <1>3, <2>1, CellsFollow DEF Bands
  <2>4. CellStart(h, H, w, W, i, j) \in Nat
    BY <1>2, <1>3, CellsFollow DEF Bands
  <2>5. behind(i, j, k - 1) = TileOffset(l, shape, i, j, k)
    BY <1>7, <1>8, <2>2, <2>3, <2>4
  <2> QED BY <1>4, <1>5, <1>6, <1>8, <2>5
<1>9. CASE k = 0 /\ j # 0
  <2>1. /\ j - 1 \in 0 .. J - 1 /\ j - 1 # J - 1 /\ (j - 1) + 1 = j
        /\ K - 1 \in 0 .. K - 1
    BY <1>1, <1>3, <1>9 DEF Pos
  <2>2. CellStart(h, H, w, W, i, j) = CellStart(h, H, w, W, i, j - 1) + CellSize(h, H, w, W, i, j - 1)
    BY <1>2, <1>3, <2>1, CellsFollow DEF Bands
  <2>3. CellStart(w, W, f, F, j - 1, K - 1) + CellSize(w, W, f, F, j - 1, K - 1) = (w * j) * F
    BY <1>2, <1>3, <2>1, CellsFollow, SMTT(30) DEF Bands
  <2>4. CellStart(w, W, f, F, j, 0) = (w * j) * F /\ CellStart(h, H, f, F, i, 0) = (h * i) * F
    BY <1>2, <1>3, <1>9, CellsFollow, SMTT(30) DEF Bands
  <2>5. behind(i, j - 1, K - 1) = TileOffset(l, shape, i, j, k)
    BY <1>7, <1>9, <2>2, <2>3, <2>4
  <2> QED BY <1>4, <1>5, <1>6, <1>9, <2>5
<1>10. CASE k = 0 /\ j = 0
  <2>1. /\ i - 1 \in 0 .. I - 1 /\ i - 1 # I - 1 /\ (i - 1) + 1 = i
        /\ J - 1 \in 0 .. J - 1 /\ K - 1 \in 0 .. K - 1
    BY <1>1, <1>3, <1>4, <1>10 DEF Pos
  <2>2. /\ CellStart(h, H, w, W, i - 1, J - 1) + CellSize(h, H, w, W, i - 1, J - 1) = (h * i) * W
        /\ CellStart(h, H, f, F, i - 1, K - 1) + CellSize(h, H, f, F, i - 1, K - 1) = (h * i) * F
    BY <1>2, <1>3, <2>1, CellsFollow, SMTT(30) DEF Bands
  <2>3. /\ CellStart(h, H, w, W, i, 0) = (h * i) * W /\ CellStart(h, H, f, F, i, 0) = (h * i) * F
        /\ CellStart(w, W, f, F, 0, 0) = (w * 0) * F
    BY <1>2, <1>3, <1>10, CellsFollow DEF Bands
  <2>4. (w * 0) * F = 0
    BY <1>2 DEF Pos
  <2>5. behind(i - 1, J - 1, K - 1) = TileOffset(l, shape, i, j, k)
    BY <1>7, <1>10, <2>2, <2>3, <2>4
  <2> QED BY <1>4, <1>5, <1>6, <1>10, <2>5
<1> QED BY <1>8, <1>9, <1>10

(* The tiles by place. Their offsets are defined by recursion; those by     *)
(* place solve its equation, and no other function does.                   *)
LEMMA TilesPlaced ==
  ASSUME NEW l, NEW shape, Sized(l, shape)
  PROVE  Tiles(l, shape) = [n \in 1 .. NumberOfTiles(l, shape) |->
                             [size |-> SizeAt(l, shape, n - 1), offset |-> OffsetAt(l, shape, n - 1)]]
<1> DEFINE I == BandsOf(l, shape)
           J == DepthsOf(l, shape)
           K == ColumnsOf(l, shape)
           N == NumberOfTiles(l, shape)
           sizes == [n \in 0 .. N - 1 |-> SizeAt(l, shape, n)]
           Offsets(h) == h = [n \in DOMAIN sizes |->
             IF n = 0 THEN [ifmap |-> 0, filter |-> 0, ofmap |-> 0, prev |-> 0]
             ELSE LET before == h[n - 1]
                      s == sizes[n - 1]
                      endK == n % K = 0
                      endJ == n % (J * K) = 0
                      ofmap == before.ofmap + s.h * s.f
                  IN [ifmap |-> before.ifmap + IF endK THEN s.h * s.w ELSE 0,
                      filter |-> IF endJ THEN 0 ELSE before.filter + s.w * s.f,
                      ofmap |-> IF endK /\ Rewinds(endJ) THEN before.prev ELSE ofmap,
                      prev |-> IF endJ THEN ofmap ELSE before.prev]]
           placed == [n \in 0 .. N - 1 |-> OffsetAt(l, shape, n)]
           tiles_ == [n \in 1 .. Cardinality(DOMAIN sizes) |->
                       [size |-> sizes[n - 1], offset |-> (CHOOSE h : Offsets(h))[n - 1]]]
<1>1. Tiles(l, shape) = tiles_
  BY DEF Tiles, SizeAt, TileSize, NumberOfTiles, BandsOf, DepthsOf, ColumnsOf, Part,
         Band, Depth, Column
<1>2. N \in Pos /\ I \in Pos /\ J \in Pos /\ K \in Pos
  BY CountsOfTiles
<1> HIDE DEF N, I, J, K
<1>3. DOMAIN sizes = 0 .. N - 1 /\ Cardinality(DOMAIN sizes) = N
  <2>1. DOMAIN sizes = 0 .. N - 1 /\ 0 \in Int /\ N - 1 \in Int
    BY <1>2 DEF Pos
  <2>2. Cardinality(0 .. N - 1) = N
    BY <1>2, FS_Interval DEF Pos
  <2> QED BY <2>1, <2>2
<1>4. OffsetAt(l, shape, 0) = [ifmap |-> 0, filter |-> 0, ofmap |-> 0, prev |-> 0]
  <2>1. Band(J, K, 0) = 0 /\ Depth(J, K, 0) = 0 /\ Column(K, 0) = 0
    <3>1. J * K \in Pos
      BY <1>2, PosProduct
    <3>2. 0 \div (J * K) = 0 /\ 0 \div K = 0 /\ 0 % J = 0 /\ 0 % K = 0
      BY <1>2, <3>1 DEF Pos
    <3> QED BY <3>2 DEF Band, Depth, Column
  <2>2. OffsetAt(l, shape, 0) = TileOffset(l, shape, 0, 0, 0)
    BY <2>1 DEF OffsetAt, J, K
  <2>3. ASSUME NEW s \in Pos, NEW A \in Pos, NEW k \in Pos, NEW B \in Pos
        PROVE  (s * 0) * B = 0 /\ CellStart(s, A, k, B, 0, 0) = 0
    <3>1. 0 \in Bands(s, A) /\ 0 \in Bands(k, B)
      BY CeilDivBounds DEF Bands, Pos
    <3>2. (s * 0) * B = 0
      BY DEF Pos
    <3> QED BY <3>1, <3>2, CellsFollow
  <2> QED BY <2>2, <2>3 DEF TileOffset, Sized
<1>5. \A n \in 1 .. N - 1 :
        placed[n] = OffsetBehind(l, shape, n, placed[n - 1], sizes[n - 1])
  <2> TAKE n \in 1 .. N - 1
  <2>1. n \in 0 .. N - 1 /\ n - 1 \in 0 .. N - 1
    BY <1>2 DEF Pos
  <2> QED BY <2>1, OffsetsFollow DEF N
<1> DEFINE Follows(h) == /\ h = [n \in 0 .. N - 1 |-> h[n]]
                         /\ h[0] = [ifmap |-> 0, filter |-> 0, ofmap |-> 0, prev |-> 0]
                         /\ \A n \in 1 .. N - 1 :
                              h[n] = OffsetBehind(l, shape, n, h[n - 1], sizes[n - 1])
<1>6. ASSUME NEW h
      PROVE  Offsets(h) <=> Follows(h)
  <2> DEFINE body(n) == IF n = 0 THEN [ifmap |-> 0, filter |-> 0, ofmap |-> 0, prev |-> 0]
                        ELSE OffsetBehind(l, shape, n, h[n - 1], sizes[n - 1])
  <2>1. Offsets(h) <=> h = [n \in 0 .. N - 1 |-> body(n)]
    <3> HIDE DEF sizes
    <3> QED BY <1>3 DEF OffsetBehind, J, K
  <2> HIDE DEF sizes, Offsets
  <2>2. 0 \in 0 .. N - 1 /\ (\A n \in 0 .. N - 1 : n = 0 \/ n \in 1 .. N - 1)
        /\ (\A n \in 1 .. N - 1 : n \in 0 .. N - 1 /\ n # 0)
    BY <1>2 DEF Pos
  <2>3. body(0) = [ifmap |-> 0, filter |-> 0, ofmap |-> 0, prev |-> 0]
    OBVIOUS
  <2>4. \A n \in 1 .. N - 1 : body(n) = OffsetBehind(l, shape, n, h[n - 1], sizes[n - 1])
    OBVIOUS
  <2> HIDE DEF body
  <2> QED BY <2>1, <2>2, <2>3, <2>4
<1> HIDE DEF sizes, Offsets
<1>7. Follows(placed)
  <2>1. 0 \in 0 .. N - 1
    BY <1>2 DEF Pos
  <2> QED BY <1>4, <1>5, <2>1
<1>8. ASSUME NEW h, Follows(h)
      PROVE  h = placed
  <2> DEFINE T == {n \in Nat : n \in 0 .. N - 1 => h[n] = placed[n]}
  <2>1. 0 \in T
    BY <1>7, <1>8
  <2>2. ASSUME NEW n \in Nat, n \in T
        PROVE  n + 1 \in T
    <3> SUFFICES ASSUME n + 1 \in 0 .. N - 1 PROVE h[n + 1] = placed[n + 1]
      OBVIOUS
    <3>1. n \in 0 .. N - 1 /\ n + 1 \in 1 .. N - 1 /\ (n + 1) - 1 = n
      BY <1>2 DEF Pos
    <3>2. h[n] = placed[n]
      BY <2>2, <3>1
    <3>3. h[n + 1] = OffsetBehind(l, shape, n + 1, h[n], sizes[n])
      BY <1>8, <3>1
    <3>4. placed[n + 1] = OffsetBehind(l, shape, n + 1, placed[n], sizes[n])
      BY <1>7, <3>1
    <3> HIDE DEF placed
    <3> QED BY <3>2, <3>3, <3>4
  <2> HIDE DEF T
  <2>3. \A n \in Nat : n \in T
    BY <2>1, <2>2, NumbersInduction
  <2>4. \A n \in 0 .. N - 1 : n \in Nat
    BY <1>2 DEF Pos
  <2>5. \A n \in 0 .. N - 1 : h[n] = placed[n]
    BY <2>3, <2>4 DEF T
  <2> QED BY <1>8, <2>5
<1>9. (CHOOSE h : Offsets(h)) = placed
  <2> HIDE DEF placed, Follows
  <2>1. Offsets(placed)
    BY <1>6, <1>7
  <2>2. Offsets(CHOOSE h : Offsets(h))
    BY <2>1
  <2> QED BY <1>6, <1>8, <2>2
<1>10. \A n \in 1 .. N : n - 1 \in 0 .. N - 1
  BY <1>2 DEF Pos
<1>11. tiles_ = [n \in 1 .. N |-> [size |-> sizes[n - 1], offset |-> placed[n - 1]]]
  <2> HIDE DEF placed
  <2> QED BY <1>3, <1>9
<1> HIDE DEF tiles_
<1> QED BY <1>1, <1>10, <1>11 DEF sizes, placed, N

-----------------------------------------------------------------------------
(* Rows that are tiles of a product p: row q is the one at place i, j, k.   *)
IsTile(a, q, p, shape, i, j, k) ==
  LET u == a.element_unit
      offset == TileOffset(p, shape, i, j, k)
      size == TileSize(p, shape, i, j, k)
  IN /\ q.ifmap = p.ifmap + offset.ifmap * u
     /\ q.filter = p.filter + offset.filter * u
     /\ q.ofmap = p.ofmap + offset.ofmap * u
     /\ IfmapElements(q) = size.h * size.w
     /\ FilterElements(q) = size.w * size.f
     /\ OfmapElements(q) = size.h * size.f
     /\ q.type # "Gemv"
     /\ size.w = IF q.type = "Conv" THEN q.filter_depth ELSE q.ifmap_width

(* Sets of bytes that are the cells of a matrix cut it.                    *)
LEMMA PartitionByCells ==
  ASSUME NEW s \in Pos, NEW A \in Pos, NEW k \in Pos, NEW B \in Pos, NEW u \in Pos, NEW base \in Int,
         NEW parts,
         \A x \in parts : \E i \in Bands(s, A), j \in Bands(k, B) : x = Cell(s, A, k, B, base, u, i, j),
         \A i \in Bands(s, A), j \in Bands(k, B) : Cell(s, A, k, B, base, u, i, j) \in parts
  PROVE  Partition(parts, base .. base + (A * B) * u - 1)
<1>1. UNION parts \subseteq base .. base + (A * B) * u - 1
  BY CellsInside
<1>2. \A x \in base .. base + (A * B) * u - 1 : x \in UNION parts
  BY CellsCover
<1>3. ASSUME NEW x \in parts, NEW y \in parts, x # y
      PROVE  x \cap y = {}
  <2>1. PICK i \in Bands(s, A), j \in Bands(k, B) : x = Cell(s, A, k, B, base, u, i, j)
    OBVIOUS
  <2>2. PICK m \in Bands(s, A), n \in Bands(k, B) : y = Cell(s, A, k, B, base, u, m, n)
    OBVIOUS
  <2>3. i # m \/ j # n
    BY <1>3, <2>1, <2>2
  <2> QED BY <2>1, <2>2, <2>3, CellsApart
<1> QED BY <1>1, <1>2, <1>3 DEF Partition

(* Cells that begin at one place are one.                                  *)
LEMMA CellsByStart ==
  ASSUME NEW s \in Pos, NEW A \in Pos, NEW k \in Pos, NEW B \in Pos, NEW u \in Pos,
         NEW i \in Bands(s, A), NEW j \in Bands(k, B), NEW m \in Bands(s, A), NEW n \in Bands(k, B),
         CellStart(s, A, k, B, i, j) * u = CellStart(s, A, k, B, m, n) * u
  PROVE  i = m /\ j = n
<1> DEFINE start(x, y) == CellStart(s, A, k, B, x, y) * u
<1>1. ASSUME NEW x \in Bands(s, A), NEW y \in Bands(k, B)
      PROVE  start(x, y) \in Cell(s, A, k, B, 0, u, x, y)
  <2> DEFINE size == CellSize(s, A, k, B, x, y) * u
  <2>1. start(x, y) \in Nat /\ size \in Pos
    BY CellInBand, NatProduct, PosProduct DEF Pos
  <2>2. Cell(s, A, k, B, 0, u, x, y) = 0 + start(x, y) .. 0 + start(x, y) + size - 1
    BY DEF Cell
  <2> HIDE DEF start, size
  <2> QED BY <2>1, <2>2 DEF Pos
<1>2. 0 \in Int
  OBVIOUS
<1>3. start(i, j) = start(m, n)
  OBVIOUS
<1> HIDE DEF start
<1> QED BY <1>1, <1>2, <1>3, CellsApart

(* The smallest of a set that has a smallest element.                      *)
LEMMA MinIs ==
  ASSUME NEW S, NEW x \in S, S \subseteq Int, \A y \in S : x <= y
  PROVE  Min(S) = x
<1>1. \A y \in S : y \in Int
  OBVIOUS
<1>2. \A y \in S : (\A z \in S : y <= z) => y = x
  BY <1>1
<1>3. Min(S) = CHOOSE y \in S : \A z \in S : y <= z
  BY DEF Min
<1>4. Min(S) \in S /\ \A z \in S : Min(S) <= z
  <2> DEFINE P(y) == \A z \in S : y <= z
  <2>1. P(x)
    OBVIOUS
  <2>2. Min(S) = CHOOSE y \in S : P(y)
    BY <1>3
  <2> HIDE DEF P
  <2>3. Min(S) \in S /\ P(Min(S))
    BY <2>1, <2>2
  <2> QED BY <2>3 DEF P
<1> QED BY <1>2, <1>4

(* Parts as intervals: they are disjoint, of their size, and fill the whole. *)
Interval(n, step, whole) == step * n .. step * n + Part(n, step, whole) - 1

(* The parts of a dimension are disjoint intervals that make it up.        *)
LEMMA Intervals ==
  ASSUME NEW step \in Pos, NEW whole \in Pos
  PROVE  /\ \A n \in Bands(step, whole) :
              /\ IsFiniteSet(Interval(n, step, whole))
              /\ Cardinality(Interval(n, step, whole)) = Part(n, step, whole)
         /\ \A m, n \in Bands(step, whole) :
              m # n => Interval(m, step, whole) \cap Interval(n, step, whole) = {}
         /\ UNION {Interval(n, step, whole) : n \in Bands(step, whole)} = 0 .. whole - 1
<1>1. ASSUME NEW n \in Bands(step, whole)
      PROVE  /\ step * n \in Nat /\ Part(n, step, whole) \in Pos
             /\ (step * n) * 1 = step * n /\ Part(n, step, whole) * 1 = Part(n, step, whole)
             /\ step * n + Part(n, step, whole) <= whole
  <2>1. /\ step * n \in Nat /\ Part(n, step, whole) \in Pos
        /\ step * n + Part(n, step, whole) <= whole
    BY PartSize DEF Bands, Pos
  <2> QED BY <2>1 DEF Pos
<1>2. ASSUME NEW n \in Bands(step, whole)
      PROVE  /\ IsFiniteSet(Interval(n, step, whole))
             /\ Cardinality(Interval(n, step, whole)) = Part(n, step, whole)
  <2> DEFINE a == step * n
             b == step * n + Part(n, step, whole) - 1
  <2>1. a \in Int /\ b \in Int /\ a <= b /\ b - a + 1 = Part(n, step, whole)
    BY <1>1 DEF Pos
  <2>2. Interval(n, step, whole) = a .. b
    BY DEF Interval
  <2> HIDE DEF a, b
  <2>3. IsFiniteSet(a .. b) /\ Cardinality(a .. b) = IF a > b THEN 0 ELSE b - a + 1
    BY <2>1, FS_Interval
  <2> QED BY <2>1, <2>2, <2>3
<1>3. ASSUME NEW m \in Bands(step, whole), NEW n \in Bands(step, whole), m # n
      PROVE  Interval(m, step, whole) \cap Interval(n, step, whole) = {}
  <2>1. \A x, y \in Bands(step, whole) :
          x < y => step * x + Part(x, step, whole) <= step * y
    <3> TAKE x, y \in Bands(step, whole)
    <3> HAVE x < y
    <3>1. 1 \in Pos
      BY DEF Pos
    <3>2. (step * x) * 1 + Part(x, step, whole) * 1 <= (step * y) * 1
      BY <3>1, PartsInOrder DEF Bands
    <3> QED BY <1>1, <3>2
  <2>2. m \in Int /\ n \in Int
    BY DEF Bands
  <2>3. m < n \/ n < m
    BY <1>3, <2>2
  <2> QED BY <1>1, <2>1, <2>3 DEF Interval, Pos
<1>4. \A n \in Bands(step, whole) : Interval(n, step, whole) \subseteq 0 .. whole - 1
  BY <1>1 DEF Interval, Pos
<1>5. \A x \in 0 .. whole - 1 : \E n \in Bands(step, whole) : x \in Interval(n, step, whole)
  <2> TAKE x \in 0 .. whole - 1
  <2>1. x \in Nat /\ x < whole * 1 /\ 1 \in Pos
    BY DEF Pos
  <2>2. PICK n \in Bands(step, whole) :
          (step * n) * 1 <= x /\ x < (step * n) * 1 + Part(n, step, whole) * 1
    BY <2>1, PartsFill DEF Bands
  <2>3. step * n <= x /\ x < step * n + Part(n, step, whole)
    BY <1>1, <2>2
  <2> QED BY <1>1, <2>1, <2>3 DEF Interval, Pos
<1> QED BY <1>2, <1>3, <1>4, <1>5

(* The tiles of a product, as rows behind a first one, cut its matrices, and *)
(* results are accumulated over the whole common dimension.                *)
LEMMA ProductTiled ==
  ASSUME NEW i, NEW p, NEW shape, NEW first \in Nat, arch.element_unit \in Pos, Sized(p, shape),
         p.ifmap \in Int, p.filter \in Int, p.ofmap \in Int,
         AsGemm(network[i]).ifmap_height = p.ifmap_height,
         AsGemm(network[i]).ifmap_width = p.ifmap_width,
         AsGemm(network[i]).filter_width = p.filter_width,
         gen.ifmap_base_addr_array[i] = p.ifmap, gen.ofmap_base_addr_array[i] = p.ofmap,
         RowsOf(i) = {first + n : n \in 1 .. NumberOfTiles(p, shape)},
         \A n \in 1 .. NumberOfTiles(p, shape) :
           LET J == DepthsOf(p, shape)
               K == ColumnsOf(p, shape)
           IN IsTile(arch, config[first + n], p, shape,
                     Band(J, K, n - 1), Depth(J, K, n - 1), Column(K, n - 1))
  PROVE  MatrixTiles(i)
<1> DEFINE H == p.ifmap_height
           W == p.ifmap_width
           F == p.filter_width
           h == shape.height
           w == shape.width
           f == shape.filter_width
           u == arch.element_unit
           I == BandsOf(p, shape)
           J == DepthsOf(p, shape)
           K == ColumnsOf(p, shape)
           N == NumberOfTiles(p, shape)
           Is == 0 .. I - 1
           Js == 0 .. J - 1
           Ks == 0 .. K - 1
           at(x, y, z) == first + (Number(J, K, x, y, z) + 1)
           own == {config[n] : n \in RowsOf(i)}
<1>1. /\ I \in Pos /\ J \in Pos /\ K \in Pos /\ N \in Pos /\ N = I * J * K
      /\ Is = Bands(h, H) /\ Js = Bands(w, W) /\ Ks = Bands(f, F)
  BY CountsOfTiles DEF NumberOfTiles, Bands, BandsOf, DepthsOf, ColumnsOf
<1>2. /\ H \in Pos /\ W \in Pos /\ F \in Pos /\ h \in Pos /\ w \in Pos /\ f \in Pos /\ u \in Pos
  BY DEF Sized
<1> HIDE DEF I, J, K, N
<1>3. ASSUME NEW x \in Is, NEW y \in Js, NEW z \in Ks
      PROVE  /\ Number(J, K, x, y, z) \in Nat
             /\ at(x, y, z) \in RowsOf(i) /\ IsTile(arch, config[at(x, y, z)], p, shape, x, y, z)
             /\ Depth(J, K, at(x, y, z) - first - 1) = y
             /\ Band(J, K, at(x, y, z) - first - 1) = x
             /\ Column(K, at(x, y, z) - first - 1) = z
  <2> DEFINE m == Number(J, K, x, y, z)
  <2>1. m \in 0 .. N - 1 /\ Band(J, K, m) = x /\ Depth(J, K, m) = y /\ Column(K, m) = z
    BY <1>1, DigitsOfNumber
  <2> HIDE DEF m
  <2>2. m + 1 \in 1 .. N /\ (m + 1) - 1 = m /\ first + (m + 1) - first - 1 = m /\ m \in Nat
    BY <1>1, <2>1 DEF Pos
  <2>3. IsTile(arch, config[first + (m + 1)], p, shape, x, y, z)
    BY <2>1, <2>2 DEF N, J, K
  <2>4. first + (m + 1) \in RowsOf(i)
    BY <2>2 DEF N
  <2> QED BY <2>1, <2>2, <2>3, <2>4 DEF m
<1>4. \A n \in RowsOf(i) : \E x \in Is, y \in Js, z \in Ks : n = at(x, y, z)
  <2> TAKE n \in RowsOf(i)
  <2>1. PICK c \in 1 .. N : n = first + c
    BY DEF N
  <2>2. c - 1 \in 0 .. I * J * K - 1 /\ (c - 1) + 1 = c
    <3>1. c - 1 \in 0 .. N - 1 /\ (c - 1) + 1 = c
      BY <1>1, <2>1 DEF Pos
    <3> QED BY <1>1, <3>1
  <2>3. /\ Band(J, K, c - 1) \in Is /\ Depth(J, K, c - 1) \in Js /\ Column(K, c - 1) \in Ks
        /\ c - 1 = Number(J, K, Band(J, K, c - 1), Depth(J, K, c - 1), Column(K, c - 1))
    BY <1>1, <2>2, NumberOfDigits
  <2>4. n = at(Band(J, K, c - 1), Depth(J, K, c - 1), Column(K, c - 1))
    BY <2>1, <2>2, <2>3
  <2> QED BY <2>3, <2>4
<1>5. ASSUME NEW x \in Is, NEW y \in Js, NEW z \in Ks
      PROVE  LET q == config[at(x, y, z)]
             IN /\ q \in own
                /\ IfmapBytes(q) = Cell(h, H, w, W, p.ifmap, u, x, y)
                /\ FilterBytes(q) = Cell(w, W, f, F, p.filter, u, y, z)
                /\ OfmapBytes(q) = Cell(h, H, f, F, p.ofmap, u, x, z)
  <2> DEFINE q == config[at(x, y, z)]
  <2>1. at(x, y, z) \in RowsOf(i) /\ IsTile(arch, q, p, shape, x, y, z)
    BY <1>3
  <2>2. q \in own
    BY <2>1
  <2> HIDE DEF q, own, at
  <2>3. /\ q.ifmap = p.ifmap + CellStart(h, H, w, W, x, y) * u
        /\ q.filter = p.filter + CellStart(w, W, f, F, y, z) * u
        /\ q.ofmap = p.ofmap + CellStart(h, H, f, F, x, z) * u
        /\ IfmapElements(q) = CellSize(h, H, w, W, x, y)
        /\ FilterElements(q) = CellSize(w, W, f, F, y, z)
        /\ OfmapElements(q) = CellSize(h, H, f, F, x, z)
        /\ q.type # "Gemv"
    BY <2>1 DEF IsTile, TileOffset, TileSize, CellSize
  <2>4. IfmapBytes(q) = Cell(h, H, w, W, p.ifmap, u, x, y)
    BY <2>3 DEF IfmapBytes, Bytes, Cell
  <2>5. FilterBytes(q) = Cell(w, W, f, F, p.filter, u, y, z)
    BY <2>3 DEF FilterBytes, Bytes, Cell
  <2>6. OfmapBytes(q) = Cell(h, H, f, F, p.ofmap, u, x, z)
    BY <2>3 DEF OfmapBytes, Bytes, Cell
  <2> QED BY <2>2, <2>4, <2>5, <2>6 DEF q
<1>6. ASSUME NEW q \in own
      PROVE  \E x \in Is, y \in Js, z \in Ks : q = config[at(x, y, z)]
  BY <1>4
<1>7. 0 \in Is /\ 0 \in Js /\ 0 \in Ks
  BY <1>1 DEF Pos
<1> HIDE DEF at, Is, Js, Ks, own
<1>8. Partition({IfmapBytes(q) : q \in own}, p.ifmap .. p.ifmap + (H * W) * u - 1)
  <2> DEFINE parts == {IfmapBytes(q) : q \in own}
  <2>1. \A x \in parts : \E a \in Bands(h, H), b \in Bands(w, W) : x = Cell(h, H, w, W, p.ifmap, u, a, b)
    BY <1>1, <1>5, <1>6
  <2>2. \A a \in Bands(h, H), b \in Bands(w, W) : Cell(h, H, w, W, p.ifmap, u, a, b) \in parts
    BY <1>1, <1>5, <1>7
  <2> HIDE DEF parts, H, W, h, w, u
  <2>3. Partition(parts, p.ifmap .. p.ifmap + (H * W) * u - 1)
    BY <1>2, <2>1, <2>2, PartitionByCells
  <2> QED BY <2>3 DEF parts
<1>9. Partition({FilterBytes(q) : q \in own}, p.filter .. p.filter + (W * F) * u - 1)
  <2> DEFINE parts == {FilterBytes(q) : q \in own}
  <2>1. \A x \in parts : \E a \in Bands(w, W), b \in Bands(f, F) : x = Cell(w, W, f, F, p.filter, u, a, b)
    BY <1>1, <1>5, <1>6
  <2>2. \A a \in Bands(w, W), b \in Bands(f, F) : Cell(w, W, f, F, p.filter, u, a, b) \in parts
    BY <1>1, <1>5, <1>7
  <2> HIDE DEF parts, F, W, f, w, u
  <2>3. Partition(parts, p.filter .. p.filter + (W * F) * u - 1)
    BY <1>2, <2>1, <2>2, PartitionByCells
  <2> QED BY <2>3 DEF parts
<1>10. Partition({OfmapBytes(q) : q \in own}, p.ofmap .. p.ofmap + (H * F) * u - 1)
  <2> DEFINE parts == {OfmapBytes(q) : q \in own}
  <2>1. \A x \in parts : \E a \in Bands(h, H), b \in Bands(f, F) : x = Cell(h, H, f, F, p.ofmap, u, a, b)
    BY <1>1, <1>5, <1>6
  <2>2. \A a \in Bands(h, H), b \in Bands(f, F) : Cell(h, H, f, F, p.ofmap, u, a, b) \in parts
    BY <1>1, <1>5, <1>7
  <2> HIDE DEF parts, F, H, f, h, u
  <2>3. Partition(parts, p.ofmap .. p.ofmap + (H * F) * u - 1)
    BY <1>2, <2>1, <2>2, PartitionByCells
  <2> QED BY <2>3 DEF parts
<1>11. Min({q.filter : q \in own}) = p.filter
  <2>1. ASSUME NEW x \in Is, NEW y \in Js, NEW z \in Ks
        PROVE  /\ config[at(x, y, z)].filter \in Int
               /\ p.filter <= config[at(x, y, z)].filter
               /\ y = 0 /\ z = 0 => config[at(x, y, z)].filter = p.filter
    <3> DEFINE start == CellStart(w, W, f, F, y, z)
    <3>1. config[at(x, y, z)].filter = p.filter + start * u
      BY <1>3 DEF IsTile, TileOffset, Is, Js, Ks, at
    <3>2. /\ start \in Nat
          /\ y = 0 /\ z = 0 => start = (w * 0) * F
      <4>1. y \in Bands(w, W) /\ z \in Bands(f, F)
        BY <1>1
      <4> HIDE DEF w, W, f, F
      <4> QED BY <1>2, <4>1, CellsFollow
    <3> HIDE DEF start
    <3>3. start * u \in Nat /\ (w * 0) * F = 0 /\ 0 * u = 0
      BY <1>2, <3>2, NatProduct DEF Pos
    <3> QED BY <3>1, <3>2, <3>3
  <2> DEFINE S == {q.filter : q \in own}
  <2>2. p.filter \in S /\ S \subseteq Int /\ \A x \in S : p.filter <= x
    <3>1. config[at(0, 0, 0)] \in own
      BY <1>5, <1>7
    <3> QED BY <1>6, <1>7, <2>1, <3>1
  <2> HIDE DEF S
  <2>3. Min(S) = p.filter
    BY <2>2, MinIs
  <2> QED BY <2>3 DEF S
<1>12. ASSUME NEW n \in RowsOf(i)
       PROVE  LET same == {m \in RowsOf(i) : config[m].ofmap = config[n].ofmap}
                  depth(m) == IF config[m].type = "Conv" THEN config[m].filter_depth
                                                         ELSE config[m].ifmap_width
              IN /\ MapThenSumSet(depth, same) = W
                 /\ \A m \in same \ {n} : /\ config[m].ifmap # config[n].ifmap
                                          /\ config[m].filter # config[n].filter
  <2> DEFINE same == {m \in RowsOf(i) : config[m].ofmap = config[n].ofmap}
             depth(m) == IF config[m].type = "Conv" THEN config[m].filter_depth
                                                    ELSE config[m].ifmap_width
  <2>1. PICK x \in Is, y0 \in Js, z \in Ks : n = at(x, y0, z)
    BY <1>4
  <2>2. ASSUME NEW a \in Is, NEW b \in Js, NEW c \in Ks
        PROVE  /\ at(a, b, c) \in RowsOf(i)
               /\ config[at(a, b, c)].ifmap = p.ifmap + CellStart(h, H, w, W, a, b) * u
               /\ config[at(a, b, c)].filter = p.filter + CellStart(w, W, f, F, b, c) * u
               /\ config[at(a, b, c)].ofmap = p.ofmap + CellStart(h, H, f, F, a, c) * u
               /\ CellStart(h, H, w, W, a, b) * u \in Nat /\ CellStart(w, W, f, F, b, c) * u \in Nat
               /\ CellStart(h, H, f, F, a, c) * u \in Nat
               /\ depth(at(a, b, c)) = Part(b, w, W)
               /\ Depth(J, K, at(a, b, c) - first - 1) = b
    <3>1. /\ at(a, b, c) \in RowsOf(i) /\ IsTile(arch, config[at(a, b, c)], p, shape, a, b, c)
          /\ Depth(J, K, at(a, b, c) - first - 1) = b
      BY <1>3 DEF at, Is, Js, Ks
    <3>2. /\ config[at(a, b, c)].ifmap = p.ifmap + CellStart(h, H, w, W, a, b) * u
          /\ config[at(a, b, c)].filter = p.filter + CellStart(w, W, f, F, b, c) * u
          /\ config[at(a, b, c)].ofmap = p.ofmap + CellStart(h, H, f, F, a, c) * u
          /\ depth(at(a, b, c)) = Part(b, w, W)
      BY <3>1 DEF IsTile, TileOffset, TileSize
    <3>3. /\ CellStart(h, H, w, W, a, b) \in Nat /\ CellStart(w, W, f, F, b, c) \in Nat
          /\ CellStart(h, H, f, F, a, c) \in Nat
      <4>1. a \in Bands(h, H) /\ b \in Bands(w, W) /\ c \in Bands(f, F)
        BY <1>1
      <4> HIDE DEF h, H, w, W, f, F
      <4> QED BY <1>2, <4>1, CellsFollow
    <3>4. u \in Nat
      BY <1>2 DEF Pos
    <3> HIDE DEF depth
    <3> QED BY <3>1, <3>2, <3>3, <3>4, NatProduct
  <2> HIDE DEF depth
  <2>3. ASSUME NEW a \in Is, NEW b \in Js, NEW c \in Ks,
               config[at(a, b, c)].ofmap = config[n].ofmap
        PROVE  a = x /\ c = z
    <3>1. CellStart(h, H, f, F, a, c) * u = CellStart(h, H, f, F, x, z) * u
      <4> DEFINE v == CellStart(h, H, f, F, a, c) * u
                 v0 == CellStart(h, H, f, F, x, z) * u
      <4>1. p.ofmap + v = p.ofmap + v0 /\ v \in Nat /\ v0 \in Nat
        BY <2>1, <2>2, <2>3
      <4> HIDE DEF v, v0
      <4>2. v = v0
        BY <4>1
      <4> QED BY <4>2 DEF v, v0
    <3>2. a \in Bands(h, H) /\ c \in Bands(f, F) /\ x \in Bands(h, H) /\ z \in Bands(f, F)
      BY <1>1
    <3> HIDE DEF h, H, f, F, u
    <3> QED BY <1>2, <3>1, <3>2, CellsByStart
  <2>4. \A m \in same : \E y \in Js : m = at(x, y, z)
    BY <1>4, <2>3
  <2>5. \A y \in Js : at(x, y, z) \in same
    BY <2>1, <2>2
  <2>6. \A m \in same \ {n} : /\ config[m].ifmap # config[n].ifmap
                             /\ config[m].filter # config[n].filter
    <3> TAKE m \in same \ {n}
    <3>1. PICK y \in Js : m = at(x, y, z)
      BY <2>4
    <3>2. y # y0
      BY <2>1, <3>1
    <3>3. /\ CellStart(h, H, w, W, x, y) * u # CellStart(h, H, w, W, x, y0) * u
          /\ CellStart(w, W, f, F, y, z) * u # CellStart(w, W, f, F, y0, z) * u
      <4>1. x \in Bands(h, H) /\ y \in Bands(w, W) /\ y0 \in Bands(w, W) /\ z \in Bands(f, F)
        BY <1>1
      <4> HIDE DEF h, H, w, W, f, F, u
      <4> QED BY <1>2, <3>2, <4>1, CellsByStart
    <3>4. /\ config[m].ifmap = p.ifmap + CellStart(h, H, w, W, x, y) * u
          /\ config[m].filter = p.filter + CellStart(w, W, f, F, y, z) * u
          /\ config[n].ifmap = p.ifmap + CellStart(h, H, w, W, x, y0) * u
          /\ config[n].filter = p.filter + CellStart(w, W, f, F, y0, z) * u
      BY <2>1, <2>2, <3>1
    <3>5. /\ CellStart(h, H, w, W, x, y) * u \in Nat /\ CellStart(h, H, w, W, x, y0) * u \in Nat
          /\ CellStart(w, W, f, F, y, z) * u \in Nat /\ CellStart(w, W, f, F, y0, z) * u \in Nat
      BY <2>2
    <3>6. \A b \in Int, v, v0 \in Nat : v # v0 => b + v # b + v0
      OBVIOUS
    <3> HIDE DEF same, h, H, w, W, f, F, u
    <3> QED BY <3>3, <3>4, <3>5, <3>6
  <2> DEFINE A == [m \in same |-> Interval(Depth(J, K, m - first - 1), w, W)]
  <2>7. ASSUME NEW y \in Js
        PROVE  /\ A[at(x, y, z)] = Interval(y, w, W) /\ y \in Bands(w, W)
               /\ IsFiniteSet(A[at(x, y, z)])
               /\ Cardinality(A[at(x, y, z)]) = depth(at(x, y, z))
    <3>1. A[at(x, y, z)] = Interval(y, w, W) /\ y \in Bands(w, W)
      BY <1>1, <2>2, <2>5
    <3>2. depth(at(x, y, z)) = Part(y, w, W)
      BY <2>2
    <3>3. /\ IsFiniteSet(Interval(y, w, W))
          /\ Cardinality(Interval(y, w, W)) = Part(y, w, W)
      <4> HIDE DEF w, W
      <4> QED BY <1>2, <3>1, Intervals
    <3> HIDE DEF A
    <3> QED BY <3>1, <3>2, <3>3
  <2> HIDE DEF A, same
  <2>8. \A m \in same : IsFiniteSet(A[m]) /\ Cardinality(A[m]) = depth(m)
    BY <2>4, <2>7
  <2>9. \A m, o \in same : m # o => A[m] \cap A[o] = {}
    <3> TAKE m, o \in same
    <3> HAVE m # o
    <3>1. PICK y, v \in Js : m = at(x, y, z) /\ o = at(x, v, z)
      BY <2>4
    <3>2. y # v /\ A[m] = Interval(y, w, W) /\ A[o] = Interval(v, w, W)
          /\ y \in Bands(w, W) /\ v \in Bands(w, W)
      BY <2>7, <3>1
    <3> HIDE DEF w, W
    <3> QED BY <1>2, <3>2, Intervals
  <2>10. Joined(A, same) = 0 .. W - 1
    <3>1. Joined(A, same) = UNION {Interval(y, w, W) : y \in Js}
      <4>1. \A m \in same : \E y \in Js : A[m] = Interval(y, w, W)
        BY <2>4, <2>7
      <4>2. \A y \in Js : \E m \in same : A[m] = Interval(y, w, W)
        BY <2>5, <2>7
      <4> QED BY <4>1, <4>2, ZenonT(40) DEF Joined
    <3>2. Js = Bands(w, W)
      BY <1>1
    <3> HIDE DEF w, W
    <3> QED BY <1>2, <3>1, <3>2, Intervals
  <2>11. IsFiniteSet(same)
    <3> DEFINE g == [y \in Js |-> at(x, y, z)]
    <3>1. g \in Surjection(Js, same)
      BY <2>4, <2>5 DEF Surjection
    <3>2. IsFiniteSet(Js)
      <4>1. 0 \in Int /\ J - 1 \in Int
        BY <1>1 DEF Pos
      <4> QED BY <4>1, FS_Interval DEF Js
    <3> HIDE DEF g
    <3> QED BY <3>1, <3>2, FS_Surjection
  <2>12. Cardinality(Joined(A, same)) = W
    <3>1. 0 \in Int /\ W - 1 \in Int /\ ~(0 > W - 1) /\ W - 1 - 0 + 1 = W
      BY <1>2 DEF Pos
    <3> HIDE DEF W
    <3>2. Cardinality(0 .. W - 1) = IF 0 > W - 1 THEN 0 ELSE W - 1 - 0 + 1
      BY <3>1, FS_Interval
    <3> QED BY <2>10, <3>1, <3>2
  <2> DEFINE Sums(g) == g = [e \in SUBSET same |->
                               IF e = {} THEN 0
                               ELSE LET m == CHOOSE m \in e : TRUE IN depth(m) + g[e \ {m}]]
  <2>13. MapThenSumSet(depth, same) = (CHOOSE g : Sums(g))[same]
    BY DEF MapThenSumSet, MapThenFoldSet
  <2>14. \A g : Sums(g) <=> SumsOver(A, same, g)
    <3> TAKE g
    <3>1. \A e \in SUBSET same : e # {} =>
            depth(CHOOSE m \in e : TRUE) = Cardinality(A[CHOOSE m \in e : TRUE])
      BY <2>8
    <3> QED BY <3>1 DEF SumsOver
  <2> HIDE DEF Sums
  <2>15. (CHOOSE g : Sums(g))[same] = W
    <3>1. \E g : SumsOver(A, same, g)
      BY <2>8, <2>9, <2>11, SumOfSizes
    <3>2. Sums(CHOOSE g : Sums(g))
      BY <2>14, <3>1
    <3>3. SumsOver(A, same, CHOOSE g : Sums(g))
      BY <2>14, <3>2
    <3> QED BY <2>8, <2>9, <2>11, <2>12, <3>3, SumOfSizes
  <2> QED BY <2>6, <2>13, <2>15 DEF same, depth
<1>13. /\ H = AsGemm(network[i]).ifmap_height /\ W = AsGemm(network[i]).ifmap_width
       /\ F = AsGemm(network[i]).filter_width
  OBVIOUS
<1> HIDE DEF H, W, F
<1> QED BY <1>8, <1>9, <1>10, <1>11, <1>12, <1>13 DEF MatrixTiles, Bytes, own, u

-----------------------------------------------------------------------------
(* What the three ways of cutting a product make of it: as many rows as     *)
(* there are tiles, each one a tile.                                       *)
AreTiles(a, rows, p, shape) ==
  LET J == DepthsOf(p, shape)
      K == ColumnsOf(p, shape)
      N == NumberOfTiles(p, shape)
  IN /\ N \in Pos /\ rows = [n \in 1 .. N |-> rows[n]]
     /\ \A n \in 1 .. N : /\ rows[n].name = p.name
                          /\ IsTile(a, rows[n], p, shape,
                                    Band(J, K, n - 1), Depth(J, K, n - 1), Column(K, n - 1))

(* Sizes of tiles.                                                         *)
LEMMA SizesAt ==
  ASSUME NEW p, NEW shape, Sized(p, shape), NEW m \in 0 .. NumberOfTiles(p, shape) - 1
  PROVE  /\ SizeAt(p, shape, m).h \in Pos /\ SizeAt(p, shape, m).w \in Pos
         /\ SizeAt(p, shape, m).f \in Pos
<1> DEFINE I == BandsOf(p, shape)
           J == DepthsOf(p, shape)
           K == ColumnsOf(p, shape)
<1>1. I \in Pos /\ J \in Pos /\ K \in Pos /\ m \in 0 .. I * J * K - 1
  BY CountsOfTiles DEF NumberOfTiles
<1> HIDE DEF I, J, K
<1>2. Band(J, K, m) \in 0 .. I - 1 /\ Depth(J, K, m) \in 0 .. J - 1 /\ Column(K, m) \in 0 .. K - 1
  BY <1>1, NumberOfDigits
<1>3. ASSUME NEW step \in Pos, NEW whole \in Pos, NEW n \in 0 .. CeilDiv(whole, step) - 1
      PROVE  Part(n, step, whole) \in Pos
  BY PartSize DEF Pos
<1>4. /\ Part(Band(J, K, m), shape.height, p.ifmap_height) \in Pos
      /\ Part(Depth(J, K, m), shape.width, p.ifmap_width) \in Pos
      /\ Part(Column(K, m), shape.filter_width, p.filter_width) \in Pos
  <2>1. /\ I = CeilDiv(p.ifmap_height, shape.height) /\ J = CeilDiv(p.ifmap_width, shape.width)
        /\ K = CeilDiv(p.filter_width, shape.filter_width)
    BY DEF I, J, K, BandsOf, DepthsOf, ColumnsOf
  <2> QED BY <1>2, <1>3, <2>1 DEF Sized
<1> QED BY <1>4 DEF SizeAt, TileSize, J, K

(* GemmTranslation cuts a product into tiles at the offsets of their       *)
(* places.                                                                 *)
LEMMA GemmAreTiles ==
  ASSUME arch \in Arch, NEW p \in RowIn(Int)
  PROVE  /\ Sized(p, GemmShape(arch, p))
         /\ AreTiles(arch, GemmTranslation(arch, p), p, GemmShape(arch, p))
<1> DEFINE shape == GemmShape(arch, p)
           N == NumberOfTiles(p, shape)
           J == DepthsOf(p, shape)
           K == ColumnsOf(p, shape)
           tiles_ == Tiles(p, shape)
           rows == GemmTranslation(arch, p)
<1>1. Sized(p, shape)
  BY GemmShapeSized DEF Sized, RowIn
<1>2. rows = [n \in DOMAIN tiles_ |->
               [At(arch, p, tiles_[n]) EXCEPT !.type = "Conv", !.ifmap_width = 1,
                  !.filter_height = 1, !.filter_width = 1,
                  !.filter_depth = tiles_[n].size.w, !.filter_num = tiles_[n].size.f]]
  BY DEF GemmTranslation
<1> HIDE DEF shape, rows
<1>3. N \in Pos /\ tiles_ = [n \in 1 .. N |-> [size |-> SizeAt(p, shape, n - 1),
                                             offset |-> OffsetAt(p, shape, n - 1)]]
  BY <1>1, CountsOfTiles, TilesPlaced
<1> HIDE DEF N, tiles_
<1>4. ASSUME NEW n \in 1 .. N
      PROVE  /\ rows[n].name = p.name
             /\ IsTile(arch, rows[n], p, shape, Band(J, K, n - 1), Depth(J, K, n - 1), Column(K, n - 1))
  <2> DEFINE size == SizeAt(p, shape, n - 1)
             offset == OffsetAt(p, shape, n - 1)
             tile == tiles_[n]
             q == rows[n]
             at == At(arch, p, tile)
  <2>1. tile = [size |-> size, offset |-> offset] /\ n - 1 \in 0 .. N - 1
    BY <1>3 DEF Pos
  <2>2. q = [at EXCEPT !.type = "Conv", !.ifmap_width = 1,
                  !.filter_height = 1, !.filter_width = 1,
                  !.filter_depth = size.w, !.filter_num = size.f]
    BY <1>2, <1>3
  <2>3. size.h \in Pos /\ size.w \in Pos /\ size.f \in Pos
    BY <1>1, <2>1, SizesAt DEF N
  <2> HIDE DEF size, offset, tile, q
  <2>4. /\ DOMAIN at = DOMAIN p /\ at.name = p.name
        /\ at.ifmap = p.ifmap + offset.ifmap * arch.element_unit
        /\ at.filter = p.filter + offset.filter * arch.element_unit
        /\ at.ofmap = p.ofmap + offset.ofmap * arch.element_unit
        /\ at.ifmap_height = size.h /\ at.stride = 1
    <3>1. tile.size = size /\ tile.offset = offset
      BY <2>1
    <3>2. at = [p EXCEPT !.ifmap = @ + tile.offset.ifmap * arch.element_unit,
                         !.filter = @ + tile.offset.filter * arch.element_unit,
                         !.ofmap = @ + tile.offset.ofmap * arch.element_unit,
                         !.ifmap_height = tile.size.h, !.filter_depth = 1, !.filter_num = 1,
                         !.stride = 1]
      BY DEF At
    <3> HIDE DEF at
    <3> QED BY <3>1, <3>2 DEF RowIn
  <2> HIDE DEF at
  <2>5. DOMAIN p = {"name", "type", "ifmap_height", "ifmap_width", "filter_height",
                    "filter_width", "filter_depth", "filter_num", "stride", "ifmap",
                    "filter", "ofmap"}
    BY DEF RowIn
  <2>6. /\ q.name = p.name /\ q.type = "Conv" /\ q.ifmap_width = 1 /\ q.filter_height = 1
        /\ q.filter_width = 1 /\ q.filter_depth = size.w /\ q.filter_num = size.f
        /\ q.ifmap_height = size.h /\ q.stride = 1
        /\ q.ifmap = p.ifmap + offset.ifmap * arch.element_unit
        /\ q.filter = p.filter + offset.filter * arch.element_unit
        /\ q.ofmap = p.ofmap + offset.ofmap * arch.element_unit
    BY <2>2, <2>4, <2>5
  <2>7. IfmapElements(q) = size.h * size.w
    <3>1. size.h * 1 = size.h
      BY <2>3 DEF Pos
    <3> QED BY <2>6, <3>1 DEF IfmapElements
  <2>8. FilterElements(q) = size.w * size.f
    <3>1. 1 * 1 * size.w = size.w
      BY <2>3 DEF Pos
    <3> QED BY <2>6, <3>1 DEF FilterElements, FilterSize
  <2>9. OfmapElements(q) = size.h * size.f
    <3>1. OfmapWidth(q) = 1 /\ OfmapHeight(q) = size.h
      BY <2>3, <2>6 DEF OfmapWidth, OfmapHeight, CeilDiv, Pos
    <3>2. Windows(q) = size.h
      BY <2>3, <3>1 DEF Windows, Pos
    <3> QED BY <2>6, <3>2 DEF OfmapElements
  <2>10. /\ offset = TileOffset(p, shape, Band(J, K, n - 1), Depth(J, K, n - 1), Column(K, n - 1))
         /\ size = TileSize(p, shape, Band(J, K, n - 1), Depth(J, K, n - 1), Column(K, n - 1))
    BY DEF SizeAt, OffsetAt, size, offset
  <2>11. IsTile(arch, q, p, shape, Band(J, K, n - 1), Depth(J, K, n - 1), Column(K, n - 1))
    <3> HIDE DEF J, K
    <3> QED BY <2>6, <2>7, <2>8, <2>9, <2>10 DEF IsTile
  <2> QED BY <2>6, <2>11 DEF q
<1>5. rows = [n \in 1 .. N |-> rows[n]]
  BY <1>2, <1>3
<1>6. AreTiles(arch, rows, p, shape)
  <2> HIDE DEF rows
  <2> QED BY <1>3, <1>4, <1>5 DEF AreTiles, N
<1> QED BY <1>1, <1>6 DEF rows, shape

(* DirGemmComputation does.                                                *)
LEMMA DirGemmAreTiles ==
  ASSUME arch \in Arch, NEW p \in RowIn(Int)
  PROVE  /\ Sized(p, DirGemmShape(arch, p))
         /\ AreTiles(arch, DirGemmComputation(arch, p), p, DirGemmShape(arch, p))
<1> DEFINE shape == DirGemmShape(arch, p)
           N == NumberOfTiles(p, shape)
           J == DepthsOf(p, shape)
           K == ColumnsOf(p, shape)
           tiles_ == Tiles(p, shape)
           rows == DirGemmComputation(arch, p)
<1>1. Sized(p, shape)
  BY DirGemmShapeSized DEF Sized, RowIn
<1>2. rows = [n \in DOMAIN tiles_ |->
               [At(arch, p, tiles_[n]) EXCEPT !.type = "Dir_Tile_Gemm",
                  !.ifmap_width = tiles_[n].size.w, !.filter_height = tiles_[n].size.w,
                  !.filter_width = tiles_[n].size.f]]
  BY DEF DirGemmComputation
<1> HIDE DEF shape, rows
<1>3. N \in Pos /\ tiles_ = [n \in 1 .. N |-> [size |-> SizeAt(p, shape, n - 1),
                                             offset |-> OffsetAt(p, shape, n - 1)]]
  BY <1>1, CountsOfTiles, TilesPlaced
<1> HIDE DEF N, tiles_
<1>4. ASSUME NEW n \in 1 .. N
      PROVE  /\ rows[n].name = p.name
             /\ IsTile(arch, rows[n], p, shape, Band(J, K, n - 1), Depth(J, K, n - 1), Column(K, n - 1))
  <2> DEFINE size == SizeAt(p, shape, n - 1)
             offset == OffsetAt(p, shape, n - 1)
             tile == tiles_[n]
             q == rows[n]
             at == At(arch, p, tile)
  <2>1. tile = [size |-> size, offset |-> offset] /\ n - 1 \in 0 .. N - 1
    BY <1>3 DEF Pos
  <2>2. q = [at EXCEPT !.type = "Dir_Tile_Gemm", !.ifmap_width = size.w,
                  !.filter_height = size.w, !.filter_width = size.f]
    BY <1>2, <1>3
  <2>3. size.h \in Pos /\ size.w \in Pos /\ size.f \in Pos
    BY <1>1, <2>1, SizesAt DEF N
  <2> HIDE DEF size, offset, tile, q
  <2>4. /\ DOMAIN at = DOMAIN p /\ at.name = p.name
        /\ at.ifmap = p.ifmap + offset.ifmap * arch.element_unit
        /\ at.filter = p.filter + offset.filter * arch.element_unit
        /\ at.ofmap = p.ofmap + offset.ofmap * arch.element_unit
        /\ at.ifmap_height = size.h /\ at.filter_depth = 1 /\ at.filter_num = 1
    <3>1. tile.size = size /\ tile.offset = offset
      BY <2>1
    <3>2. at = [p EXCEPT !.ifmap = @ + tile.offset.ifmap * arch.element_unit,
                         !.filter = @ + tile.offset.filter * arch.element_unit,
                         !.ofmap = @ + tile.offset.ofmap * arch.element_unit,
                         !.ifmap_height = tile.size.h, !.filter_depth = 1, !.filter_num = 1,
                         !.stride = 1]
      BY DEF At
    <3> HIDE DEF at
    <3> QED BY <3>1, <3>2 DEF RowIn
  <2> HIDE DEF at
  <2>5. DOMAIN p = {"name", "type", "ifmap_height", "ifmap_width", "filter_height",
                    "filter_width", "filter_depth", "filter_num", "stride", "ifmap",
                    "filter", "ofmap"}
    BY DEF RowIn
  <2>6. /\ q.name = p.name /\ q.type = "Dir_Tile_Gemm" /\ q.ifmap_width = size.w
        /\ q.filter_height = size.w /\ q.filter_width = size.f
        /\ q.filter_depth = 1 /\ q.filter_num = 1 /\ q.ifmap_height = size.h
        /\ q.ifmap = p.ifmap + offset.ifmap * arch.element_unit
        /\ q.filter = p.filter + offset.filter * arch.element_unit
        /\ q.ofmap = p.ofmap + offset.ofmap * arch.element_unit
    BY <2>2, <2>4, <2>5
  <2>7. IfmapElements(q) = size.h * size.w
    <3>1. size.h * size.w * 1 = size.h * size.w
      BY <2>3 DEF Pos
    <3> QED BY <2>6, <3>1 DEF IfmapElements
  <2>8. FilterElements(q) = size.w * size.f
    <3>1. size.f * size.w * 1 * 1 = size.w * size.f
      BY <2>3 DEF Pos
    <3> QED BY <2>6, <3>1 DEF FilterElements, FilterSize
  <2>9. OfmapElements(q) = size.h * size.f
    BY <2>6 DEF OfmapElements
  <2>10. /\ offset = TileOffset(p, shape, Band(J, K, n - 1), Depth(J, K, n - 1), Column(K, n - 1))
         /\ size = TileSize(p, shape, Band(J, K, n - 1), Depth(J, K, n - 1), Column(K, n - 1))
    BY DEF SizeAt, OffsetAt, size, offset
  <2>11. IsTile(arch, q, p, shape, Band(J, K, n - 1), Depth(J, K, n - 1), Column(K, n - 1))
    <3> HIDE DEF J, K
    <3> QED BY <2>6, <2>7, <2>8, <2>9, <2>10 DEF IsTile
  <2> QED BY <2>6, <2>11 DEF q
<1>5. rows = [n \in 1 .. N |-> rows[n]]
  BY <1>2, <1>3
<1>6. AreTiles(arch, rows, p, shape)
  <2> HIDE DEF rows
  <2> QED BY <1>3, <1>4, <1>5 DEF AreTiles, N
<1> QED BY <1>1, <1>6 DEF rows, shape

(* A product that is not cut is one tile.                                  *)
Whole(p) == [height |-> p.ifmap_height, width |-> p.ifmap_width, filter_width |-> p.filter_width]

(* IneffDirGemmComputation leaves the product one tile.                    *)
LEMMA IneffDirGemmIsTile ==
  ASSUME arch \in Arch, NEW p \in RowIn(Int)
  PROVE  /\ Sized(p, Whole(p))
         /\ AreTiles(arch, IneffDirGemmComputation(p), p, Whole(p))
         /\ \A n \in DOMAIN IneffDirGemmComputation(p) :
              IneffDirGemmComputation(p)[n].type = "Ineff_Dir_Tile_Gemm"
<1> DEFINE rows == IneffDirGemmComputation(p)
           q == [p EXCEPT !.type = "Ineff_Dir_Tile_Gemm", !.filter_height = p.ifmap_width,
                          !.filter_depth = 1, !.filter_num = 1, !.stride = 1]
           H == p.ifmap_height
           W == p.ifmap_width
           F == p.filter_width
           u == arch.element_unit
<1>1. Sized(p, Whole(p)) /\ H \in Pos /\ W \in Pos /\ F \in Pos
  BY DEF Sized, Whole, RowIn
<1>2. ASSUME NEW x \in Pos
      PROVE  CeilDiv(x, x) = 1 /\ Part(0, x, x) = x
  <2>1. CeilDiv(x, x) = 1
    <3>1. (x * 1 + (x - 1)) \div x = 1
      BY DivUnique DEF Pos
    <3>2. x * 1 + (x - 1) = x + x - 1
      BY DEF Pos
    <3> QED BY <3>1, <3>2 DEF CeilDiv
  <2>2. x * 0 = 0 /\ x - 0 = x /\ x \in Int
    BY DEF Pos
  <2>3. Min({x, x}) = x
    BY <2>2, MinOfTwo
  <2> QED BY <2>1, <2>2, <2>3 DEF Part
<1>3. BandsOf(p, Whole(p)) = 1 /\ DepthsOf(p, Whole(p)) = 1 /\ ColumnsOf(p, Whole(p)) = 1
  BY <1>1, <1>2 DEF BandsOf, DepthsOf, ColumnsOf, Whole
<1>4. NumberOfTiles(p, Whole(p)) = 1
  BY <1>3 DEF NumberOfTiles
<1>5. Band(1, 1, 0) = 0 /\ Depth(1, 1, 0) = 0 /\ Column(1, 0) = 0
  BY DEF Band, Depth, Column
<1>6. TileSize(p, Whole(p), 0, 0, 0) = [h |-> H, w |-> W, f |-> F]
  BY <1>1, <1>2 DEF TileSize, Whole
<1>7. /\ TileOffset(p, Whole(p), 0, 0, 0).ifmap = 0
      /\ TileOffset(p, Whole(p), 0, 0, 0).filter = 0
      /\ TileOffset(p, Whole(p), 0, 0, 0).ofmap = 0
  <2>1. ASSUME NEW x \in Pos, NEW y \in Pos
        PROVE  CellStart(x, x, y, y, 0, 0) = 0
    <3>1. (x * 0) * y + x * (y * 0) = 0
      BY DEF Pos
    <3> QED BY <1>2, <3>1 DEF CellStart
  <2> QED BY <1>1, <2>1 DEF TileOffset, Whole
<1>8. /\ q.name = p.name /\ q.type = "Ineff_Dir_Tile_Gemm" /\ q.ifmap_width = W
      /\ q.filter_height = W /\ q.filter_width = F
      /\ q.filter_depth = 1 /\ q.filter_num = 1 /\ q.ifmap_height = H
      /\ q.ifmap = p.ifmap /\ q.filter = p.filter /\ q.ofmap = p.ofmap
  BY DEF RowIn
<1>9. rows = <<q>>
  BY DEF IneffDirGemmComputation
<1> HIDE DEF q, H, W, F
<1>10. IfmapElements(q) = H * W
  <2>1. H * W * 1 = H * W
    BY <1>1 DEF Pos
  <2> QED BY <1>8, <2>1 DEF IfmapElements
<1>11. FilterElements(q) = W * F
  <2>1. F * W * 1 * 1 = W * F
    BY <1>1 DEF Pos
  <2> QED BY <1>8, <2>1 DEF FilterElements, FilterSize
<1>12. OfmapElements(q) = H * F
  BY <1>8 DEF OfmapElements
<1>13. IsTile(arch, q, p, Whole(p), 0, 0, 0)
  <2>1. p.ifmap + 0 * u = p.ifmap /\ p.filter + 0 * u = p.filter /\ p.ofmap + 0 * u = p.ofmap
    <3>1. u \in Int /\ p.ifmap \in Int /\ p.filter \in Int /\ p.ofmap \in Int
      BY DEF RowIn, Arch
    <3> HIDE DEF u
    <3> QED BY <3>1
  <2> QED BY <1>6, <1>7, <1>8, <1>10, <1>11, <1>12, <2>1 DEF IsTile
<1>14. AreTiles(arch, rows, p, Whole(p))
  <2>1. rows = [n \in 1 .. 1 |-> rows[n]] /\ rows[1] = q /\ 1 - 1 = 0 /\ 1 \in Pos
    BY <1>9 DEF Pos
  <2>2. \A n \in 1 .. 1 : n = 1
    OBVIOUS
  <2> HIDE DEF rows
  <2> QED BY <1>3, <1>4, <1>5, <1>8, <1>13, <2>1, <2>2 DEF AreTiles
<1>15. \A n \in DOMAIN rows : rows[n].type = "Ineff_Dir_Tile_Gemm"
  <2> HIDE DEF rows
  <2>1. DOMAIN rows = 1 .. 1 /\ rows[1] = q
    BY <1>9
  <2> QED BY <1>8, <2>1
<1> QED BY <1>1, <1>14, <1>15

-----------------------------------------------------------------------------
(* The bands of a matrix-vector product: all of b elements except for the   *)
(* last, which has e. If nothing is left unassigned they are as large as the *)
(* rows they stand for, or larger.                                         *)
Heights(a, p) == BandHeight(a, p)
BandsOfVector(a, p) == CeilDiv(p.ifmap_height, Heights(a, p))
RowsInBand(a, p, n) == Part(n - 1, Heights(a, p), p.ifmap_height)
IsBand(a, q, p, n, b, e) ==
  /\ q.name = p.name /\ q.type = "Gemv" /\ q.filter_height = RowsInBand(a, p, n)
  /\ q.filter = p.filter
  /\ q.ifmap = p.ifmap + ((n - 1) * b) * a.element_unit
  /\ q.ofmap = p.ofmap + (Heights(a, p) * (n - 1)) * a.element_unit
  /\ IfmapElements(q) = IF n < BandsOfVector(a, p) THEN b ELSE e
LargeEnough(a, p, b, e) ==
  /\ Heights(a, p) * p.ifmap_width <= b
  /\ RowsInBand(a, p, BandsOfVector(a, p)) * p.ifmap_width <= e
AreBands(a, rows, p) ==
  LET C == BandsOfVector(a, p)
  IN /\ Heights(a, p) \in Pos /\ C \in Pos /\ rows = [n \in 1 .. C |-> rows[n]]
     /\ \E b, e \in Nat : /\ ~Unassigned(a, p) => LargeEnough(a, p, b, e)
                          /\ \A n \in 1 .. C : IsBand(a, rows[n], p, n, b, e)

(* Bands are not empty if a vector leaves room in the scratchpad.          *)
LEMMA HeightsOfBands ==
  ASSUME arch \in Arch, NEW p \in RowIn(Int),
         p.ifmap_width < Capacity(arch) \div arch.element_unit
  PROVE  Heights(arch, p) \in Pos
<1> DEFINE sum == Capacity(arch) \div arch.element_unit
<1>1. p.ifmap_height \in Pos /\ p.ifmap_width \in Pos
  BY DEF RowIn
<1>2. sum \in Nat
  <2>1. Capacity(arch) \in Nat /\ arch.element_unit \in Pos
    BY DEF Capacity, Arch, Pos
  <2> QED BY <2>1, Quotient
<1>3. p.ifmap_width < sum
  OBVIOUS
<1> HIDE DEF sum
<1>4. sum - p.ifmap_width \in Pos /\ p.ifmap_width + 1 \in Pos
  BY <1>1, <1>2, <1>3 DEF Pos
<1>5. CeilDiv(sum - p.ifmap_width, p.ifmap_width + 1) \in Pos
  BY <1>4, CeilDivBounds
<1> QED BY <1>1, <1>5 DEF Heights, BandHeight, sum

(* Addresses of bands are defined by recursion, too.                       *)
Steady(sums, many, from, step, unit) ==
  sums[1] = from /\ \A n \in 1 .. many : n # 1 => sums[n] = sums[n - 1] + step * unit

(* A running sum over steps of one size.                                   *)
LEMMA SteadySum ==
  ASSUME NEW many \in Pos, NEW from \in Int, NEW step \in Nat, NEW unit \in Pos,
         NEW sums, Steady(sums, many, from, step, unit)
  PROVE  \A n \in 1 .. many : sums[n] = from + ((n - 1) * step) * unit
<1> DEFINE place(n) == from + ((n - 1) * step) * unit
           T == {n \in Nat : n + 1 \in 1 .. many => sums[n + 1] = place(n + 1)}
<1>1. 0 \in T
  <2>1. 0 + 1 \in 1 .. many /\ 0 + 1 = 1
    BY DEF Pos
  <2>2. sums[1] = from
    BY DEF Steady
  <2>3. place(1) = from
    BY DEF Pos
  <2> HIDE DEF place
  <2> QED BY <2>1, <2>2, <2>3
<1>2. ASSUME NEW n \in Nat, n \in T
      PROVE  n + 1 \in T
  <2> SUFFICES ASSUME (n + 1) + 1 \in 1 .. many PROVE sums[(n + 1) + 1] = place((n + 1) + 1)
    OBVIOUS
  <2>1. n + 1 \in 1 .. many /\ (n + 1) + 1 # 1 /\ ((n + 1) + 1) - 1 = n + 1 /\ (n + 1) - 1 = n
    BY DEF Pos
  <2>2. sums[(n + 1) + 1] = sums[n + 1] + step * unit
    BY <2>1 DEF Steady
  <2>3. sums[n + 1] = from + (n * step) * unit
    BY <1>2, <2>1
  <2>4. (n * step) * unit + step * unit = ((n + 1) * step) * unit
    <3>1. (n + 1) * step = n * step + step
      OBVIOUS
    <3>2. (n * step + step) * unit = (n * step) * unit + step * unit
      BY NatProduct, Distributes DEF Pos
    <3> QED BY <3>1, <3>2
  <2>5. (n * step) * unit \in Int /\ step * unit \in Int
    <3>1. n * step \in Nat /\ unit \in Nat
      BY NatProduct DEF Pos
    <3> QED BY <3>1, NatProduct
  <2>6. sums[(n + 1) + 1] = from + ((n + 1) * step) * unit
    BY <2>2, <2>3, <2>4, <2>5
  <2> QED BY <2>1, <2>6
<1> HIDE DEF T
<1>3. \A n \in Nat : n \in T
  BY <1>1, <1>2, NumbersInduction
<1>4. \A n \in 1 .. many : n - 1 \in Nat /\ (n - 1) + 1 = n
  BY DEF Pos
<1> QED BY <1>3, <1>4 DEF T

(* GemvTranslation cuts a matrix-vector product into bands.                *)
LEMMA GemvAreBands ==
  ASSUME arch \in Arch, NEW p \in RowIn(Int), p.type = "Gemv",
         p.ifmap_width < Capacity(arch) \div arch.element_unit,
         NEW unassigned, unassigned.h \in Nat, unassigned.w \in Nat
  PROVE  AreBands(arch, GemvTranslation(arch, p, unassigned), p)
<1> DEFINE H == p.ifmap_height
           W == p.ifmap_width
           h == Heights(arch, p)
           C == BandsOfVector(arch, p)
           S == arch.systolic_height
           u == arch.element_unit
           rows(n) == IF n < C THEN h ELSE H - h * (C - 1)
           reshaped == [h |-> S, w |-> CeilDiv(h * W, S)]
           size(n) == CASE n < C /\ Unassigned(arch, p) -> unassigned
                        [] n < C /\ ~Unassigned(arch, p) -> reshaped
                        [] n = C /\ rows(n) > S -> reshaped
                        [] OTHER -> [h |-> rows(n), w |-> W]
           b == IF Unassigned(arch, p) THEN unassigned.h * unassigned.w
                                       ELSE reshaped.h * reshaped.w
           e == IF rows(C) > S THEN reshaped.h * reshaped.w ELSE rows(C) * W
           Places(f) == f = [n \in 1 .. C |->
                              IF n = 1 THEN p.ifmap
                              ELSE f[n - 1] + size(n - 1).h * size(n - 1).w * u]
           result == GemvTranslation(arch, p, unassigned)
<1>1. result = [n \in 1 .. C |->
       [p EXCEPT !.ifmap_height = size(n).h, !.ifmap_width = size(n).w,
                 !.filter_height = rows(n), !.filter_width = 1, !.filter_depth = 1,
                 !.filter_num = 1, !.stride = 1, !.ifmap = (CHOOSE f : Places(f))[n],
                 !.ofmap = p.ofmap + h * (n - 1) * u]]
  BY DEF GemvTranslation, Heights, BandsOfVector
<1>2. /\ H \in Pos /\ W \in Pos /\ S \in Pos /\ u \in Pos /\ h \in Pos /\ p.ifmap \in Int
  BY HeightsOfBands DEF RowIn, Arch, Pos
<1>3. C \in Pos /\ C = CeilDiv(H, h)
  BY <1>2, CeilDivBounds DEF BandsOfVector
<1>4. \A n \in 1 .. C : rows(n) = RowsInBand(arch, p, n) /\ RowsInBand(arch, p, n) \in 1 .. h
  <2> TAKE n \in 1 .. C
  <2>1. n - 1 \in 0 .. C - 1 /\ (n - 1 = C - 1) = (n = C) /\ (n < C) = (n # C)
    BY <1>3 DEF Pos
  <2> HIDE DEF H, h, C
  <2>2. /\ Part(n - 1, h, H) \in 1 .. h
        /\ Part(n - 1, h, H) = IF n - 1 = C - 1 THEN H - h * (n - 1) ELSE h
    BY <1>2, <1>3, <2>1, PartSize
  <2> QED BY <2>1, <2>2 DEF RowsInBand, H, h
<1>5. reshaped.h * reshaped.w \in Nat /\ h * W <= reshaped.h * reshaped.w /\ h * W \in Pos
  <2> DEFINE x == h * W
  <2>1. x \in Pos
    BY <1>2, PosProduct
  <2> HIDE DEF x, S
  <2>2. CeilDiv(x, S) \in Nat /\ x <= S * CeilDiv(x, S) /\ S * CeilDiv(x, S) \in Nat
    BY <1>2, <2>1 DEF CeilDiv, Pos
  <2> QED BY <2>1, <2>2 DEF x
<1>6. C \in 1 .. C /\ rows(C) \in 1 .. h /\ rows(C) = RowsInBand(arch, p, C)
  BY <1>3, <1>4 DEF Pos
<1>7. rows(C) * W \in Nat /\ rows(C) * W <= h * W
  <2>1. rows(C) \in Nat /\ rows(C) <= h /\ h \in Nat /\ W \in Nat
    BY <1>2, <1>6 DEF Pos
  <2> HIDE DEF h, W, rows
  <2> QED BY <2>1, NatProduct, Monotone
<1>8. b \in Nat /\ e \in Nat /\ (~Unassigned(arch, p) => LargeEnough(arch, p, b, e))
  <2> HIDE DEF reshaped, h, W, rows
  <2>1. b \in Nat
    BY <1>5, NatProduct
  <2>2. e \in Nat /\ rows(C) * W <= e
    BY <1>2, <1>5, <1>7 DEF Pos
  <2>3. ~Unassigned(arch, p) => h * W <= b
    BY <1>5
  <2> HIDE DEF b, e
  <2>4. LargeEnough(arch, p, b, e) <=> (h * W <= b /\ rows(C) * W <= e)
    BY <1>6 DEF LargeEnough, h, W
  <2> QED BY <2>1, <2>2, <2>3, <2>4
<1>9. \A n \in 1 .. C : size(n).h * size(n).w = IF n < C THEN b ELSE e
  <2> TAKE n \in 1 .. C
  <2>1. n < C \/ (n = C /\ ~(n < C))
    BY <1>3 DEF Pos
  <2> HIDE DEF rows, reshaped, C, S
  <2> QED BY <2>1
<1> HIDE DEF result, size, b, e
<1>10. (CHOOSE f : Places(f)) = [n \in 1 .. C |-> p.ifmap + ((n - 1) * b) * u]
  <2> DEFINE Solves(f) == f = [n \in 1 .. C |-> IF n = 1 THEN p.ifmap ELSE f[n - 1] + b * u]
             placed == [n \in 1 .. C |-> p.ifmap + ((n - 1) * b) * u]
  <2>1. \A f : Places(f) <=> Solves(f)
    <3> TAKE f
    <3>1. \A n \in 1 .. C : n # 1 => size(n - 1).h * size(n - 1).w * u = b * u
      <4> TAKE n \in 1 .. C
      <4> HAVE n # 1
      <4>1. n - 1 \in 1 .. C /\ n - 1 < C
        BY <1>3 DEF Pos
      <4> QED BY <1>9, <4>1
    <3> HIDE DEF C
    <3> QED BY <3>1
  <2> HIDE DEF Places
  <2>2. Solves(placed)
    <3>1. ASSUME NEW n \in 1 .. C
          PROVE  placed[n] = IF n = 1 THEN p.ifmap ELSE placed[n - 1] + b * u
      <4>1. CASE n = 1
        <5>1. ((n - 1) * b) * u = 0 /\ p.ifmap + 0 = p.ifmap
          BY <1>2, <1>8, <4>1 DEF Pos
        <5> HIDE DEF u
        <5> QED BY <4>1, <5>1
      <4>2. CASE n # 1
        <5>1. n - 1 \in 1 .. C /\ (n - 1) - 1 \in Nat /\ n - 1 \in Nat
          BY <1>3, <4>2 DEF Pos
        <5> DEFINE k == (n - 1) - 1
        <5>2. k \in Nat /\ n - 1 = k + 1
          BY <5>1
        <5>3. placed[n - 1] = p.ifmap + (k * b) * u /\ placed[n] = p.ifmap + ((k + 1) * b) * u
          BY <5>1, <5>2
        <5> HIDE DEF k, placed, u
        <5>4. ((k + 1) * b) * u = (k * b) * u + b * u
          <6>1. (k + 1) * b = k * b + b /\ k * b \in Nat
            BY <1>8, <5>2, NatProduct
          <6>2. (k * b + b) * u = (k * b) * u + b * u
            BY <1>2, <1>8, <6>1, Distributes DEF Pos
          <6> QED BY <6>1, <6>2
        <5>5. (k * b) * u \in Int /\ b * u \in Int
          <6>1. k * b \in Nat /\ u \in Nat
            BY <1>2, <1>8, <5>2, NatProduct DEF Pos
          <6> QED BY <1>8, <6>1, NatProduct
        <5> QED BY <1>2, <4>2, <5>3, <5>4, <5>5
      <4> QED BY <4>1, <4>2
    <3>2. placed = [n \in 1 .. C |-> placed[n]]
      OBVIOUS
    <3> HIDE DEF placed
    <3> QED BY <3>1, <3>2
  <2>3. ASSUME NEW f, Solves(f)
        PROVE  f = placed
    <3>1. \A n \in 1 .. C : f[n] = p.ifmap + ((n - 1) * b) * u
      <4>1. f[1] = p.ifmap /\ \A n \in 1 .. C : n # 1 => f[n] = f[n - 1] + b * u
        <5>1. 1 \in 1 .. C
          BY <1>3 DEF Pos
        <5> HIDE DEF C
        <5> QED BY <2>3, <5>1
      <4> DEFINE base == p.ifmap
      <4>2. C \in Pos /\ u \in Pos /\ base \in Int /\ b \in Nat
        BY <1>2, <1>3, <1>8
      <4>3. Steady(f, C, base, b, u)
        BY <4>1 DEF Steady
      <4> HIDE DEF C, u, Solves, placed, base
      <4>4. \A n \in 1 .. C : f[n] = base + ((n - 1) * b) * u
        BY <4>2, <4>3, SteadySum
      <4> QED BY <4>4 DEF base
    <3>2. f = [n \in 1 .. C |-> f[n]]
      BY <2>3
    <3> QED BY <3>1, <3>2
  <2> HIDE DEF Solves, placed
  <2>4. Places(CHOOSE f : Places(f))
    BY <2>1, <2>2
  <2>5. (CHOOSE f : Places(f)) = placed
    BY <2>1, <2>3, <2>4
  <2> QED BY <2>5 DEF placed
<1>11. ASSUME NEW n \in 1 .. C
       PROVE  IsBand(arch, result[n], p, n, b, e)
  <2> DEFINE q == result[n]
             place == p.ifmap + ((n - 1) * b) * u
  <2>1. q = [p EXCEPT !.ifmap_height = size(n).h, !.ifmap_width = size(n).w,
                 !.filter_height = rows(n), !.filter_width = 1, !.filter_depth = 1,
                 !.filter_num = 1, !.stride = 1, !.ifmap = place,
                 !.ofmap = p.ofmap + h * (n - 1) * u]
    <3> HIDE DEF Places, rows, C
    <3> QED BY <1>1, <1>10
  <2>2. size(n).h * size(n).w = IF n < C THEN b ELSE e
    BY <1>9
  <2>3. rows(n) = RowsInBand(arch, p, n)
    BY <1>4
  <2> HIDE DEF q, rows, h, C, place
  <2>4. /\ q.name = p.name /\ q.type = "Gemv" /\ q.filter_height = rows(n)
        /\ q.filter = p.filter /\ q.ifmap = place /\ q.ofmap = p.ofmap + (h * (n - 1)) * u
        /\ q.ifmap_height = size(n).h /\ q.ifmap_width = size(n).w /\ q.filter_depth = 1
    BY <2>1 DEF RowIn
  <2>5. IfmapElements(q) = IF n < C THEN b ELSE e
    <3>1. size(n).h * size(n).w * 1 = size(n).h * size(n).w
      BY <1>8, <2>2
    <3> QED BY <2>2, <2>4, <3>1 DEF IfmapElements
  <2> QED BY <2>3, <2>4, <2>5 DEF IsBand, q, h, C, place
<1>12. result = [n \in 1 .. C |-> result[n]]
  BY DEF GemvTranslation, Heights, BandsOfVector, result
<1> QED BY <1>2, <1>3, <1>8, <1>11, <1>12 DEF AreBands, result

(* Bands behind a first row lie one behind the other, reach the end of the  *)
(* matrix, and cut the result.                                             *)
LEMMA VectorTiled ==
  ASSUME NEW i, NEW p, NEW first \in Nat, NEW b \in Nat, NEW e \in Nat,
         arch.element_unit \in Pos, p.ifmap_height \in Pos, p.ifmap_width \in Pos,
         Heights(arch, p) \in Pos, p.ifmap \in Int, p.ofmap \in Int,
         network[i].ifmap_height = p.ifmap_height, network[i].ifmap_width = p.ifmap_width,
         gen.ifmap_base_addr_array[i] = p.ifmap, gen.ofmap_base_addr_array[i] = p.ofmap,
         RowsOf(i) = {first + n : n \in 1 .. BandsOfVector(arch, p)},
         ~Unassigned(arch, p) => LargeEnough(arch, p, b, e),
         \A n \in 1 .. BandsOfVector(arch, p) : IsBand(arch, config[first + n], p, n, b, e)
  PROVE  VectorTiles(i)
<1> DEFINE H == p.ifmap_height
           W == p.ifmap_width
           h == Heights(arch, p)
           C == BandsOfVector(arch, p)
           u == arch.element_unit
           base == p.ifmap
           bytes == b * u
           rest == e * u
           total == (H * W) * u
           own == {config[n] : n \in RowsOf(i)}
           Ns == 1 .. C
<1>1. Unassigned(arch, network[i]) = Unassigned(arch, p)
  BY DEF Unassigned, BandHeight
<1>2. SUFFICES ASSUME ~Unassigned(arch, p)
               PROVE  /\ Bytes(base, H * W) \subseteq UNION {IfmapBytes(q) : q \in own}
                      /\ \A x, y \in own : x # y => IfmapBytes(x) \cap IfmapBytes(y) = {}
                      /\ Partition({OfmapBytes(q) : q \in own}, Bytes(p.ofmap, H))
  BY <1>1 DEF VectorTiles
<1>3. H \in Pos /\ W \in Pos /\ h \in Pos /\ u \in Pos /\ base \in Int
  OBVIOUS
<1>4. C \in Pos /\ C = CeilDiv(H, h)
  BY CeilDivBounds DEF BandsOfVector
<1>5. h * W <= b /\ RowsInBand(arch, p, C) * W <= e /\ h * W \in Pos
  BY <1>2, PosProduct DEF LargeEnough
<1> HIDE DEF H, W, h, C, u, base
<1>6. bytes \in Pos /\ rest \in Nat
  <2>1. b \in Pos
    BY <1>5 DEF Pos
  <2>2. u \in Nat
    BY <1>3 DEF Pos
  <2> QED BY <1>3, <2>1, <2>2, PosProduct, NatProduct
<1>7. total <= (C - 1) * bytes + rest /\ total \in Nat
  <2> DEFINE R == RowsInBand(arch, p, C)
             k == C - 1
  <2>1. k \in Nat /\ R \in Nat /\ H = h * k + R
    <3>1. k \in 0 .. C - 1 /\ k \in Nat
      BY <1>4 DEF Pos
    <3>2. R = Part(k, h, H)
      BY DEF RowsInBand, h, H
    <3>3. h * k \in Nat /\ R \in 1 .. h /\ R = H - h * k
      BY <1>3, <1>4, <3>1, <3>2, PartSize
    <3> HIDE DEF R, k
    <3> QED BY <1>3, <3>1, <3>3 DEF Pos
  <2>2. R * W <= e
    BY <1>5
  <2> HIDE DEF R, k
  <2>3. h * k \in Nat /\ h * W \in Nat /\ W \in Nat /\ u \in Nat /\ h \in Nat
    BY <1>3, <2>1, NatProduct DEF Pos
  <2>4. H * W = k * (h * W) + R * W
    <3>1. (h * k + R) * W = (h * k) * W + R * W
      BY <2>1, <2>3, Distributes
    <3>2. (h * k) * W = (k * h) * W /\ (k * h) * W = k * (h * W)
      BY <2>1, <2>3, Commutes, Associates
    <3> QED BY <2>1, <3>1, <3>2
  <2>5. k * (h * W) <= k * b
    BY <1>5, <2>1, <2>3, Monotone
  <2>6. k * (h * W) \in Nat /\ k * b \in Nat /\ R * W \in Nat
    BY <2>1, <2>3, NatProduct
  <2>7. H * W <= k * b + e /\ H * W \in Nat /\ k * b + e \in Nat
    BY <2>2, <2>4, <2>5, <2>6
  <2>8. (H * W) * u <= (k * b + e) * u
    BY <2>3, <2>7, Monotone
  <2>9. (k * b + e) * u = (k * b) * u + e * u
    BY <2>3, <2>6, Distributes
  <2>10. (k * b) * u = k * (b * u)
    BY <2>1, <2>3, Associates
  <2>11. (H * W) * u \in Nat
    BY <2>3, <2>7, NatProduct
  <2> QED BY <2>8, <2>9, <2>10, <2>11 DEF k
<1>8. ASSUME NEW n \in Ns
      PROVE  LET q == config[first + n]
             IN /\ q \in own
                /\ IfmapBytes(q) = base + (n - 1) * bytes ..
                                   base + (n - 1) * bytes + (IF n < C THEN bytes ELSE rest) - 1
                /\ OfmapBytes(q) = Cell(h, H, 1, 1, p.ofmap, u, n - 1, 0)
                /\ (n - 1) * bytes \in Nat
  <2> DEFINE q == config[first + n]
  <2>1. IsBand(arch, q, p, n, b, e) /\ q \in own
    BY DEF C
  <2> HIDE DEF q, own
  <2>2. n - 1 \in Nat /\ u \in Nat
    BY <1>3, <1>4 DEF Pos
  <2>3. ((n - 1) * b) * u = (n - 1) * bytes
    <3> DEFINE m == n - 1
    <3>1. m \in Nat
      BY <2>2
    <3> HIDE DEF m
    <3>2. (m * b) * u = m * (b * u)
      BY <2>2, <3>1, Associates
    <3> QED BY <3>2 DEF m
  <2>4. q.ifmap = base + (n - 1) * bytes
    BY <2>1, <2>3 DEF IsBand, u, base
  <2>5. IfmapElements(q) * u = IF n < C THEN bytes ELSE rest
    BY <2>1 DEF IsBand, C
  <2>6. IfmapBytes(q) = base + (n - 1) * bytes ..
                        base + (n - 1) * bytes + (IF n < C THEN bytes ELSE rest) - 1
    <3> HIDE DEF bytes, rest
    <3> QED BY <2>4, <2>5 DEF IfmapBytes, Bytes, u
  <2>7. OfmapBytes(q) = Cell(h, H, 1, 1, p.ofmap, u, n - 1, 0)
    <3> DEFINE m == n - 1
    <3>1. q.ofmap = p.ofmap + (h * m) * u /\ OfmapElements(q) = Part(m, h, H)
      BY <2>1 DEF IsBand, OfmapElements, RowsInBand, u, h, H
    <3>2. h * m \in Nat /\ Part(m, h, H) \in Nat
      <4>1. m \in 0 .. C - 1
        BY <1>4 DEF Pos
      <4> HIDE DEF m
      <4> QED BY <1>3, <1>4, <4>1, PartSize DEF Pos
    <3> HIDE DEF m
    <3>3. CellStart(h, H, 1, 1, m, 0) = h * m
      <4>1. (h * m) * 1 + Part(m, h, H) * (1 * 0) = h * m
        BY <3>2
      <4> QED BY <4>1 DEF CellStart
    <3>4. CellSize(h, H, 1, 1, m, 0) = Part(m, h, H)
      <4>1. Part(0, 1, 1) = 1
        BY MinOfTwo DEF Part
      <4> QED BY <3>2, <4>1 DEF CellSize
    <3>5. OfmapBytes(q) = Cell(h, H, 1, 1, p.ofmap, u, m, 0)
      BY <3>1, <3>3, <3>4 DEF OfmapBytes, Bytes, Cell, u
    <3> QED BY <3>5 DEF m
  <2>8. (n - 1) * bytes \in Nat
    BY <1>6, <2>2, NatProduct DEF Pos
  <2> QED BY <2>1, <2>6, <2>7, <2>8 DEF q
<1>9. \A q \in own : \E n \in Ns : q = config[first + n]
  BY DEF C
<1> HIDE DEF bytes, rest, total, own
<1>10. ASSUME NEW x \in base .. base + total - 1
       PROVE  \E q \in own : x \in IfmapBytes(q)
  <2> DEFINE z == x - base
             m == z \div bytes
  <2>1. z \in Nat /\ z < total /\ x = base + z
    BY <1>3, <1>7
  <2> HIDE DEF z
  <2>2. m \in Nat /\ bytes * m <= z /\ z < bytes * m + bytes /\ bytes * m \in Nat
    <3>1. m \in Nat /\ z % bytes \in 0 .. bytes - 1 /\ z = bytes * m + (z % bytes)
      BY <1>6, <2>1, DivMod
    <3> HIDE DEF m
    <3>2. bytes * m \in Nat
      BY <1>6, <3>1, NatProduct DEF Pos
    <3> QED BY <1>6, <2>1, <3>1, <3>2 DEF Pos
  <2> HIDE DEF m
  <2>3. CASE m < C - 1
    <3>1. m + 1 \in Ns /\ m + 1 < C /\ (m + 1) - 1 = m
      BY <1>4, <2>2, <2>3 DEF Pos
    <3>2. IfmapBytes(config[first + (m + 1)]) = base + m * bytes .. base + m * bytes + bytes - 1
      BY <1>8, <3>1
    <3>3. m * bytes = bytes * m
      BY <1>6, <2>2, Commutes DEF Pos
    <3>4. x \in base + bytes * m .. base + bytes * m + bytes - 1
      BY <1>3, <1>6, <2>1, <2>2 DEF Pos
    <3> QED BY <1>8, <3>1, <3>2, <3>3, <3>4
  <2>4. CASE ~(m < C - 1)
    <3> DEFINE k == C - 1
    <3>1. C \in Ns /\ ~(C < C) /\ k \in Nat /\ k <= m
      BY <1>4, <2>2, <2>4 DEF Pos
    <3>2. IfmapBytes(config[first + C]) = base + k * bytes .. base + k * bytes + rest - 1
      BY <1>8, <3>1
    <3>3. total <= k * bytes + rest
      BY <1>7
    <3> HIDE DEF k
    <3>4. k * bytes = bytes * k /\ bytes * k <= bytes * m /\ bytes * k \in Nat
      BY <1>6, <2>2, <3>1, Commutes, Monotone, NatProduct DEF Pos
    <3>5. x \in base + bytes * k .. base + bytes * k + rest - 1
      BY <1>3, <1>6, <1>7, <2>1, <2>2, <3>3, <3>4 DEF Pos
    <3> QED BY <1>8, <3>1, <3>2, <3>4, <3>5
  <2> QED BY <2>3, <2>4
<1>11. ASSUME NEW x \in own, NEW y \in own, x # y
       PROVE  IfmapBytes(x) \cap IfmapBytes(y) = {}
  <2>1. ASSUME NEW m \in Ns, NEW n \in Ns, m < n
        PROVE  IfmapBytes(config[first + m]) \cap IfmapBytes(config[first + n]) = {}
    <3> DEFINE k == m - 1
               v == n - 1
    <3>1. k \in Nat /\ v \in Nat /\ k + 1 <= v /\ m < C
      BY <1>4, <2>1 DEF Pos
    <3>2. /\ IfmapBytes(config[first + m]) = base + k * bytes .. base + k * bytes + bytes - 1
          /\ IfmapBytes(config[first + n])
               = base + v * bytes .. base + v * bytes + (IF n < C THEN bytes ELSE rest) - 1
          /\ k * bytes \in Nat /\ v * bytes \in Nat
      BY <1>8, <3>1
    <3> HIDE DEF k, v
    <3>3. (k + 1) * bytes <= v * bytes
      BY <1>6, <3>1, Monotone DEF Pos
    <3>4. (k + 1) * bytes = k * bytes + bytes
      BY <1>6, <3>1 DEF Pos
    <3>5. \A c \in base + k * bytes .. base + k * bytes + bytes - 1 : c < base + v * bytes
      BY <1>3, <1>6, <3>2, <3>3, <3>4, SMTT(30) DEF Pos
    <3>6. \A c \in base + v * bytes .. base + v * bytes + (IF n < C THEN bytes ELSE rest) - 1 :
            ~(c < base + v * bytes)
      BY <1>3, <1>6, <3>2 DEF Pos
    <3> QED BY <3>2, <3>5, <3>6
  <2>2. PICK m \in Ns, n \in Ns : x = config[first + m] /\ y = config[first + n]
    BY <1>9
  <2>3. m < n \/ n < m
    <3>1. m # n /\ m \in Int /\ n \in Int
      BY <1>11, <2>2
    <3> QED BY <3>1
  <2> QED BY <2>1, <2>2, <2>3
<1>12. Partition({OfmapBytes(q) : q \in own}, p.ofmap .. p.ofmap + H * u - 1)
  <2> DEFINE parts == {OfmapBytes(q) : q \in own}
  <2>1. \A c \in Bands(1, 1) : c = 0
    BY DEF Bands, CeilDiv
  <2>2. 0 \in Bands(1, 1) /\ 1 \in Pos /\ p.ofmap \in Int
    BY DEF Bands, CeilDiv, Pos
  <2>3. \A n \in Ns : n - 1 \in Bands(h, H)
    BY <1>4 DEF Bands, Pos
  <2>4. \A c \in Bands(h, H) : c + 1 \in Ns /\ (c + 1) - 1 = c
    BY <1>4 DEF Bands, Pos
  <2>5. \A x \in parts : \E a \in Bands(h, H), c \in Bands(1, 1) : x = Cell(h, H, 1, 1, p.ofmap, u, a, c)
    BY <1>8, <1>9, <2>2, <2>3
  <2>6. \A a \in Bands(h, H), c \in Bands(1, 1) : Cell(h, H, 1, 1, p.ofmap, u, a, c) \in parts
    BY <1>8, <2>1, <2>4
  <2> HIDE DEF parts
  <2>7. Partition(parts, p.ofmap .. p.ofmap + (H * 1) * u - 1)
    BY <1>3, <2>2, <2>5, <2>6, PartitionByCells
  <2>8. H * 1 = H
    BY <1>3 DEF Pos
  <2> QED BY <2>7, <2>8 DEF parts
<1>13. /\ Bytes(base, H * W) = base .. base + total - 1
       /\ Bytes(p.ofmap, H) = p.ofmap .. p.ofmap + H * u - 1
  BY DEF Bytes, total, u
<1> QED BY <1>10, <1>11, <1>12, <1>13

-----------------------------------------------------------------------------
(* Addresses: what the generator remembers, and the rows it makes.         *)

(* The generator after any number of layers.                               *)
Generator == [ofmap_base_addr : Nat, new_space_addr : Nat, ifmap_base_addr_array : Seq(Nat),
              ofmap_base_addr_array : Seq(Nat), filter_base_addr_array : Seq(Nat)]

(* A reference by number that is in the array.                             *)
InArrays(ref, results, inputs) ==
  (ref \in 1 .. results /\ ref <= BOUNDARY) \/ ref - BOUNDARY \in 1 .. inputs

(* A reference by number that is in the array names an address.            *)
LEMMA NamedIsAddress ==
  ASSUME NEW g \in Generator, NEW inputs \in Seq(Nat), NEW ref \in Int,
         InArrays(ref, Len(g.ofmap_base_addr_array), Len(inputs))
  PROVE  Named(g, inputs, ref) \in Nat
<1>1. CASE ref <= BOUNDARY
  <2>1. ref \in 1 .. Len(g.ofmap_base_addr_array)
    BY <1>1, BoundaryAssumption DEF InArrays
  <2> QED BY <1>1, <2>1 DEF Named, Generator
<1>2. CASE ~(ref <= BOUNDARY)
  <2>1. ref - BOUNDARY \in 1 .. Len(inputs)
    BY <1>2 DEF InArrays
  <2> QED BY <1>2, <2>1 DEF Named
<1> QED BY <1>1, <1>2

(* A reference gives an address, and moves new_space_addr only.            *)
LEMMA ResolveIsAddress ==
  ASSUME NEW g \in Generator, NEW inputs \in Seq(Nat), NEW ref \in Int, NEW first \in BOOLEAN,
         NEW bytes \in Nat,
         first \/ ref \in {Sequential, NewSpace} \/ InArrays(ref, Len(g.ofmap_base_addr_array), Len(inputs))
  PROVE  LET s == Resolve(g, inputs, ref, first, bytes)
         IN /\ s.addr \in Nat
            /\ s.gen \in Generator
            /\ s.gen = [g EXCEPT !.new_space_addr = s.gen.new_space_addr]
<1> DEFINE s == Resolve(g, inputs, ref, first, bytes)
<1>1. s.addr \in Nat
  <2>1. CASE first
    BY <2>1 DEF Resolve
  <2>2. CASE ~first /\ ref = Sequential
    BY <2>2 DEF Resolve, Generator
  <2>3. CASE ~first /\ ref = NewSpace
    BY <2>3 DEF Resolve, Generator, Sequential, NewSpace
  <2>4. CASE ~first /\ ref \notin {Sequential, NewSpace}
    <3>1. Named(g, inputs, ref) \in Nat
      BY <2>4, NamedIsAddress
    <3> QED BY <2>4, <3>1 DEF Resolve
  <2> QED BY <2>1, <2>2, <2>3, <2>4
<1>2. s.gen \in Generator /\ s.gen = [g EXCEPT !.new_space_addr = s.gen.new_space_addr]
  <2>1. s.gen = IF first \/ ref = NewSpace
                THEN [g EXCEPT !.new_space_addr = @ + bytes] ELSE g
    BY DEF Resolve
  <2> HIDE DEF s
  <2>2. CASE first \/ ref = NewSpace
    <3> DEFINE n == g.new_space_addr + bytes
    <3>1. n \in Nat
      BY DEF Generator
    <3>2. s.gen = [g EXCEPT !.new_space_addr = n]
      BY <2>1, <2>2
    <3> HIDE DEF n
    <3> QED BY <3>1, <3>2 DEF Generator
  <2>3. CASE ~(first \/ ref = NewSpace)
    BY <2>1, <2>3 DEF Generator
  <2> QED BY <2>2, <2>3
<1> QED BY <1>1, <1>2

(* A layer with addresses.                                                 *)
AtAddresses(l, i, f, o) == [l EXCEPT !.ifmap = i, !.filter = f, !.ofmap = o]

(* A layer with addresses is a row of its type.                            *)
LEMMA PlacedRow ==
  ASSUME NEW l \in Layer, NEW i \in Nat, NEW f \in Nat, NEW o \in Nat
  PROVE  /\ AtAddresses(l, i, f, o) \in RowIn(Nat)
         /\ AtAddresses(l, i, f, o).ifmap = i /\ AtAddresses(l, i, f, o).filter = f
         /\ AtAddresses(l, i, f, o).ofmap = o
         /\ AtAddresses(l, i, f, o).type = l.type
  BY DEF AtAddresses, RowIn, Layer, Pos

Placed(g, s, l, i, f, o) ==
  /\ s.row = AtAddresses(l, i, f, o)
  /\ s.gen \in Generator
  /\ s.gen.ifmap_base_addr_array = g.ifmap_base_addr_array
  /\ s.gen.filter_base_addr_array = g.filter_base_addr_array
  /\ s.gen.ofmap_base_addr_array = Append(g.ofmap_base_addr_array, o)
(* The result gets an address, which is entered in the array.              *)
LEMMA PlaceOfmapIsAddress ==
  ASSUME NEW g \in Generator, NEW inputs \in Seq(Nat), NEW l \in Layer, NEW i \in Nat, NEW f \in Nat,
         NEW bytes \in Nat,
         l.ofmap = Sequential \/ InArrays(l.ofmap, Len(g.ofmap_base_addr_array), Len(inputs))
  PROVE  LET s == PlaceOfmap(g, inputs, l, i, f, bytes)
         IN \E o \in Nat : Placed(g, s, l, i, f, o)
<1> DEFINE o == IF l.ofmap = Sequential THEN g.new_space_addr ELSE Named(g, inputs, l.ofmap)
           s == PlaceOfmap(g, inputs, l, i, f, bytes)
<1>1. o \in Nat
  <2>1. l.ofmap \in Int
    BY DEF Layer
  <2> QED BY <2>1, NamedIsAddress DEF Generator
<1>2. s.row = AtAddresses(l, i, f, o)
  BY DEF PlaceOfmap, AtAddresses
<1> DEFINE n == IF l.ofmap = Sequential THEN g.new_space_addr + bytes ELSE g.new_space_addr
           q == Append(g.ofmap_base_addr_array, o)
<1>3. s.gen = [g EXCEPT !.ofmap_base_addr = o, !.ofmap_base_addr_array = q, !.new_space_addr = n]
  BY DEF PlaceOfmap
<1> HIDE DEF o, s
<1>4. q \in Seq(Nat) /\ n \in Nat
  BY <1>1 DEF Generator
<1> HIDE DEF n
<1>5. s.gen \in Generator
  <2> HIDE DEF q
  <2> QED BY <1>1, <1>3, <1>4 DEF Generator
<1>6. /\ s.gen.ifmap_base_addr_array = g.ifmap_base_addr_array
      /\ s.gen.filter_base_addr_array = g.filter_base_addr_array
      /\ s.gen.ofmap_base_addr_array = q
  BY <1>3 DEF Generator
<1>7. Placed(g, s, l, i, f, o)
  BY <1>2, <1>5, <1>6 DEF Placed
<1> QED BY <1>1, <1>7 DEF s

(* A generator after one layer more, whose row with addresses is p.        *)
Grown(g, h, p, vectors) ==
  /\ h \in Generator
  /\ h.ifmap_base_addr_array = Append(g.ifmap_base_addr_array, p.ifmap)
  /\ h.ofmap_base_addr_array = Append(g.ofmap_base_addr_array, p.ofmap)
  /\ Len(h.filter_base_addr_array) = Len(g.filter_base_addr_array) + vectors

(* Sizes of a layer.                                                       *)
LEMMA AsGemmSame ==
  ASSUME NEW l \in Layer, l.type \in Windowed => WindowInside(l)
  PROVE  AsGemm(l).type \in {"Conv", "Pool"} => WindowInside(AsGemm(l))
<1>1. AsGemm(l).type = l.type
  BY AsGemmIsLayer DEF Windowed
<1> QED BY <1>1 DEF AsGemm, Windowed

(* The sizes of the tensors of a layer.                                    *)
LEMMA SizesOfLayer ==
  ASSUME NEW l \in Layer, l.type \in {"Conv", "Pool"} => WindowInside(l)
  PROVE  /\ IfmapElements(l) \in Pos /\ FilterElements(l) \in Pos /\ ResultElements(l) \in Nat
         /\ WindowInside(l) => Windows(l) \in Pos
<1>1. /\ l.ifmap_height \in Pos /\ l.ifmap_width \in Pos /\ l.filter_height \in Pos
      /\ l.filter_width \in Pos /\ l.filter_depth \in Pos /\ l.filter_num \in Pos /\ l.stride \in Pos
  BY DEF Layer, Pos
<1>2. IfmapElements(l) \in Pos
  <2>1. l.ifmap_height * l.ifmap_width \in Pos
    BY <1>1, PosProduct
  <2> QED BY <1>1, <2>1, PosProduct DEF IfmapElements
<1>3. FilterElements(l) \in Pos
  <2>1. l.filter_width * l.filter_height \in Pos
    BY <1>1, PosProduct
  <2>2. FilterSize(l) \in Pos
    BY <1>1, <2>1, PosProduct DEF FilterSize
  <2> QED BY <1>1, <2>2, PosProduct DEF FilterElements
<1>4. ASSUME WindowInside(l)
      PROVE  OfmapWidth(l) \in Pos /\ OfmapHeight(l) \in Pos /\ OfmapWidth(l) * OfmapHeight(l) \in Pos
  <2>1. ASSUME NEW x \in Nat, NEW y \in Pos
        PROVE  CeilDiv(x, y) + 1 \in Pos
    BY DEF CeilDiv, Pos
  <2>2. l.ifmap_width - l.filter_width \in Nat /\ l.ifmap_height - l.filter_height \in Nat
    BY <1>1, <1>4 DEF WindowInside, Pos
  <2>3. OfmapWidth(l) \in Pos /\ OfmapHeight(l) \in Pos
    BY <1>1, <2>1, <2>2 DEF OfmapWidth, OfmapHeight
  <2> QED BY <2>3, PosProduct
<1>5. WindowInside(l) => Windows(l) \in Pos
  BY <1>4 DEF Windows
<1>6. ResultElements(l) \in Nat
  <2>1. CASE l.type \in {"Conv", "Pool"}
    <3>1. (OfmapWidth(l) * OfmapHeight(l)) * l.filter_num \in Pos
      BY <1>1, <1>4, <2>1, PosProduct
    <3> QED BY <2>1, <3>1 DEF ResultElements, Pos
  <2>2. CASE l.type \in {"Gemm", "Dir_Gemm", "Im2col_conv"}
    <3>1. l.ifmap_height * l.filter_width \in Pos
      BY <1>1, PosProduct
    <3> QED BY <2>2, <3>1 DEF ResultElements, Pos
  <2>3. CASE l.type \notin {"Conv", "Pool", "Gemm", "Dir_Gemm", "Im2col_conv"}
    BY <2>3 DEF ResultElements
  <2> QED BY <2>1, <2>2, <2>3
<1> QED BY <1>2, <1>3, <1>5, <1>6

(* A layer that is no matrix-vector product gets addresses.                *)
LEMMA LayerPlaced ==
  ASSUME NEW a \in Arch, NEW g \in Generator, NEW described \in Layer, NEW first \in BOOLEAN,
         described.type \in Windowed => WindowInside(described),
         first \/ described.ifmap \in {Sequential, NewSpace}
           \/ InArrays(described.ifmap, Len(g.ofmap_base_addr_array), Len(g.ifmap_base_addr_array)),
         described.ofmap = Sequential
           \/ InArrays(described.ofmap, Len(g.ofmap_base_addr_array), Len(g.ifmap_base_addr_array) + 1)
  PROVE  LET s == SetVariableConfig(a, g, described, first)
         IN \E i, f, o \in Nat :
              /\ s.row = AtAddresses(AsGemm(described), i, f, o)
              /\ Grown(g, s.gen, s.row, 0)
<1> DEFINE l == AsGemm(described)
           u == a.element_unit
           ifmap == Resolve(g, g.ifmap_base_addr_array, l.ifmap, first, IfmapElements(l) * u)
           g1 == [ifmap.gen EXCEPT !.ifmap_base_addr_array = Append(@, ifmap.addr)]
           filter == Resolve(g1, g1.ifmap_base_addr_array, FilterReference(l),
                        first /\ l.type # "Im2col_conv", FilterElements(l) * u)
           s == SetVariableConfig(a, g, described, first)
<1>1. s = PlaceOfmap(filter.gen, g1.ifmap_base_addr_array, l, ifmap.addr, filter.addr,
                     ResultElements(l) * u)
  BY DEF SetVariableConfig
<1>2. l \in Layer /\ l.type = described.type /\ l.ifmap = described.ifmap /\ l.ofmap = described.ofmap
  <2>1. l \in Layer /\ l.type = described.type
    BY AsGemmIsLayer DEF Windowed
  <2> QED BY <2>1 DEF AsGemm, Layer
<1> HIDE DEF l
<1>3. l.ifmap \in Int /\ l.ofmap \in Int
  BY <1>2 DEF Layer
<1>4. IfmapElements(l) * u \in Nat /\ FilterElements(l) * u \in Nat /\ ResultElements(l) * u \in Nat
  <2>1. u \in Nat
    BY DEF Arch
  <2>2. l.type \in {"Conv", "Pool"} => WindowInside(l)
    BY <1>2, AsGemmSame DEF l
  <2>3. IfmapElements(l) \in Nat /\ FilterElements(l) \in Nat /\ ResultElements(l) \in Nat
    BY <1>2, <2>2, SizesOfLayer DEF Windowed, Pos
  <2> HIDE DEF u
  <2> QED BY <2>1, <2>3, NatProduct
<1>5. /\ ifmap.addr \in Nat /\ ifmap.gen \in Generator
      /\ ifmap.gen = [g EXCEPT !.new_space_addr = ifmap.gen.new_space_addr]
  <2>1. g.ifmap_base_addr_array \in Seq(Nat)
    BY DEF Generator
  <2> QED BY <1>2, <1>3, <1>4, <2>1, ResolveIsAddress
<1> HIDE DEF ifmap
<1> DEFINE inputs == Append(g.ifmap_base_addr_array, ifmap.addr)
<1>6. /\ inputs \in Seq(Nat) /\ Len(inputs) = Len(g.ifmap_base_addr_array) + 1
      /\ Len(g.ifmap_base_addr_array) \in Nat
  BY <1>5 DEF Generator
<1>7. /\ g1 \in Generator /\ g1.ifmap_base_addr_array = inputs
      /\ g1.ofmap_base_addr_array = g.ofmap_base_addr_array
      /\ g1.filter_base_addr_array = g.filter_base_addr_array
  <2>1. g1 = [ifmap.gen EXCEPT !.ifmap_base_addr_array = inputs]
    BY <1>5 DEF Generator
  <2> HIDE DEF g1, inputs
  <2> QED BY <1>5, <1>6, <2>1 DEF Generator
<1> HIDE DEF g1, inputs
<1>8. /\ filter.addr \in Nat /\ filter.gen \in Generator
      /\ filter.gen = [g1 EXCEPT !.new_space_addr = filter.gen.new_space_addr]
  <2> DEFINE ref == FilterReference(l)
             alone == first /\ l.type # "Im2col_conv"
  <2>1. ref \in Int /\ alone \in BOOLEAN
    BY <1>3 DEF FilterReference, NewSpace
  <2>2. \/ alone \/ ref \in {Sequential, NewSpace}
        \/ InArrays(ref, Len(g1.ofmap_base_addr_array), Len(g1.ifmap_base_addr_array))
    <3>1. CASE l.type = "Im2col_conv"
      BY <3>1 DEF FilterReference
    <3>2. CASE l.type # "Im2col_conv"
      BY <1>2, <1>6, <1>7, <3>2 DEF FilterReference, InArrays
    <3> QED BY <3>1, <3>2
  <2>3. filter = Resolve(g1, g1.ifmap_base_addr_array, ref, alone, FilterElements(l) * u)
    OBVIOUS
  <2> HIDE DEF ref, alone, filter, u
  <2> QED BY <1>4, <1>6, <1>7, <2>1, <2>2, <2>3, ResolveIsAddress
<1> HIDE DEF filter
<1>9. /\ filter.gen.ofmap_base_addr_array = g.ofmap_base_addr_array
      /\ filter.gen.ifmap_base_addr_array = inputs
      /\ filter.gen.filter_base_addr_array = g.filter_base_addr_array
  BY <1>7, <1>8 DEF Generator
<1>10. PICK o \in Nat : Placed(filter.gen, s, l, ifmap.addr, filter.addr, o)
  <2> DEFINE g2 == filter.gen
             bytes == ResultElements(l) * u
             x == ifmap.addr
             y == filter.addr
  <2>1. /\ g2 \in Generator /\ x \in Nat /\ y \in Nat /\ bytes \in Nat
        /\ l.ofmap = Sequential \/ InArrays(l.ofmap, Len(g2.ofmap_base_addr_array), Len(inputs))
        /\ s = PlaceOfmap(g2, inputs, l, x, y, bytes)
    <3> HIDE DEF s, u
    <3> QED BY <1>1, <1>2, <1>4, <1>5, <1>6, <1>7, <1>8, <1>9
  <2> HIDE DEF g2, bytes, x, y, inputs, s
  <2>2. inputs \in Seq(Nat) /\ l \in Layer
    BY <1>2, <1>6
  <2>3. \E o \in Nat : Placed(g2, PlaceOfmap(g2, inputs, l, x, y, bytes), l, x, y, o)
    BY ONLY <2>1, <2>2, PlaceOfmapIsAddress
  <2> QED BY <2>1, <2>3 DEF g2, x, y
<1> HIDE DEF s, u
<1>11. /\ s.gen.ifmap_base_addr_array = inputs
       /\ s.gen.ofmap_base_addr_array = Append(g.ofmap_base_addr_array, o)
       /\ s.gen.filter_base_addr_array = g.filter_base_addr_array
  BY <1>9, <1>10 DEF Placed
<1>12. s.row.ifmap = ifmap.addr /\ s.row.ofmap = o
  BY <1>2, <1>5, <1>8, <1>10, PlacedRow DEF Placed
<1>13. Len(g.filter_base_addr_array) \in Nat
  BY DEF Generator
<1>14. Grown(g, s.gen, s.row, 0)
  BY <1>10, <1>11, <1>12, <1>13 DEF Grown, inputs, Placed
<1>15. s.row = AtAddresses(l, ifmap.addr, filter.addr, o)
  BY <1>10 DEF Placed
<1> QED BY <1>5, <1>8, <1>14, <1>15 DEF l, s

(* So does a matrix-vector product.                                        *)
LEMMA VectorPlaced ==
  ASSUME NEW a \in Arch, NEW g \in Generator, NEW l \in Layer, NEW first \in BOOLEAN,
         l.filter \in {Sequential, NewSpace}
           \/ InArrays(l.filter, Len(g.ofmap_base_addr_array), Len(g.filter_base_addr_array)),
         l.ofmap = Sequential
           \/ InArrays(l.ofmap, Len(g.ofmap_base_addr_array), Len(g.filter_base_addr_array) + 1)
  PROVE  LET s == SetVariableConfigGemv(a, g, l, first)
         IN \E i, f, o \in Nat :
              /\ s.row = AtAddresses(l, i, f, o)
              /\ Grown(g, s.gen, s.row, 1)
<1> DEFINE u == a.element_unit
           matrix == IF first THEN 0 ELSE g.new_space_addr
           g1 == [g EXCEPT !.new_space_addr = @ + l.ifmap_height * l.ifmap_width * u,
                           !.ifmap_base_addr_array = Append(@, matrix)]
           vector == Resolve(g1, g1.filter_base_addr_array, l.filter, FALSE, l.filter_height * u)
           g2 == [vector.gen EXCEPT !.filter_base_addr_array = Append(@, vector.addr)]
           s == SetVariableConfigGemv(a, g, l, first)
<1>1. s = PlaceOfmap(g2, g2.filter_base_addr_array, l, matrix, vector.addr, l.ifmap_height * u)
  BY DEF SetVariableConfigGemv
<1>2. l.filter \in Int /\ l.ofmap \in Int
  BY DEF Layer
<1>3. /\ l.ifmap_height * l.ifmap_width * u \in Nat /\ l.filter_height * u \in Nat
      /\ l.ifmap_height * u \in Nat
  <2>1. u \in Nat /\ l.ifmap_height \in Nat /\ l.ifmap_width \in Nat /\ l.filter_height \in Nat
    BY DEF Arch, Layer
  <2>2. l.ifmap_height * l.ifmap_width \in Nat
    BY <2>1, NatProduct
  <2> HIDE DEF u
  <2> QED BY <2>1, <2>2, NatProduct
<1>4. matrix \in Nat
  BY DEF Generator
<1> HIDE DEF matrix
<1> DEFINE matrices == Append(g.ifmap_base_addr_array, matrix)
           space == g.new_space_addr + l.ifmap_height * l.ifmap_width * u
<1>5. matrices \in Seq(Nat) /\ space \in Nat
  BY <1>3, <1>4 DEF Generator
<1>6. g1 = [g EXCEPT !.new_space_addr = space, !.ifmap_base_addr_array = matrices]
  OBVIOUS
<1> HIDE DEF g1, matrices, space
<1>7. /\ g1 \in Generator /\ g1.ifmap_base_addr_array = matrices
      /\ g1.ofmap_base_addr_array = g.ofmap_base_addr_array
      /\ g1.filter_base_addr_array = g.filter_base_addr_array
      /\ g1.filter_base_addr_array \in Seq(Nat)
  BY <1>5, <1>6 DEF Generator
<1>8. /\ vector.addr \in Nat /\ vector.gen \in Generator
      /\ vector.gen = [g1 EXCEPT !.new_space_addr = vector.gen.new_space_addr]
  <2>1. l.filter \in {Sequential, NewSpace}
          \/ InArrays(l.filter, Len(g1.ofmap_base_addr_array), Len(g1.filter_base_addr_array))
    BY <1>7
  <2> HIDE DEF g2, s
  <2> DEFINE inputs == g1.filter_base_addr_array
             bytes == l.filter_height * u
             never == FALSE
  <2>2. /\ vector = Resolve(g1, inputs, l.filter, never, bytes)
        /\ never \in BOOLEAN /\ bytes \in Nat /\ inputs \in Seq(Nat)
    BY <1>3, <1>7
  <2> HIDE DEF vector, u, never, inputs, bytes
  <2>3. l.filter \in {Sequential, NewSpace}
          \/ InArrays(l.filter, Len(g1.ofmap_base_addr_array), Len(inputs))
    BY <2>1 DEF inputs
  <2> QED BY <1>2, <1>7, <2>2, <2>3, ResolveIsAddress
<1> HIDE DEF vector
<1> DEFINE vectors == Append(g.filter_base_addr_array, vector.addr)
<1>9. /\ vectors \in Seq(Nat) /\ Len(vectors) = Len(g.filter_base_addr_array) + 1
      /\ Len(g.filter_base_addr_array) \in Nat
  BY <1>8 DEF Generator
<1>10. /\ g2 \in Generator /\ g2.filter_base_addr_array = vectors
       /\ g2.ifmap_base_addr_array = matrices
       /\ g2.ofmap_base_addr_array = g.ofmap_base_addr_array
  <2>1. g2 = [vector.gen EXCEPT !.filter_base_addr_array = vectors]
    BY <1>7, <1>8 DEF Generator
  <2>2. /\ vector.gen.ifmap_base_addr_array = matrices
        /\ vector.gen.ofmap_base_addr_array = g.ofmap_base_addr_array
    BY <1>7, <1>8 DEF Generator
  <2> HIDE DEF g2, vectors
  <2> QED BY <1>8, <1>9, <2>1, <2>2 DEF Generator
<1> HIDE DEF g2, vectors
<1>11. PICK o \in Nat : Placed(g2, s, l, matrix, vector.addr, o)
  <2> DEFINE bytes == l.ifmap_height * u
             y == vector.addr
  <2>1. /\ g2 \in Generator /\ matrix \in Nat /\ y \in Nat /\ bytes \in Nat
        /\ l.ofmap = Sequential \/ InArrays(l.ofmap, Len(g2.ofmap_base_addr_array), Len(vectors))
        /\ s = PlaceOfmap(g2, vectors, l, matrix, y, bytes)
    <3> HIDE DEF s, u
    <3> QED BY <1>1, <1>3, <1>4, <1>8, <1>9, <1>10
  <2> HIDE DEF bytes, y, s
  <2>2. \E o \in Nat : Placed(g2, PlaceOfmap(g2, vectors, l, matrix, y, bytes), l, matrix, y, o)
    BY <1>9, <2>1, PlaceOfmapIsAddress
  <2> QED BY <2>1, <2>2 DEF y
<1> HIDE DEF s, u
<1>12. s.row.ifmap = matrix /\ s.row.ofmap = o
  BY <1>4, <1>8, <1>11, PlacedRow DEF Placed
<1>13. Grown(g, s.gen, s.row, 1)
  BY <1>9, <1>10, <1>11, <1>12 DEF Grown, matrices, Placed
<1>14. s.row = AtAddresses(l, matrix, vector.addr, o)
  BY <1>11 DEF Placed
<1> QED BY <1>4, <1>8, <1>13, <1>14 DEF s

(* The largest of four numbers.                                            *)
LEMMA MaxOfFour ==
  ASSUME NEW w \in Int, NEW x \in Int, NEW y \in Int, NEW z \in Int
  PROVE  /\ Max({w, x, y, z}) \in Int
         /\ w <= Max({w, x, y, z}) /\ x <= Max({w, x, y, z})
         /\ y <= Max({w, x, y, z}) /\ z <= Max({w, x, y, z})
<1> DEFINE S == {w, x, y, z}
           m == IF w >= x THEN w ELSE x
           n == IF y >= z THEN y ELSE z
           k == IF m >= n THEN m ELSE n
<1>1. k \in S /\ w <= k /\ x <= k /\ y <= k /\ z <= k
  OBVIOUS
<1> HIDE DEF k
<1>2. k \in S /\ \A e \in S : e <= k
  BY <1>1
<1>3. Max(S) = CHOOSE e \in S : \A f \in S : f <= e
  BY DEF Max
<1>4. Max(S) \in S /\ \A f \in S : f <= Max(S)
  <2> HIDE DEF S
  <2> QED BY <1>2, <1>3
<1> QED BY <1>4

(* New space behind everything is an address, and moves forward.           *)
LEMMA SpaceMoves ==
  ASSUME NEW g \in Generator, NEW x \in Int, NEW y \in Int, NEW z \in Int,
         NEW h, h = [g EXCEPT !.new_space_addr = Max({@, x, y, z})]
  PROVE  /\ h \in Generator
         /\ h = [g EXCEPT !.new_space_addr = h.new_space_addr]
         /\ g.new_space_addr <= h.new_space_addr
         /\ x <= h.new_space_addr /\ y <= h.new_space_addr /\ z <= h.new_space_addr
<1> DEFINE n == Max({g.new_space_addr, x, y, z})
<1>1. g.new_space_addr \in Nat
  BY DEF Generator
<1>2. n \in Int /\ g.new_space_addr <= n /\ x <= n /\ y <= n /\ z <= n
  BY <1>1, MaxOfFour
<1>3. h = [g EXCEPT !.new_space_addr = n]
  OBVIOUS
<1> HIDE DEF n
<1>4. n \in Nat
  BY <1>1, <1>2
<1>5. h \in Generator /\ h.new_space_addr = n
  BY <1>3, <1>4 DEF Generator
<1> QED BY <1>2, <1>3, <1>5

(* The rows of a layer with addresses.                                     *)
LaidOut(a, rows, p) ==
  /\ p.type \in {"Gemm", "Im2col_conv"} =>
       Sized(p, GemmShape(a, p)) /\ AreTiles(a, rows, p, GemmShape(a, p))
  /\ p.type = "Dir_Gemm" => Sized(p, DirGemmShape(a, p)) /\ AreTiles(a, rows, p, DirGemmShape(a, p))
  /\ p.type = "Ineff_Dir_Gemm" =>
       /\ Sized(p, Whole(p)) /\ AreTiles(a, rows, p, Whole(p))
       /\ \A n \in DOMAIN rows : rows[n].type = "Ineff_Dir_Tile_Gemm"
  /\ p.type = "Gemv" => AreBands(a, rows, p)
  /\ p.type \in {"Conv", "Ineff_Conv", "Pool", "Other"} => rows = <<p>>

Vectors(net, n) == {j \in 1 .. n : net[j].type = "Gemv"}
IsVector(l) == IF l.type = "Gemv" THEN 1 ELSE 0

(* The generator after n layers has an address of each.                    *)
Arrays(g, net, n) ==
  /\ g \in Generator
  /\ Len(g.ifmap_base_addr_array) = n /\ Len(g.ofmap_base_addr_array) = n
  /\ Len(g.filter_base_addr_array) = Cardinality(Vectors(net, n))

(* A layer of the network with addresses.                                  *)
Resolved(net, i, p) ==
  p \in RowIn(Nat) /\ p = AtAddresses(AsGemm(net[i]), p.ifmap, p.filter, p.ofmap)

(* filter_base_addr_array grows with matrix-vector products.               *)
LEMMA VectorsCounted ==
  ASSUME NEW net, NEW n \in Nat
  PROVE  /\ IsFiniteSet(Vectors(net, n)) /\ Cardinality(Vectors(net, n)) \in Nat
         /\ Cardinality(Vectors(net, n + 1)) = Cardinality(Vectors(net, n)) + IsVector(net[n + 1])
<1>1. IsFiniteSet(1 .. n)
  BY FS_Interval
<1>2. IsFiniteSet(Vectors(net, n)) /\ Cardinality(Vectors(net, n)) \in Nat
  <2>1. Vectors(net, n) \subseteq 1 .. n
    BY DEF Vectors
  <2> QED BY <1>1, <2>1, FS_Subset, FS_CardinalityType
<1>3. CASE net[n + 1].type = "Gemv"
  <2>1. Vectors(net, n + 1) = Vectors(net, n) \cup {n + 1} /\ n + 1 \notin Vectors(net, n)
    BY <1>3 DEF Vectors
  <2>2. Cardinality(Vectors(net, n) \cup {n + 1}) = Cardinality(Vectors(net, n)) + 1
    BY <1>2, <2>1, FS_AddElement
  <2> QED BY <1>2, <1>3, <2>1, <2>2 DEF IsVector
<1>4. CASE net[n + 1].type # "Gemv"
  <2>1. Vectors(net, n + 1) = Vectors(net, n)
    BY <1>4 DEF Vectors
  <2> QED BY <1>2, <1>4, <2>1 DEF IsVector
<1> QED BY <1>2, <1>3, <1>4

(* References by number are in the arrays.                                 *)
LEMMA ReferencesInArrays ==
  ASSUME NEW net \in Networks, NEW n \in Nat, n + 1 \in DOMAIN net, NEW g, Arrays(g, net, n)
  PROVE  LET l == net[n + 1]
             results == Len(g.ofmap_base_addr_array)
             inputs == Len(g.ifmap_base_addr_array)
             vectors == Len(g.filter_base_addr_array)
         IN /\ l.type # "Gemv" =>
                 /\ \/ n = 0 \/ l.ifmap \in {Sequential, NewSpace}
                    \/ InArrays(l.ifmap, results, inputs)
                 /\ l.ofmap = Sequential \/ InArrays(l.ofmap, results, inputs + 1)
            /\ l.type = "Gemv" =>
                 /\ l.filter \in {Sequential, NewSpace} \/ InArrays(l.filter, results, vectors)
                 /\ l.ofmap = Sequential \/ InArrays(l.ofmap, results, vectors + 1)
<1> DEFINE l == net[n + 1]
           i == n + 1
           vector == l.type = "Gemv"
           input == IF vector THEN l.filter ELSE l.ifmap
           inputs == Cardinality({j \in 1 .. i - 1 : vector => net[j].type = "Gemv"})
           Names(ref, m) == (ref \in 1 .. i - 1 /\ ref <= BOUNDARY) \/ ref - BOUNDARY \in 1 .. m
<1>1. /\ i > 1 \/ vector => input \in {Sequential, NewSpace} \/ Names(input, inputs)
      /\ l.ofmap = Sequential \/ Names(l.ofmap, inputs + 1)
  BY ReferenceAssumption
<1>2. i - 1 = n /\ (i > 1 <=> n # 0)
  OBVIOUS
<1>3. inputs = IF vector THEN Len(g.filter_base_addr_array) ELSE Len(g.ifmap_base_addr_array)
  <2>1. CASE vector
    <3>1. {j \in 1 .. i - 1 : vector => net[j].type = "Gemv"} = Vectors(net, n)
      BY <1>2, <2>1 DEF Vectors
    <3> QED BY <2>1, <3>1 DEF Arrays
  <2>2. CASE ~vector
    <3>1. {j \in 1 .. i - 1 : vector => net[j].type = "Gemv"} = 1 .. n
      BY <1>2, <2>2
    <3>2. Cardinality(1 .. n) = n
      <4>1. Cardinality(1 .. n) = IF 1 > n THEN 0 ELSE n - 1 + 1
        BY FS_Interval
      <4> QED BY <4>1
    <3> QED BY <2>2, <3>1, <3>2 DEF Arrays
  <2> QED BY <2>1, <2>2
<1>4. Len(g.ofmap_base_addr_array) = n
  BY DEF Arrays
<1> HIDE DEF inputs, l, i
<1>5. \A ref, m : Names(ref, m) => InArrays(ref, n, m)
  BY <1>2 DEF InArrays
<1> HIDE DEF Names
<1>6. ~vector => /\ n = 0 \/ l.ifmap \in {Sequential, NewSpace}
                      \/ InArrays(l.ifmap, n, Len(g.ifmap_base_addr_array))
                 /\ l.ofmap = Sequential \/ InArrays(l.ofmap, n, Len(g.ifmap_base_addr_array) + 1)
  BY <1>1, <1>2, <1>3, <1>5
<1>7. vector => /\ l.filter \in {Sequential, NewSpace}
                     \/ InArrays(l.filter, n, Len(g.filter_base_addr_array))
                /\ l.ofmap = Sequential \/ InArrays(l.ofmap, n, Len(g.filter_base_addr_array) + 1)
  BY <1>1, <1>2, <1>3, <1>5
<1> QED BY <1>4, <1>6, <1>7 DEF l

(* The next layer gets addresses.                                          *)
AddressesOf(a, g, l, first) ==
  IF l.type = "Gemv" THEN SetVariableConfigGemv(a, g, l, first)
                     ELSE SetVariableConfig(a, g, l, first)

(* The next layer gets its addresses, and the arrays grow by them.         *)
LEMMA NextPlaced ==
  ASSUME NEW a \in Arch, NEW net \in Networks, NEW n \in Nat, n + 1 \in DOMAIN net,
         NEW g, Arrays(g, net, n)
  PROVE  LET s == AddressesOf(a, g, net[n + 1], n = 0)
         IN /\ Resolved(net, n + 1, s.row) /\ s.row.type = net[n + 1].type
            /\ Grown(g, s.gen, s.row, IsVector(net[n + 1]))
<1> DEFINE l == net[n + 1]
           first == n = 0
           s == AddressesOf(a, g, net[n + 1], n = 0)
<1>1. l \in Layer /\ (l.type \in Windowed => WindowInside(l))
  BY NetworkAssumption
<1>2. g \in Generator
  BY DEF Arrays
<1>3. l.type # "Gemv" =>
        /\ \/ first \/ l.ifmap \in {Sequential, NewSpace}
           \/ InArrays(l.ifmap, Len(g.ofmap_base_addr_array), Len(g.ifmap_base_addr_array))
        /\ l.ofmap = Sequential
             \/ InArrays(l.ofmap, Len(g.ofmap_base_addr_array), Len(g.ifmap_base_addr_array) + 1)
  BY ReferencesInArrays
<1>4. l.type = "Gemv" =>
        /\ l.filter \in {Sequential, NewSpace}
             \/ InArrays(l.filter, Len(g.ofmap_base_addr_array), Len(g.filter_base_addr_array))
        /\ l.ofmap = Sequential
             \/ InArrays(l.ofmap, Len(g.ofmap_base_addr_array), Len(g.filter_base_addr_array) + 1)
  BY ReferencesInArrays
<1>5. first \in BOOLEAN
  OBVIOUS
<1> HIDE DEF l
<1>6. AsGemm(l) \in Layer /\ AsGemm(l).type = l.type
  BY <1>1, AsGemmIsLayer DEF Windowed
<1>7. \E i, f, o \in Nat : s.row = AtAddresses(AsGemm(l), i, f, o) /\ Grown(g, s.gen, s.row, IsVector(l))
  <2>1. CASE l.type # "Gemv"
    <3> DEFINE z == SetVariableConfig(a, g, l, first)
    <3> HIDE DEF first, z
    <3>1. \E i, f, o \in Nat : z.row = AtAddresses(AsGemm(l), i, f, o) /\ Grown(g, z.gen, z.row, 0)
      BY <1>1, <1>2, <1>3, <1>5, <2>1, LayerPlaced DEF z
    <3>2. s = z /\ IsVector(l) = 0
      BY <2>1 DEF AddressesOf, z, l, first, IsVector
    <3> QED BY <3>1, <3>2
  <2>2. CASE l.type = "Gemv"
    <3> DEFINE z == SetVariableConfigGemv(a, g, l, first)
    <3> HIDE DEF first, z
    <3>1. \E i, f, o \in Nat : z.row = AtAddresses(l, i, f, o) /\ Grown(g, z.gen, z.row, 1)
      BY <1>1, <1>2, <1>4, <1>5, <2>2, VectorPlaced DEF z
    <3>2. s = z /\ IsVector(l) = 1 /\ AsGemm(l) = l
      BY <2>2 DEF AddressesOf, z, l, first, IsVector, AsGemm
    <3> QED BY <3>1, <3>2
  <2> QED BY <2>1, <2>2
<1> HIDE DEF s
<1>8. PICK i, f, o \in Nat : s.row = AtAddresses(AsGemm(l), i, f, o) /\ Grown(g, s.gen, s.row, IsVector(l))
  BY <1>7
<1>9. Resolved(net, n + 1, s.row) /\ s.row.type = l.type
  BY <1>6, <1>8, PlacedRow DEF Resolved, l
<1> QED BY <1>8, <1>9 DEF l, s

(* Moving new_space_addr leaves the arrays as they are.                    *)
LEMMA GrownBySpace ==
  ASSUME NEW g \in Generator, NEW h, NEW k, NEW p, NEW v, Grown(g, h, p, v),
         k \in Generator, k = [h EXCEPT !.new_space_addr = k.new_space_addr]
  PROVE  Grown(g, k, p, v)
<1>1. h \in Generator
  BY DEF Grown
<1>2. /\ k.ifmap_base_addr_array = h.ifmap_base_addr_array
      /\ k.ofmap_base_addr_array = h.ofmap_base_addr_array
      /\ k.filter_base_addr_array = h.filter_base_addr_array
  BY <1>1 DEF Generator
<1> QED BY <1>2 DEF Grown

(* Where the tensors of a row end are numbers.                             *)
LEMMA EndsAreNumbers ==
  ASSUME NEW a \in Arch, NEW p \in RowIn(Nat)
  PROVE  LET u == a.element_unit
         IN /\ p.ifmap + p.ifmap_width * p.ifmap_height * u \in Int
            /\ p.filter + p.ifmap_width * u \in Int /\ p.ofmap + p.ifmap_height * u \in Int
            /\ p.filter + FilterElements(p) * u \in Int /\ p.ifmap + IfmapElements(p) * u \in Int
            /\ p.ofmap + OfmapHeight(p) * OfmapWidth(p) * p.filter_num * u \in Int
            /\ p.ofmap + (p.ifmap_height - p.filter_height + 1)
                         * (p.ifmap_width - p.filter_width + 1) * p.filter_num * u \in Int
  BY DEF Arch, RowIn, Pos, FilterElements, FilterSize, IfmapElements, OfmapHeight, OfmapWidth, CeilDiv

(* The next layer becomes rows that are laid out from its addresses.       *)
LEMMA NextLaidOut ==
  ASSUME arch \in Archs, NEW net \in Networks, NEW n \in Nat, n + 1 \in DOMAIN net,
         NEW g, Arrays(g, net, n), net[n + 1].type = "Gemv" => arch.systolic_width = 1,
         NEW unassigned, unassigned.h \in Nat, unassigned.w \in Nat
  PROVE  LET l == net[n + 1]
             p == AddressesOf(arch, g, l, n = 0).row
             c == ConfigUpdate(arch, g, l, n = 0, unassigned)
         IN /\ LaidOut(arch, c.rows, p)
            /\ Grown(g, c.gen, p, IsVector(l))
<1> DEFINE l == net[n + 1]
           first == n = 0
           s == AddressesOf(arch, g, l, first)
           c == ConfigUpdate(arch, g, l, first, unassigned)
           p == s.row
<1>1. arch \in Arch
  BY ArchAssumption
<1>2. p \in RowIn(Nat) /\ p.type = l.type /\ Grown(g, s.gen, p, IsVector(l))
  <2>1. Resolved(net, n + 1, p) /\ p.type = l.type /\ Grown(g, s.gen, p, IsVector(l))
    BY <1>1, NextPlaced
  <2> QED BY <2>1 DEF Resolved
<1>3. l \in Layer
  BY NetworkAssumption
<1>4. l.type = "Gemv" => p.ifmap_width < Capacity(arch) \div arch.element_unit
  <2>1. l.type = "Gemv" => l.ifmap_width < Capacity(arch) \div arch.element_unit
    BY VectorAssumption
  <2>2. l.type = "Gemv" => p.ifmap_width = l.ifmap_width
    <3>1. p = AtAddresses(AsGemm(l), p.ifmap, p.filter, p.ofmap)
      BY <1>1, NextPlaced DEF Resolved
    <3>2. l.type = "Gemv" => AsGemm(l) = l
      BY DEF AsGemm
    <3> HIDE DEF l, p
    <3> QED BY <1>3, <3>1, <3>2 DEF AtAddresses, Layer
  <2> QED BY <2>1, <2>2
<1> HIDE DEF l, first
<1>5. c = CASE l.type \in {"Gemm", "Im2col_conv"} ->
            [rows |-> GemmTranslation(arch, p), gen |-> s.gen]
       [] l.type = "Gemv" ->
            [rows |-> GemvTranslation(arch, p, unassigned),
             gen |-> AddressUpdateGemv(arch, s.gen, p)]
       [] l.type = "Dir_Gemm" ->
            [rows |-> DirGemmComputation(arch, p), gen |-> s.gen]
       [] l.type = "Ineff_Dir_Gemm" ->
            [rows |-> IneffDirGemmComputation(p), gen |-> s.gen]
       [] OTHER -> [rows |-> <<p>>, gen |-> AddressUpdate(arch, s.gen, p)]
  BY DEF ConfigUpdate, AddressesOf
<1> HIDE DEF c, s
<1>6. p \in RowIn(Int)
  BY <1>2 DEF RowIn
<1>7. l.type \in Types
  BY <1>3 DEF Layer
<1>8. g \in Generator /\ s.gen \in Generator
  BY <1>2 DEF Arrays, Grown
<1> HIDE DEF p
<1>9. CASE l.type \in {"Gemm", "Im2col_conv"}
  <2>1. c.rows = GemmTranslation(arch, p) /\ c.gen = s.gen
    BY <1>5, <1>9
  <2>2. LaidOut(arch, c.rows, p)
    BY <1>1, <1>2, <1>6, <1>9, <2>1, GemmAreTiles DEF LaidOut
  <2> QED BY <1>2, <2>1, <2>2 DEF l, p, s, c, first
<1>10. CASE l.type = "Gemv"
  <2>1. c.rows = GemvTranslation(arch, p, unassigned) /\ c.gen = AddressUpdateGemv(arch, s.gen, p)
    BY <1>5, <1>10
  <2>2. LaidOut(arch, c.rows, p)
    BY <1>1, <1>2, <1>4, <1>6, <1>10, <2>1, GemvAreBands DEF LaidOut
  <2> DEFINE x == p.ifmap + p.ifmap_width * p.ifmap_height * arch.element_unit
             y == p.filter + p.ifmap_width * arch.element_unit
             z == p.ofmap + p.ifmap_height * arch.element_unit
  <2>3. x \in Int /\ y \in Int /\ z \in Int
    BY <1>1, <1>2, EndsAreNumbers
  <2>4. c.gen = [s.gen EXCEPT !.new_space_addr = Max({@, x, y, z})]
    BY <2>1 DEF AddressUpdateGemv
  <2> HIDE DEF x, y, z
  <2>5. Grown(g, c.gen, p, IsVector(l))
    <3> DEFINE k == c.gen
    <3>1. k \in Generator /\ k = [s.gen EXCEPT !.new_space_addr = k.new_space_addr]
      <4> DEFINE h == s.gen
      <4>1. h \in Generator /\ k = [h EXCEPT !.new_space_addr = Max({@, x, y, z})]
        BY <1>8, <2>4
      <4> HIDE DEF h, k
      <4>2. k \in Generator /\ k = [h EXCEPT !.new_space_addr = k.new_space_addr]
        BY <2>3, <4>1, SpaceMoves, ZenonT(30)
      <4> QED BY <4>2 DEF h
    <3> HIDE DEF k
    <3>2. Grown(g, k, p, IsVector(l))
      BY <1>2, <1>8, <3>1, GrownBySpace
    <3> QED BY <3>2 DEF k
  <2> QED BY <2>2, <2>5 DEF l, p, s, c, first
<1>11. CASE l.type = "Dir_Gemm"
  <2>1. c.rows = DirGemmComputation(arch, p) /\ c.gen = s.gen
    BY <1>5, <1>11
  <2>2. LaidOut(arch, c.rows, p)
    BY <1>1, <1>2, <1>6, <1>11, <2>1, DirGemmAreTiles DEF LaidOut
  <2> QED BY <1>2, <2>1, <2>2 DEF l, p, s, c, first
<1>12. CASE l.type = "Ineff_Dir_Gemm"
  <2>1. c.rows = IneffDirGemmComputation(p) /\ c.gen = s.gen
    BY <1>5, <1>12
  <2>2. LaidOut(arch, c.rows, p)
    BY <1>1, <1>2, <1>6, <1>12, <2>1, IneffDirGemmIsTile DEF LaidOut
  <2> QED BY <1>2, <2>1, <2>2 DEF l, p, s, c, first
<1>13. CASE l.type \in {"Conv", "Ineff_Conv", "Pool", "Other"}
  <2>1. c.rows = <<p>> /\ c.gen = AddressUpdate(arch, s.gen, p)
    BY <1>5, <1>13
  <2>2. LaidOut(arch, c.rows, p)
    BY <1>2, <1>13, <2>1 DEF LaidOut
  <2> DEFINE u == arch.element_unit
             result == IF p.type = "Other"
                       THEN (p.ifmap_height - p.filter_height + 1)
                              * (p.ifmap_width - p.filter_width + 1) * p.filter_num
                       ELSE OfmapHeight(p) * OfmapWidth(p) * p.filter_num
             x == p.filter + FilterElements(p) * u
             y == p.ifmap + IfmapElements(p) * u
             z == p.ofmap + result * u
  <2>3. x \in Int /\ y \in Int /\ z \in Int
    BY <1>1, <1>2, EndsAreNumbers
  <2>4. c.gen = [s.gen EXCEPT !.new_space_addr = Max({@, x, y, z})]
    BY <2>1 DEF AddressUpdate
  <2> HIDE DEF x, y, z
  <2>5. Grown(g, c.gen, p, IsVector(l))
    <3> DEFINE k == c.gen
    <3>1. k \in Generator /\ k = [s.gen EXCEPT !.new_space_addr = k.new_space_addr]
      <4> DEFINE h == s.gen
      <4>1. h \in Generator /\ k = [h EXCEPT !.new_space_addr = Max({@, x, y, z})]
        BY <1>8, <2>4
      <4> HIDE DEF h, k
      <4>2. k \in Generator /\ k = [h EXCEPT !.new_space_addr = k.new_space_addr]
        BY <2>3, <4>1, SpaceMoves, ZenonT(30)
      <4> QED BY <4>2 DEF h
    <3> HIDE DEF k
    <3>2. Grown(g, k, p, IsVector(l))
      BY <1>2, <1>8, <3>1, GrownBySpace
    <3> QED BY <3>2 DEF k
  <2> QED BY <2>2, <2>5 DEF l, p, s, c, first
<1> QED BY <1>7, <1>9, <1>10, <1>11, <1>12, <1>13 DEF Types

(* The rows of a layer bear its name.                                      *)
BearName(rows, i) ==
  \E N \in Nat : rows = [n \in 1 .. N |-> rows[n]] /\ \A n \in 1 .. N : rows[n].name = i

(* The rows of a layer bear its name.                                      *)
LEMMA RowsNamed ==
  ASSUME NEW a, NEW rows, NEW net \in Networks, NEW i \in DOMAIN net, NEW p,
         Resolved(net, i, p), p.type \in Types, LaidOut(a, rows, p)
  PROVE  BearName(rows, i)
<1>1. p.name = i
  <2>1. net[i] \in Layer /\ net[i].name = i /\ (net[i].type \in Windowed => WindowInside(net[i]))
    BY NetworkAssumption
  <2>2. AsGemm(net[i]).name = i /\ AsGemm(net[i]) \in Layer
    BY <2>1, AsGemmIsLayer DEF AsGemm, Layer, Windowed
  <2>3. p = AtAddresses(AsGemm(net[i]), p.ifmap, p.filter, p.ofmap)
    BY DEF Resolved
  <2> QED BY <2>2, <2>3 DEF AtAddresses, Layer
<1>2. CASE p.type \in {"Gemm", "Im2col_conv"}
  <2>1. AreTiles(a, rows, p, GemmShape(a, p))
    BY <1>2 DEF LaidOut
  <2> QED BY <1>1, <2>1 DEF AreTiles, BearName, Pos
<1>3. CASE p.type = "Dir_Gemm"
  <2>1. AreTiles(a, rows, p, DirGemmShape(a, p))
    BY <1>3 DEF LaidOut
  <2> QED BY <1>1, <2>1 DEF AreTiles, BearName, Pos
<1>4. CASE p.type = "Ineff_Dir_Gemm"
  <2>1. AreTiles(a, rows, p, Whole(p))
    BY <1>4 DEF LaidOut
  <2> QED BY <1>1, <2>1 DEF AreTiles, BearName, Pos
<1>5. CASE p.type = "Gemv"
  <2>1. AreBands(a, rows, p)
    BY <1>5 DEF LaidOut
  <2> QED BY <1>1, <2>1 DEF AreBands, IsBand, BearName, Pos
<1>6. CASE p.type \in {"Conv", "Ineff_Conv", "Pool", "Other"}
  <2>1. rows = <<p>>
    BY <1>6 DEF LaidOut
  <2>2. rows = [n \in 1 .. 1 |-> rows[n]] /\ \A n \in 1 .. 1 : rows[n] = p
    BY <2>1
  <2> QED BY <1>1, <2>2 DEF BearName
<1> QED BY <1>2, <1>3, <1>4, <1>5, <1>6 DEF Types

-----------------------------------------------------------------------------
(* The state between two steps: every layer that is translated has its      *)
(* rows, one behind the other.                                             *)
IsLaid(i, p, first, rows) ==
  /\ Resolved(network, i, p) /\ p.type = network[i].type
  /\ p.ifmap = gen.ifmap_base_addr_array[i] /\ p.ofmap = gen.ofmap_base_addr_array[i]
  /\ LaidOut(arch, rows, p)
  /\ RowsOf(i) = {first + n : n \in DOMAIN rows}
  /\ \A n \in DOMAIN rows : config[first + n] = rows[n]
Laid(i) == \E p, rows : \E first \in Nat : IsLaid(i, p, first, rows)

Translated ==
  /\ Configured
  /\ Arrays(gen, network, layer)
  /\ \A n \in DOMAIN config : config[n].name \in 1 .. layer
  /\ \A i \in 1 .. layer : Laid(i)

(* At the beginning nothing has been translated.                           *)
LEMMA TranslatedInit == Init => Translated
<1> SUFFICES ASSUME Init PROVE Translated
  OBVIOUS
<1>1. Configured
  BY ConfiguredInit
<1>2. layer = 0 /\ config = << >> /\ \E a \in Indeterminate : gen = Blank(a)
  BY DEF Init
<1>3. Arrays(gen, network, 0)
  <2>1. Vectors(network, 0) = {}
    BY DEF Vectors
  <2>2. Cardinality(Vectors(network, 0)) = 0
    BY <2>1, FS_EmptySet
  <2>3. PICK a \in Nat : gen = Blank(a)
    BY <1>2, RangeAssumption
  <2>4. /\ gen \in Generator /\ Len(gen.ifmap_base_addr_array) = 0
        /\ Len(gen.ofmap_base_addr_array) = 0 /\ Len(gen.filter_base_addr_array) = 0
    BY <2>3 DEF Blank, Generator
  <2> QED BY <2>2, <2>4 DEF Arrays
<1> QED BY <1>1, <1>2, <1>3 DEF Translated

Longer(g, h, n, p) ==
  /\ \A i \in 1 .. n : /\ h.ifmap_base_addr_array[i] = g.ifmap_base_addr_array[i]
                     /\ h.ofmap_base_addr_array[i] = g.ofmap_base_addr_array[i]
  /\ h.ifmap_base_addr_array[n + 1] = p.ifmap /\ h.ofmap_base_addr_array[n + 1] = p.ofmap

(* Arrays that have grown by a layer are those of one layer more.          *)
LEMMA GrownArrays ==
  ASSUME NEW net, NEW n \in Nat, NEW g, Arrays(g, net, n), NEW h, NEW p,
         Grown(g, h, p, IsVector(net[n + 1])), p.ifmap \in Nat, p.ofmap \in Nat
  PROVE  /\ Arrays(h, net, n + 1)
         /\ Longer(g, h, n, p)
<1>1. Cardinality(Vectors(net, n + 1)) = Cardinality(Vectors(net, n)) + IsVector(net[n + 1])
  BY VectorsCounted
<1> DEFINE x == g.ifmap_base_addr_array
           y == g.ofmap_base_addr_array
<1>2. x \in Seq(Nat) /\ y \in Seq(Nat) /\ Len(x) = n /\ Len(y) = n
  BY DEF Arrays, Generator
<1>3. h.ifmap_base_addr_array = Append(x, p.ifmap) /\ h.ofmap_base_addr_array = Append(y, p.ofmap)
  BY DEF Grown
<1> HIDE DEF x, y
<1>4. /\ \A i \in 1 .. n : /\ h.ifmap_base_addr_array[i] = x[i] /\ h.ofmap_base_addr_array[i] = y[i]
      /\ h.ifmap_base_addr_array[n + 1] = p.ifmap
      /\ h.ofmap_base_addr_array[n + 1] = p.ofmap
      /\ Len(h.ifmap_base_addr_array) = n + 1 /\ Len(h.ofmap_base_addr_array) = n + 1
  BY <1>2, <1>3
<1>5. Arrays(h, net, n + 1)
  BY <1>1, <1>4 DEF Arrays, Grown
<1>6. Longer(g, h, n, p)
  BY <1>4 DEF Longer, x, y
<1> QED BY <1>4, <1>5, <1>6

(* Addresses and rows, when another layer is behind them.                  *)
LEMMA LayerStays ==
  ASSUME ConfigLayer, Configured, Arrays(gen, network, layer), NEW p0 \in RowIn(Nat),
         Grown(gen, gen', p0, IsVector(network[layer + 1])), NEW new, RowsOK(new), config' = config \o new,
         \A n \in DOMAIN new : new[n].name = layer + 1,
         NEW i \in 1 .. layer, Laid(i)
  PROVE  Laid(i)'
<1>0. PICK p, rows : \E first \in Nat : IsLaid(i, p, first, rows)
  BY DEF Laid
<1>1. PICK first \in Nat : IsLaid(i, p, first, rows)
  BY <1>0
<1>2. UNCHANGED <<arch, network>> /\ layer \in Nat
  BY DEF ConfigLayer, Configured
<1>3. /\ gen'.ifmap_base_addr_array[i] = gen.ifmap_base_addr_array[i]
      /\ gen'.ofmap_base_addr_array[i] = gen.ofmap_base_addr_array[i]
  <2>1. p0.ifmap \in Nat /\ p0.ofmap \in Nat
    BY DEF RowIn
  <2> DEFINE g == gen
             h == gen'
             net == network
             n == layer
  <2>2. Arrays(g, net, n) /\ Grown(g, h, p0, IsVector(net[n + 1])) /\ n \in Nat
    BY <1>2
  <2> HIDE DEF g, h, net, n
  <2>3. Longer(g, h, n, p0)
    BY <2>1, <2>2, GrownArrays
  <2> QED BY <2>3 DEF Longer, g, h, n
<1>4. /\ DOMAIN config \subseteq DOMAIN config'
      /\ \A m \in DOMAIN config : config'[m] = config[m]
      /\ \A m \in DOMAIN config' : m \notin DOMAIN config => config'[m].name = layer + 1
  <2>1. PICK S : config \in Seq(S)
    BY RowsAreSequence DEF Configured
  <2>2. PICK U : new \in Seq(U)
    BY RowsAreSequence
  <2>3. config \in Seq(S \cup U) /\ new \in Seq(S \cup U)
    BY <2>1, <2>2
  <2>4. ASSUME NEW m \in DOMAIN config', m \notin DOMAIN config
        PROVE  config'[m].name = layer + 1
    <3>1. m - Len(config) \in DOMAIN new /\ config'[m] = new[m - Len(config)]
      BY <2>3, <2>4
    <3> QED BY <3>1
  <2> QED BY <2>3, <2>4
<1>5. RowsOf(i)' = RowsOf(i)
  <2>1. layer + 1 # i
    BY <1>2
  <2> QED BY <1>4, <2>1 DEF RowsOf
<1>6. \A n \in DOMAIN rows : first + n \in DOMAIN config
  BY <1>1 DEF IsLaid, RowsOf
<1>7. IsLaid(i, p, first, rows)'
  BY <1>1, <1>2, <1>3, <1>4, <1>5, <1>6 DEF IsLaid
<1> QED BY <1>7 DEF Laid

(* The layer that is translated.                                           *)
LEMMA LayerIsLaid ==
  ASSUME ConfigLayer, Configured, Arrays(gen, network, layer), NEW p,
         Grown(gen, gen', p, IsVector(network[layer + 1])), NEW new, RowsOK(new), config' = config \o new,
         Resolved(network, layer + 1, p), p.type = network[layer + 1].type,
         LaidOut(arch, new, p),
         \A n \in DOMAIN new : new[n].name = layer + 1,
         \A n \in DOMAIN config : config[n].name \in 1 .. layer,
         NEW i, i = layer + 1, NEW first, first = Len(config)
  PROVE  IsLaid(i, p, first, new)' /\ first \in Nat
<1>1. UNCHANGED <<arch, network>> /\ layer \in Nat
  BY DEF ConfigLayer, Configured
<1>2. /\ gen'.ifmap_base_addr_array[i] = p.ifmap
      /\ gen'.ofmap_base_addr_array[i] = p.ofmap
  <2>1. p.ifmap \in Nat /\ p.ofmap \in Nat
    BY DEF RowIn, Resolved
  <2> DEFINE g == gen
             h == gen'
             net == network
             n == layer
  <2>2. Arrays(g, net, n) /\ Grown(g, h, p, IsVector(net[n + 1])) /\ n \in Nat
    BY <1>1
  <2> HIDE DEF g, h, net, n
  <2>3. Longer(g, h, n, p)
    BY <2>1, <2>2, GrownArrays
  <2> QED BY <2>3 DEF Longer, h, n
<1>3. PICK S : config \in Seq(S)
  BY RowsAreSequence DEF Configured
<1>4. PICK U : new \in Seq(U)
  BY RowsAreSequence
<1>5. config \in Seq(S \cup U) /\ new \in Seq(S \cup U)
  BY <1>3, <1>4
<1>6. \A n \in DOMAIN new : first + n \in DOMAIN config' /\ config'[first + n] = new[n]
  BY <1>5
<1>7. \A m \in DOMAIN config : config'[m].name \in 1 .. layer
  BY <1>5
<1>8. \A m \in DOMAIN config' : m \notin DOMAIN config => m - first \in DOMAIN new
  BY <1>5
<1>9. RowsOf(i)' = {first + n : n \in DOMAIN new}
  <2>1. ASSUME NEW m \in RowsOf(i)'
        PROVE  m \in {first + n : n \in DOMAIN new}
    <3>1. m \in DOMAIN config' /\ config'[m].name = layer + 1
      BY <1>1, <2>1 DEF RowsOf
    <3>2. m \notin DOMAIN config
      BY <1>1, <1>7, <3>1
    <3>3. m - first \in DOMAIN new /\ m = Len(config) + (m - first)
      BY <1>5, <1>8, <3>1, <3>2
    <3> QED BY <3>3
  <2>2. ASSUME NEW n \in DOMAIN new
        PROVE  first + n \in RowsOf(i)'
    BY <1>1, <1>6 DEF RowsOf
  <2> QED BY <2>1, <2>2
<1>10. IsLaid(i, p, first, new)'
  BY <1>1, <1>2, <1>6, <1>9 DEF IsLaid
<1> QED BY <1>5, <1>10

(* The row with addresses of the next layer, and what becomes of it.       *)
PlacedNext == AddressesOf(arch, gen, network[layer + 1], layer = 0).row
DoneNext(unassigned) == ConfigUpdate(arch, gen, network[layer + 1], layer = 0, unassigned)

(* What a layer leaves behind: the rows it adds, made from one row with     *)
(* addresses, and the generator.                                           *)
Translates(p, new) ==
  /\ Resolved(network, layer + 1, p) /\ p.type = network[layer + 1].type
  /\ LaidOut(arch, new, p)
  /\ Grown(gen, gen', p, IsVector(network[layer + 1]))
  /\ config' = config \o new /\ RowsOK(new)
  /\ \A n \in DOMAIN new : new[n].name = layer + 1

(* ConfigLayer appends the rows of the next layer.                         *)
LEMMA LayerTranslates ==
  ASSUME ConfigLayer, Configured, Arrays(gen, network, layer)
  PROVE  \E unassigned : /\ Translates(PlacedNext, DoneNext(unassigned).rows)
                         /\ gen' = DoneNext(unassigned).gen
<1>1. PICK h, w \in Indeterminate :
        LET done == ConfigUpdate(arch, gen, network[layer + 1], layer = 0, [h |-> h, w |-> w])
        IN config' = config \o done.rows /\ gen' = done.gen
  BY DEF ConfigLayer
<1> DEFINE g == gen
           net == network
           n == layer
           unassigned == [h |-> h, w |-> w]
           l == net[n + 1]
           c == ConfigUpdate(arch, g, l, n = 0, unassigned)
           p == AddressesOf(arch, g, l, n = 0).row
<1>2. /\ arch \in Archs /\ net \in Networks /\ n \in Nat /\ n + 1 \in DOMAIN net
      /\ l.type = "Gemv" => arch.systolic_width = 1
      /\ Arrays(g, net, n)
  <2>1. network \in Seq(Layer)
    BY NetworkAssumption DEF Configured
  <2> QED BY <2>1 DEF Configured, ConfigLayer, Accepted
<1>3. config' = config \o c.rows /\ gen' = c.gen
  BY <1>1
<1>4. unassigned.h \in Nat /\ unassigned.w \in Nat
  BY RangeAssumption
<1>5. arch \in Arch
  BY <1>2, ArchAssumption
<1>6. RowsOK(c.rows)
  <2> DEFINE i == n + 1
             first == n = 0
  <2>1. i \in DOMAIN net /\ (net[i].type = "Gemv" => arch.systolic_width = 1)
    BY <1>2
  <2> HIDE DEF i, g, net, unassigned, first
  <2>2. RowsOK(ConfigUpdate(arch, g, net[i], first, unassigned).rows)
    BY <1>2, <2>1, ConfigUpdateRows
  <2> QED BY <2>2 DEF i, first
<1> HIDE DEF g, net, n, unassigned
<1>7. Resolved(net, n + 1, p) /\ p.type = l.type
  BY <1>2, <1>5, NextPlaced
<1>8. LaidOut(arch, c.rows, p) /\ Grown(g, c.gen, p, IsVector(l))
  BY <1>2, <1>4, NextLaidOut
<1>9. \A m \in DOMAIN c.rows : c.rows[m].name = n + 1
  <2> DEFINE rows == c.rows
             i == n + 1
  <2>1. p.type \in Types
    <3>1. l \in Layer
      BY <1>2, NetworkAssumption
    <3> QED BY <1>7, <3>1 DEF Layer
  <2>2. i \in DOMAIN net /\ Resolved(net, i, p) /\ LaidOut(arch, rows, p)
    BY <1>2, <1>7, <1>8
  <2> HIDE DEF rows, i, p, l, c
  <2>3. net \in Networks
    BY <1>2
  <2>4. BearName(rows, i)
    BY ONLY <2>3, <2>1, <2>2, RowsNamed
  <2>5. PICK N \in Nat : rows = [m \in 1 .. N |-> rows[m]] /\ \A m \in 1 .. N : rows[m].name = i
    BY <2>4 DEF BearName
  <2>6. DOMAIN rows = 1 .. N
    BY <2>5
  <2>7. \A m \in DOMAIN rows : rows[m].name = i
    BY <2>5, <2>6
  <2> QED BY <2>7 DEF rows, i
<1> HIDE DEF c, p
<1>10. Translates(p, c.rows)
  BY <1>3, <1>6, <1>7, <1>8, <1>9 DEF Translates, g, net, n, l
<1>11. p = PlacedNext /\ c = DoneNext(unassigned)
  BY DEF PlacedNext, DoneNext, p, c, l, g, net, n
<1> QED BY <1>3, <1>10, <1>11

(* Every step keeps the rows of the layers.                                *)
LEMMA TranslatedStep == Translated /\ [Next]_vars => Translated'
<1> SUFFICES ASSUME Translated, [Next]_vars PROVE Translated'
  OBVIOUS
<1>0. Configured /\ Configured' /\ Arrays(gen, network, layer)
  BY ConfiguredStep DEF Translated
<1>1. ASSUME ConfigLayer PROVE Translated'
  <2>1. PICK p, new : Translates(p, new)
    BY <1>0, <1>1, LayerTranslates
  <2>2. /\ p \in RowIn(Nat) /\ p.ifmap \in Nat /\ p.ofmap \in Nat
        /\ layer \in Nat /\ layer' = layer + 1
    BY <1>0, <1>1, <2>1 DEF Translates, Resolved, RowIn, ConfigLayer, Configured
  <2>3. Arrays(gen, network, layer)'
    <3> DEFINE g == gen
               h == gen'
               net == network
               n == layer
    <3>1. Arrays(g, net, n) /\ Grown(g, h, p, IsVector(net[n + 1])) /\ n \in Nat
      BY <1>0, <2>1, <2>2 DEF Translates
    <3>2. network' = network
      BY <1>1 DEF ConfigLayer
    <3> HIDE DEF g, h, net, n
    <3>3. Arrays(h, net, n + 1)
      BY <2>2, <3>1, GrownArrays
    <3> QED BY <2>2, <3>2, <3>3 DEF h, net, n
  <2>4. ASSUME NEW i \in 1 .. layer
        PROVE  Laid(i)'
    <3>1. Laid(i)
      BY DEF Translated
    <3> QED BY <1>0, <1>1, <2>1, <2>2, <3>1, LayerStays DEF Translates
  <2>5. ASSUME NEW i, i = layer + 1
        PROVE  Laid(i)'
    <3>1. PICK first : first = Len(config)
      OBVIOUS
    <3>2. \A n \in DOMAIN config : config[n].name \in 1 .. layer
      BY DEF Translated
    <3>3. IsLaid(i, p, first, new)' /\ first \in Nat
      BY <1>0, <1>1, <2>1, <2>5, <3>1, <3>2, LayerIsLaid DEF Translates
    <3> QED BY <3>3 DEF Laid
  <2>6. \A i \in 1 .. layer' : Laid(i)'
    BY <2>2, <2>4, <2>5
  <2>7. \A n \in DOMAIN config' : config'[n].name \in 1 .. layer'
    <3>1. PICK S : config \in Seq(S)
      BY <1>0, RowsAreSequence DEF Configured
    <3>2. PICK U : new \in Seq(U)
      BY <2>1, RowsAreSequence DEF Translates
    <3>3. config \in Seq(S \cup U) /\ new \in Seq(S \cup U) /\ config' = config \o new
      BY <2>1, <3>1, <3>2 DEF Translates
    <3>4. /\ \A n \in DOMAIN config : config[n].name \in 1 .. layer
          /\ \A n \in DOMAIN new : new[n].name = layer + 1
      BY <2>1 DEF Translated, Translates
    <3> TAKE n \in DOMAIN config'
    <3>5. CASE n \in DOMAIN config
      BY <2>2, <3>3, <3>4, <3>5
    <3>6. CASE n \notin DOMAIN config
      <4>1. n - Len(config) \in DOMAIN new /\ config'[n] = new[n - Len(config)]
        BY <3>3, <3>6
      <4> QED BY <2>2, <3>4, <4>1
    <3> QED BY <3>5, <3>6
  <2> QED BY <1>0, <2>3, <2>6, <2>7 DEF Translated
<1>2. ASSUME UNCHANGED <<arch, network, gen, config, layer>> PROVE Translated'
  <2>1. ASSUME NEW i \in 1 .. layer
        PROVE  Laid(i)'
    <3>1. Laid(i)
      BY DEF Translated
    <3> QED BY <1>2, <3>1 DEF Laid, IsLaid, RowsOf
  <2> QED BY <1>0, <1>2, <2>1 DEF Translated
<1>3. ASSUME SetVariable PROVE Translated'
  BY <1>2, <1>3 DEF SetVariable
<1>4. ASSUME ComputeStep PROVE Translated'
  BY <1>2, <1>4 DEF ComputeStep
<1>5. ASSUME EndLayer PROVE Translated'
  BY <1>2, <1>5 DEF EndLayer
<1>6. ASSUME UNCHANGED vars PROVE Translated'
  BY <1>2, <1>6 DEF vars
<1> QED BY <1>1, <1>3, <1>4, <1>5, <1>6 DEF Next, Terminated

-----------------------------------------------------------------------------
(* The tiles and the bands of every layer.                                 *)
LEMMA ResolvedFields ==
  ASSUME NEW net \in Networks, NEW i \in DOMAIN net, NEW p, Resolved(net, i, p)
  PROVE  LET l == AsGemm(net[i])
         IN /\ l.ifmap_height = p.ifmap_height /\ l.ifmap_width = p.ifmap_width
            /\ l.filter_height = p.filter_height /\ l.filter_width = p.filter_width
            /\ l.filter_depth = p.filter_depth /\ l.filter_num = p.filter_num
            /\ l.stride = p.stride /\ l.type = p.type /\ l.type = net[i].type
            /\ l.name = p.name /\ l.name = i /\ l \in Layer
            /\ p.ifmap \in Nat /\ p.filter \in Nat /\ p.ofmap \in Nat
            /\ p.ifmap_height \in Pos /\ p.ifmap_width \in Pos /\ p.filter_width \in Pos
<1>1. net[i] \in Layer /\ net[i].name = i /\ (net[i].type \in Windowed => WindowInside(net[i]))
  BY NetworkAssumption
<1>2. /\ AsGemm(net[i]) \in Layer /\ AsGemm(net[i]).type = net[i].type
      /\ AsGemm(net[i]).name = i
  <2>1. AsGemm(net[i]).name = i
    BY <1>1 DEF AsGemm, Layer
  <2> QED BY <1>1, <2>1, AsGemmIsLayer DEF Windowed
<1>3. p \in RowIn(Nat) /\ p = AtAddresses(AsGemm(net[i]), p.ifmap, p.filter, p.ofmap)
  BY DEF Resolved
<1> DEFINE l == AsGemm(net[i])
<1> HIDE DEF l
<1>4. l \in Layer /\ p = AtAddresses(l, p.ifmap, p.filter, p.ofmap) /\ l.name = i /\ l.type = net[i].type
  BY <1>2, <1>3 DEF l
<1>5. /\ l.ifmap_height = p.ifmap_height /\ l.ifmap_width = p.ifmap_width
      /\ l.filter_height = p.filter_height /\ l.filter_width = p.filter_width
      /\ l.filter_depth = p.filter_depth /\ l.filter_num = p.filter_num
      /\ l.stride = p.stride /\ l.type = p.type /\ l.name = p.name
  BY <1>4 DEF AtAddresses, Layer
<1>6. /\ p.ifmap \in Nat /\ p.filter \in Nat /\ p.ofmap \in Nat
      /\ p.ifmap_height \in Pos /\ p.ifmap_width \in Pos /\ p.filter_width \in Pos
  BY <1>3 DEF RowIn
<1> QED BY <1>4, <1>5, <1>6 DEF l

(* A product whose rows are tiles satisfies GemmTiles.                     *)
LEMMA LaidProductTiled ==
  ASSUME Configured, NEW i \in 1 .. layer, NEW p, NEW first \in Nat, NEW rows,
         IsLaid(i, p, first, rows), NEW shape, Sized(p, shape), AreTiles(arch, rows, p, shape)
  PROVE  MatrixTiles(i)
<1>1. network \in Networks /\ i \in DOMAIN network /\ arch \in Arch
  <2>1. network \in Seq(Layer) /\ arch \in Arch
    BY NetworkAssumption, ArchAssumption DEF Configured
  <2> QED BY <2>1 DEF Configured
<1>2. Resolved(network, i, p)
  BY DEF IsLaid
<1> DEFINE net == network
           N == NumberOfTiles(p, shape)
           J == DepthsOf(p, shape)
           K == ColumnsOf(p, shape)
<1>3. LET l == AsGemm(net[i])
      IN /\ l.ifmap_height = p.ifmap_height /\ l.ifmap_width = p.ifmap_width
         /\ l.filter_width = p.filter_width
         /\ p.ifmap \in Nat /\ p.filter \in Nat /\ p.ofmap \in Nat
  BY <1>1, <1>2, ResolvedFields
<1>4. DOMAIN rows = 1 .. N
  <2>1. rows = [n \in 1 .. N |-> rows[n]]
    BY DEF AreTiles
  <2> HIDE DEF N
  <2> QED BY <2>1
<1>5. RowsOf(i) = {first + n : n \in 1 .. N}
  <2> HIDE DEF N
  <2> QED BY <1>4 DEF IsLaid
<1>6. \A n \in 1 .. N : IsTile(arch, config[first + n], p, shape,
                               Band(J, K, n - 1), Depth(J, K, n - 1), Column(K, n - 1))
  <2>1. \A n \in 1 .. N : IsTile(arch, rows[n], p, shape,
                               Band(J, K, n - 1), Depth(J, K, n - 1), Column(K, n - 1))
    BY DEF AreTiles
  <2>2. \A n \in 1 .. N : config[first + n] = rows[n]
    <3> HIDE DEF N
    <3> QED BY <1>4 DEF IsLaid
  <2> HIDE DEF N, J, K
  <2> QED BY <2>1, <2>2
<1>7. gen.ifmap_base_addr_array[i] = p.ifmap /\ gen.ofmap_base_addr_array[i] = p.ofmap
  BY DEF IsLaid
<1>8. arch.element_unit \in Pos /\ p.ifmap \in Int /\ p.filter \in Int /\ p.ofmap \in Int
  BY <1>1, <1>3 DEF Arch, Pos
<1> QED BY <1>3, <1>5, <1>6, <1>7, <1>8, ProductTiled

(* A matrix-vector product whose rows are bands satisfies GemmTiles.       *)
LEMMA LaidVectorTiled ==
  ASSUME Configured, NEW i \in 1 .. layer, NEW p, NEW first \in Nat, NEW rows,
         IsLaid(i, p, first, rows), network[i].type = "Gemv", AreBands(arch, rows, p)
  PROVE  VectorTiles(i)
<1>1. network \in Networks /\ i \in DOMAIN network /\ arch \in Arch
  <2>1. network \in Seq(Layer) /\ arch \in Arch
    BY NetworkAssumption, ArchAssumption DEF Configured
  <2> QED BY <2>1 DEF Configured
<1>2. Resolved(network, i, p)
  BY DEF IsLaid
<1> DEFINE net == network
           C == BandsOfVector(arch, p)
<1>3. LET l == AsGemm(net[i])
      IN /\ l.ifmap_height = p.ifmap_height /\ l.ifmap_width = p.ifmap_width
         /\ p.ifmap \in Nat /\ p.ofmap \in Nat
         /\ p.ifmap_height \in Pos /\ p.ifmap_width \in Pos
  BY <1>1, <1>2, ResolvedFields
<1>4. AsGemm(net[i]) = net[i]
  BY DEF AsGemm
<1>5. PICK b, e \in Nat : /\ ~Unassigned(arch, p) => LargeEnough(arch, p, b, e)
                          /\ \A n \in 1 .. C : IsBand(arch, rows[n], p, n, b, e)
  BY DEF AreBands
<1>6. DOMAIN rows = 1 .. C /\ Heights(arch, p) \in Pos
  <2>1. rows = [n \in 1 .. C |-> rows[n]] /\ Heights(arch, p) \in Pos
    BY DEF AreBands
  <2> HIDE DEF C
  <2> QED BY <2>1
<1>7. RowsOf(i) = {first + n : n \in 1 .. C}
  <2> HIDE DEF C
  <2> QED BY <1>6 DEF IsLaid
<1>8. \A n \in 1 .. C : IsBand(arch, config[first + n], p, n, b, e)
  <2>1. \A n \in 1 .. C : config[first + n] = rows[n]
    <3> HIDE DEF C
    <3> QED BY <1>6 DEF IsLaid
  <2> HIDE DEF C
  <2> QED BY <1>5, <2>1
<1>9. gen.ifmap_base_addr_array[i] = p.ifmap /\ gen.ofmap_base_addr_array[i] = p.ofmap
  BY DEF IsLaid
<1>10. /\ arch.element_unit \in Pos /\ p.ifmap \in Int /\ p.ofmap \in Int
       /\ network[i].ifmap_height = p.ifmap_height /\ network[i].ifmap_width = p.ifmap_width
  BY <1>1, <1>3, <1>4 DEF Arch, Pos
<1> QED BY <1>3, <1>5, <1>6, <1>7, <1>8, <1>9, <1>10, VectorTiled

(* The invariant says that all layers are cut without gap or overlap.      *)
LEMMA TranslatedTiles == Translated => GemmTiles
<1> SUFFICES ASSUME Translated, NEW i \in 1 .. layer
             PROVE  /\ network[i].type \in {"Gemm", "Im2col_conv", "Dir_Gemm", "Ineff_Dir_Gemm"}
                          => MatrixTiles(i)
                    /\ network[i].type = "Gemv" => VectorTiles(i)
  BY DEF GemmTiles
<1>1. Configured /\ Laid(i)
  BY DEF Translated
<1>2. PICK p, rows : \E first \in Nat : IsLaid(i, p, first, rows)
  BY <1>1 DEF Laid
<1>3. PICK first \in Nat : IsLaid(i, p, first, rows)
  BY <1>2
<1>4. LaidOut(arch, rows, p) /\ p.type = network[i].type
  BY <1>3 DEF IsLaid
<1>5. CASE network[i].type \in {"Gemm", "Im2col_conv"}
  <2>1. Sized(p, GemmShape(arch, p)) /\ AreTiles(arch, rows, p, GemmShape(arch, p))
    BY <1>4, <1>5 DEF LaidOut
  <2> QED BY <1>1, <1>3, <1>5, <2>1, LaidProductTiled
<1>6. CASE network[i].type = "Dir_Gemm"
  <2>1. Sized(p, DirGemmShape(arch, p)) /\ AreTiles(arch, rows, p, DirGemmShape(arch, p))
    BY <1>4, <1>6 DEF LaidOut
  <2> QED BY <1>1, <1>3, <1>6, <2>1, LaidProductTiled
<1>7. CASE network[i].type = "Ineff_Dir_Gemm"
  <2>1. Sized(p, Whole(p)) /\ AreTiles(arch, rows, p, Whole(p))
    BY <1>4, <1>7 DEF LaidOut
  <2> QED BY <1>1, <1>3, <1>7, <2>1, LaidProductTiled
<1>8. CASE network[i].type = "Gemv"
  <2>1. AreBands(arch, rows, p)
    BY <1>4, <1>8 DEF LaidOut
  <2> QED BY <1>1, <1>3, <1>8, <2>1, LaidVectorTiled
<1> QED BY <1>5, <1>6, <1>7, <1>8

(* Tiles and bands cut the tensors of every product, whatever its size.    *)
THEOREM GemmTilesHolds == Spec => []GemmTiles
<1>1. Init => Translated
  BY TranslatedInit
<1>2. Translated /\ [Next]_vars => Translated'
  BY TranslatedStep
<1>3. Translated => GemmTiles
  BY TranslatedTiles
<1> QED BY <1>1, <1>2, <1>3, PTL DEF Spec

-----------------------------------------------------------------------------
(* Space: every tensor with a name ends before new_space_addr.             *)
End(base, elements) == base + elements * arch.element_unit

Reserving(g, n) ==
  /\ \A i \in 1 .. n : /\ End(g.ifmap_base_addr_array[i], InputOf(i)) <= g.new_space_addr
                       /\ End(g.ofmap_base_addr_array[i], ReservedOf(i)) <= g.new_space_addr
  /\ \A i \in Vectors(network, n) :
       End(g.filter_base_addr_array[Cardinality(Vectors(network, i))], FilterOf(i))
         <= g.new_space_addr

(* What Sequential refers to, and the vectors by number.                   *)
Remembering(g, n) ==
  /\ n # 0 => g.ofmap_base_addr = g.ofmap_base_addr_array[n]
  /\ \A k \in 1 .. Len(g.filter_base_addr_array) :
       \E i \in Vectors(network, n) : Cardinality(Vectors(network, i)) = k

(* Sizes of the tensors of a layer.                                        *)
LEMMA TensorSizes ==
  ASSUME network \in Networks, NEW i \in DOMAIN network
  PROVE  InputOf(i) \in Nat /\ FilterOf(i) \in Nat /\ ResultOf(i) \in Nat /\ ReservedOf(i) \in Nat
<1> DEFINE l == AsGemm(network[i])
<1>1. network[i] \in Layer /\ (network[i].type \in Windowed => WindowInside(network[i]))
  BY NetworkAssumption
<1>2. /\ l \in Layer /\ l.type = network[i].type
      /\ l.type \in Windowed \ {"Im2col_conv"} => WindowInside(l)
  <2>1. l \in Layer /\ l.type = network[i].type
    BY <1>1, AsGemmIsLayer DEF Windowed
  <2>2. l.type # "Im2col_conv" => l = network[i]
    BY <2>1 DEF AsGemm
  <2> QED BY <1>1, <2>1, <2>2
<1> HIDE DEF l
<1>3. /\ l.ifmap_height \in Pos /\ l.ifmap_width \in Pos /\ l.filter_height \in Pos
      /\ l.filter_width \in Pos /\ l.filter_num \in Pos
  BY <1>2 DEF Layer, Pos
<1>4. IfmapElements(l) \in Pos /\ FilterElements(l) \in Pos /\ (WindowInside(l) => Windows(l) \in Pos)
  BY <1>2, SizesOfLayer DEF Windowed
<1>5. /\ l.ifmap_height * l.ifmap_width \in Pos /\ l.ifmap_height * l.filter_width \in Pos
      /\ WindowInside(l) => Windows(l) * l.filter_num \in Pos
  BY <1>3, <1>4, PosProduct
<1>6. InputOf(i) \in Nat /\ FilterOf(i) \in Nat
  BY <1>3, <1>4, <1>5 DEF InputOf, FilterOf, l, Pos
<1>7. ResultOf(i) \in Nat
  <2>1. CASE l.type = "Gemv"
    BY <1>3, <2>1 DEF ResultOf, l, Pos
  <2>2. CASE l.type \in {"Gemm", "Im2col_conv", "Dir_Gemm", "Ineff_Dir_Gemm"}
    <3>1. OfmapElements(l) = l.ifmap_height * l.filter_width
      BY <2>2 DEF OfmapElements
    <3> QED BY <1>5, <2>2, <3>1 DEF ResultOf, l, Pos
  <2>3. CASE l.type = "Other"
    <3>1. OfmapElements(l) = l.ifmap_height * l.ifmap_width
      BY <2>3 DEF OfmapElements
    <3> QED BY <1>5, <2>3, <3>1 DEF ResultOf, l, Pos
  <2>4. CASE l.type \in {"Conv", "Ineff_Conv", "Pool"}
    <3>1. OfmapElements(l) = Windows(l) * l.filter_num
      BY <2>4 DEF OfmapElements
    <3> QED BY <1>2, <1>5, <2>4, <3>1 DEF ResultOf, l, Pos, Windowed
  <2> QED BY <1>2, <2>1, <2>2, <2>3, <2>4 DEF Types, Layer
<1>8. ReservedOf(i) \in Nat
  BY <1>7 DEF ReservedOf
<1> QED BY <1>6, <1>7, <1>8

(* A tensor ends at a number, not before it begins.                        *)
LEMMA EndIsNumber ==
  ASSUME arch \in Arch, NEW base \in Nat, NEW e \in Nat
  PROVE  End(base, e) \in Nat /\ base <= End(base, e)
<1> DEFINE u == arch.element_unit
<1>1. u \in Nat
  BY DEF Arch
<1> HIDE DEF u
<1>2. e * u \in Nat
  BY <1>1, NatProduct
<1> QED BY <1>2 DEF End, u

(* What is no larger ends no later.                                        *)
LEMMA SmallerEnds ==
  ASSUME arch \in Arch, NEW base \in Nat, NEW e \in Nat, NEW f \in Nat, e <= f, NEW limit \in Nat,
         End(base, f) <= limit
  PROVE  End(base, e) <= limit /\ End(base, e) \in Nat /\ base <= limit
<1> DEFINE u == arch.element_unit
<1>1. u \in Nat
  BY DEF Arch
<1> HIDE DEF u
<1>2. e * u <= f * u /\ e * u \in Nat /\ f * u \in Nat
  BY <1>1, Monotone, NatProduct
<1>3. base + f * u <= limit
  BY DEF End, u
<1> QED BY <1>2, <1>3 DEF End, u

(* A layer of the network that gets addresses, behind n others.            *)
Before(g, n) ==
  /\ arch \in Arch /\ network \in Networks /\ n \in Nat /\ n + 1 \in DOMAIN network
  /\ Arrays(g, network, n) /\ Reserving(g, n) /\ Remembering(g, n)

(* The types of what is known before a layer is translated.                *)
LEMMA BeforeTypes ==
  ASSUME NEW g, NEW n, Before(g, n)
  PROVE  /\ g \in Generator /\ 1 .. n + 1 \subseteq DOMAIN network
         /\ g.new_space_addr \in Nat /\ g.ofmap_base_addr \in Nat
         /\ g.ifmap_base_addr_array \in Seq(Nat) /\ Len(g.ifmap_base_addr_array) = n
         /\ g.ofmap_base_addr_array \in Seq(Nat) /\ Len(g.ofmap_base_addr_array) = n
         /\ g.filter_base_addr_array \in Seq(Nat)
         /\ \A i \in 1 .. n + 1 : InputOf(i) \in Nat /\ FilterOf(i) \in Nat /\ ResultOf(i) \in Nat
                                  /\ ReservedOf(i) \in Nat
<1>1. network \in Seq(Layer)
  BY NetworkAssumption DEF Before
<1>2. 1 .. n + 1 \subseteq DOMAIN network
  BY <1>1 DEF Before
<1>3. \A i \in 1 .. n + 1 : InputOf(i) \in Nat /\ FilterOf(i) \in Nat /\ ResultOf(i) \in Nat
                            /\ ReservedOf(i) \in Nat
  BY <1>2, TensorSizes DEF Before
<1> QED BY <1>2, <1>3 DEF Before, Arrays, Generator

(* A tensor that fits into what a reference stands for ends before new     *)
(* space.                                                                  *)
LEMMA SequentialFits ==
  ASSUME NEW g, NEW n, Before(g, n), n # 0, NEW e \in Nat, Fits(n + 1, Sequential, e)
  PROVE  End(g.ofmap_base_addr, e) <= g.new_space_addr
<1>1. n \in 1 .. n + 1 /\ n \in 1 .. n /\ n + 1 > 1 /\ n + 1 - 1 = n
  BY DEF Before
<1>2. e <= ReservedOf(n) /\ ReservedOf(n) \in Nat
  <2>1. e <= ReservedOf(n + 1 - 1)
    BY <1>1 DEF Fits
  <2> QED BY <1>1, <2>1, BeforeTypes
<1>3. g.ofmap_base_addr = g.ofmap_base_addr_array[n]
  BY DEF Before, Remembering
<1>4. End(g.ofmap_base_addr_array[n], ReservedOf(n)) <= g.new_space_addr
  BY <1>1 DEF Before, Reserving
<1>5. g.ofmap_base_addr \in Nat /\ g.new_space_addr \in Nat /\ arch \in Arch
  BY BeforeTypes DEF Before
<1> QED BY <1>2, <1>3, <1>4, <1>5, SmallerEnds

(* What is no larger than a result ends before new_space_addr where it     *)
(* lies.                                                                   *)
LEMMA NamedResultFits ==
  ASSUME NEW g, NEW n, Before(g, n), NEW e \in Nat, NEW ref \in 1 .. n, ref <= BOUNDARY,
         Fits(n + 1, ref, e)
  PROVE  End(g.ofmap_base_addr_array[ref], e) <= g.new_space_addr
<1>1. n \in Nat /\ ref \in 1 .. n + 1 /\ ref \in 1 .. BOUNDARY
  BY BoundaryAssumption DEF Before
<1>2. e <= ReservedOf(ref) /\ ReservedOf(ref) \in Nat
  BY <1>1, BeforeTypes DEF Fits
<1>3. End(g.ofmap_base_addr_array[ref], ReservedOf(ref)) <= g.new_space_addr
  BY DEF Before, Reserving
<1>4. g.ofmap_base_addr_array[ref] \in Nat /\ g.new_space_addr \in Nat /\ arch \in Arch
  BY BeforeTypes, SMTT(30) DEF Before
<1> QED BY <1>2, <1>3, <1>4, SmallerEnds

(* What is no larger than an input ends before new_space_addr where it     *)
(* lies.                                                                   *)
LEMMA NamedInputFits ==
  ASSUME NEW g, NEW n, Before(g, n), NEW e \in Nat, NEW ref \in Int, ref - BOUNDARY \in 1 .. n,
         network[n + 1].type # "Gemv", Fits(n + 1, ref, e)
  PROVE  End(g.ifmap_base_addr_array[ref - BOUNDARY], e) <= g.new_space_addr
<1> DEFINE k == ref - BOUNDARY
<1>1. n \in Nat /\ k \in 1 .. n + 1 /\ ref > BOUNDARY
  BY BoundaryAssumption DEF Before
<1>2. e <= InputOf(k) /\ InputOf(k) \in Nat
  BY <1>1, BeforeTypes DEF Fits
<1>3. End(g.ifmap_base_addr_array[k], InputOf(k)) <= g.new_space_addr
  BY DEF Before, Reserving
<1>4. g.ifmap_base_addr_array[k] \in Nat /\ g.new_space_addr \in Nat /\ arch \in Arch
  BY BeforeTypes, SMTT(30) DEF Before
<1> QED BY <1>2, <1>3, <1>4, SmallerEnds

(* What is no larger than a vector ends before new_space_addr where it     *)
(* lies.                                                                   *)
LEMMA NamedVectorFits ==
  ASSUME NEW g, NEW n, Before(g, n), NEW e \in Nat, NEW ref \in Int,
         ref - BOUNDARY \in 1 .. Len(g.filter_base_addr_array),
         network[n + 1].type = "Gemv", Fits(n + 1, ref, e)
  PROVE  End(g.filter_base_addr_array[ref - BOUNDARY], e) <= g.new_space_addr
<1> DEFINE k == ref - BOUNDARY
<1>1. n \in Nat /\ ref > BOUNDARY
  BY BoundaryAssumption DEF Before
<1>2. PICK j \in Vectors(network, n) : Cardinality(Vectors(network, j)) = k
  BY DEF Before, Remembering
<1>3. j \in 1 .. n + 1 /\ network[j].type = "Gemv"
  BY <1>1, <1>2 DEF Vectors
<1>4. Cardinality({m \in 1 .. j : network[m].type = "Gemv"}) = k
  BY <1>2 DEF Vectors
<1>5. e <= FilterOf(j) /\ FilterOf(j) \in Nat
  <2>1. e <= FilterOf(j)
    BY <1>1, <1>3, <1>4 DEF Fits
  <2> QED BY <1>3, <2>1, BeforeTypes
<1>6. End(g.filter_base_addr_array[k], FilterOf(j)) <= g.new_space_addr
  BY <1>2 DEF Before, Reserving
<1>7. g.filter_base_addr_array[k] \in Nat /\ g.new_space_addr \in Nat /\ arch \in Arch
  BY BeforeTypes DEF Before
<1> QED BY <1>5, <1>6, <1>7, SmallerEnds

-----------------------------------------------------------------------------
(* Where the tensors of a layer lie: the space before its tensors, behind   *)
(* its input, behind its filter, and behind its result.                    *)
AddressOf(g, inputs, ref, first) ==
  IF first THEN 0 ELSE IF ref = Sequential THEN g.ofmap_base_addr
  ELSE IF ref = NewSpace THEN g.new_space_addr ELSE Named(g, inputs, ref)

(* The same generator, with other space.                                   *)
Moved(g, space) == [g EXCEPT !.new_space_addr = space]

(* A reference: its address, and how far it moves new_space_addr.          *)
LEMMA ResolveUnfolds ==
  ASSUME NEW g \in Generator, NEW inputs, NEW ref \in Int, NEW first \in BOOLEAN, NEW bytes \in Nat
  PROVE  LET s == Resolve(g, inputs, ref, first, bytes)
             space == IF first \/ ref = NewSpace THEN g.new_space_addr + bytes ELSE g.new_space_addr
         IN s.addr = AddressOf(g, inputs, ref, first) /\ s.gen = Moved(g, space)
<1> DEFINE s == Resolve(g, inputs, ref, first, bytes)
           space == IF first \/ ref = NewSpace THEN g.new_space_addr + bytes ELSE g.new_space_addr
<1>1. s.gen = IF first \/ ref = NewSpace
                THEN [g EXCEPT !.new_space_addr = @ + bytes] ELSE g
  BY DEF Resolve
<1>2. s.gen = Moved(g, space)
  <2> HIDE DEF s
  <2>1. CASE first \/ ref = NewSpace
    BY <1>1, <2>1 DEF Moved
  <2>2. CASE ~(first \/ ref = NewSpace)
    <3>1. g = [g EXCEPT !.new_space_addr = g.new_space_addr]
      BY DEF Generator
    <3> QED BY <1>1, <2>2, <3>1 DEF Moved
  <2> QED BY <2>1, <2>2
<1>3. s.addr = AddressOf(g, inputs, ref, first)
  <2>1. s.addr = CASE first -> 0
                   [] ~first /\ ref = Sequential -> g.ofmap_base_addr
                   [] ~first /\ ref = NewSpace -> g.new_space_addr
                   [] OTHER -> Named(g, inputs, ref)
    BY DEF Resolve
  <2> HIDE DEF s
  <2>2. CASE first
    BY <2>1, <2>2 DEF AddressOf
  <2>3. CASE ~first /\ ref = Sequential
    BY <2>1, <2>3 DEF AddressOf, Sequential, NewSpace
  <2>4. CASE ~first /\ ref = NewSpace
    BY <2>1, <2>4 DEF AddressOf, Sequential, NewSpace
  <2>5. CASE ~first /\ ref # Sequential /\ ref # NewSpace
    BY <2>1, <2>5 DEF AddressOf
  <2> QED BY <2>2, <2>3, <2>4, <2>5
<1> QED BY <1>2, <1>3

(* Moving new_space_addr changes no other field.                           *)
LEMMA MovedFields ==
  ASSUME NEW g \in Generator, NEW space \in Nat
  PROVE  /\ Moved(g, space) \in Generator
         /\ Moved(g, space).new_space_addr = space
         /\ Moved(g, space).ofmap_base_addr = g.ofmap_base_addr
         /\ Moved(g, space).ifmap_base_addr_array = g.ifmap_base_addr_array
         /\ Moved(g, space).ofmap_base_addr_array = g.ofmap_base_addr_array
         /\ Moved(g, space).filter_base_addr_array = g.filter_base_addr_array
  BY DEF Generator, Moved

(* The result: its address, and how far it moves new_space_addr.           *)
LEMMA PlaceOfmapUnfolds ==
  ASSUME NEW g \in Generator, NEW inputs, NEW l \in Layer, NEW i, NEW f, NEW bytes
  PROVE  LET s == PlaceOfmap(g, inputs, l, i, f, bytes)
             new == l.ofmap = Sequential
             o == IF new THEN g.new_space_addr ELSE Named(g, inputs, l.ofmap)
         IN /\ s.row.ifmap = i /\ s.row.filter = f /\ s.row.ofmap = o
            /\ s.gen.ofmap_base_addr = o
            /\ s.gen.filter_base_addr_array = g.filter_base_addr_array
            /\ s.gen.new_space_addr = IF new THEN g.new_space_addr + bytes ELSE g.new_space_addr
  BY DEF PlaceOfmap, Generator, Layer

(* Placing the result leaves the filter.                                   *)
LEMMA PlaceOfmapFilter ==
  ASSUME NEW g, NEW inputs, NEW l \in Layer, NEW i, NEW f, NEW bytes
  PROVE  PlaceOfmap(g, inputs, l, i, f, bytes).row.filter = f
  BY DEF PlaceOfmap, Layer

(* A layer that is no matrix-vector product.                               *)
SpacedLayer(g, s, l, first, inputBytes, filterBytes, resultBytes) ==
  LET shared == first /\ l.type # "Im2col_conv"
      ref == FilterReference(l)
      space1 == IF first \/ l.ifmap = NewSpace THEN g.new_space_addr + inputBytes ELSE g.new_space_addr
      space2 == IF shared \/ ref = NewSpace THEN space1 + filterBytes ELSE space1
      inputs == Append(g.ifmap_base_addr_array, s.row.ifmap)
      o == IF l.ofmap = Sequential THEN space2 ELSE Named(g, inputs, l.ofmap)
  IN /\ s.row.ifmap = AddressOf(g, g.ifmap_base_addr_array, l.ifmap, first)
     /\ s.row.filter = IF shared THEN 0 ELSE IF ref = Sequential THEN g.ofmap_base_addr
                       ELSE IF ref = NewSpace THEN space1 ELSE Named(g, inputs, ref)
     /\ s.row.ofmap = o /\ s.gen.ofmap_base_addr = o
     /\ s.gen.filter_base_addr_array = g.filter_base_addr_array
     /\ s.gen.new_space_addr = IF l.ofmap = Sequential THEN space2 + resultBytes ELSE space2

(* SetVariableConfig, its three references in turn.                        *)
LEMMA LayerUnfolds ==
  ASSUME NEW a, NEW g \in Generator, NEW described, NEW first \in BOOLEAN, AsGemm(described) \in Layer,
         AddressOf(g, g.ifmap_base_addr_array, AsGemm(described).ifmap, first) \in Nat,
         IfmapElements(AsGemm(described)) * a.element_unit \in Nat,
         FilterElements(AsGemm(described)) * a.element_unit \in Nat
  PROVE  LET l == AsGemm(described)
             u == a.element_unit
         IN SpacedLayer(g, SetVariableConfig(a, g, described, first), l, first,
                        IfmapElements(l) * u, FilterElements(l) * u, ResultElements(l) * u)
<1> DEFINE l == AsGemm(described)
           u == a.element_unit
           ib == IfmapElements(l) * u
           fb == FilterElements(l) * u
           rb == ResultElements(l) * u
           ref == FilterReference(l)
           shared == first /\ l.type # "Im2col_conv"
           x == AddressOf(g, g.ifmap_base_addr_array, l.ifmap, first)
           space1 == IF first \/ l.ifmap = NewSpace THEN g.new_space_addr + ib ELSE g.new_space_addr
           space2 == IF shared \/ ref = NewSpace THEN space1 + fb ELSE space1
           inputs == Append(g.ifmap_base_addr_array, x)
           ifmap == Resolve(g, g.ifmap_base_addr_array, l.ifmap, first, ib)
           g1 == [ifmap.gen EXCEPT !.ifmap_base_addr_array = Append(@, ifmap.addr)]
           filter == Resolve(g1, g1.ifmap_base_addr_array, ref, shared, fb)
           s == SetVariableConfig(a, g, described, first)
<1>1. s = PlaceOfmap(filter.gen, g1.ifmap_base_addr_array, l, ifmap.addr, filter.addr, rb)
  BY DEF SetVariableConfig
<1>2. l \in Layer /\ l.ifmap \in Int /\ ref \in Int /\ shared \in BOOLEAN
      /\ ib \in Nat /\ fb \in Nat /\ x \in Nat
  BY DEF Layer, FilterReference, NewSpace
<1> HIDE DEF s, l, ib, fb, rb, ref, shared
<1>3. ifmap.addr = x /\ ifmap.gen = Moved(g, space1)
  BY <1>2, ResolveUnfolds
<1>4. space1 \in Nat /\ space2 \in Nat
  <2>1. g.new_space_addr \in Nat
    BY DEF Generator
  <2>2. space1 \in Nat
    BY <1>2, <2>1
  <2> HIDE DEF space1
  <2> QED BY <1>2, <2>2
<1> HIDE DEF x, space1, ifmap
<1>5. /\ g1 \in Generator /\ g1.new_space_addr = space1 /\ g1.ofmap_base_addr = g.ofmap_base_addr
      /\ g1.ifmap_base_addr_array = inputs
      /\ g1.ofmap_base_addr_array = g.ofmap_base_addr_array
      /\ g1.filter_base_addr_array = g.filter_base_addr_array
  <2> DEFINE h == ifmap.gen
  <2>1. /\ h \in Generator /\ h.new_space_addr = space1 /\ h.ofmap_base_addr = g.ofmap_base_addr
        /\ h.ifmap_base_addr_array = g.ifmap_base_addr_array
        /\ h.ofmap_base_addr_array = g.ofmap_base_addr_array
        /\ h.filter_base_addr_array = g.filter_base_addr_array
    BY <1>3, <1>4, MovedFields
  <2>2. g1 = [h EXCEPT !.ifmap_base_addr_array = inputs]
    BY <1>3, <2>1
  <2>3. inputs \in Seq(Nat)
    BY <1>2 DEF Generator
  <2> HIDE DEF h, g1, inputs
  <2> QED BY <2>1, <2>2, <2>3 DEF Generator
<1> HIDE DEF g1
<1>6. filter.addr = AddressOf(g1, inputs, ref, shared) /\ filter.gen = Moved(g1, space2)
  <2>1. filter = Resolve(g1, inputs, ref, shared, fb)
    BY <1>5
  <2> HIDE DEF filter, inputs
  <2> QED BY <1>2, <1>5, <2>1, ResolveUnfolds
<1> HIDE DEF filter
<1> DEFINE g2 == filter.gen
<1>7. /\ g2 \in Generator /\ g2.new_space_addr = space2
      /\ g2.ofmap_base_addr_array = g.ofmap_base_addr_array
      /\ g2.filter_base_addr_array = g.filter_base_addr_array
  <2>1. g2 = Moved(g1, space2)
    BY <1>6
  <2> HIDE DEF g2, space2
  <2> QED BY <1>4, <1>5, <2>1, MovedFields
<1>8. s = PlaceOfmap(g2, inputs, l, x, filter.addr, rb)
  BY <1>1, <1>3, <1>5
<1> HIDE DEF g2, inputs, space2
<1> DEFINE new == l.ofmap = Sequential
           o == IF new THEN g2.new_space_addr ELSE Named(g2, inputs, l.ofmap)
<1>9. /\ s.row.ifmap = x /\ s.row.filter = filter.addr /\ s.row.ofmap = o
      /\ s.gen.ofmap_base_addr = o
      /\ s.gen.filter_base_addr_array = g2.filter_base_addr_array
      /\ s.gen.new_space_addr = IF new THEN g2.new_space_addr + rb ELSE g2.new_space_addr
  BY <1>2, <1>7, <1>8, PlaceOfmapUnfolds
<1>10. /\ Named(g2, inputs, l.ofmap) = Named(g, inputs, l.ofmap)
       /\ Named(g1, inputs, ref) = Named(g, inputs, ref)
  BY <1>5, <1>7 DEF Named
<1>11. o = IF new THEN space2 ELSE Named(g, inputs, l.ofmap)
  BY <1>7, <1>10
<1>12. filter.addr = IF shared THEN 0 ELSE IF ref = Sequential THEN g.ofmap_base_addr
                     ELSE IF ref = NewSpace THEN space1 ELSE Named(g, inputs, ref)
  BY <1>5, <1>6, <1>10 DEF AddressOf
<1> HIDE DEF o
<1>13. SpacedLayer(g, s, l, first, ib, fb, rb)
  BY <1>7, <1>9, <1>11, <1>12 DEF SpacedLayer, x, ref, shared, space1, space2, inputs
<1> QED BY <1>13 DEF s, l, ib, fb, rb

(* A matrix-vector product.                                                *)
SpacedVector(g, s, l, first, matrixBytes, vectorBytes, resultBytes) ==
  LET space1 == g.new_space_addr + matrixBytes
      space2 == IF l.filter = NewSpace THEN space1 + vectorBytes ELSE space1
      vectors == Append(g.filter_base_addr_array, s.row.filter)
      o == IF l.ofmap = Sequential THEN space2 ELSE Named(g, vectors, l.ofmap)
  IN /\ s.row.ifmap = IF first THEN 0 ELSE g.new_space_addr
     /\ s.row.filter = IF l.filter = Sequential THEN g.ofmap_base_addr
                       ELSE IF l.filter = NewSpace THEN space1
                       ELSE Named(g, g.filter_base_addr_array, l.filter)
     /\ s.row.ofmap = o /\ s.gen.ofmap_base_addr = o
     /\ s.gen.filter_base_addr_array = vectors
     /\ s.gen.new_space_addr = IF l.ofmap = Sequential THEN space2 + resultBytes ELSE space2

(* SetVariableConfigGemv, its three references in turn.                    *)
LEMMA VectorUnfolds ==
  ASSUME NEW a, NEW g \in Generator, NEW l \in Layer, NEW first \in BOOLEAN,
         l.ifmap_height * l.ifmap_width * a.element_unit \in Nat,
         l.filter_height * a.element_unit \in Nat,
         SetVariableConfigGemv(a, g, l, first).row.filter \in Nat
  PROVE  SpacedVector(g, SetVariableConfigGemv(a, g, l, first), l, first,
                      l.ifmap_height * l.ifmap_width * a.element_unit,
                      l.filter_height * a.element_unit, l.ifmap_height * a.element_unit)
<1> DEFINE u == a.element_unit
           mb == l.ifmap_height * l.ifmap_width * u
           vb == l.filter_height * u
           rb == l.ifmap_height * u
           never == FALSE
           matrix == IF first THEN 0 ELSE g.new_space_addr
           matrices == Append(g.ifmap_base_addr_array, matrix)
           space1 == g.new_space_addr + mb
           space2 == IF l.filter = NewSpace THEN space1 + vb ELSE space1
           g1 == [g EXCEPT !.new_space_addr = @ + mb,
                           !.ifmap_base_addr_array = Append(@, matrix)]
           known == g.filter_base_addr_array
           vector == Resolve(g1, g1.filter_base_addr_array, l.filter, never, vb)
           g2 == [vector.gen EXCEPT !.filter_base_addr_array = Append(@, vector.addr)]
           s == SetVariableConfigGemv(a, g, l, first)
<1>1. s = PlaceOfmap(g2, g2.filter_base_addr_array, l, matrix, vector.addr, rb)
  BY DEF SetVariableConfigGemv
<1>2. l.filter \in Int /\ never \in BOOLEAN /\ mb \in Nat /\ vb \in Nat /\ g.new_space_addr \in Nat
      /\ known \in Seq(Nat) /\ s.row.filter \in Nat
  BY DEF Layer, Generator
<1> HIDE DEF s, mb, vb, rb, never, u
<1>3. space1 \in Nat /\ matrix \in Nat
  BY <1>2
<1>4. space2 \in Nat
  BY <1>2, <1>3
<1> HIDE DEF space2
<1>5. /\ g1 \in Generator /\ g1.new_space_addr = space1 /\ g1.ofmap_base_addr = g.ofmap_base_addr
      /\ g1.ofmap_base_addr_array = g.ofmap_base_addr_array
      /\ g1.filter_base_addr_array = known
  <2>1. g1 = [g EXCEPT !.new_space_addr = space1, !.ifmap_base_addr_array = matrices]
    OBVIOUS
  <2>2. matrices \in Seq(Nat)
    BY <1>3 DEF Generator
  <2> HIDE DEF g1, matrices, space1
  <2> QED BY <1>3, <2>1, <2>2 DEF Generator
<1>6. vector = Resolve(g1, known, l.filter, never, vb)
  BY <1>5
<1> HIDE DEF g1, vector, known, matrix
<1>7. vector.addr = AddressOf(g1, known, l.filter, never) /\ vector.gen = Moved(g1, space2)
  <2> DEFINE z == IF never \/ l.filter = NewSpace THEN g1.new_space_addr + vb ELSE g1.new_space_addr
             ref == l.filter
  <2>1. z = space2
    BY <1>5 DEF never, space2
  <2>2. ref \in Int /\ never \in BOOLEAN /\ vb \in Nat /\ g1 \in Generator
    BY <1>2, <1>5
  <2> HIDE DEF g2, vector, ref
  <2>3. LET found == Resolve(g1, known, ref, never, vb)
        IN found.addr = AddressOf(g1, known, ref, never)
           /\ found.gen = Moved(g1, IF never \/ ref = NewSpace THEN g1.new_space_addr + vb
                                 ELSE g1.new_space_addr)
    BY <2>2, ResolveUnfolds
  <2> QED BY <1>6, <2>1, <2>3 DEF ref
<1> HIDE DEF space1
<1>8. s.row.filter = vector.addr
  BY <1>1, PlaceOfmapFilter
<1> DEFINE vectors == Append(known, vector.addr)
           h == vector.gen
<1>9. /\ h \in Generator /\ h.new_space_addr = space2
      /\ h.ofmap_base_addr_array = g.ofmap_base_addr_array
      /\ h.filter_base_addr_array = known
  <2>1. h = Moved(g1, space2)
    BY <1>7
  <2> HIDE DEF h
  <2> QED BY <1>4, <1>5, <2>1, MovedFields
<1>10. /\ g2 \in Generator /\ g2.new_space_addr = space2
       /\ g2.ofmap_base_addr_array = g.ofmap_base_addr_array
       /\ g2.filter_base_addr_array = vectors
  <2>1. g2 = [h EXCEPT !.filter_base_addr_array = vectors]
    BY <1>9
  <2>2. vectors \in Seq(Nat)
    BY <1>2, <1>8
  <2> HIDE DEF h, g2, vectors
  <2> QED BY <1>9, <2>1, <2>2 DEF Generator
<1>11. s = PlaceOfmap(g2, vectors, l, matrix, vector.addr, rb)
  BY <1>1, <1>10
<1> HIDE DEF g2, vectors, h
<1> DEFINE new == l.ofmap = Sequential
           o == IF new THEN g2.new_space_addr ELSE Named(g2, vectors, l.ofmap)
<1>12. /\ s.row.ifmap = matrix /\ s.row.filter = vector.addr /\ s.row.ofmap = o
       /\ s.gen.ofmap_base_addr = o
       /\ s.gen.filter_base_addr_array = g2.filter_base_addr_array
       /\ s.gen.new_space_addr = IF new THEN g2.new_space_addr + rb ELSE g2.new_space_addr
  BY <1>10, <1>11, PlaceOfmapUnfolds
<1>13. /\ Named(g2, vectors, l.ofmap) = Named(g, vectors, l.ofmap)
       /\ Named(g1, known, l.filter) = Named(g, known, l.filter)
  BY <1>5, <1>10 DEF Named
<1>14. o = IF new THEN space2 ELSE Named(g, vectors, l.ofmap)
  BY <1>10, <1>13
<1>15. vector.addr = IF l.filter = Sequential THEN g.ofmap_base_addr
                     ELSE IF l.filter = NewSpace THEN space1 ELSE Named(g, known, l.filter)
  BY <1>5, <1>7, <1>13 DEF AddressOf, never
<1> HIDE DEF o
<1>16. SpacedVector(g, s, l, first, mb, vb, rb)
  BY <1>10, <1>12, <1>14, <1>15 DEF SpacedVector, matrix, space1, space2, known, vectors
<1> QED BY <1>16 DEF s, mb, vb, rb, u

-----------------------------------------------------------------------------
(* New space lies behind what is in use and behind the two inputs of the    *)
(* layer, if they fit what they are put on, and so does its result, where   *)
(* it is not placed by name.                                                *)
Surrounds(g, s, i, space, reserved) ==
  LET new == AsGemm(network[i]).ofmap = Sequential
  IN /\ g.new_space_addr <= space
     /\ End(s.row.ifmap, InputOf(i)) <= space
     /\ FilterFits(i) => End(s.row.filter, FilterOf(i)) <= space
     /\ new => s.row.ofmap = space /\ s.gen.new_space_addr = space + reserved
     /\ ~new => End(s.row.ofmap, ResultOf(i)) <= space /\ s.gen.new_space_addr = space

(* What is no larger than the tensor it is named for has room there.       *)
LEMMA ReferenceFits ==
  ASSUME NEW g, NEW n, Before(g, n), n # 0, NEW e \in Nat, NEW ref \in Int,
         ref = Sequential \/ InArrays(ref, n, n), network[n + 1].type # "Gemv", Fits(n + 1, ref, e)
  PROVE  End(IF ref = Sequential THEN g.ofmap_base_addr
             ELSE Named(g, g.ifmap_base_addr_array, ref), e) <= g.new_space_addr
<1>1. CASE ref = Sequential
  BY <1>1, SequentialFits
<1>2. CASE ref # Sequential /\ ref \in 1 .. n /\ ref <= BOUNDARY
  BY <1>2, NamedResultFits DEF Named
<1>3. CASE ref # Sequential /\ ref - BOUNDARY \in 1 .. n
  <2>1. ~(ref <= BOUNDARY)
    BY <1>3, BoundaryAssumption
  <2> QED BY <1>3, <2>1, NamedInputFits DEF Named
<1> QED BY <1>1, <1>2, <1>3 DEF InArrays

(* The result of a layer that names it: an earlier result, or an input, its  *)
(* own among them.                                                           *)
LEMMA ResultFits ==
  ASSUME NEW g, NEW n, Before(g, n), network[n + 1].type # "Gemv", NEW ref \in Int,
         InArrays(ref, n, n + 1), NEW e \in Nat, Fits(n + 1, ref, e),
         NEW own \in Nat, NEW space \in Nat, g.new_space_addr <= space,
         End(own, InputOf(n + 1)) <= space
  PROVE  End(Named(g, Append(g.ifmap_base_addr_array, own), ref), e) <= space
<1> DEFINE x == g.ifmap_base_addr_array
           inputs == Append(x, own)
<1>1. /\ n \in Nat /\ arch \in Arch /\ x \in Seq(Nat) /\ Len(x) = n /\ g.new_space_addr \in Nat
      /\ g.ofmap_base_addr_array \in Seq(Nat) /\ Len(g.ofmap_base_addr_array) = n
      /\ InputOf(n + 1) \in Nat
  BY BeforeTypes, SMTT(30) DEF Before
<1>2. \A k \in 1 .. n : inputs[k] = x[k]
  BY <1>1
<1>3. inputs[n + 1] = own
  BY <1>1
<1> HIDE DEF x, inputs
<1>4. CASE ref \in 1 .. n /\ ref <= BOUNDARY
  <2>1. End(g.ofmap_base_addr_array[ref], e) <= g.new_space_addr
    BY <1>4, NamedResultFits
  <2>2. g.ofmap_base_addr_array[ref] \in Nat
    <3> DEFINE y == g.ofmap_base_addr_array
    <3>1. y \in Seq(Nat) /\ ref \in 1 .. Len(y)
      BY <1>1, <1>4
    <3> HIDE DEF y
    <3>2. y[ref] \in Nat
      BY ONLY <3>1
    <3> QED BY <3>2 DEF y
  <2>3. End(g.ofmap_base_addr_array[ref], e) \in Nat
    BY <1>1, <2>2, EndIsNumber
  <2> QED BY <1>1, <1>4, <2>1, <2>3 DEF Named
<1>5. CASE ref - BOUNDARY \in 1 .. n
  <2>1. ~(ref <= BOUNDARY)
    BY <1>5, BoundaryAssumption
  <2>2. End(x[ref - BOUNDARY], e) <= g.new_space_addr
    BY <1>5, NamedInputFits DEF x
  <2>3. x[ref - BOUNDARY] \in Nat
    BY <1>1, <1>5
  <2>4. End(x[ref - BOUNDARY], e) \in Nat
    BY <1>1, <2>3, EndIsNumber
  <2> QED BY <1>1, <1>2, <1>5, <2>1, <2>2, <2>4 DEF Named, inputs, x
<1>6. CASE ref - BOUNDARY = n + 1
  <2>1. ref > BOUNDARY /\ ~(ref <= BOUNDARY)
    BY <1>1, <1>6, BoundaryAssumption
  <2>2. e <= InputOf(n + 1)
    <3>1. e <= InputOf(ref - BOUNDARY)
      BY <1>1, <1>6, <2>1 DEF Fits
    <3> QED BY <1>6, <3>1
  <2>3. End(own, e) <= space
    BY <1>1, <2>2, SmallerEnds
  <2> QED BY <1>3, <1>6, <2>1, <2>3 DEF Named, inputs, x
<1> QED BY <1>1, <1>4, <1>5, <1>6 DEF InArrays

(* SetVariableConfig in a state before a layer.                            *)
LEMMA LayerIsSpaced ==
  ASSUME arch \in Arch, network \in Networks, NEW n \in Nat, n + 1 \in DOMAIN network,
         NEW g, Arrays(g, network, n), network[n + 1].type # "Gemv"
  PROVE  LET l == AsGemm(network[n + 1])
             u == arch.element_unit
         IN SpacedLayer(g, SetVariableConfig(arch, g, network[n + 1], n = 0), l, n = 0,
                        IfmapElements(l) * u, FilterElements(l) * u, ResultElements(l) * u)
<1> DEFINE k == network[n + 1]
           l == AsGemm(k)
           u == arch.element_unit
           first == n = 0
           s == SetVariableConfig(arch, g, k, first)
           ib == IfmapElements(l) * u
           fb == FilterElements(l) * u
           rb == ResultElements(l) * u
<1>1. /\ g \in Generator
      /\ Len(g.ifmap_base_addr_array) = n /\ Len(g.ofmap_base_addr_array) = n
      /\ g.new_space_addr \in Nat
  BY DEF Arrays, Generator
<1>2. /\ l \in Layer /\ l.type = k.type /\ k.type # "Gemv" /\ l.ifmap = k.ifmap
      /\ l.ifmap \in Int
  <2>1. k \in Layer /\ (k.type \in Windowed => WindowInside(k))
    BY NetworkAssumption
  <2>2. l \in Layer /\ l.type = k.type
    BY <2>1, AsGemmIsLayer DEF Windowed
  <2>3. l.ifmap = k.ifmap
    BY <2>1 DEF AsGemm, Layer
  <2> QED BY <2>2, <2>3 DEF Layer
<1>3. ib \in Nat /\ fb \in Nat
  <2>1. u \in Nat
    BY DEF Arch
  <2>2. IfmapElements(l) \in Nat /\ FilterElements(l) \in Nat
    <3>1. l.type \in {"Conv", "Pool"} => WindowInside(l)
      <4>1. k \in Layer /\ (k.type \in Windowed => WindowInside(k))
        BY NetworkAssumption
      <4> QED BY <4>1, AsGemmSame
    <3> HIDE DEF l
    <3> QED BY <1>2, <3>1, SizesOfLayer DEF Pos
  <2> HIDE DEF u, l
  <2> QED BY <2>1, <2>2, NatProduct
<1>4. SpacedLayer(g, s, l, first, ib, fb, rb)
  <2> DEFINE x == AddressOf(g, g.ifmap_base_addr_array, l.ifmap, first)
  <2>1. x \in Nat
    <3>1. /\ first \/ l.ifmap \in {Sequential, NewSpace} \/ InArrays(l.ifmap, n, n)
          /\ g.ofmap_base_addr \in Nat
      <4>1. \/ n = 0 \/ k.ifmap \in {Sequential, NewSpace}
            \/ InArrays(k.ifmap, Len(g.ofmap_base_addr_array), Len(g.ifmap_base_addr_array))
        BY <1>1, <1>2, ReferencesInArrays
      <4> QED BY <1>1, <1>2, <4>1 DEF Generator
    <3>2. InArrays(l.ifmap, n, n) => Named(g, g.ifmap_base_addr_array, l.ifmap) \in Nat
      <4> DEFINE q == g.ifmap_base_addr_array
                 m == l.ifmap
      <4>1. q \in Seq(Nat) /\ Len(q) = n /\ Len(g.ofmap_base_addr_array) = n /\ m \in Int
        BY <1>1, <1>2 DEF Generator
      <4> HIDE DEF q, m
      <4>2. InArrays(m, n, n) => Named(g, q, m) \in Nat
        BY <1>1, <4>1, NamedIsAddress
      <4> QED BY <4>2 DEF q, m
    <3> HIDE DEF first, l, k
    <3> QED BY <1>1, <3>1, <3>2 DEF AddressOf
  <2>2. first \in BOOLEAN
    OBVIOUS
  <2> HIDE DEF first, k
  <2> QED BY <1>1, <1>2, <1>3, <2>1, <2>2, LayerUnfolds
<1> QED BY <1>4 DEF s, l, ib, fb, rb, u, k

(* A layer's tensors end before new space, its new result lies behind      *)
(* them.                                                                   *)
LEMMA LayerSurrounds ==
  ASSUME NEW g, NEW n, Before(g, n), network[n + 1].type # "Gemv", FitsNames(n + 1)
  PROVE  LET s == SetVariableConfig(arch, g, network[n + 1], n = 0)
             reserved == ResultElements(AsGemm(network[n + 1])) * arch.element_unit
         IN \E space \in Nat : Surrounds(g, s, n + 1, space, reserved)
<1> DEFINE k == network[n + 1]
           l == AsGemm(k)
           u == arch.element_unit
           first == n = 0
           s == SetVariableConfig(arch, g, k, first)
           ib == IfmapElements(l) * u
           fb == FilterElements(l) * u
           rb == ResultElements(l) * u
           ref == FilterReference(l)
           shared == first /\ l.type # "Im2col_conv"
           space0 == g.new_space_addr
           space1 == IF first \/ l.ifmap = NewSpace THEN space0 + ib ELSE space0
           space2 == IF shared \/ ref = NewSpace THEN space1 + fb ELSE space1
           inputs == Append(g.ifmap_base_addr_array, s.row.ifmap)
<1>1. /\ n \in Nat /\ arch \in Arch /\ network \in Networks /\ n + 1 \in DOMAIN network
      /\ Arrays(g, network, n) /\ g \in Generator /\ space0 \in Nat
      /\ Len(g.ifmap_base_addr_array) = n /\ Len(g.ofmap_base_addr_array) = n
  BY BeforeTypes DEF Before
<1>2. /\ l \in Layer /\ l.type = k.type /\ k.type # "Gemv" /\ l.ifmap = k.ifmap
      /\ l.ofmap = k.ofmap /\ l.ifmap \in Int /\ l.ofmap \in Int
  <2>1. k \in Layer /\ (k.type \in Windowed => WindowInside(k))
    BY <1>1, NetworkAssumption
  <2>2. l \in Layer /\ l.type = k.type
    BY <2>1, AsGemmIsLayer DEF Windowed
  <2>3. l.ifmap = k.ifmap /\ l.ofmap = k.ofmap
    BY <2>1 DEF AsGemm, Layer
  <2> QED BY <2>2, <2>3 DEF Layer
<1>3. s.row.ifmap \in Nat /\ s.row.filter \in Nat /\ s.row.ofmap \in Nat
  <2>1. AddressesOf(arch, g, k, n = 0) = s
    BY <1>2 DEF AddressesOf
  <2>2. Resolved(network, n + 1, AddressesOf(arch, g, k, n = 0).row)
    BY <1>1, NextPlaced
  <2> HIDE DEF s
  <2> QED BY <2>1, <2>2 DEF Resolved, RowIn
<1>4. /\ InputOf(n + 1) = IfmapElements(l) /\ FilterOf(n + 1) = FilterElements(l)
      /\ InputOf(n + 1) \in Nat /\ FilterOf(n + 1) \in Nat /\ ResultOf(n + 1) \in Nat
  <2>1. InputOf(n + 1) \in Nat /\ FilterOf(n + 1) \in Nat /\ ResultOf(n + 1) \in Nat
    BY <1>1, BeforeTypes
  <2> QED BY <1>2, <2>1 DEF InputOf, FilterOf
<1>5. ib \in Nat /\ fb \in Nat /\ u \in Nat
  <2>1. u \in Nat
    BY <1>1 DEF Arch
  <2> HIDE DEF u, l
  <2> QED BY <1>4, <2>1, NatProduct
<1>6. SpacedLayer(g, s, l, first, ib, fb, rb)
  BY <1>1, <1>2, LayerIsSpaced
<1> HIDE DEF s, ib, fb, rb, u, ref, l, k
<1>7. /\ ~first => /\ Fits(n + 1, l.ifmap, InputOf(n + 1))
                   /\ FilterFits(n + 1) /\ l.type # "Im2col_conv" => Fits(n + 1, l.ifmap, FilterOf(n + 1))
      /\ l.ofmap # Sequential => Fits(n + 1, l.ofmap, ResultOf(n + 1))
  BY <1>1, <1>2 DEF FitsNames, FilterFits, l, k
<1>8. End(s.row.ifmap, InputOf(n + 1)) = s.row.ifmap + ib
      /\ End(s.row.filter, FilterOf(n + 1)) = s.row.filter + fb
  BY <1>4 DEF End, ib, fb, u
<1>9. space1 \in Nat /\ space2 \in Nat /\ space0 <= space1 /\ space1 <= space2
  BY <1>1, <1>5
<1>10. (first <=> n = 0) /\ ref = IF l.type = "Im2col_conv" THEN NewSpace ELSE l.ifmap
  BY DEF ref, FilterReference
<1>11. ~first => l.ifmap \in {Sequential, NewSpace} \/ InArrays(l.ifmap, n, n)
  <2>1. \/ n = 0 \/ k.ifmap \in {Sequential, NewSpace}
        \/ InArrays(k.ifmap, Len(g.ofmap_base_addr_array), Len(g.ifmap_base_addr_array))
    <3>1. network[n + 1].type # "Gemv"
      BY <1>2 DEF k
    <3> QED BY <1>1, <3>1, ReferencesInArrays DEF k
  <2> QED BY <1>1, <1>2, <1>10, <2>1
<1>12. l.ofmap = Sequential \/ InArrays(l.ofmap, n, n + 1)
  <2>1. k.ofmap = Sequential
          \/ InArrays(k.ofmap, Len(g.ofmap_base_addr_array), Len(g.ifmap_base_addr_array) + 1)
    <3>1. network[n + 1].type # "Gemv"
      BY <1>2 DEF k
    <3> QED BY <1>1, <3>1, ReferencesInArrays DEF k
  <2> QED BY <1>1, <1>2, <2>1
<1> HIDE DEF first
<1>13. ASSUME ~first, l.ifmap # NewSpace, NEW e \in Nat, Fits(n + 1, l.ifmap, e)
       PROVE  End(IF l.ifmap = Sequential THEN g.ofmap_base_addr
                  ELSE Named(g, g.ifmap_base_addr_array, l.ifmap), e) <= space0
  <2> DEFINE m == l.ifmap
  <2>1. m \in Int /\ (m = Sequential \/ InArrays(m, n, n)) /\ n # 0 /\ Fits(n + 1, m, e)
    BY <1>2, <1>10, <1>11, <1>13
  <2> HIDE DEF m
  <2>2. End(IF m = Sequential THEN g.ofmap_base_addr
            ELSE Named(g, g.ifmap_base_addr_array, m), e) <= g.new_space_addr
    BY <2>1, ReferenceFits
  <2> QED BY <2>2 DEF m
<1>14. End(s.row.ifmap, InputOf(n + 1)) <= space1
  <2>1. s.row.ifmap = AddressOf(g, g.ifmap_base_addr_array, l.ifmap, first)
    BY <1>6 DEF SpacedLayer
  <2>2. CASE first
    BY <1>1, <1>5, <1>8, <2>1, <2>2 DEF AddressOf
  <2>3. CASE ~first /\ l.ifmap = NewSpace
    BY <1>1, <1>5, <1>8, <2>1, <2>3 DEF AddressOf, Sequential, NewSpace
  <2>4. CASE ~first /\ l.ifmap # NewSpace
    <3>1. s.row.ifmap = IF l.ifmap = Sequential THEN g.ofmap_base_addr
                        ELSE Named(g, g.ifmap_base_addr_array, l.ifmap)
      BY <2>1, <2>4 DEF AddressOf
    <3>2. End(s.row.ifmap, InputOf(n + 1)) <= space0
      BY <1>4, <1>7, <1>13, <2>4, <3>1
    <3> QED BY <2>4, <3>2
  <2> QED BY <2>2, <2>3, <2>4
<1>15. ASSUME FilterFits(n + 1)
       PROVE  End(s.row.filter, FilterOf(n + 1)) <= space2
  <2>1. s.row.filter = IF shared THEN 0 ELSE IF ref = Sequential THEN g.ofmap_base_addr
                       ELSE IF ref = NewSpace THEN space1 ELSE Named(g, inputs, ref)
    BY <1>6 DEF SpacedLayer, ref
  <2>2. CASE shared
    <3>1. s.row.filter = 0 /\ space2 = space1 + fb
      BY <2>1, <2>2
    <3> HIDE DEF space1, space2
    <3> QED BY <1>5, <1>8, <1>9, <3>1
  <2>3. CASE ~shared /\ ref = NewSpace
    <3>1. s.row.filter = space1 /\ space2 = space1 + fb
      BY <2>1, <2>3 DEF Sequential, NewSpace
    <3> HIDE DEF space1, space2
    <3> QED BY <1>5, <1>8, <1>9, <3>1
  <2>4. CASE ~shared /\ ref # NewSpace
    <3>1. ~first /\ l.ifmap # NewSpace /\ ref = l.ifmap /\ l.type # "Im2col_conv"
      BY <1>10, <2>4
    <3>2. ref # Sequential => Named(g, inputs, ref) = Named(g, g.ifmap_base_addr_array, ref)
      <4> DEFINE x == g.ifmap_base_addr_array
      <4>1. x \in Seq(Nat) /\ Len(x) = n
        BY <1>1 DEF Generator
      <4> HIDE DEF x
      <4>2. \A m \in 1 .. n : Append(x, s.row.ifmap)[m] = x[m]
        BY <1>3, <4>1
      <4>3. ref # Sequential => (ref \in 1 .. n /\ ref <= BOUNDARY) \/ ref - BOUNDARY \in 1 .. n
        BY <1>11, <3>1 DEF InArrays
      <4> QED BY <4>2, <4>3 DEF Named, x
    <3>3. s.row.filter = IF l.ifmap = Sequential THEN g.ofmap_base_addr
                         ELSE Named(g, g.ifmap_base_addr_array, l.ifmap)
      BY <2>1, <2>4, <3>1, <3>2
    <3>4. End(s.row.filter, FilterOf(n + 1)) <= space0
      BY <1>4, <1>7, <1>13, <1>15, <3>1, <3>3
    <3>5. End(s.row.filter, FilterOf(n + 1)) \in Nat
      BY <1>1, <1>3, <1>4, EndIsNumber
    <3> HIDE DEF space0, space1, space2
    <3> QED BY <1>1, <1>9, <3>4, <3>5
  <2> QED BY <2>2, <2>3, <2>4
<1>16. /\ s.row.ofmap = IF l.ofmap = Sequential THEN space2 ELSE Named(g, inputs, l.ofmap)
       /\ s.gen.new_space_addr = IF l.ofmap = Sequential THEN space2 + rb ELSE space2
  BY <1>6 DEF SpacedLayer, ref
<1> HIDE DEF space0, space1, space2
<1>17. End(s.row.ifmap, InputOf(n + 1)) <= space2 /\ g.new_space_addr <= space2
  <2>1. End(s.row.ifmap, InputOf(n + 1)) \in Nat
    BY <1>1, <1>3, <1>4, EndIsNumber
  <2> QED BY <1>1, <1>9, <1>14, <2>1 DEF space0
<1>18. l.ofmap # Sequential => End(s.row.ofmap, ResultOf(n + 1)) <= space2
  <2> DEFINE m == l.ofmap
             own == s.row.ifmap
             e == ResultOf(n + 1)
  <2>1. ASSUME m # Sequential
        PROVE  /\ m \in Int /\ InArrays(m, n, n + 1) /\ Fits(n + 1, m, e) /\ e \in Nat /\ own \in Nat
               /\ s.row.ofmap = Named(g, Append(g.ifmap_base_addr_array, own), m)
               /\ network[n + 1].type # "Gemv" /\ End(own, InputOf(n + 1)) <= space2
    BY <1>2, <1>3, <1>4, <1>7, <1>12, <1>16, <1>17, <2>1 DEF k
  <2> HIDE DEF m, own, e
  <2>2. ASSUME m # Sequential
        PROVE  End(s.row.ofmap, e) <= space2
    BY <1>9, <1>17, <2>1, <2>2, ResultFits
  <2> QED BY <2>2 DEF m, e
<1>19. Surrounds(g, s, n + 1, space2, rb)
  BY <1>15, <1>16, <1>17, <1>18 DEF Surrounds, l, k
<1> QED BY <1>9, <1>19 DEF s, rb, l, k, u, first

(* The vector of a matrix-vector product, and its result when it is named.  *)
LEMMA VectorFits ==
  ASSUME NEW g, NEW n, Before(g, n), network[n + 1].type = "Gemv", NEW e \in Nat, NEW ref \in Int,
         ref = Sequential \/ InArrays(ref, n, Len(g.filter_base_addr_array)), Fits(n + 1, ref, e),
         NEW space \in Nat, g.new_space_addr <= space
  PROVE  End(IF ref = Sequential THEN g.ofmap_base_addr
             ELSE Named(g, g.filter_base_addr_array, ref), e) <= space
<1>1. /\ n \in Nat /\ arch \in Arch /\ g.new_space_addr \in Nat /\ g.ofmap_base_addr \in Nat
      /\ g.ofmap_base_addr_array \in Seq(Nat) /\ Len(g.ofmap_base_addr_array) = n
      /\ g.filter_base_addr_array \in Seq(Nat)
  BY BeforeTypes DEF Before
<1>2. CASE ref = Sequential /\ n # 0
  <2>1. End(g.ofmap_base_addr, e) <= g.new_space_addr
    BY <1>2, SequentialFits
  <2>2. End(g.ofmap_base_addr, e) \in Nat
    BY <1>1, EndIsNumber
  <2> QED BY <1>1, <1>2, <2>1, <2>2
<1>3. ~(ref = Sequential /\ n = 0)
  BY <1>1 DEF Fits
<1>4. CASE ref # Sequential /\ ref \in 1 .. n /\ ref <= BOUNDARY
  <2>1. End(g.ofmap_base_addr_array[ref], e) <= g.new_space_addr
    BY <1>4, NamedResultFits
  <2>2. g.ofmap_base_addr_array[ref] \in Nat
    <3> DEFINE y == g.ofmap_base_addr_array
    <3>1. y \in Seq(Nat) /\ ref \in 1 .. Len(y)
      BY <1>1, <1>4
    <3> HIDE DEF y
    <3>2. y[ref] \in Nat
      BY ONLY <3>1
    <3> QED BY <3>2 DEF y
  <2>3. End(g.ofmap_base_addr_array[ref], e) \in Nat
    BY <1>1, <2>2, EndIsNumber
  <2> QED BY <1>1, <1>4, <2>1, <2>3 DEF Named
<1>5. CASE ref # Sequential /\ ref - BOUNDARY \in 1 .. Len(g.filter_base_addr_array)
  <2>1. ~(ref <= BOUNDARY)
    BY <1>5, BoundaryAssumption
  <2>2. End(g.filter_base_addr_array[ref - BOUNDARY], e) <= g.new_space_addr
    BY <1>5, NamedVectorFits
  <2>3. g.filter_base_addr_array[ref - BOUNDARY] \in Nat
    <3> DEFINE x == g.filter_base_addr_array
    <3>1. \A k \in 1 .. Len(x) : x[k] \in Nat
      <4>1. x \in Seq(Nat)
        BY <1>1
      <4> HIDE DEF x
      <4> QED BY <4>1
    <3> HIDE DEF x
    <3> QED BY <1>5, <3>1 DEF x
  <2>4. End(g.filter_base_addr_array[ref - BOUNDARY], e) \in Nat
    BY <1>1, <2>3, EndIsNumber
  <2> QED BY <1>1, <1>5, <2>1, <2>2, <2>4 DEF Named
<1> QED BY <1>2, <1>3, <1>4, <1>5 DEF InArrays

(* The result of a matrix-vector product has room where it is named.       *)
LEMMA VectorResultFits ==
  ASSUME NEW g, NEW n, Before(g, n), network[n + 1].type = "Gemv", NEW ref \in Int,
         InArrays(ref, n, Len(g.filter_base_addr_array) + 1), NEW e \in Nat, Fits(n + 1, ref, e),
         NEW own \in Nat, NEW space \in Nat, g.new_space_addr <= space,
         End(own, FilterOf(n + 1)) <= space
  PROVE  End(Named(g, Append(g.filter_base_addr_array, own), ref), e) <= space
<1> DEFINE x == g.filter_base_addr_array
           vectors == Append(x, own)
           many == Len(x)
<1>1. /\ n \in Nat /\ arch \in Arch /\ x \in Seq(Nat) /\ g.new_space_addr \in Nat
      /\ many \in Nat /\ many = Cardinality(Vectors(network, n)) /\ FilterOf(n + 1) \in Nat
  BY BeforeTypes DEF Before, Arrays
<1>2. \A k \in 1 .. many : vectors[k] = x[k]
  BY <1>1
<1>3. vectors[many + 1] = own
  BY <1>1
<1> HIDE DEF x, vectors, many
<1>4. CASE (ref \in 1 .. n /\ ref <= BOUNDARY) \/ ref - BOUNDARY \in 1 .. many
  <2>1. InArrays(ref, n, Len(g.filter_base_addr_array)) /\ ref # Sequential
    BY <1>4, BoundaryAssumption DEF InArrays, many, x, Sequential
  <2>2. CASE n # 0
    <3>1. End(IF ref = Sequential THEN g.ofmap_base_addr
              ELSE Named(g, g.filter_base_addr_array, ref), e) <= space
      BY <2>1, <2>2, VectorFits
    <3>2. Named(g, vectors, ref) = Named(g, x, ref)
      BY <1>2, <1>4, BoundaryAssumption DEF Named
    <3> QED BY <2>1, <3>1, <3>2 DEF x, vectors
  <2>3. CASE n = 0
    <3>1. Vectors(network, 0) = {}
      BY DEF Vectors
    <3>2. many = 0
      BY <1>1, <2>3, <3>1, FS_EmptySet
    <3> QED BY <1>4, <2>3, <3>2
  <2> QED BY <2>2, <2>3
<1>5. CASE ref - BOUNDARY = many + 1
  <2>1. ref > BOUNDARY /\ ~(ref <= BOUNDARY)
    BY <1>1, <1>5, BoundaryAssumption
  <2>2. e <= FilterOf(n + 1)
    <3>1. Cardinality({m \in 1 .. n + 1 : network[m].type = "Gemv"}) = many + 1
      <4>1. Cardinality(Vectors(network, n + 1)) = many + 1
        BY <1>1, VectorsCounted DEF IsVector
      <4> QED BY <4>1 DEF Vectors
    <3>2. n + 1 \in 1 .. n + 1
      BY <1>1
    <3> QED BY <1>1, <1>5, <2>1, <3>1, <3>2 DEF Fits
  <2>3. End(own, e) <= space
    BY <1>1, <2>2, SmallerEnds
  <2> QED BY <1>3, <1>5, <2>1, <2>3 DEF Named, vectors, x
<1> QED BY <1>1, <1>4, <1>5 DEF InArrays, many, x

(* SetVariableConfigGemv in a state before a layer.                        *)
LEMMA VectorIsSpaced ==
  ASSUME arch \in Arch, network \in Networks, NEW n \in Nat, n + 1 \in DOMAIN network,
         NEW g, Arrays(g, network, n), network[n + 1].type = "Gemv"
  PROVE  LET l == network[n + 1]
             u == arch.element_unit
         IN SpacedVector(g, SetVariableConfigGemv(arch, g, l, n = 0), l, n = 0,
                         l.ifmap_height * l.ifmap_width * u, l.filter_height * u,
                         l.ifmap_height * u)
<1> DEFINE l == network[n + 1]
           u == arch.element_unit
           first == n = 0
           s == SetVariableConfigGemv(arch, g, l, first)
           mb == l.ifmap_height * l.ifmap_width * u
           vb == l.filter_height * u
           rb == l.ifmap_height * u
<1>1. g \in Generator
  BY DEF Arrays
<1>2. l \in Layer /\ l.type = "Gemv"
  BY NetworkAssumption
<1>3. s.row.filter \in Nat
  <2>1. AddressesOf(arch, g, l, n = 0) = s
    BY <1>2 DEF AddressesOf
  <2>2. Resolved(network, n + 1, AddressesOf(arch, g, l, n = 0).row)
    BY NextPlaced
  <2> HIDE DEF s
  <2> QED BY <2>1, <2>2 DEF Resolved, RowIn
<1>4. mb \in Nat /\ vb \in Nat
  <2>1. u \in Nat /\ l.ifmap_height \in Nat /\ l.ifmap_width \in Nat /\ l.filter_height \in Nat
    BY <1>2 DEF Arch, Layer
  <2>2. l.ifmap_height * l.ifmap_width \in Nat
    BY <2>1, NatProduct
  <2> HIDE DEF u, l
  <2> QED BY <2>1, <2>2, NatProduct
<1>5. SpacedVector(g, s, l, first, mb, vb, rb)
  <2>1. first \in BOOLEAN
    OBVIOUS
  <2> HIDE DEF first, l
  <2> QED BY <1>1, <1>2, <1>3, <1>4, <2>1, VectorUnfolds
<1> QED BY <1>5

(* So do those of a matrix-vector product.                                 *)
LEMMA VectorSurrounds ==
  ASSUME NEW g, NEW n, Before(g, n), network[n + 1].type = "Gemv", FitsNames(n + 1)
  PROVE  LET s == SetVariableConfigGemv(arch, g, network[n + 1], n = 0)
             reserved == network[n + 1].ifmap_height * arch.element_unit
         IN \E space \in Nat : Surrounds(g, s, n + 1, space, reserved)
<1> DEFINE l == network[n + 1]
           u == arch.element_unit
           first == n = 0
           s == SetVariableConfigGemv(arch, g, l, first)
           mb == l.ifmap_height * l.ifmap_width * u
           vb == l.filter_height * u
           rb == l.ifmap_height * u
           known == g.filter_base_addr_array
           many == Len(known)
           space0 == g.new_space_addr
           space1 == space0 + mb
           space2 == IF l.filter = NewSpace THEN space1 + vb ELSE space1
           vectors == Append(known, s.row.filter)
<1>1. /\ n \in Nat /\ arch \in Arch /\ network \in Networks /\ n + 1 \in DOMAIN network
      /\ Arrays(g, network, n) /\ g \in Generator /\ space0 \in Nat
      /\ Len(g.ofmap_base_addr_array) = n
  BY BeforeTypes DEF Before
<1>2. l \in Layer /\ l.type = "Gemv" /\ AsGemm(l) = l /\ l.filter \in Int /\ l.ofmap \in Int
  <2>1. l \in Layer
    BY <1>1, NetworkAssumption
  <2> QED BY <2>1 DEF AsGemm, Layer
<1>3. s.row.ifmap \in Nat /\ s.row.filter \in Nat /\ s.row.ofmap \in Nat
  <2>1. AddressesOf(arch, g, l, n = 0) = s
    BY <1>2 DEF AddressesOf
  <2>2. Resolved(network, n + 1, AddressesOf(arch, g, l, n = 0).row)
    BY <1>1, NextPlaced
  <2> HIDE DEF s
  <2> QED BY <2>1, <2>2 DEF Resolved, RowIn
<1>4. /\ InputOf(n + 1) = l.ifmap_height * l.ifmap_width /\ FilterOf(n + 1) = l.filter_height
      /\ InputOf(n + 1) \in Nat /\ FilterOf(n + 1) \in Nat /\ ResultOf(n + 1) \in Nat
  <2>1. InputOf(n + 1) \in Nat /\ FilterOf(n + 1) \in Nat /\ ResultOf(n + 1) \in Nat
    BY <1>1, BeforeTypes
  <2> QED BY <1>2, <2>1 DEF InputOf, FilterOf
<1>5. mb \in Nat /\ vb \in Nat /\ u \in Nat
  <2>1. u \in Nat
    BY <1>1 DEF Arch
  <2> HIDE DEF u, l
  <2> QED BY <1>4, <2>1, NatProduct
<1>6. SpacedVector(g, s, l, first, mb, vb, rb)
  BY <1>1, <1>2, VectorIsSpaced
<1> HIDE DEF s, mb, vb, rb, u, l
<1>7. /\ Fits(n + 1, l.filter, FilterOf(n + 1))
      /\ l.ofmap # Sequential => Fits(n + 1, l.ofmap, ResultOf(n + 1))
  BY <1>1, <1>2 DEF FitsNames, l
<1>8. End(s.row.ifmap, InputOf(n + 1)) = s.row.ifmap + mb
      /\ End(s.row.filter, FilterOf(n + 1)) = s.row.filter + vb
  BY <1>4 DEF End, mb, vb, u
<1>9. space1 \in Nat /\ space2 \in Nat /\ space0 <= space1 /\ space1 <= space2
  BY <1>1, <1>5
<1>10. /\ l.filter \in {Sequential, NewSpace} \/ InArrays(l.filter, n, many)
       /\ l.ofmap = Sequential \/ InArrays(l.ofmap, n, many + 1)
  <2>1. network[n + 1].type = "Gemv"
    BY <1>2 DEF l
  <2> QED BY <1>1, <2>1, ReferencesInArrays DEF l
<1>11. End(s.row.ifmap, InputOf(n + 1)) <= space1
  <2>1. s.row.ifmap = IF first THEN 0 ELSE space0
    BY <1>6 DEF SpacedVector
  <2> QED BY <1>1, <1>5, <1>8, <2>1
<1>12. End(s.row.filter, FilterOf(n + 1)) <= space2
  <2>1. s.row.filter = IF l.filter = Sequential THEN g.ofmap_base_addr
                       ELSE IF l.filter = NewSpace THEN space1
                       ELSE Named(g, g.filter_base_addr_array, l.filter)
    BY <1>6 DEF SpacedVector
  <2>2. CASE l.filter = NewSpace
    <3>1. s.row.filter = space1 /\ space2 = space1 + vb
      BY <2>1, <2>2 DEF Sequential, NewSpace
    <3> HIDE DEF space1, space2
    <3> QED BY <1>5, <1>8, <1>9, <3>1
  <2>3. CASE l.filter # NewSpace
    <3> DEFINE ref == l.filter
               e == FilterOf(n + 1)
    <3>1. /\ ref \in Int /\ (ref = Sequential \/ InArrays(ref, n, Len(g.filter_base_addr_array)))
          /\ Fits(n + 1, ref, e) /\ e \in Nat /\ network[n + 1].type = "Gemv"
          /\ s.row.filter = IF ref = Sequential THEN g.ofmap_base_addr
                            ELSE Named(g, g.filter_base_addr_array, ref)
      BY <1>2, <1>4, <1>7, <1>10, <2>1, <2>3 DEF l
    <3>2. space2 = space1
      BY <2>3
    <3>3. g.new_space_addr <= space1 /\ space1 \in Nat
      BY <1>9
    <3> HIDE DEF ref, e, space1, space2, space0
    <3>4. End(IF ref = Sequential THEN g.ofmap_base_addr
              ELSE Named(g, g.filter_base_addr_array, ref), e) <= space1
      BY <3>1, <3>3, VectorFits
    <3> QED BY <3>1, <3>2, <3>4 DEF e
  <2> QED BY <2>2, <2>3
<1>13. /\ s.row.ofmap = IF l.ofmap = Sequential THEN space2 ELSE Named(g, vectors, l.ofmap)
       /\ s.gen.new_space_addr = IF l.ofmap = Sequential THEN space2 + rb ELSE space2
  BY <1>6 DEF SpacedVector
<1> HIDE DEF space0, space1, space2
<1>14. End(s.row.ifmap, InputOf(n + 1)) <= space2 /\ g.new_space_addr <= space2
  <2>1. End(s.row.ifmap, InputOf(n + 1)) \in Nat
    BY <1>1, <1>3, <1>4, EndIsNumber
  <2> QED BY <1>1, <1>9, <1>11, <2>1 DEF space0
<1>15. l.ofmap # Sequential => End(s.row.ofmap, ResultOf(n + 1)) <= space2
  <2> DEFINE m == l.ofmap
             own == s.row.filter
             e == ResultOf(n + 1)
  <2>1. ASSUME m # Sequential
        PROVE  /\ m \in Int /\ InArrays(m, n, Len(g.filter_base_addr_array) + 1)
               /\ Fits(n + 1, m, e) /\ e \in Nat /\ own \in Nat
               /\ s.row.ofmap = Named(g, Append(g.filter_base_addr_array, own), m)
               /\ network[n + 1].type = "Gemv" /\ End(own, FilterOf(n + 1)) <= space2
    BY <1>2, <1>3, <1>4, <1>7, <1>10, <1>12, <1>13, <2>1 DEF l
  <2> HIDE DEF m, own, e
  <2>2. ASSUME m # Sequential
        PROVE  End(s.row.ofmap, e) <= space2
    BY <1>9, <1>14, <2>1, <2>2, VectorResultFits
  <2> QED BY <2>2 DEF m, e
<1>16. Surrounds(g, s, n + 1, space2, rb)
  BY <1>2, <1>12, <1>13, <1>14, <1>15 DEF Surrounds, l
<1> QED BY <1>9, <1>16 DEF s, rb, l, u

-----------------------------------------------------------------------------
(* New space after a layer: it only moves forward, and behind the result of  *)
(* a layer whose addresses are taken into account afterwards.                *)
Updated(g, h) ==
  /\ h \in Generator /\ h = [g EXCEPT !.new_space_addr = h.new_space_addr]
  /\ g.new_space_addr <= h.new_space_addr

(* new_space_addr is only ever raised, and above all three tensors.        *)
LEMMA SpaceUpdated ==
  ASSUME NEW g \in Generator, NEW x \in Int, NEW y \in Int, NEW z \in Int,
         NEW h, h = [g EXCEPT !.new_space_addr = Max({@, x, y, z})]
  PROVE  Updated(g, h) /\ x <= h.new_space_addr /\ z <= h.new_space_addr
<1>1. h \in Generator
  BY SpaceMoves
<1>2. h = [g EXCEPT !.new_space_addr = h.new_space_addr]
  BY SpaceMoves
<1>3. g.new_space_addr <= h.new_space_addr /\ x <= h.new_space_addr /\ z <= h.new_space_addr
  BY SpaceMoves
<1> QED BY ONLY <1>1, <1>2, <1>3 DEF Updated

(* address_update reserves filter and result of the layers that call it.   *)
LEMMA UpdateReserves ==
  ASSUME arch \in Arch, network \in Networks, NEW i \in DOMAIN network, NEW p, Resolved(network, i, p),
         p.type \in {"Conv", "Ineff_Conv", "Pool", "Other"}, NEW g \in Generator,
         NEW h, h = AddressUpdate(arch, g, p)
  PROVE  /\ Updated(g, h)
         /\ End(p.filter, FilterOf(i)) <= h.new_space_addr
         /\ FitsNames(i) => End(p.ofmap, ResultOf(i)) <= h.new_space_addr
<1> DEFINE l == AsGemm(network[i])
           u == arch.element_unit
           many == OfmapHeight(p) * OfmapWidth(p) * p.filter_num
           other == (p.ifmap_height - p.filter_height + 1)
                      * (p.ifmap_width - p.filter_width + 1) * p.filter_num
           result == IF p.type = "Other" THEN other ELSE many
           x == p.filter + FilterElements(p) * u
           y == p.ifmap + IfmapElements(p) * u
           z == p.ofmap + result * u
<1>1. p \in RowIn(Nat) /\ p.ofmap \in Nat
  BY DEF Resolved, RowIn
<1>2. x \in Int /\ y \in Int /\ z \in Int
  BY <1>1, EndsAreNumbers
<1>3. h = [g EXCEPT !.new_space_addr = Max({@, x, y, z})]
  BY DEF AddressUpdate
<1>4. Updated(g, h) /\ x <= h.new_space_addr /\ z <= h.new_space_addr
  <2> HIDE DEF x, y, z
  <2> QED BY <1>2, <1>3, SpaceUpdated
<1>5. /\ l.ifmap_height = p.ifmap_height /\ l.ifmap_width = p.ifmap_width
      /\ l.filter_height = p.filter_height /\ l.filter_width = p.filter_width
      /\ l.filter_num = p.filter_num /\ l.stride = p.stride /\ l.type = p.type
      /\ l.filter_depth = p.filter_depth
      /\ p.ifmap_height \in Pos /\ p.ifmap_width \in Pos
  BY ResolvedFields
<1>6. p.filter_num \in Pos /\ h.new_space_addr \in Nat
  BY <1>1, <1>4 DEF RowIn, Updated, Generator
<1> DEFINE Reserved == FitsNames(i) => End(p.ofmap, ResultOf(i)) <= h.new_space_addr
<1>7. ASSUME p.type # "Other" PROVE Reserved
  <2> HIDE DEF l
  <2>1. OfmapElements(l) = Windows(l) * l.filter_num /\ l.type # "Gemv"
    BY <1>5, <1>7 DEF OfmapElements
  <2>2. ResultOf(i) = Windows(l) * l.filter_num
    BY <2>1 DEF ResultOf, l
  <2>3. OfmapWidth(l) = OfmapWidth(p) /\ OfmapHeight(l) = OfmapHeight(p)
    BY <1>5 DEF OfmapWidth, OfmapHeight
  <2>4. OfmapWidth(p) \in Int /\ OfmapHeight(p) \in Int
    BY <1>1 DEF OfmapWidth, OfmapHeight, CeilDiv, RowIn, Pos
  <2>5. OfmapWidth(p) * OfmapHeight(p) = OfmapHeight(p) * OfmapWidth(p)
    BY <2>4, Commutes
  <2>6. ResultOf(i) = result
    BY <1>5, <1>7, <2>2, <2>3, <2>5 DEF Windows
  <2> HIDE DEF result
  <2> QED BY <1>4, <2>6 DEF End
<1>8. ASSUME p.type = "Other" PROVE Reserved
  <2> SUFFICES ASSUME FitsNames(i)
               PROVE  End(p.ofmap, ResultOf(i)) <= h.new_space_addr
    OBVIOUS
  <2>1. p.filter_height = 1 /\ p.filter_width = 1
    BY <1>5, <1>8 DEF FitsNames
  <2> DEFINE e == p.ifmap_height * p.ifmap_width
  <2>2. result = e * p.filter_num
    <3>1. p.ifmap_height - p.filter_height + 1 = p.ifmap_height
          /\ p.ifmap_width - p.filter_width + 1 = p.ifmap_width
      BY <1>5, <2>1 DEF Pos
    <3> QED BY <1>8, <3>1
  <2>3. ResultOf(i) = e
    <3> HIDE DEF l
    <3>1. OfmapElements(l) = l.ifmap_height * l.ifmap_width
      BY <1>5, <1>8 DEF OfmapElements
    <3> QED BY <1>5, <1>8, <3>1 DEF ResultOf, l
  <2>4. e \in Nat
    BY <1>5, NatProduct DEF Pos
  <2> HIDE DEF e, result
  <2>5. e <= result /\ result \in Nat
    BY <1>6, <2>2, <2>4 DEF Pos
  <2>6. End(p.ofmap, result) <= h.new_space_addr
    BY <1>4 DEF End
  <2> QED BY <1>1, <1>6, <2>3, <2>4, <2>5, <2>6, SmallerEnds
<1>9. End(p.filter, FilterOf(i)) <= h.new_space_addr
  <2> HIDE DEF l
  <2>1. l.type # "Gemv" /\ FilterElements(l) = FilterElements(p)
    BY <1>5 DEF FilterElements, FilterSize
  <2>2. FilterOf(i) = FilterElements(p)
    BY <2>1 DEF FilterOf, l
  <2>3. End(p.filter, FilterOf(i)) = x
    BY <2>2 DEF End
  <2> HIDE DEF x
  <2> QED BY <1>4, <2>3
<1> QED BY <1>4, <1>7, <1>8, <1>9

(* address_update for a matrix-vector product gives nothing back.          *)
LEMMA UpdateReservesVector ==
  ASSUME arch \in Arch, NEW p \in RowIn(Nat), NEW g \in Generator,
         NEW h, h = AddressUpdateGemv(arch, g, p)
  PROVE  Updated(g, h)
<1> DEFINE u == arch.element_unit
           x == p.ifmap + p.ifmap_width * p.ifmap_height * u
           y == p.filter + p.ifmap_width * u
           z == p.ofmap + p.ifmap_height * u
<1>1. x \in Int /\ y \in Int /\ z \in Int
  BY EndsAreNumbers
<1>2. h = [g EXCEPT !.new_space_addr = Max({@, x, y, z})]
  BY DEF AddressUpdateGemv
<1> HIDE DEF x, y, z
<1> QED BY <1>1, <1>2, SpaceUpdated

(* config_update gives nothing back, and reserves what address_update      *)
(* does.                                                                   *)
LEMMA NextUpdated ==
  ASSUME arch \in Arch, network \in Networks, NEW n \in Nat, n + 1 \in DOMAIN network,
         NEW g, Arrays(g, network, n), NEW unassigned
  PROVE  LET l == network[n + 1]
             s == AddressesOf(arch, g, l, n = 0)
             c == ConfigUpdate(arch, g, l, n = 0, unassigned)
         IN /\ Updated(s.gen, c.gen)
            /\ l.type \in {"Conv", "Ineff_Conv", "Pool", "Other"} /\ FitsNames(n + 1) =>
                 End(s.row.ofmap, ResultOf(n + 1)) <= c.gen.new_space_addr
            /\ l.type \in {"Conv", "Ineff_Conv", "Pool", "Other"} =>
                 End(s.row.filter, FilterOf(n + 1)) <= c.gen.new_space_addr
<1> DEFINE l == network[n + 1]
           first == n = 0
           s == AddressesOf(arch, g, l, first)
           c == ConfigUpdate(arch, g, l, first, unassigned)
           p == s.row
<1>1. c.gen = CASE l.type \in {"Gemm", "Im2col_conv"} -> s.gen
       [] l.type = "Gemv" -> AddressUpdateGemv(arch, s.gen, p)
       [] l.type = "Dir_Gemm" -> s.gen
       [] l.type = "Ineff_Dir_Gemm" -> s.gen
       [] OTHER -> AddressUpdate(arch, s.gen, p)
  BY DEF ConfigUpdate, AddressesOf
<1>2. l \in Layer
  BY NetworkAssumption
<1>3. Resolved(network, n + 1, p) /\ p.type = l.type /\ s.gen \in Generator
  BY NextPlaced DEF Grown
<1> HIDE DEF c, s, l
<1>4. CASE l.type \in {"Gemm", "Im2col_conv", "Dir_Gemm", "Ineff_Dir_Gemm"}
  <2>1. c.gen = s.gen
    BY <1>1, <1>4
  <2> DEFINE h == s.gen
  <2>2. h \in Generator
    BY <1>3
  <2> HIDE DEF h
  <2>3. Updated(h, h)
    BY <2>2 DEF Updated, Generator
  <2>4. Updated(s.gen, c.gen)
    BY <2>1, <2>3 DEF h
  <2> QED BY <1>4, <2>4 DEF s, c, l, first
<1>5. CASE l.type = "Gemv"
  <2>1. c.gen = AddressUpdateGemv(arch, s.gen, p)
    BY <1>1, <1>5
  <2>2. p \in RowIn(Nat)
    BY <1>3 DEF Resolved
  <2> HIDE DEF p
  <2>3. Updated(s.gen, c.gen)
    BY <1>3, <2>1, <2>2, UpdateReservesVector
  <2> QED BY <1>5, <2>3 DEF s, c, l, first
<1>6. CASE l.type \in {"Conv", "Ineff_Conv", "Pool", "Other"}
  <2>1. c.gen = AddressUpdate(arch, s.gen, p)
    BY <1>1, <1>6
  <2> DEFINE i == n + 1
  <2>2. Resolved(network, i, p) /\ p.type \in {"Conv", "Ineff_Conv", "Pool", "Other"} /\ i \in DOMAIN network
    BY <1>3, <1>6
  <2> HIDE DEF p, i
  <2>3. /\ Updated(s.gen, c.gen) /\ End(p.filter, FilterOf(i)) <= c.gen.new_space_addr
        /\ FitsNames(i) => End(p.ofmap, ResultOf(i)) <= c.gen.new_space_addr
    BY <1>3, <2>1, <2>2, UpdateReserves
  <2> QED BY <2>3 DEF s, c, l, first, p, i
<1> QED BY <1>2, <1>4, <1>5, <1>6 DEF Layer, Types

(* What a layer with addresses leaves of the space, between the generators   *)
(* before and after it.                                                      *)
Behind(g, h, p, i, space) ==
  /\ g.new_space_addr <= space /\ space <= h.new_space_addr
  /\ End(p.ifmap, InputOf(i)) <= space
  /\ FilterFits(i) => End(p.filter, FilterOf(i)) <= space
  /\ FilterReserved(i) => End(p.filter, FilterOf(i)) <= h.new_space_addr
  /\ network[i].ofmap = Sequential => p.ofmap = space
  /\ End(p.ofmap, ReservedOf(i)) <= h.new_space_addr

(* Products and vectors reserve their result when they are laid out.         *)
LEMMA ReservedEarly ==
  ASSUME network \in Networks, NEW i \in DOMAIN network,
         network[i].type \in {"Conv", "Pool", "Gemm", "Im2col_conv", "Dir_Gemm"}
  PROVE  ResultElements(AsGemm(network[i])) = ResultOf(i)
<1> DEFINE l == AsGemm(network[i])
<1>1. l \in Layer /\ l.type = network[i].type
  <2>1. network[i] \in Layer /\ (network[i].type \in Windowed => WindowInside(network[i]))
    BY NetworkAssumption
  <2> QED BY <2>1, AsGemmIsLayer DEF Windowed
<1> HIDE DEF l
<1>2. ResultOf(i) = OfmapElements(l)
  BY <1>1 DEF ResultOf, l
<1>3. CASE l.type \in {"Conv", "Pool"}
  BY <1>2, <1>3 DEF ResultElements, OfmapElements, Windows, l
<1>4. CASE l.type \in {"Gemm", "Im2col_conv", "Dir_Gemm"}
  BY <1>2, <1>4 DEF ResultElements, OfmapElements, l
<1> QED BY <1>1, <1>3, <1>4

(* The next layer: its tensors, then space that is free, then its new      *)
(* result.                                                                 *)
LEMMA NextBehind ==
  ASSUME NEW g, NEW n, Before(g, n), FitsNames(n + 1), NEW unassigned
  PROVE  LET l == network[n + 1]
             s == AddressesOf(arch, g, l, n = 0)
             c == ConfigUpdate(arch, g, l, n = 0, unassigned)
         IN \E space \in Nat : Behind(g, c.gen, s.row, n + 1, space)
<1> DEFINE l == network[n + 1]
           first == n = 0
           s == AddressesOf(arch, g, l, first)
           c == ConfigUpdate(arch, g, l, first, unassigned)
           p == s.row
           i == n + 1
           u == arch.element_unit
           rb == IF l.type = "Gemv" THEN l.ifmap_height * u ELSE ResultElements(AsGemm(l)) * u
<1>1. /\ n \in Nat /\ arch \in Arch /\ network \in Networks /\ i \in DOMAIN network
      /\ Arrays(g, network, n) /\ i \in 1 .. n + 1
  BY DEF Before
<1>2. l \in Layer /\ AsGemm(l).ofmap = l.ofmap /\ AsGemm(l).type = l.type
  <2>1. l \in Layer /\ (l.type \in Windowed => WindowInside(l))
    BY <1>1, NetworkAssumption
  <2>2. AsGemm(l).type = l.type
    BY <2>1, AsGemmIsLayer DEF Windowed
  <2>3. AsGemm(l).ofmap = l.ofmap
    BY <2>1 DEF AsGemm, Layer
  <2> QED BY <2>1, <2>2, <2>3
<1>3. PICK space \in Nat : Surrounds(g, s, i, space, rb)
  <2>1. CASE l.type = "Gemv"
    BY <2>1, VectorSurrounds DEF AddressesOf
  <2>2. CASE l.type # "Gemv"
    BY <2>2, LayerSurrounds DEF AddressesOf
  <2> QED BY <2>1, <2>2
<1>4. /\ Updated(s.gen, c.gen)
      /\ l.type \in {"Conv", "Ineff_Conv", "Pool", "Other"} =>
           /\ End(p.ofmap, ResultOf(i)) <= c.gen.new_space_addr
           /\ End(p.filter, FilterOf(i)) <= c.gen.new_space_addr
  BY <1>1, NextUpdated
<1>5. Resolved(network, i, p) /\ s.gen \in Generator
  BY <1>1, NextPlaced DEF Grown
<1>6. /\ InputOf(i) \in Nat /\ FilterOf(i) \in Nat /\ ResultOf(i) \in Nat /\ ReservedOf(i) \in Nat
      /\ u \in Nat
  BY <1>1, BeforeTypes DEF Arch
<1>7. ReservedOf(i) = IF l.type = "Ineff_Dir_Gemm" THEN 0 ELSE ResultOf(i)
  BY DEF ReservedOf
<1>8. /\ l.type = "Gemv" => rb = ResultOf(i) * u
      /\ l.type \in {"Gemm", "Im2col_conv", "Dir_Gemm"} => rb = ResultOf(i) * u
      /\ l.type = "Ineff_Dir_Gemm" => rb = 0
  <2>1. ASSUME l.type = "Gemv"
        PROVE  rb = ResultOf(i) * u
    BY <1>1, <2>1 DEF ResultOf, AsGemm
  <2>2. ASSUME l.type \in {"Gemm", "Im2col_conv", "Dir_Gemm"}
        PROVE  rb = ResultOf(i) * u
    <3>1. ResultElements(AsGemm(network[i])) = ResultOf(i)
      BY <1>1, <2>2, ReservedEarly
    <3> HIDE DEF i, u
    <3> QED BY <2>2, <3>1 DEF i
  <2>3. ASSUME l.type = "Ineff_Dir_Gemm"
        PROVE  rb = 0
    <3>1. ResultElements(AsGemm(l)) = 0
      BY <1>2, <2>3 DEF ResultElements
    <3> HIDE DEF u
    <3> QED BY <1>6, <2>3, <3>1
  <2> QED BY <2>1, <2>2, <2>3
<1> HIDE DEF rb, c, s, i
<1>9. /\ g.new_space_addr <= space
      /\ End(p.ifmap, InputOf(i)) <= space
      /\ FilterFits(i) => End(p.filter, FilterOf(i)) <= space
      /\ l.ofmap = Sequential => p.ofmap = space /\ s.gen.new_space_addr = space + rb
      /\ l.ofmap # Sequential =>
           End(p.ofmap, ResultOf(i)) <= space /\ s.gen.new_space_addr = space
  BY <1>2, <1>3 DEF Surrounds, i
<1>10. /\ s.gen.new_space_addr \in Nat /\ c.gen.new_space_addr \in Nat
       /\ s.gen.new_space_addr <= c.gen.new_space_addr /\ p.ofmap \in Nat /\ p.filter \in Nat
  BY <1>4, <1>5 DEF Updated, Generator, Resolved, RowIn
<1> HIDE DEF p
<1>11. l.ofmap = Sequential => rb \in Nat
  <2>1. l.type \in {"Conv", "Pool"} => rb = ResultOf(i) * u
    <3>1. l.type \in {"Conv", "Pool"} => ResultElements(AsGemm(network[i])) = ResultOf(i)
      BY <1>1, ReservedEarly DEF i
    <3> HIDE DEF u
    <3> QED BY <3>1 DEF i, rb
  <2>2. l.type \in {"Ineff_Conv", "Other"} => rb = 0
    <3>1. l.type \in {"Ineff_Conv", "Other"} => ResultElements(AsGemm(l)) = 0
      BY <1>2 DEF ResultElements
    <3> HIDE DEF u
    <3> QED BY <1>6, <3>1 DEF rb
  <2>3. ResultOf(i) * u \in Nat
    <3> DEFINE e == ResultOf(i)
    <3>1. e \in Nat
      BY <1>6
    <3> HIDE DEF e, u
    <3>2. e * u \in Nat
      BY <1>6, <3>1, NatProduct
    <3> QED BY <3>2 DEF e
  <2> QED BY <1>2, <1>8, <2>1, <2>2, <2>3 DEF Layer, Types
<1>12. space <= s.gen.new_space_addr
  BY <1>9, <1>10, <1>11
<1>13. End(p.ofmap, ReservedOf(i)) <= c.gen.new_space_addr
  <2>1. CASE l.type \in {"Conv", "Ineff_Conv", "Pool", "Other"}
    BY <1>4, <1>7, <2>1 DEF p
  <2>2. CASE l.ofmap # Sequential
    <3>1. End(p.ofmap, ReservedOf(i)) <= space
      <4>1. ReservedOf(i) <= ResultOf(i)
        BY <1>6, <1>7
      <4> QED BY <1>1, <1>6, <1>9, <1>10, <2>2, <4>1, SmallerEnds
    <3>2. End(p.ofmap, ReservedOf(i)) \in Nat
      BY <1>1, <1>6, <1>10, EndIsNumber
    <3> QED BY <1>10, <1>12, <3>1, <3>2
  <2>3. CASE l.ofmap = Sequential /\ l.type \in {"Gemv", "Gemm", "Im2col_conv", "Dir_Gemm"}
    <3>1. ReservedOf(i) = ResultOf(i) /\ rb = ResultOf(i) * u
      BY <1>7, <1>8, <2>3
    <3>2. End(p.ofmap, ReservedOf(i)) = space + rb
      BY <1>9, <2>3, <3>1 DEF End
    <3> QED BY <1>9, <1>10, <1>11, <2>3, <3>2
  <2>4. CASE l.ofmap = Sequential /\ l.type = "Ineff_Dir_Gemm"
    <3>1. ReservedOf(i) * u = 0
      BY <1>6, <1>7, <2>4
    <3>2. End(p.ofmap, ReservedOf(i)) = space
      BY <1>9, <2>4, <3>1 DEF End
    <3> QED BY <1>10, <1>12, <3>2
  <2> QED BY <1>2, <2>1, <2>2, <2>3, <2>4 DEF Layer, Types
<1>14. FilterReserved(i) => End(p.filter, FilterOf(i)) <= c.gen.new_space_addr
  <2>1. CASE FilterFits(i)
    <3>1. End(p.filter, FilterOf(i)) \in Nat
      BY <1>1, <1>6, <1>10, EndIsNumber
    <3> QED BY <1>9, <1>10, <1>12, <2>1, <3>1
  <2>2. CASE ~FilterFits(i)
    <3>1. FilterReserved(i) => l.type \in {"Conv", "Ineff_Conv", "Pool", "Other"}
      BY <2>2 DEF FilterReserved, i
    <3> QED BY <1>4, <3>1 DEF p
  <2> QED BY <2>1, <2>2
<1>15. Behind(g, c.gen, p, i, space)
  BY <1>9, <1>10, <1>12, <1>13, <1>14 DEF Behind, i
<1> QED BY <1>15 DEF c, s, i, p

(* What is remembered of the layer.                                          *)
LEMMA NextRemembers ==
  ASSUME arch \in Arch, network \in Networks, NEW n \in Nat, n + 1 \in DOMAIN network,
         NEW g, Arrays(g, network, n), NEW unassigned
  PROVE  LET l == network[n + 1]
             p == AddressesOf(arch, g, l, n = 0).row
             c == ConfigUpdate(arch, g, l, n = 0, unassigned)
         IN /\ c.gen.ofmap_base_addr = p.ofmap
            /\ c.gen.filter_base_addr_array =
                 IF l.type = "Gemv" THEN Append(g.filter_base_addr_array, p.filter)
                 ELSE g.filter_base_addr_array
<1> DEFINE l == network[n + 1]
           first == n = 0
           s == AddressesOf(arch, g, l, first)
           c == ConfigUpdate(arch, g, l, first, unassigned)
<1>1. /\ s.gen.ofmap_base_addr = s.row.ofmap
      /\ s.gen.filter_base_addr_array =
           IF l.type = "Gemv" THEN Append(g.filter_base_addr_array, s.row.filter)
           ELSE g.filter_base_addr_array
  <2>1. CASE l.type = "Gemv"
    <3>1. s = SetVariableConfigGemv(arch, g, l, first)
      BY <2>1 DEF AddressesOf
    <3>2. SpacedVector(g, s, l, first, l.ifmap_height * l.ifmap_width * arch.element_unit,
                       l.filter_height * arch.element_unit, l.ifmap_height * arch.element_unit)
      BY <2>1, <3>1, VectorIsSpaced
    <3> HIDE DEF s, l
    <3> QED BY <2>1, <3>2 DEF SpacedVector
  <2>2. CASE l.type # "Gemv"
    <3> DEFINE k == AsGemm(l)
               u == arch.element_unit
               ib == IfmapElements(k) * u
               fb == FilterElements(k) * u
               rb == ResultElements(k) * u
    <3>1. s = SetVariableConfig(arch, g, l, first)
      BY <2>2 DEF AddressesOf
    <3>2. SpacedLayer(g, s, k, first, ib, fb, rb)
      BY <2>2, <3>1, LayerIsSpaced
    <3> HIDE DEF s, l, k, ib, fb, rb
    <3> QED BY <2>2, <3>2 DEF SpacedLayer
  <2> QED BY <2>1, <2>2
<1>2. Updated(s.gen, c.gen)
  BY NextUpdated
<1>3. s.gen \in Generator
  BY NextPlaced DEF Grown
<1> HIDE DEF s, c, l
<1>4. /\ c.gen.ofmap_base_addr = s.gen.ofmap_base_addr
      /\ c.gen.filter_base_addr_array = s.gen.filter_base_addr_array
  BY <1>2, <1>3 DEF Updated, Generator
<1> QED BY <1>1, <1>4 DEF s, c, l

-----------------------------------------------------------------------------
(* The generator after one layer more.                                      *)
Remembers(g, h, p, l) ==
  /\ h.ofmap_base_addr = p.ofmap
  /\ h.filter_base_addr_array =
       IF l.type = "Gemv" THEN Append(g.filter_base_addr_array, p.filter)
       ELSE g.filter_base_addr_array

(* A vector has its number among the vectors of a longer network.            *)
LEMMA VectorNumbers ==
  ASSUME NEW n \in Nat, NEW i \in Vectors(network, n)
  PROVE  Cardinality(Vectors(network, i)) \in 1 .. Cardinality(Vectors(network, n))
<1>1. i \in Nat /\ i \in Vectors(network, i) /\ Vectors(network, i) \subseteq Vectors(network, n)
  BY DEF Vectors
<1>2. IsFiniteSet(Vectors(network, n)) /\ IsFiniteSet(Vectors(network, i))
  BY <1>1, VectorsCounted
<1>3. /\ Cardinality(Vectors(network, i)) <= Cardinality(Vectors(network, n))
      /\ Cardinality(Vectors(network, i)) \in Nat /\ Cardinality(Vectors(network, n)) \in Nat
  BY <1>1, <1>2, FS_Subset, FS_CardinalityType
<1>4. Cardinality(Vectors(network, i)) # 0
  BY <1>1, <1>2, FS_EmptySet
<1> QED BY <1>3, <1>4

(* The addresses of the next layer are remembered.                         *)
LEMMA RememberingNext ==
  ASSUME network \in Networks, NEW n \in Nat, NEW g, Arrays(g, network, n), Remembering(g, n),
         NEW h, NEW p, Grown(g, h, p, IsVector(network[n + 1])), Remembers(g, h, p, network[n + 1]),
         p.ifmap \in Nat, p.filter \in Nat, p.ofmap \in Nat
  PROVE  Remembering(h, n + 1)
<1> DEFINE x == g.filter_base_addr_array
           y == h.filter_base_addr_array
<1>1. h.ofmap_base_addr = h.ofmap_base_addr_array[n + 1]
  <2>1. Longer(g, h, n, p)
    BY GrownArrays, SMTT(30)
  <2> QED BY <2>1 DEF Remembers, Longer
<1>2. ASSUME NEW k \in 1 .. Len(y)
      PROVE  \E i \in Vectors(network, n + 1) : Cardinality(Vectors(network, i)) = k
  <2>1. x \in Seq(Nat) /\ Len(x) = Cardinality(Vectors(network, n))
    BY DEF Arrays, Generator
  <2>2. y = IF network[n + 1].type = "Gemv" THEN Append(x, p.filter) ELSE x
    BY DEF Remembers
  <2>3. CASE k \in 1 .. Len(x)
    <3>1. PICK i \in Vectors(network, n) : Cardinality(Vectors(network, i)) = k
      BY <2>3 DEF Remembering
    <3>2. i \in Vectors(network, n + 1)
      BY DEF Vectors
    <3> QED BY <3>1, <3>2
  <2>4. CASE k \notin 1 .. Len(x)
    <3> HIDE DEF x
    <3>1. network[n + 1].type = "Gemv" /\ k = Len(x) + 1
      BY <2>1, <2>2, <2>4
    <3>2. Cardinality(Vectors(network, n + 1)) = k
      BY <2>1, <3>1, VectorsCounted DEF IsVector
    <3>3. n + 1 \in Vectors(network, n + 1)
      BY <3>1 DEF Vectors
    <3> QED BY <3>2, <3>3
  <2> QED BY <2>3, <2>4
<1>3. n + 1 # 0
  OBVIOUS
<1> QED BY <1>1, <1>2, <1>3 DEF Remembering

(* The tensors of the next layer end before new_space_addr.                *)
LEMMA ReservingNext ==
  ASSUME NEW g, NEW n, Before(g, n), NEW h, NEW p,
         Grown(g, h, p, IsVector(network[n + 1])), Remembers(g, h, p, network[n + 1]),
         p.ifmap \in Nat, p.filter \in Nat, p.ofmap \in Nat,
         NEW space \in Nat, Behind(g, h, p, n + 1, space)
  PROVE  Reserving(h, n + 1)
<1> DEFINE x == g.filter_base_addr_array
           y == h.filter_base_addr_array
<1>1. /\ n \in Nat /\ arch \in Arch /\ network \in Networks /\ Arrays(g, network, n)
      /\ x \in Seq(Nat) /\ Len(x) = Cardinality(Vectors(network, n))
      /\ g.new_space_addr \in Nat
      /\ \A i \in 1 .. n : g.ifmap_base_addr_array[i] \in Nat /\ g.ofmap_base_addr_array[i] \in Nat
  <2>1. n \in Nat /\ arch \in Arch /\ network \in Networks /\ Arrays(g, network, n)
    BY DEF Before
  <2>2. x \in Seq(Nat) /\ Len(x) = Cardinality(Vectors(network, n))
    BY <2>1 DEF Arrays, Generator
  <2>3. g.new_space_addr \in Nat
    BY BeforeTypes
  <2>4. \A i \in 1 .. n : g.ifmap_base_addr_array[i] \in Nat /\ g.ofmap_base_addr_array[i] \in Nat
    <3> DEFINE u == g.ifmap_base_addr_array
               v == g.ofmap_base_addr_array
    <3>1. u \in Seq(Nat) /\ Len(u) = n /\ v \in Seq(Nat) /\ Len(v) = n
      BY BeforeTypes
    <3> HIDE DEF u, v
    <3>2. \A i \in 1 .. n : u[i] \in Nat /\ v[i] \in Nat
      BY ONLY <2>1, <3>1
    <3> QED BY <3>2 DEF u, v
  <2> QED BY <2>1, <2>2, <2>3, <2>4
<1>2. Longer(g, h, n, p)
  BY <1>1, GrownArrays
<1>3. h.new_space_addr \in Nat /\ g.new_space_addr <= h.new_space_addr /\ space <= h.new_space_addr
  <2>1. h.new_space_addr \in Nat
    BY DEF Grown, Generator
  <2> QED BY <1>1, <2>1 DEF Behind
<1>4. \A i \in 1 .. n + 1 : InputOf(i) \in Nat /\ FilterOf(i) \in Nat /\ ReservedOf(i) \in Nat
  BY <1>1, BeforeTypes
<1>5. ASSUME NEW i \in 1 .. n + 1
      PROVE  /\ End(h.ifmap_base_addr_array[i], InputOf(i)) <= h.new_space_addr
             /\ End(h.ofmap_base_addr_array[i], ReservedOf(i)) <= h.new_space_addr
  <2>1. CASE i \in 1 .. n
    <3>1. h.ifmap_base_addr_array[i] = g.ifmap_base_addr_array[i]
          /\ h.ofmap_base_addr_array[i] = g.ofmap_base_addr_array[i]
      BY <1>2, <2>1 DEF Longer
    <3>2. /\ End(g.ifmap_base_addr_array[i], InputOf(i)) <= g.new_space_addr
          /\ End(g.ofmap_base_addr_array[i], ReservedOf(i)) <= g.new_space_addr
      BY <2>1 DEF Before, Reserving
    <3>3. /\ End(g.ifmap_base_addr_array[i], InputOf(i)) \in Nat
          /\ End(g.ofmap_base_addr_array[i], ReservedOf(i)) \in Nat
      BY <1>1, <1>4, <2>1, EndIsNumber
    <3> QED BY <1>1, <1>3, <3>1, <3>2, <3>3
  <2>2. CASE i = n + 1
    <3>1. h.ifmap_base_addr_array[i] = p.ifmap /\ h.ofmap_base_addr_array[i] = p.ofmap
      BY <1>2, <2>2 DEF Longer
    <3>2. End(p.ifmap, InputOf(i)) <= space /\ End(p.ofmap, ReservedOf(i)) <= h.new_space_addr
      BY <2>2 DEF Behind
    <3>3. End(p.ifmap, InputOf(i)) \in Nat
      BY <1>1, <1>4, EndIsNumber
    <3> QED BY <1>3, <3>1, <3>2, <3>3
  <2>3. i \in 1 .. n \/ i = n + 1
    BY ONLY <1>1, <1>5
  <2> QED BY <2>1, <2>2, <2>3
<1>6. ASSUME NEW i \in Vectors(network, n + 1)
      PROVE  End(y[Cardinality(Vectors(network, i))], FilterOf(i)) <= h.new_space_addr
  <2>1. y = IF network[n + 1].type = "Gemv" THEN Append(x, p.filter) ELSE x
    BY DEF Remembers
  <2> HIDE DEF y
  <2>2. CASE i \in Vectors(network, n)
    <3> DEFINE k == Cardinality(Vectors(network, i))
    <3>1. k \in 1 .. Len(x)
      BY <1>1, <2>2, VectorNumbers
    <3>2. End(x[k], FilterOf(i)) <= g.new_space_addr
      BY <2>2 DEF Before, Reserving
    <3>3. i \in 1 .. n + 1
      BY DEF Vectors
    <3> HIDE DEF k, x
    <3>4. y[k] = x[k] /\ x[k] \in Nat
      BY <1>1, <2>1, <3>1
    <3>5. End(x[k], FilterOf(i)) \in Nat
      BY <1>1, <1>4, <3>3, <3>4, EndIsNumber
    <3>6. End(y[k], FilterOf(i)) <= h.new_space_addr
      BY <1>1, <1>3, <3>2, <3>4, <3>5 DEF x
    <3> QED BY <3>6 DEF k
  <2>3. CASE i \notin Vectors(network, n)
    <3>1. i = n + 1 /\ network[n + 1].type = "Gemv"
      BY <1>1, <2>3, SMTT(30) DEF Vectors
    <3>2. Cardinality(Vectors(network, i)) = Len(x) + 1
      BY <1>1, <3>1, VectorsCounted DEF IsVector
    <3>3. y[Len(x) + 1] = p.filter
      BY <1>1, <2>1, <3>1
    <3>4. End(p.filter, FilterOf(i)) <= space
      BY <3>1 DEF Behind, FilterFits
    <3>5. End(p.filter, FilterOf(i)) \in Nat
      <4>1. i \in 1 .. n + 1
        BY <1>1, <3>1
      <4>2. FilterOf(i) \in Nat
        BY <1>4, <4>1
      <4> QED BY <1>1, <4>2, EndIsNumber
    <3> QED BY <1>3, <3>2, <3>3, <3>4, <3>5
  <2> QED BY <2>2, <2>3
<1> QED BY <1>5, <1>6 DEF Reserving

-----------------------------------------------------------------------------
(* The rows of a layer lie on its tensors.                                  *)
InputIn(q, base) ==
  IF q.type = "Gemv" THEN IfmapBytes(q) \cap Bytes(base, InputOf(q.name)) ELSE IfmapBytes(q)
RowInside(q, p, i) ==
  /\ FilterBytes(q) \subseteq Bytes(p.filter, FilterOf(i))
  /\ InputIn(q, p.ifmap) \subseteq Bytes(p.ifmap, InputOf(i))
  /\ OfmapBytes(q) \subseteq Bytes(p.ofmap, ResultOf(i))

(* A part of a tensor lies in it.                                          *)
LEMMA BytesInside ==
  ASSUME arch \in Arch, NEW base \in Nat, NEW start \in Nat, NEW e \in Nat, NEW whole \in Nat,
         start + e <= whole
  PROVE  Bytes(base + start * arch.element_unit, e) \subseteq Bytes(base, whole)
<1> DEFINE u == arch.element_unit
<1>1. u \in Nat
  BY DEF Arch
<1> HIDE DEF u
<1>2. (start + e) * u <= whole * u /\ (start + e) * u = start * u + e * u
  BY <1>1, Monotone
<1>3. start * u \in Nat /\ e * u \in Nat /\ whole * u \in Nat
  BY <1>1, NatProduct
<1>4. base + start * u .. base + start * u + e * u - 1 \subseteq base .. base + whole * u - 1
  BY <1>2, <1>3
<1> QED BY <1>4 DEF Bytes, u

(* A tensor that is no larger lies in the other.                           *)
LEMMA SmallerBytes ==
  ASSUME arch \in Arch, NEW base \in Nat, NEW e \in Nat, NEW whole \in Nat, e <= whole
  PROVE  Bytes(base, e) \subseteq Bytes(base, whole)
<1> DEFINE u == arch.element_unit
<1>1. u \in Nat
  BY DEF Arch
<1> HIDE DEF u
<1>2. e * u <= whole * u /\ e * u \in Nat /\ whole * u \in Nat
  BY <1>1, Monotone, NatProduct
<1>3. base .. base + e * u - 1 \subseteq base .. base + whole * u - 1
  BY <1>2
<1> QED BY <1>3 DEF Bytes, u

(* A matrix is no larger than with further factors.                          *)
LEMMA LargerProduct ==
  ASSUME NEW x \in Pos, NEW y \in Pos
  PROVE  x <= x * y /\ x <= y * x
  BY DEF Pos

(* A cell of a matrix, as the bytes of a row that has its elements.          *)
LEMMA CellBytes ==
  ASSUME arch \in Arch, NEW s \in Pos, NEW A \in Pos, NEW k \in Pos, NEW B \in Pos, NEW base \in Nat,
         NEW i \in Bands(s, A), NEW j \in Bands(k, B), NEW whole \in Nat, A * B <= whole
  PROVE  Bytes(base + CellStart(s, A, k, B, i, j) * arch.element_unit, CellSize(s, A, k, B, i, j))
           \subseteq Bytes(base, whole)
<1> DEFINE u == arch.element_unit
<1>1. u \in Pos
  BY DEF Arch, Pos
<1> HIDE DEF u
<1>2. Cell(s, A, k, B, base, u, i, j) \subseteq base .. base + (A * B) * u - 1
  <2>1. base \in Int
    OBVIOUS
  <2> QED BY <1>1, <2>1, CellsInside
<1>3. Bytes(base, A * B) \subseteq Bytes(base, whole)
  <2>1. A * B \in Nat
    BY PosProduct DEF Pos
  <2> QED BY <2>1, SmallerBytes
<1> QED BY <1>2, <1>3 DEF Bytes, Cell, u

(* A tile lies in the tensors of its product.                              *)
LEMMA TileInside ==
  ASSUME arch \in Arch, network \in Networks, NEW i \in DOMAIN network, NEW p,
         Resolved(network, i, p), FitsNames(i),
         network[i].type \in {"Gemm", "Im2col_conv", "Dir_Gemm", "Ineff_Dir_Gemm"},
         NEW shape, Sized(p, shape), NEW rows, AreTiles(arch, rows, p, shape), NEW n \in DOMAIN rows
  PROVE  RowInside(rows[n], p, i)
<1> DEFINE l == AsGemm(network[i])
           J == DepthsOf(p, shape)
           K == ColumnsOf(p, shape)
           b == Band(J, K, n - 1)
           d == Depth(J, K, n - 1)
           c == Column(K, n - 1)
           q == rows[n]
           u == arch.element_unit
           H == p.ifmap_height
           W == p.ifmap_width
           F == p.filter_width
<1>1. n \in 1 .. NumberOfTiles(p, shape) /\ IsTile(arch, q, p, shape, b, d, c)
  <2> DEFINE N == NumberOfTiles(p, shape)
  <2>1. rows = [m \in 1 .. N |-> rows[m]]
    BY DEF AreTiles
  <2> HIDE DEF N
  <2>2. DOMAIN rows = 1 .. N
    BY <2>1
  <2>3. n \in 1 .. NumberOfTiles(p, shape)
    BY <2>2 DEF N
  <2> QED BY <2>3 DEF AreTiles
<1>2. /\ l.ifmap_height = H /\ l.ifmap_width = W /\ l.filter_width = F
      /\ l.type = network[i].type /\ l \in Layer
      /\ p.ifmap \in Nat /\ p.filter \in Nat /\ p.ofmap \in Nat
      /\ H \in Pos /\ W \in Pos /\ F \in Pos
  BY ResolvedFields
<1>3. shape.height \in Pos /\ shape.width \in Pos /\ shape.filter_width \in Pos
  BY DEF Sized
<1>4. b \in Bands(shape.height, H) /\ d \in Bands(shape.width, W) /\ c \in Bands(shape.filter_width, F)
  <2> DEFINE I == BandsOf(p, shape)
             m == n - 1
  <2>1. I \in Pos /\ J \in Pos /\ K \in Pos /\ NumberOfTiles(p, shape) = I * J * K
    BY CountsOfTiles DEF NumberOfTiles
  <2>2. m \in 0 .. I * J * K - 1
    <3> DEFINE N == I * J * K
    <3>1. N \in Pos /\ n \in 1 .. N
      BY <1>1, <2>1, CountsOfTiles
    <3> HIDE DEF N
    <3> QED BY <3>1 DEF N, Pos
  <2> HIDE DEF I, J, K, m
  <2>3. Band(J, K, m) \in 0 .. I - 1 /\ Depth(J, K, m) \in 0 .. J - 1 /\ Column(K, m) \in 0 .. K - 1
    BY <2>1, <2>2, NumberOfDigits
  <2> QED BY <2>3 DEF Bands, I, J, K, m, BandsOf, DepthsOf, ColumnsOf
<1>5. /\ q.ifmap = p.ifmap + CellStart(shape.height, H, shape.width, W, b, d) * u
      /\ q.filter = p.filter + CellStart(shape.width, W, shape.filter_width, F, d, c) * u
      /\ q.ofmap = p.ofmap + CellStart(shape.height, H, shape.filter_width, F, b, c) * u
      /\ IfmapElements(q) = CellSize(shape.height, H, shape.width, W, b, d)
      /\ FilterElements(q) = CellSize(shape.width, W, shape.filter_width, F, d, c)
      /\ OfmapElements(q) = CellSize(shape.height, H, shape.filter_width, F, b, c)
      /\ q.type # "Gemv"
  <2> HIDE DEF q, b, d, c
  <2> QED BY <1>1 DEF IsTile, TileOffset, TileSize, CellSize
<1> HIDE DEF q, b, d, c, H, W, F, l
<1>6. /\ InputOf(i) \in Nat /\ FilterOf(i) \in Nat /\ ResultOf(i) \in Nat
      /\ H * W <= InputOf(i) /\ W * F <= FilterOf(i) /\ H * F <= ResultOf(i)
  <2>1. InputOf(i) \in Nat /\ FilterOf(i) \in Nat /\ ResultOf(i) \in Nat
    BY TensorSizes
  <2>2. /\ l.filter_height \in Pos /\ l.filter_depth \in Pos /\ l.filter_num \in Pos
    BY <1>2 DEF Layer, Pos
  <2>3. InputOf(i) = H * W * l.filter_depth
    BY <1>2 DEF InputOf, IfmapElements, l
  <2>4. FilterOf(i) = F * l.filter_height * l.filter_depth * l.filter_num
    BY <1>2 DEF FilterOf, FilterElements, FilterSize, l
  <2>5. ResultOf(i) = H * F
    BY <1>2 DEF ResultOf, OfmapElements, l
  <2>6. H * W <= InputOf(i)
    <3>1. H * W \in Pos
      BY <1>2, PosProduct
    <3> QED BY <2>2, <2>3, <3>1, LargerProduct
  <2>7. W <= l.filter_height
    <3>1. CASE network[i].type = "Im2col_conv"
      <4>1. network[i] \in Layer
        BY NetworkAssumption
      <4>2. l.ifmap_width = l.filter_height
        BY <3>1, <4>1 DEF AsGemm, l, Layer
      <4> QED BY <1>2, <2>2, <4>2 DEF Pos
    <3>2. CASE network[i].type # "Im2col_conv"
      BY <1>2, <3>2 DEF FitsNames, l
    <3> QED BY <3>1, <3>2
  <2>8. W * F <= FilterOf(i)
    <3> DEFINE x == F * l.filter_height
               y == x * l.filter_depth
    <3>1. x \in Pos /\ y \in Pos
      BY <1>2, <2>2, PosProduct
    <3>2. F * W <= x /\ F * W = W * F
      BY <1>2, <2>2, <2>7, Monotone, Commutes DEF Pos
    <3> HIDE DEF x
    <3>3. x <= y
      BY <2>2, <3>1, LargerProduct
    <3>4. FilterOf(i) = y * l.filter_num
      BY <2>4 DEF x
    <3> HIDE DEF y
    <3>5. y <= FilterOf(i)
      BY <2>2, <3>1, <3>4, LargerProduct
    <3>6. W * F \in Int
      BY <1>2 DEF Pos
    <3> QED BY <2>1, <3>1, <3>2, <3>3, <3>5, <3>6 DEF Pos
  <2>9. H * F <= ResultOf(i)
    <3>1. H * F \in Pos
      BY <1>2, PosProduct
    <3> QED BY <2>5, <3>1 DEF Pos
  <2> QED BY <2>1, <2>6, <2>8, <2>9
<1>7. FilterBytes(q) \subseteq Bytes(p.filter, FilterOf(i))
  <2>1. FilterBytes(q) = Bytes(q.filter, FilterElements(q))
    BY <1>5 DEF FilterBytes
  <2> QED BY <1>2, <1>3, <1>4, <1>5, <1>6, <2>1, CellBytes, SMTT(30)
<1>8. InputIn(q, p.ifmap) \subseteq Bytes(p.ifmap, InputOf(i))
  <2>1. InputIn(q, p.ifmap) = Bytes(q.ifmap, IfmapElements(q))
    BY <1>5 DEF InputIn, IfmapBytes
  <2> QED BY <1>2, <1>3, <1>4, <1>5, <1>6, <2>1, CellBytes, SMTT(30)
<1>9. OfmapBytes(q) \subseteq Bytes(p.ofmap, ResultOf(i))
  <2>1. OfmapBytes(q) = Bytes(q.ofmap, OfmapElements(q))
    BY DEF OfmapBytes
  <2> QED BY <1>2, <1>3, <1>4, <1>5, <1>6, <2>1, CellBytes, SMTT(30)
<1> QED BY <1>7, <1>8, <1>9 DEF RowInside, q

(* A band lies in the tensors of its matrix-vector product.                *)
LEMMA BandInside ==
  ASSUME arch \in Arch, network \in Networks, NEW i \in DOMAIN network, NEW p,
         Resolved(network, i, p), network[i].type = "Gemv",
         NEW rows, AreBands(arch, rows, p), NEW n \in DOMAIN rows
  PROVE  RowInside(rows[n], p, i)
<1> DEFINE C == BandsOfVector(arch, p)
           h == Heights(arch, p)
           H == p.ifmap_height
           q == rows[n]
           u == arch.element_unit
<1>1. n \in 1 .. C /\ h \in Pos
  <2>1. rows = [m \in 1 .. C |-> rows[m]] /\ h \in Pos
    BY DEF AreBands
  <2> HIDE DEF C, h
  <2>2. DOMAIN rows = 1 .. C
    BY <2>1
  <2> QED BY <2>1, <2>2
<1>2. PICK b, e \in Nat : IsBand(arch, q, p, n, b, e)
  BY <1>1 DEF AreBands
<1>3. AsGemm(network[i]) = network[i]
  BY DEF AsGemm
<1>4. /\ network[i].ifmap_height = H /\ network[i].filter_height = p.filter_height
      /\ p.name = i /\ p.ifmap \in Nat /\ p.filter \in Nat /\ p.ofmap \in Nat /\ H \in Pos
  BY <1>3, ResolvedFields
<1>5. /\ q.name = i /\ q.type = "Gemv" /\ q.filter = p.filter
      /\ q.filter_height = Part(n - 1, h, H)
      /\ q.ofmap = p.ofmap + (h * (n - 1)) * u
  BY <1>2, <1>4 DEF IsBand, RowsInBand
<1>6. FilterOf(i) = network[i].filter_height /\ ResultOf(i) = H
  BY <1>3, <1>4 DEF FilterOf, ResultOf
<1>7. n - 1 \in 0 .. CeilDiv(H, h) - 1
  <2>1. CeilDiv(H, h) = C /\ C \in Pos
    BY <1>1, <1>4, CeilDivBounds DEF BandsOfVector
  <2> HIDE DEF C
  <2> QED BY <1>1, <2>1 DEF Pos
<1> HIDE DEF q, h, H
<1>8. /\ h * (n - 1) \in Nat /\ Part(n - 1, h, H) \in Nat
      /\ h * (n - 1) + Part(n - 1, h, H) <= H
  BY <1>1, <1>4, <1>7, PartSize DEF Pos
<1>9. FilterBytes(q) \subseteq Bytes(p.filter, FilterOf(i))
  BY <1>5, <1>6 DEF FilterBytes
<1>10. InputIn(q, p.ifmap) \subseteq Bytes(p.ifmap, InputOf(i))
  BY <1>5 DEF InputIn
<1>11. OfmapBytes(q) \subseteq Bytes(p.ofmap, ResultOf(i))
  <2>1. OfmapBytes(q) = Bytes(p.ofmap + (h * (n - 1)) * u, Part(n - 1, h, H))
    BY <1>5 DEF OfmapBytes, OfmapElements
  <2>2. H \in Nat
    BY <1>4 DEF Pos
  <2> DEFINE start == h * (n - 1)
             many == Part(n - 1, h, H)
  <2>3. start \in Nat /\ many \in Nat /\ start + many <= H
    BY <1>8
  <2> HIDE DEF start, many
  <2>4. Bytes(p.ofmap + start * u, many) \subseteq Bytes(p.ofmap, H)
    BY <1>4, <2>2, <2>3, BytesInside
  <2> QED BY <1>6, <2>1, <2>4 DEF start, many
<1> QED BY <1>9, <1>10, <1>11 DEF RowInside, q

(* A row that is the whole layer lies in its tensors.                      *)
LEMMA SingleInside ==
  ASSUME arch \in Arch, network \in Networks, NEW i \in DOMAIN network, NEW p,
         Resolved(network, i, p), p.type \in {"Conv", "Ineff_Conv", "Pool", "Other"}
  PROVE  RowInside(p, p, i)
<1> DEFINE l == AsGemm(network[i])
<1>1. /\ l.ifmap_height = p.ifmap_height /\ l.ifmap_width = p.ifmap_width
      /\ l.filter_height = p.filter_height /\ l.filter_width = p.filter_width
      /\ l.filter_depth = p.filter_depth /\ l.filter_num = p.filter_num
      /\ l.stride = p.stride /\ l.type = p.type
  BY ResolvedFields
<1> HIDE DEF l
<1>2. /\ IfmapElements(p) = InputOf(i) /\ FilterElements(p) = FilterOf(i)
  <2>1. IfmapElements(p) = IfmapElements(l) /\ FilterElements(p) = FilterElements(l)
    BY <1>1 DEF IfmapElements, FilterElements, FilterSize
  <2> QED BY <1>1, <2>1 DEF InputOf, FilterOf, l
<1>3. OfmapElements(p) = ResultOf(i)
  <2>1. Windows(p) = Windows(l)
    BY <1>1 DEF Windows, OfmapWidth, OfmapHeight
  <2>2. OfmapElements(p) = OfmapElements(l)
    BY <1>1, <2>1 DEF OfmapElements
  <2> QED BY <1>1, <2>2 DEF ResultOf, l
<1>4. FilterBytes(p) = Bytes(p.filter, FilterOf(i))
  BY <1>2 DEF FilterBytes
<1>5. InputIn(p, p.ifmap) = Bytes(p.ifmap, InputOf(i))
  BY <1>2 DEF InputIn, IfmapBytes
<1>6. OfmapBytes(p) = Bytes(p.ofmap, ResultOf(i))
  BY <1>3 DEF OfmapBytes
<1> QED BY <1>4, <1>5, <1>6 DEF RowInside

(* Every row of a layer lies in its tensors.                               *)
LEMMA RowsInside ==
  ASSUME arch \in Arch, network \in Networks, NEW i \in DOMAIN network, NEW p,
         Resolved(network, i, p), p.type = network[i].type, FitsNames(i),
         NEW rows, LaidOut(arch, rows, p), NEW n \in DOMAIN rows
  PROVE  RowInside(rows[n], p, i)
<1>1. CASE p.type \in {"Gemm", "Im2col_conv"}
  <2>1. Sized(p, GemmShape(arch, p)) /\ AreTiles(arch, rows, p, GemmShape(arch, p))
    BY <1>1 DEF LaidOut
  <2> QED BY <1>1, <2>1, TileInside
<1>2. CASE p.type = "Dir_Gemm"
  <2>1. Sized(p, DirGemmShape(arch, p)) /\ AreTiles(arch, rows, p, DirGemmShape(arch, p))
    BY <1>2 DEF LaidOut
  <2> QED BY <1>2, <2>1, TileInside
<1>3. CASE p.type = "Ineff_Dir_Gemm"
  <2>1. Sized(p, Whole(p)) /\ AreTiles(arch, rows, p, Whole(p))
    BY <1>3 DEF LaidOut
  <2> QED BY <1>3, <2>1, TileInside
<1>4. CASE p.type = "Gemv"
  <2>1. AreBands(arch, rows, p)
    BY <1>4 DEF LaidOut
  <2> QED BY <1>4, <2>1, BandInside
<1>5. CASE p.type \in {"Conv", "Ineff_Conv", "Pool", "Other"}
  <2>1. rows = <<p>>
    BY <1>5 DEF LaidOut
  <2>2. rows[n] = p
    BY <2>1
  <2> QED BY <1>5, <2>2, SingleInside
<1>6. p.type \in Types
  <2>1. network[i] \in Layer
    BY NetworkAssumption
  <2> QED BY <2>1 DEF Layer
<1> QED BY <1>1, <1>2, <1>3, <1>4, <1>5, <1>6 DEF Types

-----------------------------------------------------------------------------
(* The state between two steps.                                             *)
RowReserved(q) ==
  /\ \A e \in InputBytes(q) : e < gen.new_space_addr
  /\ FilterReserved(q.name) => \A e \in FilterBytes(q) : e < gen.new_space_addr
  /\ q.type # "Ineff_Dir_Tile_Gemm" => \A e \in OfmapBytes(q) : e < gen.new_space_addr
RowsApart(p, q) ==
  network[q.name].ofmap = Sequential =>
    /\ p.name <= q.name => OfmapBytes(q) \cap InputBytes(p) = {}
    /\ (p.name = q.name /\ FilterFits(p.name)) \/ (p.name < q.name /\ FilterReserved(p.name)) =>
         OfmapBytes(q) \cap FilterBytes(p) = {}
    /\ p.name < q.name /\ p.type # "Ineff_Dir_Tile_Gemm" => OfmapBytes(q) \cap OfmapBytes(p) = {}
Spacious ==
  (\A i \in 1 .. layer : FitsNames(i)) =>
    /\ Reserving(gen, layer)
    /\ \A n \in DOMAIN config : RowReserved(config[n])
    /\ \A m, n \in DOMAIN config : RowsApart(config[m], config[n])

(* The bytes of a tensor are those from its base to its end.               *)
LEMMA InBytes ==
  ASSUME arch \in Arch, NEW base \in Nat, NEW many \in Nat, NEW e \in Bytes(base, many)
  PROVE  e \in Int /\ base <= e /\ e < End(base, many)
<1> DEFINE u == arch.element_unit
<1>1. u \in Nat
  BY DEF Arch
<1> HIDE DEF u
<1>2. many * u \in Nat
  BY <1>1, NatProduct
<1> QED BY <1>2 DEF Bytes, End, u

(* Sizes and bytes when the configuration files stay.                       *)
LEMMA SizesStay ==
  ASSUME network' = network, NEW i
  PROVE  /\ InputOf(i)' = InputOf(i) /\ FilterOf(i)' = FilterOf(i) /\ ResultOf(i)' = ResultOf(i)
         /\ ReservedOf(i)' = ReservedOf(i)
  BY DEF InputOf, FilterOf, ResultOf, ReservedOf

(* What fits depends on the description only.                              *)
LEMMA FitsStays ==
  ASSUME network' = network, NEW i
  PROVE  FitsNames(i)' <=> FitsNames(i)
  BY SMTT(30) DEF FitsNames, Fits, InputOf, FilterOf, ResultOf, ReservedOf

LEMMA FilterStays ==
  ASSUME network' = network, NEW i
  PROVE  /\ FilterFits(i)' <=> FilterFits(i)
         /\ FilterReserved(i)' <=> FilterReserved(i)
<1>1. FilterFits(i)' <=> FilterFits(i)
  BY SMTT(30) DEF FilterFits, Fits, InputOf, FilterOf, ResultOf, ReservedOf
<1> QED BY <1>1 DEF FilterReserved

(* The bytes of a row depend on description, core and array of inputs      *)
(* only.                                                                   *)
LEMMA BytesStay ==
  ASSUME network' = network, arch' = arch, NEW q
  PROVE  /\ FilterBytes(q)' = FilterBytes(q) /\ OfmapBytes(q)' = OfmapBytes(q)
         /\ InputBytes(q)' = InputIn(q, gen'.ifmap_base_addr_array[q.name])
         /\ InputBytes(q) = InputIn(q, gen.ifmap_base_addr_array[q.name])
  BY DEF FilterBytes, OfmapBytes, IfmapBytes, InputBytes, InputIn, Bytes, InputOf

(* What is reserved depends on the generator only.                         *)
LEMMA ReservingStays ==
  ASSUME network' = network, arch' = arch, NEW n, n = layer', Reserving(gen', n)
  PROVE  Reserving(gen, layer)'
<1>1. \A i : /\ InputOf(i)' = InputOf(i) /\ FilterOf(i)' = FilterOf(i)
             /\ ReservedOf(i)' = ReservedOf(i)
  BY SizesStay
<1> QED BY <1>1 DEF Reserving, End

(* A row of the configuration and its bytes, seen from after the layer: all  *)
(* that is read lies below space, what is written below the new space, and   *)
(* what is written to new space of the layer itself not below space.         *)
Around(q, inputs, space, h) ==
  /\ \A e \in inputs : e < space
  /\ FilterFits(q.name) => \A e \in FilterBytes(q) : e < space
  /\ FilterReserved(q.name) => \A e \in FilterBytes(q) : e < h.new_space_addr
  /\ q.type # "Ineff_Dir_Tile_Gemm" => \A e \in OfmapBytes(q) : e < h.new_space_addr

(* The rows of the next layer lie around the space that is free.           *)
LEMMA NewRowAround ==
  ASSUME NEW g, NEW n, Before(g, n), FitsNames(n + 1), NEW h, h \in Generator, NEW p,
         Resolved(network, n + 1, p), p.type = network[n + 1].type,
         NEW space \in Nat, Behind(g, h, p, n + 1, space),
         NEW rows, LaidOut(arch, rows, p), NEW m \in DOMAIN rows, rows[m].name = n + 1
  PROVE  /\ Around(rows[m], InputIn(rows[m], p.ifmap), space, h)
         /\ network[n + 1].ofmap = Sequential => \A e \in OfmapBytes(rows[m]) : space <= e
<1> DEFINE i == n + 1
           q == rows[m]
<1>1. /\ arch \in Arch /\ network \in Networks /\ i \in DOMAIN network
      /\ p.ifmap \in Nat /\ p.filter \in Nat /\ p.ofmap \in Nat
  BY DEF Before, Resolved, RowIn
<1>2. RowInside(q, p, i)
  BY <1>1, RowsInside
<1>3. InputOf(i) \in Nat /\ FilterOf(i) \in Nat /\ ResultOf(i) \in Nat
  BY <1>1, TensorSizes
<1>4. h.new_space_addr \in Nat
  BY DEF Generator
<1>5. network[i].type = "Ineff_Dir_Gemm" => q.type = "Ineff_Dir_Tile_Gemm"
  BY DEF LaidOut
<1>6. q.name = i
  OBVIOUS
<1> HIDE DEF i, q
<1>7. ASSUME NEW e \in FilterBytes(q)
      PROVE  /\ FilterFits(q.name) => e < space
             /\ FilterReserved(q.name) => e < h.new_space_addr
  <2>1. e \in Bytes(p.filter, FilterOf(i))
    BY <1>2 DEF RowInside
  <2>2. /\ FilterFits(i) => End(p.filter, FilterOf(i)) <= space
        /\ FilterReserved(i) => End(p.filter, FilterOf(i)) <= h.new_space_addr
    BY DEF Behind, i
  <2>3. End(p.filter, FilterOf(i)) \in Nat
    BY <1>1, <1>3, EndIsNumber
  <2>4. e \in Int /\ e < End(p.filter, FilterOf(i))
    BY <1>1, <1>3, <2>1, InBytes
  <2> QED BY <1>4, <1>6, <2>2, <2>3, <2>4
<1>8. ASSUME NEW e \in InputIn(q, p.ifmap)
      PROVE  e < space
  <2>1. e \in Bytes(p.ifmap, InputOf(i))
    BY <1>2 DEF RowInside
  <2>2. End(p.ifmap, InputOf(i)) <= space
    BY DEF Behind, i
  <2>3. End(p.ifmap, InputOf(i)) \in Nat
    BY <1>1, <1>3, EndIsNumber
  <2> QED BY <1>1, <1>3, <2>1, <2>2, <2>3, InBytes
<1>9. ASSUME NEW e \in OfmapBytes(q)
      PROVE  /\ q.type # "Ineff_Dir_Tile_Gemm" => e < h.new_space_addr
             /\ network[i].ofmap = Sequential => space <= e
  <2>1. e \in Bytes(p.ofmap, ResultOf(i))
    BY <1>2 DEF RowInside
  <2>2. e \in Int /\ p.ofmap <= e /\ e < End(p.ofmap, ResultOf(i))
    BY <1>1, <1>3, <2>1, InBytes
  <2>3. End(p.ofmap, ReservedOf(i)) <= h.new_space_addr /\ (network[i].ofmap = Sequential => p.ofmap = space)
    BY DEF Behind, i
  <2>4. q.type # "Ineff_Dir_Tile_Gemm" => ReservedOf(i) = ResultOf(i)
    BY <1>5 DEF ReservedOf
  <2>5. End(p.ofmap, ResultOf(i)) \in Nat
    BY <1>1, <1>3, EndIsNumber
  <2> QED BY <1>4, <2>2, <2>3, <2>4, <2>5
<1> QED BY <1>7, <1>8, <1>9 DEF Around, i, q

(* ConfigLayer keeps every result apart from what it must not lie on.      *)
LEMMA SpaciousLayer ==
  ASSUME Translated, Translated', Spacious, Remembering(gen, layer), ConfigLayer
  PROVE  Spacious' /\ Remembering(gen, layer)'
<1>1. /\ Configured /\ Arrays(gen, network, layer) /\ layer \in Nat /\ layer' = layer + 1
      /\ UNCHANGED <<arch, network>> /\ arch \in Arch /\ network \in Networks
      /\ layer + 1 \in DOMAIN network
  <2>1. network \in Seq(Layer) /\ arch \in Arch
    BY NetworkAssumption, ArchAssumption DEF Configured, Translated
  <2> QED BY <2>1 DEF Translated, Configured, ConfigLayer
<1>2. PICK unassigned : /\ Translates(PlacedNext, DoneNext(unassigned).rows)
                        /\ gen' = DoneNext(unassigned).gen
  BY <1>1, LayerTranslates
<1> DEFINE g == gen
           n == layer
           i == n + 1
           p == PlacedNext
           new == DoneNext(unassigned).rows
           h == DoneNext(unassigned).gen
<1>3. Remembers(g, h, p, network[n + 1])
  <2>1. /\ arch \in Arch /\ network \in Networks /\ n \in Nat /\ n + 1 \in DOMAIN network
        /\ Arrays(g, network, n)
    BY <1>1
  <2> HIDE DEF g, n
  <2> DEFINE l == network[n + 1]
             x == AddressesOf(arch, g, l, n = 0).row
             c == ConfigUpdate(arch, g, l, n = 0, unassigned)
  <2>2. /\ c.gen.ofmap_base_addr = x.ofmap
        /\ c.gen.filter_base_addr_array =
             IF l.type = "Gemv" THEN Append(g.filter_base_addr_array, x.filter)
             ELSE g.filter_base_addr_array
    BY <2>1, NextRemembers
  <2>3. p = x /\ h = c.gen
    BY DEF PlacedNext, DoneNext, g, n
  <2> HIDE DEF x, c, p, h
  <2> QED BY <2>2, <2>3 DEF Remembers
<1>4. FitsNames(i) /\ Before(g, n) => \E space \in Nat : Behind(g, h, p, i, space)
  <2> HIDE DEF g, n
  <2> DEFINE l == network[n + 1]
             x == AddressesOf(arch, g, l, n = 0).row
             c == ConfigUpdate(arch, g, l, n = 0, unassigned)
  <2>1. FitsNames(n + 1) /\ Before(g, n) => \E space \in Nat : Behind(g, c.gen, x, n + 1, space)
    BY NextBehind
  <2>2. p = x /\ h = c.gen
    BY DEF PlacedNext, DoneNext, g, n
  <2> HIDE DEF x, c, p, h
  <2> QED BY <2>1, <2>2
<1> HIDE DEF p, new, h
<1>5. Translates(p, new) /\ gen' = h
  BY <1>2 DEF p, new, h
<1>6. /\ Resolved(network, i, p) /\ p.type = network[i].type /\ LaidOut(arch, new, p)
      /\ Grown(g, h, p, IsVector(network[n + 1])) /\ config' = config \o new /\ RowsOK(new)
      /\ \A m \in DOMAIN new : new[m].name = i
      /\ p.ifmap \in Nat /\ p.filter \in Nat /\ p.ofmap \in Nat /\ h \in Generator
  BY <1>5 DEF Translates, Resolved, RowIn, Grown
<1>7. Remembering(h, n + 1)
  <2>1. /\ n \in Nat /\ Arrays(g, network, n) /\ Remembering(g, n) /\ network \in Networks
        /\ Grown(g, h, p, IsVector(network[n + 1])) /\ Remembers(g, h, p, network[n + 1])
        /\ p.ifmap \in Nat /\ p.filter \in Nat /\ p.ofmap \in Nat
    BY <1>1, <1>3, <1>6
  <2> HIDE DEF g, n
  <2> QED BY <2>1, RememberingNext
<1>8. Remembering(gen, layer)'
  BY <1>1, <1>5, <1>7 DEF Remembering
<1>9. SUFFICES ASSUME (\A j \in 1 .. layer : FitsNames(j))'
               PROVE  /\ Reserving(gen, layer)'
                      /\ \A m \in DOMAIN config' : RowReserved(config[m])'
                      /\ \A m, k \in DOMAIN config' : RowsApart(config[m], config[k])'
  BY <1>8 DEF Spacious
<1>10. \A j \in 1 .. n + 1 : FitsNames(j)
  <2>1. \A j \in 1 .. layer' : FitsNames(j)'
    BY <1>9
  <2> QED BY <1>1, <2>1, FitsStays
<1>11. /\ Reserving(gen, layer)
       /\ \A m \in DOMAIN config : RowReserved(config[m])
       /\ \A m, k \in DOMAIN config : RowsApart(config[m], config[k])
  <2>1. \A j \in 1 .. layer : FitsNames(j)
    BY <1>1, <1>10
  <2> QED BY <2>1 DEF Spacious
<1>12. Before(g, n) /\ FitsNames(i)
  <2>1. i \in 1 .. n + 1
    BY <1>1
  <2> QED BY <1>1, <1>10, <1>11, <2>1 DEF Before
<1>13. PICK space \in Nat : Behind(g, h, p, i, space)
  BY <1>4, <1>12
<1>14. Reserving(gen, layer)'
  <2>1. /\ Before(g, n) /\ Behind(g, h, p, n + 1, space)
        /\ Grown(g, h, p, IsVector(network[n + 1])) /\ Remembers(g, h, p, network[n + 1])
        /\ p.ifmap \in Nat /\ p.filter \in Nat /\ p.ofmap \in Nat
    BY <1>3, <1>6, <1>12, <1>13
  <2>2. Reserving(h, n + 1)
    <3> HIDE DEF g, n
    <3> QED BY <2>1, ReservingNext
  <2> QED BY <1>1, <1>5, <2>2, ReservingStays
<1>15. gen.new_space_addr \in Nat /\ h.new_space_addr \in Nat /\ gen.new_space_addr <= space
       /\ space <= h.new_space_addr
  BY <1>6, <1>12, <1>13, BeforeTypes DEF Behind, Generator
<1> DEFINE Bottom(q) == h.ifmap_base_addr_array[q.name]
           Old(q) == \E m \in DOMAIN config : q = config[m]
           New(q) == \E m \in DOMAIN new : q = new[m]
<1>16. \A q : /\ FilterBytes(q)' = FilterBytes(q) /\ OfmapBytes(q)' = OfmapBytes(q)
              /\ InputBytes(q)' = InputIn(q, Bottom(q))
  BY <1>1, <1>5, BytesStay
<1>17. Longer(g, h, n, p)
  <2> HIDE DEF g, n
  <2> QED BY <1>1, <1>6, GrownArrays DEF g, n
<1>18. ASSUME NEW q, Old(q)
       PROVE  /\ q.name \in 1 .. n /\ RowReserved(q) /\ InputBytes(q) = InputIn(q, Bottom(q))
              /\ Around(q, InputIn(q, Bottom(q)), space, h)
              /\ FilterReserved(q.name) => \A e \in FilterBytes(q) : e < space
              /\ q.type # "Ineff_Dir_Tile_Gemm" => \A e \in OfmapBytes(q) : e < space
  <2>1. q.name \in 1 .. n /\ RowReserved(q)
    BY <1>11, <1>18 DEF Translated
  <2>2. InputBytes(q) = InputIn(q, Bottom(q))
    <3>1. InputBytes(q) = InputIn(q, g.ifmap_base_addr_array[q.name])
      BY <1>1, BytesStay
    <3>2. Bottom(q) = g.ifmap_base_addr_array[q.name]
      BY <1>17, <2>1 DEF Longer
    <3> QED BY <3>1, <3>2
  <2> DEFINE F == FilterBytes(q)
             I == InputBytes(q)
             O == OfmapBytes(q)
             top == gen.new_space_addr
  <2>3. F \subseteq Int /\ I \subseteq Int /\ O \subseteq Int
    BY DEF FilterBytes, InputBytes, IfmapBytes, OfmapBytes, Bytes
  <2>4. /\ \A e \in I : e < top
        /\ FilterReserved(q.name) => \A e \in F : e < top
        /\ q.type # "Ineff_Dir_Tile_Gemm" => \A e \in O : e < top
    BY <2>1 DEF RowReserved
  <2>7. FilterFits(q.name) => FilterReserved(q.name)
    BY DEF FilterReserved
  <2> HIDE DEF F, I, O, top
  <2>5. top \in Nat /\ top <= space
    BY <1>15 DEF top
  <2>6. /\ \A e \in I : e < space
        /\ FilterReserved(q.name) => \A e \in F : e < space /\ e < h.new_space_addr
        /\ q.type # "Ineff_Dir_Tile_Gemm" => \A e \in O : e < space /\ e < h.new_space_addr
    BY <1>15, <2>3, <2>4, <2>5
  <2> QED BY <2>1, <2>2, <2>6, <2>7 DEF Around, F, I, O
<1>19. ASSUME NEW q, New(q)
       PROVE  /\ q.name = n + 1 /\ Around(q, InputIn(q, Bottom(q)), space, h)
              /\ network[n + 1].ofmap = Sequential => \A e \in OfmapBytes(q) : space <= e
  <2>1. PICK m \in DOMAIN new : q = new[m]
    BY <1>19
  <2>2. q.name = n + 1
    BY <1>6, <2>1
  <2>3. Bottom(q) = p.ifmap
    BY <1>17, <2>2 DEF Longer
  <2>4. /\ Around(new[m], InputIn(new[m], p.ifmap), space, h)
        /\ network[n + 1].ofmap = Sequential => \A e \in OfmapBytes(new[m]) : space <= e
    <3>1. new[m].name = n + 1
      BY <2>1, <2>2
    <3> HIDE DEF g, n
    <3> QED BY <1>6, <1>12, <1>13, <3>1, NewRowAround
  <2> QED BY <2>1, <2>2, <2>3, <2>4
<1>20. \A m \in DOMAIN config' : Old(config'[m]) \/ New(config'[m])
  <2>1. PICK S : config \in Seq(S)
    BY <1>1, RowsAreSequence DEF Configured
  <2>2. PICK U : new \in Seq(U)
    BY <1>6, RowsAreSequence
  <2>3. config \in Seq(S \cup U) /\ new \in Seq(S \cup U) /\ config' = config \o new
    BY <1>6, <2>1, <2>2
  <2> TAKE m \in DOMAIN config'
  <2>4. CASE m \in DOMAIN config
    <3>1. config'[m] = config[m]
      BY <2>3, <2>4
    <3> QED BY <2>4, <3>1
  <2>5. CASE m \notin DOMAIN config
    <3>1. m - Len(config) \in DOMAIN new /\ config'[m] = new[m - Len(config)]
      BY <2>3, <2>5
    <3> QED BY <3>1
  <2> QED BY <2>4, <2>5
<1> HIDE DEF Bottom, Old, New
<1>21. ASSUME NEW q, Old(q) \/ New(q)
       PROVE  RowReserved(q)'
  <2> DEFINE F == FilterBytes(q)
             I == InputIn(q, Bottom(q))
             O == OfmapBytes(q)
  <2>1. Around(q, I, space, h)
    BY <1>18, <1>19, <1>21
  <2>2. F \subseteq Int /\ I \subseteq Int
    BY DEF FilterBytes, InputIn, IfmapBytes, Bytes
  <2>3. F = FilterBytes(q)' /\ I = InputBytes(q)' /\ O = OfmapBytes(q)'
    BY <1>16
  <2>4. /\ \A e \in I : e < space
        /\ FilterReserved(q.name) => \A e \in F : e < h.new_space_addr
        /\ q.type # "Ineff_Dir_Tile_Gemm" => \A e \in O : e < h.new_space_addr
    BY <2>1 DEF Around
  <2>6. FilterReserved(q.name)' <=> FilterReserved(q.name)
    BY <1>1, FilterStays
  <2> HIDE DEF F, I, O
  <2>5. \A e \in I : e < h.new_space_addr
    BY <1>15, <2>2, <2>4
  <2> QED BY <1>5, <2>3, <2>4, <2>5, <2>6 DEF RowReserved
<1>22. ASSUME NEW x, NEW q, Old(x) \/ New(x), Old(q) \/ New(q)
       PROVE  RowsApart(x, q)'
  <2> DEFINE F == FilterBytes(x)
             I == InputIn(x, Bottom(x))
             O == OfmapBytes(x)
             P == OfmapBytes(q)
  <2>1. F = FilterBytes(x)' /\ I = InputBytes(x)' /\ O = OfmapBytes(x)' /\ P = OfmapBytes(q)'
    BY <1>16
  <2>2. Around(x, I, space, h)
    BY <1>18, <1>19, <1>22
  <2>3. F \subseteq Int /\ I \subseteq Int /\ O \subseteq Int /\ P \subseteq Int
    BY DEF FilterBytes, InputIn, IfmapBytes, OfmapBytes, Bytes
  <2> DEFINE Apart == network[q.name].ofmap = Sequential =>
                        /\ x.name <= q.name => P \cap I = {}
                        /\ (x.name = q.name /\ FilterFits(x.name)) \/ (x.name < q.name /\ FilterReserved(x.name)) =>
                             P \cap F = {}
                        /\ x.name < q.name /\ x.type # "Ineff_Dir_Tile_Gemm" => P \cap O = {}
  <2>7. (FilterFits(x.name)' <=> FilterFits(x.name))
        /\ (FilterReserved(x.name)' <=> FilterReserved(x.name))
    BY <1>1, FilterStays
  <2>4. CASE Old(x) /\ Old(q)
    <3>1. RowsApart(x, q)
      BY <1>11, <2>4 DEF Old
    <3>2. I = InputBytes(x)
      BY <1>18, <2>4
    <3>3. Apart
      BY <3>1, <3>2 DEF RowsApart
    <3> QED BY <1>1, <2>1, <2>7, <3>3 DEF RowsApart
  <2>5. CASE New(x) /\ Old(q)
    <3>1. x.name = n + 1 /\ q.name \in 1 .. n
      BY <1>18, <1>19, <2>5
    <3>2. ~(x.name <= q.name) /\ x.name # q.name /\ ~(x.name < q.name)
      BY <1>1, <3>1
    <3> QED BY <1>1, <3>1, <3>2 DEF RowsApart
  <2>6. CASE New(q)
    <3> SUFFICES ASSUME network[q.name].ofmap = Sequential
                 PROVE  Apart
      BY <1>1, <2>1, <2>7 DEF RowsApart
    <3>1. q.name = n + 1 /\ \A e \in P : space <= e
      BY <1>19, <2>6
    <3>2. /\ \A e \in I : e < space
          /\ FilterFits(x.name) => \A e \in F : e < space
      BY <2>2 DEF Around
    <3>6. x.name < q.name /\ FilterReserved(x.name) => \A e \in F : e < space
      <4>1. CASE Old(x)
        BY <1>18, <4>1
      <4>2. CASE New(x)
        <5>1. x.name = n + 1
          BY <1>19, <4>2
        <5>2. ~(x.name < q.name)
          BY <1>1, <3>1, <5>1
        <5> QED BY <5>2
      <4> QED BY <1>22, <4>1, <4>2
    <3>3. x.name < q.name /\ x.type # "Ineff_Dir_Tile_Gemm" => \A e \in O : e < space
      <4>1. CASE Old(x)
        BY <1>18, <4>1
      <4>2. CASE New(x)
        <5>1. x.name = n + 1
          BY <1>19, <4>2
        <5>2. ~(x.name < q.name)
          BY <1>1, <3>1, <5>1
        <5> QED BY <5>2
      <4> QED BY <1>22, <4>1, <4>2
    <3> HIDE DEF F, I, O, P
    <3>4. P \cap I = {}
      BY <2>3, <3>1, <3>2
    <3>7. (x.name = q.name /\ FilterFits(x.name)) \/ (x.name < q.name /\ FilterReserved(x.name)) =>
            P \cap F = {}
      BY <2>3, <3>1, <3>2, <3>6
    <3>5. x.name < q.name /\ x.type # "Ineff_Dir_Tile_Gemm" => P \cap O = {}
      BY <2>3, <3>1, <3>3
    <3> QED BY <3>4, <3>5, <3>7
  <2> QED BY <1>22, <2>4, <2>5, <2>6
<1>23. \A m \in DOMAIN config' : RowReserved(config[m])'
  <2> TAKE m \in DOMAIN config'
  <2> QED BY <1>20, <1>21
<1>24. \A m, k \in DOMAIN config' : RowsApart(config[m], config[k])'
  <2> TAKE m, k \in DOMAIN config'
  <2> QED BY <1>20, <1>22
<1> QED BY <1>14, <1>23, <1>24

(* No other step changes what a row stands on.                              *)
LEMMA SpaciousStays ==
  ASSUME UNCHANGED <<arch, network, gen, config, layer>>, Spacious, Remembering(gen, layer)
  PROVE  Spacious' /\ Remembering(gen, layer)'
<1>1. Remembering(gen, layer)'
  BY DEF Remembering
<1>2. \A i : FitsNames(i)' <=> FitsNames(i)
  BY FitsStays
<1>3. Reserving(gen, layer) => Reserving(gen, layer)'
  <2> SUFFICES ASSUME Reserving(gen, layer) PROVE Reserving(gen, layer)'
    OBVIOUS
  <2>1. PICK n : n = layer'
    OBVIOUS
  <2>2. Reserving(gen', n)
    BY <2>1
  <2> QED BY <2>1, <2>2, ReservingStays
<1>4. \A q : /\ FilterBytes(q)' = FilterBytes(q) /\ OfmapBytes(q)' = OfmapBytes(q)
             /\ InputBytes(q)' = InputBytes(q)
  <2> TAKE q
  <2>1. InputIn(q, gen'.ifmap_base_addr_array[q.name]) = InputIn(q, gen.ifmap_base_addr_array[q.name])
    OBVIOUS
  <2> QED BY <2>1, BytesStay
<1>5. \A i : (FilterFits(i)' <=> FilterFits(i)) /\ (FilterReserved(i)' <=> FilterReserved(i))
  BY FilterStays
<1>6. \A q : RowReserved(q)' <=> RowReserved(q)
  BY <1>4, <1>5 DEF RowReserved
<1>7. \A p, q : RowsApart(p, q)' <=> RowsApart(p, q)
  BY <1>4, <1>5 DEF RowsApart
<1>8. Spacious'
  <2> SUFFICES ASSUME (\A i \in 1 .. layer : FitsNames(i))'
               PROVE  /\ Reserving(gen, layer)'
                      /\ \A n \in DOMAIN config' : RowReserved(config[n])'
                      /\ \A m, n \in DOMAIN config' : RowsApart(config[m], config[n])'
    BY DEF Spacious
  <2>1. \A i \in 1 .. layer : FitsNames(i)
    BY <1>2
  <2>2. /\ Reserving(gen, layer)
        /\ \A n \in DOMAIN config : RowReserved(config[n])
        /\ \A m, n \in DOMAIN config : RowsApart(config[m], config[n])
    BY <2>1 DEF Spacious
  <2>3. \A n \in DOMAIN config' : RowReserved(config[n])'
    <3> TAKE n \in DOMAIN config'
    <3>1. PICK q : q = config'[n]
      OBVIOUS
    <3>2. RowReserved(q)
      BY <2>2, <3>1
    <3> QED BY <1>6, <3>1, <3>2
  <2>4. \A m, n \in DOMAIN config' : RowsApart(config[m], config[n])'
    <3> TAKE m, n \in DOMAIN config'
    <3>1. PICK p, q : p = config'[m] /\ q = config'[n]
      OBVIOUS
    <3>2. RowsApart(p, q)
      BY <2>2, <3>1
    <3> QED BY <1>7, <3>1, <3>2
  <2> QED BY <1>3, <2>2, <2>3, <2>4
<1> QED BY <1>1, <1>8

(* At the beginning there are no tensors.                                  *)
LEMMA SpaciousInit == Init => Spacious /\ Remembering(gen, layer)
<1> SUFFICES ASSUME Init PROVE Spacious /\ Remembering(gen, layer)
  OBVIOUS
<1>1. gen.filter_base_addr_array = << >> /\ config = << >> /\ layer = 0
  BY DEF Init, Blank
<1>2. Vectors(network, 0) = {}
  BY DEF Vectors
<1>3. Reserving(gen, layer)
  BY <1>1, <1>2 DEF Reserving
<1>4. Remembering(gen, layer)
  BY <1>1 DEF Remembering
<1>5. DOMAIN config = {}
  BY <1>1
<1> QED BY <1>3, <1>4, <1>5 DEF Spacious

Roomy == Translated /\ Spacious /\ Remembering(gen, layer)

(* Every step keeps the inductive invariant.                               *)
LEMMA RoomyStep == Roomy /\ [Next]_vars => Roomy'
<1> SUFFICES ASSUME Roomy, [Next]_vars PROVE Roomy'
  OBVIOUS
<1>1. Translated /\ Translated' /\ Spacious /\ Remembering(gen, layer)
  BY TranslatedStep DEF Roomy
<1>2. ASSUME ConfigLayer PROVE Roomy'
  BY <1>1, <1>2, SpaciousLayer DEF Roomy
<1>3. ASSUME UNCHANGED <<arch, network, gen, config, layer>> PROVE Roomy'
  BY <1>1, <1>3, SpaciousStays DEF Roomy
<1>4. ASSUME SetVariable PROVE Roomy'
  BY <1>3, <1>4 DEF SetVariable
<1>5. ASSUME ComputeStep PROVE Roomy'
  BY <1>3, <1>5 DEF ComputeStep
<1>6. ASSUME EndLayer PROVE Roomy'
  BY <1>3, <1>6 DEF EndLayer
<1>7. ASSUME UNCHANGED vars PROVE Roomy'
  BY <1>3, <1>7 DEF vars
<1> QED BY <1>2, <1>4, <1>5, <1>6, <1>7 DEF Next, Terminated

(* A result in new space lies on no tensor in use, whatever the network: its *)
(* layer's own inputs, and everything that the layers before it read and     *)
(* write, except for what nothing reserves.                                  *)
THEOREM OfmapFreshHolds == Spec => []OfmapFresh
<1>1. Init => Roomy
  BY TranslatedInit, SpaciousInit DEF Roomy
<1>2. Roomy /\ [Next]_vars => Roomy'
  BY RoomyStep
<1>3. Roomy => OfmapFresh
  <2> SUFFICES ASSUME Roomy, \A i \in 1 .. layer : FitsNames(i),
                      NEW m \in DOMAIN config, NEW n \in DOMAIN config
               PROVE  RowsApart(config[m], config[n])
    BY DEF OfmapFresh, RowsApart
  <2> QED BY DEF Roomy, Spacious
<1> QED BY <1>1, <1>2, <1>3, PTL DEF Spec

-----------------------------------------------------------------------------
(* The rows of the configuration are what the lemmas above ask for.        *)
RowShaped(a, q) ==
  /\ q.type \in {"Conv", "Ineff_Conv"} => Dimensions(q) /\ WindowInside(q)
  /\ q.type = "Dir_Tile_Gemm" =>
       /\ Dimensions(q) /\ TileShaped(q)
       /\ q.filter_height <= a.systolic_height /\ q.filter_width <= a.systolic_width
  /\ q.type = "Ineff_Dir_Tile_Gemm" =>
       /\ Dimensions(q) /\ TileShaped(q)
       /\ q.filter \in Nat /\ q.ifmap \in Nat /\ q.ofmap \in Nat
RowsShaped(a, rows) == \A n \in DOMAIN rows : RowShaped(a, rows[n])

(* A tile is no larger than the shape that its product is cut in.          *)
LEMMA TileWithinShape ==
  ASSUME NEW p, NEW shape, Sized(p, shape), NEW m \in 0 .. NumberOfTiles(p, shape) - 1
  PROVE  /\ SizeAt(p, shape, m).w <= shape.width
         /\ SizeAt(p, shape, m).f <= shape.filter_width
<1> DEFINE I == BandsOf(p, shape)
           J == DepthsOf(p, shape)
           K == ColumnsOf(p, shape)
<1>1. I \in Pos /\ J \in Pos /\ K \in Pos /\ m \in 0 .. I * J * K - 1
  BY CountsOfTiles DEF NumberOfTiles
<1> HIDE DEF I, J, K
<1>2. Depth(J, K, m) \in 0 .. J - 1 /\ Column(K, m) \in 0 .. K - 1
  BY <1>1, NumberOfDigits
<1>3. ASSUME NEW step \in Pos, NEW whole \in Pos, NEW n \in 0 .. CeilDiv(whole, step) - 1
      PROVE  Part(n, step, whole) <= step
  BY PartSize
<1>4. /\ Part(Depth(J, K, m), shape.width, p.ifmap_width) <= shape.width
      /\ Part(Column(K, m), shape.filter_width, p.filter_width) <= shape.filter_width
  <2>1. /\ J = CeilDiv(p.ifmap_width, shape.width)
        /\ K = CeilDiv(p.filter_width, shape.filter_width)
    BY DEF J, K, DepthsOf, ColumnsOf
  <2> QED BY <1>2, <1>3, <2>1 DEF Sized
<1> QED BY <1>4 DEF SizeAt, TileSize, J, K

(* What a tile keeps of the row it is cut from.                            *)
LEMMA AtFields ==
  ASSUME NEW a, NEW S, NEW p \in RowIn(S), NEW tile
  PROVE  LET at == At(a, p, tile)
         IN /\ DOMAIN at = {"name", "type", "ifmap_height", "ifmap_width", "filter_height",
                            "filter_width", "filter_depth", "filter_num", "stride", "ifmap",
                            "filter", "ofmap"}
            /\ at.ifmap_height = tile.size.h /\ at.filter_depth = 1 /\ at.filter_num = 1
            /\ at.stride = 1
<1> DEFINE at == At(a, p, tile)
<1>1. at = [p EXCEPT !.ifmap = @ + tile.offset.ifmap * a.element_unit,
                     !.filter = @ + tile.offset.filter * a.element_unit,
                     !.ofmap = @ + tile.offset.ofmap * a.element_unit,
                     !.ifmap_height = tile.size.h, !.filter_depth = 1, !.filter_num = 1,
                     !.stride = 1]
  BY DEF At
<1>2. DOMAIN p = {"name", "type", "ifmap_height", "ifmap_width", "filter_height",
                  "filter_width", "filter_depth", "filter_num", "stride", "ifmap",
                  "filter", "ofmap"}
  BY DEF RowIn
<1> HIDE DEF at
<1>3. /\ DOMAIN at = DOMAIN p /\ at.ifmap_height = tile.size.h /\ at.filter_depth = 1
      /\ at.filter_num = 1 /\ at.stride = 1
  BY <1>1, <1>2
<1> QED BY <1>2, <1>3 DEF at

(* The tiles of a product have windows of one element.                     *)
LEMMA GemmRowsShaped ==
  ASSUME NEW a \in Arch, NEW p \in RowIn(Nat)
  PROVE  RowsShaped(a, GemmTranslation(a, p))
<1> DEFINE tiles_ == Tiles(p, GemmShape(a, p))
           rows == GemmTranslation(a, p)
<1>1. p.ifmap_height \in Pos /\ p.ifmap_width \in Pos /\ p.filter_width \in Pos
  BY DEF RowIn
<1>2. PICK N \in Nat : /\ DOMAIN tiles_ = 1 .. N
                       /\ \A n \in 1 .. N : /\ tiles_[n].size.h \in Pos
                                            /\ tiles_[n].size.w \in Pos
                                            /\ tiles_[n].size.f \in Pos
  <2>1. /\ GemmShape(a, p).height \in Pos /\ GemmShape(a, p).width \in Pos
        /\ GemmShape(a, p).filter_width \in Pos
    BY <1>1, GemmShapeSized
  <2> QED BY <1>1, <2>1, TilesSized
<1>3. rows = [n \in DOMAIN tiles_ |->
               [At(a, p, tiles_[n]) EXCEPT !.type = "Conv", !.ifmap_width = 1,
                  !.filter_height = 1, !.filter_width = 1,
                  !.filter_depth = tiles_[n].size.w, !.filter_num = tiles_[n].size.f]]
  BY DEF GemmTranslation
<1> HIDE DEF tiles_, rows
<1>4. ASSUME NEW n \in 1 .. N
      PROVE  RowShaped(a, rows[n])
  <2> DEFINE q == rows[n]
             tile == tiles_[n]
             at == At(a, p, tile)
  <2>1. q = [at EXCEPT !.type = "Conv", !.ifmap_width = 1, !.filter_height = 1,
                       !.filter_width = 1, !.filter_depth = tile.size.w,
                       !.filter_num = tile.size.f]
    BY <1>2, <1>3
  <2>2. /\ DOMAIN at = {"name", "type", "ifmap_height", "ifmap_width", "filter_height",
                        "filter_width", "filter_depth", "filter_num", "stride", "ifmap",
                        "filter", "ofmap"}
        /\ at.ifmap_height = tile.size.h /\ at.stride = 1
    BY AtFields
  <2>3. tile.size.h \in Pos /\ tile.size.w \in Pos /\ tile.size.f \in Pos
    BY <1>2
  <2> HIDE DEF q, at, tile
  <2>4. /\ q.type = "Conv" /\ q.ifmap_width = 1 /\ q.filter_height = 1 /\ q.filter_width = 1
        /\ q.filter_depth = tile.size.w /\ q.filter_num = tile.size.f
        /\ q.ifmap_height = tile.size.h /\ q.stride = 1
    BY <2>1, <2>2
  <2>5. 1 \in Pos /\ \A x \in Pos : 1 <= x
    BY DEF Pos
  <2>6. Dimensions(q) /\ WindowInside(q)
    BY <2>3, <2>4, <2>5 DEF Dimensions, WindowInside
  <2> QED BY <2>4, <2>6 DEF RowShaped, q
<1>5. DOMAIN rows = 1 .. N
  BY <1>2, <1>3
<1>6. RowsShaped(a, rows)
  BY <1>4, <1>5 DEF RowsShaped
<1> QED BY <1>6 DEF rows

(* Those of a direct product fit the array.                                *)
LEMMA DirGemmRowsShaped ==
  ASSUME NEW a \in Arch, NEW p \in RowIn(Nat)
  PROVE  RowsShaped(a, DirGemmComputation(a, p))
<1> DEFINE shape == DirGemmShape(a, p)
           N == NumberOfTiles(p, shape)
           tiles_ == Tiles(p, shape)
           rows == DirGemmComputation(a, p)
<1>1. Sized(p, shape)
  BY DirGemmShapeSized DEF Sized, RowIn
<1>2. shape.width = a.systolic_height /\ shape.filter_width = a.systolic_width
  BY DEF DirGemmShape
<1>3. rows = [n \in DOMAIN tiles_ |->
               [At(a, p, tiles_[n]) EXCEPT !.type = "Dir_Tile_Gemm",
                  !.ifmap_width = tiles_[n].size.w, !.filter_height = tiles_[n].size.w,
                  !.filter_width = tiles_[n].size.f]]
  BY DEF DirGemmComputation
<1> HIDE DEF shape, rows
<1>4. N \in Pos /\ tiles_ = [n \in 1 .. N |-> [size |-> SizeAt(p, shape, n - 1),
                                             offset |-> OffsetAt(p, shape, n - 1)]]
  BY <1>1, CountsOfTiles, TilesPlaced
<1> HIDE DEF N, tiles_
<1>5. ASSUME NEW n \in 1 .. N
      PROVE  RowShaped(a, rows[n])
  <2> DEFINE q == rows[n]
             size == SizeAt(p, shape, n - 1)
             tile == tiles_[n]
             at == At(a, p, tile)
  <2>1. tile.size = size /\ n - 1 \in 0 .. N - 1
    BY <1>4 DEF Pos
  <2>2. /\ size.h \in Pos /\ size.w \in Pos /\ size.f \in Pos
        /\ size.w <= shape.width /\ size.f <= shape.filter_width
    BY <1>1, <2>1, SizesAt, TileWithinShape DEF N
  <2>3. q = [at EXCEPT !.type = "Dir_Tile_Gemm", !.ifmap_width = tile.size.w,
                       !.filter_height = tile.size.w, !.filter_width = tile.size.f]
    BY <1>3, <1>4
  <2>4. /\ DOMAIN at = {"name", "type", "ifmap_height", "ifmap_width", "filter_height",
                        "filter_width", "filter_depth", "filter_num", "stride", "ifmap",
                        "filter", "ofmap"}
        /\ at.ifmap_height = tile.size.h /\ at.filter_depth = 1 /\ at.filter_num = 1
        /\ at.stride = 1
    BY AtFields
  <2> HIDE DEF q, at, tile, size
  <2>5. /\ q.type = "Dir_Tile_Gemm" /\ q.ifmap_width = size.w /\ q.filter_height = size.w
        /\ q.filter_width = size.f /\ q.filter_depth = 1 /\ q.filter_num = 1
        /\ q.ifmap_height = size.h /\ q.stride = 1
    BY <2>1, <2>3, <2>4
  <2>6. Dimensions(q) /\ TileShaped(q)
    BY <2>2, <2>5 DEF Dimensions, TileShaped, Pos
  <2> QED BY <1>2, <2>2, <2>5, <2>6 DEF RowShaped, q
<1>6. DOMAIN rows = 1 .. N
  BY <1>3, <1>4
<1>7. RowsShaped(a, rows)
  BY <1>5, <1>6 DEF RowsShaped
<1> QED BY <1>7 DEF rows

(* A product that is not cut has the shape of a tile.                      *)
LEMMA IneffDirGemmRowsShaped ==
  ASSUME NEW a, NEW p \in RowIn(Nat)
  PROVE  RowsShaped(a, IneffDirGemmComputation(p))
<1> DEFINE q == [p EXCEPT !.type = "Ineff_Dir_Tile_Gemm", !.filter_height = p.ifmap_width,
                          !.filter_depth = 1, !.filter_num = 1, !.stride = 1]
<1>1. /\ q.type = "Ineff_Dir_Tile_Gemm" /\ q.ifmap_width = p.ifmap_width
      /\ q.filter_height = p.ifmap_width /\ q.filter_width = p.filter_width
      /\ q.filter_depth = 1 /\ q.filter_num = 1 /\ q.ifmap_height = p.ifmap_height
      /\ q.stride = 1 /\ q.ifmap = p.ifmap /\ q.filter = p.filter /\ q.ofmap = p.ofmap
  BY DEF RowIn
<1>2. IneffDirGemmComputation(p) = <<q>>
  BY DEF IneffDirGemmComputation
<1> HIDE DEF q
<1>3. /\ p.ifmap_width \in Pos /\ p.filter_width \in Pos /\ p.ifmap_height \in Pos /\ 1 \in Pos
      /\ p.ifmap \in Nat /\ p.filter \in Nat /\ p.ofmap \in Nat
  BY DEF RowIn, Pos
<1>4. RowShaped(a, q)
  BY <1>1, <1>3 DEF RowShaped, Dimensions, TileShaped
<1>5. \A n \in DOMAIN <<q>> : <<q>>[n] = q
  OBVIOUS
<1> QED BY <1>2, <1>4, <1>5 DEF RowsShaped

(* A vector's bands are none of these.                                     *)
LEMMA GemvRowsShaped ==
  ASSUME NEW a, NEW p \in RowIn(Nat), p.type = "Gemv", NEW unassigned
  PROVE  RowsShaped(a, GemvTranslation(a, p, unassigned))
<1> DEFINE rows == GemvTranslation(a, p, unassigned)
           bands == CeilDiv(p.ifmap_height, BandHeight(a, p))
<1>1. DOMAIN rows = 1 .. bands
  BY DEF GemvTranslation
<1>2. \A n \in 1 .. bands : rows[n].type = "Gemv"
  <2>1. "type" \in DOMAIN p
    BY DEF RowIn
  <2> HIDE DEF bands
  <2> QED BY <2>1 DEF GemvTranslation, bands
<1> HIDE DEF rows, bands
<1>3. RowsShaped(a, rows)
  BY <1>1, <1>2 DEF RowsShaped, RowShaped
<1> QED BY <1>3 DEF rows

(* The rows of the next layer are so shaped.                               *)
LEMMA NextShaped ==
  ASSUME NEW a \in Arch, NEW net \in Networks, NEW i \in DOMAIN net,
         NEW g, NEW first, NEW unassigned,
         Resolved(net, i, AddressesOf(a, g, net[i], first).row)
  PROVE  RowsShaped(a, ConfigUpdate(a, g, net[i], first, unassigned).rows)
<1> DEFINE l == net[i]
           p == AddressesOf(a, g, l, first).row
           rows == ConfigUpdate(a, g, l, first, unassigned).rows
<1>1. l \in Layer /\ (l.type \in Windowed => WindowInside(l))
  BY NetworkAssumption
<1>2. p \in RowIn(Nat) /\ p.type = l.type
  BY ResolvedFields DEF Resolved
<1>3. rows = CASE l.type \in {"Gemm", "Im2col_conv"} -> GemmTranslation(a, p)
               [] l.type = "Gemv" -> GemvTranslation(a, p, unassigned)
               [] l.type = "Dir_Gemm" -> DirGemmComputation(a, p)
               [] l.type = "Ineff_Dir_Gemm" -> IneffDirGemmComputation(p)
               [] OTHER -> <<p>>
  BY DEF ConfigUpdate, AddressesOf
<1>4. l.type \in {"Conv", "Ineff_Conv"} => WindowInside(p)
  <2> SUFFICES ASSUME l.type \in {"Conv", "Ineff_Conv"} PROVE WindowInside(p)
    OBVIOUS
  <2>1. AsGemm(l) = l
    BY DEF AsGemm
  <2>2. /\ l.ifmap_height = p.ifmap_height /\ l.ifmap_width = p.ifmap_width
        /\ l.filter_height = p.filter_height /\ l.filter_width = p.filter_width
    BY <2>1, ResolvedFields
  <2> QED BY <1>1, <2>2 DEF WindowInside, Windowed
<1>5. Dimensions(p)
  BY <1>2 DEF RowIn, Dimensions
<1>6. l.type \in Types
  BY <1>1 DEF Layer
<1> HIDE DEF l, p, rows
<1>7. CASE l.type \in {"Gemm", "Im2col_conv"}
  <2>1. rows = GemmTranslation(a, p)
    BY <1>3, <1>7
  <2> QED BY <1>2, <2>1, GemmRowsShaped DEF rows, l
<1>8. CASE l.type = "Gemv"
  <2>1. rows = GemvTranslation(a, p, unassigned)
    BY <1>3, <1>8
  <2> QED BY <1>2, <1>8, <2>1, GemvRowsShaped DEF rows, l
<1>9. CASE l.type = "Dir_Gemm"
  <2>1. rows = DirGemmComputation(a, p)
    BY <1>3, <1>9
  <2> QED BY <1>2, <2>1, DirGemmRowsShaped DEF rows, l
<1>10. CASE l.type = "Ineff_Dir_Gemm"
  <2>1. rows = IneffDirGemmComputation(p)
    BY <1>3, <1>10
  <2> QED BY <1>2, <2>1, IneffDirGemmRowsShaped DEF rows, l
<1>11. CASE l.type \in {"Conv", "Ineff_Conv", "Pool", "Other"}
  <2>1. rows = <<p>>
    BY <1>3, <1>11
  <2>2. RowShaped(a, p)
    BY <1>2, <1>4, <1>5, <1>11 DEF RowShaped
  <2>3. \A n \in DOMAIN <<p>> : <<p>>[n] = p
    OBVIOUS
  <2>4. RowsShaped(a, rows)
    BY <2>1, <2>2, <2>3 DEF RowsShaped
  <2> QED BY <2>4 DEF rows, l
<1> QED BY <1>6, <1>7, <1>8, <1>9, <1>10, <1>11 DEF Types

(* All rows of the configuration are so shaped.                            *)
Shaped == Translated /\ RowsShaped(arch, config)

(* ConfigLayer appends rows that are, nothing else changes them.           *)
LEMMA ShapedStep == Shaped /\ [Next]_vars => Shaped'
<1> SUFFICES ASSUME Shaped, [Next]_vars PROVE Shaped'
  OBVIOUS
<1>0. Translated /\ Translated' /\ Configured /\ Arrays(gen, network, layer)
  BY TranslatedStep DEF Shaped, Translated
<1>1. ASSUME ConfigLayer PROVE Shaped'
  <2>1. PICK unassigned : Translates(PlacedNext, DoneNext(unassigned).rows)
    BY <1>0, <1>1, LayerTranslates
  <2> DEFINE new == DoneNext(unassigned).rows
  <2>2. layer + 1 \in DOMAIN network /\ network \in Networks /\ arch \in Arch
    <3>1. network \in Seq(Layer)
      BY <1>0, NetworkAssumption DEF Configured
    <3> QED BY <1>0, <1>1, <3>1, ArchAssumption DEF Configured, ConfigLayer
  <2>3. Resolved(network, layer + 1, PlacedNext) /\ config' = config \o new /\ RowsOK(new)
    BY <2>1 DEF Translates
  <2>4. RowsShaped(arch, new)
    <3> DEFINE i == layer + 1
               first == layer = 0
    <3>1. Resolved(network, i, AddressesOf(arch, gen, network[i], first).row)
      BY <2>3 DEF PlacedNext
    <3>2. i \in DOMAIN network
      BY <2>2
    <3> HIDE DEF i, first
    <3>3. RowsShaped(arch, ConfigUpdate(arch, gen, network[i], first, unassigned).rows)
      BY <2>2, <3>1, <3>2, NextShaped
    <3> QED BY <3>3 DEF DoneNext, i, first
  <2> HIDE DEF new
  <2>5. PICK S : config \in Seq(S)
    BY <1>0, RowsAreSequence DEF Configured
  <2>6. PICK U : new \in Seq(U)
    BY <2>3, RowsAreSequence
  <2>7. config \in Seq(S \cup U) /\ new \in Seq(S \cup U)
    BY <2>5, <2>6
  <2>8. RowsShaped(arch, config')
    <3> SUFFICES ASSUME NEW n \in DOMAIN config' PROVE RowShaped(arch, config'[n])
      BY DEF RowsShaped
    <3>1. CASE n \in DOMAIN config
      <4>1. config'[n] = config[n]
        BY <2>3, <2>7, <3>1
      <4> QED BY <3>1, <4>1 DEF Shaped, RowsShaped
    <3>2. CASE n \notin DOMAIN config
      <4>1. n - Len(config) \in DOMAIN new /\ config'[n] = new[n - Len(config)]
        BY <2>3, <2>7, <3>2
      <4> QED BY <2>4, <4>1 DEF RowsShaped
    <3> QED BY <3>1, <3>2
  <2>9. arch' = arch
    BY <1>1 DEF ConfigLayer
  <2>10. RowsShaped(arch, config)'
    BY <2>8, <2>9
  <2> QED BY <1>0, <2>10 DEF Shaped
<1>2. ASSUME UNCHANGED <<arch, config>> PROVE Shaped'
  <2>1. RowsShaped(arch, config)' = RowsShaped(arch, config)
    BY <1>2
  <2> QED BY <1>0, <2>1 DEF Shaped
<1>3. ASSUME SetVariable PROVE Shaped'
  BY <1>2, <1>3 DEF SetVariable
<1>4. ASSUME ComputeStep PROVE Shaped'
  BY <1>2, <1>4 DEF ComputeStep
<1>5. ASSUME EndLayer PROVE Shaped'
  BY <1>2, <1>5 DEF EndLayer
<1>6. ASSUME UNCHANGED vars PROVE Shaped'
  BY <1>2, <1>6 DEF vars
<1> QED BY <1>1, <1>3, <1>4, <1>5, <1>6 DEF Next, Terminated

-----------------------------------------------------------------------------
(* The tiles written so far and the one that is filled hold together what   *)
(* the steps so far have touched, and the address 0 at most besides.       *)
Parts == {"filter", "ifmap", "ofmap"}
Contained(s, part) == UNION {s[n][part] : n \in DOMAIN s}
Held(part) == Contained(tiles, part) \cup dram[part]
Gathered ==
  stage # "config" =>
    /\ \A s \in 0 .. t - 1 : Live(arch, r, s)
    /\ \A part \in Parts : /\ Touched(arch, r, t, part) \subseteq Held(part)
                           /\ Held(part) \subseteq {0} \cup Touched(arch, r, t, part)

(* One more step touches what it touches.                                  *)
LEMMA TouchedOneMore ==
  ASSUME NEW a, NEW q, NEW T \in Nat, NEW part
  PROVE  /\ Touched(a, q, T + 1, part) = Touched(a, q, T, part) \cup StepAccess(a, q, T)[part]
         /\ Touched(a, q, 0, part) = {}
<1>1. 0 .. (T + 1) - 1 = (0 .. T - 1) \cup {T} /\ 0 .. 0 - 1 = {}
  OBVIOUS
<1> QED BY <1>1 DEF Touched

(* A tile more is held, with 0 for what is empty in it.                    *)
LEMMA HeldOneMore ==
  ASSUME NEW S, NEW s \in Seq(S), NEW d, NEW part \in Parts, NEW u,
         u = Append(s, Access(OrZero(d.filter), OrZero(d.ifmap), OrZero(d.ofmap)))
  PROVE  Contained(u, part) = Contained(s, part) \cup OrZero(d[part])
<1> DEFINE tile == Access(OrZero(d.filter), OrZero(d.ifmap), OrZero(d.ofmap))
<1>1. tile[part] = OrZero(d[part]) /\ u = Append(s, tile)
  BY DEF Access, Parts
<1> HIDE DEF tile
<1>2. /\ DOMAIN u = (DOMAIN s) \cup {Len(s) + 1} /\ u[Len(s) + 1] = tile
      /\ \A n \in DOMAIN s : u[n] = s[n]
  <2>1. s \in Seq(S \cup {tile})
    OBVIOUS
  <2> QED BY <1>1, <2>1
<1>3. Contained(u, part) = Contained(s, part) \cup tile[part]
  BY <1>2 DEF Contained
<1> QED BY <1>1, <1>3

LEMMA WrittenOneMore ==
  ASSUME NEW S, tiles \in Seq(S), NEW d, NEW cycles, NEW steps, TileOutput(d, cycles, steps),
         NEW part \in Parts
  PROVE  Contained(tiles', part) = Contained(tiles, part) \cup OrZero(d[part])
<1> DEFINE s == tiles
           u == tiles'
<1>1. s \in Seq(S) /\ u = Append(s, Access(OrZero(d.filter), OrZero(d.ifmap), OrZero(d.ofmap)))
  BY DEF TileOutput, Written
<1> HIDE DEF s, u
<1>2. Contained(u, part) = Contained(s, part) \cup OrZero(d[part])
  BY <1>1, HeldOneMore, ZenonT(30)
<1> QED BY <1>2 DEF s, u

(* A tile and a step make up a tile.                                       *)
LEMMA UnionParts ==
  ASSUME NEW d, NEW next, NEW part \in Parts
  PROVE  Union(d, next)[part] = d[part] \cup next[part] /\ Nothing[part] = {}
BY DEF Union, Nothing, Access, Parts

(* Steps add to what is held, ends of tiles move it.                       *)
LEMMA GatheredStep ==
  Configured /\ Begun /\ Counted /\ Gathered /\ [Next]_vars => Gathered'
<1> SUFFICES ASSUME Configured, Begun, Counted, Gathered, [Next]_vars PROVE Gathered'
  OBVIOUS
<1>0. PICK S : tiles \in Seq(S)
  BY DEF Counted
<1>1. ASSUME ConfigLayer PROVE Gathered'
  BY <1>1 DEF ConfigLayer, Gathered
<1>2. ASSUME SetVariable PROVE Gathered'
  <2>1. stage # "computing" /\ t' = 0 /\ tiles' = << >> /\ dram' = dram
    BY <1>2 DEF SetVariable
  <2>2. dram' = Nothing
    BY <2>1 DEF Begun
  <2>3. ASSUME NEW part \in Parts
        PROVE  Held(part)' = {}
    <3>1. dram'[part] = {}
      BY <2>2, UnionParts
    <3>2. DOMAIN tiles' = {}
      BY <2>1
    <3> QED BY <3>1, <3>2 DEF Held, Contained
  <2>4. \A part \in Parts : Touched(arch', r', 0, part) = {}
    BY TouchedOneMore
  <2>5. \A part \in Parts : Touched(arch, r, t, part)' = {}
    BY <2>1, <2>4
  <2>6. \A s \in 0 .. t' - 1 : Live(arch', r', s)
    BY <2>1
  <2> QED BY <2>3, <2>5, <2>6 DEF Gathered
<1>3. ASSUME ComputeStep PROVE Gathered'
  <2> DEFINE q == r
             next == StepAccess(arch, q, t)
             F(part) == Contained(tiles, part)
             G(part) == Contained(tiles', part)
             X(part) == Touched(arch, q, t, part)
  <2>1. /\ stage = "computing" /\ t' = t + 1 /\ t \in Nat
        /\ arch' = arch /\ config' = config /\ row' = row /\ Live(arch, q, t)
    BY <1>3 DEF ComputeStep, Configured
  <2>2. r' = q
    BY <2>1 DEF r
  <2>3. \A s \in 0 .. t' - 1 : Live(arch', r', s)
    <3>1. \A s \in 0 .. t - 1 : Live(arch, q, s)
      BY <2>1 DEF Gathered
    <3> TAKE s \in 0 .. t' - 1
    <3>2. s \in 0 .. t - 1 \/ s = t
      BY <2>1
    <3> QED BY <2>1, <2>2, <3>1, <3>2
  <2>4. ASSUME NEW part \in Parts
        PROVE  Touched(arch, r, t, part)' = X(part) \cup next[part]
    <3>1. Touched(arch, q, t + 1, part) = X(part) \cup next[part]
      <4> DEFINE s == t
                 p == r
      <4>1. s \in Nat
        BY <2>1
      <4> HIDE DEF s, p
      <4>2. Touched(arch, p, s + 1, part) = Touched(arch, p, s, part) \cup StepAccess(arch, p, s)[part]
        BY <4>1, TouchedOneMore
      <4> QED BY <4>2 DEF s, p
    <3> QED BY <2>1, <2>2, <3>1
  <2>5. \A part \in Parts : /\ X(part) \subseteq F(part) \cup dram[part]
                            /\ F(part) \cup dram[part] \subseteq {0} \cup X(part)
    BY <2>1 DEF Gathered, Held
  <2>6. ASSUME NEW part \in Parts
        PROVE  /\ F(part) \cup dram[part] \cup next[part] \subseteq G(part) \cup dram'[part]
               /\ G(part) \cup dram'[part] \subseteq F(part) \cup dram[part] \cup next[part] \cup {0}
    <3>1. CASE dram' = Union(dram, next) /\ UNCHANGED tiles
      <4>1. dram'[part] = dram[part] \cup next[part]
        BY <3>1, UnionParts
      <4> QED BY <3>1, <4>1
    <3>2. CASE TileOutput(dram, pre_local_cycle + CyclesBefore(arch, q, t), t)
               /\ dram' = Union(Nothing, next)
      <4>1. dram'[part] = next[part]
        <5> HIDE DEF next
        <5>1. Union(Nothing, next)[part] = Nothing[part] \cup next[part] /\ Nothing[part] = {}
          BY UnionParts
        <5> QED BY <3>2, <5>1
      <4>2. G(part) = F(part) \cup OrZero(dram[part])
        BY <1>0, <3>2, WrittenOneMore
      <4> HIDE DEF F, G, next
      <4> QED BY <4>1, <4>2 DEF OrZero
    <3>3. CASE TileOutput(Union(dram, next), pre_local_cycle + CyclesBefore(arch, q, t), t + 1)
               /\ dram' = Nothing
      <4> DEFINE d == Union(dram, next)
      <4>1. dram'[part] = {} /\ d[part] = dram[part] \cup next[part]
        BY <3>3, UnionParts
      <4>2. TileOutput(d, pre_local_cycle + CyclesBefore(arch, q, t), t + 1)
        BY <3>3
      <4> HIDE DEF d
      <4>3. G(part) = F(part) \cup OrZero(d[part])
        BY <1>0, <4>2, WrittenOneMore
      <4> HIDE DEF F, G, next
      <4> QED BY <4>1, <4>3 DEF OrZero
    <3>4. \/ dram' = Union(dram, next) /\ UNCHANGED tiles
          \/ /\ TileOutput(dram, pre_local_cycle + CyclesBefore(arch, q, t), t)
             /\ dram' = Union(Nothing, next)
          \/ /\ TileOutput(Union(dram, next), pre_local_cycle + CyclesBefore(arch, q, t), t + 1)
             /\ dram' = Nothing
      BY <1>3 DEF ComputeStep, files
    <3> QED BY <3>1, <3>2, <3>3, <3>4
  <2>7. ASSUME NEW part \in Parts
        PROVE  /\ Touched(arch, r, t, part)' \subseteq Held(part)'
               /\ Held(part)' \subseteq {0} \cup Touched(arch, r, t, part)'
    <3>1. Held(part)' = G(part) \cup dram'[part]
      BY DEF Held
    <3> HIDE DEF F, G, X, next
    <3> QED BY <2>4, <2>5, <2>6, <3>1
  <2> QED BY <2>3, <2>7 DEF Gathered
<1>4. ASSUME EndLayer PROVE Gathered'
  <2>1. /\ stage = "computing" /\ t' = t /\ arch' = arch /\ config' = config /\ row' = row
        /\ TileOutput(dram, pre_local_cycle, t) /\ dram' = Nothing
    BY <1>4 DEF EndLayer
  <2>2. r' = r
    BY <2>1 DEF r
  <2>3. \A s \in 0 .. t' - 1 : Live(arch', r', s)
    BY <2>1, <2>2 DEF Gathered
  <2>4. ASSUME NEW part \in Parts
        PROVE  /\ Touched(arch, r, t, part)' \subseteq Held(part)'
               /\ Held(part)' \subseteq {0} \cup Touched(arch, r, t, part)'
    <3> DEFINE F == Contained(tiles, part)
               G == Contained(tiles', part)
               X == Touched(arch, r, t, part)
    <3>1. Held(part)' = G \cup dram'[part] /\ dram'[part] = {}
      BY <2>1, UnionParts DEF Held
    <3>2. G = F \cup OrZero(dram[part])
      BY <1>0, <2>1, WrittenOneMore
    <3>3. X \subseteq F \cup dram[part] /\ F \cup dram[part] \subseteq {0} \cup X
      BY <2>1 DEF Gathered, Held
    <3>4. Touched(arch, r, t, part)' = X
      BY <2>1, <2>2
    <3> HIDE DEF F, G, X
    <3> QED BY <3>1, <3>2, <3>3, <3>4 DEF OrZero
  <2> QED BY <2>3, <2>4 DEF Gathered
<1>5. ASSUME UNCHANGED vars PROVE Gathered'
  <2>1. UNCHANGED <<arch, config, row, t, stage, dram, tiles>> /\ r' = r
    BY <1>5 DEF vars, r
  <2> QED BY <2>1 DEF Gathered, Held
<1> QED BY <1>1, <1>2, <1>3, <1>4, <1>5 DEF Next, Terminated

-----------------------------------------------------------------------------
(* At the end of a row nothing is left to be written, and all its steps     *)
(* are done.                                                               *)
Collected == Shaped /\ Begun /\ Counted /\ Gathered

(* What the tiles of a row contain.                                        *)
LEMMA RowCollected ==
  ASSUME Collected, stage = "written"
  PROVE  /\ arch \in Arch /\ arch.systolic_width <= arch.systolic_height
         /\ RowShaped(arch, r) /\ Ended(arch, r, t)
         /\ Touched(arch, r, t, "filter") \subseteq Fetched(Filters)
         /\ Touched(arch, r, t, "ifmap") \subseteq Fetched(Ifmaps)
         /\ Touched(arch, r, t, "ofmap") \subseteq Fetched(Ofmaps)
         /\ Fetched(Filters) \subseteq {0} \cup Touched(arch, r, t, "filter")
         /\ Fetched(Ifmaps) \subseteq {0} \cup Touched(arch, r, t, "ifmap")
         /\ Fetched(Ofmaps) \subseteq {0} \cup Touched(arch, r, t, "ofmap")
<1>1. Configured /\ RowsShaped(arch, config)
  BY DEF Collected, Shaped, Translated
<1>2. arch \in Arch /\ arch.systolic_width <= arch.systolic_height
  BY <1>1, ArchAssumption DEF Configured
<1>3. RowShaped(arch, r)
  <2>1. row \in 1 .. Len(config) /\ RowsOK(config)
    BY <1>1 DEF Configured
  <2>2. row \in DOMAIN config
    BY <2>1, RowsAreSequence
  <2> QED BY <1>1, <2>2 DEF RowsShaped, r
<1>4. Ended(arch, r, t)
  BY <1>1 DEF Collected, Configured, Counted, Gathered, Ended
<1>5. dram = Nothing
  BY DEF Collected, Begun
<1>6. \A part \in Parts : Held(part) = Contained(tiles, part)
  BY <1>5, UnionParts DEF Held
<1>7. \A part \in Parts : /\ Touched(arch, r, t, part) \subseteq Held(part)
                          /\ Held(part) \subseteq {0} \cup Touched(arch, r, t, part)
  BY DEF Collected, Gathered
<1>8. /\ Held("filter") = Fetched(Filters) /\ Held("ifmap") = Fetched(Ifmaps)
      /\ Held("ofmap") = Fetched(Ofmaps)
  BY <1>6 DEF Parts, Contained, Fetched, Filters, Ifmaps, Ofmaps
<1> QED BY <1>2, <1>3, <1>4, <1>7, <1>8 DEF Parts

LEMMA CollectedNothingLost == Collected => NothingLost
<1> SUFFICES ASSUME Collected, stage = "written" PROVE NothingLost
  BY DEF NothingLost
<1> DEFINE a == arch
           q == r
           X(part) == Touched(a, q, t, part)
<1>1. /\ a \in Arch /\ a.systolic_width <= a.systolic_height /\ RowShaped(a, q) /\ Ended(a, q, t)
      /\ X("filter") \subseteq Fetched(Filters) /\ Fetched(Filters) \subseteq {0} \cup X("filter")
      /\ X("ifmap") \subseteq Fetched(Ifmaps) /\ Fetched(Ifmaps) \subseteq {0} \cup X("ifmap")
      /\ X("ofmap") \subseteq Fetched(Ofmaps) /\ Fetched(Ofmaps) \subseteq {0} \cup X("ofmap")
  BY RowCollected
<1>2. \A base, elements : Covering(base, elements) = Lines(a, base, 0 .. elements - 1)
  BY DEF Covering
<1>3. CASE q.type = "Conv"
  <2>1. Dimensions(q) /\ WindowInside(q) /\ OfmapElements(q) = Windows(q) * q.filter_num
    BY <1>1, <1>3 DEF RowShaped, OfmapElements
  <2>2. /\ X("filter") = Lines(a, q.filter, 0 .. FilterElements(q) - 1)
        /\ X("ifmap") = Lines(a, q.ifmap, UsedIfmap(q))
        /\ X("ofmap") = Lines(a, q.ofmap, 0 .. OfmapElements(q) - 1)
    BY <1>1, <1>3, <2>1, ConvTouched
  <2>3. /\ X("filter") = Covering(q.filter, FilterElements(q))
        /\ X("ofmap") = Covering(q.ofmap, OfmapElements(q))
    BY <1>2, <2>2
  <2> HIDE DEF a, X
  <2>4. /\ Fetched(Filters) \ {0} = Covering(q.filter, FilterElements(q)) \ {0}
        /\ Fetched(Ifmaps) \ {0} = X("ifmap") \ {0}
        /\ Covering(q.ofmap, OfmapElements(q)) \ {0} \subseteq Fetched(Ofmaps)
        /\ Fetched(Ofmaps) \ {0} \subseteq Covering(q.ofmap, OfmapElements(q))
    BY <1>1, <2>3
  <2> QED BY <1>3, <2>2, <2>4 DEF NothingLost, a
<1>4. CASE q.type = "Ineff_Conv"
  <2> SUFFICES ASSUME FoldsReach(q) PROVE NothingLost
    BY <1>4 DEF NothingLost
  <2>1. Dimensions(q) /\ WindowInside(q) /\ OfmapElements(q) = Windows(q) * q.filter_num
    BY <1>1, <1>4 DEF RowShaped, OfmapElements
  <2>2. Reaches(a, q)
    BY DEF FoldsReach, Reaches
  <2>3. /\ X("filter") = Lines(a, q.filter, 0 .. FilterElements(q) - 1)
        /\ X("ifmap") = Lines(a, q.ifmap, UsedIfmap(q))
        /\ Lines(a, q.ofmap, 0 .. OfmapElements(q) - 1) \subseteq X("ofmap")
    BY <1>1, <1>4, <2>1, <2>2, IneffTouched
  <2>4. /\ X("filter") = Covering(q.filter, FilterElements(q))
        /\ Covering(q.ofmap, OfmapElements(q)) \subseteq X("ofmap")
    BY <1>2, <2>3
  <2> HIDE DEF a, X
  <2>5. /\ Fetched(Filters) \ {0} = Covering(q.filter, FilterElements(q)) \ {0}
        /\ Fetched(Ifmaps) \ {0} = X("ifmap") \ {0}
        /\ Covering(q.ofmap, OfmapElements(q)) \ {0} \subseteq Fetched(Ofmaps)
    BY <1>1, <2>4
  <2> QED BY <1>4, <2>3, <2>5 DEF NothingLost, a
<1>5. CASE q.type = "Dir_Tile_Gemm" /\ q.filter_width <= q.ifmap_width
  <2>1. /\ Dimensions(q) /\ TileShaped(q) /\ q.filter_height <= a.systolic_height
        /\ q.filter_width <= a.systolic_width /\ OfmapElements(q) = q.ifmap_height * q.filter_width
    BY <1>1, <1>5 DEF RowShaped, OfmapElements
  <2>2. /\ Lines(a, q.filter, 0 .. FilterElements(q) - 1) \subseteq X("filter")
        /\ Lines(a, q.ifmap, 0 .. IfmapElements(q) - 1) \subseteq X("ifmap")
        /\ Lines(a, q.ofmap, 0 .. OfmapElements(q) - 1) \subseteq X("ofmap")
    BY <1>1, <1>5, <2>1, DirTouched
  <2> HIDE DEF a, X
  <2>3. /\ Covering(q.filter, FilterElements(q)) \subseteq Fetched(Filters)
        /\ Covering(q.ifmap, IfmapElements(q)) \subseteq Fetched(Ifmaps)
        /\ Covering(q.ofmap, OfmapElements(q)) \subseteq Fetched(Ofmaps)
    BY <1>1, <1>2, <2>2
  <2> QED BY <1>5, <2>3 DEF NothingLost
<1>6. CASE q.type = "Ineff_Dir_Tile_Gemm" /\ a.element_unit = 1
  <2>1. /\ Dimensions(q) /\ TileShaped(q) /\ q.filter \in Nat /\ q.ifmap \in Nat /\ q.ofmap \in Nat
        /\ OfmapElements(q) = q.ifmap_height * q.filter_width
    BY <1>1, <1>6 DEF RowShaped, OfmapElements
  <2>2. /\ Lines(a, q.filter, 0 .. FilterElements(q) - 1) \subseteq X("filter")
        /\ Lines(a, q.ifmap, 0 .. IfmapElements(q) - 1) \subseteq X("ifmap")
        /\ Lines(a, q.ofmap, 0 .. OfmapElements(q) - 1) \subseteq X("ofmap")
    BY <1>1, <1>6, <2>1, IneffDirTouched
  <2> HIDE DEF a, X
  <2>3. /\ Covering(q.filter, FilterElements(q)) \subseteq Fetched(Filters)
        /\ Covering(q.ifmap, IfmapElements(q)) \subseteq Fetched(Ifmaps)
        /\ Covering(q.ofmap, OfmapElements(q)) \subseteq Fetched(Ofmaps)
    BY <1>1, <1>2, <2>2
  <2> QED BY <1>6, <2>3 DEF NothingLost
<1> QED BY <1>3, <1>4, <1>5, <1>6 DEF NothingLost

(* Tiles contain what their row uses, however they were cut: a convolution  *)
(* exactly, the one that empties the array between folds if they run long   *)
(* enough, a direct product if it is no narrower than its result, one that  *)
(* was not cut if an element is a byte (conv_fold_parallel_computation,     *)
(* ineff_conv_fold_parallel_computation, dir_gemm_computation,              *)
(* move_reset_dram).                                                       *)
THEOREM NothingLostHolds == Spec => []NothingLost
<1>1. Init => Collected
  <2> SUFFICES ASSUME Init PROVE Collected
    OBVIOUS
  <2>1. Begun
    BY DEF Init, Begun, Sharing, TileFits
  <2>2. Gathered
    BY DEF Init, Gathered
  <2>3. RowsShaped(arch, config)
    BY DEF Init, RowsShaped
  <2> QED BY <2>1, <2>2, <2>3, TranslatedInit, CountedInit DEF Collected, Shaped
<1>2. Collected /\ [Next]_vars => Collected'
  <2> SUFFICES ASSUME Collected, [Next]_vars PROVE Collected'
    OBVIOUS
  <2>1. Configured
    BY DEF Collected, Shaped, Translated
  <2> QED BY <2>1, ShapedStep, BegunStep, CountedStep, GatheredStep DEF Collected
<1> QED BY <1>1, <1>2, CollectedNothingLost, PTL DEF Spec
=============================================================================

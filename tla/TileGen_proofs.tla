--------------------------- MODULE TileGen_proofs ---------------------------
(***************************************************************************)
(* Proofs about the tiles, for every core and every network: their sizes    *)
(* and cycles, and what the steps of a row touch.                          *)
(***************************************************************************)
EXTENDS TileGen, FiniteSetTheorems, SequenceTheorems, WellFoundedInduction, TLAPS

USE BoundaryAssumption, RangeAssumption

Pos == Nat \ {0}

-----------------------------------------------------------------------------
(* Arithmetic.                                                             *)

(* The smaller and the larger of two numbers.                              *)
LEMMA MinOfTwo ==
  ASSUME NEW x \in Int, NEW y \in Int
  PROVE  Min({x, y}) = IF x <= y THEN x ELSE y
  BY DEF Min

LEMMA MaxOfTwo ==
  ASSUME NEW x \in Int, NEW y \in Int
  PROVE  Max({x, y}) = IF x >= y THEN x ELSE y
  BY DEF Max

(* Division that rounds up.                                                *)
LEMMA CeilDivBounds ==
  ASSUME NEW x \in Pos, NEW y \in Pos
  PROVE  CeilDiv(x, y) \in Pos /\ y * (CeilDiv(x, y) - 1) < x
  BY DEF CeilDiv, Pos

LEMMA AtLeastOneBounds ==
  ASSUME NEW x \in Int, NEW limit \in Pos
  PROVE  AtLeastOne(x, limit) \in 1 .. limit
<1>1. Max({1, x}) = IF 1 >= x THEN 1 ELSE x
  BY MaxOfTwo
<1>2. Max({1, x}) \in Int /\ Max({1, x}) >= 1
  BY <1>1
<1>3. Min({Max({1, x}), limit}) = IF Max({1, x}) <= limit THEN Max({1, x}) ELSE limit
  BY <1>2, MinOfTwo DEF Pos
<1> QED BY <1>2, <1>3 DEF AtLeastOne, Pos

LEMMA Quotient ==
  ASSUME NEW x \in Int, NEW y \in Pos
  PROVE  x \div y \in Int /\ (x \in Nat => x \div y \in Nat)
  BY DEF Pos

LEMMA PosProduct ==
  ASSUME NEW x \in Pos, NEW y \in Pos
  PROVE  x * y \in Pos
  BY DEF Pos

(* The square root in the formula of the tiles' width exists: the condition  *)
(* holds for width 0 and for none above the number of elements, and where it *)
(* first fails is the width.                                               *)
LEMMA RootWidthExists ==
  ASSUME NEW a \in Arch, NEW l, l.ifmap_height \in Pos, NEW elements \in Nat
  PROVE  RootWidth(a, l, elements) \in 0 .. elements
<1> DEFINE s == a.systolic_width
           b == (1 + s) * l.ifmap_height
           fits(w) == (2 * s * w + b) * (2 * s * w + b) <= 2 * s * elements + b * b
           over == {w \in Nat : ~fits(w + 1)}
           Root(w) == fits(w) /\ ~fits(w + 1)
<1>1. s \in Pos
  BY DEF Arch, Pos
<1>2. b \in Pos
  BY <1>1 DEF Pos
<1>3. fits(0)
  <2>1. 2 * s * 0 + b = b /\ 2 * s * elements \in Nat
    BY <1>1, <1>2 DEF Pos
  <2>2. b * b \in Int
    BY <1>2 DEF Pos
  <2> HIDE DEF s, b
  <2> QED BY <2>1, <2>2
<1>4. ~fits(elements + 1)
  <2> HIDE DEF s, b
  <2> DEFINE x == 2 * s * (elements + 1)
             y == 2 * s * elements
  <2>1. x \in Nat /\ y \in Nat /\ x = y + 2 * s /\ x > y /\ x >= 1
    BY <1>1 DEF Pos
  <2> HIDE DEF x, y
  <2>2. x * x >= x
    BY <2>1
  <2>3. (x + b) * (x + b) = x * x + 2 * (x * b) + b * b /\ x * b >= 0 /\ x * b \in Int
    BY <2>1, <1>2 DEF Pos
  <2>4. (x + b) * (x + b) > y + b * b
    <3>1. x * x \in Int /\ b * b \in Int
      BY <2>1, <1>2 DEF Pos
    <3> QED BY <2>1, <2>2, <2>3, <3>1
  <2>5. (x + b) * (x + b) \in Int /\ y + b * b \in Int
    BY <2>1, <1>2 DEF Pos
  <2>6. ~((x + b) * (x + b) <= y + b * b)
    BY <2>4, <2>5
  <2> QED BY <2>6 DEF x, y
<1> HIDE DEF fits
<1>5. PICK w \in Nat : ~fits(w + 1) /\ \A v \in Nat : v < w => fits(v + 1)
  <2> DEFINE R == OpToRel(<, Nat)
  <2>1. IsWellFoundedOn(R, Nat)
    BY NatLessThanWellFounded
  <2>2. \A m, n \in Nat : m < n => <<m, n>> \in R
    BY DEF OpToRel
  <2> HIDE DEF R
  <2>3. elements \in over
    BY <1>4
  <2>4. PICK w \in over : \A v \in over : ~ (<<v, w>> \in R)
    BY <2>1, <2>3, WFMin
  <2> QED BY <2>2, <2>4
<1>6. w <= elements
  BY <1>4, <1>5
<1>7. fits(w)
  <2>1. CASE w = 0
    BY <1>3, <2>1
  <2>2. CASE w # 0
    <3>1. w - 1 \in Nat /\ w - 1 < w /\ (w - 1) + 1 = w
      BY <2>2
    <3>2. fits((w - 1) + 1)
      BY <1>5, <3>1
    <3> QED BY <3>1, <3>2
  <2> QED BY <2>1, <2>2
<1>8. RootWidth(a, l, elements) = CHOOSE v \in 0 .. elements : Root(v)
  BY DEF RootWidth, fits
<1>9. w \in 0 .. elements /\ Root(w)
  BY <1>5, <1>6, <1>7
<1> HIDE DEF Root
<1> QED BY <1>8, <1>9

-----------------------------------------------------------------------------
(* The rows of the intermediate configuration.                             *)

(* Rows and layers with addresses have any addresses.                      *)
RowIn(S) == [name : Nat, type : Types \cup {"Dir_Tile_Gemm", "Ineff_Dir_Tile_Gemm"},
             ifmap_height : Pos, ifmap_width : Pos, filter_height : Pos, filter_width : Pos,
             filter_depth : Pos, filter_num : Pos, stride : Pos,
             ifmap : S, filter : S, ofmap : S]

(* Tiles have a size, and there are finitely many of them.                 *)
LEMMA TilesSized ==
  ASSUME NEW l, l.ifmap_height \in Pos, l.ifmap_width \in Pos, l.filter_width \in Pos,
         NEW shape, shape.height \in Pos, shape.width \in Pos, shape.filter_width \in Pos
  PROVE  \E N \in Nat :
           /\ DOMAIN Tiles(l, shape) = 1 .. N
           /\ \A n \in 1 .. N : /\ Tiles(l, shape)[n].size.h \in Pos
                                /\ Tiles(l, shape)[n].size.w \in Pos
                                /\ Tiles(l, shape)[n].size.f \in Pos
<1> DEFINE I == CeilDiv(l.ifmap_height, shape.height)
           J == CeilDiv(l.ifmap_width, shape.width)
           K == CeilDiv(l.filter_width, shape.filter_width)
           Part(n, step, whole) == Min({step, whole - step * n})
           sizes == [n \in 0 .. I * J * K - 1 |->
                      [h |-> Part(n \div (J * K), shape.height, l.ifmap_height),
                       w |-> Part((n \div K) % J, shape.width, l.ifmap_width),
                       f |-> Part(n % K, shape.filter_width, l.filter_width)]]
           N == Cardinality(DOMAIN sizes)
<1>1. /\ I \in Pos /\ shape.height * (I - 1) < l.ifmap_height
      /\ J \in Pos /\ shape.width * (J - 1) < l.ifmap_width
      /\ K \in Pos /\ shape.filter_width * (K - 1) < l.filter_width
  <2> HIDE DEF sizes
  <2> QED BY CeilDivBounds
<1>2. J * K \in Pos /\ I * J * K \in Pos /\ I * J * K = I * (J * K)
  <2> HIDE DEF I, J, K
  <2>1. J * K \in Pos /\ I * J \in Pos
    BY <1>1, PosProduct
  <2>2. I * J * K \in Pos
    BY <1>1, <2>1, PosProduct
  <2>3. I * J * K = I * (J * K)
    BY <1>1 DEF Pos
  <2> QED BY <2>1, <2>2, <2>3
<1>3. N = I * J * K
  <2> HIDE DEF I, J, K
  <2>1. DOMAIN sizes = 0 .. I * J * K - 1
    OBVIOUS
  <2>2. 0 \in Int /\ I * J * K - 1 \in Int /\ ~(0 > I * J * K - 1)
    BY <1>2 DEF Pos
  <2>3. Cardinality(0 .. I * J * K - 1) = I * J * K - 1 - 0 + 1
    BY <2>2, FS_Interval
  <2> HIDE DEF sizes
  <2> QED BY <1>2, <2>1, <2>3 DEF Pos
<1>4. DOMAIN Tiles(l, shape) = 1 .. N
  BY DEF Tiles
<1>5. \A n \in 1 .. N : Tiles(l, shape)[n].size = sizes[n - 1]
  BY DEF Tiles
<1>6. ASSUME NEW step \in Pos, NEW whole \in Pos, NEW k \in Pos, step * (k - 1) < whole,
             NEW n \in 0 .. k - 1
      PROVE  Part(n, step, whole) \in Pos
  <2>1. step * n <= step * (k - 1) /\ step * n \in Nat
    BY DEF Pos
  <2>2. whole - step * n \in Pos
    BY <1>6, <2>1 DEF Pos
  <2> QED BY <2>2, MinOfTwo DEF Pos
<1> HIDE DEF Part
<1>7. ASSUME NEW n \in 1 .. N
      PROVE  sizes[n - 1].h \in Pos /\ sizes[n - 1].w \in Pos /\ sizes[n - 1].f \in Pos
  <2> HIDE DEF I, J, K, N
  <2>1. n - 1 \in 0 .. I * J * K - 1
    BY <1>2, <1>3 DEF Pos
  <2>2. (n - 1) \div (J * K) \in 0 .. I - 1
    <3>1. /\ (n - 1) \div (J * K) \in Nat
          /\ (J * K) * ((n - 1) \div (J * K)) <= n - 1
      BY <1>2, <2>1 DEF Pos
    <3>2. (J * K) * ((n - 1) \div (J * K)) < (J * K) * I
      <4>1. I * (J * K) = (J * K) * I
        BY <1>1, <1>2 DEF Pos
      <4>2. n - 1 < (J * K) * I
        BY <1>2, <2>1, <4>1 DEF Pos
      <4>3. (J * K) * ((n - 1) \div (J * K)) \in Nat /\ (J * K) * I \in Nat
        BY <1>1, <1>2, <3>1 DEF Pos
      <4> QED BY <2>1, <3>1, <4>2, <4>3
    <3> HIDE <1>3
    <3>3. (n - 1) \div (J * K) < I
      BY <1>1, <1>2, <3>1, <3>2 DEF Pos
    <3> QED BY <1>1, <3>1, <3>3 DEF Pos
  <2>3. ((n - 1) \div K) % J \in 0 .. J - 1
    <3>1. (n - 1) \div K \in Nat
      BY <1>1, <2>1, Quotient
    <3> QED BY <1>1, <3>1 DEF Pos
  <2>4. (n - 1) % K \in 0 .. K - 1
    BY <1>1, <2>1 DEF Pos
  <2>5. /\ sizes[n - 1].h = Part((n - 1) \div (J * K), shape.height, l.ifmap_height)
        /\ sizes[n - 1].w = Part(((n - 1) \div K) % J, shape.width, l.ifmap_width)
        /\ sizes[n - 1].f = Part((n - 1) % K, shape.filter_width, l.filter_width)
    BY <2>1
  <2> HIDE DEF sizes
  <2>6. Part((n - 1) \div (J * K), shape.height, l.ifmap_height) \in Pos
    BY <1>1, <1>6, <2>2
  <2>7. Part(((n - 1) \div K) % J, shape.width, l.ifmap_width) \in Pos
    BY <1>1, <1>6, <2>3
  <2>8. Part((n - 1) % K, shape.filter_width, l.filter_width) \in Pos
    BY <1>1, <1>6, <2>4
  <2> QED BY <2>5, <2>6, <2>7, <2>8
<1>8. N \in Nat
  <2> HIDE DEF N
  <2> QED BY <1>2, <1>3 DEF Pos
<1> HIDE DEF N, sizes
<1>9. \A n \in 1 .. N : /\ Tiles(l, shape)[n].size.h \in Pos
                        /\ Tiles(l, shape)[n].size.w \in Pos
                        /\ Tiles(l, shape)[n].size.f \in Pos
  BY <1>5, <1>7
<1> QED BY <1>4, <1>8, <1>9


(* The tiles of a product in a scratchpad that holds any number of elements *)
(* have a shape, and so do those that fill the array.                      *)
LEMMA GemmShapeSized ==
  ASSUME NEW a \in Arch, NEW l, l.ifmap_height \in Pos, l.ifmap_width \in Pos,
         l.filter_width \in Pos
  PROVE  /\ GemmShape(a, l).height \in Pos
         /\ GemmShape(a, l).width \in Pos
         /\ GemmShape(a, l).filter_width \in Pos
<1> DEFINE half == Capacity(a) \div a.element_unit
           root == Max({1, RootWidth(a, l, 2 * half)})
           narrow == l.ifmap_width < root
           fitting == AtLeastOne(Min({(2 * half) \div l.ifmap_width, l.ifmap_height}),
                                 l.ifmap_height)
           height == IF narrow THEN fitting ELSE l.ifmap_height
           width == IF narrow THEN l.ifmap_width ELSE root
           filter == AtLeastOne((half - height * width) \div (height + width), l.filter_width)
           depth == AtLeastOne((half - height * filter) \div (height + filter), l.ifmap_width)
<1>1. half \in Nat
  <2>1. Capacity(a) \in Nat /\ a.element_unit \in Pos
    BY DEF Capacity, Arch, Pos
  <2> QED BY <2>1, Quotient
<1> HIDE DEF half
<1>2. root \in Pos
  <2>1. 2 * half \in Nat
    BY <1>1
  <2>2. RootWidth(a, l, 2 * half) \in 0 .. 2 * half
    BY <2>1, RootWidthExists
  <2>3. RootWidth(a, l, 2 * half) \in Int
    BY <2>1, <2>2
  <2>4. root = IF 1 >= RootWidth(a, l, 2 * half) THEN 1 ELSE RootWidth(a, l, 2 * half)
    BY <2>3, MaxOfTwo
  <2> QED BY <2>3, <2>4 DEF Pos
<1> HIDE DEF root
<1>3. fitting \in Pos
  <2> DEFINE rows == Min({(2 * half) \div l.ifmap_width, l.ifmap_height})
  <2>1. (2 * half) \div l.ifmap_width \in Int /\ l.ifmap_height \in Int
    BY <1>1, Quotient DEF Pos
  <2>2. rows \in Int
    BY <2>1, MinOfTwo
  <2> HIDE DEF rows
  <2>3. AtLeastOne(rows, l.ifmap_height) \in 1 .. l.ifmap_height
    BY <2>2, AtLeastOneBounds
  <2>4. fitting = AtLeastOne(rows, l.ifmap_height)
    BY DEF rows
  <2> QED BY <2>3, <2>4 DEF Pos
<1> HIDE DEF fitting, narrow
<1>4. height \in Pos /\ width \in Pos
  BY <1>2, <1>3
<1> HIDE DEF height, width
<1>5. filter \in Pos
  <2>1. half - height * width \in Int /\ height + width \in Pos
    BY <1>1, <1>4 DEF Pos
  <2>2. (half - height * width) \div (height + width) \in Int
    BY <2>1, Quotient
  <2>3. filter \in 1 .. l.filter_width
    BY <2>2, AtLeastOneBounds
  <2> HIDE DEF filter
  <2> QED BY <2>3 DEF Pos
<1> HIDE DEF filter
<1>6. depth \in Pos
  <2>1. half - height * filter \in Int /\ height + filter \in Pos
    BY <1>1, <1>4, <1>5 DEF Pos
  <2>2. (half - height * filter) \div (height + filter) \in Int
    BY <2>1, Quotient
  <2>3. depth \in 1 .. l.ifmap_width
    BY <2>2, AtLeastOneBounds
  <2> HIDE DEF depth
  <2> QED BY <2>3 DEF Pos
<1> HIDE DEF depth
<1>7. GemmShape(a, l) = [height |-> height, filter_width |-> filter,
                         width |-> IF filter = l.filter_width THEN depth ELSE width]
  BY DEF GemmShape, half, root, narrow, fitting, height, width, filter, depth
<1> QED BY <1>4, <1>5, <1>6, <1>7

LEMMA DirGemmShapeSized ==
  ASSUME NEW a \in Arch, NEW l, l.ifmap_height \in Pos
  PROVE  /\ DirGemmShape(a, l).height \in Pos
         /\ DirGemmShape(a, l).width \in Pos
         /\ DirGemmShape(a, l).filter_width \in Pos
  BY DEF DirGemmShape, Arch, Pos

(* What the computation of a row relies on.                                *)
RowTypes == {"Conv", "Ineff_Conv", "Pool", "Other", "Gemv", "Dir_Tile_Gemm",
             "Ineff_Dir_Tile_Gemm"}
RowOK(q) ==
  /\ q.type \in RowTypes
  /\ q.type \in {"Dir_Tile_Gemm", "Ineff_Dir_Tile_Gemm"} =>
       /\ q.ifmap_height \in Pos /\ q.ifmap_width \in Pos
       /\ q.filter_height \in Pos /\ q.filter_width \in Pos

(* Any number of rows, of whatever they are.                               *)
RowsOK(rows) == \E N \in Nat : /\ DOMAIN rows = 1 .. N
                               /\ rows = [n \in 1 .. N |-> rows[n]]
                               /\ \A n \in 1 .. N : RowOK(rows[n])

(* A tile of a row has its fields, and the height of the tile.             *)
LEMMA AtKeeps ==
  ASSUME NEW a, NEW S, NEW q \in RowIn(S), NEW tile
  PROVE  DOMAIN At(a, q, tile) = DOMAIN q /\ At(a, q, tile).ifmap_height = tile.size.h
  BY DEF At, RowIn

(* Products become rows that can be computed.                              *)
LEMMA GemmRows ==
  ASSUME NEW a \in Arch, NEW S, NEW q \in RowIn(S)
  PROVE  RowsOK(GemmTranslation(a, q))
<1> DEFINE tiles_ == Tiles(q, GemmShape(a, q))
           rows == GemmTranslation(a, q)
<1>1. q.ifmap_height \in Pos /\ q.ifmap_width \in Pos /\ q.filter_width \in Pos
  BY DEF RowIn
<1>2. PICK N \in Nat : DOMAIN tiles_ = 1 .. N
  <2>1. /\ GemmShape(a, q).height \in Pos /\ GemmShape(a, q).width \in Pos
        /\ GemmShape(a, q).filter_width \in Pos
    BY <1>1, GemmShapeSized
  <2> QED BY <1>1, <2>1, TilesSized
<1>3. rows = [n \in DOMAIN tiles_ |->
               [At(a, q, tiles_[n]) EXCEPT !.type = "Conv", !.ifmap_width = 1,
                  !.filter_height = 1, !.filter_width = 1,
                  !.filter_depth = tiles_[n].size.w, !.filter_num = tiles_[n].size.f]]
  BY DEF GemmTranslation
<1> HIDE DEF tiles_, rows
<1>4. ASSUME NEW n \in 1 .. N
      PROVE  RowOK(rows[n])
  <2>1. DOMAIN At(a, q, tiles_[n]) = DOMAIN q /\ "type" \in DOMAIN q
    BY AtKeeps DEF RowIn
  <2>2. rows[n].type = "Conv"
    BY <1>2, <1>3, <2>1
  <2> QED BY <2>2 DEF RowOK, RowTypes
<1>5. DOMAIN rows = 1 .. N /\ rows = [n \in 1 .. N |-> rows[n]]
  BY <1>2, <1>3
<1>6. RowsOK(rows)
  BY <1>2, <1>4, <1>5 DEF RowsOK
<1> QED BY <1>6 DEF rows

LEMMA DirGemmRows ==
  ASSUME NEW a \in Arch, NEW S, NEW q \in RowIn(S)
  PROVE  RowsOK(DirGemmComputation(a, q))
<1> DEFINE tiles_ == Tiles(q, DirGemmShape(a, q))
           rows == DirGemmComputation(a, q)
<1>1. q.ifmap_height \in Pos /\ q.ifmap_width \in Pos /\ q.filter_width \in Pos
  BY DEF RowIn
<1>2. PICK N \in Nat : /\ DOMAIN tiles_ = 1 .. N
                       /\ \A n \in 1 .. N : /\ tiles_[n].size.h \in Pos
                                            /\ tiles_[n].size.w \in Pos
                                            /\ tiles_[n].size.f \in Pos
  <2>1. /\ DirGemmShape(a, q).height \in Pos /\ DirGemmShape(a, q).width \in Pos
        /\ DirGemmShape(a, q).filter_width \in Pos
    BY <1>1, DirGemmShapeSized
  <2> QED BY <1>1, <2>1, TilesSized
<1>3. rows = [n \in DOMAIN tiles_ |->
               [At(a, q, tiles_[n]) EXCEPT !.type = "Dir_Tile_Gemm",
                  !.ifmap_width = tiles_[n].size.w,
                  !.filter_height = tiles_[n].size.w, !.filter_width = tiles_[n].size.f]]
  BY DEF DirGemmComputation
<1> HIDE DEF tiles_, rows
<1>4. ASSUME NEW n \in 1 .. N
      PROVE  RowOK(rows[n])
  <2>1. DOMAIN At(a, q, tiles_[n]) = DOMAIN q
    BY AtKeeps
  <2>2. {"type", "ifmap_height", "ifmap_width", "filter_height", "filter_width"} \subseteq DOMAIN q
    BY DEF RowIn
  <2>3. At(a, q, tiles_[n]).ifmap_height = tiles_[n].size.h
    BY AtKeeps
  <2>4. /\ rows[n].type = "Dir_Tile_Gemm" /\ rows[n].ifmap_height = tiles_[n].size.h
        /\ rows[n].ifmap_width = tiles_[n].size.w /\ rows[n].filter_height = tiles_[n].size.w
        /\ rows[n].filter_width = tiles_[n].size.f
    BY <1>2, <1>3, <2>1, <2>2, <2>3
  <2> QED BY <1>2, <2>4 DEF RowOK, RowTypes
<1>5. DOMAIN rows = 1 .. N /\ rows = [n \in 1 .. N |-> rows[n]]
  BY <1>2, <1>3
<1>6. RowsOK(rows)
  BY <1>2, <1>4, <1>5 DEF RowsOK
<1> QED BY <1>6 DEF rows

(* So does a product that is not cut, and so does what is no product.      *)
LEMMA SingleRow ==
  ASSUME NEW q, RowOK(q)
  PROVE  RowsOK(<<q>>)
<1>1. /\ DOMAIN <<q>> = 1 .. 1 /\ <<q>> = [n \in 1 .. 1 |-> <<q>>[n]]
      /\ \A n \in 1 .. 1 : RowOK(<<q>>[n])
  OBVIOUS
<1> QED BY <1>1 DEF RowsOK

LEMMA IneffDirGemmRows ==
  ASSUME NEW S, NEW q \in RowIn(S)
  PROVE  RowsOK(IneffDirGemmComputation(q))
<1> DEFINE w == q.ifmap_width
           p == [q EXCEPT !.type = "Ineff_Dir_Tile_Gemm", !.filter_height = w,
                          !.filter_depth = 1, !.filter_num = 1, !.stride = 1]
<1>1. /\ p.type = "Ineff_Dir_Tile_Gemm" /\ p.ifmap_height \in Pos /\ p.ifmap_width \in Pos
      /\ p.filter_height \in Pos /\ p.filter_width \in Pos
  BY DEF RowIn
<1>2. IneffDirGemmComputation(q) = <<p>>
  BY DEF IneffDirGemmComputation
<1> HIDE DEF p
<1>3. RowOK(p)
  BY <1>1 DEF RowOK, RowTypes
<1> QED BY <1>2, <1>3, SingleRow

(* Bands are not empty, whose heights decide how many there are.           *)
LEMMA GemvRows ==
  ASSUME NEW a \in Arch, NEW S, NEW q \in RowIn(S), NEW unassigned, q.type = "Gemv",
         q.ifmap_width < Capacity(a) \div a.element_unit
  PROVE  RowsOK(GemvTranslation(a, q, unassigned))
<1> DEFINE sum == Capacity(a) \div a.element_unit
           rows == GemvTranslation(a, q, unassigned)
           bands == CeilDiv(q.ifmap_height, BandHeight(a, q))
<1>1. q.ifmap_height \in Pos /\ q.ifmap_width \in Pos
  BY DEF RowIn
<1>2. sum \in Nat
  <2>1. Capacity(a) \in Nat /\ a.element_unit \in Pos
    BY DEF Capacity, Arch, Pos
  <2> QED BY <2>1, Quotient
<1>3. BandHeight(a, q) \in Pos
  <2> HIDE DEF sum
  <2>1. sum - q.ifmap_width \in Pos /\ q.ifmap_width + 1 \in Pos
    <3>1. q.ifmap_width < sum
      BY DEF sum
    <3> QED BY <1>1, <1>2, <3>1 DEF Pos
  <2>2. CeilDiv(sum - q.ifmap_width, q.ifmap_width + 1) \in Pos
    BY <2>1, CeilDivBounds
  <2> QED BY <1>1, <2>2 DEF BandHeight, sum
<1>4. bands \in Pos
  BY <1>1, <1>3, CeilDivBounds
<1>5. DOMAIN rows = 1 .. bands /\ rows = [n \in 1 .. bands |-> rows[n]]
  BY DEF GemvTranslation
<1>6. \A n \in 1 .. bands : rows[n].type = q.type
  <2>1. "type" \in DOMAIN q
    BY DEF RowIn
  <2> HIDE DEF bands
  <2> QED BY <2>1 DEF GemvTranslation, bands
<1> HIDE DEF rows, bands
<1>7. \A n \in 1 .. bands : RowOK(rows[n])
  BY <1>6 DEF RowOK, RowTypes
<1>8. RowsOK(rows)
  BY <1>4, <1>5, <1>7 DEF RowsOK, Pos
<1> QED BY <1>8 DEF rows


(* A layer with addresses has the fields of a layer, and its type.         *)
LEMMA AsGemmIsLayer ==
  ASSUME NEW l \in Layer,
         l.type = "Im2col_conv" => WindowInside(l)
  PROVE  AsGemm(l) \in Layer /\ AsGemm(l).type = l.type
<1>1. CASE l.type # "Im2col_conv"
  BY <1>1 DEF AsGemm
<1>2. CASE l.type = "Im2col_conv"
  <2> DEFINE size == FilterSize(l)
             columns == OfmapWidth(l) * OfmapHeight(l)
  <2>1. size \in Pos
    <3>1. l.filter_width \in Pos /\ l.filter_height \in Pos /\ l.filter_depth \in Pos
      BY DEF Layer, Pos
    <3>2. l.filter_width * l.filter_height \in Pos
      BY <3>1, PosProduct
    <3> QED BY <3>1, <3>2, PosProduct DEF FilterSize
  <2>2. columns \in Pos
    <3>1. ASSUME NEW x \in Nat, NEW y \in Pos
          PROVE  CeilDiv(x, y) + 1 \in Pos
      BY DEF CeilDiv, Pos
    <3>2. /\ l.ifmap_width - l.filter_width \in Nat /\ l.ifmap_height - l.filter_height \in Nat
          /\ l.stride \in Pos
      BY <1>2 DEF Layer, Pos, WindowInside
    <3>3. OfmapWidth(l) \in Pos /\ OfmapHeight(l) \in Pos
      BY <3>1, <3>2 DEF OfmapWidth, OfmapHeight
    <3> QED BY <3>3, PosProduct
  <2>3. AsGemm(l) = [l EXCEPT !.ifmap_height = l.filter_num, !.ifmap_width = size,
                       !.filter_height = size, !.filter_width = columns,
                       !.filter_depth = 1, !.filter_num = 1, !.stride = 1]
    BY <1>2 DEF AsGemm
  <2> HIDE DEF size, columns
  <2>4. AsGemm(l) \in Layer
    <3> DEFINE l1 == [l EXCEPT !.ifmap_height = l.filter_num, !.ifmap_width = size]
               l2 == [l1 EXCEPT !.filter_height = size, !.filter_width = columns]
               l3 == [l2 EXCEPT !.filter_depth = 1]
               l4 == [l3 EXCEPT !.filter_num = 1]
               l5 == [l4 EXCEPT !.stride = 1]
    <3>1. AsGemm(l) = l5
      BY <2>3
    <3>2. l1 \in Layer
      BY <2>1 DEF Layer, Pos
    <3> HIDE DEF l1
    <3>3. l2 \in Layer
      BY <2>1, <2>2, <3>2 DEF Layer, Pos
    <3> HIDE DEF l2
    <3>4. l3 \in Layer
      BY <3>3 DEF Layer
    <3> HIDE DEF l3
    <3>5. l4 \in Layer
      BY <3>4 DEF Layer
    <3> HIDE DEF l4
    <3>6. l5 \in Layer
      BY <3>5 DEF Layer
    <3> QED BY <3>1, <3>6
  <2>5. AsGemm(l).type = l.type
    BY <2>3 DEF Layer
  <2> QED BY <2>4, <2>5
<1> QED BY <1>1, <1>2

LEMMA PlacedIsRow ==
  ASSUME NEW l \in Layer, NEW i, NEW f, NEW o
  PROVE  \E S : [l EXCEPT !.ifmap = i, !.filter = f, !.ofmap = o] \in RowIn(S)
<1> DEFINE q == [l EXCEPT !.ifmap = i, !.filter = f, !.ofmap = o]
<1>1. q \in RowIn({i, f, o})
  BY DEF RowIn, Layer, Pos
<1> QED BY <1>1


(* config_update makes rows that can be computed of every layer.           *)
LEMMA ConfigUpdateRows ==
  ASSUME NEW a \in Archs, NEW network_ \in Networks, NEW i \in DOMAIN network_,
         network_[i].type = "Gemv" => a.systolic_width = 1,
         NEW g, NEW first, NEW unassigned
  PROVE  RowsOK(ConfigUpdate(a, g, network_[i], first, unassigned).rows)
<1> DEFINE l == network_[i]
           set == IF l.type = "Gemv" THEN SetVariableConfigGemv(a, g, l, first)
                                     ELSE SetVariableConfig(a, g, l, first)
           rows == ConfigUpdate(a, g, l, first, unassigned).rows
<1>1. a \in Arch
  BY ArchAssumption
<1>2. /\ l \in Layer
      /\ l.type \in Windowed => WindowInside(l)
      /\ l.type = "Gemv" => l.ifmap_width < Capacity(a) \div a.element_unit
  <2>1. network_ \in Seq(Layer)
    BY NetworkAssumption
  <2>2. l \in Layer
    BY <2>1
  <2> QED BY <2>2, NetworkAssumption, VectorAssumption
<1> HIDE DEF l
<1>3. AsGemm(l) \in Layer /\ AsGemm(l).type = l.type
  BY <1>2, AsGemmIsLayer DEF Windowed
<1>4. CASE l.type = "Gemv"
  <2>1. PICK x, f, o : SetVariableConfigGemv(a, g, l, first).row
                         = [l EXCEPT !.ifmap = x, !.filter = f, !.ofmap = o]
    BY DEF SetVariableConfigGemv, PlaceOfmap
  <2>2. set.row = [l EXCEPT !.ifmap = x, !.filter = f, !.ofmap = o]
    BY <1>4, <2>1
  <2>3. PICK S : set.row \in RowIn(S)
    <3> HIDE DEF set, rows
    <3>1. \E S : [l EXCEPT !.ifmap = x, !.filter = f, !.ofmap = o] \in RowIn(S)
      BY <1>2, PlacedIsRow
    <3> QED BY <2>2, <3>1
  <2>4. set.row.type = "Gemv" /\ set.row.ifmap_width = l.ifmap_width
    BY <1>2, <1>4, <2>2 DEF Layer
  <2>5. rows = GemvTranslation(a, set.row, unassigned)
    BY <1>4 DEF ConfigUpdate
  <2> HIDE DEF set, rows
  <2>6. RowsOK(rows)
    BY <1>1, <1>2, <1>4, <2>3, <2>4, <2>5, GemvRows
  <2> QED BY <2>6 DEF rows, l
<1>5. CASE l.type # "Gemv"
  <2>1. PICK x, f, o : SetVariableConfig(a, g, l, first).row
                         = [AsGemm(l) EXCEPT !.ifmap = x, !.filter = f, !.ofmap = o]
    BY DEF SetVariableConfig, PlaceOfmap
  <2>2. set.row = [AsGemm(l) EXCEPT !.ifmap = x, !.filter = f, !.ofmap = o]
    BY <1>5, <2>1
  <2>3. PICK S : set.row \in RowIn(S)
    <3> HIDE DEF set, rows
    <3>1. \E S : [AsGemm(l) EXCEPT !.ifmap = x, !.filter = f, !.ofmap = o] \in RowIn(S)
      BY <1>3, PlacedIsRow
    <3> QED BY <2>2, <3>1
  <2>4. set.row.type = l.type
    BY <1>3, <2>2 DEF Layer
  <2>5. l.type \in Types
    BY <1>2 DEF Layer
  <2>6. rows = CASE l.type \in {"Gemm", "Im2col_conv"} -> GemmTranslation(a, set.row)
                 [] l.type = "Dir_Gemm" -> DirGemmComputation(a, set.row)
                 [] l.type = "Ineff_Dir_Gemm" -> IneffDirGemmComputation(set.row)
                 [] OTHER -> <<set.row>>
    BY <1>5 DEF ConfigUpdate
  <2> HIDE DEF set, rows
  <2>7. CASE l.type \in {"Gemm", "Im2col_conv"}
    <3>1. rows = GemmTranslation(a, set.row)
      BY <2>6, <2>7
    <3> QED BY <1>1, <2>3, <3>1, GemmRows DEF rows, l
  <2>8. CASE l.type = "Dir_Gemm"
    <3>1. rows = DirGemmComputation(a, set.row)
      BY <2>6, <2>8
    <3> QED BY <1>1, <2>3, <3>1, DirGemmRows DEF rows, l
  <2>9. CASE l.type = "Ineff_Dir_Gemm"
    <3>1. rows = IneffDirGemmComputation(set.row)
      BY <2>6, <2>9
    <3> QED BY <2>3, <3>1, IneffDirGemmRows DEF rows, l
  <2>10. CASE l.type \in {"Conv", "Ineff_Conv", "Pool", "Other"}
    <3>1. rows = <<set.row>>
      BY <2>6, <2>10
    <3>2. RowOK(set.row)
      BY <2>4, <2>10 DEF RowOK, RowTypes
    <3> QED BY <3>1, <3>2, SingleRow DEF rows, l
  <2> QED BY <1>5, <2>5, <2>7, <2>8, <2>9, <2>10 DEF Types
<1> QED BY <1>4, <1>5

-----------------------------------------------------------------------------
(* The state between two steps.                                            *)

Configured ==
  /\ arch \in Archs /\ network \in Networks /\ Accepted
  /\ stage \in {"config", "computing", "written"}
  /\ layer \in 0 .. Len(network)
  /\ stage # "config" => layer = Len(network)
  /\ RowsOK(config)
  /\ row \in 0 .. Len(config)
  /\ stage # "config" => row \in 1 .. Len(config)
  /\ t \in Nat

(* Rows are a sequence, whose elements can be computed.                    *)
LEMMA RowsAreSequence ==
  ASSUME NEW s, RowsOK(s)
  PROVE  \E S : s \in Seq(S) /\ \A n \in 1 .. Len(s) : s[n] \in S /\ RowOK(s[n])
<1>1. PICK N \in Nat : /\ DOMAIN s = 1 .. N /\ s = [n \in 1 .. N |-> s[n]]
                       /\ \A n \in 1 .. N : RowOK(s[n])
  BY DEF RowsOK
<1> DEFINE S == {s[n] : n \in 1 .. N}
<1>2. s \in [1 .. N -> S]
  BY <1>1
<1>3. s \in Seq(S) /\ Len(s) = N
  BY <1>1, <1>2, SMTT(30)
<1>4. \A n \in 1 .. Len(s) : s[n] \in S /\ RowOK(s[n])
  BY <1>1, <1>3
<1> QED BY <1>3, <1>4

LEMMA RowsConcat ==
  ASSUME NEW s, NEW u, RowsOK(s), RowsOK(u)
  PROVE  RowsOK(s \o u) /\ Len(s) \in Nat /\ Len(s \o u) \in Nat /\ Len(s) <= Len(s \o u)
<1>1. PICK S : s \in Seq(S) /\ \A n \in 1 .. Len(s) : RowOK(s[n])
  BY RowsAreSequence
<1>2. PICK U : u \in Seq(U) /\ \A n \in 1 .. Len(u) : RowOK(u[n])
  BY RowsAreSequence
<1> DEFINE w == s \o u
<1>3. s \in Seq(S \cup U) /\ u \in Seq(S \cup U)
  BY <1>1, <1>2
<1>4. /\ w \in Seq(S \cup U) /\ Len(w) = Len(s) + Len(u) /\ Len(s) \in Nat /\ Len(u) \in Nat
      /\ \A n \in 1 .. Len(w) : w[n] = IF n <= Len(s) THEN s[n] ELSE u[n - Len(s)]
  BY <1>3
<1>5. \A n \in 1 .. Len(w) : RowOK(w[n])
  <2> HIDE DEF w
  <2> TAKE n \in 1 .. Len(w)
  <2>1. CASE n <= Len(s)
    <3>1. n \in 1 .. Len(s)
      BY <1>4, <2>1
    <3> QED BY <1>1, <1>4, <2>1, <3>1
  <2>2. CASE ~(n <= Len(s))
    <3>1. n - Len(s) \in 1 .. Len(u)
      BY <1>4, <2>2
    <3> QED BY <1>2, <1>4, <2>2, <3>1
  <2> QED BY <2>1, <2>2
<1> HIDE DEF w
<1>6. DOMAIN w = 1 .. Len(w) /\ w = [n \in 1 .. Len(w) |-> w[n]]
  BY <1>4
<1>7. RowsOK(w)
  BY <1>4, <1>5, <1>6 DEF RowsOK
<1> QED BY <1>4, <1>7 DEF w

LEMMA ConfiguredInit == Init => Configured
<1> SUFFICES ASSUME Init PROVE Configured
  OBVIOUS
<1>1. RowsOK(<< >>)
  <2>1. DOMAIN << >> = 1 .. 0 /\ << >> = [n \in 1 .. 0 |-> << >>[n]]
    OBVIOUS
  <2> QED BY <2>1 DEF RowsOK
<1>2. Len(config) = 0 /\ Len(network) \in Nat
  <2>1. network \in Seq(Layer)
    BY NetworkAssumption DEF Init
  <2> QED BY <2>1 DEF Init
<1> QED BY <1>1, <1>2 DEF Init, Configured

LEMMA ConfiguredStep == Configured /\ [Next]_vars => Configured'
<1> SUFFICES ASSUME Configured, [Next]_vars PROVE Configured'
  OBVIOUS
<1> USE DEF Configured
<1>1. ASSUME ConfigLayer PROVE Configured'
  <2>1. PICK h, w \in Indeterminate :
          config' = config \o ConfigUpdate(arch, gen, network[layer + 1], layer = 0,
                                           [h |-> h, w |-> w]).rows
    BY <1>1 DEF ConfigLayer
  <2> DEFINE new == ConfigUpdate(arch, gen, network[layer + 1], layer = 0, [h |-> h, w |-> w]).rows
  <2>2. network \in Seq(Layer) /\ layer + 1 \in DOMAIN network /\ layer + 1 \in 0 .. Len(network)
    <3>1. network \in Seq(Layer)
      BY NetworkAssumption
    <3> QED BY <1>1, <3>1 DEF ConfigLayer
  <2>3. network[layer + 1].type = "Gemv" => arch.systolic_width = 1
    BY <2>2 DEF Accepted
  <2>4. RowsOK(new)
    BY <2>2, <2>3, ConfigUpdateRows
  <2> HIDE DEF new
  <2>5. config' = config \o new
    BY <2>1 DEF new
  <2>6. /\ RowsOK(config \o new) /\ Len(config) \in Nat /\ Len(config \o new) \in Nat
        /\ Len(config) <= Len(config \o new)
    BY <2>4, RowsConcat
  <2>7. row \in 0 .. Len(config')
    BY <2>5, <2>6
  <2>8. RowsOK(config')
    BY <2>5, <2>6
  <2>9. Accepted' /\ stage = "config" /\ stage' = "config" /\ layer' = layer + 1
        /\ UNCHANGED <<arch, network, row, t>>
    BY <1>1 DEF ConfigLayer, Accepted
  <2> QED BY <2>2, <2>7, <2>8, <2>9
<1>2. ASSUME SetVariable PROVE Configured'
  <2>1. Len(config) \in Nat
    BY RowsAreSequence
  <2>2. row + 1 \in 1 .. Len(config)
    BY <1>2, <2>1 DEF SetVariable
  <2> QED BY <1>2, <2>1, <2>2 DEF SetVariable, Accepted
<1>3. ASSUME ComputeStep PROVE Configured'
  BY <1>3 DEF ComputeStep, Accepted
<1>4. ASSUME EndLayer PROVE Configured'
  BY <1>4 DEF EndLayer, Accepted
<1>5. ASSUME UNCHANGED vars PROVE Configured'
  BY <1>5 DEF vars, Accepted
<1> QED BY <1>1, <1>2, <1>3, <1>4, <1>5 DEF Next, Terminated

-----------------------------------------------------------------------------
(* Tiles and the scratchpad.                                               *)

(* The steps a tile holds, one more of them, and none.                     *)
LEMMA StepsGrow ==
  ASSUME NEW from \in Nat, NEW to \in Nat, from <= to
  PROVE  Steps(from, to + 1) = Union(Steps(from, to), StepAccess(arch, r, to))
<1>1. from .. to + 1 - 1 = (from .. to - 1) \cup {to}
  OBVIOUS
<1> DEFINE F(s) == StepAccess(arch, r, s).filter
           I(s) == StepAccess(arch, r, s).ifmap
           O(s) == StepAccess(arch, r, s).ofmap
<1>2. /\ UNION {F(s) : s \in from .. to + 1 - 1} = (UNION {F(s) : s \in from .. to - 1}) \cup F(to)
      /\ UNION {I(s) : s \in from .. to + 1 - 1} = (UNION {I(s) : s \in from .. to - 1}) \cup I(to)
      /\ UNION {O(s) : s \in from .. to + 1 - 1} = (UNION {O(s) : s \in from .. to - 1}) \cup O(to)
  <2> HIDE DEF F, I, O
  <2> QED BY <1>1, Zenon
<1>3. \A x, y : Steps(x, y) = Access(UNION {F(s) : s \in x .. y - 1}, UNION {I(s) : s \in x .. y - 1},
                                    UNION {O(s) : s \in x .. y - 1})
  <2> SUFFICES ASSUME NEW x, NEW y
               PROVE  Steps(x, y) = Access(UNION {F(s) : s \in x .. y - 1},
                                           UNION {I(s) : s \in x .. y - 1},
                                           UNION {O(s) : s \in x .. y - 1})
    OBVIOUS
  <2> DEFINE D == x .. y - 1
             taken == {StepAccess(arch, r, s) : s \in D}
  <2>1. /\ {next.filter : next \in taken} = {F(s) : s \in D}
        /\ {next.ifmap : next \in taken} = {I(s) : s \in D}
        /\ {next.ofmap : next \in taken} = {O(s) : s \in D}
    <3> HIDE DEF D
    <3> QED BY Zenon
  <2> QED BY <2>1, Zenon DEF Steps
<1> DEFINE A == UNION {F(s) : s \in from .. to - 1}
           B == UNION {I(s) : s \in from .. to - 1}
           C == UNION {O(s) : s \in from .. to - 1}
<1>4. Steps(from, to) = Access(A, B, C)
  BY <1>3
<1>5. Steps(from, to + 1) = Access(A \cup F(to), B \cup I(to), C \cup O(to))
  <2>1. Steps(from, to + 1) = Access(UNION {F(s) : s \in from .. to + 1 - 1},
                                     UNION {I(s) : s \in from .. to + 1 - 1},
                                     UNION {O(s) : s \in from .. to + 1 - 1})
    BY <1>3
  <2> HIDE DEF F, I, O
  <2> QED BY <1>2, <2>1, Zenon
<1> HIDE DEF A, B, C
<1> QED BY <1>4, <1>5 DEF Union, Access

LEMMA NoSteps == \A n \in Nat : Steps(n, n) = Nothing
<1> SUFFICES ASSUME NEW n \in Nat PROVE Steps(n, n) = Nothing
  OBVIOUS
<1>1. n .. n - 1 = {}
  OBVIOUS
<1> QED BY <1>1 DEF Steps, Nothing, Access

LEMMA NothingFits == Configured => ~Exceeds(Nothing)
<1> SUFFICES ASSUME Configured PROVE ~Exceeds(Nothing)
  OBVIOUS
<1>1. Total(Nothing) = 0
  BY FS_EmptySet DEF Total, Nothing, Access
<1>2. arch \in Arch
  BY ArchAssumption DEF Configured
<1>3. Capacity(arch) \in Nat /\ arch.cacheline_size \in Nat
  BY <1>2 DEF Arch, Capacity
<1> QED BY <1>1, <1>3 DEF Exceeds

(* The tiles that are written have been ended for want of room, and the    *)
(* one that is filled holds the steps behind them; it fits, or is a single *)
(* step, which a product that was not cut would have written.              *)
Sharing ==
  /\ tiles \in Seq({tiles[n] : n \in DOMAIN tiles})
  /\ cuts \in Seq(Nat)
  /\ Len(tiles) = Len(cuts)
Last == Upto(Len(cuts))
Filled(from) ==
  /\ from <= t /\ dram = Steps(from, t)
  /\ Exceeds(dram) => ~Uncut /\ t = from + 1
Begun ==
  /\ stage # "computing" => dram = Nothing
  /\ Sharing
  /\ stage = "computing" => /\ Filled(Last)
                            /\ \A n \in 1 .. Len(tiles) : Made(n) /\ Full(n)
  /\ TileFits

(* A sequence is one of its elements.                                      *)
LEMMA SeqOfElements ==
  ASSUME NEW X, NEW s \in Seq(X)
  PROVE  s \in Seq({s[n] : n \in DOMAIN s})
<1> DEFINE T == {s[n] : n \in DOMAIN s}
<1>1. PICK N \in Nat : s \in [1 .. N -> X]
  BY SeqDef
<1>2. DOMAIN s = 1 .. N /\ s = [n \in 1 .. N |-> s[n]]
  BY <1>1
<1>3. \A n \in 1 .. N : s[n] \in T
  BY <1>2
<1> HIDE DEF T
<1>4. s \in [1 .. N -> T]
  BY <1>2, <1>3
<1>5. s \in Seq(T)
  BY <1>4, SeqDef
<1> QED BY <1>5 DEF T

(* A tile is added to those of the row, which stay what they are.          *)
LEMMA TileAdded ==
  ASSUME Sharing, stage = "computing", \A n \in 1 .. Len(tiles) : Made(n) /\ Full(n),
         UNCHANGED <<arch, config, row>>, NEW tile, tiles' = Append(tiles, tile),
         NEW s \in Nat, cuts' = Append(cuts, s)
  PROVE  /\ Sharing' /\ Len(tiles') = Len(tiles) + 1 /\ Len(tiles) \in Nat
         /\ Upto(Len(tiles))' = s /\ Upto(Len(tiles) - 1)' = Last /\ tiles'[Len(tiles')] = tile
         /\ Last' = s /\ Last \in Nat
         /\ \A n \in 1 .. Len(tiles) : Made(n)' /\ Full(n)'
<1> DEFINE S == {tiles[n] : n \in DOMAIN tiles}
           T == {tiles'[n] : n \in DOMAIN tiles'}
           k == Len(tiles)
<1>1. /\ tiles \in Seq(S \cup {tile}) /\ cuts \in Seq(Nat) /\ k \in Nat /\ Len(cuts) = k
      /\ tiles \in Seq(S)
  <2>1. tiles \in Seq(S) /\ cuts \in Seq(Nat) /\ Len(tiles) = Len(cuts)
    BY DEF Sharing
  <2> HIDE DEF S
  <2>2. k \in Nat
    BY <2>1
  <2>3. tiles \in Seq(S \cup {tile})
    BY <2>1
  <2> QED BY <2>1, <2>2, <2>3
<1> HIDE DEF S, k
<1>2. /\ tiles' \in Seq(S \cup {tile}) /\ Len(tiles') = k + 1 /\ tiles'[k + 1] = tile
      /\ \A n \in 1 .. k : tiles'[n] = tiles[n]
  <2> DEFINE X == S \cup {tile}
  <2>1. tiles \in Seq(X) /\ tile \in X /\ Len(tiles) = k
    BY <1>1 DEF k
  <2> HIDE DEF X
  <2>2. /\ tiles' \in Seq(X) /\ Len(tiles') = k + 1 /\ tiles'[k + 1] = tile
        /\ \A n \in 1 .. k : tiles'[n] = tiles[n]
    BY <1>1, <2>1
  <2> QED BY <2>2 DEF X
<1>3. /\ cuts' \in Seq(Nat) /\ Len(cuts') = k + 1 /\ cuts'[k + 1] = s
      /\ \A n \in 1 .. k : cuts'[n] = cuts[n]
  BY <1>1
<1>4. tiles' \in Seq(T)
  BY <1>2, SeqOfElements
<1> HIDE DEF T
<1>5. Sharing'
  BY <1>2, <1>3, <1>4 DEF Sharing, T
<1>6. ASSUME NEW n \in 0 .. k
      PROVE  Upto(n)' = Upto(n) /\ Upto(n) \in Nat
  BY <1>1, <1>3 DEF Upto
<1>7. r' = r
  BY DEF r
<1>8. ASSUME NEW n \in 1 .. k
      PROVE  Made(n)' /\ Full(n)'
  <2>1. n \in 0 .. k /\ n - 1 \in 0 .. k /\ Made(n) /\ Full(n)
    BY <1>1 DEF k
  <2>2. Upto(n)' = Upto(n) /\ Upto(n - 1)' = Upto(n - 1) /\ tiles'[n] = tiles[n]
    BY <1>2, <1>6, <2>1
  <2>3. \A x, y : Steps(x, y)' = Steps(x, y)
    BY <1>7 DEF Steps
  <2>4. \A d : Exceeds(d)' <=> Exceeds(d)
    BY DEF Exceeds
  <2>5. Uncut' <=> Uncut
    BY <1>7 DEF Uncut
  <2>6. Made(n)'
    BY <2>1, <2>2, <2>3, <2>4, <2>5 DEF Made
  <2>7. Full(n)'
    BY <2>1, <2>2, <2>3, <2>4, <2>5 DEF Full
  <2> QED BY <2>6, <2>7
<1>9. Upto(Len(tiles))' = s /\ Upto(Len(tiles) - 1)' = Upto(k)
  <2>1. Len(tiles') = k + 1 /\ Len(tiles') - 1 = k /\ k + 1 # 0 /\ cuts'[k + 1] = s /\ k \in 0 .. k
    BY <1>1, <1>2, <1>3
  <2>2. Upto(Len(tiles))' = s
    BY <2>1 DEF Upto
  <2>3. Upto(Len(tiles) - 1)' = Upto(k)
    <3>1. Upto(Len(tiles) - 1)' = IF Len(tiles') - 1 = 0 THEN 0 ELSE cuts'[Len(tiles') - 1]
      BY DEF Upto
    <3>2. Upto(k) = IF k = 0 THEN 0 ELSE cuts[k]
      BY DEF Upto
    <3>3. k # 0 => cuts'[k] = cuts[k]
      BY <1>1, <1>3
    <3> QED BY <2>1, <3>1, <3>2, <3>3
  <2> QED BY <2>2, <2>3
<1>10. Last' = s /\ Last = Upto(k) /\ k \in 0 .. k
  <2>1. Last' = IF Len(cuts') = 0 THEN 0 ELSE cuts'[Len(cuts')]
    BY DEF Last, Upto
  <2>2. Last = Upto(k)
    BY <1>1 DEF Last
  <2> QED BY <1>1, <1>3, <2>1, <2>2
<1> QED BY <1>1, <1>2, <1>5, <1>6, <1>8, <1>9, <1>10 DEF k

(* A step goes into the tile, begins a new one, or is the last of one.     *)
LEMMA BegunCompute ==
  ASSUME Configured, Begun, ComputeStep
  PROVE  Begun'
<1> DEFINE next == StepAccess(arch, r, t)
           full == r.type \notin {"Gemv", "Other"} /\ IsFull(next)
<1>1. /\ stage = "computing" /\ stage' = "computing" /\ t' = t + 1 /\ t \in Nat
      /\ UNCHANGED <<arch, config, row>> /\ Live(arch, r, t)
  BY DEF ComputeStep, Configured
<1>2. Sharing /\ Filled(Last) /\ \A n \in 1 .. Len(tiles) : Made(n) /\ Full(n)
  BY <1>1 DEF Begun
<1>3. Last \in Nat /\ Len(tiles) \in Nat
  BY <1>2 DEF Sharing, Last, Upto
<1>4. Last <= t /\ dram = Steps(Last, t) /\ (Exceeds(dram) => ~Uncut /\ t = Last + 1)
  BY <1>2 DEF Filled
<1>5. Union(dram, next) = Steps(Last, t + 1) /\ Union(Nothing, next) = Steps(t, t + 1)
  <2>1. Steps(Last, t + 1) = Union(Steps(Last, t), next)
    BY <1>1, <1>3, <1>4, StepsGrow
  <2>2. Steps(t, t + 1) = Union(Steps(t, t), next)
    BY <1>1, StepsGrow
  <2> QED BY <1>1, <1>4, <2>1, <2>2, NoSteps
<1>6. r' = r /\ (Uncut' <=> Uncut)
  BY <1>1 DEF r, Uncut
<1>7. /\ \A x, y : Steps(x, y)' = Steps(x, y)
      /\ \A d : Exceeds(d)' <=> Exceeds(d)
  BY <1>1, <1>6 DEF Steps, Exceeds
<1>8. TileFits'
  BY <1>1 DEF TileFits
<1>9. Uncut => r.type \notin {"Gemv", "Other"}
  BY DEF Uncut
<1> HIDE DEF next
<1>10. CASE ~full /\ dram' = Union(dram, next) /\ UNCHANGED files
  <2>1. UNCHANGED <<tiles, cuts>>
    BY <1>10 DEF files
  <2>2. Sharing' /\ Last' = Last /\ \A n \in 1 .. Len(tiles') : Made(n)' /\ Full(n)'
    <3>1. Sharing' /\ \A n : Upto(n)' = Upto(n)
      BY <1>2, <2>1 DEF Sharing, Upto
    <3>2. Last' = Last
      BY <2>1, <3>1 DEF Last
    <3>3. \A n : (Made(n)' <=> Made(n)) /\ (Full(n)' <=> Full(n))
      BY <1>6, <1>7, <2>1, <3>1 DEF Made, Full
    <3> QED BY <1>2, <2>1, <3>1, <3>2, <3>3
  <2>3. Exceeds(Steps(Last, t + 1)) => ~Uncut /\ t = Last
    <3>1. CASE r.type \in {"Gemv", "Other"}
      <4>1. t = 0
        BY <1>1, <3>1 DEF Live
      <4> QED BY <1>3, <1>4, <1>9, <3>1, <4>1
    <3>2. CASE r.type \notin {"Gemv", "Other"}
      BY <1>5, <1>10, <3>2 DEF IsFull
    <3> QED BY <3>1, <3>2
  <2>4. Filled(Last)'
    <3>1. dram' = Steps(Last, t + 1) /\ Last <= t + 1
      BY <1>1, <1>3, <1>4, <1>5, <1>10
    <3>2. Exceeds(dram)' <=> Exceeds(Steps(Last, t + 1))
      BY <1>1, <3>1 DEF Exceeds
    <3> QED BY <1>1, <1>6, <1>7, <2>2, <2>3, <3>1, <3>2 DEF Filled
  <2> QED BY <1>1, <1>8, <2>2, <2>4 DEF Begun
<1>11. ASSUME full, NEW s \in Nat, NEW d, tiles' = Append(tiles, Written(d)), cuts' = Append(cuts, s),
              Last <= s, d = Steps(Last, s),
              Exceeds(d) => ~Exceeds(Steps(Last, s - 1)) /\ (Uncut \/ s = Last + 1),
              Exceeds(Steps(Last, IF Uncut THEN s ELSE s + 1)),
              s <= t + 1, dram' = Steps(s, t + 1), Exceeds(dram') => ~Uncut /\ t = s
       PROVE  Begun'
  <2>1. /\ Sharing' /\ Len(tiles') = Len(tiles) + 1
        /\ Upto(Len(tiles))' = s /\ Upto(Len(tiles) - 1)' = Last
        /\ tiles'[Len(tiles')] = Written(d) /\ Last' = s
        /\ \A n \in 1 .. Len(tiles) : Made(n)' /\ Full(n)'
    BY <1>1, <1>2, <1>11, TileAdded
  <2>2. Made(Len(tiles))' /\ Full(Len(tiles))'
    <3> PICK k : k = Len(tiles')
      OBVIOUS
    <3>1. Upto(k)' = s /\ Upto(k - 1)' = Last /\ tiles'[k] = Written(d)
      BY <2>1
    <3>2. Made(k)'
      BY <1>6, <1>7, <1>11, <3>1 DEF Made, Written
    <3>3. Full(k)'
      BY <1>6, <1>7, <1>11, <3>1 DEF Full
    <3> QED BY <3>2, <3>3
  <2>3. \A n \in 1 .. Len(tiles') : Made(n)' /\ Full(n)'
    <3> TAKE n \in 1 .. Len(tiles')
    <3>1. CASE n \in 1 .. Len(tiles)
      BY <2>1, <3>1
    <3>2. CASE n = Len(tiles')
      BY <2>2, <3>2
    <3> QED BY <1>3, <2>1, <3>1, <3>2
  <2>4. Filled(Last)'
    <3>1. Exceeds(dram)' <=> Exceeds(dram')
      BY <1>1 DEF Exceeds
    <3>2. Exceeds(dram)' => ~Uncut' /\ t' = s + 1
      BY <1>1, <1>6, <1>11, <3>1
    <3>3. s <= t' /\ dram' = Steps(s, t)'
      BY <1>1, <1>7, <1>11
    <3> QED BY <2>1, <3>2, <3>3 DEF Filled
  <2> QED BY <1>1, <1>8, <2>1, <2>3, <2>4 DEF Begun
<1>12. full => Exceeds(Steps(Last, t + 1))
  BY <1>5 DEF IsFull
<1>13. CASE full /\ ~Uncut /\ tiles' = Append(tiles, Written(dram)) /\ cuts' = Append(cuts, t)
            /\ dram' = Union(Nothing, next)
  <2>1. Exceeds(dram) => ~Exceeds(Steps(Last, t - 1))
    <3> SUFFICES ASSUME Exceeds(dram) PROVE ~Exceeds(Steps(Last, t - 1))
      OBVIOUS
    <3>1. t - 1 = Last
      BY <1>1, <1>3, <1>4
    <3> QED BY <1>3, <3>1, NoSteps, NothingFits
  <2> HIDE DEF full
  <2> QED BY <1>1, <1>4, <1>5, <1>11, <1>12, <1>13, <2>1
<1>14. CASE full /\ Uncut /\ tiles' = Append(tiles, Written(Union(dram, next)))
            /\ cuts' = Append(cuts, t + 1) /\ dram' = Nothing
  <2>1. ~Exceeds(Steps(Last, t))
    BY <1>1, <1>4, <1>14
  <2>2. dram' = Steps(t + 1, t + 1) /\ ~Exceeds(dram')
    BY <1>1, <1>14, NoSteps, NothingFits
  <2>3. Last <= t + 1 /\ t + 1 \in Nat /\ t + 1 <= t + 1
    BY <1>1, <1>3, <1>4
  <2> HIDE DEF full
  <2>4. PICK u, d : u = t + 1 /\ d = Union(dram, next)
    OBVIOUS
  <2>5. /\ u \in Nat /\ Last <= u /\ u <= t + 1 /\ d = Steps(Last, u)
        /\ tiles' = Append(tiles, Written(d)) /\ cuts' = Append(cuts, u)
    BY <1>5, <1>14, <2>3, <2>4
  <2>6. /\ Exceeds(d) => ~Exceeds(Steps(Last, u - 1)) /\ (Uncut \/ u = Last + 1)
        /\ Exceeds(Steps(Last, IF Uncut THEN u ELSE u + 1))
    <3>1. u - 1 = t
      BY <1>1, <2>4
    <3>2. Exceeds(Steps(Last, IF Uncut THEN u ELSE u + 1))
      <4>1. (IF Uncut THEN u ELSE u + 1) = t + 1
        BY <1>14, <2>4
      <4>2. Exceeds(Steps(Last, t + 1))
        BY <1>12, <1>14
      <4> QED BY <4>1, <4>2, Zenon
    <3>3. ~Exceeds(Steps(Last, u - 1))
      BY <2>1, <3>1
    <3> QED BY <1>14, <3>2, <3>3
  <2>7. dram' = Steps(u, t + 1) /\ (Exceeds(dram') => ~Uncut /\ t = u)
    BY <2>2, <2>4
  <2> QED BY <1>11, <1>14, <2>5, <2>6, <2>7
<1>15. \/ ~full /\ dram' = Union(dram, next) /\ UNCHANGED files
       \/ /\ full /\ ~Uncut /\ tiles' = Append(tiles, Written(dram)) /\ cuts' = Append(cuts, t)
          /\ dram' = Union(Nothing, next)
       \/ /\ full /\ Uncut /\ tiles' = Append(tiles, Written(Union(dram, next)))
          /\ cuts' = Append(cuts, t + 1) /\ dram' = Nothing
  BY DEF ComputeStep, TileOutput, Uncut, next
<1> HIDE DEF full
<1> QED BY <1>10, <1>13, <1>14, <1>15

(* The last tile holds the steps that are left.                            *)
LEMMA BegunEnd ==
  ASSUME Configured, Begun, EndLayer
  PROVE  Begun'
<1>1. /\ stage = "computing" /\ stage' = "written" /\ UNCHANGED <<arch, config, row, t>>
      /\ dram' = Nothing /\ tiles' = Append(tiles, Written(dram)) /\ cuts' = Append(cuts, t)
      /\ t \in Nat
  BY DEF EndLayer, TileOutput, Configured
<1>2. Sharing /\ Filled(Last) /\ \A n \in 1 .. Len(tiles) : Made(n) /\ Full(n)
  BY <1>1 DEF Begun
<1>3. Last <= t /\ dram = Steps(Last, t) /\ (Exceeds(dram) => ~Uncut /\ t = Last + 1)
  BY <1>2 DEF Filled
<1>4. /\ Sharing' /\ Len(tiles') = Len(tiles) + 1 /\ Len(tiles) \in Nat
      /\ Upto(Len(tiles))' = t /\ Upto(Len(tiles) - 1)' = Last
      /\ tiles'[Len(tiles')] = Written(dram) /\ Last' = t /\ Last \in Nat
      /\ \A n \in 1 .. Len(tiles) : Made(n)' /\ Full(n)'
  BY <1>1, <1>2, TileAdded
<1>5. /\ \A x, y : Steps(x, y)' = Steps(x, y)
      /\ \A d : Exceeds(d)' <=> Exceeds(d)
      /\ Uncut' <=> Uncut
  BY <1>1 DEF Steps, Exceeds, Uncut, r
<1>6. Made(Len(tiles))'
  <2> PICK k : k = Len(tiles')
    OBVIOUS
  <2>1. Upto(k)' = t /\ Upto(k - 1)' = Last /\ tiles'[k] = Written(dram)
    BY <1>4
  <2>2. Exceeds(Steps(Last, t)) => ~Exceeds(Steps(Last, t - 1)) /\ t = Last + 1
    <3> SUFFICES ASSUME Exceeds(Steps(Last, t))
                 PROVE  ~Exceeds(Steps(Last, t - 1)) /\ t = Last + 1
      OBVIOUS
    <3>1. t = Last + 1
      BY <1>3
    <3>2. t - 1 = Last
      BY <1>4, <3>1
    <3> QED BY <1>4, <3>1, <3>2, NoSteps, NothingFits
  <2>3. Made(k)'
    BY <1>3, <1>5, <2>1, <2>2 DEF Made, Written
  <2> QED BY <2>3
<1>7. TileFits'
  <2>1. \A n \in 1 .. Len(tiles') : Made(n)' /\ (n < Len(tiles') => Full(n)')
    <3> TAKE n \in 1 .. Len(tiles')
    <3>1. CASE n \in 1 .. Len(tiles)
      BY <1>4, <3>1
    <3>2. CASE n = Len(tiles')
      BY <1>4, <1>6, <3>2
    <3> QED BY <1>4, <3>1, <3>2
  <2>2. Len(tiles') = Len(cuts')
    BY <1>4 DEF Sharing
  <2>3. Upto(Len(cuts))' = t'
    BY <1>1, <1>4, <2>2
  <2> QED BY <2>1, <2>2, <2>3 DEF TileFits
<1> QED BY <1>1, <1>4, <1>7 DEF Begun

LEMMA BegunStep == Configured /\ Begun /\ [Next]_vars => Begun'
<1> SUFFICES ASSUME Configured, Begun, [Next]_vars PROVE Begun'
  OBVIOUS
<1>1. ASSUME ConfigLayer PROVE Begun'
  <2>1. stage = "config" /\ stage' = "config" /\ UNCHANGED <<dram, tiles, cuts>>
    BY <1>1 DEF ConfigLayer, files
  <2> QED BY <2>1 DEF Begun, Sharing, TileFits
<1>2. ASSUME SetVariable PROVE Begun'
  <2>1. /\ stage # "computing" /\ stage' = "computing" /\ t' = 0 /\ dram' = dram
        /\ tiles' = << >> /\ cuts' = << >> /\ arch' = arch
    BY <1>2 DEF SetVariable
  <2>2. dram' = Nothing /\ Steps(0, 0)' = Nothing
    <3>1. Steps(0, 0) = Nothing
      BY NoSteps
    <3>2. Steps(0, 0)' = Steps(0, 0)
      <4>1. 0 .. 0 - 1 = {}
        OBVIOUS
      <4> QED BY <4>1 DEF Steps
    <3>3. stage # "computing" => dram = Nothing
      BY DEF Begun
    <3> QED BY <2>1, <3>1, <3>2, <3>3
  <2>3. Sharing' /\ Len(tiles') = 0 /\ Last' = 0
    BY <2>1 DEF Sharing, Last, Upto
  <2>4. ~Exceeds(dram)'
    <3>1. ~Exceeds(Nothing)
      BY NothingFits
    <3>2. Exceeds(dram)' <=> Exceeds(Nothing)
      BY <2>1, <2>2 DEF Exceeds
    <3> QED BY <3>1, <3>2
  <2>5. Filled(Last)'
    BY <2>1, <2>2, <2>3, <2>4 DEF Filled
  <2> QED BY <2>1, <2>3, <2>5 DEF Begun, TileFits
<1>3. ASSUME ComputeStep PROVE Begun'
  BY <1>3, BegunCompute
<1>4. ASSUME EndLayer PROVE Begun'
  BY <1>4, BegunEnd
<1>5. ASSUME UNCHANGED vars PROVE Begun'
  <2>1. UNCHANGED <<arch, config, row, t, stage, dram, tiles, cuts>> /\ r' = r
    BY <1>5 DEF vars, r
  <2>2. /\ \A x, y : Steps(x, y)' = Steps(x, y)
        /\ \A d : Exceeds(d)' <=> Exceeds(d)
        /\ Uncut' <=> Uncut
        /\ \A n : Upto(n)' = Upto(n)
    BY <2>1 DEF Steps, Exceeds, Uncut, Upto
  <2>3. \A n : (Made(n)' <=> Made(n)) /\ (Full(n)' <=> Full(n))
    BY <2>1, <2>2 DEF Made, Full
  <2>4. Last' = Last /\ (Sharing' <=> Sharing)
    BY <2>1, <2>2 DEF Last, Sharing
  <2>5. Filled(Last)' <=> Filled(Last)
    <3>1. Exceeds(dram)' <=> Exceeds(dram)
      BY <2>1 DEF Exceeds
    <3> QED BY <2>1, <2>2, <2>4, <3>1 DEF Filled
  <2>6. TileFits' <=> TileFits
    BY <2>1, <2>2, <2>3 DEF TileFits
  <2> QED BY <2>1, <2>3, <2>4, <2>5, <2>6 DEF Begun
<1> QED BY <1>1, <1>2, <1>3, <1>4, <1>5 DEF Next, Terminated

(* The tiles written for a row share out its steps, are cut when they are   *)
(* full, and exceed the scratchpad's share for their last step only         *)
(* (is_full, move_reset_dram, tile_output).                                 *)
THEOREM TileFitsHolds == Spec => []TileFits
<1>1. Init => Configured /\ Begun
  <2> SUFFICES ASSUME Init PROVE Configured /\ Begun
    OBVIOUS
  <2>1. Begun
    BY DEF Init, Begun, Sharing, TileFits
  <2> QED BY <2>1, ConfiguredInit
<1>2. Configured /\ Begun /\ [Next]_vars => (Configured /\ Begun)'
  BY ConfiguredStep, BegunStep
<1>3. Configured /\ Begun => TileFits
  BY DEF Begun
<1> QED BY <1>1, <1>2, <1>3, PTL DEF Spec

-----------------------------------------------------------------------------
(* Sums of cycles.                                                         *)

(* What is read for each line of a file of cycles, and that as a set: a    *)
(* unit for each cycle of a line in D.                                     *)
Weight(s) == [n \in DOMAIN s |-> (s[n] + 1) % CycleRange]
Units(w, D) == {p \in D \X (1 .. CycleRange) : p[2] <= w[p[1]]}

LEMMA UnitsFinite ==
  ASSUME NEW w, NEW D, IsFiniteSet(D)
  PROVE  IsFiniteSet(Units(w, D)) /\ Cardinality(Units(w, D)) \in Nat
<1>1. IsFiniteSet(1 .. CycleRange)
  <2>1. 1 \in Int /\ CycleRange \in Int
    OBVIOUS
  <2> QED BY <2>1, FS_Interval
<1>2. IsFiniteSet(D \X (1 .. CycleRange))
  BY <1>1, FS_Product
<1>3. Units(w, D) \subseteq D \X (1 .. CycleRange)
  BY DEF Units
<1>4. IsFiniteSet(Units(w, D))
  BY <1>2, <1>3, FS_Subset
<1> QED BY <1>4, FS_CardinalityType

LEMMA UnitsOfOne ==
  ASSUME NEW w, NEW n, w[n] \in 0 .. CycleRange - 1
  PROVE  Cardinality(Units(w, {n})) = w[n]
<1> DEFINE own == 1 .. w[n]
           f == [k \in own |-> <<n, k>>]
<1>1. IsFiniteSet(own) /\ Cardinality(own) = w[n]
  <2>1. 1 \in Int /\ w[n] \in Int
    OBVIOUS
  <2>2. /\ IsFiniteSet(own)
        /\ Cardinality(own) = IF 1 > w[n] THEN 0 ELSE w[n] - 1 + 1
    BY <2>1, FS_Interval
  <2> QED BY <2>2
<1>2. \A p \in Units(w, {n}) : p[2] \in own /\ p = <<n, p[2]>>
  BY DEF Units
<1>3. \A k \in own : <<n, k>> \in Units(w, {n})
  BY DEF Units
<1>4. f \in Bijection(own, Units(w, {n}))
  <2>1. f \in [own -> Units(w, {n})]
    BY <1>3
  <2>2. \A a, b \in own : f[a] = f[b] => a = b
    OBVIOUS
  <2>3. \A p \in Units(w, {n}) : \E k \in own : f[k] = p
    BY <1>2
  <2> QED BY <2>1, <2>2, <2>3 DEF Bijection, Injection, Surjection, IsInjective
<1> HIDE DEF own, f
<1>5. Cardinality(Units(w, {n})) = Cardinality(own)
  BY <1>1, <1>4, FS_Bijection DEF ExistsBijection
<1> QED BY <1>1, <1>5

LEMMA UnitsOneMore ==
  ASSUME NEW w, NEW D, IsFiniteSet(D), NEW n \in D, w[n] \in 0 .. CycleRange - 1
  PROVE  Cardinality(Units(w, D)) = w[n] + Cardinality(Units(w, D \ {n}))
<1>1. Units(w, D) = Units(w, {n}) \cup Units(w, D \ {n})
  BY DEF Units
<1>2. Units(w, {n}) \cap Units(w, D \ {n}) = {}
  BY DEF Units
<1>3. IsFiniteSet({n}) /\ IsFiniteSet(D \ {n})
  BY FS_Singleton, FS_Subset, D \ {n} \subseteq D
<1>4. /\ IsFiniteSet(Units(w, {n})) /\ IsFiniteSet(Units(w, D \ {n}))
      /\ Cardinality(Units(w, {n})) \in Nat /\ Cardinality(Units(w, D \ {n})) \in Nat
  BY <1>3, UnitsFinite
<1>5. Cardinality(Units(w, D)) = Cardinality(Units(w, {n}))
        + Cardinality(Units(w, D \ {n})) - Cardinality({})
  BY <1>1, <1>2, <1>4, FS_Union
<1>6. Cardinality(Units(w, {n})) = w[n] /\ Cardinality({}) = 0
  BY UnitsOfOne, FS_EmptySet
<1> QED BY <1>4, <1>5, <1>6

(* The sum over lines of a file is the number of their units. Summation is *)
(* recursive; the number of units satisfies its equation, and a smallest   *)
(* set for which a solution differs from it cannot exist.                  *)
LEMMA SumIsUnits ==
  ASSUME NEW s \in Seq(0 .. CycleRange - 1), NEW D \in SUBSET DOMAIN s
  PROVE  MapThenSumSet(LAMBDA n : (s[n] + 1) % CycleRange, D) = Cardinality(Units(Weight(s), D))
<1> DEFINE Sums(h) == h = [e \in SUBSET D |->
                             IF e = {} THEN 0
                             ELSE LET x == CHOOSE x \in e : TRUE
                                  IN  ((s[x] + 1) % CycleRange) + h[e \ {x}]]
           w == Weight(s)
           count == [e \in SUBSET D |-> Cardinality(Units(w, e))]
<1>1. \A n \in D : w[n] = (s[n] + 1) % CycleRange /\ w[n] \in 0 .. CycleRange - 1
  <2> TAKE n \in D
  <2>1. s[n] \in 0 .. CycleRange - 1
    OBVIOUS
  <2>2. (s[n] + 1) % CycleRange \in 0 .. CycleRange - 1
    BY <2>1
  <2> QED BY <2>2 DEF Weight
<1>2. \A e \in SUBSET D : IsFiniteSet(e) /\ Cardinality(e) \in Nat
  <2>1. DOMAIN s = 1 .. Len(s) /\ 1 \in Int /\ Len(s) \in Int
    OBVIOUS
  <2>2. IsFiniteSet(DOMAIN s)
    BY <2>1, FS_Interval
  <2> QED BY <2>2, FS_Subset, FS_CardinalityType
<1> HIDE DEF w
<1>3. Sums(count)
  <2>1. ASSUME NEW e \in SUBSET D, e # {}
        PROVE  count[e] = LET x == CHOOSE x \in e : TRUE
                          IN ((s[x] + 1) % CycleRange) + count[e \ {x}]
    <3> DEFINE x == CHOOSE x \in e : TRUE
    <3>1. x \in e
      BY <2>1
    <3> HIDE DEF x
    <3>2. e \ {x} \in SUBSET D /\ x \in D
      BY <3>1
    <3>3. Cardinality(Units(w, e)) = w[x] + Cardinality(Units(w, e \ {x}))
      <4>1. IsFiniteSet(e) /\ w[x] \in 0 .. CycleRange - 1
        BY <1>1, <1>2, <3>2
      <4> HIDE DEF count, Sums
      <4> QED BY <3>1, <4>1, UnitsOneMore, SMTT(30)
    <3>4. count[e] = ((s[x] + 1) % CycleRange) + count[e \ {x}]
      BY <1>1, <3>2, <3>3
    <3> QED BY <3>4 DEF x
  <2>2. count[{}] = 0
    <3>1. Units(w, {}) = {}
      BY DEF Units
    <3> QED BY <3>1, FS_EmptySet
  <2> HIDE DEF count
  <2>3. ASSUME NEW e \in SUBSET D
        PROVE  count[e] = IF e = {} THEN 0
                          ELSE LET x == CHOOSE x \in e : TRUE
                               IN  ((s[x] + 1) % CycleRange) + count[e \ {x}]
    BY <2>1, <2>2
  <2>4. count = [e \in SUBSET D |-> count[e]]
    BY DEF count
  <2> QED BY <2>3, <2>4
<1>4. \E h : Sums(h) /\ MapThenSumSet(LAMBDA n : (s[n] + 1) % CycleRange, D) = h[D]
  <2> HIDE DEF count
  <2>1. MapThenSumSet(LAMBDA n : (s[n] + 1) % CycleRange, D) = (CHOOSE h : Sums(h))[D]
    BY DEF MapThenSumSet, MapThenFoldSet
  <2> HIDE DEF Sums
  <2> QED BY <1>3, <2>1
<1>5. PICK h : Sums(h) /\ MapThenSumSet(LAMBDA n : (s[n] + 1) % CycleRange, D) = h[D]
  BY <1>4
<1> DEFINE Differs(k) == \E e \in SUBSET D : Cardinality(e) = k /\ h[e] # count[e]
           sizes == {k \in Nat : Differs(k)}
<1>6. sizes = {}
  <2> SUFFICES ASSUME sizes # {} PROVE FALSE
    OBVIOUS
  <2> DEFINE R == OpToRel(<, Nat)
  <2>1. PICK k \in sizes : \A j \in sizes : ~(j < k)
    <3>1. IsWellFoundedOn(R, Nat)
      BY NatLessThanWellFounded
    <3>2. \A m, n \in Nat : m < n => <<m, n>> \in R
      BY DEF OpToRel
    <3> HIDE DEF R, Differs
    <3>3. PICK k \in sizes : \A j \in sizes : ~ (<<j, k>> \in R)
      BY <3>1, WFMin
    <3> QED BY <3>2, <3>3
  <2>2. PICK e \in SUBSET D : Cardinality(e) = k /\ h[e] # count[e]
    BY <2>1
  <2>3. e # {}
    <3>1. h[{}] = 0 /\ count[{}] = 0
      BY <1>3, <1>5
    <3> QED BY <2>2, <3>1
  <2> DEFINE x == CHOOSE x \in e : TRUE
  <2>4. x \in e
    BY <2>3
  <2> HIDE DEF x
  <2>5. e \ {x} \in SUBSET D /\ Cardinality(e \ {x}) = k - 1 /\ k - 1 \in Nat
    <3>1. IsFiniteSet(e) /\ IsFiniteSet(e \ {x}) /\ Cardinality(e \ {x}) \in Nat
      BY <1>2
    <3>2. Cardinality(e \ {x}) = k - 1
      BY <2>2, <2>4, <3>1, FS_RemoveElement
    <3> QED BY <3>1, <3>2
  <2>6. h[e \ {x}] = count[e \ {x}]
    <3> HIDE DEF count
    <3>1. k - 1 \notin sizes
      BY <2>1, <2>5
    <3> QED BY <2>5, <3>1
  <2>7. /\ h[e] = ((s[x] + 1) % CycleRange) + h[e \ {x}]
        /\ count[e] = ((s[x] + 1) % CycleRange) + count[e \ {x}]
    <3> HIDE DEF count
    <3> QED BY <1>3, <1>5, <2>3 DEF x
  <2> HIDE DEF count
  <2> QED BY <2>2, <2>6, <2>7
<1>7. h[D] = count[D]
  <2> HIDE DEF count
  <2> QED BY <1>2, <1>6
<1> QED BY <1>5, <1>7 DEF w

-----------------------------------------------------------------------------
(* Files of cycles.                                                        *)

Ends(s) == {n \in DOMAIN s : n = Len(s) \/ s[n + 1] = 0}
SumOf(s) == MapThenSumSet(LAMBDA n : (s[n] + 1) % CycleRange, Ends(s))

LEMMA Remainder ==
  ASSUME NEW k \in Pos, NEW x \in 0 .. k - 1
  PROVE  x % k = x /\ (x + k) % k = x
<1>1. (k * 0 + x) % k = x /\ (k * 1 + x) % k = x
  BY DEF Pos
<1>2. k * 0 + x = x /\ k * 1 + x = x + k
  BY DEF Pos
<1> QED BY <1>1, <1>2

(* The last line of a tile stands for its cycles.                          *)
LEMMA LastLine ==
  ASSUME NEW c \in 0 .. CycleRange - 1
  PROVE  /\ CycleLines(c) \in Seq(0 .. CycleRange - 1)
         /\ Len(CycleLines(c)) \in {1, 2} /\ CycleLines(c)[1] = 0
         /\ Len(CycleLines(c)) = 2 => CycleLines(c)[2] # 0
         /\ (CycleLines(c)[Len(CycleLines(c))] + 1) % CycleRange = c
<1> DEFINE last == (c + CycleRange - 1) % CycleRange
<1>1. CycleRange \in Pos /\ CycleRange >= 2
  BY DEF Pos
<1>2. CASE c = 1
  <2>1. CycleLines(c) = <<0>>
    <3>1. CycleLines(c) = <<0>> \o << >>
      BY <1>2 DEF CycleLines
    <3> QED BY <3>1
  <2>2. (0 + 1) % CycleRange = 1
    <3>1. 1 \in 0 .. CycleRange - 1
      BY <1>1
    <3> QED BY <1>1, <3>1, Remainder
  <2> QED BY <1>1, <1>2, <2>1, <2>2
<1>3. CASE c # 1
  <2>2. last \in 0 .. CycleRange - 1 /\ last # 0 /\ (last + 1) % CycleRange = c
    <3>1. CASE c = 0
      <4>1. CycleRange - 1 \in 0 .. CycleRange - 1 /\ 0 \in 0 .. CycleRange - 1
        BY <1>1
      <4>2. (CycleRange - 1) % CycleRange = CycleRange - 1 /\ (0 + CycleRange) % CycleRange = 0
        BY <1>1, <4>1, Remainder
      <4>3. last = CycleRange - 1
        <5>1. c + CycleRange - 1 = CycleRange - 1
          BY <1>1, <3>1
        <5> QED BY <4>2, <5>1
      <4>4. last + 1 = 0 + CycleRange
        BY <1>1, <4>3
      <4> HIDE DEF last
      <4> QED BY <1>1, <3>1, <4>2, <4>3, <4>4
    <3>2. CASE c # 0
      <4>1. c - 1 \in 0 .. CycleRange - 1 /\ (c - 1) + CycleRange = c + CycleRange - 1
            /\ c - 1 # 0
        BY <1>1, <1>3, <3>2
      <4>2. last = c - 1
        <5>1. ((c - 1) + CycleRange) % CycleRange = c - 1
          BY <1>1, <4>1, Remainder
        <5> QED BY <4>1, <5>1
      <4>3. last + 1 = c
        BY <4>2
      <4>4. c % CycleRange = c
        BY <1>1, Remainder
      <4> HIDE DEF last
      <4> QED BY <4>1, <4>2, <4>3, <4>4
    <3> QED BY <3>1, <3>2
  <2> HIDE DEF last
  <2>3. CycleLines(c) = <<0>> \o <<last>>
    BY <1>3 DEF CycleLines, last
  <2>4. /\ <<0>> \in Seq(0 .. CycleRange - 1) /\ Len(<<0>>) = 1 /\ <<0>>[1] = 0
        /\ <<last>> \in Seq(0 .. CycleRange - 1) /\ Len(<<last>>) = 1 /\ <<last>>[1] = last
    BY <1>1, <2>2
  <2>5. /\ CycleLines(c) \in Seq(0 .. CycleRange - 1) /\ Len(CycleLines(c)) = 2
        /\ CycleLines(c)[1] = 0 /\ CycleLines(c)[2] = last
    BY <2>3, <2>4
  <2> QED BY <2>2, <2>5
<1> QED BY <1>2, <1>3

(* A tile adds one end to the file, and its cycles to the sum.             *)
LEMMA FileGrows ==
  ASSUME NEW s \in Seq(0 .. CycleRange - 1), NEW c \in 0 .. CycleRange - 1
  PROVE  /\ s \o CycleLines(c) \in Seq(0 .. CycleRange - 1)
         /\ Cardinality(Ends(s)) \in Nat /\ SumOf(s) \in Nat
         /\ Cardinality(Ends(s \o CycleLines(c))) = Cardinality(Ends(s)) + 1
         /\ SumOf(s \o CycleLines(c)) = SumOf(s) + c
<1> DEFINE x == CycleLines(c)
           u == s \o x
           m == Len(u)
<1>1. /\ x \in Seq(0 .. CycleRange - 1) /\ Len(x) \in {1, 2} /\ x[1] = 0
      /\ Len(x) = 2 => x[2] # 0
      /\ (x[Len(x)] + 1) % CycleRange = c
  BY LastLine
<1> HIDE DEF x
<1>2. /\ u \in Seq(0 .. CycleRange - 1) /\ m = Len(s) + Len(x) /\ Len(s) \in Nat
      /\ DOMAIN u = 1 .. m /\ DOMAIN s = 1 .. Len(s)
      /\ \A n \in 1 .. Len(s) : u[n] = s[n]
      /\ \A n \in 1 .. Len(x) : u[Len(s) + n] = x[n]
  BY <1>1
<1> HIDE DEF u
<1>3. u[Len(s) + 1] = 0 /\ (Len(x) = 2 => u[Len(s) + 2] # 0) /\ u[m] = x[Len(x)]
  <2>1. 1 \in 1 .. Len(x) /\ Len(x) \in 1 .. Len(x) /\ (Len(x) = 2 => 2 \in 1 .. Len(x))
    BY <1>1
  <2>2. u[Len(s) + 1] = x[1] /\ u[Len(s) + Len(x)] = x[Len(x)]
        /\ (Len(x) = 2 => u[Len(s) + 2] = x[2])
    BY <1>2, <2>1
  <2> QED BY <1>1, <1>2, <2>2
<1> HIDE DEF m
<1>0. Len(s) \in Nat /\ Len(x) \in {1, 2} /\ m = Len(s) + Len(x)
  BY <1>1, <1>2
<1>4. Ends(u) = Ends(s) \cup {m} /\ m \notin DOMAIN s /\ m \in DOMAIN u
  <2>1. m = Len(u)
    BY DEF m
  <2>2. ASSUME NEW n \in 1 .. Len(s) PROVE n \in Ends(u) <=> n \in Ends(s)
    <3>1. n \in DOMAIN u /\ n # Len(u) /\ u[n] = s[n]
      BY <1>1, <1>2, <2>1
    <3>2. CASE n = Len(s)
      <4>1. u[n + 1] = 0
        BY <1>3, <3>2
      <4>2. n \in DOMAIN s
        BY <1>2
      <4> QED BY <3>1, <3>2, <4>1, <4>2 DEF Ends
    <3>3. CASE n # Len(s)
      <4>1. n + 1 \in 1 .. Len(s)
        BY <1>0, <3>3
      <4>2. u[n + 1] = s[n + 1] /\ n \in DOMAIN s
        BY <1>2, <4>1
      <4> QED BY <3>1, <3>3, <4>2 DEF Ends
    <3> QED BY <3>2, <3>3
  <2>3. m \in Ends(u) /\ m \notin DOMAIN s /\ m \in DOMAIN u
    BY <1>1, <1>2, <2>1, SMTT(30) DEF Ends
  <2>4. ASSUME NEW n \in Ends(u), n \notin 1 .. Len(s), n # m PROVE FALSE
    <3>1. n \in 1 .. m
      BY <1>2 DEF Ends
    <3>2. Len(x) = 2 /\ n = Len(s) + 1 /\ m = Len(s) + 2
      <4>1. n \in Nat /\ n > Len(s) /\ n < m
        <5>1. n \in Nat /\ 1 <= n /\ n <= m /\ m \in Nat
          BY <1>0, <3>1
        <5> QED BY <1>0, <2>4, <5>1
      <4>2. Len(x) = 2
        <5>1. CASE Len(x) = 1
          BY <1>0, <4>1, <5>1
        <5> QED BY <1>0, <5>1
      <4>3. m = Len(s) + 2
        BY <1>0, <4>2
      <4> QED BY <1>0, <4>1, <4>2, <4>3
    <3>3. n + 1 = Len(s) + 2 /\ n # Len(u)
      BY <1>2, <2>1, <2>4, <3>2
    <3>4. u[n + 1] = 0
      BY <3>3 DEF Ends
    <3> QED BY <1>3, <3>2, <3>3, <3>4
  <2>5. \A n \in Ends(s) : n \in 1 .. Len(s)
    BY <1>2 DEF Ends
  <2> QED BY <2>2, <2>3, <2>4, <2>5
<1>5. IsFiniteSet(Ends(s)) /\ Cardinality(Ends(s)) \in Nat /\ Ends(s) \subseteq DOMAIN s
  <2>1. IsFiniteSet(1 .. Len(s))
    <3>1. 1 \in Int /\ Len(s) \in Int
      BY <1>2
    <3> QED BY <3>1, FS_Interval
  <2>2. Ends(s) \subseteq 1 .. Len(s)
    BY <1>2 DEF Ends
  <2> QED BY <1>2, <2>1, <2>2, FS_Subset, FS_CardinalityType
<1>6. IsFiniteSet(Ends(u)) /\ Cardinality(Ends(u)) = Cardinality(Ends(s)) + 1
      /\ Ends(u) \subseteq DOMAIN u
  <2>1. m \notin Ends(s)
    BY <1>4, <1>5
  <2>2. IsFiniteSet(Ends(s) \cup {m}) /\ Cardinality(Ends(s) \cup {m}) = Cardinality(Ends(s)) + 1
    BY <1>5, <2>1, FS_AddElement
  <2>3. Ends(u) \subseteq DOMAIN u
    BY DEF Ends
  <2> QED BY <1>4, <2>2, <2>3
<1>7. SumOf(s) = Cardinality(Units(Weight(s), Ends(s)))
  BY <1>5, SumIsUnits DEF SumOf
<1>8. SumOf(u) = Cardinality(Units(Weight(u), Ends(u)))
  BY <1>2, <1>6, SumIsUnits DEF SumOf
<1>9. Cardinality(Units(Weight(u), Ends(u))) = c + Cardinality(Units(Weight(u), Ends(s)))
  <2>1. m \in Ends(u) /\ Ends(u) \ {m} = Ends(s)
    BY <1>4, <1>5
  <2>2. Weight(u)[m] = c
    BY <1>1, <1>3, <1>4 DEF Weight
  <2> HIDE <1>4
  <2> QED BY <1>6, <2>1, <2>2, UnitsOneMore
<1>10. Units(Weight(u), Ends(s)) = Units(Weight(s), Ends(s))
  <2>1. \A n \in Ends(s) : Weight(u)[n] = Weight(s)[n]
    <3> TAKE n \in Ends(s)
    <3>1. n \in 1 .. Len(s) /\ n \in DOMAIN s /\ n \in DOMAIN u /\ u[n] = s[n]
      BY <1>1, <1>2, <1>5
    <3> QED BY <3>1 DEF Weight
  <2> QED BY <2>1 DEF Units
<1>11. SumOf(s) \in Nat
  BY <1>5, <1>7, UnitsFinite
<1>12. SumOf(u) = SumOf(s) + c
  BY <1>7, <1>8, <1>9, <1>10, <1>11
<1> QED BY <1>2, <1>5, <1>6, <1>11, <1>12 DEF u, x

-----------------------------------------------------------------------------
(* Cycles of a row.                                                        *)

Weights(a, q) == Min({a.systolic_height, q.filter_height})

(* The cycles of the first s steps of a row.                               *)
Count(a, q, s) ==
  CASE q.type = "Conv" -> a.unit_compute * s
    [] q.type = "Dir_Tile_Gemm" -> a.unit_compute * (s + IF s = 0 THEN 0 ELSE Weights(a, q))
    [] q.type = "Ineff_Dir_Tile_Gemm" ->
         a.unit_compute * s * (Weights(a, q) + IneffDirCycles(a, q))
    [] q.type = "Gemv" -> IF s = 0 THEN 0 ELSE a.unit_compute * GemvCycles(a, q)
    [] q.type = "Other" -> IF s = 0 THEN 0 ELSE FullRounds(a, q) * q.stride
    [] OTHER -> 0

LEMMA CountOfNone ==
  ASSUME NEW a \in Arch, NEW q, RowOK(q)
  PROVE  Count(a, q, 0) = 0
<1>1. a.unit_compute \in Pos /\ a.systolic_height \in Pos /\ a.systolic_width \in Pos
  BY DEF Arch, Pos
<1>2. CASE q.type = "Ineff_Dir_Tile_Gemm"
  <2> DEFINE x == Weights(a, q) + IneffDirCycles(a, q)
  <2>1. x \in Int
    <3>1. /\ q.filter_height \in Pos /\ q.filter_width \in Pos
          /\ q.ifmap_height \in Pos /\ q.ifmap_width \in Pos
      BY <1>2 DEF RowOK
    <3>2. Weights(a, q) \in Int
      BY <1>1, <3>1, MinOfTwo DEF Weights, Pos
    <3>3. Min({a.systolic_width, q.filter_width}) \in Int
      BY <1>1, <3>1, MinOfTwo DEF Pos
    <3>4. IneffDirCycles(a, q) \in Int
      BY <3>1, <3>3 DEF IneffDirCycles, Pos
    <3> QED BY <3>2, <3>4
  <2>2. Count(a, q, 0) = a.unit_compute * 0 * x
    BY <1>2 DEF Count
  <2> HIDE DEF x
  <2> QED BY <1>1, <2>1, <2>2 DEF Pos
<1>3. CASE q.type \in {"Conv", "Dir_Tile_Gemm"}
  BY <1>1, <1>3 DEF Count, Pos
<1>4. CASE q.type \in {"Gemv", "Other"} \cup Uncounted
  BY <1>4 DEF Count, Uncounted
<1> QED BY <1>2, <1>3, <1>4 DEF RowOK, RowTypes, Uncounted

(* A step adds what is counted before and after its lines are considered.  *)
LEMMA CountOfStep ==
  ASSUME NEW a \in Arch, NEW q, RowOK(q), NEW s \in Nat, Live(a, q, s),
         Count(a, q, s + 1) \in Nat
  PROVE  /\ Count(a, q, s) \in Nat
         /\ CyclesBefore(a, q, s) \in Nat /\ CyclesAfter(a, q) \in Nat
         /\ Count(a, q, s + 1) = Count(a, q, s) + CyclesBefore(a, q, s) + CyclesAfter(a, q)
         /\ q.type \in Uncounted => CyclesBefore(a, q, s) = 0
         /\ q.type # "Conv" => CyclesAfter(a, q) = 0
<1> DEFINE u == a.unit_compute
           w == Weights(a, q)
<1>1. u \in Pos /\ a.systolic_height \in Pos /\ a.systolic_width \in Pos
  BY DEF Arch, Pos
<1>2. q.type \in {"Dir_Tile_Gemm", "Ineff_Dir_Tile_Gemm"} => w \in Pos
  <2> SUFFICES ASSUME q.type \in {"Dir_Tile_Gemm", "Ineff_Dir_Tile_Gemm"} PROVE w \in Pos
    OBVIOUS
  <2>1. q.filter_height \in Pos
    BY DEF RowOK
  <2> QED BY <1>1, <2>1, MinOfTwo DEF Weights, Pos
<1>3. CASE q.type = "Conv"
  <2>1. /\ Count(a, q, s) = u * s /\ Count(a, q, s + 1) = u * (s + 1)
        /\ CyclesBefore(a, q, s) = 0 /\ CyclesAfter(a, q) = u
    BY <1>3 DEF Count, CyclesBefore, CyclesAfter
  <2> HIDE DEF u
  <2> QED BY <1>1, <1>3, <2>1 DEF Pos, Uncounted
<1>4. CASE q.type = "Dir_Tile_Gemm"
  <2>1. /\ Count(a, q, s) = u * (s + IF s = 0 THEN 0 ELSE w)
        /\ Count(a, q, s + 1) = u * (s + 1 + w)
        /\ CyclesBefore(a, q, s) = u * (1 + IF s = 0 THEN w ELSE 0) /\ CyclesAfter(a, q) = 0
    BY <1>4 DEF Count, CyclesBefore, CyclesAfter, Weights
  <2> HIDE DEF u, w
  <2>2. CASE s = 0
    <3>1. /\ Count(a, q, s) = u * 0 /\ Count(a, q, s + 1) = u * (1 + w)
          /\ CyclesBefore(a, q, s) = u * (1 + w)
      BY <1>2, <1>4, <2>1, <2>2 DEF Pos
    <3>2. u * 0 = 0 /\ u * (1 + w) \in Nat
      BY <1>1, <1>2, <1>4 DEF Pos
    <3>3. CyclesAfter(a, q) = 0
      BY <2>1
    <3> HIDE <2>1
    <3> QED BY <1>4, <3>1, <3>2, <3>3 DEF Uncounted
  <2>3. CASE s # 0
    <3>1. /\ Count(a, q, s) = u * (s + w) /\ CyclesBefore(a, q, s) = u * 1
      BY <2>1, <2>3
    <3>2. u * (s + 1 + w) = u * (s + w) + u * 1 + 0 /\ u * (s + w) \in Nat /\ u * 1 \in Nat
      BY <1>1, <1>2, <1>4 DEF Pos
    <3>3. Count(a, q, s) \in Nat /\ CyclesBefore(a, q, s) \in Nat
      BY <3>1, <3>2
    <3>4. Count(a, q, s + 1) = Count(a, q, s) + CyclesBefore(a, q, s) + CyclesAfter(a, q)
      <4>1. Count(a, q, s + 1) = u * (s + 1 + w) /\ CyclesAfter(a, q) = 0
        BY <2>1
      <4> HIDE <2>1
      <4> QED BY <3>1, <3>2, <4>1, Zenon
    <3> QED BY <1>4, <2>1, <3>3, <3>4 DEF Uncounted
  <2> QED BY <2>2, <2>3
<1>5. CASE q.type = "Ineff_Dir_Tile_Gemm"
  <2> DEFINE x == w + IneffDirCycles(a, q)
  <2>1. x \in Nat
    <3>1. q.filter_width \in Pos /\ q.ifmap_height \in Pos /\ q.ifmap_width \in Pos
      BY <1>5 DEF RowOK
    <3>2. Min({a.systolic_width, q.filter_width}) \in Pos
      BY <1>1, <3>1, MinOfTwo DEF Pos
    <3> HIDE DEF w
    <3>3. IneffDirCycles(a, q) \in Nat
      BY <3>1, <3>2 DEF IneffDirCycles, Pos
    <3> QED BY <1>2, <1>5, <3>3 DEF Pos
  <2>2. /\ Count(a, q, s) = u * s * x /\ Count(a, q, s + 1) = u * (s + 1) * x
        /\ CyclesBefore(a, q, s) = u * x /\ CyclesAfter(a, q) = 0
    BY <1>5 DEF Count, CyclesBefore, CyclesAfter, Weights
  <2> HIDE DEF u, x
  <2>3. u * s * x \in Nat /\ u * x \in Nat /\ u * (s + 1) * x = u * s * x + u * x
    BY <1>1, <2>1 DEF Pos
  <2> QED BY <1>5, <2>2, <2>3 DEF Uncounted
<1>6. CASE q.type = "Gemv"
  <2>1. s = 0
    BY <1>6 DEF Live
  <2>2. /\ Count(a, q, s) = 0 /\ Count(a, q, s + 1) = u * GemvCycles(a, q)
        /\ CyclesBefore(a, q, s) = u * GemvCycles(a, q) /\ CyclesAfter(a, q) = 0
    BY <1>6, <2>1 DEF Count, CyclesBefore, CyclesAfter
  <2> QED BY <1>6, <2>2 DEF Uncounted
<1>7. CASE q.type = "Other"
  <2>1. s = 0
    BY <1>7 DEF Live
  <2>2. /\ Count(a, q, s) = 0 /\ Count(a, q, s + 1) = FullRounds(a, q) * q.stride
        /\ CyclesBefore(a, q, s) = FullRounds(a, q) * q.stride /\ CyclesAfter(a, q) = 0
    BY <1>7, <2>1 DEF Count, CyclesBefore, CyclesAfter
  <2> QED BY <1>7, <2>2 DEF Uncounted
<1>8. CASE q.type \in Uncounted
  BY <1>8 DEF Count, CyclesBefore, CyclesAfter, Uncounted
<1> QED BY <1>3, <1>4, <1>5, <1>6, <1>7, <1>8 DEF RowOK, RowTypes, Uncounted


-----------------------------------------------------------------------------
(* The counter, between two steps.                                         *)

CountFits == Count(arch, r, t) \in 0 .. CycleRange - 1

(* The first row finds a counter that was not initialized; if it counts no *)
(* cycles, that is what its tiles get.                                     *)
Inherits == row = 1 /\ r.type \in Uncounted

Tallied ==
  /\ sram \in Seq(0 .. CycleRange - 1)
  /\ pre_local_cycle \in 0 .. CycleRange - 1
  /\ Cardinality(TileEnds) = Len(tiles)
  /\ Inherits \/ LocalCycles + pre_local_cycle = Count(arch, r, t)

Counted ==
  /\ \E S : tiles \in Seq(S)
  /\ stage = "config" => row = 0 /\ pre_local_cycle \in 0 .. CycleRange - 1
  /\ stage = "written" => pre_local_cycle = 0 /\ ~Live(arch, r, t)
  /\ stage # "config" /\ CountFits => Tallied

LEMMA LocalIsSum == LocalCycles = SumOf(sram)
  BY Zenon DEF LocalCycles, SumOf, TileEnds, Ends

LEMMA LocalIsSumNext == LocalCycles' = SumOf(sram')
<1>1. (LocalCycles = SumOf(sram))'
  BY LocalIsSum, PTL
<1> QED BY <1>1

(* A tile is one line of addresses and one end of a run of cycles.         *)
LEMMA TileCounts ==
  ASSUME Tallied, NEW S, tiles \in Seq(S), NEW tile, NEW c \in 0 .. CycleRange - 1,
         tiles' = Append(tiles, tile), sram' = sram \o CycleLines(c)
  PROVE  /\ \E U : tiles' \in Seq(U)
         /\ sram' \in Seq(0 .. CycleRange - 1)
         /\ Cardinality(TileEnds)' = Len(tiles')
         /\ LocalCycles \in Nat /\ LocalCycles' = LocalCycles + c
<1>1. tiles' \in Seq(S \cup {tile}) /\ Len(tiles') = Len(tiles) + 1
  <2>1. tiles \in Seq(S \cup {tile})
    OBVIOUS
  <2> QED BY <2>1
<1>2. TileEnds = Ends(sram) /\ TileEnds' = Ends(sram')
  BY DEF TileEnds, Ends
<1>3. LocalCycles = SumOf(sram) /\ LocalCycles' = SumOf(sram')
  BY LocalIsSum, LocalIsSumNext
<1>4. /\ sram' \in Seq(0 .. CycleRange - 1)
      /\ Cardinality(Ends(sram)) \in Nat /\ SumOf(sram) \in Nat
      /\ Cardinality(Ends(sram')) = Cardinality(Ends(sram)) + 1
      /\ SumOf(sram') = SumOf(sram) + c
  BY FileGrows DEF Tallied
<1>5. Cardinality(TileEnds)' = Cardinality(Ends(sram'))
  BY <1>2
<1> QED BY <1>1, <1>2, <1>3, <1>4, <1>5 DEF Tallied


LEMMA CountedInit == Init => Counted
<1> SUFFICES ASSUME Init PROVE Counted
  OBVIOUS
<1>1. tiles \in Seq({})
  BY DEF Init
<1> QED BY <1>1 DEF Init, Counted

LEMMA CountedStep == Configured /\ Counted /\ [Next]_vars => Counted'
<1> SUFFICES ASSUME Configured, Counted, [Next]_vars PROVE Counted'
  OBVIOUS
<1>0. arch \in Arch
  BY ArchAssumption DEF Configured
<1>1. ASSUME ConfigLayer PROVE Counted'
  <2>1. stage = "config" /\ stage' = "config" /\ UNCHANGED <<row, pre_local_cycle, tiles>>
    BY <1>1 DEF ConfigLayer, files
  <2> QED BY <2>1 DEF Counted
<1>2. ASSUME SetVariable PROVE Counted'
  <2>1. /\ stage # "computing" /\ stage' = "computing" /\ row' = row + 1 /\ t' = 0
        /\ arch' = arch /\ config' = config /\ row + 1 \in 1 .. Len(config)
        /\ tiles' = << >> /\ sram' = << >>
    <3>1. Len(config) \in Nat
      BY RowsAreSequence DEF Configured
    <3> QED BY <1>2, <3>1 DEF SetVariable, Configured
  <2>2. RowOK(config[row + 1]) /\ r' = config[row + 1]
    <3>1. RowOK(config[row + 1])
      BY <2>1, RowsAreSequence DEF Configured
    <3>2. r' = config'[row']
      BY DEF r
    <3> QED BY <2>1, <3>1, <3>2
  <2>3. pre_local_cycle' \in 0 .. CycleRange - 1
        /\ (Inherits' \/ pre_local_cycle' = 0)
    <3>1. CASE config[row + 1].type \in Uncounted
      <4>1. pre_local_cycle' = pre_local_cycle
        BY <1>2, <3>1 DEF SetVariable
      <4>2. CASE stage = "config"
        <5>1. row' = 1 /\ pre_local_cycle \in 0 .. CycleRange - 1
          BY <2>1, <4>2 DEF Counted
        <5> QED BY <2>2, <3>1, <4>1, <5>1 DEF Inherits
      <4>3. CASE stage # "config"
        <5>1. stage = "written"
          BY <2>1, <4>3 DEF Configured
        <5> QED BY <4>1, <5>1 DEF Counted
      <4> QED BY <4>2, <4>3
    <3>2. CASE config[row + 1].type \notin Uncounted
      BY <1>2, <3>2 DEF SetVariable
    <3> QED BY <3>1, <3>2
  <2>4. Count(arch, r, t)' = 0
    <3>1. Count(arch, r, t)' = Count(arch, config[row + 1], 0)
      BY <2>1, <2>2
    <3> QED BY <1>0, <2>2, <3>1, CountOfNone
  <2>5. sram' \in Seq(0 .. CycleRange - 1) /\ tiles' \in Seq({}) /\ Len(tiles') = 0
    BY <2>1
  <2>6. Cardinality(TileEnds)' = 0 /\ LocalCycles' = 0
    <3>1. TileEnds' = {}
      BY <2>1 DEF TileEnds
    <3>2. Cardinality(TileEnds)' = Cardinality(TileEnds')
      OBVIOUS
    <3>3. LocalCycles' = SumOf(sram')
      BY LocalIsSumNext
    <3>4. SumOf(sram') = Cardinality(Units(Weight(sram'), Ends(sram')))
      <4>1. Ends(sram') \in SUBSET DOMAIN sram'
        BY DEF Ends
      <4> QED BY <2>5, <4>1, SumIsUnits DEF SumOf
    <3>5. Units(Weight(sram'), Ends(sram')) = {}
      <4>1. Ends(sram') = {}
        BY <2>1 DEF Ends
      <4> QED BY <4>1 DEF Units
    <3> QED BY <3>1, <3>2, <3>3, <3>4, <3>5, FS_EmptySet
  <2>7. Tallied'
    <3>1. Inherits' \/ LocalCycles' + pre_local_cycle' = Count(arch, r, t)'
      <4>1. CASE pre_local_cycle' = 0
        <5>1. LocalCycles' + pre_local_cycle' = 0
          BY <2>6, <4>1
        <5> QED BY <2>4, <5>1
      <4> QED BY <2>3, <4>1
    <3> QED BY <2>3, <2>5, <2>6, <3>1 DEF Tallied
  <2> QED BY <2>1, <2>5, <2>7 DEF Counted
<1>3. ASSUME ComputeStep PROVE Counted'
  <2> DEFINE q == r
             s == t
             before == CyclesBefore(arch, q, s)
             after == CyclesAfter(arch, q)
             P == pre_local_cycle
  <2>1. /\ stage = "computing" /\ stage' = "computing" /\ t' = t + 1 /\ t \in Nat
        /\ arch' = arch /\ config' = config /\ row' = row /\ Live(arch, q, s)
    BY <1>3 DEF ComputeStep, Configured
  <2>2. RowOK(q) /\ r' = q
    <3>1. row \in 1 .. Len(config) /\ RowsOK(config)
      BY <2>1 DEF Configured
    <3>2. RowOK(q)
      BY <3>1, RowsAreSequence DEF r
    <3> QED BY <2>1, <3>2 DEF r
  <2>3. PICK S : tiles \in Seq(S)
    BY DEF Counted
  <2>4. ASSUME CountFits' PROVE Tallied' /\ \E U : tiles' \in Seq(U)
    <3>1. Count(arch, q, s + 1) \in 0 .. CycleRange - 1
      BY <2>1, <2>2, <2>4 DEF CountFits
    <3>2. /\ Count(arch, q, s) \in Nat /\ before \in Nat /\ after \in Nat
          /\ Count(arch, q, s + 1) = Count(arch, q, s) + before + after
          /\ q.type \in Uncounted => before = 0
          /\ q.type # "Conv" => after = 0
      <4>1. Count(arch, q, s + 1) \in Nat
        BY <3>1
      <4> QED BY <1>0, <2>1, <2>2, <4>1, CountOfStep
    <3> HIDE DEF before, after
    <3>3. Tallied
      <4>1. Count(arch, q, s) \in 0 .. CycleRange - 1
        BY <3>1, <3>2
      <4> QED BY <2>1, <4>1 DEF Counted, CountFits
    <3>4. Count(arch, r, t)' = Count(arch, q, s + 1) /\ Inherits' = Inherits
      BY <2>1, <2>2 DEF Inherits
    <3>5. P \in 0 .. CycleRange - 1 /\ (Inherits \/ LocalCycles + P = Count(arch, q, s))
      BY <3>3 DEF Tallied
    <3>6. LocalCycles \in Nat
      <4>1. LocalCycles = SumOf(sram)
        BY LocalIsSum
      <4>2. sram \in Seq(0 .. CycleRange - 1) /\ 0 \in 0 .. CycleRange - 1
        BY <3>3 DEF Tallied
      <4> QED BY <4>1, <4>2, FileGrows
    <3>7. Inherits => before = 0 /\ after = 0
      BY <3>2 DEF Inherits, Uncounted
    <3>8. P + before \in 0 .. CycleRange - 1 /\ after \in 0 .. CycleRange - 1
          /\ P + before + after \in 0 .. CycleRange - 1
      <4>1. CASE Inherits
        BY <3>5, <3>7, <4>1
      <4>2. CASE ~Inherits
        BY <3>1, <3>2, <3>5, <3>6, <4>2
      <4> QED BY <4>1, <4>2
    <3>9. CASE pre_local_cycle' = P + before + after /\ UNCHANGED <<tiles, sram>>
      <4>1. LocalCycles' = LocalCycles /\ TileEnds' = TileEnds
        BY <3>9, LocalIsSum, LocalIsSumNext DEF TileEnds
      <4>2. Inherits' \/ LocalCycles' + pre_local_cycle' = Count(arch, r, t)'
        BY <3>2, <3>4, <3>5, <3>6, <3>9, <4>1
      <4> QED BY <2>3, <3>3, <3>8, <3>9, <4>1, <4>2 DEF Tallied
    <3>10. ASSUME NEW tile, tiles' = Append(tiles, tile), sram' = sram \o CycleLines(P + before),
                  pre_local_cycle' = after
           PROVE  Tallied' /\ \E U : tiles' \in Seq(U)
      <4>1. /\ \E U : tiles' \in Seq(U)
            /\ sram' \in Seq(0 .. CycleRange - 1)
            /\ Cardinality(TileEnds)' = Len(tiles')
            /\ LocalCycles' = LocalCycles + (P + before)
        BY <2>3, <3>3, <3>8, <3>10, TileCounts
      <4>2. Inherits' \/ LocalCycles' + pre_local_cycle' = Count(arch, r, t)'
        BY <3>2, <3>4, <3>5, <3>6, <3>10, <4>1
      <4> QED BY <3>8, <3>10, <4>1, <4>2 DEF Tallied
    <3>11. \/ pre_local_cycle' = P + before + after /\ UNCHANGED <<tiles, sram>>
           \/ /\ pre_local_cycle' = after
              /\ \E tile : tiles' = Append(tiles, tile) /\ sram' = sram \o CycleLines(P + before)
      BY <1>3, <3>2 DEF ComputeStep, TileOutput, files, before, after
    <3> QED BY <3>9, <3>10, <3>11
  <2>5. \E U : tiles' \in Seq(U)
    <3>1. tiles' = tiles \/ \E tile : tiles' = Append(tiles, tile)
      BY <1>3 DEF ComputeStep, TileOutput, files
    <3>2. \A tile : Append(tiles, tile) \in Seq(S \cup {tile})
      <4> TAKE tile
      <4>1. tiles \in Seq(S \cup {tile})
        BY <2>3
      <4> QED BY <4>1
    <3> QED BY <2>3, <3>1, <3>2
  <2> QED BY <2>1, <2>4, <2>5 DEF Counted
<1>4. ASSUME EndLayer PROVE Counted'
  <2>1. /\ stage = "computing" /\ stage' = "written" /\ pre_local_cycle' = 0
        /\ arch' = arch /\ config' = config /\ row' = row /\ t' = t /\ ~Live(arch, r, t)
        /\ \E tile : tiles' = Append(tiles, tile)
        /\ sram' = sram \o CycleLines(pre_local_cycle)
    BY <1>4 DEF EndLayer, TileOutput
  <2>2. PICK S : tiles \in Seq(S)
    BY DEF Counted
  <2>3. PICK tile : tiles' = Append(tiles, tile)
    BY <2>1
  <2>4. r' = r
    BY <2>1 DEF r
  <2>5. ~Live(arch, r, t)'
    BY <2>1, <2>4
  <2>6. ASSUME CountFits' PROVE Tallied'
    <3>1. Tallied
      BY <2>1, <2>4, <2>6 DEF CountFits, Counted
    <3>2. pre_local_cycle \in 0 .. CycleRange - 1
      BY <3>1 DEF Tallied
    <3>3. /\ sram' \in Seq(0 .. CycleRange - 1)
          /\ Cardinality(TileEnds)' = Len(tiles')
          /\ LocalCycles \in Nat /\ LocalCycles' = LocalCycles + pre_local_cycle
      BY <2>1, <2>2, <2>3, <3>1, <3>2, TileCounts
    <3>4. Count(arch, r, t)' = Count(arch, r, t) /\ Inherits' = Inherits
      BY <2>1, <2>4 DEF Inherits
    <3>5. Inherits' \/ LocalCycles' + pre_local_cycle' = Count(arch, r, t)'
      <4>1. Inherits \/ LocalCycles + pre_local_cycle = Count(arch, r, t)
        BY <3>1 DEF Tallied
      <4> QED BY <2>1, <3>2, <3>3, <3>4, <4>1
    <3> QED BY <2>1, <3>3, <3>5 DEF Tallied
  <2>7. \E U : tiles' \in Seq(U)
    <3>1. tiles \in Seq(S \cup {tile})
      BY <2>2
    <3> QED BY <2>3, <3>1
  <2> QED BY <2>1, <2>5, <2>6, <2>7 DEF Counted
<1>5. ASSUME UNCHANGED vars PROVE Counted'
  <2>1. /\ UNCHANGED <<arch, config, row, t, stage, pre_local_cycle, tiles, sram>> /\ r' = r
        /\ TileEnds' = TileEnds
    BY <1>5 DEF vars, r, TileEnds
  <2>2. LocalCycles' = LocalCycles
    BY <2>1, LocalIsSum, LocalIsSumNext
  <2> QED BY <2>1, <2>2 DEF Counted, CountFits, Tallied, Inherits
<1> QED BY <1>1, <1>2, <1>3, <1>4, <1>5 DEF Next, Terminated


(* When its cycles fit the counter, a row's files hold a tile for each line *)
(* of addresses, and npu_accelerator::calcCycle, which reads them, adds up  *)
(* unit_compute times the cycles that were counted and, for each tile, the  *)
(* time through the array.                                                  *)
THEOREM CyclesReadBackHolds == Spec => [](CountFits => CyclesReadBack)
<1>1. Init => Configured /\ Counted
  BY ConfiguredInit, CountedInit
<1>2. Configured /\ Counted /\ [Next]_vars => (Configured /\ Counted)'
  BY ConfiguredStep, CountedStep
<1>3. Configured /\ Counted => (CountFits => CyclesReadBack)
  <2> SUFFICES ASSUME Configured, Counted, CountFits, stage = "written"
               PROVE  CyclesReadBack
    BY DEF CyclesReadBack
  <2> DEFINE q == r
             counted ==
               CASE q.type = "Conv" -> arch.unit_compute * t
                 [] q.type = "Dir_Tile_Gemm" ->
                      arch.unit_compute * (t + Min({arch.systolic_height, q.filter_height}))
                 [] q.type = "Ineff_Dir_Tile_Gemm" ->
                      arch.unit_compute * t * (Min({arch.systolic_height, q.filter_height})
                                                 + IneffDirCycles(arch, q))
                 [] q.type = "Gemv" -> arch.unit_compute * GemvCycles(arch, q)
                 [] q.type = "Other" -> FullRounds(arch, q) * q.stride
                 [] q.type \in Uncounted -> 0
  <2>1. Tallied /\ pre_local_cycle = 0 /\ ~Live(arch, q, t)
    BY DEF Counted
  <2>2. RowOK(q) /\ row \in Nat /\ row >= 1
    <3>1. row \in 1 .. Len(config) /\ RowsOK(config) /\ Len(config) \in Nat
      BY RowsAreSequence DEF Configured
    <3> QED BY <3>1, RowsAreSequence DEF r
  <2>3. arch \in Arch /\ t \in Nat
    BY ArchAssumption DEF Configured
  <2>4. LocalCycles \in Nat
    <3>1. LocalCycles = SumOf(sram)
      BY LocalIsSum
    <3>2. sram \in Seq(0 .. CycleRange - 1) /\ 0 \in 0 .. CycleRange - 1
      BY <2>1 DEF Tallied
    <3> QED BY <3>1, <3>2, FileGrows
  <2>5. Cardinality(TileEnds) = Len(tiles)
    BY <2>1 DEF Tallied
  <2>6. ~Inherits => LocalCycles = Count(arch, q, t)
    <3> SUFFICES ASSUME ~Inherits PROVE LocalCycles = Count(arch, q, t)
      OBVIOUS
    <3>1. LocalCycles + pre_local_cycle = Count(arch, q, t)
      BY <2>1 DEF Tallied
    <3> QED BY <2>1, <2>4, <3>1
  <2>7. ~Inherits => Count(arch, q, t) = counted
    <3>1. CASE q.type = "Conv"
      BY <3>1 DEF Count, Uncounted
    <3>2. CASE q.type = "Dir_Tile_Gemm"
      <4>1. t # 0
        <5>1. q.ifmap_height \in Pos /\ q.ifmap_width \in Pos /\ arch.systolic_width \in Pos
          BY <2>2, <2>3, <3>2 DEF RowOK, Arch, Pos
        <5>2. Min({arch.systolic_width, q.ifmap_width}) \in Pos
          BY <5>1, MinOfTwo DEF Pos
        <5>3. 0 < q.ifmap_height + Min({arch.systolic_width, q.ifmap_width})
          BY <5>1, <5>2 DEF Pos
        <5>4. Live(arch, q, 0)
          BY <3>2, <5>3 DEF Live, DirLive
        <5> QED BY <2>1, <5>4
      <4> QED BY <3>2, <4>1 DEF Count, Weights, Uncounted
    <3>3. CASE q.type = "Ineff_Dir_Tile_Gemm"
      BY <3>3 DEF Count, Weights, Uncounted
    <3>4. CASE q.type = "Gemv"
      <4>1. t # 0
        BY <2>1, <3>4 DEF Live
      <4> QED BY <3>4, <4>1 DEF Count, Uncounted
    <3>5. CASE q.type = "Other"
      <4>1. t # 0
        BY <2>1, <3>5 DEF Live
      <4> QED BY <3>5, <4>1 DEF Count, Uncounted
    <3>6. CASE q.type \in Uncounted
      BY <3>6 DEF Count, Uncounted
    <3> QED BY <2>2, <3>1, <3>2, <3>3, <3>4, <3>5, <3>6 DEF RowOK, RowTypes, Uncounted
  <2> HIDE DEF counted
  <2>8. ~Inherits =>
          ReadBack = (arch.unit_compute * (counted + Passage(Len(tiles)))) % CycleRange
    BY <2>5, <2>6, <2>7 DEF ReadBack
  <2> QED BY <2>5, <2>8 DEF CyclesReadBack, counted, Inherits
<1> QED BY <1>1, <1>2, <1>3, PTL DEF Spec

-----------------------------------------------------------------------------
(* Numbers: induction, division, products.                                 *)

(* Every set of numbers has a least one.                                   *)
LEMMA LeastNumber ==
  ASSUME NEW T \in SUBSET Nat, T # {}
  PROVE  \E k \in T : \A j \in T : k <= j
<1> DEFINE R == OpToRel(<, Nat)
<1>1. IsWellFoundedOn(R, Nat)
  BY NatLessThanWellFounded
<1>2. \A m, n \in Nat : m < n => <<m, n>> \in R
  BY DEF OpToRel
<1> HIDE DEF R
<1>3. PICK k \in T : \A j \in T : ~ (<<j, k>> \in R)
  BY <1>1, WFMin
<1>4. \A j \in T : j \in Nat /\ k \in Nat /\ ~(j < k)
  BY <1>2, <1>3
<1> QED BY <1>4

(* Induction: a set that holds 0 and with every number the next one.       *)
LEMMA NumbersInduction ==
  ASSUME NEW T, 0 \in T, \A n \in Nat : n \in T => n + 1 \in T
  PROVE  \A n \in Nat : n \in T
<1> SUFFICES ASSUME {n \in Nat : n \notin T} # {} PROVE FALSE
  OBVIOUS
<1>1. PICK k \in {n \in Nat : n \notin T} : \A j \in {n \in Nat : n \notin T} : k <= j
  BY LeastNumber
<1>2. k # 0 /\ k - 1 \in Nat
  BY <1>1
<1>3. k - 1 \in T
  BY <1>1, <1>2
<1> QED BY <1>1, <1>2, <1>3

(* Division.                                                               *)
LEMMA DivMod ==
  ASSUME NEW x \in Nat, NEW k \in Pos
  PROVE  /\ x \div k \in Nat /\ x % k \in 0 .. k - 1
         /\ x = k * (x \div k) + (x % k)
  BY DEF Pos

(* Quotient and remainder are the only ones.                               *)
LEMMA DivUnique ==
  ASSUME NEW k \in Pos, NEW q \in Nat, NEW m \in 0 .. k - 1
  PROVE  (k * q + m) \div k = q /\ (k * q + m) % k = m
  BY DEF Pos

(* A quotient is below m when the number is below m divisors.              *)
LEMMA DivBound ==
  ASSUME NEW x \in Nat, NEW k \in Pos, NEW m \in Nat, x < k * m
  PROVE  x \div k < m
  BY DEF Pos

(* Multiplication.                                                         *)
LEMMA NatProduct ==
  ASSUME NEW x \in Nat, NEW y \in Nat
  PROVE  x * y \in Nat
  OBVIOUS

(* Products commute.                                                       *)
LEMMA Commutes ==
  ASSUME NEW x \in Int, NEW y \in Int
  PROVE  x * y = y * x
  OBVIOUS

(* Products associate.                                                     *)
LEMMA Associates ==
  ASSUME NEW x \in Int, NEW y \in Int, NEW z \in Int
  PROVE  (x * y) * z = x * (y * z)
  OBVIOUS

(* Products distribute over sums and differences.                          *)
LEMMA Distributes ==
  ASSUME NEW x \in Int, NEW y \in Int, NEW z \in Int
  PROVE  (x + y) * z = x * z + y * z /\ z * (x + y) = z * x + z * y
         /\ (x - y) * z = x * z - y * z /\ z * (x - y) = z * x - z * y
  OBVIOUS

(* A product with a number not below zero keeps <=.                        *)
LEMMA Monotone ==
  ASSUME NEW x \in Int, NEW y \in Int, NEW z \in Nat, x <= y
  PROVE  x * z <= y * z /\ z * x <= z * y
  OBVIOUS

(* A product with a positive number keeps <.                               *)
LEMMA StrictlyMonotone ==
  ASSUME NEW x \in Int, NEW y \in Int, NEW z \in Pos, x < y
  PROVE  x * z < y * z /\ z * x < z * y
  BY DEF Pos

-----------------------------------------------------------------------------
(* A dimension cut into parts, the last of which may be smaller.           *)
Part(n, step, whole) == Min({step, whole - step * n})
Bands(s, A) == 0 .. CeilDiv(A, s) - 1

(* Every part lies in the dimension, all but the last are of one size.     *)
LEMMA PartSize ==
  ASSUME NEW step \in Pos, NEW whole \in Pos, NEW n \in 0 .. CeilDiv(whole, step) - 1
  PROVE  /\ step * n \in Nat
         /\ Part(n, step, whole) \in 1 .. step
         /\ step * n + Part(n, step, whole) <= whole
         /\ Part(n, step, whole) = IF n = CeilDiv(whole, step) - 1 THEN whole - step * n ELSE step
<1> DEFINE C == CeilDiv(whole, step)
<1>1. C \in Pos /\ step * (C - 1) < whole /\ whole <= step * C
  BY DEF CeilDiv, Pos
<1> HIDE DEF C
<1>2. n \in Nat /\ n <= C - 1
  BY <1>1 DEF C, Pos
<1>3. step * n \in Nat /\ step * n <= step * (C - 1)
  BY <1>1, <1>2, Monotone, NatProduct DEF Pos
<1>4. step * n + step = step * (n + 1)
  BY <1>2 DEF Pos
<1>5. n # C - 1 => step * (n + 1) <= step * (C - 1)
  BY <1>1, <1>2, Monotone DEF Pos
<1>6. n = C - 1 => n + 1 = C
  BY <1>1 DEF Pos
<1>7. step * (C - 1) \in Int /\ step * C \in Int /\ step * (n + 1) \in Int
  BY <1>1, <1>2 DEF Pos
<1>8. Part(n, step, whole) = IF step <= whole - step * n THEN step ELSE whole - step * n
  BY <1>3, MinOfTwo DEF Part, Pos
<1> QED BY <1>1, <1>3, <1>4, <1>5, <1>6, <1>7, <1>8 DEF C, Pos

(* Parts of c elements each lie one behind the other and fill the whole.   *)
LEMMA PartsInOrder ==
  ASSUME NEW step \in Pos, NEW whole \in Pos, NEW c \in Pos,
         NEW n \in 0 .. CeilDiv(whole, step) - 1
  PROVE  /\ (step * n) * c \in Nat
         /\ Part(n, step, whole) * c \in Pos
         /\ (step * n) * c + Part(n, step, whole) * c <= whole * c
         /\ \A m \in 0 .. CeilDiv(whole, step) - 1 :
              n < m => (step * n) * c + Part(n, step, whole) * c <= (step * m) * c
<1>1. /\ step * n \in Nat /\ Part(n, step, whole) \in Pos
      /\ step * n + Part(n, step, whole) <= whole
  BY PartSize DEF Pos
<1>2. (step * n) * c \in Nat
  BY <1>1, NatProduct DEF Pos
<1>3. Part(n, step, whole) * c \in Pos
  BY <1>1, PosProduct
<1>4. (step * n) * c + Part(n, step, whole) * c = (step * n + Part(n, step, whole)) * c
  BY <1>1, Distributes DEF Pos
<1>5. (step * n + Part(n, step, whole)) * c <= whole * c
  BY <1>1, Monotone DEF Pos
<1>6. ASSUME NEW m \in 0 .. CeilDiv(whole, step) - 1, n < m
      PROVE  (step * n) * c + Part(n, step, whole) * c <= (step * m) * c
  <2>1. step * n + step = step * (n + 1) /\ n + 1 <= m
    BY <1>6 DEF Pos
  <2>2. step * (n + 1) <= step * m
    BY <2>1, Monotone DEF Pos
  <2>3. Part(n, step, whole) <= step
    BY PartSize
  <2>4. step * n + Part(n, step, whole) <= step * m
    BY <1>1, <2>1, <2>2, <2>3 DEF Pos
  <2> QED BY <1>1, <1>4, <2>4, Monotone DEF Pos
<1> QED BY <1>2, <1>3, <1>4, <1>5, <1>6

(* The parts of a dimension leave no gap.                                  *)
LEMMA PartsFill ==
  ASSUME NEW step \in Pos, NEW whole \in Pos, NEW c \in Pos, NEW x \in Nat, x < whole * c
  PROVE  \E n \in 0 .. CeilDiv(whole, step) - 1 :
           (step * n) * c <= x /\ x < (step * n) * c + Part(n, step, whole) * c
<1> DEFINE C == CeilDiv(whole, step)
           k == step * c
           n == x \div k
<1>1. C \in Pos /\ whole <= step * C
  BY DEF CeilDiv, Pos
<1>2. k \in Pos
  BY PosProduct
<1>3. n \in Nat /\ k * n <= x /\ x < k * n + k
  <2> HIDE DEF k
  <2>1. n \in Nat /\ x % k \in 0 .. k - 1 /\ x = k * n + (x % k)
    BY <1>2, DivMod
  <2> QED BY <1>2, <2>1 DEF Pos
<1>4. n < C
  <2>1. whole * c <= (step * C) * c
    BY <1>1, Monotone DEF Pos
  <2>2. (step * C) * c = k * C
    BY <1>1 DEF Pos
  <2>3. x < k * C
    BY <1>1, <1>2, <2>1, <2>2 DEF Pos
  <2> HIDE DEF k, C
  <2> QED BY <1>1, <1>2, <2>3, DivBound DEF Pos
<1>5. k * n = (step * n) * c
  <2>1. n \in Int /\ step \in Int /\ c \in Int
    BY <1>3 DEF Pos
  <2> HIDE DEF n
  <2>2. (step * c) * n = step * (c * n) /\ (step * n) * c = step * (n * c)
    BY <2>1, Associates
  <2>3. c * n = n * c
    BY <2>1, Commutes
  <2> QED BY <2>2, <2>3
<1>6. n \in 0 .. C - 1
  BY <1>1, <1>3, <1>4 DEF Pos
<1>7. x < (step * n) * c + Part(n, step, whole) * c
  <2>1. Part(n, step, whole) = IF n = C - 1 THEN whole - step * n ELSE step
    BY <1>6, PartSize
  <2>2. CASE n = C - 1
    <3>1. (whole - step * n) * c = whole * c - (step * n) * c
      BY <1>3 DEF Pos
    <3>2. (step * n) * c \in Int /\ whole * c \in Int
      BY <1>3 DEF Pos
    <3> HIDE DEF n, C
    <3> QED BY <2>1, <2>2, <3>1, <3>2
  <2>3. CASE n # C - 1
    <3>1. Part(n, step, whole) * c = k
      BY <2>1, <2>3
    <3> QED BY <1>3, <1>5, <3>1
  <2> QED BY <2>2, <2>3
<1> HIDE DEF n, C, k
<1> QED BY <1>3, <1>5, <1>6, <1>7 DEF C

-----------------------------------------------------------------------------
(* The place of a tile: its band, its part of the common dimension and its  *)
(* part of the columns are the digits of its number.                       *)
Band(J, K, m) == m \div (J * K)
Depth(J, K, m) == (m \div K) % J
Column(K, m) == m % K
Number(J, K, i, j, k) == (i * J + j) * K + k

(* The number of a tile determines the three loop counters.                *)
LEMMA DigitsOfNumber ==
  ASSUME NEW I \in Pos, NEW J \in Pos, NEW K \in Pos,
         NEW i \in 0 .. I - 1, NEW j \in 0 .. J - 1, NEW k \in 0 .. K - 1
  PROVE  /\ Number(J, K, i, j, k) \in 0 .. I * J * K - 1
         /\ Band(J, K, Number(J, K, i, j, k)) = i
         /\ Depth(J, K, Number(J, K, i, j, k)) = j
         /\ Column(K, Number(J, K, i, j, k)) = k
         /\ Number(J, K, i, j, k) % (J * K) = j * K + k
<1> DEFINE x == i * J + j
           m == x * K + k
           y == j * K + k
<1>1. x \in Nat /\ x = J * i + j
  BY DEF Pos
<1>2. x < I * J
  <2>1. (i + 1) * J <= I * J
    BY Monotone DEF Pos
  <2>2. (i + 1) * J = i * J + J
    BY DEF Pos
  <2> QED BY <2>1, <2>2 DEF Pos
<1>3. y \in 0 .. J * K - 1
  <2>1. (j + 1) * K <= J * K /\ (j + 1) * K = j * K + K /\ j * K \in Nat
    BY Monotone, NatProduct DEF Pos
  <2> QED BY <2>1 DEF Pos
<1>4. m \in Nat /\ m = K * x + k /\ m = (J * K) * i + y
  <2>1. x * K = (i * J) * K + j * K
    BY Distributes DEF Pos
  <2>2. (i * J) * K = (J * K) * i
    BY DEF Pos
  <2>3. (J * K) * i \in Int /\ j * K \in Int
    BY DEF Pos
  <2> HIDE DEF x
  <2>4. x * K \in Nat /\ x * K = K * x
    BY <1>1, NatProduct, Commutes DEF Pos
  <2> QED BY <2>1, <2>2, <2>3, <2>4
<1>5. m < I * J * K
  <2> HIDE DEF x
  <2>1. (x + 1) * K <= (I * J) * K
    <3>1. x + 1 <= I * J /\ I * J \in Int /\ x + 1 \in Int
      BY <1>1, <1>2 DEF Pos
    <3> QED BY <3>1, Monotone DEF Pos
  <2>2. (x + 1) * K = x * K + K /\ x * K \in Nat
    BY <1>1, NatProduct DEF Pos
  <2> QED BY <2>1, <2>2 DEF Pos
<1>6. J * K \in Pos
  BY PosProduct
<1> HIDE DEF x, y, m
<1>7. m \div K = x /\ m % K = k
  BY <1>1, <1>4, DivUnique
<1>8. m \div (J * K) = i /\ m % (J * K) = y
  BY <1>3, <1>4, <1>6, DivUnique
<1>9. x % J = j
  BY <1>1, DivUnique
<1>10. I * J * K \in Int
  BY DEF Pos
<1> QED BY <1>4, <1>5, <1>7, <1>8, <1>9, <1>10 DEF Number, Band, Depth, Column, x, y, m

(* Every number of a tile comes from three loop counters.                  *)
LEMMA NumberOfDigits ==
  ASSUME NEW I \in Pos, NEW J \in Pos, NEW K \in Pos, NEW m \in 0 .. I * J * K - 1
  PROVE  /\ Band(J, K, m) \in 0 .. I - 1 /\ Depth(J, K, m) \in 0 .. J - 1
         /\ Column(K, m) \in 0 .. K - 1
         /\ m = Number(J, K, Band(J, K, m), Depth(J, K, m), Column(K, m))
<1> DEFINE x == m \div K
           i == x \div J
<1>1. m \in Nat /\ I * J \in Pos /\ J * K \in Pos
  BY PosProduct DEF Pos
<1>2. x \in Nat /\ m % K \in 0 .. K - 1 /\ m = K * x + (m % K)
  BY <1>1, DivMod
<1>3. x < I * J
  <2>1. m < K * (I * J)
    <3>1. I * J * K = K * (I * J) /\ I * J * K \in Int
      BY DEF Pos
    <3> QED BY <3>1
  <2> QED BY <1>1, <2>1, DivBound DEF Pos
<1> HIDE DEF x
<1>4. i \in Nat /\ x % J \in 0 .. J - 1 /\ x = J * i + (x % J)
  BY <1>2, DivMod
<1>5. i < I
  <2>1. x < J * I
    BY <1>3 DEF Pos
  <2> QED BY <1>2, <2>1, DivBound DEF Pos
<1> HIDE DEF i
<1>6. i \in 0 .. I - 1
  BY <1>4, <1>5 DEF Pos
<1>7. m = Number(J, K, i, x % J, m % K)
  <2>1. J * i = i * J /\ K * x = x * K
    BY <1>2, <1>4, Commutes DEF Pos
  <2>2. x = i * J + (x % J)
    BY <1>4, <2>1
  <2> QED BY <1>2, <2>1, <2>2 DEF Number
<1>8. Band(J, K, Number(J, K, i, x % J, m % K)) = i
  BY <1>2, <1>4, <1>6, DigitsOfNumber
<1> QED BY <1>2, <1>4, <1>6, <1>7, <1>8 DEF Band, Depth, Column, x

(* Going on by one: the columns first, then the common dimension, then the  *)
(* bands.                                                                  *)
LEMMA NextNumber ==
  ASSUME NEW I \in Pos, NEW J \in Pos, NEW K \in Pos,
         NEW m \in 0 .. I * J * K - 1, m # 0
  PROVE  LET i == Band(J, K, m)
             j == Depth(J, K, m)
             k == Column(K, m)
             before(x, y, z) == /\ Band(J, K, m - 1) = x /\ Depth(J, K, m - 1) = y
                                /\ Column(K, m - 1) = z
         IN /\ m - 1 \in 0 .. I * J * K - 1
            /\ (m % K = 0) = (k = 0)
            /\ (m % (J * K) = 0) = (j = 0 /\ k = 0)
            /\ k # 0 => before(i, j, k - 1)
            /\ k = 0 /\ j # 0 => before(i, j - 1, K - 1)
            /\ k = 0 /\ j = 0 => before(i - 1, J - 1, K - 1) /\ i # 0
<1> DEFINE i == Band(J, K, m)
           j == Depth(J, K, m)
           k == Column(K, m)
<1>1. i \in 0 .. I - 1 /\ j \in 0 .. J - 1 /\ k \in 0 .. K - 1 /\ m = Number(J, K, i, j, k)
  BY NumberOfDigits
<1>2. m % (J * K) = j * K + k /\ m % K = k
  BY <1>1, DigitsOfNumber DEF Column
<1> HIDE DEF i, j, k
<1>3. (j * K + k = 0) = (j = 0 /\ k = 0)
  <2>1. j # 0 => j * K \in Pos
    BY <1>1, PosProduct DEF Pos
  <2>2. j = 0 => j * K = 0
    BY DEF Pos
  <2> QED BY <1>1, <2>1, <2>2 DEF Pos
<1>4. m - 1 \in 0 .. I * J * K - 1
  <2>1. I * J * K \in Int
    BY DEF Pos
  <2> QED BY <2>1
<1>5. ASSUME k # 0
      PROVE  m - 1 = Number(J, K, i, j, k - 1) /\ k - 1 \in 0 .. K - 1
  <2>1. (i * J + j) * K \in Int
    BY <1>1 DEF Pos
  <2> QED BY <1>1, <1>5, <2>1 DEF Number, Pos
<1>6. ASSUME k = 0, j # 0
      PROVE  m - 1 = Number(J, K, i, j - 1, K - 1) /\ j - 1 \in 0 .. J - 1 /\ K - 1 \in 0 .. K - 1
  <2>1. (i * J + j) * K = (i * J + (j - 1)) * K + K
    <3>1. i * J \in Int
      BY <1>1 DEF Pos
    <3>2. (i * J + (j - 1) + 1) * K = (i * J + (j - 1)) * K + K
      BY <1>1, <3>1 DEF Pos
    <3> QED BY <1>1, <3>1, <3>2
  <2>2. (i * J + (j - 1)) * K \in Int
    BY <1>1 DEF Pos
  <2> QED BY <1>1, <1>6, <2>1, <2>2 DEF Number, Pos
<1>7. ASSUME k = 0, j = 0
      PROVE  /\ m - 1 = Number(J, K, i - 1, J - 1, K - 1) /\ i # 0
             /\ i - 1 \in 0 .. I - 1 /\ J - 1 \in 0 .. J - 1 /\ K - 1 \in 0 .. K - 1
  <2>1. i # 0
    <3>1. i = 0 => i * J = 0 /\ 0 * K = 0
      BY DEF Pos
    <3> QED BY <1>1, <1>7, <3>1 DEF Number
  <2>2. (i * J) * K = ((i - 1) * J + (J - 1)) * K + K
    <3>1. i * J = (i - 1) * J + (J - 1) + 1
      BY <1>1 DEF Pos
    <3>2. (i - 1) * J + (J - 1) \in Int
      BY <1>1 DEF Pos
    <3>3. ((i - 1) * J + (J - 1) + 1) * K = ((i - 1) * J + (J - 1)) * K + K
      BY <3>2 DEF Pos
    <3> QED BY <3>1, <3>3
  <2>3. ((i - 1) * J + (J - 1)) * K \in Int
    BY <1>1 DEF Pos
  <2>4. i * J + 0 = i * J
    BY <1>1 DEF Pos
  <2> QED BY <1>1, <1>7, <2>1, <2>2, <2>3, <2>4 DEF Number, Pos
<1>8. ASSUME NEW x \in 0 .. I - 1, NEW y \in 0 .. J - 1, NEW z \in 0 .. K - 1,
             m - 1 = Number(J, K, x, y, z)
      PROVE  Band(J, K, m - 1) = x /\ Depth(J, K, m - 1) = y /\ Column(K, m - 1) = z
  BY <1>8, DigitsOfNumber
<1>9. k # 0 => Band(J, K, m - 1) = i /\ Depth(J, K, m - 1) = j /\ Column(K, m - 1) = k - 1
  BY <1>1, <1>5, <1>8
<1>10. k = 0 /\ j # 0 =>
         Band(J, K, m - 1) = i /\ Depth(J, K, m - 1) = j - 1 /\ Column(K, m - 1) = K - 1
  BY <1>1, <1>6, <1>8
<1>11. k = 0 /\ j = 0 =>
         /\ Band(J, K, m - 1) = i - 1 /\ Depth(J, K, m - 1) = J - 1 /\ Column(K, m - 1) = K - 1
         /\ i # 0
  BY <1>1, <1>7, <1>8
<1> QED BY <1>2, <1>3, <1>4, <1>9, <1>10, <1>11 DEF i, j, k

-----------------------------------------------------------------------------
(* Sums over a set, when what is summed are the sizes of disjoint sets: the *)
(* equation of the summation has a solution, and every solution gives the   *)
(* size of their union. A smallest set on which one differs cannot exist.  *)
SumsOver(A, D, h) ==
  h = [e \in SUBSET D |-> IF e = {} THEN 0
                          ELSE LET x == CHOOSE x \in e : TRUE
                               IN  Cardinality(A[x]) + h[e \ {x}]]
Joined(A, e) == UNION {A[n] : n \in e}

(* The union of some of the sets is finite.                                *)
LEMMA JoinedFinite ==
  ASSUME NEW D, IsFiniteSet(D), NEW A, \A n \in D : IsFiniteSet(A[n])
  PROVE  \A e \in SUBSET D : /\ IsFiniteSet(e) /\ Cardinality(e) \in Nat
                             /\ IsFiniteSet(Joined(A, e)) /\ Cardinality(Joined(A, e)) \in Nat
<1> TAKE e \in SUBSET D
<1>1. IsFiniteSet(e) /\ Cardinality(e) \in Nat
  BY FS_Subset, FS_CardinalityType
<1>2. IsFiniteSet({A[n] : n \in e})
  <2> DEFINE f == [n \in e |-> A[n]]
  <2>1. f \in Surjection(e, {A[n] : n \in e})
    BY DEF Surjection
  <2> HIDE DEF f
  <2> QED BY <1>1, <2>1, FS_Surjection
<1>3. \A x \in {A[n] : n \in e} : IsFiniteSet(x)
  OBVIOUS
<1>4. IsFiniteSet(UNION {A[n] : n \in e})
  BY <1>2, <1>3, FS_UNION
<1> QED BY <1>1, <1>4, FS_CardinalityType DEF Joined

(* With pairwise disjoint sets, one more adds its size.                    *)
LEMMA JoinedOneMore ==
  ASSUME NEW D, IsFiniteSet(D), NEW A, \A n \in D : IsFiniteSet(A[n]),
         \A m, n \in D : m # n => A[m] \cap A[n] = {},
         NEW e \in SUBSET D, NEW x \in e
  PROVE  Cardinality(Joined(A, e)) = Cardinality(A[x]) + Cardinality(Joined(A, e \ {x}))
<1>1. Joined(A, e) = A[x] \cup Joined(A, e \ {x}) /\ A[x] \cap Joined(A, e \ {x}) = {}
  BY DEF Joined
<1>2. /\ IsFiniteSet(A[x]) /\ IsFiniteSet(Joined(A, e \ {x}))
      /\ Cardinality(A[x]) \in Nat /\ Cardinality(Joined(A, e \ {x})) \in Nat
  <2>1. e \ {x} \in SUBSET D /\ x \in D
    OBVIOUS
  <2> QED BY <2>1, JoinedFinite, FS_CardinalityType
<1>3. Cardinality(A[x] \cup Joined(A, e \ {x}))
        = Cardinality(A[x]) + Cardinality(Joined(A, e \ {x}))
            - Cardinality(A[x] \cap Joined(A, e \ {x}))
  BY <1>2, FS_Union, Zenon
<1>4. /\ Cardinality(A[x] \cap Joined(A, e \ {x})) = 0
      /\ Cardinality(A[x] \cup Joined(A, e \ {x})) = Cardinality(Joined(A, e))
  BY <1>1, FS_EmptySet, Zenon
<1> QED BY <1>2, <1>3, <1>4

(* A sum of the sizes of pairwise disjoint sets is the size of their       *)
(* union.                                                                  *)
LEMMA SumOfSizes ==
  ASSUME NEW D, IsFiniteSet(D), NEW A, \A n \in D : IsFiniteSet(A[n]),
         \A m, n \in D : m # n => A[m] \cap A[n] = {}
  PROVE  /\ \E h : SumsOver(A, D, h)
         /\ \A h : SumsOver(A, D, h) => h[D] = Cardinality(Joined(A, D))
<1> DEFINE size == [e \in SUBSET D |-> Cardinality(Joined(A, e))]
<1>1. \A e \in SUBSET D : Cardinality(e) \in Nat /\ IsFiniteSet(e)
  BY JoinedFinite
<1>2. SumsOver(A, D, size)
  <2>1. ASSUME NEW e \in SUBSET D, e # {}
        PROVE  size[e] = LET x == CHOOSE x \in e : TRUE
                         IN  Cardinality(A[x]) + size[e \ {x}]
    <3> DEFINE x == CHOOSE x \in e : TRUE
    <3>1. x \in e
      BY <2>1
    <3> HIDE DEF x
    <3>2. Cardinality(Joined(A, e)) = Cardinality(A[x]) + Cardinality(Joined(A, e \ {x}))
      BY <3>1, JoinedOneMore
    <3>3. size[e] = Cardinality(A[x]) + size[e \ {x}]
      BY <3>1, <3>2
    <3> QED BY <3>3 DEF x
  <2>2. size[{}] = 0
    <3>1. Joined(A, {}) = {}
      BY DEF Joined
    <3> QED BY <3>1, FS_EmptySet
  <2> HIDE DEF size
  <2>3. ASSUME NEW e \in SUBSET D
        PROVE  size[e] = IF e = {} THEN 0
                         ELSE LET x == CHOOSE x \in e : TRUE
                              IN  Cardinality(A[x]) + size[e \ {x}]
    BY <2>1, <2>2
  <2>4. size = [e \in SUBSET D |-> size[e]]
    BY DEF size
  <2> QED BY <2>3, <2>4 DEF SumsOver
<1>3. ASSUME NEW h, SumsOver(A, D, h)
      PROVE  \A e \in SUBSET D : h[e] = size[e]
  <2> HIDE DEF size
  <2> DEFINE Differs(k) == \E e \in SUBSET D : Cardinality(e) = k /\ h[e] # size[e]
             sizes == {k \in Nat : Differs(k)}
  <2>1. SUFFICES ASSUME sizes # {} PROVE FALSE
    BY <1>1
  <2>2. PICK k \in sizes : \A j \in sizes : k <= j
    <3>1. sizes \in SUBSET Nat
      OBVIOUS
    <3> HIDE DEF sizes
    <3> QED BY <2>1, <3>1, LeastNumber
  <2>3. PICK e \in SUBSET D : Cardinality(e) = k /\ h[e] # size[e]
    BY <2>2
  <2>4. h[{}] = 0 /\ size[{}] = 0
    BY <1>2, <1>3 DEF SumsOver
  <2>5. e # {}
    BY <2>3, <2>4
  <2> DEFINE x == CHOOSE x \in e : TRUE
  <2>6. x \in e
    BY <2>5
  <2>7. /\ h[e] = Cardinality(A[x]) + h[e \ {x}]
        /\ size[e] = Cardinality(A[x]) + size[e \ {x}]
    BY <1>2, <1>3, <2>5 DEF SumsOver
  <2> HIDE DEF x
  <2>8. e \ {x} \in SUBSET D /\ Cardinality(e \ {x}) = k - 1 /\ k - 1 \in Nat
    <3>1. IsFiniteSet(e) /\ Cardinality(e \ {x}) \in Nat
      BY <1>1
    <3>2. Cardinality(e \ {x}) = k - 1
      BY <2>3, <2>6, <3>1, FS_RemoveElement
    <3> QED BY <3>1, <3>2
  <2>9. k - 1 \notin sizes
    BY <2>2, <2>8
  <2>10. h[e \ {x}] = size[e \ {x}]
    BY <2>8, <2>9
  <2> QED BY <2>3, <2>7, <2>10
<1>4. D \in SUBSET D /\ size[D] = Cardinality(Joined(A, D))
  OBVIOUS
<1> HIDE DEF size
<1> QED BY <1>2, <1>3, <1>4

-----------------------------------------------------------------------------
(* What a row touches. Its dimensions are positive.                        *)
Dimensions(q) ==
  /\ q.ifmap_height \in Pos /\ q.ifmap_width \in Pos /\ q.filter_height \in Pos
  /\ q.filter_width \in Pos /\ q.filter_depth \in Pos /\ q.filter_num \in Pos
  /\ q.stride \in Pos

(* A number below a product has a digit of each factor.                    *)
LEMMA TwoDigits ==
  ASSUME NEW x \in Nat, NEW k \in Pos, NEW m \in Nat, x < k * m
  PROVE  /\ x \div k \in 0 .. m - 1 /\ x % k \in 0 .. k - 1
         /\ x = k * (x \div k) + (x % k)
<1>1. x \div k \in Nat /\ x % k \in 0 .. k - 1 /\ x = k * (x \div k) + (x % k)
  BY DivMod
<1>2. x \div k < m
  BY DivBound
<1> QED BY <1>1, <1>2

(* Two digits make a number below the product.                             *)
LEMMA DigitsBelow ==
  ASSUME NEW k \in Pos, NEW m \in Nat, NEW i \in 0 .. m - 1, NEW j \in 0 .. k - 1
  PROVE  k * i + j \in 0 .. k * m - 1 /\ i * k + j \in 0 .. m * k - 1 /\ i * k + j = k * i + j
         /\ k * i \in Nat
<1>1. k * i \in Nat /\ i * k = k * i /\ m * k = k * m /\ k * m \in Int
  BY DEF Pos
<1>2. (i + 1) * k <= m * k
  BY Monotone DEF Pos
<1>3. (i + 1) * k = i * k + k
  BY DEF Pos
<1> QED BY <1>1, <1>2, <1>3 DEF Pos

(* A convolution has filters and windows, and as many folds of filters as  *)
(* the array's width needs.                                                *)
LEMMA ConvNumbers ==
  ASSUME NEW a \in Arch, NEW q, Dimensions(q), WindowInside(q)
  PROVE  /\ a.systolic_width \in Pos /\ a.systolic_height \in Pos
         /\ FilterSize(q) \in Pos /\ FilterFold(a, q) \in Pos
         /\ OfmapWidth(q) \in Pos /\ OfmapHeight(q) \in Pos /\ Windows(q) \in Pos
         /\ Windows(q) = OfmapWidth(q) * OfmapHeight(q)
         /\ a.systolic_width * (FilterFold(a, q) - 1) < q.filter_num
         /\ q.filter_num <= a.systolic_width * FilterFold(a, q)
<1>1. a.systolic_width \in Pos /\ a.systolic_height \in Pos
  BY DEF Arch, Pos
<1>2. FilterSize(q) \in Pos
  <2>1. q.filter_width * q.filter_height \in Pos
    BY PosProduct DEF Dimensions
  <2> QED BY <2>1, PosProduct DEF Dimensions, FilterSize
<1>3. OfmapWidth(q) \in Pos /\ OfmapHeight(q) \in Pos
  <2>1. ASSUME NEW x \in Nat, NEW y \in Pos
        PROVE  CeilDiv(x, y) + 1 \in Pos
    BY DEF CeilDiv, Pos
  <2>2. /\ q.ifmap_width - q.filter_width \in Nat /\ q.ifmap_height - q.filter_height \in Nat
        /\ q.stride \in Pos
    BY DEF Dimensions, Pos, WindowInside
  <2> QED BY <2>1, <2>2 DEF OfmapWidth, OfmapHeight
<1>4. Windows(q) \in Pos
  BY <1>3, PosProduct DEF Windows
<1>5. ASSUME NEW x \in Pos, NEW y \in Pos
      PROVE  CeilDiv(x, y) \in Pos /\ y * (CeilDiv(x, y) - 1) < x /\ x <= y * CeilDiv(x, y)
  BY DEF CeilDiv, Pos
<1> QED BY <1>1, <1>2, <1>3, <1>4, <1>5 DEF Windows, FilterFold, Dimensions

-----------------------------------------------------------------------------
(* Convolution. The cycles an element has worked are a number of three      *)
(* digits: its window fold, its filter fold, its element of the filter.    *)
Elapsed(x, y, s) == Max({0, s - x - y})

Worked(a, q, i, f, o) == Number(FilterFold(a, q), FilterSize(q), i, f, o)

(* The digits determine what the element does.                             *)
LEMMA FoldAt ==
  ASSUME NEW a \in Arch, NEW q, Dimensions(q), WindowInside(q),
         NEW x \in Nat, NEW y \in Nat, NEW s \in Nat,
         NEW i \in Nat, NEW f \in 0 .. FilterFold(a, q) - 1, NEW o \in 0 .. FilterSize(q) - 1,
         Elapsed(x, y, s) = Worked(a, q, i, f, o)
  PROVE  /\ Fold(a, q, x, y, s).running = (s >= x + y) /\ Fold(a, q, x, y, s).offset = o
         /\ Fold(a, q, x, y, s).filter = f * a.systolic_width + x
         /\ Fold(a, q, x, y, s).first = i * a.systolic_height
         /\ Fold(a, q, x, y, s).window = i * a.systolic_height + y
<1> DEFINE F == FilterFold(a, q)
           S == FilterSize(q)
           e == Elapsed(x, y, s)
<1>1. F \in Pos /\ S \in Pos
  BY ConvNumbers
<1> HIDE DEF F, S
<1>2. i + 1 \in Pos /\ i \in 0 .. (i + 1) - 1 /\ f \in 0 .. F - 1 /\ o \in 0 .. S - 1
  BY DEF Pos, F, S
<1>3. e = Number(F, S, i, f, o)
  BY DEF Worked, F, S
<1> HIDE DEF e
<1>4. Band(F, S, e) = i /\ Depth(F, S, e) = f /\ Column(S, e) = o
  BY <1>1, <1>2, <1>3, DigitsOfNumber
<1>5. S * F = F * S
  BY <1>1, Commutes DEF Pos
<1>6. e \div (S * F) = i /\ (e \div S) % F = f /\ e % S = o
  BY <1>4, <1>5 DEF Band, Depth, Column
<1>7. e = Max({0, s - x - y})
  BY DEF e, Elapsed
<1> QED BY <1>6, <1>7 DEF Fold, F, S

(* There are such digits.                                                  *)
LEMMA FoldDigits ==
  ASSUME NEW a \in Arch, NEW q, Dimensions(q), WindowInside(q), NEW e \in Nat
  PROVE  \E i \in Nat, f \in 0 .. FilterFold(a, q) - 1, o \in 0 .. FilterSize(q) - 1 :
           e = Worked(a, q, i, f, o)
<1> DEFINE F == FilterFold(a, q)
           S == FilterSize(q)
<1>1. F \in Pos /\ S \in Pos
  BY ConvNumbers
<1> HIDE DEF F, S
<1>2. e + 1 \in Pos /\ e \in 0 .. (e + 1) * F * S - 1
  <2>1. (e + 1) * F >= e + 1 /\ (e + 1) * F \in Pos
    BY <1>1 DEF Pos
  <2>2. ((e + 1) * F) * S >= (e + 1) * F /\ ((e + 1) * F) * S \in Pos
    <3> DEFINE n == (e + 1) * F
    <3>1. n \in Pos
      BY <2>1
    <3> HIDE DEF n
    <3>2. n * S >= n /\ n * S \in Pos
      BY <1>1, <3>1 DEF Pos
    <3> QED BY <3>2 DEF n
  <2> QED BY <2>1, <2>2 DEF Pos
<1>3. /\ Band(F, S, e) \in 0 .. (e + 1) - 1 /\ Depth(F, S, e) \in 0 .. F - 1
      /\ Column(S, e) \in 0 .. S - 1
      /\ e = Number(F, S, Band(F, S, e), Depth(F, S, e), Column(S, e))
  BY <1>1, <1>2, NumberOfDigits
<1>4. Band(F, S, e) \in Nat
  BY <1>3
<1> QED BY <1>3, <1>4 DEF Worked, F, S

(* A later number has no smaller first digit, and no smaller second one     *)
(* under the same first.                                                   *)
LEMMA WorkedLonger ==
  ASSUME NEW a \in Arch, NEW q, Dimensions(q), WindowInside(q),
         NEW i \in Nat, NEW f \in 0 .. FilterFold(a, q) - 1, NEW o \in 0 .. FilterSize(q) - 1,
         NEW j \in Nat, NEW g \in 0 .. FilterFold(a, q) - 1, NEW p \in 0 .. FilterSize(q) - 1,
         Worked(a, q, i, f, o) <= Worked(a, q, j, g, p)
  PROVE  i <= j /\ (i = j => f <= g)
<1> DEFINE F == FilterFold(a, q)
           S == FilterSize(q)
<1>1. F \in Pos /\ S \in Pos
  BY ConvNumbers
<1> HIDE DEF F, S
<1> DEFINE m == i * F + f
           n == j * F + g
<1>2. /\ f \in 0 .. F - 1 /\ g \in 0 .. F - 1 /\ o \in 0 .. S - 1 /\ p \in 0 .. S - 1
      /\ m * S + o <= n * S + p
  BY DEF F, S, Worked, Number
<1>3. m \in Nat /\ n \in Nat
  <2>1. i * F \in Nat /\ j * F \in Nat
    BY <1>1, NatProduct DEF Pos
  <2> QED BY <1>2, <2>1
<1>4. m <= n
  <2> HIDE DEF m, n
  <2> SUFFICES ASSUME n + 1 <= m PROVE FALSE
    BY <1>3
  <2>1. (n + 1) * S <= m * S /\ (n + 1) * S = n * S + S /\ n * S \in Int /\ m * S \in Int
    BY <1>1, <1>3, Monotone DEF Pos
  <2> QED BY <1>1, <1>2, <2>1 DEF Pos
<1>5. i <= j
  <2> SUFFICES ASSUME j + 1 <= i PROVE FALSE
    OBVIOUS
  <2>1. (j + 1) * F <= i * F /\ (j + 1) * F = j * F + F /\ j * F \in Int /\ i * F \in Int
    BY <1>1, Monotone DEF Pos
  <2> QED BY <1>1, <1>2, <1>4, <2>1 DEF Pos
<1>6. i = j => f <= g
  <2>1. j * F \in Int
    BY <1>1 DEF Pos
  <2> QED BY <1>2, <1>4, <2>1
<1> QED BY <1>5, <1>6

(* An element works from the cycle on that its row and its column say.     *)
LEMMA ElapsedIs ==
  ASSUME NEW x \in Nat, NEW y \in Nat, NEW s \in Nat
  PROVE  Elapsed(x, y, s) \in Nat /\ Elapsed(x, y, s) = IF s >= x + y THEN s - x - y ELSE 0
<1>1. s - x - y \in Int
  OBVIOUS
<1>2. Elapsed(x, y, s) = IF 0 >= s - x - y THEN 0 ELSE s - x - y
  BY <1>1, MaxOfTwo DEF Elapsed
<1> QED BY <1>2

(* Cycles worked are numbers; the first ones belong to the first filter of  *)
(* a window.                                                               *)
LEMMA WorkedIs ==
  ASSUME NEW a \in Arch, NEW q, Dimensions(q), WindowInside(q),
         NEW i \in Nat, NEW f \in 0 .. FilterFold(a, q) - 1, NEW o \in 0 .. FilterSize(q) - 1
  PROVE  Worked(a, q, i, f, o) \in Nat /\ (i = 0 /\ f = 0 => Worked(a, q, i, f, o) = o)
<1> DEFINE F == FilterFold(a, q)
           S == FilterSize(q)
<1>1. F \in Pos /\ S \in Pos
  BY ConvNumbers
<1> HIDE DEF F, S
<1>2. f \in 0 .. F - 1 /\ o \in 0 .. S - 1
  BY DEF F, S
<1>3. i * F + f \in Nat
  <2>1. i * F \in Nat
    BY <1>1, NatProduct DEF Pos
  <2> QED BY <1>2, <2>1
<1>4. (i * F + f) * S \in Nat
  BY <1>1, <1>3, NatProduct DEF Pos
<1>5. i = 0 /\ f = 0 => (i * F + f) * S = 0
  <2>1. 0 * F + 0 = 0 /\ 0 * S = 0
    BY <1>1 DEF Pos
  <2> QED BY <2>1
<1> QED BY <1>2, <1>4, <1>5 DEF Worked, Number, F, S

(* The array works until the last element is through: when one works in a   *)
(* cycle, one was live in every cycle before. An element whose filter does  *)
(* not exist is followed by a live one in its row: in the column that goes   *)
(* to the next window then, or in the first column, whose filters exist.   *)
LEMMA ConvStays ==
  ASSUME NEW a \in Arch, NEW q, Dimensions(q), WindowInside(q),
         NEW x \in Columns(a), NEW y \in Rows(a), NEW s \in Nat,
         Assigned(q, Fold(a, q, x, y, s)), s >= x + y, NEW u \in 0 .. s
  PROVE  ConvLive(a, q, u)
<1> DEFINE w == a.systolic_width
           h == a.systolic_height
           F == FilterFold(a, q)
           S == FilterSize(q)
           num == q.filter_num
           W == Windows(q)
           e == Elapsed(x, y, u)
<1>1. /\ w \in Pos /\ h \in Pos /\ F \in Pos /\ S \in Pos /\ W \in Pos /\ num \in Pos
      /\ w * (F - 1) < num
  BY ConvNumbers DEF Dimensions
<1>2. x \in 0 .. w - 1 /\ y \in 0 .. h - 1 /\ x \in Nat /\ y \in Nat /\ u \in Nat /\ u <= s
  BY DEF Columns, Rows
<1> HIDE DEF w, h, F, S, num, W
<1>3. Elapsed(x, y, s) \in Nat /\ e \in Nat /\ e <= Elapsed(x, y, s)
  <2>1. Elapsed(x, y, s) \in Nat /\ Elapsed(x, y, s) = IF s >= x + y THEN s - x - y ELSE 0
    BY <1>2, ElapsedIs
  <2>2. e \in Nat /\ e = IF u >= x + y THEN u - x - y ELSE 0
    BY <1>2, ElapsedIs
  <2> HIDE DEF e
  <2> QED BY <1>2, <2>1, <2>2
<1>4. PICK j \in Nat, g \in 0 .. F - 1, p \in 0 .. S - 1 : Elapsed(x, y, s) = Worked(a, q, j, g, p)
  BY <1>3, FoldDigits DEF F, S
<1>5. g * w + x < num /\ j * h + y < W
  <2>1. /\ Fold(a, q, x, y, s).filter = g * a.systolic_width + x
        /\ Fold(a, q, x, y, s).window = j * a.systolic_height + y
    BY <1>2, <1>4, FoldAt DEF F, S
  <2> QED BY <2>1 DEF Assigned, w, h, num, W
<1>6. \A k \in 0 .. F - 1 : k * w \in Nat
  BY <1>1, NatProduct DEF Pos
<1>7. \A k \in 0 .. j : k * h \in Nat /\ k * h + y < W
  <2> TAKE k \in 0 .. j
  <2>1. k * h \in Nat /\ k * h <= j * h /\ j * h \in Nat
    BY <1>1, NatProduct, Monotone DEF Pos
  <2> QED BY <1>1, <1>2, <1>5, <2>1 DEF Pos
<1>8. ASSUME NEW v \in Columns(a), NEW k \in 0 .. j, NEW m \in 0 .. F - 1, NEW o \in 0 .. S - 1,
             Elapsed(v, y, u) = Worked(a, q, k, m, o), m * w + v < num
      PROVE  ConvLive(a, q, u)
  <2>1. v \in Nat /\ k \in Nat /\ y \in Nat /\ u \in Nat
    BY <1>2 DEF Columns
  <2>2. /\ Fold(a, q, v, y, u).filter = m * a.systolic_width + v
        /\ Fold(a, q, v, y, u).window = k * a.systolic_height + y
    <3>1. m \in 0 .. FilterFold(a, q) - 1 /\ o \in 0 .. FilterSize(q) - 1
      BY DEF F, S
    <3>2. Elapsed(v, y, u) = Worked(a, q, k, m, o)
      BY <1>8
    <3> HIDE DEF e
    <3> QED BY <2>1, <3>1, <3>2, FoldAt, SMTT(60)
  <2>3. Assigned(q, Fold(a, q, v, y, u))
    BY <1>7, <1>8, <2>2 DEF Assigned, w, h, num, W
  <2> QED BY <2>3 DEF ConvLive
<1>9. 0 \in 0 .. j /\ 0 \in 0 .. F - 1 /\ 0 \in 0 .. S - 1 /\ 0 * w = 0 /\ x < num
  <2>1. g * w \in Nat
    BY <1>6
  <2> QED BY <1>1, <1>2, <1>5, <2>1 DEF Pos
<1>10. CASE u < x + y
  <2>1. e = 0
    BY <1>2, <1>10, ElapsedIs
  <2>2. Worked(a, q, 0, 0, 0) = 0
    BY <1>9, WorkedIs DEF F, S
  <2>3. Elapsed(x, y, u) = Worked(a, q, 0, 0, 0) /\ 0 * w + x < num
    BY <1>2, <1>9, <2>1, <2>2
  <2> QED BY <1>8, <1>9, <2>3
<1>11. CASE u >= x + y
  <2>1. e = u - x - y
    BY <1>2, <1>11, ElapsedIs
  <2>2. PICK i \in Nat, f \in 0 .. F - 1, o \in 0 .. S - 1 : e = Worked(a, q, i, f, o)
    BY <1>3, FoldDigits DEF F, S
  <2>3. i <= j /\ (i = j => f <= g)
    <3>1. Worked(a, q, i, f, o) <= Worked(a, q, j, g, p)
      BY <1>3, <1>4, <2>2
    <3> QED BY <3>1, WorkedLonger DEF F, S
  <2>4. CASE i = j
    <3>1. f * w <= g * w /\ f * w \in Nat /\ g * w \in Nat
      BY <1>1, <1>6, <2>3, <2>4, Monotone DEF Pos
    <3>2. f * w + x < num
      BY <1>1, <1>2, <1>5, <3>1 DEF Pos
    <3>3. i \in 0 .. j
      BY <2>3
    <3> QED BY <1>8, <2>2, <3>2, <3>3
  <2>5. CASE i # j
    <3> DEFINE N == Worked(a, q, i + 1, 0, 0)
    <3>1. N \in Nat /\ i + 1 \in 0 .. j
      BY <1>9, <2>3, <2>5, WorkedIs DEF F, S
    <3>2. e < N
      <4> SUFFICES ASSUME N <= e PROVE FALSE
        BY <1>3, <3>1
      <4>1. i + 1 <= i
        BY <1>9, <2>2, WorkedLonger DEF F, S
      <4> QED BY <4>1
    <3>3. CASE N - e <= x
      <4> DEFINE v == x - (N - e)
      <4>1. v \in Nat /\ v < x /\ v \in Columns(a)
        <5> HIDE DEF e, N
        <5>1. v \in Nat /\ v < x
          BY <1>2, <1>3, <3>1, <3>2, <3>3
        <5> QED BY <1>1, <1>2, <5>1 DEF Columns, w, Pos
      <4>2. u >= v + y /\ u - v - y = N
        BY <1>2, <1>3, <1>11, <2>1, <3>1, <3>2
      <4>3. Elapsed(v, y, u) = N
        BY <1>2, <4>1, <4>2, ElapsedIs
      <4>4. 0 * w + v < num
        BY <1>1, <1>2, <1>9, <4>1 DEF Pos
      <4> HIDE DEF v
      <4> QED BY <1>8, <1>9, <3>1, <4>1, <4>3, <4>4
    <3>4. CASE N - e > x
      <4>1. 0 \in Columns(a) /\ 0 \in Nat /\ u >= 0 + y /\ u - 0 - y = e + x
        BY <1>1, <1>2, <1>11, <2>1 DEF Columns, w, Pos
      <4>2. Elapsed(0, y, u) = e + x /\ e + x \in Nat /\ e + x <= N
        <5>1. Elapsed(0, y, u) = u - 0 - y
          BY <1>2, <4>1, ElapsedIs
        <5> HIDE DEF e, N
        <5> QED BY <1>2, <1>3, <3>1, <3>4, <4>1, <5>1
      <4>3. PICK k \in Nat, m \in 0 .. F - 1, n \in 0 .. S - 1 : e + x = Worked(a, q, k, m, n)
        BY <4>2, FoldDigits DEF F, S
      <4>4. k <= i + 1
        <5>1. i + 1 \in Nat /\ Worked(a, q, k, m, n) <= Worked(a, q, i + 1, 0, 0)
          BY <4>2, <4>3
        <5> QED BY <1>9, <5>1, WorkedLonger DEF F, S
      <4>5. k \in 0 .. j
        BY <3>1, <4>4
      <4>6. m * w + 0 < num
        <5>1. m * w <= (F - 1) * w /\ (F - 1) * w = w * (F - 1) /\ w * (F - 1) \in Int
          BY <1>1, Monotone DEF Pos
        <5>2. m * w \in Nat
          BY <1>6
        <5> QED BY <1>1, <5>1, <5>2 DEF Pos
      <4> QED BY <1>8, <4>1, <4>2, <4>3, <4>5, <4>6
    <3> QED BY <1>2, <1>3, <3>1, <3>3, <3>4
  <2> QED BY <2>4, <2>5
<1> QED BY <1>2, <1>10, <1>11

(* The elements of the three tensors a cycle touches.                      *)
ReadFilters(a, q, s) ==
  {Fold(a, q, x, 0, s).filter * FilterSize(q) + Fold(a, q, x, 0, s).offset :
     x \in {x \in Columns(a) : /\ Fold(a, q, x, 0, s).filter < q.filter_num
                               /\ Fold(a, q, x, 0, s).running /\ AccordingIfmap(a, q, x, s)}}
FedIfmaps(a, q, s) ==
  {WindowBase(q, Fold(a, q, 0, y, s).window) + InWindow(q, Fold(a, q, 0, y, s).offset) :
     y \in {y \in Rows(a) : Fold(a, q, 0, y, s).window < Windows(q) /\ Fold(a, q, 0, y, s).running}}
Working(a, q, s) ==
  {p \in Columns(a) \X Rows(a) :
     Assigned(q, Fold(a, q, p[1], p[2], s)) /\ Fold(a, q, p[1], p[2], s).running}
DoneOfmaps(a, q, s) ==
  {Fold(a, q, p[1], p[2], s).filter * Windows(q) + Fold(a, q, p[1], p[2], s).window :
     p \in Working(a, q, s)}

(* A cycle of a convolution touches their lines.                          *)
LEMMA ConvTouches ==
  ASSUME NEW a, NEW q, NEW s
  PROVE  /\ ConvAccess(a, q, s).filter = Lines(a, q.filter, ReadFilters(a, q, s))
         /\ ConvAccess(a, q, s).ifmap = Lines(a, q.ifmap, FedIfmaps(a, q, s))
         /\ ConvAccess(a, q, s).ofmap = Lines(a, q.ofmap, DoneOfmaps(a, q, s))
  BY DEF ConvAccess, Access, ReadFilters, FedIfmaps, DoneOfmaps, Working

(* A cycle in which an element works lies before the end.                  *)
LEMMA WorkingBefore ==
  ASSUME NEW a \in Arch, NEW q, Dimensions(q), WindowInside(q),
         NEW T \in Nat, ~ConvLive(a, q, T),
         NEW s \in Nat, NEW p \in Working(a, q, s)
  PROVE  s \in 0 .. T - 1
<1>1. /\ p[1] \in Columns(a) /\ p[2] \in Rows(a) /\ Assigned(q, Fold(a, q, p[1], p[2], s))
      /\ s >= p[1] + p[2]
  BY DEF Working, Fold
<1>2. T \in 0 .. s => ConvLive(a, q, T)
  BY <1>1, ConvStays
<1> QED BY <1>2

(* What an element of the array works on.                                  *)
WorksOn(a, q, x, y, s, i, f, o) ==
  LET pe == Fold(a, q, x, y, s)
  IN /\ pe.offset = o /\ pe.filter = f * a.systolic_width + x
     /\ pe.first = i * a.systolic_height /\ pe.window = i * a.systolic_height + y

(* In the cycle that comes so many cycles after its first, an element of   *)
(* the array works on its filter and its window, if they exist.            *)
LEMMA WorksAt ==
  ASSUME NEW a \in Arch, NEW q, Dimensions(q), WindowInside(q),
         NEW x \in Columns(a), NEW y \in Rows(a),
         NEW i \in Nat, NEW f \in 0 .. FilterFold(a, q) - 1, NEW o \in 0 .. FilterSize(q) - 1
  PROVE  LET s == x + y + Worked(a, q, i, f, o)
         IN s \in Nat /\ Fold(a, q, x, y, s).running /\ WorksOn(a, q, x, y, s, i, f, o)
<1> DEFINE n == Worked(a, q, i, f, o)
           s == x + y + n
<1>1. n \in Nat
  BY WorkedIs
<1>2. x \in Nat /\ y \in Nat
  BY DEF Columns, Rows
<1> HIDE DEF n
<1>3. s \in Nat /\ s >= x + y /\ s - x - y = n
  BY <1>1, <1>2
<1>4. Elapsed(x, y, s) = n
  BY <1>2, <1>3, ElapsedIs
<1> HIDE DEF s
<1>5. Elapsed(x, y, s) = Worked(a, q, i, f, o)
  BY <1>4 DEF n
<1>6. /\ Fold(a, q, x, y, s).running = (s >= x + y) /\ Fold(a, q, x, y, s).offset = o
      /\ Fold(a, q, x, y, s).filter = f * a.systolic_width + x
      /\ Fold(a, q, x, y, s).first = i * a.systolic_height
      /\ Fold(a, q, x, y, s).window = i * a.systolic_height + y
  BY <1>2, <1>3, <1>5, FoldAt, SMTT(60)
<1> QED BY <1>3, <1>6 DEF WorksOn, s, n

(* In any cycle an element of the array is somewhere in its work.          *)
LEMMA WorksSomewhere ==
  ASSUME NEW a \in Arch, NEW q, Dimensions(q), WindowInside(q),
         NEW x \in Columns(a), NEW y \in Rows(a), NEW s \in Nat
  PROVE  \E i \in Nat, f \in 0 .. FilterFold(a, q) - 1, o \in 0 .. FilterSize(q) - 1 :
           WorksOn(a, q, x, y, s, i, f, o)
<1>1. x \in Nat /\ y \in Nat
  BY DEF Columns, Rows
<1>2. Elapsed(x, y, s) \in Nat
  BY <1>1, ElapsedIs
<1>3. PICK i \in Nat, f \in 0 .. FilterFold(a, q) - 1, o \in 0 .. FilterSize(q) - 1 :
        Elapsed(x, y, s) = Worked(a, q, i, f, o)
  BY <1>2, FoldDigits
<1>4. WorksOn(a, q, x, y, s, i, f, o)
  BY <1>1, <1>3, FoldAt, SMTT(60) DEF WorksOn
<1> QED BY <1>4

(* A filter is in a column of the array, in one of the folds.              *)
LEMMA FilterPlaced ==
  ASSUME NEW a \in Arch, NEW q, Dimensions(q), WindowInside(q), NEW n \in 0 .. q.filter_num - 1
  PROVE  \E f \in 0 .. FilterFold(a, q) - 1, x \in Columns(a) : n = f * a.systolic_width + x
<1> DEFINE w == a.systolic_width
           F == FilterFold(a, q)
           num == q.filter_num
<1>1. w \in Pos /\ F \in Pos /\ num \in Pos /\ num <= w * F
  BY ConvNumbers DEF Dimensions
<1> HIDE DEF w, F, num
<1>2. n \in Nat /\ n < w * F /\ F \in Nat
  <2>1. n \in 0 .. num - 1 /\ w * F \in Int
    BY <1>1 DEF num, Pos
  <2> QED BY <1>1, <2>1 DEF Pos
<1>3. n \div w \in 0 .. F - 1 /\ n % w \in 0 .. w - 1 /\ n = w * (n \div w) + (n % w)
  BY <1>1, <1>2, TwoDigits
<1>4. w * (n \div w) = (n \div w) * w
  BY <1>1, <1>3, Commutes DEF Pos
<1> QED BY <1>3, <1>4 DEF Columns, w, F

(* A window is in a row of the array, in one of the folds.                 *)
LEMMA WindowPlaced ==
  ASSUME NEW a \in Arch, NEW q, Dimensions(q), WindowInside(q), NEW n \in Nat
  PROVE  \E i \in Nat, y \in Rows(a) : n = i * a.systolic_height + y
<1> DEFINE h == a.systolic_height
<1>1. h \in Pos
  BY ConvNumbers
<1> HIDE DEF h
<1>2. n \div h \in Nat /\ n % h \in 0 .. h - 1 /\ n = h * (n \div h) + (n % h)
  BY <1>1, DivMod
<1>3. h * (n \div h) = (n \div h) * h
  BY <1>1, <1>2, Commutes DEF Pos
<1> QED BY <1>2, <1>3 DEF Rows, h

(* All cycles together read the filters and nothing else: column x reads   *)
(* while the window on its diagonal exists, which is the first one of its   *)
(* filter when the array is at least as high as wide.                      *)
LEMMA ConvFilters ==
  ASSUME NEW a \in Arch, a.systolic_width <= a.systolic_height,
         NEW q, Dimensions(q), WindowInside(q), NEW T \in Nat, ~ConvLive(a, q, T)
  PROVE  UNION {ReadFilters(a, q, s) : s \in 0 .. T - 1} = 0 .. FilterElements(q) - 1
<1> DEFINE S == FilterSize(q)
           num == q.filter_num
           w == a.systolic_width
           h == a.systolic_height
           W == Windows(q)
<1>1. /\ S \in Pos /\ num \in Pos /\ num \in Nat /\ w \in Pos /\ h \in Pos /\ W \in Pos
      /\ num * S = S * num /\ FilterElements(q) = S * num /\ w <= h
  BY ConvNumbers DEF Dimensions, FilterElements, Pos
<1>2. 0 \in Columns(a) /\ 0 \in Rows(a) /\ Columns(a) \subseteq Rows(a)
  BY <1>1 DEF Columns, Rows, Pos
<1> HIDE DEF S, num, w, h, W
<1>3. ASSUME NEW s \in 0 .. T - 1, NEW e \in ReadFilters(a, q, s)
      PROVE  e \in 0 .. FilterElements(q) - 1
  <2>1. PICK x \in Columns(a) : /\ Fold(a, q, x, 0, s).filter < q.filter_num
                                /\ e = Fold(a, q, x, 0, s).filter * FilterSize(q) + Fold(a, q, x, 0, s).offset
    BY <1>3 DEF ReadFilters
  <2>0. s \in Nat
    OBVIOUS
  <2>2. PICK i \in Nat, f \in 0 .. FilterFold(a, q) - 1, o \in 0 .. FilterSize(q) - 1 :
          WorksOn(a, q, x, 0, s, i, f, o)
    BY <1>2, <2>0, WorksSomewhere
  <2> DEFINE n == f * w + x
  <2>3. n \in 0 .. num - 1 /\ o \in 0 .. S - 1
    <3>1. f * w \in Nat /\ x \in Nat
      BY <1>1, NatProduct DEF Columns, Pos
    <3> QED BY <1>1, <2>1, <2>2, <3>1 DEF WorksOn, w, num, S, Pos
  <2>4. e = n * S + o
    BY <2>1, <2>2 DEF WorksOn, w, S
  <2> HIDE DEF n
  <2>5. n * S + o \in 0 .. num * S - 1
    BY <1>1, <2>3, DigitsBelow
  <2> QED BY <1>1, <2>4, <2>5
<1>4. ASSUME NEW e \in 0 .. FilterElements(q) - 1
      PROVE  \E s \in 0 .. T - 1 : e \in ReadFilters(a, q, s)
  <2> DEFINE n == e \div S
             o == e % S
  <2>1. e \in Nat /\ e < S * num
    <3>1. S * num \in Nat
      BY <1>1, NatProduct DEF Pos
    <3> QED BY <1>1, <3>1
  <2>2. n \in 0 .. num - 1 /\ o \in 0 .. S - 1 /\ e = S * n + o
    BY <1>1, <2>1, TwoDigits
  <2>3. n * S = S * n
    BY <1>1, <2>2, Commutes DEF Pos
  <2> HIDE DEF n, o
  <2>4. PICK f \in 0 .. FilterFold(a, q) - 1, x \in Columns(a) : n = f * a.systolic_width + x
    BY <2>2, FilterPlaced DEF num
  <2> DEFINE k == Worked(a, q, 0, f, o)
             s == x + 0 + k
  <2>5. o \in 0 .. FilterSize(q) - 1
    BY <2>2 DEF S
  <2>6. k \in Nat /\ x \in Nat
    BY <2>5, WorkedIs DEF Columns
  <2>7. /\ s \in Nat /\ Fold(a, q, x, 0, s).running /\ Fold(a, q, x, 0, s).offset = o
        /\ Fold(a, q, x, 0, s).filter = n /\ Fold(a, q, x, 0, s).window = 0 * a.systolic_height + 0
    <3>1. s \in Nat /\ Fold(a, q, x, 0, s).running /\ WorksOn(a, q, x, 0, s, 0, f, o)
      BY <1>2, <2>5, WorksAt
    <3> QED BY <2>4, <3>1 DEF WorksOn
  <2>8. 0 * a.systolic_height = 0
    BY <1>1 DEF h, Pos
  <2>9. AccordingIfmap(a, q, x, s)
    <3>1. 0 + x + k = s
      BY <2>6
    <3>2. LET z == 0 + x + k
          IN Fold(a, q, 0, x, z).running /\ WorksOn(a, q, 0, x, z, 0, f, o)
      BY <1>2, <2>5, WorksAt
    <3> HIDE DEF s, k
    <3>3. Fold(a, q, 0, x - 0, s).running /\ Fold(a, q, 0, x - 0, s).first + 0 < Windows(q)
      <4>1. x - 0 = x
        BY <2>6
      <4> QED BY <1>1, <2>8, <3>1, <3>2, <4>1 DEF WorksOn, W, Pos
    <3>4. 0 \in 0 .. Min({x, a.systolic_height - 1})
      <4>1. a.systolic_height - 1 \in Nat
        BY <1>1 DEF h, Pos
      <4>2. Min({x, a.systolic_height - 1}) \in Nat
        BY <2>6, <4>1, MinOfTwo
      <4> QED BY <4>2
    <3> QED BY <3>3, <3>4 DEF AccordingIfmap
  <2> HIDE DEF s
  <2>10. n < q.filter_num
    BY <1>1, <2>2 DEF num, Pos
  <2>11. e \in ReadFilters(a, q, s)
    <3>1. e = Fold(a, q, x, 0, s).filter * FilterSize(q) + Fold(a, q, x, 0, s).offset
      BY <2>2, <2>3, <2>7 DEF S
    <3> QED BY <2>7, <2>9, <2>10, <3>1 DEF ReadFilters
  <2>12. <<x, 0>> \in Working(a, q, s)
    <3>1. Assigned(q, Fold(a, q, x, 0, s))
      BY <1>1, <2>7, <2>8, <2>10 DEF Assigned, W, Pos
    <3> QED BY <1>2, <2>7, <3>1 DEF Working
  <2>13. s \in 0 .. T - 1
    BY <2>7, <2>12, WorkingBefore
  <2> QED BY <2>11, <2>13
<1> QED BY <1>3, <1>4

(* They write the results and nothing else.                                *)
LEMMA ConvOfmaps ==
  ASSUME NEW a \in Arch, NEW q, Dimensions(q), WindowInside(q), NEW T \in Nat, ~ConvLive(a, q, T)
  PROVE  UNION {DoneOfmaps(a, q, s) : s \in 0 .. T - 1} = 0 .. Windows(q) * q.filter_num - 1
<1> DEFINE num == q.filter_num
           w == a.systolic_width
           h == a.systolic_height
           W == Windows(q)
<1>1. /\ num \in Pos /\ num \in Nat /\ w \in Pos /\ h \in Pos /\ W \in Pos
      /\ num * W = W * num
  BY ConvNumbers DEF Dimensions, Pos
<1> HIDE DEF num, w, h, W
<1>2. ASSUME NEW s \in 0 .. T - 1, NEW e \in DoneOfmaps(a, q, s)
      PROVE  e \in 0 .. W * num - 1
  <2>1. PICK x \in Columns(a), y \in Rows(a) :
          /\ Fold(a, q, x, y, s).filter < num /\ Fold(a, q, x, y, s).window < W
          /\ e = Fold(a, q, x, y, s).filter * W + Fold(a, q, x, y, s).window
    BY <1>2 DEF DoneOfmaps, Working, Assigned, num, W
  <2>0. s \in Nat
    OBVIOUS
  <2>2. PICK i \in Nat, f \in 0 .. FilterFold(a, q) - 1, o \in 0 .. FilterSize(q) - 1 :
          WorksOn(a, q, x, y, s, i, f, o)
    BY <2>0, WorksSomewhere
  <2> DEFINE n == f * w + x
             m == i * h + y
  <2>3. n \in 0 .. num - 1 /\ m \in 0 .. W - 1
    <3>1. f * w \in Nat /\ i * h \in Nat /\ x \in Nat /\ y \in Nat
      BY <1>1, NatProduct DEF Columns, Rows, Pos
    <3> QED BY <1>1, <2>1, <2>2, <3>1 DEF WorksOn, Pos, w, h
  <2>4. e = n * W + m
    BY <2>1, <2>2 DEF WorksOn, w, h
  <2> HIDE DEF n, m
  <2>5. n * W + m \in 0 .. num * W - 1
    BY <1>1, <2>3, DigitsBelow
  <2> QED BY <1>1, <2>4, <2>5
<1>3. ASSUME NEW e \in 0 .. W * num - 1
      PROVE  \E s \in 0 .. T - 1 : e \in DoneOfmaps(a, q, s)
  <2> DEFINE n == e \div W
             m == e % W
  <2>1. e \in Nat /\ e < W * num
    <3>1. W * num \in Nat
      BY <1>1, NatProduct DEF Pos
    <3> QED BY <3>1
  <2>2. n \in 0 .. num - 1 /\ m \in 0 .. W - 1 /\ e = W * n + m
    BY <1>1, <2>1, TwoDigits
  <2>3. n * W = W * n
    BY <1>1, <2>2, Commutes DEF Pos
  <2> HIDE DEF n, m
  <2>4. PICK f \in 0 .. FilterFold(a, q) - 1, x \in Columns(a) : n = f * a.systolic_width + x
    BY <2>2, FilterPlaced DEF num
  <2>5. PICK i \in Nat, y \in Rows(a) : m = i * a.systolic_height + y
    <3>1. m \in Nat
      BY <2>2
    <3> QED BY <3>1, WindowPlaced
  <2>6. 0 \in 0 .. FilterSize(q) - 1
    BY ConvNumbers DEF Pos
  <2> DEFINE s == x + y + Worked(a, q, i, f, 0)
  <2>7. /\ s \in Nat /\ Fold(a, q, x, y, s).running
        /\ Fold(a, q, x, y, s).filter = n /\ Fold(a, q, x, y, s).window = m
    <3>1. s \in Nat /\ Fold(a, q, x, y, s).running /\ WorksOn(a, q, x, y, s, i, f, 0)
      BY <2>6, WorksAt
    <3> QED BY <2>4, <2>5, <3>1 DEF WorksOn
  <2> HIDE DEF s
  <2>8. <<x, y>> \in Working(a, q, s)
    <3>1. n < num /\ m < W
      BY <1>1, <2>2 DEF Pos
    <3>2. Assigned(q, Fold(a, q, x, y, s))
      BY <2>7, <3>1 DEF Assigned, num, W
    <3> QED BY <2>7, <3>2 DEF Working
  <2>9. e \in DoneOfmaps(a, q, s)
    <3>1. e = Fold(a, q, x, y, s).filter * Windows(q) + Fold(a, q, x, y, s).window
      BY <2>2, <2>3, <2>7 DEF W
    <3>2. <<x, y>>[1] = x /\ <<x, y>>[2] = y
      OBVIOUS
    <3> QED BY <2>8, <3>1, <3>2 DEF DoneOfmaps
  <2>10. s \in 0 .. T - 1
    BY <2>7, <2>8, WorkingBefore
  <2> QED BY <2>9, <2>10
<1> QED BY <1>2, <1>3 DEF W, num

-----------------------------------------------------------------------------
(* The elements of the ifmap that windows cover.                           *)
Element(q, c, y, x) == c * q.ifmap_width * q.ifmap_height + y * q.ifmap_width + x

(* The element of a filter in a channel, a row and a column.               *)
InFilter(q, c, y, x) == (q.filter_width * q.filter_height) * c + (q.filter_width * y + x)

(* An element of a filter has a channel, a row and a column, which say      *)
(* where it lies in a window.                                              *)
LEMMA FilterDigits ==
  ASSUME NEW q, Dimensions(q), NEW o \in 0 .. FilterSize(q) - 1
  PROVE  \E c \in 0 .. q.filter_depth - 1, y \in 0 .. q.filter_height - 1,
            x \in 0 .. q.filter_width - 1 : o = InFilter(q, c, y, x)
<1> DEFINE fw == q.filter_width
           fh == q.filter_height
           D == q.filter_depth
           ch == fw * fh
<1>1. fw \in Pos /\ fh \in Pos /\ D \in Pos /\ ch \in Pos
  BY PosProduct DEF Dimensions
<1>2. FilterSize(q) = ch * D
  BY DEF FilterSize
<1> HIDE DEF ch
<1>3. o \in Nat /\ o < ch * D
  <2>1. ch * D \in Nat
    BY <1>1, NatProduct DEF Pos
  <2> QED BY <1>2, <2>1
<1>4. o \div ch \in 0 .. D - 1 /\ o % ch \in 0 .. ch - 1 /\ o = ch * (o \div ch) + (o % ch)
  BY <1>1, <1>3, TwoDigits DEF Pos
<1> DEFINE d == o % ch
<1>5. d \in Nat /\ d < fw * fh
  BY <1>1, <1>4 DEF ch, Pos
<1>6. d \div fw \in 0 .. fh - 1 /\ d % fw \in 0 .. fw - 1 /\ d = fw * (d \div fw) + (d % fw)
  <2> HIDE DEF d
  <2> QED BY <1>1, <1>5, TwoDigits DEF Pos
<1> QED BY <1>4, <1>6 DEF InFilter, ch

(* Every such channel, row and column is an element of the filter.         *)
LEMMA FilterElement ==
  ASSUME NEW q, Dimensions(q), NEW c \in 0 .. q.filter_depth - 1,
         NEW y \in 0 .. q.filter_height - 1, NEW x \in 0 .. q.filter_width - 1
  PROVE  /\ InFilter(q, c, y, x) \in 0 .. FilterSize(q) - 1
         /\ InWindow(q, InFilter(q, c, y, x)) = Element(q, c, y, x)
<1> DEFINE fw == q.filter_width
           fh == q.filter_height
           D == q.filter_depth
           ch == fw * fh
           d == fw * y + x
           o == InFilter(q, c, y, x)
<1>1. fw \in Pos /\ fh \in Pos /\ D \in Pos /\ ch \in Pos /\ ch \in Nat
  BY PosProduct DEF Dimensions, Pos
<1>2. c \in Nat /\ y \in Nat /\ x \in 0 .. fw - 1 /\ fh \in Nat /\ D \in Nat
  BY <1>1 DEF Pos
<1>3. d \in 0 .. ch - 1
  BY <1>1, <1>2, DigitsBelow
<1>4. FilterSize(q) = ch * D /\ o = ch * c + d
  BY DEF FilterSize, InFilter
<1>5. o = fw * (fh * c + y) + x /\ fh * c + y \in Nat
  <2>1. (fw * fh) * c = fw * (fh * c) /\ fh * c \in Nat
    BY <1>1, <1>2, Associates, NatProduct DEF Pos
  <2>2. fw * (fh * c + y) = fw * (fh * c) + fw * y
    BY <1>1, <1>2, <2>1, Distributes DEF Pos
  <2>3. fw * (fh * c) \in Int /\ fw * y \in Int
    BY <1>1, <1>2, <2>1 DEF Pos
  <2> QED BY <1>2, <1>4, <2>1, <2>2, <2>3
<1>6. o % fw = x
  <2> DEFINE z == fh * c + y
  <2>1. z \in Nat /\ o = fw * z + x
    BY <1>5
  <2> HIDE DEF o, z
  <2> QED BY <1>1, <1>2, <2>1, DivUnique
<1>7. d \div fw = y
  BY <1>1, <1>2, DivUnique
<1> HIDE DEF d
<1>8. ch * c + d \in 0 .. ch * D - 1
  BY <1>1, <1>2, <1>3, DigitsBelow
<1>9. o \div ch = c /\ o % ch = d
  <2> HIDE DEF ch, o
  <2> QED BY <1>1, <1>2, <1>3, <1>4, DivUnique
<1>10. InWindow(q, o) = (o \div ch) * q.ifmap_width * q.ifmap_height
                          + ((o % ch) \div fw) * q.ifmap_width + (o % fw)
  BY DEF InWindow
<1> QED BY <1>4, <1>6, <1>7, <1>8, <1>9, <1>10 DEF Element

(* The upper left element of a window.                                     *)
Upper(q, w) == Min({(w \div OfmapWidth(q)) * q.stride, q.ifmap_height - q.filter_height})
Left(q, w) == Min({(w % OfmapWidth(q)) * q.stride, q.ifmap_width - q.filter_width})

(* The windows together cover what their rows and their columns cover.     *)
LEMMA WindowsCover ==
  ASSUME NEW q, Dimensions(q), WindowInside(q),
         OfmapWidth(q) \in Pos, OfmapHeight(q) \in Pos
  PROVE  {WindowBase(q, w) + InWindow(q, o) :
            w \in 0 .. Windows(q) - 1, o \in 0 .. FilterSize(q) - 1} = UsedIfmap(q)
<1> DEFINE ow == OfmapWidth(q)
           oh == OfmapHeight(q)
           fw == q.filter_width
           fh == q.filter_height
           iw == q.ifmap_width
           ih == q.ifmap_height
           Xs == Covered(iw, fw, ow, q.stride)
           Ys == Covered(ih, fh, oh, q.stride)
<1>1. /\ fw \in Pos /\ fh \in Pos /\ iw \in Pos /\ ih \in Pos /\ q.stride \in Pos
      /\ iw - fw \in Nat /\ ih - fh \in Nat /\ ow \in Pos /\ oh \in Pos
      /\ Windows(q) = ow * oh
  BY DEF Dimensions, WindowInside, Windows, Pos
<1>2. ASSUME NEW size \in Pos, NEW filter \in Pos, size - filter \in Nat, NEW w \in Nat
      PROVE  Min({w * q.stride, size - filter}) \in 0 .. size - filter
  <2>1. w * q.stride \in Nat
    BY <1>1, NatProduct DEF Pos
  <2>2. Min({w * q.stride, size - filter})
          = IF w * q.stride <= size - filter THEN w * q.stride ELSE size - filter
    BY <1>2, <2>1, MinOfTwo
  <2> QED BY <1>2, <2>1, <2>2
<1>3. ASSUME NEW w \in 0 .. Windows(q) - 1
      PROVE  /\ w \div ow \in 0 .. oh - 1 /\ w % ow \in 0 .. ow - 1
             /\ Upper(q, w) \in 0 .. ih - fh /\ Left(q, w) \in 0 .. iw - fw
  <2>1. w \in Nat /\ w < ow * oh /\ oh \in Nat
    <3>1. ow * oh \in Nat
      BY <1>1, NatProduct DEF Pos
    <3> QED BY <1>1, <3>1 DEF Pos
  <2>2. w \div ow \in 0 .. oh - 1 /\ w % ow \in 0 .. ow - 1
    BY <1>1, <2>1, TwoDigits
  <2>3. w \div ow \in Nat /\ w % ow \in Nat
    BY <2>2
  <2> QED BY <1>1, <1>2, <2>2, <2>3 DEF Upper, Left
<1>4. ASSUME NEW w, NEW c \in Nat, NEW y \in Nat, NEW x \in Nat,
             Upper(q, w) \in Nat, Left(q, w) \in Nat
      PROVE  WindowBase(q, w) + Element(q, c, y, x) = Element(q, c, Upper(q, w) + y, Left(q, w) + x)
  <2> DEFINE up == Upper(q, w)
             lf == Left(q, w)
             base == c * iw * ih
  <2>1. WindowBase(q, w) = up * iw + lf
    BY DEF WindowBase, Upper, Left
  <2> HIDE DEF up, lf
  <2>2. up \in Nat /\ lf \in Nat /\ (up + y) * iw = up * iw + y * iw
    BY <1>1, <1>4, Distributes DEF up, lf, Pos
  <2>3. base \in Nat /\ up * iw \in Nat /\ y * iw \in Nat
    <3>1. c * iw \in Nat /\ up * iw \in Nat /\ y * iw \in Nat
      BY <1>1, <2>2, NatProduct DEF Pos
    <3> QED BY <1>1, <3>1, NatProduct DEF Pos
  <2> HIDE DEF base
  <2>4. Element(q, c, y, x) = base + y * iw + x
        /\ Element(q, c, up + y, lf + x) = base + (up + y) * iw + (lf + x)
    BY DEF Element, base
  <2>5. (up * iw + lf) + (base + y * iw + x) = base + (up * iw + y * iw) + (lf + x)
    BY <2>2, <2>3
  <2> QED BY <2>1, <2>2, <2>4, <2>5 DEF up, lf
<1>5. ASSUME NEW w \in 0 .. Windows(q) - 1, NEW o \in 0 .. FilterSize(q) - 1
      PROVE  WindowBase(q, w) + InWindow(q, o) \in UsedIfmap(q)
  <2>1. PICK c \in 0 .. q.filter_depth - 1, y \in 0 .. fh - 1, x \in 0 .. fw - 1 :
          o = InFilter(q, c, y, x)
    BY FilterDigits
  <2>2. InWindow(q, o) = Element(q, c, y, x)
    BY <2>1, FilterElement
  <2> DEFINE up == Upper(q, w)
             lf == Left(q, w)
  <2>3. /\ w \div ow \in 0 .. oh - 1 /\ w % ow \in 0 .. ow - 1
        /\ up \in 0 .. ih - fh /\ lf \in 0 .. iw - fw
    BY <1>3
  <2>4. /\ up = Min({(w \div ow) * q.stride, ih - fh})
        /\ lf = Min({(w % ow) * q.stride, iw - fw})
    BY DEF Upper, Left
  <2>5. c \in Nat /\ y \in Nat /\ x \in Nat /\ up \in Nat /\ lf \in Nat
    BY <2>3
  <2>6. WindowBase(q, w) + Element(q, c, y, x) = Element(q, c, up + y, lf + x)
    BY <1>4, <2>5
  <2> HIDE DEF up, lf
  <2>7. /\ up + y \in 0 .. ih - 1 /\ up <= up + y /\ up + y < up + fh
        /\ lf + x \in 0 .. iw - 1 /\ lf <= lf + x /\ lf + x < lf + fw
    BY <1>1, <2>3, <2>5 DEF Pos
  <2>8. up + y \in Ys /\ lf + x \in Xs
    BY <2>3, <2>4, <2>7 DEF Covered
  <2> QED BY <2>2, <2>6, <2>8 DEF UsedIfmap, Element
<1>6. ASSUME NEW e \in UsedIfmap(q)
      PROVE  \E w \in 0 .. Windows(q) - 1, o \in 0 .. FilterSize(q) - 1 :
               e = WindowBase(q, w) + InWindow(q, o)
  <2>1. PICK c \in 0 .. q.filter_depth - 1, y \in Ys, x \in Xs : e = Element(q, c, y, x)
    BY DEF UsedIfmap, Element
  <2>2. PICK v \in 0 .. oh - 1 :
          LET from == Min({v * q.stride, ih - fh}) IN from <= y /\ y < from + fh
    BY DEF Covered
  <2>3. PICK u \in 0 .. ow - 1 :
          LET from == Min({u * q.stride, iw - fw}) IN from <= x /\ x < from + fw
    BY DEF Covered
  <2> DEFINE w == ow * v + u
             up == Upper(q, w)
             lf == Left(q, w)
  <2>4. v \in Nat /\ oh \in Nat
    BY <1>1 DEF Pos
  <2>5. w \in 0 .. Windows(q) - 1 /\ w \div ow = v /\ w % ow = u
    <3>1. w \in 0 .. ow * oh - 1
      BY <1>1, <2>4, DigitsBelow
    <3> QED BY <1>1, <2>4, <3>1, DivUnique
  <2>6. up = Min({v * q.stride, ih - fh}) /\ lf = Min({u * q.stride, iw - fw})
    BY <2>5 DEF Upper, Left
  <2>7. up \in 0 .. ih - fh /\ lf \in 0 .. iw - fw
    BY <1>3, <2>5
  <2>8. x \in Nat /\ y \in Nat /\ up <= y /\ y < up + fh /\ lf <= x /\ x < lf + fw
    BY <2>2, <2>3, <2>6 DEF Covered
  <2>10. WindowBase(q, w) + Element(q, c, y - up, x - lf)
           = Element(q, c, up + (y - up), lf + (x - lf))
    <3>1. y - up \in Nat /\ x - lf \in Nat /\ c \in Nat /\ up \in Nat /\ lf \in Nat
      BY <1>1, <2>7, <2>8 DEF Pos
    <3> QED BY <1>4, <3>1
  <2> HIDE DEF up, lf, w
  <2>9. y - up \in 0 .. fh - 1 /\ x - lf \in 0 .. fw - 1 /\ up + (y - up) = y /\ lf + (x - lf) = x
    BY <1>1, <2>7, <2>8 DEF Pos
  <2> DEFINE o == InFilter(q, c, y - up, x - lf)
  <2>11. o \in 0 .. FilterSize(q) - 1 /\ InWindow(q, o) = Element(q, c, y - up, x - lf)
    BY <2>9, FilterElement
  <2>12. e = WindowBase(q, w) + InWindow(q, o)
    BY <2>1, <2>9, <2>10, <2>11
  <2> QED BY <2>5, <2>11, <2>12
<1>7. ASSUME NEW e PROVE
        e \in {WindowBase(q, w) + InWindow(q, o) :
                 w \in 0 .. Windows(q) - 1, o \in 0 .. FilterSize(q) - 1} <=> e \in UsedIfmap(q)
  BY <1>5, <1>6
<1> QED BY <1>7

(* All cycles together feed the elements that windows cover and no others. *)
LEMMA ConvIfmaps ==
  ASSUME NEW a \in Arch, NEW q, Dimensions(q), WindowInside(q), NEW T \in Nat, ~ConvLive(a, q, T)
  PROVE  UNION {FedIfmaps(a, q, s) : s \in 0 .. T - 1} = UsedIfmap(q)
<1> DEFINE Fed == {WindowBase(q, w) + InWindow(q, o) :
                     w \in 0 .. Windows(q) - 1, o \in 0 .. FilterSize(q) - 1}
<1>1. /\ Windows(q) \in Pos /\ a.systolic_height \in Pos /\ a.systolic_width \in Pos
      /\ q.filter_num \in Pos /\ 0 \in 0 .. FilterFold(a, q) - 1
  BY ConvNumbers DEF Pos, Dimensions
<1>2. Fed = UsedIfmap(q)
  BY ConvNumbers, WindowsCover
<1>3. 0 \in Columns(a) /\ 0 * a.systolic_width = 0
  BY <1>1 DEF Columns, Pos
<1>4. ASSUME NEW s \in 0 .. T - 1, NEW e \in FedIfmaps(a, q, s)
      PROVE  e \in Fed
  <2>0. s \in Nat
    OBVIOUS
  <2>1. PICK y \in Rows(a) : /\ Fold(a, q, 0, y, s).window < Windows(q)
                             /\ e = WindowBase(q, Fold(a, q, 0, y, s).window)
                                      + InWindow(q, Fold(a, q, 0, y, s).offset)
    BY <1>4 DEF FedIfmaps
  <2>2. PICK i \in Nat, f \in 0 .. FilterFold(a, q) - 1, o \in 0 .. FilterSize(q) - 1 :
          WorksOn(a, q, 0, y, s, i, f, o)
    BY <1>3, <2>0, WorksSomewhere
  <2> DEFINE w == i * a.systolic_height + y
  <2>3. w \in 0 .. Windows(q) - 1
    <3>1. i * a.systolic_height \in Nat /\ y \in Nat
      BY <1>1, NatProduct DEF Rows, Pos
    <3> QED BY <1>1, <2>1, <2>2, <3>1 DEF WorksOn, Pos
  <2>4. e = WindowBase(q, w) + InWindow(q, o)
    BY <2>1, <2>2 DEF WorksOn
  <2> QED BY <2>3, <2>4
<1>5. ASSUME NEW e \in Fed
      PROVE  \E s \in 0 .. T - 1 : e \in FedIfmaps(a, q, s)
  <2>1. PICK w \in 0 .. Windows(q) - 1, o \in 0 .. FilterSize(q) - 1 :
          e = WindowBase(q, w) + InWindow(q, o)
    OBVIOUS
  <2>2. PICK i \in Nat, y \in Rows(a) : w = i * a.systolic_height + y
    <3>1. w \in Nat
      OBVIOUS
    <3> QED BY <3>1, WindowPlaced
  <2> DEFINE s == 0 + y + Worked(a, q, i, 0, o)
  <2>3. /\ s \in Nat /\ Fold(a, q, 0, y, s).running /\ Fold(a, q, 0, y, s).offset = o
        /\ Fold(a, q, 0, y, s).filter = 0 * a.systolic_width + 0 /\ Fold(a, q, 0, y, s).window = w
    <3>1. s \in Nat /\ Fold(a, q, 0, y, s).running /\ WorksOn(a, q, 0, y, s, i, 0, o)
      BY <1>1, <1>3, WorksAt
    <3> QED BY <2>2, <3>1 DEF WorksOn
  <2> HIDE DEF s
  <2>4. w < Windows(q) /\ 0 < q.filter_num
    BY <1>1 DEF Pos
  <2>5. e \in FedIfmaps(a, q, s)
    BY <2>1, <2>3, <2>4 DEF FedIfmaps
  <2>6. <<0, y>> \in Working(a, q, s)
    <3>1. Assigned(q, Fold(a, q, 0, y, s))
      BY <1>3, <2>3, <2>4 DEF Assigned
    <3> QED BY <1>3, <2>3, <3>1 DEF Working
  <2>7. s \in 0 .. T - 1
    BY <2>3, <2>6, WorkingBefore
  <2> QED BY <2>5, <2>7
<1> HIDE DEF Fed
<1> QED BY <1>2, <1>4, <1>5

-----------------------------------------------------------------------------
(* The other convolution: its folds, one after the other.                  *)

(* The two digits of a fold: its windows and its filters.                  *)
LEMMA FoldNumber ==
  ASSUME NEW a \in Arch, NEW q, Dimensions(q), WindowInside(q)
  PROVE  /\ IneffFolds(a, q) \in Pos
         /\ \A k \in 0 .. IneffFolds(a, q) - 1 :
              /\ k \div FilterFold(a, q) \in Bands(a.systolic_height, Windows(q))
              /\ k % FilterFold(a, q) \in Bands(a.systolic_width, q.filter_num)
         /\ \A i \in Bands(a.systolic_height, Windows(q)), f \in Bands(a.systolic_width, q.filter_num) :
              /\ FilterFold(a, q) * i + f \in 0 .. IneffFolds(a, q) - 1
              /\ FirstWindow(a, q, FilterFold(a, q) * i + f) = i * a.systolic_height
              /\ FirstFilter(a, q, FilterFold(a, q) * i + f) = f * a.systolic_width
<1> DEFINE F == FilterFold(a, q)
           I == CeilDiv(Windows(q), a.systolic_height)
<1>1. F \in Pos /\ a.systolic_height \in Pos /\ Windows(q) \in Pos
  BY ConvNumbers
<1>2. ASSUME NEW x \in Pos, NEW y \in Pos
      PROVE  CeilDiv(x, y) \in Pos
  BY DEF CeilDiv, Pos
<1>3. I \in Pos /\ I \in Nat
  BY <1>1, <1>2 DEF Pos
<1>4. IneffFolds(a, q) = I * F
  BY DEF IneffFolds
<1>5. /\ Bands(a.systolic_height, Windows(q)) = 0 .. I - 1
      /\ Bands(a.systolic_width, q.filter_num) = 0 .. F - 1
  BY DEF Bands, FilterFold
<1> HIDE DEF F, I
<1>6. I * F \in Pos /\ I * F = F * I
  BY <1>1, <1>3, PosProduct, Commutes DEF Pos
<1>7. ASSUME NEW k \in 0 .. IneffFolds(a, q) - 1
      PROVE  k \div F \in 0 .. I - 1 /\ k % F \in 0 .. F - 1
  <2>1. k \in Nat /\ k < F * I
    BY <1>4, <1>6 DEF Pos
  <2> QED BY <1>1, <1>3, <2>1, TwoDigits
<1>8. ASSUME NEW i \in 0 .. I - 1, NEW f \in 0 .. F - 1
      PROVE  /\ F * i + f \in 0 .. IneffFolds(a, q) - 1
             /\ (F * i + f) \div F = i /\ (F * i + f) % F = f
  <2>1. F * i + f \in 0 .. F * I - 1
    BY <1>1, <1>3, DigitsBelow
  <2>2. i \in Nat
    OBVIOUS
  <2> QED BY <1>1, <1>4, <1>6, <2>1, <2>2, DivUnique
<1> QED BY <1>4, <1>5, <1>6, <1>7, <1>8 DEF FirstWindow, FirstFilter, F

(* A fold has filters and windows, no more than are left and than the      *)
(* array has columns and rows, and cycles.                                 *)
LEMMA FoldSize ==
  ASSUME NEW a \in Arch, NEW q, Dimensions(q), WindowInside(q),
         NEW k \in 0 .. IneffFolds(a, q) - 1
  PROVE  LET LF == LiveFilter(a, q, k)
             LI == LiveIfmap(a, q, k)
         IN /\ FirstFilter(a, q, k) \in Nat /\ FirstWindow(a, q, k) \in Nat
            /\ LF \in Pos /\ LI \in Pos
            /\ \A x \in Columns(a) : FirstFilter(a, q, k) + x < q.filter_num => x < LF
            /\ \A y \in Rows(a) : FirstWindow(a, q, k) + y < Windows(q) => y < LI
            /\ CycleInThisFold(a, q, k) \in Pos
            /\ CycleInThisFold(a, q, k)
                 = FilterSize(q) + 2 * ((IF LF <= LI THEN LF ELSE LI) - 1)
<1> DEFINE w == a.systolic_width
           h == a.systolic_height
           num == q.filter_num
           W == Windows(q)
           f == k % FilterFold(a, q)
           i == k \div FilterFold(a, q)
           LF == LiveFilter(a, q, k)
           LI == LiveIfmap(a, q, k)
<1>1. w \in Pos /\ h \in Pos /\ num \in Pos /\ W \in Pos /\ FilterSize(q) \in Pos
  BY ConvNumbers DEF Dimensions
<1>2. f \in Bands(w, num) /\ i \in Bands(h, W)
  BY FoldNumber
<1>3. /\ FirstFilter(a, q, k) = f * w /\ FirstWindow(a, q, k) = i * h
      /\ LF = Min({num - f * w, w}) /\ LI = Min({W - i * h, h})
  BY DEF FirstFilter, FirstWindow, LiveFilter, LiveIfmap
<1>4. CycleInThisFold(a, q, k) = FilterSize(q) + 2 * (Min({LF, LI}) - 1)
  BY DEF CycleInThisFold
<1>5. Columns(a) = 0 .. w - 1 /\ Rows(a) = 0 .. h - 1
  BY DEF Columns, Rows
<1> HIDE DEF w, h, num, W, f, i, LF, LI
<1>6. ASSUME NEW step \in Pos, NEW whole \in Pos, NEW n \in Bands(step, whole)
      PROVE  /\ n * step \in Nat /\ Min({whole - n * step, step}) \in 1 .. step
             /\ \A x \in 0 .. step - 1 :
                  n * step + x < whole => x < Min({whole - n * step, step})
  <2>1. n \in 0 .. CeilDiv(whole, step) - 1
    BY DEF Bands
  <2>2. step * n \in Nat /\ Part(n, step, whole) \in 1 .. step
    BY <2>1, PartSize
  <2>3. n * step = step * n
    BY <2>1, Commutes DEF Pos
  <2>4. Min({whole - n * step, step}) = Part(n, step, whole)
    <3>1. {whole - n * step, step} = {step, whole - step * n}
      BY <2>3
    <3> QED BY <3>1 DEF Part
  <2>5. Min({whole - n * step, step})
          = IF whole - n * step <= step THEN whole - n * step ELSE step
    BY <2>2, <2>3, MinOfTwo DEF Pos
  <2> DEFINE b == n * step
             m == Min({whole - n * step, step})
  <2>6. b \in Nat /\ m \in 1 .. step /\ m = IF whole - b <= step THEN whole - b ELSE step
    BY <2>2, <2>3, <2>4, <2>5
  <2> HIDE DEF b, m
  <2>7. \A x \in 0 .. step - 1 : b + x < whole => x < m
    BY <2>6 DEF Pos
  <2> QED BY <2>6, <2>7 DEF b, m
<1>7. /\ f * w \in Nat /\ LF \in 1 .. w
      /\ \A x \in 0 .. w - 1 : f * w + x < num => x < LF
  BY <1>1, <1>2, <1>3, <1>6
<1>8. /\ i * h \in Nat /\ LI \in 1 .. h
      /\ \A y \in 0 .. h - 1 : i * h + y < W => y < LI
  BY <1>1, <1>2, <1>3, <1>6
<1>9. Min({LF, LI}) = (IF LF <= LI THEN LF ELSE LI)
  BY <1>7, <1>8, MinOfTwo
<1>10. LF \in Pos /\ LI \in Pos
  BY <1>7, <1>8 DEF Pos
<1>11. FilterSize(q) + 2 * (Min({LF, LI}) - 1) \in Pos
  BY <1>1, <1>9, <1>10 DEF Pos
<1> QED BY <1>3, <1>4, <1>5, <1>7, <1>8, <1>9, <1>10, <1>11 DEF LF, LI, num, W

(* The first fold starts at the beginning, every other one when the one    *)
(* before it has ended: the sum of the cycles before is one by one.        *)
LEMMA FoldsFollow ==
  ASSUME NEW a \in Arch, NEW q, Dimensions(q), WindowInside(q)
  PROVE  /\ FoldStart(a, q, 0) = 0
         /\ \A k \in 0 .. IneffFolds(a, q) : FoldStart(a, q, k) \in Nat
         /\ \A k \in 0 .. IneffFolds(a, q) - 1 :
              FoldStart(a, q, k + 1) = FoldStart(a, q, k) + CycleInThisFold(a, q, k)
<1> DEFINE N == IneffFolds(a, q)
           D == 0 .. N - 1
           A == [j \in D |-> {j} \X (1 .. CycleInThisFold(a, q, j))]
           cycles(j) == CycleInThisFold(a, q, j)
<1>1. N \in Pos
  BY FoldNumber
<1>2. \A j \in D : cycles(j) \in Pos
  BY FoldSize
<1> HIDE DEF N, cycles
<1>3. ASSUME NEW j \in D
      PROVE  IsFiniteSet(A[j]) /\ Cardinality(A[j]) = cycles(j)
  <2> DEFINE own == 1 .. cycles(j)
  <2>1. IsFiniteSet(own) /\ Cardinality(own) = cycles(j)
    <3>1. 1 \in Int /\ cycles(j) \in Int /\ ~(1 > cycles(j)) /\ cycles(j) - 1 + 1 = cycles(j)
      BY <1>2 DEF Pos
    <3>2. IsFiniteSet(own) /\ Cardinality(own) = IF 1 > cycles(j) THEN 0 ELSE cycles(j) - 1 + 1
      BY <3>1, FS_Interval
    <3> QED BY <3>1, <3>2
  <2>2. IsFiniteSet({j}) /\ Cardinality({j}) = 1
    BY FS_Singleton
  <2> HIDE DEF own
  <2>3. /\ IsFiniteSet({j} \X own)
        /\ Cardinality({j} \X own) = Cardinality({j}) * Cardinality(own)
    BY <2>1, <2>2, FS_Product
  <2>4. Cardinality({j}) * Cardinality(own) = cycles(j)
    BY <1>2, <2>1, <2>2 DEF Pos
  <2> QED BY <2>3, <2>4 DEF own, cycles
<1>4. \A m, n \in D : m # n => A[m] \cap A[n] = {}
  OBVIOUS
<1>5. IsFiniteSet(D)
  <2>1. 0 \in Int /\ N - 1 \in Int
    BY <1>1 DEF Pos
  <2> QED BY <2>1, FS_Interval
<1> HIDE DEF A, D
<1>6. ASSUME NEW e \in SUBSET D
      PROVE  MapThenSumSet(cycles, e) = Cardinality(Joined(A, e))
  <2> DEFINE Sums(g) == g = [b \in SUBSET e |->
                               IF b = {} THEN 0
                               ELSE LET m == CHOOSE m \in b : TRUE IN cycles(m) + g[b \ {m}]]
  <2>1. MapThenSumSet(cycles, e) = (CHOOSE g : Sums(g))[e]
    BY DEF MapThenSumSet, MapThenFoldSet
  <2>2. \A g : Sums(g) <=> SumsOver(A, e, g)
    <3> TAKE g
    <3>1. \A b \in SUBSET e : b # {} =>
            cycles(CHOOSE m \in b : TRUE) = Cardinality(A[CHOOSE m \in b : TRUE])
      BY <1>3
    <3> QED BY <3>1 DEF SumsOver
  <2> HIDE DEF Sums
  <2>3. /\ IsFiniteSet(e) /\ (\A n \in e : IsFiniteSet(A[n]))
        /\ \A m, n \in e : m # n => A[m] \cap A[n] = {}
    BY <1>3, <1>4, <1>5, FS_Subset
  <2>4. \E g : SumsOver(A, e, g)
    BY <2>3, SumOfSizes
  <2>5. Sums(CHOOSE g : Sums(g))
    BY <2>2, <2>4
  <2>6. SumsOver(A, e, CHOOSE g : Sums(g))
    BY <2>2, <2>5
  <2> QED BY <2>1, <2>3, <2>6, SumOfSizes
<1>7. ASSUME NEW k \in 0 .. N
      PROVE  /\ 0 .. k - 1 \in SUBSET D
             /\ FoldStart(a, q, k) = Cardinality(Joined(A, 0 .. k - 1))
             /\ FoldStart(a, q, k) \in Nat
  <2>1. 0 .. k - 1 \in SUBSET D
    BY <1>1 DEF D, Pos
  <2>2. FoldStart(a, q, k) = MapThenSumSet(cycles, 0 .. k - 1)
    BY DEF FoldStart, cycles
  <2>3. Cardinality(Joined(A, 0 .. k - 1)) \in Nat
    BY <1>3, <1>5, <2>1, JoinedFinite
  <2> QED BY <1>6, <2>1, <2>2, <2>3
<1>8. FoldStart(a, q, 0) = 0
  <2>1. 0 \in 0 .. N /\ 0 .. 0 - 1 = {}
    BY <1>1 DEF Pos
  <2>2. Joined(A, {}) = {}
    BY DEF Joined
  <2> QED BY <1>7, <2>1, <2>2, FS_EmptySet
<1>9. ASSUME NEW k \in 0 .. N - 1
      PROVE  FoldStart(a, q, k + 1) = FoldStart(a, q, k) + cycles(k)
  <2>1. /\ k \in 0 .. N /\ k + 1 \in 0 .. N /\ k \in D /\ k \in 0 .. (k + 1) - 1
        /\ (0 .. (k + 1) - 1) \ {k} = 0 .. k - 1
    BY <1>1 DEF D, Pos
  <2>2. 0 .. (k + 1) - 1 \in SUBSET D
    BY <1>7, <2>1
  <2>3. Cardinality(Joined(A, 0 .. (k + 1) - 1))
          = Cardinality(A[k]) + Cardinality(Joined(A, 0 .. k - 1))
    <3> DEFINE e == 0 .. (k + 1) - 1
    <3>1. e \in SUBSET D /\ k \in e /\ e \ {k} = 0 .. k - 1
      BY <2>1, <2>2
    <3> HIDE DEF e
    <3>2. \A n \in D : IsFiniteSet(A[n])
      BY <1>3
    <3>3. \A d \in SUBSET D : \A x \in d :
            Cardinality(Joined(A, d)) = Cardinality(A[x]) + Cardinality(Joined(A, d \ {x}))
      <4>1. IsFiniteSet(D)
        BY <1>5
      <4>2. \A m, n \in D : m # n => A[m] \cap A[n] = {}
        BY <1>4
      <4> TAKE d \in SUBSET D
      <4> TAKE x \in d
      <4> QED BY <3>2, <4>1, <4>2, JoinedOneMore
    <3>4. Cardinality(Joined(A, e)) = Cardinality(A[k]) + Cardinality(Joined(A, e \ {k}))
      BY <3>1, <3>3
    <3> QED BY <3>1, <3>4 DEF e
  <2>4. /\ FoldStart(a, q, k) = Cardinality(Joined(A, 0 .. k - 1)) /\ FoldStart(a, q, k) \in Nat
        /\ FoldStart(a, q, k + 1) = Cardinality(Joined(A, 0 .. (k + 1) - 1))
    BY <1>7, <2>1
  <2>5. Cardinality(A[k]) = cycles(k) /\ cycles(k) \in Nat
    BY <1>2, <1>3, <2>1 DEF Pos
  <2> QED BY <2>1, <2>3, <2>4, <2>5
<1> QED BY <1>7, <1>8, <1>9 DEF N, cycles

(* Starts grow with the folds.                                             *)
LEMMA StartsGrow ==
  ASSUME NEW a \in Arch, NEW q, Dimensions(q), WindowInside(q)
  PROVE  \A k \in 0 .. IneffFolds(a, q) : \A j \in 0 .. k : FoldStart(a, q, j) <= FoldStart(a, q, k)
<1> DEFINE N == IneffFolds(a, q)
           start(k) == FoldStart(a, q, k)
           Good == {k \in Nat : k <= N => \A j \in 0 .. k : start(j) <= start(k)}
<1>1. /\ N \in Pos /\ start(0) = 0 /\ (\A k \in 0 .. N : start(k) \in Nat)
      /\ \A k \in 0 .. N - 1 : start(k + 1) >= start(k)
  <2>1. ASSUME NEW k \in 0 .. N - 1
        PROVE  start(k + 1) >= start(k)
    <3>1. CycleInThisFold(a, q, k) \in Pos /\ k \in 0 .. N
      BY FoldNumber, FoldSize DEF Pos
    <3>2. start(k + 1) = start(k) + CycleInThisFold(a, q, k) /\ start(k) \in Nat
      BY <3>1, FoldsFollow
    <3> QED BY <3>1, <3>2 DEF Pos
  <2> QED BY <2>1, FoldNumber, FoldsFollow
<1> HIDE DEF N, start
<1>2. 0 \in Good
  BY <1>1 DEF Pos
<1>3. ASSUME NEW n \in Nat, n \in Good
      PROVE  n + 1 \in Good
  <2> SUFFICES ASSUME n + 1 <= N, NEW j \in 0 .. n + 1 PROVE start(j) <= start(n + 1)
    OBVIOUS
  <2>1. /\ n \in 0 .. N - 1 /\ n \in 0 .. N /\ n + 1 \in 0 .. N /\ j \in 0 .. N
        /\ (j = n + 1 \/ j \in 0 .. n)
    BY <1>1 DEF Pos
  <2>2. start(n + 1) >= start(n) /\ start(n) \in Nat /\ start(n + 1) \in Nat /\ start(j) \in Nat
    BY <1>1, <2>1
  <2>3. j \in 0 .. n => start(j) <= start(n)
    BY <1>3, <2>1
  <2> QED BY <2>1, <2>2, <2>3
<1> HIDE DEF Good
<1>4. \A k \in Nat : k \in Good
  BY <1>2, <1>3, NumbersInduction
<1> QED BY <1>4 DEF Good, N, start

(* A cycle is in one fold, the one the code is in.                         *)
FoldIs(a, q, k, s) == FoldStart(a, q, k) <= s /\ s < FoldStart(a, q, k + 1)

LEMMA FoldOfCycle ==
  ASSUME NEW a \in Arch, NEW q, Dimensions(q), WindowInside(q), NEW s \in Nat
  PROVE  /\ IneffLive(a, q, s) => \E k \in 0 .. IneffFolds(a, q) - 1 : FoldIs(a, q, k, s)
         /\ \A k \in 0 .. IneffFolds(a, q) - 1 :
              FoldIs(a, q, k, s) =>
                /\ IneffLive(a, q, s)
                /\ (CHOOSE j \in 0 .. IneffFolds(a, q) - 1 : FoldIs(a, q, j, s)) = k
<1> DEFINE N == IneffFolds(a, q)
           start(k) == FoldStart(a, q, k)
<1>1. /\ N \in Pos /\ start(0) = 0 /\ (\A k \in 0 .. N : start(k) \in Nat)
      /\ \A k \in 0 .. N : \A j \in 0 .. k : start(j) <= start(k)
  BY FoldNumber, FoldsFollow, StartsGrow
<1>2. \A k : FoldIs(a, q, k, s) <=> start(k) <= s /\ s < start(k + 1)
  BY DEF FoldIs
<1>3. IneffLive(a, q, s) <=> s < start(N)
  BY DEF IneffLive
<1> HIDE DEF N, start
<1>4. ASSUME s < start(N)
      PROVE  \E k \in 0 .. N - 1 : start(k) <= s /\ s < start(k + 1)
  <2> DEFINE Later == {k \in 0 .. N : s < start(k)}
  <2>1. N \in Later /\ Later \in SUBSET Nat /\ 0 \notin Later
    BY <1>1, <1>4 DEF Pos
  <2>2. PICK m \in Later : \A j \in Later : m <= j
    BY <2>1, LeastNumber
  <2>3. m - 1 \in 0 .. N - 1 /\ m - 1 \in 0 .. N /\ m - 1 \notin Later /\ (m - 1) + 1 = m
    <3>1. m \in 0 .. N /\ m # 0
      BY <2>1, <2>2
    <3>2. m - 1 \notin Later
      <4>1. ~(m <= m - 1)
        BY <3>1
      <4> QED BY <2>2, <4>1
    <3> QED BY <1>1, <3>1, <3>2 DEF Pos
  <2>4. start(m - 1) \in Nat
    BY <1>1, <2>3
  <2>5. start(m - 1) <= s
    BY <2>3, <2>4
  <2>6. s < start((m - 1) + 1)
    BY <2>2, <2>3
  <2> QED BY <2>3, <2>5, <2>6
<1>5. ASSUME NEW k \in 0 .. N - 1, start(k) <= s, s < start(k + 1)
      PROVE  s < start(N)
  <2>1. k + 1 \in 0 .. N /\ N \in 0 .. N
    BY <1>1 DEF Pos
  <2>2. start(k + 1) <= start(N) /\ start(k + 1) \in Nat /\ start(N) \in Nat
    BY <1>1, <2>1
  <2> QED BY <1>5, <2>2
<1>6. ASSUME NEW k \in 0 .. N - 1, start(k) <= s, s < start(k + 1),
             NEW j \in 0 .. N - 1, start(j) <= s, s < start(j + 1)
      PROVE  ~(j < k)
  <2> SUFFICES ASSUME j < k PROVE FALSE
    OBVIOUS
  <2>1. j + 1 \in 0 .. k /\ k \in 0 .. N /\ j + 1 \in 0 .. N
    BY <1>1 DEF Pos
  <2>2. start(j + 1) <= start(k) /\ start(j + 1) \in Nat /\ start(k) \in Nat
    BY <1>1, <2>1
  <2> QED BY <1>6, <2>2
<1>7. ASSUME NEW k \in 0 .. N - 1, FoldIs(a, q, k, s),
             NEW j \in 0 .. N - 1, FoldIs(a, q, j, s)
      PROVE  j = k
  <2>1. ~(j < k) /\ ~(k < j)
    BY <1>2, <1>6, <1>7
  <2> QED BY <2>1
<1>8. ASSUME NEW k \in 0 .. N - 1, FoldIs(a, q, k, s)
      PROVE  (CHOOSE j \in 0 .. N - 1 : FoldIs(a, q, j, s)) = k
  BY <1>7, <1>8
<1>9. ASSUME NEW k \in 0 .. N - 1, FoldIs(a, q, k, s)
      PROVE  IneffLive(a, q, s)
  BY <1>2, <1>3, <1>5, <1>9
<1>10. IneffLive(a, q, s) => \E k \in 0 .. N - 1 : FoldIs(a, q, k, s)
  BY <1>2, <1>3, <1>4
<1> QED BY <1>8, <1>9, <1>10 DEF N

(* FoldsReach, for any core.                                               *)
Reaches(a, q) ==
  \A k \in 0 .. IneffFolds(a, q) - 1 :
    LET live == {LiveIfmap(a, q, k), LiveFilter(a, q, k)}
    IN Max(live) <= 2 * Min(live) - 1 /\ Max(live) - Min(live) < FilterSize(q)

(* Then the last row and the last column work through all elements before  *)
(* the fold ends, and their last result is begun.                          *)
LEMMA FoldRoom ==
  ASSUME NEW a \in Arch, NEW q, Dimensions(q), WindowInside(q), Reaches(a, q),
         NEW k \in 0 .. IneffFolds(a, q) - 1
  PROVE  LET LF == LiveFilter(a, q, k)
             LI == LiveIfmap(a, q, k)
             cycles == CycleInThisFold(a, q, k)
         IN /\ cycles \in Pos
            /\ \A x \in 0 .. LF - 1, o \in 0 .. FilterSize(q) - 1 : x + o \in 0 .. cycles - 1
            /\ \A y \in 0 .. LI - 1, o \in 0 .. FilterSize(q) - 1 : y + o \in 0 .. cycles - 1
            /\ \A x \in 0 .. LF - 1, y \in 0 .. LI - 1 : x + y \in 0 .. cycles - 1
<1> DEFINE LF == LiveFilter(a, q, k)
           LI == LiveIfmap(a, q, k)
           cycles == CycleInThisFold(a, q, k)
           S == FilterSize(q)
<1>1. /\ LF \in Pos /\ LI \in Pos /\ cycles \in Pos /\ S \in Pos
      /\ cycles = S + 2 * ((IF LF <= LI THEN LF ELSE LI) - 1)
  BY FoldSize, ConvNumbers
<1>2. Max({LI, LF}) <= 2 * Min({LI, LF}) - 1 /\ Max({LI, LF}) - Min({LI, LF}) < S
  BY DEF Reaches
<1> HIDE DEF LF, LI, cycles, S
<1>3. /\ Max({LI, LF}) = IF LI >= LF THEN LI ELSE LF
      /\ Min({LI, LF}) = IF LI <= LF THEN LI ELSE LF
  BY <1>1, MinOfTwo, MaxOfTwo DEF Pos
<1>4. CASE LF <= LI
  <2>1. cycles = S + 2 * (LF - 1) /\ LI <= 2 * LF - 1 /\ LI - LF < S
    BY <1>1, <1>2, <1>3, <1>4 DEF Pos
  <2> QED BY <1>1, <1>4, <2>1 DEF LF, LI, cycles, S, Pos
<1>5. CASE ~(LF <= LI)
  <2>1. cycles = S + 2 * (LI - 1) /\ LF <= 2 * LI - 1 /\ LF - LI < S /\ LI <= LF
    BY <1>1, <1>2, <1>3, <1>5 DEF Pos
  <2> QED BY <1>1, <2>1 DEF LF, LI, cycles, S, Pos
<1> QED BY <1>4, <1>5

(* The elements of the three tensors that cycle d of fold k touches.       *)
ReadIn(a, q, k, d) ==
  {(FirstFilter(a, q, k) + x) * FilterSize(q) + (d - x) :
     x \in {x \in Columns(a) : /\ FirstFilter(a, q, k) + x < q.filter_num
                               /\ d - x \in 0 .. FilterSize(q) - 1}}
FedIn(a, q, k, d) ==
  {WindowBase(q, FirstWindow(a, q, k) + y) + InWindow(q, d - y) :
     y \in {y \in Rows(a) : /\ FirstWindow(a, q, k) + y < Windows(q)
                            /\ d - y \in 0 .. FilterSize(q) - 1}}
DoneIn(a, q, k, d) ==
  {(FirstFilter(a, q, k) + p[1]) * Windows(q) + (FirstWindow(a, q, k) + p[2]) :
     p \in {p \in Columns(a) \X Rows(a) : d - (p[1] + p[2]) \in 0 .. FilterSize(q) - 1}}

(* A cycle touches their lines.                                            *)
LEMMA IneffTouches ==
  ASSUME NEW a \in Arch, NEW q, Dimensions(q), WindowInside(q), NEW s \in Nat,
         NEW k \in 0 .. IneffFolds(a, q) - 1, FoldIs(a, q, k, s)
  PROVE  LET d == s - FoldStart(a, q, k)
         IN /\ IneffAccess(a, q, s).filter = Lines(a, q.filter, ReadIn(a, q, k, d))
            /\ IneffAccess(a, q, s).ifmap = Lines(a, q.ifmap, FedIn(a, q, k, d))
            /\ IneffAccess(a, q, s).ofmap = Lines(a, q.ofmap, DoneIn(a, q, k, d))
<1>1. (CHOOSE j \in 0 .. IneffFolds(a, q) - 1 :
         FoldStart(a, q, j) <= s /\ s < FoldStart(a, q, j + 1)) = k
  BY FoldOfCycle DEF FoldIs
<1> QED BY <1>1 DEF IneffAccess, Access, ReadIn, FedIn, DoneIn

(* Every cycle of a fold comes before the end.                             *)
LEMMA CycleOfFold ==
  ASSUME NEW a \in Arch, NEW q, Dimensions(q), WindowInside(q),
         NEW T \in Nat, ~IneffLive(a, q, T),
         NEW k \in 0 .. IneffFolds(a, q) - 1, NEW d \in 0 .. CycleInThisFold(a, q, k) - 1
  PROVE  LET s == FoldStart(a, q, k) + d
         IN s \in 0 .. T - 1 /\ FoldIs(a, q, k, s) /\ s - FoldStart(a, q, k) = d
<1> DEFINE start == FoldStart(a, q, k)
           s == start + d
<1>1. /\ start \in Nat /\ CycleInThisFold(a, q, k) \in Pos
      /\ FoldStart(a, q, k + 1) = start + CycleInThisFold(a, q, k)
      /\ FoldStart(a, q, IneffFolds(a, q)) \in Nat
  <2>1. IneffFolds(a, q) \in Pos
    BY FoldNumber
  <2>2. k \in 0 .. IneffFolds(a, q) /\ IneffFolds(a, q) \in 0 .. IneffFolds(a, q)
    BY <2>1 DEF Pos
  <2> QED BY <2>2, FoldSize, FoldsFollow
<1> HIDE DEF start
<1>2. s \in Nat /\ s - start = d /\ start <= s /\ s < start + CycleInThisFold(a, q, k)
  BY <1>1 DEF Pos
<1> HIDE DEF s
<1>3. FoldIs(a, q, k, s)
  BY <1>1, <1>2 DEF FoldIs, start
<1>4. IneffLive(a, q, s)
  BY <1>2, <1>3, FoldOfCycle
<1>5. s < T
  BY <1>1, <1>2, <1>4 DEF IneffLive
<1> QED BY <1>2, <1>3, <1>5 DEF s, start

(* The cycles of a fold read filters, feed elements that windows cover, and *)
(* of these all are read or fed in some cycle of some fold, and all results *)
(* begun.                                                                  *)
LEMMA FoldsTouch ==
  ASSUME NEW a \in Arch, NEW q, Dimensions(q), WindowInside(q), Reaches(a, q)
  PROVE  /\ \A k \in 0 .. IneffFolds(a, q) - 1, d \in Nat :
              /\ ReadIn(a, q, k, d) \subseteq 0 .. FilterElements(q) - 1
              /\ FedIn(a, q, k, d) \subseteq UsedIfmap(q)
         /\ \A e \in 0 .. FilterElements(q) - 1 :
              \E k \in 0 .. IneffFolds(a, q) - 1 : \E d \in 0 .. CycleInThisFold(a, q, k) - 1 :
                e \in ReadIn(a, q, k, d)
         /\ \A e \in UsedIfmap(q) :
              \E k \in 0 .. IneffFolds(a, q) - 1 : \E d \in 0 .. CycleInThisFold(a, q, k) - 1 :
                e \in FedIn(a, q, k, d)
         /\ \A e \in 0 .. Windows(q) * q.filter_num - 1 :
              \E k \in 0 .. IneffFolds(a, q) - 1 : \E d \in 0 .. CycleInThisFold(a, q, k) - 1 :
                e \in DoneIn(a, q, k, d)
<1> DEFINE w == a.systolic_width
           h == a.systolic_height
           num == q.filter_num
           W == Windows(q)
           F == FilterFold(a, q)
           S == FilterSize(q)
           N == IneffFolds(a, q)
           Fed == {WindowBase(q, v) + InWindow(q, o) : v \in 0 .. W - 1, o \in 0 .. S - 1}
<1>1. /\ S \in Pos /\ num \in Pos /\ num \in Nat /\ w \in Pos /\ h \in Pos /\ W \in Pos /\ F \in Pos
      /\ num * S = S * num /\ FilterElements(q) = S * num /\ num * W = W * num
      /\ num <= w * F
  BY ConvNumbers DEF Dimensions, FilterElements, Pos
<1>2. Fed = UsedIfmap(q)
  BY ConvNumbers, WindowsCover
<1>3. /\ \A k \in 0 .. N - 1 : FirstFilter(a, q, k) \in Nat /\ FirstWindow(a, q, k) \in Nat
      /\ Columns(a) = 0 .. w - 1 /\ Rows(a) = 0 .. h - 1
  BY FoldSize DEF Columns, Rows
<1>4. ASSUME NEW v \in 0 .. W - 1
      PROVE  \E i \in Bands(h, W), y \in Rows(a) : v = i * h + y
  <2>1. PICK i \in Nat, y \in Rows(a) : v = i * h + y
    <3>1. v \in Nat
      BY <1>1
    <3> QED BY <3>1, WindowPlaced
  <2> DEFINE I == CeilDiv(W, h)
  <2>2. I \in Pos /\ W <= h * I
    <3>1. ASSUME NEW x \in Pos, NEW z \in Pos
          PROVE  CeilDiv(x, z) \in Pos /\ x <= z * CeilDiv(x, z)
      BY DEF CeilDiv, Pos
    <3> HIDE DEF h, W
    <3> QED BY <1>1, <3>1
  <2> HIDE DEF I, W, h
  <2>3. i < I
    <3> SUFFICES ASSUME I <= i PROVE FALSE
      BY <2>2 DEF Pos
    <3>1. I * h <= i * h /\ I * h = h * I /\ I * h \in Int /\ i * h \in Int /\ h * I \in Int
      BY <1>1, <2>2, Monotone, Commutes DEF Pos
    <3> DEFINE b == i * h
               c == I * h
    <3>2. b \in Int /\ c \in Int /\ c <= b /\ W <= c /\ v = b + y /\ v \in 0 .. W - 1 /\ W \in Pos
      BY <1>1, <2>1, <2>2, <3>1
    <3>3. y \in Nat
      BY DEF Rows
    <3> HIDE DEF b, c
    <3> QED BY <3>2, <3>3 DEF Pos
  <2>4. i \in Bands(h, W)
    BY <2>2, <2>3 DEF Bands, I, Pos
  <2> QED BY <2>1, <2>4
<1>5. ASSUME NEW n \in 0 .. num - 1
      PROVE  \E f \in Bands(w, num), x \in Columns(a) : n = f * w + x
  BY FilterPlaced DEF Bands, FilterFold
<1>6. 0 \in Bands(h, W) /\ 0 \in Bands(w, num)
  <2>1. ASSUME NEW x \in Pos, NEW z \in Pos
        PROVE  CeilDiv(x, z) \in Pos
    BY DEF CeilDiv, Pos
  <2> HIDE DEF h, W, w, num
  <2>2. CeilDiv(W, h) \in Pos /\ CeilDiv(num, w) \in Pos
    BY <1>1, <2>1
  <2> QED BY <2>2 DEF Bands, Pos
<1>7. ASSUME NEW k \in 0 .. N - 1, NEW d \in Nat, NEW e \in ReadIn(a, q, k, d)
      PROVE  e \in 0 .. FilterElements(q) - 1
  <2>1. PICK x \in Columns(a) : /\ FirstFilter(a, q, k) + x < num /\ d - x \in 0 .. S - 1
                                /\ e = (FirstFilter(a, q, k) + x) * S + (d - x)
    BY <1>7 DEF ReadIn
  <2> DEFINE n == FirstFilter(a, q, k) + x
             o == d - x
  <2>2. n \in 0 .. num - 1 /\ o \in 0 .. S - 1 /\ e = n * S + o
    <3>1. FirstFilter(a, q, k) \in Nat /\ x \in Nat /\ num \in Nat
      BY <1>1, <1>3 DEF Columns
    <3> HIDE DEF num, S
    <3> QED BY <2>1, <3>1
  <2> HIDE DEF n, o, S, num
  <2>3. n * S + o \in 0 .. num * S - 1
    BY <1>1, <2>2, DigitsBelow
  <2> QED BY <1>1, <2>2, <2>3
<1>8. ASSUME NEW k \in 0 .. N - 1, NEW d \in Nat, NEW e \in FedIn(a, q, k, d)
      PROVE  e \in Fed
  <2>1. PICK y \in Rows(a) : /\ FirstWindow(a, q, k) + y < W /\ d - y \in 0 .. S - 1
                             /\ e = WindowBase(q, FirstWindow(a, q, k) + y) + InWindow(q, d - y)
    BY <1>8 DEF FedIn
  <2>2. FirstWindow(a, q, k) + y \in 0 .. W - 1
    <3>1. FirstWindow(a, q, k) \in Nat /\ y \in Nat /\ W \in Nat
      BY <1>1, <1>3 DEF Rows, Pos
    <3> HIDE DEF W
    <3> QED BY <2>1, <3>1
  <2> QED BY <2>1, <2>2
<1>9. ASSUME NEW e \in 0 .. FilterElements(q) - 1
      PROVE  \E k \in 0 .. N - 1 : \E d \in 0 .. CycleInThisFold(a, q, k) - 1 :
               e \in ReadIn(a, q, k, d)
  <2> DEFINE n == e \div S
             o == e % S
  <2> HIDE DEF S, num, w, h, W, F, N
  <2>1. e \in Nat /\ e < S * num
    <3>1. S * num \in Nat
      BY <1>1, NatProduct DEF Pos
    <3> QED BY <1>1, <3>1
  <2>2. n \in 0 .. num - 1 /\ o \in 0 .. S - 1 /\ e = S * n + o
    BY <1>1, <2>1, TwoDigits
  <2>3. n * S = S * n
    BY <1>1, <2>2, Commutes DEF Pos
  <2> HIDE DEF n, o
  <2>4. PICK f \in Bands(w, num), x \in Columns(a) : n = f * w + x
    BY <1>5, <2>2
  <2> DEFINE k == F * 0 + f
             d == x + o
  <2>5. k \in 0 .. N - 1 /\ FirstFilter(a, q, k) = f * w
    BY <1>6, FoldNumber DEF F, N, w, h, W, num
  <2> HIDE DEF k
  <2>6. FirstFilter(a, q, k) + x = n /\ n < num /\ x \in Nat
    BY <1>1, <1>3, <2>2, <2>4, <2>5 DEF Pos
  <2>7. x \in 0 .. LiveFilter(a, q, k) - 1
    <3>1. x < LiveFilter(a, q, k) /\ LiveFilter(a, q, k) \in Pos
      BY <2>5, <2>6, FoldSize DEF N, num
    <3> QED BY <2>6, <3>1 DEF Pos
  <2>8. d \in 0 .. CycleInThisFold(a, q, k) - 1
    BY <2>2, <2>5, <2>7, FoldRoom DEF N, S
  <2>9. d - x = o
    BY <2>2, <2>6
  <2> HIDE DEF d
  <2>10. e \in ReadIn(a, q, k, d)
    BY <2>2, <2>3, <2>6, <2>9 DEF ReadIn, S, num
  <2> QED BY <2>5, <2>8, <2>10
<1>10. ASSUME NEW e \in Fed
       PROVE  \E k \in 0 .. N - 1 : \E d \in 0 .. CycleInThisFold(a, q, k) - 1 :
                e \in FedIn(a, q, k, d)
  <2>1. PICK v \in 0 .. W - 1, o \in 0 .. S - 1 : e = WindowBase(q, v) + InWindow(q, o)
    OBVIOUS
  <2> HIDE DEF S, num, w, h, W, F, N, Fed
  <2>2. PICK i \in Bands(h, W), y \in Rows(a) : v = i * h + y
    BY <1>4
  <2> DEFINE k == F * i + 0
             d == y + o
  <2>3. k \in 0 .. N - 1 /\ FirstWindow(a, q, k) = i * h
    BY <1>6, FoldNumber DEF F, N, w, h, W, num
  <2> HIDE DEF k
  <2>4. FirstWindow(a, q, k) + y = v /\ v < W /\ y \in Nat
    BY <1>1, <1>3, <2>2, <2>3 DEF Pos
  <2>5. y \in 0 .. LiveIfmap(a, q, k) - 1
    <3>1. y < LiveIfmap(a, q, k) /\ LiveIfmap(a, q, k) \in Pos
      BY <2>3, <2>4, FoldSize DEF N, W
    <3> QED BY <2>4, <3>1 DEF Pos
  <2>6. d \in 0 .. CycleInThisFold(a, q, k) - 1
    BY <2>3, <2>5, FoldRoom DEF N, S
  <2>7. d - y = o
    BY <2>4
  <2> HIDE DEF d
  <2>8. e \in FedIn(a, q, k, d)
    BY <2>1, <2>4, <2>7 DEF FedIn, S, W
  <2> QED BY <2>3, <2>6, <2>8
<1>11. ASSUME NEW e \in 0 .. W * num - 1
       PROVE  \E k \in 0 .. N - 1 : \E d \in 0 .. CycleInThisFold(a, q, k) - 1 :
                e \in DoneIn(a, q, k, d)
  <2> DEFINE n == e \div W
             m == e % W
  <2> HIDE DEF S, num, w, h, W, F, N
  <2>1. e \in Nat /\ e < W * num
    <3>1. W * num \in Nat
      BY <1>1, NatProduct DEF Pos
    <3> QED BY <3>1
  <2>2. n \in 0 .. num - 1 /\ m \in 0 .. W - 1 /\ e = W * n + m
    BY <1>1, <2>1, TwoDigits
  <2>3. n * W = W * n
    BY <1>1, <2>2, Commutes DEF Pos
  <2> HIDE DEF n, m
  <2>4. PICK f \in Bands(w, num), x \in Columns(a) : n = f * w + x
    BY <1>5, <2>2
  <2>5. PICK i \in Bands(h, W), y \in Rows(a) : m = i * h + y
    BY <1>4, <2>2
  <2> DEFINE k == F * i + f
             d == x + y
  <2>6. /\ k \in 0 .. N - 1 /\ FirstFilter(a, q, k) = f * w /\ FirstWindow(a, q, k) = i * h
    BY FoldNumber DEF F, N, w, h, W, num
  <2> HIDE DEF k
  <2>7. /\ FirstFilter(a, q, k) + x = n /\ n < num /\ x \in Nat
        /\ FirstWindow(a, q, k) + y = m /\ m < W /\ y \in Nat
    <3>1. x \in Nat /\ y \in Nat /\ num \in Nat /\ W \in Nat
      BY <1>1 DEF Columns, Rows, Pos
    <3>2. n < num /\ m < W
      BY <2>2, <3>1
    <3> QED BY <2>4, <2>5, <2>6, <3>1, <3>2
  <2>8. x \in 0 .. LiveFilter(a, q, k) - 1 /\ y \in 0 .. LiveIfmap(a, q, k) - 1
    <3>1. /\ x < LiveFilter(a, q, k) /\ LiveFilter(a, q, k) \in Pos
          /\ y < LiveIfmap(a, q, k) /\ LiveIfmap(a, q, k) \in Pos
      BY <2>6, <2>7, FoldSize DEF N, num, W
    <3> QED BY <2>7, <3>1 DEF Pos
  <2>9. d \in 0 .. CycleInThisFold(a, q, k) - 1
    BY <2>6, <2>8, FoldRoom DEF N
  <2>10. d - (x + y) \in 0 .. FilterSize(q) - 1
    BY <1>1, <2>7 DEF S, Pos
  <2> HIDE DEF d
  <2>11. <<x, y>> \in {p \in Columns(a) \X Rows(a) : d - (p[1] + p[2]) \in 0 .. FilterSize(q) - 1}
    BY <2>10
  <2>12. e = (FirstFilter(a, q, k) + <<x, y>>[1]) * Windows(q) + (FirstWindow(a, q, k) + <<x, y>>[2])
    BY <2>2, <2>3, <2>7 DEF W
  <2>13. e \in DoneIn(a, q, k, d)
    BY <2>11, <2>12 DEF DoneIn
  <2> QED BY <2>6, <2>9, <2>13
<1> HIDE DEF Fed
<1>12. \A e \in UsedIfmap(q) : \E k \in 0 .. N - 1 : \E d \in 0 .. CycleInThisFold(a, q, k) - 1 :
         e \in FedIn(a, q, k, d)
  BY <1>2, <1>10
<1>13. \A k \in 0 .. N - 1, d \in Nat :
         /\ ReadIn(a, q, k, d) \subseteq 0 .. FilterElements(q) - 1
         /\ FedIn(a, q, k, d) \subseteq UsedIfmap(q)
  BY <1>2, <1>7, <1>8
<1> QED BY <1>9, <1>11, <1>12, <1>13 DEF N, W, num

-----------------------------------------------------------------------------
(* What all steps of a row touch.                                          *)
Touched(a, q, T, part) == UNION {StepAccess(a, q, s)[part] : s \in 0 .. T - 1}

(* T is the number of steps of a row.                                      *)
Ended(a, q, T) == T \in Nat /\ (\A s \in 0 .. T - 1 : Live(a, q, s)) /\ ~Live(a, q, T)

(* A convolution touches its tensors exactly.                              *)
LEMMA ConvTouched ==
  ASSUME NEW a \in Arch, a.systolic_width <= a.systolic_height,
         NEW q, q.type = "Conv", Dimensions(q), WindowInside(q), NEW T, Ended(a, q, T)
  PROVE  /\ Touched(a, q, T, "filter") = Lines(a, q.filter, 0 .. FilterElements(q) - 1)
         /\ Touched(a, q, T, "ifmap") = Lines(a, q.ifmap, UsedIfmap(q))
         /\ Touched(a, q, T, "ofmap") = Lines(a, q.ofmap, 0 .. Windows(q) * q.filter_num - 1)
<1>1. T \in Nat /\ ~ConvLive(a, q, T)
  BY DEF Ended, Live
<1>2. \A s : StepAccess(a, q, s) = ConvAccess(a, q, s)
  BY DEF StepAccess
<1>3. \A s : /\ StepAccess(a, q, s).filter = Lines(a, q.filter, ReadFilters(a, q, s))
             /\ StepAccess(a, q, s).ifmap = Lines(a, q.ifmap, FedIfmaps(a, q, s))
             /\ StepAccess(a, q, s).ofmap = Lines(a, q.ofmap, DoneOfmaps(a, q, s))
  BY <1>2, ConvTouches
<1>4. /\ UNION {ReadFilters(a, q, s) : s \in 0 .. T - 1} = 0 .. FilterElements(q) - 1
      /\ UNION {FedIfmaps(a, q, s) : s \in 0 .. T - 1} = UsedIfmap(q)
      /\ UNION {DoneOfmaps(a, q, s) : s \in 0 .. T - 1} = 0 .. Windows(q) * q.filter_num - 1
  BY <1>1, ConvFilters, ConvIfmaps, ConvOfmaps
<1>5. Touched(a, q, T, "filter") = Lines(a, q.filter, UNION {ReadFilters(a, q, s) : s \in 0 .. T - 1})
  BY <1>3 DEF Touched, Lines
<1>6. Touched(a, q, T, "ifmap") = Lines(a, q.ifmap, UNION {FedIfmaps(a, q, s) : s \in 0 .. T - 1})
  BY <1>3 DEF Touched, Lines
<1>7. Touched(a, q, T, "ofmap") = Lines(a, q.ofmap, UNION {DoneOfmaps(a, q, s) : s \in 0 .. T - 1})
  BY <1>3 DEF Touched, Lines
<1> QED BY <1>4, <1>5, <1>6, <1>7

(* The other one at least, and its filters and its ifmap exactly, when its  *)
(* folds are long enough.                                                  *)
LEMMA IneffTouched ==
  ASSUME NEW a \in Arch, NEW q, q.type = "Ineff_Conv", Dimensions(q), WindowInside(q),
         Reaches(a, q), NEW T, Ended(a, q, T)
  PROVE  /\ Touched(a, q, T, "filter") = Lines(a, q.filter, 0 .. FilterElements(q) - 1)
         /\ Touched(a, q, T, "ifmap") = Lines(a, q.ifmap, UsedIfmap(q))
         /\ Lines(a, q.ofmap, 0 .. Windows(q) * q.filter_num - 1) \subseteq Touched(a, q, T, "ofmap")
<1> DEFINE N == IneffFolds(a, q)
           C(k) == CycleInThisFold(a, q, k)
<1>1. T \in Nat /\ ~IneffLive(a, q, T) /\ \A s \in 0 .. T - 1 : IneffLive(a, q, s)
  BY DEF Ended, Live
<1>2. \A s : StepAccess(a, q, s) = IneffAccess(a, q, s)
  BY DEF StepAccess
<1>3. \A k \in 0 .. N - 1, s \in Nat :
        FoldIs(a, q, k, s) =>
          LET d == s - FoldStart(a, q, k)
          IN /\ StepAccess(a, q, s).filter = Lines(a, q.filter, ReadIn(a, q, k, d))
             /\ StepAccess(a, q, s).ifmap = Lines(a, q.ifmap, FedIn(a, q, k, d))
             /\ StepAccess(a, q, s).ofmap = Lines(a, q.ofmap, DoneIn(a, q, k, d))
  BY <1>2, IneffTouches
<1>4. ASSUME NEW s \in 0 .. T - 1
      PROVE  /\ StepAccess(a, q, s).filter \subseteq Lines(a, q.filter, 0 .. FilterElements(q) - 1)
             /\ StepAccess(a, q, s).ifmap \subseteq Lines(a, q.ifmap, UsedIfmap(q))
  <2>1. s \in Nat /\ IneffLive(a, q, s)
    BY <1>1
  <2>2. PICK k \in 0 .. N - 1 : FoldIs(a, q, k, s)
    BY <2>1, FoldOfCycle
  <2> DEFINE d == s - FoldStart(a, q, k)
  <2>3. d \in Nat
    <3>1. N \in Pos
      BY FoldNumber
    <3>2. k \in 0 .. N
      BY <3>1 DEF Pos
    <3>3. FoldStart(a, q, k) \in Nat
      BY <3>2, FoldsFollow
    <3> QED BY <2>1, <2>2, <3>3 DEF FoldIs
  <2>4. /\ StepAccess(a, q, s).filter = Lines(a, q.filter, ReadIn(a, q, k, d))
        /\ StepAccess(a, q, s).ifmap = Lines(a, q.ifmap, FedIn(a, q, k, d))
    BY <1>3, <2>1, <2>2
  <2> HIDE DEF d
  <2>5. /\ ReadIn(a, q, k, d) \subseteq 0 .. FilterElements(q) - 1
        /\ FedIn(a, q, k, d) \subseteq UsedIfmap(q)
    BY <2>3, FoldsTouch
  <2> QED BY <2>4, <2>5 DEF Lines
<1>5. ASSUME NEW k \in 0 .. N - 1, NEW d \in 0 .. C(k) - 1
      PROVE  \E s \in 0 .. T - 1 :
               /\ StepAccess(a, q, s).filter = Lines(a, q.filter, ReadIn(a, q, k, d))
               /\ StepAccess(a, q, s).ifmap = Lines(a, q.ifmap, FedIn(a, q, k, d))
               /\ StepAccess(a, q, s).ofmap = Lines(a, q.ofmap, DoneIn(a, q, k, d))
  <2> DEFINE s == FoldStart(a, q, k) + d
  <2>1. s \in 0 .. T - 1 /\ FoldIs(a, q, k, s) /\ s - FoldStart(a, q, k) = d
    BY <1>1, CycleOfFold
  <2> HIDE DEF s
  <2>2. s \in Nat
    BY <2>1
  <2> QED BY <1>3, <2>1, <2>2
<1>6. Lines(a, q.filter, 0 .. FilterElements(q) - 1) \subseteq Touched(a, q, T, "filter")
  <2> SUFFICES ASSUME NEW e \in 0 .. FilterElements(q) - 1
               PROVE  Line(a, q.filter + e * a.element_unit) \in Touched(a, q, T, "filter")
    BY DEF Lines
  <2>1. PICK k \in 0 .. N - 1 : \E d \in 0 .. C(k) - 1 : e \in ReadIn(a, q, k, d)
    BY FoldsTouch
  <2>2. PICK d \in 0 .. C(k) - 1 : e \in ReadIn(a, q, k, d)
    BY <2>1
  <2>3. PICK s \in 0 .. T - 1 : StepAccess(a, q, s).filter = Lines(a, q.filter, ReadIn(a, q, k, d))
    BY <1>5
  <2> QED BY <2>2, <2>3 DEF Touched, Lines
<1>7. Lines(a, q.ifmap, UsedIfmap(q)) \subseteq Touched(a, q, T, "ifmap")
  <2> SUFFICES ASSUME NEW e \in UsedIfmap(q)
               PROVE  Line(a, q.ifmap + e * a.element_unit) \in Touched(a, q, T, "ifmap")
    BY DEF Lines
  <2>1. PICK k \in 0 .. N - 1 : \E d \in 0 .. C(k) - 1 : e \in FedIn(a, q, k, d)
    BY FoldsTouch
  <2>2. PICK d \in 0 .. C(k) - 1 : e \in FedIn(a, q, k, d)
    BY <2>1
  <2>3. PICK s \in 0 .. T - 1 : StepAccess(a, q, s).ifmap = Lines(a, q.ifmap, FedIn(a, q, k, d))
    BY <1>5
  <2> QED BY <2>2, <2>3 DEF Touched, Lines
<1>8. Lines(a, q.ofmap, 0 .. Windows(q) * q.filter_num - 1) \subseteq Touched(a, q, T, "ofmap")
  <2> SUFFICES ASSUME NEW e \in 0 .. Windows(q) * q.filter_num - 1
               PROVE  Line(a, q.ofmap + e * a.element_unit) \in Touched(a, q, T, "ofmap")
    BY DEF Lines
  <2>1. PICK k \in 0 .. N - 1 : \E d \in 0 .. C(k) - 1 : e \in DoneIn(a, q, k, d)
    BY FoldsTouch
  <2>2. PICK d \in 0 .. C(k) - 1 : e \in DoneIn(a, q, k, d)
    BY <2>1
  <2>3. PICK s \in 0 .. T - 1 : StepAccess(a, q, s).ofmap = Lines(a, q.ofmap, DoneIn(a, q, k, d))
    BY <1>5
  <2> QED BY <2>2, <2>3 DEF Touched, Lines
<1>9. /\ Touched(a, q, T, "filter") \subseteq Lines(a, q.filter, 0 .. FilterElements(q) - 1)
      /\ Touched(a, q, T, "ifmap") \subseteq Lines(a, q.ifmap, UsedIfmap(q))
  BY <1>4 DEF Touched
<1> QED BY <1>6, <1>7, <1>8, <1>9

(* The shape of a tile of a product: as many rows of the filter as columns   *)
(* of the ifmap, and one channel.                                          *)
TileShaped(q) == q.filter_height = q.ifmap_width /\ q.filter_depth = 1 /\ q.filter_num = 1

(* Then its tensors have as many elements as rows and columns say.         *)
LEMMA TileElements ==
  ASSUME NEW q, Dimensions(q), TileShaped(q)
  PROVE  /\ FilterElements(q) = q.filter_width * q.filter_height
         /\ IfmapElements(q) = q.ifmap_width * q.ifmap_height
<1>1. /\ q.filter_width * q.filter_height \in Int /\ q.ifmap_width * q.ifmap_height \in Int
      /\ q.ifmap_height * q.ifmap_width = q.ifmap_width * q.ifmap_height
  BY Commutes DEF Dimensions, Pos
<1>2. \A x \in Int : x * 1 = x
  OBVIOUS
<1> QED BY <1>1, <1>2 DEF TileShaped, FilterElements, FilterSize, IfmapElements

(* A tile of a direct product that fits the array touches its tensors, if   *)
(* its result is no wider than the common dimension.                       *)
LEMMA DirTouched ==
  ASSUME NEW a \in Arch, NEW q, q.type = "Dir_Tile_Gemm", Dimensions(q), TileShaped(q),
         q.filter_height <= a.systolic_height, q.filter_width <= a.systolic_width,
         q.filter_width <= q.ifmap_width, NEW T, Ended(a, q, T)
  PROVE  /\ Lines(a, q.filter, 0 .. FilterElements(q) - 1) \subseteq Touched(a, q, T, "filter")
         /\ Lines(a, q.ifmap, 0 .. IfmapElements(q) - 1) \subseteq Touched(a, q, T, "ifmap")
         /\ Lines(a, q.ofmap, 0 .. q.ifmap_height * q.filter_width - 1)
              \subseteq Touched(a, q, T, "ofmap")
<1> DEFINE w == a.systolic_width
           h == a.systolic_height
           fw == q.filter_width
           fh == q.filter_height
           ih == q.ifmap_height
           iw == q.ifmap_width
<1>1. /\ w \in Pos /\ h \in Pos /\ fw \in Pos /\ fh \in Pos /\ ih \in Pos /\ iw \in Pos
      /\ fh = iw /\ fh <= h /\ fw <= w /\ fw <= iw
  BY DEF Arch, Dimensions, TileShaped, Pos
<1>2. FilterElements(q) = fw * fh /\ IfmapElements(q) = iw * ih
  BY TileElements
<1>3. T \in Nat /\ ~(T < ih + Min({w, iw}))
  BY DEF Ended, Live, DirLive
<1>4. \A s : StepAccess(a, q, s) = DirAccess(a, q, s)
  BY DEF StepAccess
<1>5. \A s : /\ StepAccess(a, q, s).filter =
                  IF s = 0 THEN Lines(a, q.filter, Block(fw, 0 .. Min({h, fh}) - 1, 0 .. Min({w, fw}) - 1))
                           ELSE {}
             /\ StepAccess(a, q, s).ifmap = Lines(a, q.ifmap, {s * iw + y : y \in Rows(a)})
             /\ StepAccess(a, q, s).ofmap =
                  Lines(a, q.ofmap, {(s - x) * fw + x : x \in {x \in Columns(a) : x <= s /\ s < x + ih /\ x < fw}})
  <2> TAKE s
  <2> DEFINE read == IF s = 0 THEN Lines(a, q.filter, Block(fw, 0 .. Min({h, fh}) - 1, 0 .. Min({w, fw}) - 1))
                              ELSE {}
             fed == Lines(a, q.ifmap, {s * iw + y : y \in Rows(a)})
             done == Lines(a, q.ofmap, {(s - x) * fw + x : x \in {x \in Columns(a) : x <= s /\ s < x + ih /\ x < fw}})
  <2>1. StepAccess(a, q, s) = [filter |-> read, ifmap |-> fed, ofmap |-> done]
    BY <1>4 DEF DirAccess, Access
  <2>2. /\ [filter |-> read, ifmap |-> fed, ofmap |-> done].filter = read
        /\ [filter |-> read, ifmap |-> fed, ofmap |-> done].ifmap = fed
        /\ [filter |-> read, ifmap |-> fed, ofmap |-> done].ofmap = done
    <3> HIDE DEF read, fed, done
    <3> QED OBVIOUS
  <2> QED BY <2>1, <2>2
<1>6. Columns(a) = 0 .. w - 1 /\ Rows(a) = 0 .. h - 1
  BY DEF Columns, Rows
<1> HIDE DEF w, h, fw, fh, ih, iw
<1>7. Min({h, fh}) = fh /\ Min({w, fw}) = fw
  BY <1>1, MinOfTwo DEF Pos
<1>8. fw <= Min({w, iw}) /\ Min({w, iw}) \in Pos
  BY <1>1, MinOfTwo DEF Pos
<1>9. /\ 0 \in 0 .. T - 1
      /\ \A s \in 0 .. ih - 1 : s \in 0 .. T - 1
      /\ \A s \in 0 .. ih - 1, x \in 0 .. fw - 1 : s + x \in 0 .. T - 1
  BY <1>1, <1>3, <1>8 DEF Pos
<1>10. ASSUME NEW e \in 0 .. fw * fh - 1
       PROVE  Line(a, q.filter + e * a.element_unit) \in Touched(a, q, T, "filter")
  <2>1. e \in Nat /\ e < fw * fh /\ fh \in Nat
    <3>1. fw * fh \in Nat
      BY <1>1, NatProduct DEF Pos
    <3> QED BY <1>1, <3>1 DEF Pos
  <2>2. e \div fw \in 0 .. fh - 1 /\ e % fw \in 0 .. fw - 1 /\ e = fw * (e \div fw) + (e % fw)
    BY <1>1, <2>1, TwoDigits
  <2>3. fw * (e \div fw) = (e \div fw) * fw
    BY <1>1, <2>2, Commutes DEF Pos
  <2>4. <<e \div fw, e % fw>> \in (0 .. Min({h, fh}) - 1) \X (0 .. Min({w, fw}) - 1)
    BY <1>7, <2>2
  <2>5. e \in Block(fw, 0 .. Min({h, fh}) - 1, 0 .. Min({w, fw}) - 1)
    BY <2>2, <2>3, <2>4 DEF Block
  <2>6. Line(a, q.filter + e * a.element_unit) \in StepAccess(a, q, 0).filter
    BY <1>5, <2>5 DEF Lines
  <2> QED BY <1>9, <2>6 DEF Touched
<1>11. ASSUME NEW e \in 0 .. iw * ih - 1
       PROVE  Line(a, q.ifmap + e * a.element_unit) \in Touched(a, q, T, "ifmap")
  <2> DEFINE s == e \div iw
             y == e % iw
  <2>1. e \in Nat /\ e < iw * ih /\ ih \in Nat
    <3>1. iw * ih \in Nat
      BY <1>1, NatProduct DEF Pos
    <3> QED BY <1>1, <3>1 DEF Pos
  <2>2. s \in 0 .. ih - 1 /\ y \in 0 .. iw - 1 /\ e = iw * s + y
    BY <1>1, <2>1, TwoDigits
  <2>3. iw * s = s * iw
    BY <1>1, <2>2, Commutes DEF Pos
  <2> HIDE DEF s, y
  <2>4. y \in Rows(a)
    BY <1>1, <1>6, <2>2 DEF Pos
  <2>5. e \in {s * iw + z : z \in Rows(a)}
    BY <2>2, <2>3, <2>4
  <2>6. Line(a, q.ifmap + e * a.element_unit) \in StepAccess(a, q, s).ifmap
    BY <1>5, <2>5 DEF Lines
  <2> QED BY <1>9, <2>2, <2>6 DEF Touched
<1>12. ASSUME NEW e \in 0 .. ih * fw - 1
       PROVE  Line(a, q.ofmap + e * a.element_unit) \in Touched(a, q, T, "ofmap")
  <2> DEFINE i == e \div fw
             x == e % fw
             s == i + x
  <2>1. e \in Nat /\ e < fw * ih /\ ih \in Nat
    <3>1. ih * fw \in Nat /\ ih * fw = fw * ih
      BY <1>1, NatProduct, Commutes DEF Pos
    <3> QED BY <1>1, <3>1 DEF Pos
  <2>2. i \in 0 .. ih - 1 /\ x \in 0 .. fw - 1 /\ e = fw * i + x
    BY <1>1, <2>1, TwoDigits
  <2>3. fw * i = i * fw
    BY <1>1, <2>2, Commutes DEF Pos
  <2> HIDE DEF i, x
  <2>4. x \in Columns(a) /\ x <= s /\ s < x + ih /\ x < fw /\ s - x = i
    BY <1>1, <1>6, <2>2 DEF Pos
  <2>5. s \in 0 .. T - 1
    BY <1>9, <2>2
  <2> HIDE DEF s
  <2>6. e = (s - x) * fw + x
    BY <2>2, <2>3, <2>4
  <2>7. e \in {(s - z) * fw + z : z \in {z \in Columns(a) : z <= s /\ s < z + ih /\ z < fw}}
    BY <2>4, <2>6
  <2>8. Line(a, q.ofmap + e * a.element_unit) \in StepAccess(a, q, s).ofmap
    BY <1>5, <2>7 DEF Lines
  <2> QED BY <2>5, <2>8 DEF Touched
<1> QED BY <1>2, <1>10, <1>11, <1>12 DEF Lines, ih, fw

(* A place in a dimension that is cut: its part, and its place in the part. *)
InBand(x, step, whole) ==
  \E i \in Bands(step, whole), y \in 0 .. Min({step, whole}) - 1 :
    x = i * step + y /\ i * step \in Nat

(* Every place of the dimension has them. *)
LEMMA PlaceInBand ==
  ASSUME NEW step \in Pos, NEW whole \in Pos, NEW x \in 0 .. whole - 1
  PROVE  InBand(x, step, whole)
<1> DEFINE C == CeilDiv(whole, step)
           i == x \div step
           y == x % step
<1>1. C \in Pos /\ whole <= step * C
  BY DEF CeilDiv, Pos
<1> HIDE DEF C
<1>2. x \in Nat /\ x < step * C /\ C \in Nat
  <2>1. step * C \in Nat
    BY <1>1, NatProduct DEF Pos
  <2> QED BY <1>1, <2>1 DEF Pos
<1>3. i \in 0 .. C - 1 /\ y \in 0 .. step - 1 /\ x = step * i + y
  BY <1>2, TwoDigits
<1> HIDE DEF i, y
<1>4. step * i = i * step /\ i * step \in Nat
  BY <1>3, Commutes, NatProduct DEF Pos
<1>5. y <= x
  BY <1>3, <1>4
<1>6. Min({step, whole}) = IF step <= whole THEN step ELSE whole
  BY MinOfTwo DEF Pos
<1>7. y \in 0 .. Min({step, whole}) - 1
  BY <1>3, <1>5, <1>6 DEF Pos
<1>8. i \in Bands(step, whole)
  BY <1>3 DEF Bands, C
<1> QED BY <1>3, <1>4, <1>7, <1>8 DEF InBand

(* A product that was not cut touches its tensors, if an element is a byte. *)
LEMMA IneffDirTouched ==
  ASSUME NEW a \in Arch, a.element_unit = 1,
         NEW q, q.type = "Ineff_Dir_Tile_Gemm", Dimensions(q), TileShaped(q),
         q.filter \in Nat, q.ifmap \in Nat, q.ofmap \in Nat, NEW T, Ended(a, q, T)
  PROVE  /\ Lines(a, q.filter, 0 .. FilterElements(q) - 1) \subseteq Touched(a, q, T, "filter")
         /\ Lines(a, q.ifmap, 0 .. IfmapElements(q) - 1) \subseteq Touched(a, q, T, "ifmap")
         /\ Lines(a, q.ofmap, 0 .. q.ifmap_height * q.filter_width - 1)
              \subseteq Touched(a, q, T, "ofmap")
<1> DEFINE w == a.systolic_width
           h == a.systolic_height
           fw == q.filter_width
           fh == q.filter_height
           ih == q.ifmap_height
           iw == q.ifmap_width
           K == CeilDiv(fw, w)
           at(i, k) == K * i + k
           columns == 0 .. Min({w, fw}) - 1
           depths == 0 .. Min({h, fh}) - 1
           rows == 0 .. ih - 1
           cycles == IneffDirCycles(a, q)
           read(i, k) == Lines(a, q.filter + (i * h) * fw + k * w, Block(fw, depths, columns))
           fed(i) == Lines(a, q.ifmap + i * h,
                           {z[1] * iw + z[2] : z \in {y \in rows \X Rows(a) : y[1] + y[2] < cycles}})
           done(k) == Lines(a, q.ofmap + k * w, Block(fw, rows, columns))
<1>1. /\ w \in Pos /\ h \in Pos /\ fw \in Pos /\ fh \in Pos /\ ih \in Pos /\ iw \in Pos
      /\ fh = iw
  BY DEF Arch, Dimensions, TileShaped, Pos
<1>2. FilterElements(q) = fw * fh /\ IfmapElements(q) = iw * ih
  BY TileElements
<1>3. T \in Nat /\ ~(T < CeilDiv(iw, h) * K)
  BY DEF Ended, Live, IneffDirParts
<1>4. \A s : StepAccess(a, q, s) = IneffDirAccess(a, q, s)
  BY DEF StepAccess
<1>5. ASSUME NEW x \in Pos, NEW y \in Pos
      PROVE  CeilDiv(x, y) \in Pos
  BY DEF CeilDiv, Pos
<1>6. K \in Pos /\ CeilDiv(iw, h) \in Pos
  <2> HIDE DEF w, h, fw, iw
  <2> QED BY <1>1, <1>5
<1>7. ASSUME NEW i \in Bands(h, iw), NEW k \in Bands(w, fw)
      PROVE  at(i, k) \in 0 .. T - 1 /\ at(i, k) \div K = i /\ at(i, k) % K = k
  <2> DEFINE I == CeilDiv(iw, h)
  <2>1. i \in 0 .. I - 1 /\ k \in 0 .. K - 1 /\ I \in Nat /\ i \in Nat
    BY <1>6 DEF Bands, Pos
  <2> HIDE DEF K, I
  <2>2. K * i + k \in 0 .. K * I - 1
    BY <1>6, <2>1, DigitsBelow
  <2>3. K * I = I * K /\ K * I \in Nat
    BY <1>6, <2>1, Commutes, NatProduct DEF Pos
  <2>4. I * K <= T
    BY <1>3, <2>3 DEF I
  <2>5. (K * i + k) \div K = i /\ (K * i + k) % K = k
    BY <1>6, <2>1, DivUnique
  <2> QED BY <1>3, <2>2, <2>3, <2>4, <2>5
<1>8. ASSUME NEW i \in Bands(h, iw), NEW k \in Bands(w, fw)
      PROVE  /\ StepAccess(a, q, at(i, k)).filter = read(i, k)
             /\ StepAccess(a, q, at(i, k)).ifmap = fed(i)
             /\ StepAccess(a, q, at(i, k)).ofmap = done(k)
  <2> DEFINE s == at(i, k)
  <2>1. s \div K = i /\ s % K = k
    BY <1>7
  <2> HIDE DEF s
  <2>2. StepAccess(a, q, s) = [filter |-> read(i, k), ifmap |-> fed(i), ofmap |-> done(k)]
    BY <1>4, <2>1 DEF IneffDirAccess, Access
  <2>3. /\ [filter |-> read(i, k), ifmap |-> fed(i), ofmap |-> done(k)].filter = read(i, k)
        /\ [filter |-> read(i, k), ifmap |-> fed(i), ofmap |-> done(k)].ifmap = fed(i)
        /\ [filter |-> read(i, k), ifmap |-> fed(i), ofmap |-> done(k)].ofmap = done(k)
    <3> HIDE DEF read, fed, done
    <3> QED OBVIOUS
  <2> QED BY <2>2, <2>3 DEF s
<1>9. 0 \in Bands(h, iw) /\ 0 \in Bands(w, fw)
  BY <1>6 DEF Bands, Pos
<1>10. Rows(a) = 0 .. h - 1 /\ cycles = ih + iw + Min({w, fw}) - 2 /\ Min({w, fw}) \in Pos
  <2>1. Min({w, fw}) = IF w <= fw THEN w ELSE fw
    BY <1>1, MinOfTwo DEF Pos
  <2> QED BY <1>1, <2>1 DEF Rows, IneffDirCycles
<1>11. \A b \in Int, e \in Int : Line(a, b + e * a.element_unit) = Line(a, b + e)
  OBVIOUS
<1> HIDE DEF w, h, fw, fh, ih, iw, K, at
<1>12. ASSUME NEW e \in 0 .. fw * fh - 1
       PROVE  Line(a, q.filter + e * a.element_unit) \in Touched(a, q, T, "filter")
  <2> DEFINE d == e \div fw
             c == e % fw
  <2>1. e \in Nat /\ e < fw * fh /\ fh \in Nat
    <3>1. fw * fh \in Nat
      BY <1>1, NatProduct DEF Pos
    <3> QED BY <1>1, <3>1 DEF Pos
  <2>2. d \in 0 .. fh - 1 /\ c \in 0 .. fw - 1 /\ e = fw * d + c
    BY <1>1, <2>1, TwoDigits
  <2> HIDE DEF d, c
  <2>20. InBand(d, h, iw) /\ InBand(c, w, fw)
    <3>1. d \in 0 .. iw - 1
      BY <1>1, <2>2
    <3> QED BY <1>1, <2>2, <3>1, PlaceInBand
  <2>21. depths = 0 .. Min({h, iw}) - 1
    BY <1>1
  <2>3. PICK i \in Bands(h, iw), y \in depths : d = i * h + y /\ i * h \in Nat
    <3> HIDE DEF depths
    <3> QED BY <2>20, <2>21 DEF InBand
  <2>4. PICK k \in Bands(w, fw), x \in columns : c = k * w + x /\ k * w \in Nat
    BY <2>20 DEF InBand
  <2> DEFINE b == i * h
             z == k * w
  <2>5. b \in Nat /\ z \in Nat /\ d = b + y /\ c = z + x /\ y \in Nat /\ x \in Nat
    BY <2>3, <2>4
  <2> HIDE DEF b, z
  <2>6. e = b * fw + z + (y * fw + x) /\ b * fw \in Nat /\ y * fw \in Nat
    <3>1. fw * d = d * fw /\ d * fw = b * fw + y * fw
      BY <1>1, <2>2, <2>5, Commutes, Distributes DEF Pos
    <3>2. b * fw \in Nat /\ y * fw \in Nat
      BY <1>1, <2>5, NatProduct DEF Pos
    <3> QED BY <2>2, <2>5, <3>1, <3>2
  <2>7. <<y, x>> \in depths \X columns /\ <<y, x>>[1] * fw + <<y, x>>[2] = y * fw + x
    OBVIOUS
  <2>8. y * fw + x \in Block(fw, depths, columns)
    BY <2>7 DEF Block
  <2>9. Line(a, (q.filter + b * fw + z) + (y * fw + x) * a.element_unit) \in read(i, k)
    BY <2>8 DEF Lines, b, z
  <2>10. (q.filter + b * fw + z) + (y * fw + x) = q.filter + e /\ q.filter + b * fw + z \in Int
    BY <2>5, <2>6
  <2>11. Line(a, q.filter + e * a.element_unit) \in read(i, k)
    <3>1. y * fw + x \in Int /\ e \in Int
      BY <2>1, <2>5, <2>6
    <3>2. Line(a, (q.filter + b * fw + z) + (y * fw + x) * a.element_unit) = Line(a, q.filter + e)
      BY <1>11, <2>10, <3>1
    <3>3. Line(a, q.filter + e * a.element_unit) = Line(a, q.filter + e)
      BY <1>11, <3>1
    <3> QED BY <2>9, <3>2, <3>3
  <2> HIDE DEF read
  <2> QED BY <1>7, <1>8, <2>11 DEF Touched
<1>13. ASSUME NEW e \in 0 .. iw * ih - 1
       PROVE  Line(a, q.ifmap + e * a.element_unit) \in Touched(a, q, T, "ifmap")
  <2> DEFINE m == e \div iw
             c == e % iw
  <2>1. e \in Nat /\ e < iw * ih /\ ih \in Nat
    <3>1. iw * ih \in Nat
      BY <1>1, NatProduct DEF Pos
    <3> QED BY <1>1, <3>1 DEF Pos
  <2>2. m \in rows /\ c \in 0 .. iw - 1 /\ e = iw * m + c /\ iw * m = m * iw /\ m * iw \in Nat
    <3>1. m \in 0 .. ih - 1 /\ c \in 0 .. iw - 1 /\ e = iw * m + c
      BY <1>1, <2>1, TwoDigits
    <3>2. iw * m = m * iw /\ m * iw \in Nat
      BY <1>1, <3>1, Commutes, NatProduct DEF Pos
    <3> QED BY <3>1, <3>2
  <2> HIDE DEF m, c
  <2>20. InBand(c, h, iw)
    BY <1>1, <2>2, PlaceInBand
  <2>3. PICK i \in Bands(h, iw), y \in 0 .. Min({h, iw}) - 1 : c = i * h + y /\ i * h \in Nat
    BY <2>20 DEF InBand
  <2> DEFINE b == i * h
  <2>4. b \in Nat /\ c = b + y /\ y \in Nat /\ y <= c
    BY <2>3
  <2>5. y \in Rows(a)
    <3>1. Min({h, iw}) = IF h <= iw THEN h ELSE iw
      BY <1>1, MinOfTwo DEF Pos
    <3> QED BY <1>1, <1>10, <3>1 DEF Pos
  <2> HIDE DEF b
  <2>6. m + y < cycles
    BY <1>1, <1>10, <2>2, <2>4 DEF Pos
  <2>7. /\ <<m, y>> \in {z \in rows \X Rows(a) : z[1] + z[2] < cycles}
        /\ <<m, y>>[1] * iw + <<m, y>>[2] = m * iw + y
    BY <2>2, <2>5, <2>6
  <2>8. Line(a, (q.ifmap + b) + (m * iw + y) * a.element_unit) \in fed(i)
    BY <2>7 DEF Lines, b
  <2>9. (q.ifmap + b) + (m * iw + y) = q.ifmap + e /\ q.ifmap + b \in Int
    BY <2>2, <2>4
  <2>10. Line(a, q.ifmap + e * a.element_unit) \in fed(i)
    <3>1. m * iw + y \in Int /\ e \in Int
      BY <2>1, <2>2, <2>4
    <3>2. Line(a, (q.ifmap + b) + (m * iw + y) * a.element_unit) = Line(a, q.ifmap + e)
      BY <1>11, <2>9, <3>1
    <3>3. Line(a, q.ifmap + e * a.element_unit) = Line(a, q.ifmap + e)
      BY <1>11, <3>1
    <3> QED BY <2>8, <3>2, <3>3
  <2> HIDE DEF fed
  <2> QED BY <1>7, <1>8, <1>9, <2>10 DEF Touched
<1>14. ASSUME NEW e \in 0 .. ih * fw - 1
       PROVE  Line(a, q.ofmap + e * a.element_unit) \in Touched(a, q, T, "ofmap")
  <2> DEFINE m == e \div fw
             c == e % fw
  <2>1. e \in Nat /\ e < fw * ih /\ ih \in Nat
    <3>1. ih * fw \in Nat /\ ih * fw = fw * ih
      BY <1>1, NatProduct, Commutes DEF Pos
    <3> QED BY <1>1, <3>1 DEF Pos
  <2>2. m \in rows /\ c \in 0 .. fw - 1 /\ e = fw * m + c /\ fw * m = m * fw /\ m * fw \in Nat
    <3>1. m \in 0 .. ih - 1 /\ c \in 0 .. fw - 1 /\ e = fw * m + c
      BY <1>1, <2>1, TwoDigits
    <3>2. fw * m = m * fw /\ m * fw \in Nat
      BY <1>1, <3>1, Commutes, NatProduct DEF Pos
    <3> QED BY <3>1, <3>2
  <2> HIDE DEF m, c
  <2>20. InBand(c, w, fw)
    BY <1>1, <2>2, PlaceInBand
  <2>3. PICK k \in Bands(w, fw), x \in columns : c = k * w + x /\ k * w \in Nat
    BY <2>20 DEF InBand
  <2> DEFINE z == k * w
  <2>4. z \in Nat /\ c = z + x /\ x \in Nat
    BY <2>3
  <2> HIDE DEF z
  <2>5. <<m, x>> \in rows \X columns /\ <<m, x>>[1] * fw + <<m, x>>[2] = m * fw + x
    BY <2>2
  <2>6. m * fw + x \in Block(fw, rows, columns)
    BY <2>5 DEF Block
  <2>7. Line(a, (q.ofmap + z) + (m * fw + x) * a.element_unit) \in done(k)
    BY <2>6 DEF Lines, z
  <2>8. (q.ofmap + z) + (m * fw + x) = q.ofmap + e /\ q.ofmap + z \in Int
    BY <2>2, <2>4
  <2>9. Line(a, q.ofmap + e * a.element_unit) \in done(k)
    <3>1. m * fw + x \in Int /\ e \in Int
      BY <2>1, <2>2, <2>4
    <3>2. Line(a, (q.ofmap + z) + (m * fw + x) * a.element_unit) = Line(a, q.ofmap + e)
      BY <1>11, <2>8, <3>1
    <3>3. Line(a, q.ofmap + e * a.element_unit) = Line(a, q.ofmap + e)
      BY <1>11, <3>1
    <3> QED BY <2>7, <3>2, <3>3
  <2> HIDE DEF done
  <2> QED BY <1>7, <1>8, <1>9, <2>9 DEF Touched
<1> QED BY <1>2, <1>12, <1>13, <1>14 DEF Lines, ih, fw
=============================================================================

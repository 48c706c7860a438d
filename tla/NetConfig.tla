----------------------------- MODULE NetConfig -----------------------------
(* config_update: how a network description becomes the rows of the         *)
(* intermediate configuration. Every layer gets absolute base addresses, and *)
(* a matrix product becomes one row per tile. A layer, like a row, is a      *)
(* record with the dimensions of the description; in a row the fields ifmap, *)
(* filter and ofmap are addresses, in a layer they are references.           *)
EXTENDS Integers, Sequences, FiniteSetsExt

CONSTANTS
  BOUNDARY   \* BOUNDARY_IFMAP_OFMAP_ARRAY: references above it name inputs

ASSUME BoundaryAssumption == BOUNDARY \in Nat \ {0}

Sequential == -1   \* the output of the layer before
NewSpace == -2     \* a tensor of its own

CeilDiv(x, y) == (x + y - 1) \div y
OfmapWidth(l) == CeilDiv(l.ifmap_width - l.filter_width, l.stride) + 1
OfmapHeight(l) == CeilDiv(l.ifmap_height - l.filter_height, l.stride) + 1
FilterSize(l) == l.filter_width * l.filter_height * l.filter_depth
IfmapElements(l) == l.ifmap_height * l.ifmap_width * l.filter_depth
FilterElements(l) == FilterSize(l) * l.filter_num

-----------------------------------------------------------------------------
(* Address layout.                                                           *)

\* What the generator remembers from layer to layer. ofmap_base_addr holds the
\* result of the layer before; nothing initializes it.
Blank(unassigned) ==
  [ofmap_base_addr |-> unassigned, new_space_addr |-> 0, ifmap_base_addr_array |-> << >>,
   ofmap_base_addr_array |-> << >>, filter_base_addr_array |-> << >>]

\* A reference by number: to a result, or to one of the inputs.
Named(g, inputs, ref) == IF ref <= BOUNDARY THEN g.ofmap_base_addr_array[ref]
                                            ELSE inputs[ref - BOUNDARY]

\* The address a reference stands for, and the generator after taking the
\* bytes of a tensor of its own.
Resolve(g, inputs, ref, first, bytes) ==
  [addr |-> CASE first -> 0
              [] ~first /\ ref = Sequential -> g.ofmap_base_addr
              [] ~first /\ ref = NewSpace -> g.new_space_addr
              [] OTHER -> Named(g, inputs, ref),
   gen |-> IF first \/ ref = NewSpace
           THEN [g EXCEPT !.new_space_addr = @ + bytes] ELSE g]

\* A convolution as a product: one row per filter, one column per window.
AsGemm(l) ==
  IF l.type # "Im2col_conv" THEN l
  ELSE [l EXCEPT !.ifmap_height = l.filter_num, !.ifmap_width = FilterSize(l),
                 !.filter_height = FilterSize(l),
                 !.filter_width = OfmapWidth(l) * OfmapHeight(l),
                 !.filter_depth = 1, !.filter_num = 1, !.stride = 1]

\* The input's reference decides about the filter, too; a translated
\* convolution takes new space for its filter in any case.
FilterReference(l) == IF l.type = "Im2col_conv" THEN NewSpace ELSE l.ifmap

\* Here products forget to reserve their result. Operators named X_Fault are X
\* with one plausible mistake in it.
ResultElements_NoProducts(l) ==
  IF l.type \in {"Conv", "Pool"} THEN OfmapWidth(l) * OfmapHeight(l) * l.filter_num ELSE 0

\* Only these types reserve their result when they are laid out.
ResultElements(l) ==
  CASE l.type \in {"Conv", "Pool"} -> OfmapWidth(l) * OfmapHeight(l) * l.filter_num
    [] l.type \in {"Gemm", "Dir_Gemm", "Im2col_conv"} -> l.ifmap_height * l.filter_width
    [] OTHER -> 0

\* The result, in space of its own or where a name says.
PlaceOfmap(g, inputs, l, ifmap, filter, bytes) ==
  LET new == l.ofmap = Sequential
      ofmap == IF new THEN g.new_space_addr ELSE Named(g, inputs, l.ofmap)
  IN [row |-> [l EXCEPT !.ifmap = ifmap, !.filter = filter, !.ofmap = ofmap],
      gen |-> [g EXCEPT !.ofmap_base_addr = ofmap,
                        !.ofmap_base_addr_array = Append(@, ofmap),
                        !.new_space_addr = IF new THEN @ + bytes ELSE @]]

\* The layer with addresses in place of references, and the generator after it.
SetVariableConfig(a, g, layer, first) ==
  LET l == AsGemm(layer)
      u == a.element_unit
      ifmap == Resolve(g, g.ifmap_base_addr_array, l.ifmap, first, IfmapElements(l) * u)
      g1 == [ifmap.gen EXCEPT !.ifmap_base_addr_array = Append(@, ifmap.addr)]
      filter == Resolve(g1, g1.ifmap_base_addr_array, FilterReference(l),
                        first /\ l.type # "Im2col_conv", FilterElements(l) * u)
  IN PlaceOfmap(filter.gen, g1.ifmap_base_addr_array, l, ifmap.addr, filter.addr,
                ResultElements(l) * u)

\* A matrix-vector product: the matrix is always new, the vector goes by the
\* filter's reference, and inputs are counted among such layers only.
SetVariableConfigGemv(a, g, l, first) ==
  LET u == a.element_unit
      matrix == IF first THEN 0 ELSE g.new_space_addr
      g1 == [g EXCEPT !.new_space_addr = @ + l.ifmap_height * l.ifmap_width * u,
                      !.ifmap_base_addr_array = Append(@, matrix)]
      vector == Resolve(g1, g1.filter_base_addr_array, l.filter, FALSE, l.filter_height * u)
      g2 == [vector.gen EXCEPT !.filter_base_addr_array = Append(@, vector.addr)]
  IN PlaceOfmap(g2, g2.filter_base_addr_array, l, matrix, vector.addr, l.ifmap_height * u)

AddressUpdateGemv(a, g, r) ==
  [g EXCEPT !.new_space_addr =
     Max({@, r.ifmap + r.ifmap_width * r.ifmap_height * a.element_unit,
          r.filter + r.ifmap_width * a.element_unit, r.ofmap + r.ifmap_height * a.element_unit})]

\* New space starts behind the three tensors of a row, wherever they lie.
AddressUpdate(a, g, r) ==
  LET u == a.element_unit
      result == IF r.type = "Other"
                THEN (r.ifmap_height - r.filter_height + 1)
                       * (r.ifmap_width - r.filter_width + 1) * r.filter_num
                ELSE OfmapHeight(r) * OfmapWidth(r) * r.filter_num
  IN [g EXCEPT !.new_space_addr =
        Max({@, r.filter + FilterElements(r) * u, r.ifmap + IfmapElements(r) * u,
             r.ofmap + result * u})]

-----------------------------------------------------------------------------
(* Tiles of a matrix product.                                                *)

AtLeastOne(x, limit) == Min({Max({1, x}), limit})

\* The widest tile w for which the square root in the formula of output
\* stationary tiling allows it: floor((sqrt(radicand) - b) / 2s).
RootWidth(a, l, elements) ==
  LET s == a.systolic_width
      b == (1 + s) * l.ifmap_height
      fits(w) == (2 * s * w + b) * (2 * s * w + b) <= 2 * s * elements + b * b
  IN CHOOSE w \in 0 .. elements : fits(w) /\ ~fits(w + 1)

Capacity(a) == a.tile_ifmap_size + a.tile_filter_size + a.tile_ofmap_size

GemmShape(a, l) ==
  LET half == Capacity(a) \div a.element_unit
      root == Max({1, RootWidth(a, l, 2 * half)})
      narrow == l.ifmap_width < root
      height == IF narrow THEN AtLeastOne(Min({(2 * half) \div l.ifmap_width, l.ifmap_height}),
                                          l.ifmap_height)
                          ELSE l.ifmap_height
      width == IF narrow THEN l.ifmap_width ELSE root
      filter == AtLeastOne((half - height * width) \div (height + width), l.filter_width)
  IN [height |-> height, filter_width |-> filter,
      width |-> IF filter = l.filter_width
                THEN AtLeastOne((half - height * filter) \div (height + filter), l.ifmap_width)
                ELSE width]

DirGemmShape(a, l) ==
  [height |-> l.ifmap_height, width |-> a.systolic_height, filter_width |-> a.systolic_width]

Rewinds_Never(lastDepth) == FALSE

\* Whether the offset of the results goes back to where the pass over the
\* common dimension began.
Rewinds(lastDepth) == ~lastDepth

\* The tiles in the order they are written: for each band i of rows, part j of
\* the common dimension and part k of the columns, their sizes and offsets.
Tiles(l, shape) ==
  LET J == CeilDiv(l.ifmap_width, shape.width)
      K == CeilDiv(l.filter_width, shape.filter_width)
      Part(n, step, whole) == Min({step, whole - step * n})
      sizes == [n \in 0 .. CeilDiv(l.ifmap_height, shape.height) * J * K - 1 |->
                 [h |-> Part(n \div (J * K), shape.height, l.ifmap_height),
                  w |-> Part((n \div K) % J, shape.width, l.ifmap_width),
                  f |-> Part(n % K, shape.filter_width, l.filter_width)]]
      offsets[n \in DOMAIN sizes] ==
        IF n = 0 THEN [ifmap |-> 0, filter |-> 0, ofmap |-> 0, prev |-> 0]
        ELSE LET before == offsets[n - 1]
                 s == sizes[n - 1]
                 endK == n % K = 0
                 endJ == n % (J * K) = 0
                 ofmap == before.ofmap + s.h * s.f
             IN [ifmap |-> before.ifmap + IF endK THEN s.h * s.w ELSE 0,
                 filter |-> IF endJ THEN 0 ELSE before.filter + s.w * s.f,
                 ofmap |-> IF endK /\ Rewinds(endJ) THEN before.prev ELSE ofmap,
                 prev |-> IF endJ THEN ofmap ELSE before.prev]
  IN [n \in 1 .. Cardinality(DOMAIN sizes) |-> [size |-> sizes[n - 1], offset |-> offsets[n - 1]]]

At(a, r, tile) ==
  [r EXCEPT !.ifmap = @ + tile.offset.ifmap * a.element_unit,
            !.filter = @ + tile.offset.filter * a.element_unit,
            !.ofmap = @ + tile.offset.ofmap * a.element_unit,
            !.ifmap_height = tile.size.h, !.filter_depth = 1, !.filter_num = 1, !.stride = 1]

\* A tile as a convolution with windows of one element.
GemmTranslation(a, r) ==
  LET tiles == Tiles(r, GemmShape(a, r))
  IN [n \in DOMAIN tiles |->
       [At(a, r, tiles[n]) EXCEPT !.type = "Conv", !.ifmap_width = 1,
          !.filter_height = 1, !.filter_width = 1,
          !.filter_depth = tiles[n].size.w, !.filter_num = tiles[n].size.f]]

DirGemmComputation(a, r) ==
  LET tiles == Tiles(r, DirGemmShape(a, r))
  IN [n \in DOMAIN tiles |->
       [At(a, r, tiles[n]) EXCEPT !.type = "Dir_Tile_Gemm", !.ifmap_width = tiles[n].size.w,
          !.filter_height = tiles[n].size.w, !.filter_width = tiles[n].size.f]]

\* A product that is not cut: its parts are written into one tile.
IneffDirGemmComputation(r) ==
  <<[r EXCEPT !.type = "Ineff_Dir_Tile_Gemm", !.filter_height = r.ifmap_width,
              !.filter_depth = 1, !.filter_num = 1, !.stride = 1]>>

-----------------------------------------------------------------------------
(* Tiles of a matrix-vector product: bands of rows, reshaped to the height   *)
(* of the array.                                                             *)

BandHeight(a, r) ==
  LET sum == Capacity(a) \div a.element_unit
      H == r.ifmap_height
      W == r.ifmap_width
  IN IF H * W + H + W > sum THEN CeilDiv(sum - W, W + 1) ELSE H

\* A band that neither fills the array nor divides into it has no size.
Unassigned(a, r) ==
  LET h == BandHeight(a, r)
  IN h < r.ifmap_height /\ h <= a.systolic_height /\ (h * r.ifmap_width) % a.systolic_height # 0

\* unassigned: what mtx_height_T and mtx_width_T hold when nothing was assigned
\* to them. A last band is reshaped by the size of the others.
GemvTranslation(a, r, unassigned) ==
  LET W == r.ifmap_width
      h == BandHeight(a, r)
      bands == CeilDiv(r.ifmap_height, h)
      rows(n) == IF n < bands THEN h ELSE r.ifmap_height - h * (bands - 1)
      reshaped == [h |-> a.systolic_height, w |-> CeilDiv(h * W, a.systolic_height)]
      size(n) == CASE n < bands /\ Unassigned(a, r) -> unassigned
                   [] n < bands /\ ~Unassigned(a, r) -> reshaped
                   [] n = bands /\ rows(n) > a.systolic_height -> reshaped
                   [] OTHER -> [h |-> rows(n), w |-> W]
      matrix[n \in 1 .. bands] ==
        IF n = 1 THEN r.ifmap ELSE matrix[n - 1] + size(n - 1).h * size(n - 1).w * a.element_unit
  IN [n \in 1 .. bands |->
       [r EXCEPT !.ifmap_height = size(n).h, !.ifmap_width = size(n).w,
                 !.filter_height = rows(n), !.filter_width = 1, !.filter_depth = 1,
                 !.filter_num = 1, !.stride = 1, !.ifmap = matrix[n],
                 !.ofmap = @ + h * (n - 1) * a.element_unit]]

-----------------------------------------------------------------------------
\* One layer: its rows and the generator after it. Products do not update
\* the new space.
ConfigUpdate(a, g, l, first, unassigned) ==
  LET set == IF l.type = "Gemv" THEN SetVariableConfigGemv(a, g, l, first)
                                ELSE SetVariableConfig(a, g, l, first)
  IN CASE l.type \in {"Gemm", "Im2col_conv"} ->
            [rows |-> GemmTranslation(a, set.row), gen |-> set.gen]
       [] l.type = "Gemv" ->
            [rows |-> GemvTranslation(a, set.row, unassigned),
             gen |-> AddressUpdateGemv(a, set.gen, set.row)]
       [] l.type = "Dir_Gemm" ->
            [rows |-> DirGemmComputation(a, set.row), gen |-> set.gen]
       [] l.type = "Ineff_Dir_Gemm" ->
            [rows |-> IneffDirGemmComputation(set.row), gen |-> set.gen]
       [] OTHER -> [rows |-> <<set.row>>, gen |-> AddressUpdate(a, set.gen, set.row)]
=============================================================================

------------------------------ MODULE TileGen ------------------------------
(* The request generator of one NPU, which runs before the simulation: it    *)
(* lays out a network, then turns every row of the intermediate              *)
(* configuration into the files of tiles that the simulation reads.          *)
EXTENDS LayerAccess

CONSTANTS
  Archs,        \* core configurations
  Networks,     \* networks, sequences of layers
  CycleRange,   \* 2^64, the range of pre_local_cycle
  Indeterminate \* values of variables before anything is assigned to them

Types == {"Conv", "Ineff_Conv", "Pool", "Gemm", "Im2col_conv", "Dir_Gemm", "Ineff_Dir_Gemm",
          "Gemv", "Other"}

\* The array is at least as high as wide: a wider one makes
\* conv_fold_parallel_computation read local_ifmap_fold beyond its rows. Its
\* width is a power of two, so that (double)ifmap_height/systolic_width*systolic_width
\* in gemm_translation is ifmap_height; 61/7*7 is less than 61.
Arch == [systolic_width : Nat \ {0}, systolic_height : Nat \ {0}, element_unit : Nat \ {0},
         cacheline_size : Nat \ {0}, unit_compute : Nat \ {0},
         tile_ifmap_size : Nat, tile_filter_size : Nat, tile_ofmap_size : Nat]
ASSUME ArchAssumption ==
  /\ Archs \subseteq Arch
  /\ \A a \in Archs : /\ a.systolic_width <= a.systolic_height
                      /\ \E k \in 0 .. a.systolic_width : a.systolic_width = 2 ^ k

\* A layer of the description: dimensions are positive, names are places.
Layer == [name : Nat, type : Types, ifmap_height : Nat \ {0}, ifmap_width : Nat \ {0},
          filter_height : Nat \ {0}, filter_width : Nat \ {0}, filter_depth : Nat \ {0},
          filter_num : Nat \ {0}, stride : Nat \ {0}, ifmap : Int, filter : Int, ofmap : Int]
Windowed == {"Conv", "Ineff_Conv", "Pool", "Im2col_conv"}
\* A window lies in the ifmap.
WindowInside(l) == l.filter_height <= l.ifmap_height /\ l.filter_width <= l.ifmap_width
ASSUME NetworkAssumption ==
  \A net \in Networks :
    /\ net \in Seq(Layer)
    /\ \A i \in DOMAIN net : net[i].name = i /\ (net[i].type \in Windowed => WindowInside(net[i]))

\* A vector leaves room in the scratchpad: bands are not empty.
ASSUME VectorAssumption ==
  \A a \in Archs, net \in Networks : \A i \in DOMAIN net :
    net[i].type = "Gemv" /\ a.systolic_width = 1 =>
      net[i].ifmap_width < Capacity(a) \div a.element_unit

\* References by number name results of layers before, or inputs, which are
\* counted among matrix-vector products only for one of these; a result may
\* lie on the input of its own layer.
ASSUME ReferenceAssumption ==
  \A net \in Networks : \A i \in DOMAIN net :
    LET l == net[i]
        vector == l.type = "Gemv"
        input == IF vector THEN l.filter ELSE l.ifmap
        inputs == Cardinality({j \in 1 .. i - 1 : vector => net[j].type = "Gemv"})
        Names(ref, n) == (ref \in 1 .. i - 1 /\ ref <= BOUNDARY) \/ ref - BOUNDARY \in 1 .. n
    IN /\ i > 1 \/ vector => input \in {Sequential, NewSpace} \/ Names(input, inputs)
       /\ l.ofmap = Sequential \/ Names(l.ofmap, inputs + 1)

ASSUME RangeAssumption ==
  CycleRange \in Nat \ {0, 1} /\ Indeterminate \subseteq 0 .. CycleRange - 1

VARIABLES
  arch, network, \* the two configuration files, never assigned
  gen,           \* addresses given out so far, see Blank
  config,        \* rows of the intermediate configuration
  layer,         \* number of layers translated
  stage,         \* "config", "computing" or "written"
  row,           \* the row that is computed
  t,             \* steps of it that are done
  dram,          \* dram_filter_set, dram_ifmap_set, dram_ofmap_set
  pre_local_cycle,
  tiles,         \* dram_read and dram_write file of the row: lines per tile
  sram,          \* its sram files, which hold the same numbers
  cuts           \* history: the steps that were done when each tile was written

vars == <<arch, network, gen, config, layer, stage, row, t, dram, pre_local_cycle, tiles, sram,
          cuts>>
files == <<tiles, sram, cuts>>

r == config[row]

-----------------------------------------------------------------------------
(* Tiles.                                                                    *)

Total(d) == Cardinality(d.filter) + Cardinality(d.ifmap) + Cardinality(d.ofmap)

\* Operators named X_Fault are X with one plausible mistake in it.
Union_NoOfmap(d, next) ==
  Access(d.filter \cup next.filter, d.ifmap \cup next.ifmap, d.ofmap)
Union(d, next) ==
  Access(d.filter \cup next.filter, d.ifmap \cup next.ifmap, d.ofmap \cup next.ofmap)

Exceeds(d) == Total(d) * arch.cacheline_size > Capacity(arch)
IsFull_Before(next) == Exceeds(dram)
IsFull(next) == Exceeds(Union(dram, next))

\* An empty set is written as the address 0.
OrZero(lines) == IF lines = {} THEN {0} ELSE lines

CycleLines_Always(cycles) == <<0, (cycles + CycleRange - 1) % CycleRange>>

\* The cycles of a tile stand behind a zero that marks its beginning; a single
\* cycle is not written, it would be another zero.
CycleLines(cycles) ==
  <<0>> \o IF cycles = 1 THEN << >> ELSE <<(cycles + CycleRange - 1) % CycleRange>>

Written(d) == Access(OrZero(d.filter), OrZero(d.ifmap), OrZero(d.ofmap))

TileOutput(d, cycles, steps) ==
  /\ tiles' = Append(tiles, Written(d))
  /\ sram' = sram \o CycleLines(cycles)
  /\ cuts' = Append(cuts, steps)

-----------------------------------------------------------------------------
(* The two passes over the network.                                          *)

ConfigLayer ==
  /\ stage = "config" /\ layer < Len(network)
  /\ \E h, w \in Indeterminate :
       LET done == ConfigUpdate(arch, gen, network[layer + 1], layer = 0, [h |-> h, w |-> w])
       IN config' = config \o done.rows /\ gen' = done.gen
  /\ layer' = layer + 1
  /\ UNCHANGED <<arch, network, stage, row, t, dram, pre_local_cycle, files>>

Uncounted == {"Pool", "Ineff_Conv"}

\* set_variable and init_file_io of the next row. Layers that count no cycles
\* do not reset the counter, either.
SetVariable ==
  /\ stage # "computing" /\ layer = Len(network)
  /\ row < Len(config)
  /\ stage' = "computing" /\ row' = row + 1 /\ t' = 0
  /\ pre_local_cycle' = IF config[row + 1].type \in Uncounted THEN pre_local_cycle ELSE 0
  /\ tiles' = << >> /\ sram' = << >> /\ cuts' = << >>
  /\ UNCHANGED <<arch, network, gen, config, layer, dram>>

\* A step goes into the tile, or begins a new one if it does not fit. The parts
\* of a product that was not cut are collected before they are moved: the one
\* that does not fit is still written with the others.
ComputeStep ==
  /\ stage = "computing" /\ Live(arch, r, t)
  /\ LET next == StepAccess(arch, r, t)
         cycles == pre_local_cycle + CyclesBefore(arch, r, t)
         full == r.type \notin {"Gemv", "Other"} /\ IsFull(next)
     IN \/ /\ ~full
           /\ dram' = Union(dram, next)
           /\ pre_local_cycle' = cycles + CyclesAfter(arch, r)
           /\ UNCHANGED files
        \/ /\ full /\ r.type # "Ineff_Dir_Tile_Gemm"
           /\ TileOutput(dram, cycles, t)
           /\ dram' = Union(Nothing, next)
           /\ pre_local_cycle' = CyclesAfter(arch, r)
        \/ /\ full /\ r.type = "Ineff_Dir_Tile_Gemm"
           /\ TileOutput(Union(dram, next), cycles, t + 1)
           /\ dram' = Nothing /\ pre_local_cycle' = 0
  /\ t' = t + 1
  /\ UNCHANGED <<arch, network, gen, config, layer, stage, row>>

EndLayer ==
  /\ stage = "computing" /\ ~Live(arch, r, t)
  /\ TileOutput(dram, pre_local_cycle, t)
  /\ dram' = Nothing /\ pre_local_cycle' = 0
  /\ stage' = "written"
  /\ UNCHANGED <<arch, network, gen, config, layer, row, t>>

Terminated == stage = "written" /\ row = Len(config) /\ UNCHANGED vars

\* gemv_translation asserts a single column.
Accepted == \A i \in DOMAIN network : network[i].type = "Gemv" => arch.systolic_width = 1

Init ==
  /\ arch \in Archs /\ network \in Networks /\ Accepted
  /\ (\E a \in Indeterminate : gen = Blank(a)) /\ config = << >> /\ layer = 0
  /\ stage = "config" /\ row = 0 /\ t = 0
  /\ dram = Nothing /\ pre_local_cycle \in Indeterminate
  /\ tiles = << >> /\ sram = << >> /\ cuts = << >>

Next == ConfigLayer \/ SetVariable \/ ComputeStep \/ EndLayer \/ Terminated
Spec == Init /\ [][Next]_vars

-----------------------------------------------------------------------------
(* What the tensors of a row occupy, as sets of bytes.                       *)

Bytes(base, elements) == base .. base + elements * arch.element_unit - 1
IfmapBytes(q) == Bytes(q.ifmap, IfmapElements(q))
FilterBytes(q) ==
  Bytes(q.filter, IF q.type = "Gemv" THEN network[q.name].filter_height ELSE FilterElements(q))
OfmapElements(q) ==
  CASE q.type \in {"Dir_Tile_Gemm", "Ineff_Dir_Tile_Gemm", "Gemm", "Im2col_conv", "Dir_Gemm",
                   "Ineff_Dir_Gemm"} -> q.ifmap_height * q.filter_width
    [] q.type = "Gemv" -> q.filter_height
    [] q.type = "Other" -> q.ifmap_height * q.ifmap_width
    [] OTHER -> Windows(q) * q.filter_num
OfmapBytes(q) == Bytes(q.ofmap, OfmapElements(q))

\* The rows are complete before the first of them is computed (stage "config").
RowsOf(i) == {n \in DOMAIN config : config[n].name = i}

Partition(parts, whole) ==
  UNION parts = whole /\ \A x, y \in parts : x # y => x \cap y = {}

\* The tiles of a product (gemm_translation, dir_gemm_computation) cut each of
\* the three matrices without gap and overlap, although their addresses are
\* running sums that are taken back at the ends of two loops; and every result
\* is accumulated over the whole common dimension, with no part of it twice.
MatrixTiles(i) ==
  LET l == AsGemm(network[i])
      own == {config[n] : n \in RowsOf(i)}
      depth(n) == IF config[n].type = "Conv" THEN config[n].filter_depth
                                             ELSE config[n].ifmap_width
  IN /\ Partition({IfmapBytes(q) : q \in own},
                  Bytes(gen.ifmap_base_addr_array[i], l.ifmap_height * l.ifmap_width))
     /\ Partition({FilterBytes(q) : q \in own},
                  Bytes(Min({q.filter : q \in own}), l.ifmap_width * l.filter_width))
     /\ Partition({OfmapBytes(q) : q \in own},
                  Bytes(gen.ofmap_base_addr_array[i], l.ifmap_height * l.filter_width))
     /\ \A n \in RowsOf(i) :
          LET same == {m \in RowsOf(i) : config[m].ofmap = config[n].ofmap}
          IN /\ MapThenSumSet(depth, same) = l.ifmap_width
             /\ \A m \in same \ {n} : /\ config[m].ifmap # config[n].ifmap
                                      /\ config[m].filter # config[n].filter

\* The bands of a matrix-vector product follow each other in the matrix, reach
\* its end although they are reshaped with roundings, and cut the result; when
\* every band has a size.
VectorTiles(i) ==
  LET l == network[i]
      own == {config[n] : n \in RowsOf(i)}
      matrix == Bytes(gen.ifmap_base_addr_array[i], l.ifmap_height * l.ifmap_width)
  IN ~Unassigned(arch, l) =>
       /\ matrix \subseteq UNION {IfmapBytes(q) : q \in own}
       /\ \A p, q \in own : p # q => IfmapBytes(p) \cap IfmapBytes(q) = {}
       /\ Partition({OfmapBytes(q) : q \in own},
                    Bytes(gen.ofmap_base_addr_array[i], l.ifmap_height))

GemmTiles ==
  stage = "config" => \A i \in 1 .. layer :
    /\ network[i].type \in {"Gemm", "Im2col_conv", "Dir_Gemm", "Ineff_Dir_Gemm"} => MatrixTiles(i)
    /\ network[i].type = "Gemv" => VectorTiles(i)

\* Elements of the tensors of a layer.
InputOf(i) ==
  LET l == AsGemm(network[i])
  IN IF l.type = "Gemv" THEN l.ifmap_height * l.ifmap_width ELSE IfmapElements(l)
FilterOf(i) ==
  LET l == AsGemm(network[i]) IN IF l.type = "Gemv" THEN l.filter_height ELSE FilterElements(l)
ResultOf(i) ==
  LET l == AsGemm(network[i]) IN IF l.type = "Gemv" THEN l.ifmap_height ELSE OfmapElements(l)

\* Nothing reserves the result of a product that is not cut.
ReservedOf(i) == IF network[i].type = "Ineff_Dir_Gemm" THEN 0 ELSE ResultOf(i)

\* So many elements of layer i fit into what its reference stands for: the result
\* of the layer before (the first layer has none, its vector would lie at an
\* address that was never assigned), a result, or an input: of a layer, or the k-th
\* vector for such a product.
Fits(i, ref, elements) ==
  LET vector(j) == network[j].type = "Gemv"
  IN /\ ref = Sequential => i > 1 /\ elements <= ReservedOf(i - 1)
     /\ ref \in 1 .. BOUNDARY => elements <= ReservedOf(ref)
     /\ ref > BOUNDARY /\ ~vector(i) => elements <= InputOf(ref - BOUNDARY)
     /\ ref > BOUNDARY /\ vector(i) =>
          \A j \in 1 .. i :
            vector(j) /\ Cardinality({k \in 1 .. j : vector(k)}) = ref - BOUNDARY =>
              elements <= FilterOf(j)

\* The tensors that a layer names are no larger than what was reserved for these
\* names, its filter is as high as its product goes through it, and its windows,
\* which decide what is reserved for the result of "Other", are of one element.
FitsNames(i) ==
  LET l == AsGemm(network[i])
  IN /\ l.type = "Gemv" => Fits(i, l.filter, FilterOf(i))
     /\ l.type # "Gemv" /\ i > 1 => Fits(i, l.ifmap, InputOf(i))
     /\ l.ofmap # Sequential => Fits(i, l.ofmap, ResultOf(i))
     /\ l.type \in {"Gemm", "Dir_Gemm", "Ineff_Dir_Gemm"} => l.ifmap_width <= l.filter_height
     /\ l.type = "Other" => l.filter_height = 1 /\ l.filter_width = 1

\* The filter has no name of its own, it goes where the ifmap's reference says, and
\* it may be larger than what lies there, as with -1, -2, -1 and a filter larger
\* than the result before. Then only address_update, which products do not call,
\* reserves what it takes, for the layers behind it.
FilterFits(i) ==
  i = 1 \/ network[i].type \in {"Gemv", "Im2col_conv"} \/ Fits(i, network[i].ifmap, FilterOf(i))
FilterReserved(i) ==
  FilterFits(i) \/ network[i].type \in {"Conv", "Ineff_Conv", "Pool", "Other"}

\* A result that is not placed by hand lies on no tensor of its own layer or of
\* any layer before: set_variable_config takes it from new_space_addr, which
\* three operations on two paths must have moved behind everything in use. Three
\* tensors are excepted, for nothing reserves them: the result of a product that
\* is not cut, what bands that are rounded up take behind their matrix, and a
\* filter larger than what it was put on.
InputBytes(q) ==
  IF q.type = "Gemv"
  THEN IfmapBytes(q) \cap Bytes(gen.ifmap_base_addr_array[q.name], InputOf(q.name))
  ELSE IfmapBytes(q)

OfmapFresh ==
  stage = "config" /\ (\A i \in 1 .. layer : FitsNames(i)) =>
    \A m, n \in DOMAIN config :
      LET p == config[m]
          q == config[n]
      IN network[q.name].ofmap = Sequential =>
           /\ p.name <= q.name => OfmapBytes(q) \cap InputBytes(p) = {}
           /\ (p.name = q.name /\ FilterFits(p.name)) \/ (p.name < q.name /\ FilterReserved(p.name)) =>
                OfmapBytes(q) \cap FilterBytes(p) = {}
           /\ p.name < q.name /\ p.type # "Ineff_Dir_Tile_Gemm" =>
                OfmapBytes(q) \cap OfmapBytes(p) = {}

\* "-2 (New address connection)": a filter that the description puts in a space
\* of its own shares no byte with the ifmap of its layer.
FilterApart ==
  \A n \in DOMAIN config :
    config[n].name > 1 /\ network[config[n].name].filter = NewSpace =>
      FilterBytes(config[n]) \cap IfmapBytes(config[n]) = {}

-----------------------------------------------------------------------------
(* What the tiles of a row must contain.                                     *)

Covering(base, elements) == Lines(arch, base, 0 .. elements - 1)

\* The elements of the ifmap that some window covers, by rows and columns.
Covered(size, filter, windows, stride) ==
  {z \in 0 .. size - 1 : \E w \in 0 .. windows - 1 :
     LET from == Min({w * stride, size - filter}) IN from <= z /\ z < from + filter}

UsedIfmap(q) ==
  {c * q.ifmap_width * q.ifmap_height + y * q.ifmap_width + x :
     c \in 0 .. q.filter_depth - 1,
     y \in Covered(q.ifmap_height, q.filter_height, OfmapHeight(q), q.stride),
     x \in Covered(q.ifmap_width, q.filter_width, OfmapWidth(q), q.stride)}

Fetched(part(_)) == UNION {part(tiles[n]) : n \in DOMAIN tiles}
Filters(tile) == tile.filter
Ifmaps(tile) == tile.ifmap
Ofmaps(tile) == tile.ofmap

\* Every fold runs until the last row and the last column in use have worked
\* through all elements and their last result is begun: its number of cycles
\* counts the fewer of both twice.
FoldsReach(q) ==
  \A k \in 0 .. IneffFolds(arch, q) - 1 :
    LET live == {LiveIfmap(arch, q, k), LiveFilter(arch, q, k)}
    IN Max(live) <= 2 * Min(live) - 1 /\ Max(live) - Min(live) < FilterSize(q)

\* The tiles of a convolution contain exactly the lines of its filters, of the
\* elements its windows cover and of its results (the address 0 apart, which
\* stands for an empty set): the array is filled and drained, folds change at a
\* different cycle in every element, and tiles are cut in between. The one that
\* empties the array between folds has lines of results too many, and none too
\* few if its folds run long enough. The tiles of a direct product contain at
\* least its lines, if it is no narrower than its result; of one that was not
\* cut, if an element is a byte.
NothingLost ==
  stage = "written" =>
    /\ r.type = "Conv" \/ (r.type = "Ineff_Conv" /\ FoldsReach(r)) =>
         /\ Fetched(Filters) \ {0} = Covering(r.filter, FilterElements(r)) \ {0}
         /\ Fetched(Ifmaps) \ {0} = Lines(arch, r.ifmap, UsedIfmap(r)) \ {0}
         /\ Covering(r.ofmap, OfmapElements(r)) \ {0} \subseteq Fetched(Ofmaps)
         /\ r.type = "Conv" =>
              Fetched(Ofmaps) \ {0} \subseteq Covering(r.ofmap, OfmapElements(r))
    /\ (\/ r.type = "Dir_Tile_Gemm" /\ r.filter_width <= r.ifmap_width
        \/ r.type = "Ineff_Dir_Tile_Gemm" /\ arch.element_unit = 1) =>
         /\ Covering(r.filter, FilterElements(r)) \subseteq Fetched(Filters)
         /\ Covering(r.ifmap, IfmapElements(r)) \subseteq Fetched(Ifmaps)
         /\ Covering(r.ofmap, OfmapElements(r)) \subseteq Fetched(Ofmaps)

\* What the steps of the row touch from one on and before another.
Steps(from, to) ==
  LET steps == {StepAccess(arch, r, s) : s \in from .. to - 1}
  IN Access(UNION {next.filter : next \in steps}, UNION {next.ifmap : next \in steps},
            UNION {next.ofmap : next \in steps})

Upto(n) == IF n = 0 THEN 0 ELSE cuts[n]
Uncut == r.type = "Ineff_Dir_Tile_Gemm"

\* The tile holds the steps behind the one before. It is larger than the
\* scratchpad's share only for its last step, and then it is that step alone,
\* except in a product that was not cut.
Made(n) ==
  LET held == Steps(Upto(n - 1), Upto(n))
  IN /\ Upto(n - 1) <= Upto(n)
     /\ tiles[n] = Written(held)
     /\ Exceeds(held) => /\ ~Exceeds(Steps(Upto(n - 1), Upto(n) - 1))
                         /\ Uncut \/ Upto(n) = Upto(n - 1) + 1

\* It was ended by a step for which it had no room.
Full(n) == Exceeds(Steps(Upto(n - 1), IF Uncut THEN Upto(n) ELSE Upto(n) + 1))

\* The tiles that are written for a row share out its steps in their order, none
\* is cut before it is full, and none exceeds the scratchpad's share by more than
\* a step: is_full looks ahead, at the tile with the step that is not in it yet,
\* and every generator writes, moves and resets around it in an order of its own.
\* A product that was not cut does exceed its share with tiles of several steps.
TileFits ==
  stage = "written" =>
    /\ Len(tiles) = Len(cuts) /\ Upto(Len(cuts)) = t
    /\ \A n \in 1 .. Len(tiles) : Made(n) /\ (n < Len(tiles) => Full(n))

\* What npu_accelerator::run reads from the file of cycles: a tile per zero, and
\* for each tile the last number before the next zero, input_local_cycle. calcCycle
\* adds (input_local_cycle + 1) * unit_compute to the simulation's compute_cycle,
\* and MAX(systolic_width, systolic_height) * unit_compute; this is the sum.
TileEnds == {n \in DOMAIN sram : n = Len(sram) \/ sram[n + 1] = 0}
LocalCycles == MapThenSumSet(LAMBDA n : (sram[n] + 1) % CycleRange, TileEnds)
Passage(many) == many * Max({arch.systolic_width, arch.systolic_height})
ReadBack == (arch.unit_compute * (LocalCycles + Passage(Cardinality(TileEnds)))) % CycleRange

\* The simulation sees as many tiles as there are lines of addresses, and takes for
\* them unit_compute times the cycles that the generator counted, of which it
\* counted most in units of unit_compute, too, and once more for each tile the time
\* through the array. A layer that counts no cycles takes none, although -1 is
\* written for it; only the first row's may be what the counter held before.
CyclesReadBack ==
  stage = "written" =>
    /\ Cardinality(TileEnds) = Len(tiles)
    /\ LET weights == Min({arch.systolic_height, r.filter_height})
           counted ==
             CASE r.type = "Conv" -> arch.unit_compute * t
               [] r.type = "Dir_Tile_Gemm" -> arch.unit_compute * (t + weights)
               [] r.type = "Ineff_Dir_Tile_Gemm" ->
                    arch.unit_compute * t * (weights + IneffDirCycles(arch, r))
               [] r.type = "Gemv" -> arch.unit_compute * GemvCycles(arch, r)
               [] r.type = "Other" -> FullRounds(arch, r) * r.stride
               [] r.type \in Uncounted -> 0
       IN \/ row = 1 /\ r.type \in Uncounted
          \/ ReadBack = (arch.unit_compute * (counted + Passage(Len(tiles)))) % CycleRange
=============================================================================

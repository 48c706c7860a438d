---------------------------- MODULE LayerAccess ----------------------------
(* Which cachelines one step of a layer's computation touches. A step is one *)
(* round of the loop that ends in move_reset_dram: a cycle of the systolic   *)
(* array, a window of a pooling layer, or all of an element-wise layer.      *)
EXTENDS NetConfig

Line(a, addr) == addr - (addr % a.cacheline_size)
Lines(a, base, elements) == {Line(a, base + e * a.element_unit) : e \in elements}

\* The elements in some rows and columns of a matrix.
Block(width, rows, columns) == {p[1] * width + p[2] : p \in rows \X columns}

Access(filter, ifmap, ofmap) == [filter |-> filter, ifmap |-> ifmap, ofmap |-> ofmap]
Nothing == Access({}, {}, {})

Windows(r) == OfmapWidth(r) * OfmapHeight(r)
FilterFold(a, r) == CeilDiv(r.filter_num, a.systolic_width)
Columns(a) == 0 .. a.systolic_width - 1
Rows(a) == 0 .. a.systolic_height - 1

-----------------------------------------------------------------------------
(* Convolution. A processing element works through all elements of a filter, *)
(* then goes to its next filter, then to its next window.                    *)

Fold(a, r, x, y, t) ==
  LET elapsed == Max({0, t - x - y})
      ifmap_fold == elapsed \div (FilterSize(r) * FilterFold(a, r))
  IN [running |-> t >= x + y,
      offset |-> elapsed % FilterSize(r),
      filter |-> ((elapsed \div FilterSize(r)) % FilterFold(a, r)) * a.systolic_width + x,
      first |-> ifmap_fold * a.systolic_height,
      window |-> ifmap_fold * a.systolic_height + y]

Assigned(r, pe) == pe.window < Windows(r) /\ pe.filter < r.filter_num

\* The upper left element of a window; the last ones are moved into the ifmap.
WindowBase(r, w) ==
  Min({(w \div OfmapWidth(r)) * r.stride, r.ifmap_height - r.filter_height}) * r.ifmap_width
    + Min({(w % OfmapWidth(r)) * r.stride, r.ifmap_width - r.filter_width})

\* Element o of a filter, as a distance from the window's upper left element.
InWindow(r, o) ==
  LET channel == r.filter_width * r.filter_height
  IN (o \div channel) * r.ifmap_width * r.ifmap_height
       + ((o % channel) \div r.filter_width) * r.ifmap_width + (o % r.filter_width)

\* A column reads its filter while a window is assigned on its diagonal.
AccordingIfmap(a, r, x, t) ==
  \E d \in 0 .. Min({x, a.systolic_height - 1}) :
    LET pe == Fold(a, r, d, x - d, t) IN pe.first + d < Windows(r) /\ pe.running

ConvLive(a, r, t) == \E x \in Columns(a), y \in Rows(a) : Assigned(r, Fold(a, r, x, y, t))

ConvAccess(a, r, t) ==
  LET top(x) == Fold(a, r, x, 0, t)
      left(y) == Fold(a, r, 0, y, t)
      pe(p) == Fold(a, r, p[1], p[2], t)
      reading == {x \in Columns(a) : /\ top(x).filter < r.filter_num /\ top(x).running
                                     /\ AccordingIfmap(a, r, x, t)}
      feeding == {y \in Rows(a) : left(y).window < Windows(r) /\ left(y).running}
      working == {p \in Columns(a) \X Rows(a) : Assigned(r, pe(p)) /\ pe(p).running}
  IN Access(Lines(a, r.filter, {top(x).filter * FilterSize(r) + top(x).offset : x \in reading}),
            Lines(a, r.ifmap, {WindowBase(r, left(y).window) + InWindow(r, left(y).offset)
                                : y \in feeding}),
            Lines(a, r.ofmap, {pe(p).filter * Windows(r) + pe(p).window : p \in working}))

-----------------------------------------------------------------------------
(* Tile of a direct matrix product: the weights first, then one row of the   *)
(* ifmap per cycle; results leave column x after x cycles.                   *)

DirLive(a, r, t) == t < r.ifmap_height + Min({a.systolic_width, r.ifmap_width})

DirAccess(a, r, t) ==
  LET weights == Block(r.filter_width, 0 .. Min({a.systolic_height, r.filter_height}) - 1,
                                       0 .. Min({a.systolic_width, r.filter_width}) - 1)
      done == {x \in Columns(a) : x <= t /\ t < x + r.ifmap_height /\ x < r.filter_width}
  IN Access(IF t = 0 THEN Lines(a, r.filter, weights) ELSE {},
            Lines(a, r.ifmap, {t * r.ifmap_width + y : y \in Rows(a)}),
            Lines(a, r.ofmap, {(t - x) * r.filter_width + x : x \in done}))

-----------------------------------------------------------------------------
(* Pooling reads one window per step and writes nothing; an element-wise     *)
(* layer is one step, which drops the elements that do not fill the array.   *)

PoolLive(r, t) == t < r.filter_depth * Windows(r)

PoolAccess(a, r, t) ==
  LET i == t \div Windows(r)
      j == (t \div OfmapHeight(r)) % OfmapWidth(r)
      k == t % OfmapHeight(r)
      start == i * r.ifmap_width * r.ifmap_height
                 + Min({j * r.stride, r.ifmap_width - r.filter_width})
                 + Min({k * r.stride * r.ifmap_width, r.ifmap_height - r.filter_height})
      window == Block(r.filter_width, 0 .. r.filter_height - 1, 0 .. r.filter_width - 1)
  IN Access({}, Lines(a, r.ifmap, {start + e : e \in window}), {})

FullRounds(a, r) == (r.ifmap_width * r.ifmap_height) \div a.systolic_width

OtherAccess(a, r) ==
  LET used == 0 .. FullRounds(a, r) * a.systolic_width - 1
      unaligned(base) == {base + Line(a, e * a.element_unit) : e \in used}
  IN Access({}, unaligned(r.ifmap), unaligned(r.ofmap))

-----------------------------------------------------------------------------
(* The other convolution: the array is emptied between folds, all elements   *)
(* change filter and window together. k counts the folds, windows outermost. *)

IneffFolds(a, r) == CeilDiv(Windows(r), a.systolic_height) * FilterFold(a, r)
FirstWindow(a, r, k) == (k \div FilterFold(a, r)) * a.systolic_height
FirstFilter(a, r, k) == (k % FilterFold(a, r)) * a.systolic_width

LiveIfmap(a, r, k) == Min({Windows(r) - FirstWindow(a, r, k), a.systolic_height})
LiveFilter(a, r, k) == Min({r.filter_num - FirstFilter(a, r, k), a.systolic_width})
CycleInThisFold(a, r, k) ==
  FilterSize(r) + 2 * (Min({LiveFilter(a, r, k), LiveIfmap(a, r, k)}) - 1)
FoldStart(a, r, k) == MapThenSumSet(LAMBDA j : CycleInThisFold(a, r, j), 0 .. k - 1)

IneffLive(a, r, t) == t < FoldStart(a, r, IneffFolds(a, r))

\* Results are not limited to filters and windows that exist.
IneffAccess(a, r, t) ==
  LET k == CHOOSE j \in 0 .. IneffFolds(a, r) - 1 :
             FoldStart(a, r, j) <= t /\ t < FoldStart(a, r, j + 1)
      working(lag) == t - FoldStart(a, r, k) - lag \in 0 .. FilterSize(r) - 1
      offset(lag) == t - FoldStart(a, r, k) - lag
      filter(x) == FirstFilter(a, r, k) + x
      window(y) == FirstWindow(a, r, k) + y
      reading == {x \in Columns(a) : filter(x) < r.filter_num /\ working(x)}
      feeding == {y \in Rows(a) : window(y) < Windows(r) /\ working(y)}
  IN Access(Lines(a, r.filter, {filter(x) * FilterSize(r) + offset(x) : x \in reading}),
            Lines(a, r.ifmap, {WindowBase(r, window(y)) + InWindow(r, offset(y)) : y \in feeding}),
            Lines(a, r.ofmap, {filter(p[1]) * Windows(r) + window(p[2]) :
                                 p \in {q \in Columns(a) \X Rows(a) : working(q[1] + q[2])}}))

-----------------------------------------------------------------------------
(* A direct product that was not cut: one step for each part of the common   *)
(* dimension and of the columns; parts begin at bytes, not at elements.      *)

IneffDirParts(a, r) ==
  CeilDiv(r.ifmap_width, a.systolic_height) * CeilDiv(r.filter_width, a.systolic_width)

IneffDirCycles(a, r) ==
  r.ifmap_height + r.ifmap_width + Min({a.systolic_width, r.filter_width}) - 2

IneffDirAccess(a, r, t) ==
  LET K == CeilDiv(r.filter_width, a.systolic_width)
      j == (t \div K) * a.systolic_height
      k == (t % K) * a.systolic_width
      columns == 0 .. Min({a.systolic_width, r.filter_width}) - 1
      depths == 0 .. Min({a.systolic_height, r.filter_height}) - 1
      rows == 0 .. r.ifmap_height - 1
  IN Access(Lines(a, r.filter + j * r.filter_width + k,
                  Block(r.filter_width, depths, columns)),
            Lines(a, r.ifmap + j,
                  {z[1] * r.ifmap_width + z[2] :
                     z \in {y \in rows \X Rows(a) : y[1] + y[2] < IneffDirCycles(a, r)}}),
            Lines(a, r.ofmap + k, Block(r.filter_width, rows, columns)))

-----------------------------------------------------------------------------
(* A band of a matrix-vector product is one step. It takes the number of its *)
(* rows for the length of the vector, its columns for the result's.          *)

Span(a, base, bytes) == {Line(a, x) : x \in Line(a, base) .. base + bytes - 1}

GemvAccess(a, r) ==
  LET u == a.element_unit
      elements == r.ifmap_height * r.ifmap_width
  IN Access(Span(a, r.filter, r.filter_height * u), Span(a, r.ifmap, elements * u),
            Span(a, r.ofmap, (elements \div r.filter_height) * u))

\* Products, then the levels of the adder tree: floor(log2(height)) + 1.
GemvCycles(a, r) ==
  LET levels == CHOOSE n \in 1 .. a.systolic_height :
                  2 ^ (n - 1) <= a.systolic_height /\ a.systolic_height < 2 ^ n
  IN r.ifmap_height * Max({1, CeilDiv(r.ifmap_width, a.systolic_height)}) + levels

-----------------------------------------------------------------------------
(* Any layer.                                                                *)

Live(a, r, t) == CASE r.type = "Conv" -> ConvLive(a, r, t)
                   [] r.type = "Ineff_Conv" -> IneffLive(a, r, t)
                   [] r.type = "Dir_Tile_Gemm" -> DirLive(a, r, t)
                   [] r.type = "Ineff_Dir_Tile_Gemm" -> t < IneffDirParts(a, r)
                   [] r.type = "Pool" -> PoolLive(r, t)
                   [] r.type \in {"Gemv", "Other"} -> t = 0

StepAccess(a, r, t) == CASE r.type = "Conv" -> ConvAccess(a, r, t)
                         [] r.type = "Ineff_Conv" -> IneffAccess(a, r, t)
                         [] r.type = "Dir_Tile_Gemm" -> DirAccess(a, r, t)
                         [] r.type = "Ineff_Dir_Tile_Gemm" -> IneffDirAccess(a, r, t)
                         [] r.type = "Pool" -> PoolAccess(a, r, t)
                         [] r.type = "Gemv" -> GemvAccess(a, r)
                         [] r.type = "Other" -> OtherAccess(a, r)

\* Cycles counted before the step's lines are considered, and after.
CyclesBefore(a, r, t) ==
  LET weights == Min({a.systolic_height, r.filter_height})
  IN CASE r.type = "Dir_Tile_Gemm" -> a.unit_compute * (1 + IF t = 0 THEN weights ELSE 0)
       [] r.type = "Ineff_Dir_Tile_Gemm" -> a.unit_compute * (weights + IneffDirCycles(a, r))
       [] r.type = "Gemv" -> a.unit_compute * GemvCycles(a, r)
       [] r.type = "Other" -> FullRounds(a, r) * r.stride
       [] OTHER -> 0
CyclesAfter(a, r) == IF r.type = "Conv" THEN a.unit_compute ELSE 0
=============================================================================

----------------------------- MODULE MCTileGen -----------------------------
(* Small networks and cores for TileGen.                                     *)
EXTENDS TileGen

NewLayer(type, ih, iw, fh, fw, depth, num, stride) ==
  [name |-> 0, type |-> type, ifmap_height |-> ih, ifmap_width |-> iw,
   filter_height |-> fh, filter_width |-> fw, filter_depth |-> depth, filter_num |-> num,
   stride |-> stride, ifmap |-> Sequential, filter |-> NewSpace, ofmap |-> Sequential]

\* Three filters and four windows on a 2 x 2 array, two channels, a stride the
\* size is no multiple of; products that are cut along the common dimension and
\* along the columns.
Convs == {NewLayer("Conv", 3, 3, 2, 2, 1, 3, 1), NewLayer("Conv", 4, 3, 3, 2, 2, 1, 2)}
Cut == {NewLayer("Gemm", 4, 5, 5, 3, 1, 1, 1), NewLayer("Dir_Gemm", 3, 4, 4, 3, 1, 1, 1)}
Gemms == Cut \cup {NewLayer("Im2col_conv", 3, 3, 2, 2, 1, 3, 1)}
Others == {NewLayer("Pool", 4, 4, 2, 2, 1, 1, 2), NewLayer("Other", 2, 4, 1, 1, 1, 1, 3)}
Menu == Convs \cup Gemms \cup Others

\* Four filters and four windows fill the folds of the array that is emptied;
\* three filters and two windows leave their last result to the first cycle that
\* a fold of the wide core does not run, unless there are two channels.
Ineffs == {NewLayer("Ineff_Conv", 3, 3, 2, 2, 1, 4, 1), NewLayer("Ineff_Conv", 3, 3, 2, 2, 1, 3, 1),
           NewLayer("Ineff_Conv", 1, 2, 1, 1, 1, 3, 1), NewLayer("Ineff_Conv", 1, 2, 1, 1, 2, 3, 1),
           NewLayer("Ineff_Dir_Gemm", 3, 4, 4, 3, 1, 1, 1)}
\* Matrices of one band, of bands that fill the array (of two rows), of bands
\* that are reshaped, and of bands of one row that does not divide into it.
Gemvs == {NewLayer("Gemv", 2, 3, 3, 1, 1, 1, 1), NewLayer("Gemv", 3, 5, 5, 1, 1, 1, 1),
          NewLayer("Gemv", 4, 3, 3, 1, 1, 1, 1), NewLayer("Gemv", 2, 7, 7, 1, 1, 1, 1)}

Small == NewLayer("Gemm", 2, 2, 2, 2, 1, 1, 1)

\* The reference is that of the ifmap, or of the vector.
Place(l, i, ref) ==
  IF l.type = "Gemv" THEN [l EXCEPT !.name = i, !.ifmap = NewSpace, !.filter = ref]
                     ELSE [l EXCEPT !.name = i, !.ifmap = ref]

\* All pairs, the second in a space of its own or on the first one's tensors,
\* which a third one may refer to by number. Inputs of matrix-vector products
\* are counted among themselves.
References == {Sequential, NewSpace, 1, BOUNDARY + 1}
Pair(l, m, ref) == <<Place(l, 1, NewSpace), Place(m, 2, ref)>>
Pairs == {Pair(l, m, ref) : l \in Menu, m \in Menu, ref \in {Sequential, NewSpace}}
           \cup {Pair(l, m, BOUNDARY + 1) : l \in Cut \cup Others, m \in Menu}
Triples == {Append(Pair(l, m, NewSpace), Place(Small, 3, ref)) :
              l \in Cut, m \in Cut \cup Others, ref \in References}
IneffPairs == {Pair(l, Small, ref) : l \in Ineffs, ref \in References}
                \cup {Pair(Small, m, ref) : m \in Ineffs, ref \in References}
GemvPairs == {Pair(l, m, ref) : l \in Gemvs, m \in Gemvs \cup {Small}, ref \in References}
               \cup {Pair(Small, m, ref) : m \in Gemvs, ref \in References \ {BOUNDARY + 1}}

\* The vector of a first layer goes where nothing was assigned.
FirstVectors == {<<Place(l, 1, Sequential), Place(m, 2, ref)>> :
               l \in Gemvs, m \in Gemvs \cup {Small}, ref \in {Sequential, NewSpace}}

\* Filters larger than the result they are put on, of layers that reserve them
\* afterwards and of products, which do not.
Larger == {NewLayer("Gemm", 2, 2, 2, 4, 1, 1, 1), NewLayer("Ineff_Dir_Gemm", 2, 2, 2, 4, 1, 1, 1),
           NewLayer("Conv", 2, 2, 2, 2, 1, 3, 1), NewLayer("Other", 2, 2, 1, 1, 1, 7, 1)}
Chains == {<<Place(Small, 1, NewSpace), Place(m, 2, Sequential), Place(Small, 3, ref)>> :
             m \in Larger, ref \in {Sequential, NewSpace, 1}}

\* Results on a result or an input of the first layer, or on the layer's own input.
Placed(ref) == [Place(Small, 2, NewSpace) EXCEPT !.ofmap = ref]
ByHand == {<<Place(l, 1, NewSpace), Placed(ref), Place(Small, 3, in)>> :
             l \in Cut \cup Others, ref \in {1, BOUNDARY + 1, BOUNDARY + 2}, in \in {Sequential, NewSpace}}

\* A tile has six cachelines, of two elements, of four and of one; twelve in the
\* wide core.
Core(width, size, unit, line, unit_compute) ==
  [systolic_width |-> width, systolic_height |-> 2, element_unit |-> unit,
   cacheline_size |-> line, unit_compute |-> unit_compute,
   tile_ifmap_size |-> size, tile_filter_size |-> size, tile_ofmap_size |-> size]

Cores == {Core(2, 4, 1, 2, 1), Core(2, 8, 1, 4, 2), Core(2, 4, 2, 2, 1),
          [Core(4, 4, 1, 1, 1) EXCEPT !.systolic_height = 4]}
VectorCores == {Core(1, 8, 2, 4, 2)}
MCArchs == Cores \cup VectorCores
MCNetworks ==
  Pairs \cup Triples \cup IneffPairs \cup GemvPairs \cup FirstVectors \cup Chains \cup ByHand
=============================================================================

------------------------------- MODULE MCPTW -------------------------------
(* PTW with three ways to share the walkers and two page table levels.      *)
EXTENDS PTW

PerNPU(x0, x1, x2) == [n \in NPU |-> CASE n = 0 -> x0 [] n = 1 -> x1 [] n = 2 -> x2]

\* Partitions that overlap.
Overlapping ==
  [init |-> PerNPU(1, 1, 2), upper |-> PerNPU(3, 2, 4), lower |-> PerNPU(0, 1, 1),
   returns |-> FALSE, tpreg |-> FALSE]

\* The return mode.
Returned ==
  [init |-> PerNPU(1, 2, 1), upper |-> PerNPU(2, 3, 4), lower |-> PerNPU(1, 1, 1),
   returns |-> TRUE, tpreg |-> FALSE]

\* The default, no partitions at all, with a path register.
Greedy ==
  [init |-> PerNPU(0, 0, 0), upper |-> PerNPU(0, 0, 0), lower |-> PerNPU(0, 0, 0),
   returns |-> FALSE, tpreg |-> TRUE]

MCConfs == {Overlapping, Returned, Greedy}

\* "p" and "q" share their root table.
MCPTN ==
  [v \in Page |-> [j \in Step |->
     CASE v = "p" -> 1 [] v = "q" -> j + 1]]
=============================================================================

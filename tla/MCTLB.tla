------------------------------- MODULE MCTLB -------------------------------
(* TLB with two walkers, shared greedily or in partitions that overlap.      *)
EXTENDS TLB

MCPerNPU(x0, x1) == [n \in NPU |-> IF n = 0 THEN x0 ELSE x1]

\* Either NPU may take both walkers, with a path register.
Greedy ==
  [init |-> MCPerNPU(0, 0), upper |-> MCPerNPU(0, 0), lower |-> MCPerNPU(0, 0),
   returns |-> FALSE, tpreg |-> TRUE]

\* One walker each; NPU 0 may take that of NPU 1.
Overlapping ==
  [init |-> MCPerNPU(1, 1), upper |-> MCPerNPU(2, 1), lower |-> MCPerNPU(1, 0),
   returns |-> FALSE, tpreg |-> FALSE]

MCConfs == {Greedy, Overlapping}

\* Pages 1 and 2 share their root table.
MCPTN == [v \in Page |-> [j \in 0 .. StepNum - 1 |-> IF j = 0 THEN v \div 3 + 1 ELSE v]]
=============================================================================

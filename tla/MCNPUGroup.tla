---------------------------- MODULE MCNPUGroup ----------------------------
(* Small workloads for NPUGroup: what the NPUs execute, when they start and  *)
(* how often they repeat it.                                                 *)
EXTENDS NPUGroup

MCAddrOf == [n \in NPU |-> {10 * n}]

TwoLayers == [n \in NPU |-> <<4, 2>>]
ShortLayers == [n \in NPU |-> IF n = 0 THEN <<2>> ELSE <<1, 1>>]

Compute13 == [n \in NPU |-> IF n = 0 THEN 1 ELSE 3]

\* NPU n starts in cycle s[n].
StartAt(s) == [n \in NPU |-> s[n + 1]]
AtOnce == {StartAt(<<0, 0>>)}
OneLate == {StartAt(<<0, 0>>), StartAt(<<0, 60>>)}
Staggered == {StartAt(<<6, 3>>), StartAt(<<0, 9>>)}

Once == [n \in NPU |-> 1]
RepeatBoth == [n \in NPU |-> IF n = 0 THEN -2 ELSE 2]

SameClock == [n \in NPU |-> 1]
SlowNPU == [n \in NPU |-> IF n = 0 THEN 2 ELSE 3]
=============================================================================

------------------------- MODULE CompletionService -------------------------
(***************************************************************************)
(* What the scheduler (npu_group.cpp) relies on when it calls              *)
(* popStallRequest: each NPU's requests complete one by one, the NPU is    *)
(* reported only when none is left, and only once per submission.  An NPU  *)
(* that is dismissed (markFinished) has submitted its last request, and    *)
(* whether it is still reported for it is left open.                       *)
(***************************************************************************)
EXTENDS Integers

CONSTANT NPU

VARIABLES
  outstanding,  \* per NPU, requests submitted and not completed
  owed,         \* per NPU, whether a report is due for what it submitted
  reported,     \* per NPU, flips with every report: no report goes unseen
  dismissed     \* NPUs that submit nothing any more

csvars == <<outstanding, owed, reported, dismissed>>

Init ==
  /\ outstanding = [n \in NPU |-> 0]
  /\ owed = [n \in NPU |-> FALSE]
  /\ reported = [n \in NPU |-> FALSE]
  /\ dismissed = {}

Submit(n) ==
  /\ n \notin dismissed
  /\ outstanding'[n] > outstanding[n]
  /\ outstanding' = [outstanding EXCEPT ![n] = outstanding'[n]]
  /\ owed' = [owed EXCEPT ![n] = TRUE]
  /\ UNCHANGED <<reported, dismissed>>

Complete(n) ==
  /\ outstanding[n] > 0
  /\ outstanding' = [outstanding EXCEPT ![n] = @ - 1]
  /\ UNCHANGED <<owed, reported, dismissed>>

Report(n) ==
  /\ owed[n] /\ outstanding[n] = 0
  /\ owed' = [owed EXCEPT ![n] = FALSE]
  /\ reported' = [reported EXCEPT ![n] = ~@]
  /\ UNCHANGED <<outstanding, dismissed>>

Dismiss(n) ==
  /\ outstanding[n] = 0
  /\ dismissed' = dismissed \cup {n}
  /\ UNCHANGED <<outstanding, owed, reported>>

Next == \E n \in NPU : Submit(n) \/ Complete(n) \/ Report(n) \/ Dismiss(n)

Spec == Init /\ [][Next]_csvars

\* Whoever is owed a report gets it.
Live == \A n \in NPU : owed[n] ~> ~owed[n] \/ n \in dismissed
=============================================================================

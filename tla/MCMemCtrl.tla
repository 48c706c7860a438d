----------------------------- MODULE MCMemCtrl -----------------------------
(* MemCtrl with a bounded client: MaxBatches batches in all, MaxTicks ticks *)
(* that are not popStallRequest's own.                                      *)
EXTENDS MemCtrl, TLC

CONSTANTS MaxBatches, MaxTicks

VARIABLES batches, ticks

mcvars == <<vars, batches, ticks>>

MCAddrOf == [n \in NPU |-> {a \in Addr : a \div 10 = n}]

MCInit == Init /\ batches = 0 /\ ticks = 0

MCSubmit(n) ==
  /\ batches < MaxBatches /\ Submit(n)
  /\ batches' = batches + 1 /\ UNCHANGED ticks

MCTick ==
  /\ ticks < MaxTicks /\ (SyncTick \/ KeepTick)
  /\ ticks' = ticks + 1 /\ UNCHANGED batches

\* popStallRequest ticks on for an NPU that was finished without its report: such
\* ticks are bounded like the others.
Unreported == \E n \in NPU \ finished : ~no_req[n] \/ tlbq[n] # {}
MCPopStall ==
  /\ PopStall /\ UNCHANGED batches
  /\ IF Unreported \/ pc' = "idle" THEN UNCHANGED ticks
                                  ELSE ticks < MaxTicks /\ ticks' = ticks + 1
MCRest == pc = "idle" /\ ~Unreported /\ ticks = MaxTicks /\ UNCHANGED mcvars

MCNext ==
  \/ MCTick \/ MCPopStall \/ MCRest
  \/ Inside /\ UNCHANGED <<batches, ticks>>
  \/ \E n \in NPU : MCSubmit(n)
  \/ (\E n \in NPU : MarkFinished(n)) /\ UNCHANGED <<batches, ticks>>

MCSafeSpec == MCInit /\ [][MCNext]_mcvars
MCSpec == MCSafeSpec /\ Fairness

MCSymmetry == Permutations(Tags)
=============================================================================

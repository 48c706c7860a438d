-------------------------------- MODULE PTW --------------------------------
(***************************************************************************)
(* The page table walkers (PTWManager in ptw.cpp) shared by the NPUs: which *)
(* walker serves a miss, how walkers change hands between the partitions,   *)
(* and the "return" mode that hands them all to an NPU that walks alone.    *)
(*                                                                         *)
(* Arrival ticks are not ordered: a TLB adds the wait for the entry that    *)
(* the miss replaces.                                                      *)
(***************************************************************************)
EXTENDS Integers, Sequences, FiniteSets

CONSTANTS
  NPUNum,      \* m_npu_num
  WalkerNum,   \* m_ptw_num
  Confs,       \* configurations of the walkers, see Conf
  Page,        \* virtual pages
  PTN,         \* per page: its page table number at each step, the root's first
  StepNum,     \* m_pt_step_num
  StepLatency, \* m_ptw_latency / m_pt_step_num
  MaxArrival,  \* bound on the ticks at which a walk arrives
  MaxTick      \* bound on the ticks at which a walk starts

NPU == 0 .. NPUNum - 1
Walker == 0 .. WalkerNum - 1
Nobody == NPUNum
Step == 0 .. StepNum - 1

ASSUME CountAssumption ==
  /\ NPUNum \in Nat \ {0} /\ WalkerNum \in Nat \ {0} /\ StepNum \in Nat \ {0}
  /\ StepLatency \in Nat /\ MaxArrival \in Nat /\ MaxTick \in Nat
ASSUME PageAssumption == PTN \in [Page -> [Step -> Nat]]

\* init: walkers assigned at the start, 0 for "full-dynamic"; upper, lower:
\* bounds of the partition; returns: m_return_ptw; tpreg: is there a
\* translation path register?
Conf ==
  [init : [NPU -> 0 .. WalkerNum], upper : [NPU -> 0 .. WalkerNum],
   lower : [NPU -> 0 .. WalkerNum], returns : BOOLEAN, tpreg : BOOLEAN]

ASSUME PartitionAssumption ==
  /\ Confs \subseteq Conf
  /\ \A c \in Confs, n \in NPU :
       c.init[n] > 0 => c.lower[n] <= c.init[n] /\ c.init[n] <= c.upper[n]

VARIABLES
  conf,    \* the configuration of this simulation, never assigned again
  clock,   \* m_ptw_clock: when a walker is free again
  belong,  \* m_ptw_belong
  occ,     \* m_ptw_occupation
  upper,   \* m_npu_partition_upper
  lower,   \* m_npu_partition_lower
  history, \* m_history: the NPUs of the last walks
  tpreg    \* m_tpreg: the path of the last walk

vars == <<conf, clock, belong, occ, upper, lower, history, tpreg>>

WalkerInit == conf.init
WalkerUpper == conf.upper
WalkerLower == conf.lower
ReturnPTW == conf.returns
TPReg == conf.tpreg

Owned(n) == {w \in Walker : belong[w] = n}

\* setPartition is called for the NPUs with an initial partition only; with
\* none at all the walkers are shared greedily and nobody owns any.
Partitioned == \E n \in NPU : WalkerInit[n] > 0
Returning == ReturnPTW /\ Partitioned

-----------------------------------------------------------------------------
\* Operators named X_Fault are X with one plausible mistake in it.
MayTake_AtLower(n, w) ==
  /\ occ[n] < upper[n]
  /\ belong[w] # Nobody => occ[belong[w]] >= lower[belong[w]]

\* A walker may be taken from an NPU that holds more than its lower bound.
MayTake(n, w) ==
  /\ occ[n] < upper[n]
  /\ belong[w] # Nobody => occ[belong[w]] > lower[belong[w]]

Usable(n) == {w \in Walker : ~Partitioned \/ belong[w] = n \/ MayTake(n, w)}

\* The first of the usable walkers that are free earliest.
Earliest(W, w) ==
  /\ w \in W
  /\ \A x \in W : clock[w] < clock[x] \/ (clock[w] = clock[x] /\ w <= x)

\* The steps from the first one whose table number is not registered.
StepsLeft(v) ==
  {i \in Step : ~TPReg \/ \E j \in Step : j <= i /\ tpreg[j] # PTN[v][j]}

Occupied_NoRelease(n, w) ==
  [m \in NPU |-> IF m = n /\ belong[w] # n THEN occ[m] + 1 ELSE occ[m]]
Occupied(n, w) ==
  [m \in NPU |-> IF belong[w] = n THEN occ[m]
                 ELSE IF m = n THEN occ[m] + 1
                 ELSE IF m = belong[w] THEN occ[m] - 1
                 ELSE occ[m]]

\* Every NPU's part once several of them walk.
Share_Swapped == NPUNum \div WalkerNum
Share == WalkerNum \div NPUNum

Hetero(n) == \E i \in DOMAIN history : history[i] # n

Take(n, w) ==
  /\ occ' = Occupied(n, w)
  /\ belong' = [belong EXCEPT ![w] = n]

\* "get all occupancy"
TakeAll(n) ==
  /\ occ' = [m \in NPU |-> IF m = n THEN WalkerNum ELSE 0]
  /\ belong' = [w \in Walker |-> n]

\* When the walk that arrives at tick t begins: the walker may be busy.
Begin_OnArrival(w, t) == t
Begin(w, t) == IF clock[w] >= t THEN clock[w] ELSE t

Remember(n) ==
  history' = Append(IF Len(history) = WalkerNum THEN Tail(history) ELSE history, n)

ReturnMode(n, w) ==
  /\ IF Hetero(n)
       THEN /\ Take(n, w)
            /\ upper' = [m \in NPU |-> Share] /\ lower' = [m \in NPU |-> Share]
       ELSE TakeAll(n) /\ UNCHANGED <<upper, lower>>
  /\ Remember(n)

\* access: NPU n misses page v at tick t.
Access(n, v, t) ==
  \E w \in Walker :
    /\ Earliest(Usable(n), w) /\ clock[w] <= MaxTick
    /\ clock' = [clock EXCEPT ![w] = Begin(w, t) + StepLatency * Cardinality(StepsLeft(v))]
    /\ tpreg' = IF TPReg THEN PTN[v] ELSE tpreg
    /\ UNCHANGED conf
    /\ \/ Returning /\ ReturnMode(n, w)
       \/ Partitioned /\ ~Returning /\ Take(n, w) /\ UNCHANGED <<upper, lower, history>>
       \/ ~Partitioned /\ UNCHANGED <<belong, occ, upper, lower, history>>

\* setPartition gives each NPU the walkers after those of the NPUs before it.
Init ==
  /\ conf \in Confs
  /\ clock = [w \in Walker |-> 0]
  /\ belong \in [Walker -> NPU \cup {Nobody}]
  /\ \A w, x \in Walker : w <= x => belong[w] <= belong[x]
  /\ \A n \in NPU : Cardinality(Owned(n)) = WalkerInit[n]
  /\ occ = WalkerInit
  /\ upper = [n \in NPU |-> IF WalkerInit[n] = 0 THEN 0
                            ELSE IF ReturnPTW THEN WalkerNum ELSE WalkerUpper[n]]
  /\ lower = [n \in NPU |-> IF WalkerInit[n] = 0 \/ ReturnPTW THEN 0 ELSE WalkerLower[n]]
  /\ history = <<>>
  /\ tpreg = [i \in Step |-> 0]

Next == \E n \in NPU, v \in Page, t \in 0 .. MaxArrival : Access(n, v, t)

Spec == Init /\ [][Next]_vars
-----------------------------------------------------------------------------
TypeOK ==
  /\ conf \in Confs
  /\ clock \in [Walker -> Nat]
  /\ belong \in [Walker -> NPU \cup {Nobody}]
  /\ occ \in [NPU -> 0 .. WalkerNum]
  /\ upper \in [NPU -> 0 .. WalkerNum] /\ lower \in [NPU -> 0 .. WalkerNum]
  /\ history \in Seq(NPU) /\ Len(history) <= WalkerNum
  /\ tpreg \in [Step -> Nat]

\* The counters that access() decides by agree with the owners it records,
\* through every theft, every return and every take-over.
OccupationExact == \A n \in NPU : occ[n] = Cardinality(Owned(n))

\* access() finds a walker for every NPU (m_ptw_clock is never indexed with
\* -1), when each NPU has a partition and, in the return mode, there is a walker for each.
WalkerFound ==
  (\A n \in NPU : WalkerInit[n] > 0) /\ (ReturnPTW => WalkerNum >= NPUNum)
    => \A n \in NPU : Usable(n) # {}

\* An NPU keeps at least its lower bound of walkers and holds at most its
\* upper bound, whatever the others take.
ShareGuaranteed ==
  ~ReturnPTW => \A n \in NPU : WalkerInit[n] > 0 =>
    WalkerLower[n] <= Cardinality(Owned(n)) /\ Cardinality(Owned(n)) <= WalkerUpper[n]
=============================================================================

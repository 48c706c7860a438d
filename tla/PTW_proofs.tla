----------------------------- MODULE PTW_proofs -----------------------------
(***************************************************************************)
(* The walkers' partitions for any number of NPUs and walkers and any        *)
(* bounds: the counters agree with the owners, and every NPU keeps its       *)
(* share.                                                                  *)
(***************************************************************************)
EXTENDS PTW, FiniteSetTheorems, WellFoundedInduction, TLAPS

\* The bounds stay what setPartition made them unless walkers are returned.
Bounded ==
  ~ReturnPTW => \A n \in NPU :
    /\ upper[n] = IF WalkerInit[n] = 0 THEN 0 ELSE WalkerUpper[n]
    /\ lower[n] = IF WalkerInit[n] = 0 THEN 0 ELSE WalkerLower[n]
    /\ lower[n] <= occ[n] /\ occ[n] <= upper[n]

IInv == TypeOK /\ OccupationExact /\ Bounded

\* There are finitely many walkers, WalkerNum of them.
LEMMA Walkers ==
  /\ IsFiniteSet(Walker) /\ Cardinality(Walker) = WalkerNum
  /\ \A S \in SUBSET Walker : IsFiniteSet(S) /\ Cardinality(S) \in 0 .. WalkerNum
  <1>1. WalkerNum - 1 \in Int /\ 0 <= WalkerNum
    BY CountAssumption
  <1>2. IsFiniteSet(Walker) /\ Cardinality(Walker) = WalkerNum
    BY <1>1, FS_Interval, CountAssumption DEF Walker
  <1>3. ASSUME NEW S \in SUBSET Walker
        PROVE  IsFiniteSet(S) /\ Cardinality(S) \in 0 .. WalkerNum
    BY <1>2, FS_Subset, FS_CardinalityType, CountAssumption
  <1> QED
    BY <1>2, <1>3

\* A walk takes some number of ticks.
LEMMA WalkTime == \A v \in Page : StepLatency * Cardinality(StepsLeft(v)) \in Nat
  <1> SUFFICES ASSUME NEW v \in Page PROVE StepLatency * Cardinality(StepsLeft(v)) \in Nat
    OBVIOUS
  <1>1. IsFiniteSet(Step)
    BY FS_Interval, CountAssumption DEF Step
  <1>2. StepsLeft(v) \subseteq Step
    BY DEF StepsLeft
  <1>3. Cardinality(StepsLeft(v)) \in Nat
    BY <1>1, <1>2, FS_Subset, FS_CardinalityType
  <1>4. StepLatency \in Nat
    BY CountAssumption
  <1> QED
    BY <1>3, <1>4

\* The counters follow when one walker changes hands.
LEMMA TakeCounts ==
  ASSUME TypeOK, OccupationExact, NEW n \in NPU, NEW w \in Walker, Take(n, w)
  PROVE  /\ belong' \in [Walker -> NPU \cup {Nobody}]
         /\ OccupationExact' /\ occ' \in [NPU -> 0 .. WalkerNum]
  <1>1. belong' \in [Walker -> NPU \cup {Nobody}]
    BY DEF Take, TypeOK
  <1>2. ASSUME NEW m \in NPU
        PROVE  occ'[m] = Cardinality(Owned(m)')
    <2>1. IsFiniteSet(Owned(m)) /\ occ[m] = Cardinality(Owned(m)) /\ occ[m] \in Nat
      BY Walkers DEF Owned, OccupationExact, TypeOK
    <2>2. CASE belong[w] = n
      BY <2>1, <2>2 DEF Take, Occupied, Owned, TypeOK
    <2>3. CASE belong[w] # n /\ m = n
      <3>1. Owned(m)' = Owned(m) \cup {w} /\ w \notin Owned(m)
        BY <2>3 DEF Take, Owned, TypeOK
      <3>2. Cardinality(Owned(m)') = Cardinality(Owned(m)) + 1
        BY <2>1, <3>1, FS_AddElement
      <3> QED
        BY <2>1, <2>3, <3>2 DEF Take, Occupied
    <2>4. CASE belong[w] # n /\ m # n /\ m = belong[w]
      <3>1. Owned(m)' = Owned(m) \ {w} /\ w \in Owned(m)
        BY <2>4 DEF Take, Owned, TypeOK
      <3>2. Cardinality(Owned(m)') = Cardinality(Owned(m)) - 1
        BY <2>1, <3>1, FS_RemoveElement
      <3> QED
        BY <2>1, <2>4, <3>2 DEF Take, Occupied
    <2>5. CASE belong[w] # n /\ m # n /\ m # belong[w]
      <3>1. Owned(m)' = Owned(m)
        BY <2>5 DEF Take, Owned, TypeOK
      <3> QED
        BY <2>1, <2>5, <3>1 DEF Take, Occupied
    <2> QED
      BY <2>2, <2>3, <2>4, <2>5
  <1>3. OccupationExact'
    BY <1>2 DEF OccupationExact
  <1>4. \A m \in NPU : Cardinality(Owned(m)') \in 0 .. WalkerNum
    BY Walkers DEF Owned
  <1>5. occ' = [m \in NPU |-> occ'[m]]
    BY DEF Take, Occupied
  <1> QED
    BY <1>1, <1>2, <1>3, <1>4, <1>5

\* The counters follow when one NPU gets all walkers.
LEMMA TakeAllCounts ==
  ASSUME NEW n \in NPU, TakeAll(n)
  PROVE  /\ belong' \in [Walker -> NPU \cup {Nobody}]
         /\ OccupationExact' /\ occ' \in [NPU -> 0 .. WalkerNum]
  <1>1. Owned(n)' = Walker /\ \A m \in NPU \ {n} : Owned(m)' = {}
    BY DEF TakeAll, Owned
  <1>2. OccupationExact'
    BY <1>1, Walkers, FS_EmptySet DEF OccupationExact, TakeAll
  <1> QED
    BY <1>2, CountAssumption DEF TakeAll
\* Both ways of taking walkers keep the counters exact; without the return
\* mode the occupations stay within the bounds.
LEMMA AccessCounts ==
  ASSUME IInv, NEW n \in NPU, NEW v \in Page, NEW t \in 0 .. MaxArrival, Access(n, v, t)
  PROVE  IInv'
  <1> USE DEF IInv
  <1>1. PICK w \in Walker :
          /\ Earliest(Usable(n), w)
          /\ clock' = [clock EXCEPT ![w] = (IF clock[w] >= t THEN clock[w] ELSE t)
                                            + StepLatency * Cardinality(StepsLeft(v))]
          /\ tpreg' = IF TPReg THEN PTN[v] ELSE tpreg
          /\ conf' = conf
          /\ \/ Returning /\ ReturnMode(n, w)
             \/ Partitioned /\ ~Returning /\ Take(n, w) /\ UNCHANGED <<upper, lower, history>>
             \/ ~Partitioned /\ UNCHANGED <<belong, occ, upper, lower, history>>
    BY DEF Access, Begin
  <1>2. clock' \in [Walker -> Nat]
    <2>1. StepLatency * Cardinality(StepsLeft(v)) \in Nat
      BY WalkTime
    <2>2. t \in Nat /\ clock \in [Walker -> Nat]
      BY CountAssumption DEF TypeOK
    <2> QED
      BY <1>1, <2>1, <2>2
  <1>3. tpreg' \in [Step -> Nat]
    BY <1>1, PageAssumption DEF TypeOK
  <1>4. CASE Returning /\ ReturnMode(n, w)
    <2>1. ReturnPTW
      BY <1>4 DEF Returning
    <2>2. /\ belong' \in [Walker -> NPU \cup {Nobody}]
          /\ OccupationExact' /\ occ' \in [NPU -> 0 .. WalkerNum]
      BY <1>4, TakeCounts, TakeAllCounts DEF ReturnMode
    <2>3. upper' \in [NPU -> 0 .. WalkerNum] /\ lower' \in [NPU -> 0 .. WalkerNum]
      <3>1. Share \in 0 .. WalkerNum
        BY CountAssumption DEF Share
      <3> QED
        BY <1>4, <3>1 DEF ReturnMode, TypeOK
    <2>4. history' \in Seq(NPU) /\ Len(history') <= WalkerNum
      <3> DEFINE h == IF Len(history) = WalkerNum THEN Tail(history) ELSE history
      <3>1. history \in Seq(NPU) /\ Len(history) <= WalkerNum /\ WalkerNum \in Nat \ {0}
        BY CountAssumption DEF TypeOK
      <3>2. h \in Seq(NPU) /\ Len(h) < WalkerNum
        <4>1. CASE Len(history) = WalkerNum
          <5>1. history # <<>>
            BY <3>1, <4>1
          <5> QED
            BY <3>1, <4>1, <5>1
        <4>2. CASE Len(history) # WalkerNum
          BY <3>1, <4>2
        <4> QED
          BY <4>1, <4>2
      <3>3. history' = Append(h, n)
        BY <1>4 DEF ReturnMode, Remember
      <3> HIDE DEF h
      <3> QED
        BY <3>1, <3>2, <3>3
    <2> QED
      BY <1>1, <1>2, <1>3, <2>1, <2>2, <2>3, <2>4 DEF TypeOK, Bounded, ReturnPTW
  <1>5. CASE Partitioned /\ ~Returning /\ Take(n, w) /\ UNCHANGED <<upper, lower, history>>
    <2>1. /\ belong' \in [Walker -> NPU \cup {Nobody}]
          /\ OccupationExact' /\ occ' \in [NPU -> 0 .. WalkerNum]
      BY <1>5, TakeCounts
    <2>2. belong[w] = n \/ MayTake(n, w)
      BY <1>1, <1>5 DEF Earliest, Usable
    <2>3. ASSUME ~ReturnPTW, NEW m \in NPU
          PROVE  lower[m] <= occ'[m] /\ occ'[m] <= upper[m]
      <3>1. /\ lower[m] <= occ[m] /\ occ[m] <= upper[m]
            /\ lower[m] \in Nat /\ occ[m] \in Nat /\ upper[m] \in Nat
        BY <2>3 DEF Bounded, TypeOK
      <3>2. Nobody \notin NPU
        BY CountAssumption DEF Nobody, NPU
      <3>3. CASE belong[w] = n
        BY <1>5, <3>1, <3>3 DEF Take, Occupied
      <3>4. CASE belong[w] # n /\ m = n
        BY <1>5, <2>2, <3>1, <3>4 DEF Take, Occupied, MayTake
      <3>5. CASE belong[w] # n /\ m # n /\ m = belong[w]
        BY <1>5, <2>2, <3>1, <3>2, <3>5 DEF Take, Occupied, MayTake
      <3>6. CASE belong[w] # n /\ m # n /\ m # belong[w]
        BY <1>5, <3>1, <3>6 DEF Take, Occupied
      <3> QED
        BY <3>3, <3>4, <3>5, <3>6
    <2>4. TypeOK'
      BY <1>1, <1>2, <1>3, <1>5, <2>1 DEF TypeOK
    <2>5. Bounded'
      BY <1>1, <1>5, <2>3
      DEF Bounded, ReturnPTW, WalkerInit, WalkerUpper, WalkerLower
    <2> QED
      BY <2>1, <2>4, <2>5
  <1>6. CASE ~Partitioned /\ UNCHANGED <<belong, occ, upper, lower, history>>
    BY <1>1, <1>2, <1>3, <1>6
    DEF TypeOK, OccupationExact, Bounded, Owned, ReturnPTW, WalkerInit, WalkerUpper, WalkerLower
  <1> QED
    BY <1>1, <1>4, <1>5, <1>6

\* The invariant is inductive.
LEMMA Inductive == Spec => []IInv
  <1>1. Init => IInv
    <2> SUFFICES ASSUME Init PROVE IInv
      OBVIOUS
    <2>1. /\ WalkerInit \in [NPU -> 0 .. WalkerNum] /\ WalkerNum \in Nat
          /\ WalkerUpper \in [NPU -> 0 .. WalkerNum] /\ WalkerLower \in [NPU -> 0 .. WalkerNum]
      BY PartitionAssumption, CountAssumption
      DEF Init, Conf, WalkerInit, WalkerUpper, WalkerLower
    <2>2. OccupationExact
      BY DEF Init, OccupationExact
    <2>3. clock \in [Walker -> Nat] /\ tpreg \in [Step -> Nat]
      BY DEF Init
    <2>4. upper \in [NPU -> 0 .. WalkerNum] /\ lower \in [NPU -> 0 .. WalkerNum]
      BY <2>1 DEF Init
    <2>5. history \in Seq(NPU) /\ Len(history) <= WalkerNum
      BY <2>1 DEF Init
    <2>6. TypeOK
      BY <2>1, <2>3, <2>4, <2>5 DEF Init, TypeOK
    <2>7. Bounded
      BY <2>1, PartitionAssumption
      DEF Init, Bounded, WalkerInit, WalkerUpper, WalkerLower, ReturnPTW
    <2> QED
      BY <2>2, <2>6, <2>7 DEF IInv
  <1>2. IInv /\ [Next]_vars => IInv'
    <2> SUFFICES ASSUME IInv, [Next]_vars PROVE IInv'
      OBVIOUS
    <2>1. CASE Next
      BY <2>1, AccessCounts DEF Next
    <2>2. CASE UNCHANGED vars
      BY <2>2 DEF vars, IInv, TypeOK, OccupationExact, Bounded, Owned,
                  ReturnPTW, WalkerInit, WalkerUpper, WalkerLower
    <2> QED
      BY <2>1, <2>2
  <1> QED
    BY <1>1, <1>2, PTL DEF Spec

\* Every variable keeps its type, for every number of NPUs and walkers; in
\* particular the counters never leave 0 .. m_ptw_num.
THEOREM TypeCorrect == Spec => []TypeOK
  <1>1. IInv => TypeOK
    BY DEF IInv
  <1> QED
    BY <1>1, Inductive, PTL

\* m_ptw_occupation counts the walkers that m_ptw_belong gives to each NPU.
THEOREM OccupationCorrect == Spec => []OccupationExact
  <1>1. IInv => OccupationExact
    BY DEF IInv
  <1> QED
    BY <1>1, Inductive, PTL

\* No sequence of walks takes an NPU below its lower or above its upper bound.
THEOREM ShareCorrect == Spec => []ShareGuaranteed
  <1>1. IInv => ShareGuaranteed
    BY DEF IInv, OccupationExact, Bounded, ShareGuaranteed
  <1> QED
    BY <1>1, Inductive, PTL

-----------------------------------------------------------------------------
(* A walker for every miss.  If NPU n may take none, the others hold all of *)
(* them and none of them more than its part, which leaves out that of n.    *)

LEMMA SomeLeast ==
  ASSUME NEW S \in SUBSET Nat, S # {}
  PROVE  \E x \in S : \A y \in S : x <= y
  <1> DEFINE R == OpToRel(<, Nat)
  <1>1. IsWellFoundedOn(R, Nat)
    BY NatLessThanWellFounded
  <1>2. \A m, n \in Nat : m < n => <<m, n>> \in R
    BY DEF OpToRel
  <1> HIDE DEF R
  <1>3. PICK x \in S : \A y \in S : ~(<<y, x>> \in R)
    BY <1>1, WFMin
  <1>4. ASSUME NEW y \in S PROVE x <= y
    <2>1. x \in Nat /\ y \in Nat /\ ~(y < x)
      BY <1>2, <1>3
    <2> QED
      BY <2>1
  <1> QED
    BY <1>4

\* Sets that are no larger than disjoint sets of walkers, and empty for one of
\* these that is not, leave a walker out.
LEMMA Pigeons ==
  ASSUME NEW A \in [NPU -> SUBSET Walker], NEW B \in [NPU -> SUBSET Walker], NEW n \in NPU,
         \A l, m \in NPU : l # m => B[l] \cap B[m] = {},
         \A m \in NPU : Cardinality(A[m]) <= Cardinality(B[m]),
         A[n] = {}, B[n] # {}
  PROVE  \E w \in Walker : \A m \in NPU : w \notin A[m]
  <1> DEFINE UA(k) == UNION {A[m] : m \in 0 .. k - 1}
             UB(k) == UNION {B[m] : m \in 0 .. k - 1}
             P(k) == /\ Cardinality(UA(k)) <= Cardinality(UB(k))
                     /\ n < k => Cardinality(UA(k)) < Cardinality(UB(k))
             bad == {k \in 0 .. NPUNum : ~P(k)}
  <1>1. \A k \in 0 .. NPUNum : UA(k) \in SUBSET Walker /\ UB(k) \in SUBSET Walker
    BY CountAssumption DEF NPU
  <1>2. \A S \in SUBSET Walker : IsFiniteSet(S) /\ Cardinality(S) \in 0 .. WalkerNum
    BY Walkers
  <1>3. P(0)
    <2>1. UA(0) = {} /\ UB(0) = {}
      OBVIOUS
    <2>2. n \in Nat
      BY CountAssumption DEF NPU
    <2> QED
      BY <2>1, <2>2, FS_EmptySet
  <1>4. ASSUME NEW j \in NPU, P(j) PROVE P(j + 1)
    <2>1. j \in 0 .. NPUNum /\ j + 1 \in 0 .. NPUNum /\ n \in Nat /\ j \in Nat
      BY CountAssumption DEF NPU
    <2>2. UA(j + 1) = UA(j) \cup A[j] /\ UB(j + 1) = UB(j) \cup B[j]
      <3>1. 0 .. (j + 1) - 1 = (0 .. j - 1) \cup {j}
        BY <2>1
      <3> QED
        BY <3>1
    <2>3. UB(j) \cap B[j] = {}
      <3>1. \A m \in 0 .. j - 1 : m \in NPU /\ m # j
        BY <2>1, CountAssumption DEF NPU
      <3> QED
        BY <3>1
    <2> DEFINE a == UA(j)
               b == UB(j)
    <2>4. a \in SUBSET Walker /\ b \in SUBSET Walker
      BY <1>1, <2>1
    <2> HIDE DEF a, b
    <2>5. Cardinality(a \cup A[j]) <= Cardinality(a) + Cardinality(A[j])
      <3>1. /\ IsFiniteSet(a) /\ IsFiniteSet(A[j])
            /\ Cardinality(a) \in Nat /\ Cardinality(A[j]) \in Nat
            /\ Cardinality(a \cap A[j]) \in Nat
        BY <1>2, <2>4, CountAssumption
      <3>2. Cardinality(a \cup A[j])
              = Cardinality(a) + Cardinality(A[j]) - Cardinality(a \cap A[j])
        BY <3>1, FS_Union
      <3> QED
        BY <3>1, <3>2
    <2>6. Cardinality(b \cup B[j]) = Cardinality(b) + Cardinality(B[j])
      <3>1. /\ IsFiniteSet(b) /\ IsFiniteSet(B[j])
            /\ Cardinality(b) \in Nat /\ Cardinality(B[j]) \in Nat
        BY <1>2, <2>4, CountAssumption
      <3>2. b \cap B[j] = {}
        BY <2>3 DEF b
      <3>3. Cardinality(b \cap B[j]) = 0
        BY <3>2, FS_EmptySet
      <3>4. Cardinality(b \cup B[j])
              = Cardinality(b) + Cardinality(B[j]) - Cardinality(b \cap B[j])
        BY <3>1, FS_Union
      <3> QED
        BY <3>1, <3>3, <3>4
    <2>7. /\ Cardinality(a) \in Nat /\ Cardinality(A[j]) \in Nat
          /\ Cardinality(b) \in Nat /\ Cardinality(B[j]) \in Nat
          /\ Cardinality(a \cup A[j]) \in Nat
      BY <1>2, <2>4, CountAssumption
    <2>8. Cardinality(A[j]) <= Cardinality(B[j])
      OBVIOUS
    <2>9. j = n => Cardinality(A[j]) = 0 /\ Cardinality(B[j]) # 0
      BY <1>2, FS_EmptySet
    <2>10. /\ Cardinality(a) <= Cardinality(b)
           /\ n < j => Cardinality(a) < Cardinality(b)
      BY <1>4 DEF a, b
    <2>11. /\ Cardinality(a \cup A[j]) <= Cardinality(b \cup B[j])
           /\ n < j + 1 => Cardinality(a \cup A[j]) < Cardinality(b \cup B[j])
      BY <2>1, <2>5, <2>6, <2>7, <2>8, <2>9, <2>10
    <2> QED
      BY <2>2, <2>11 DEF a, b
  <1> HIDE DEF P
  <1>5. bad = {}
    <2> SUFFICES ASSUME bad # {} PROVE FALSE
      OBVIOUS
    <2>1. bad \in SUBSET Nat
      OBVIOUS
    <2>2. PICK k \in bad : \A y \in bad : k <= y
      <3> HIDE DEF bad
      <3> QED
        BY <2>1, SomeLeast
    <2>3. k # 0 /\ k - 1 \in NPU /\ k - 1 \notin bad /\ k - 1 \in 0 .. NPUNum
      BY <1>3, <2>2, CountAssumption DEF NPU
    <2>4. P(k - 1)
      BY <2>3
    <2>5. P((k - 1) + 1)
      BY <1>4, <2>3, <2>4
    <2>6. (k - 1) + 1 = k
      BY <2>2
    <2> QED
      BY <2>2, <2>5, <2>6
  <1>6. Cardinality(UA(NPUNum)) < Cardinality(UB(NPUNum))
    <2>1. NPUNum \in 0 .. NPUNum /\ n < NPUNum
      BY CountAssumption DEF NPU
    <2>2. P(NPUNum)
      BY <1>5, <2>1
    <2> QED
      BY <2>1, <2>2 DEF P
  <1>7. UA(NPUNum) # Walker
    <2>1. NPUNum \in 0 .. NPUNum
      BY CountAssumption
    <2>2. /\ Cardinality(UB(NPUNum)) \in 0 .. WalkerNum
          /\ Cardinality(UA(NPUNum)) \in 0 .. WalkerNum
      BY <1>1, <1>2, <2>1
    <2> HIDE DEF UA, UB
    <2> QED
      BY <1>6, <2>2, Walkers, CountAssumption
  <1>8. PICK w \in Walker : w \notin UA(NPUNum)
    <2>1. UA(NPUNum) \in SUBSET Walker
      BY <1>1, CountAssumption
    <2> QED
      BY <1>7, <2>1
  <1> QED
    BY <1>8 DEF NPU

AllHave == \A n \in NPU : WalkerInit[n] > 0

\* The parts that setPartition gave out, or an equal share each.
Parts(B, size) ==
  /\ B \in [NPU -> SUBSET Walker]
  /\ \A l, m \in NPU : l # m => B[l] \cap B[m] = {}
  /\ \A m \in NPU : Cardinality(B[m]) = size[m]

\* What the return mode makes of the bounds, before and after several walk.
Returned ==
  ReturnPTW /\ AllHave =>
    \/ \A n \in NPU : upper[n] = WalkerNum /\ lower[n] = 0
    \/ \A n \in NPU : upper[n] = Share /\ lower[n] = Share

WInv == IInv /\ Returned /\ \E B : Parts(B, WalkerInit)

LEMMA WalkersInductive == Spec => []WInv
  <1>1. Init => Returned /\ \E B : Parts(B, WalkerInit)
    <2> SUFFICES ASSUME Init PROVE Returned /\ \E B : Parts(B, WalkerInit)
      OBVIOUS
    <2>1. WalkerInit \in [NPU -> 0 .. WalkerNum]
      BY PartitionAssumption DEF Init, Conf, WalkerInit
    <2>2. Returned
      BY <2>1 DEF Init, Returned, AllHave
    <2> DEFINE B == [m \in NPU |-> Owned(m)]
    <2>3. Parts(B, WalkerInit)
      BY DEF Init, Parts, Owned
    <2> QED
      BY <2>2, <2>3
  <1>2. (Returned /\ \E B : Parts(B, WalkerInit)) /\ [Next]_vars
          => (Returned /\ \E B : Parts(B, WalkerInit))'
    <2> SUFFICES ASSUME Returned, [Next]_vars, \E B : Parts(B, WalkerInit)
                 PROVE  Returned' /\ (\E B : Parts(B, WalkerInit))'
      OBVIOUS
    <2>1. UNCHANGED conf
      BY DEF Next, Access, vars
    <2>2. (\E B : Parts(B, WalkerInit))'
      BY <2>1 DEF Parts, WalkerInit
    <2>3. \/ UNCHANGED <<upper, lower>>
          \/ upper' = [m \in NPU |-> Share] /\ lower' = [m \in NPU |-> Share]
      BY DEF Next, Access, ReturnMode, vars
    <2>4. Returned'
      BY <2>1, <2>3 DEF Returned, ReturnPTW, AllHave, WalkerInit
    <2> QED
      BY <2>2, <2>4
  <1> QED
    BY <1>1, <1>2, Inductive, PTL DEF Spec, WInv

\* Without a usable walker, NPU n has none, and the others have them all.
LEMMA NothingUsable ==
  ASSUME IInv, AllHave, NEW n \in NPU, Usable(n) = {}
  PROVE  /\ Owned(n) = {} /\ occ[n] = 0
         /\ occ[n] < upper[n] =>
              \A w \in Walker : belong[w] \in NPU /\ occ[belong[w]] <= lower[belong[w]]
  <1>1. Partitioned
    BY DEF Partitioned, AllHave
  <1>2. \A w \in Walker : belong[w] # n /\ ~MayTake(n, w)
    BY <1>1 DEF Usable
  <1>3. Owned(n) = {}
    BY <1>2 DEF Owned
  <1>4. occ[n] = 0
    BY <1>3, FS_EmptySet DEF IInv, OccupationExact
  <1>5. ASSUME occ[n] < upper[n], NEW w \in Walker
        PROVE  belong[w] \in NPU /\ occ[belong[w]] <= lower[belong[w]]
    <2>1. belong[w] # Nobody /\ ~(occ[belong[w]] > lower[belong[w]])
      BY <1>2, <1>5 DEF MayTake
    <2>2. belong[w] \in NPU
      BY <2>1 DEF IInv, TypeOK
    <2>3. occ[belong[w]] \in Nat /\ lower[belong[w]] \in Nat
      BY <2>2, CountAssumption DEF IInv, TypeOK
    <2> QED
      BY <2>1, <2>2, <2>3
  <1> QED
    BY <1>3, <1>4, <1>5

\* If everybody's walkers are no more than parts that leave some to NPU n, there
\* is a walker that belongs to nobody.
LEMMA NotAllOwned ==
  ASSUME TypeOK, NEW B, NEW size, Parts(B, size), NEW n \in NPU, Owned(n) = {},
         size[n] \in Nat \ {0}, \A m \in NPU : Cardinality(Owned(m)) <= size[m]
  PROVE  \E w \in Walker : belong[w] \notin NPU
  <1> DEFINE A == [m \in NPU |-> Owned(m)]
  <1>1. /\ A \in [NPU -> SUBSET Walker] /\ B \in [NPU -> SUBSET Walker]
        /\ \A l, m \in NPU : l # m => B[l] \cap B[m] = {}
    BY DEF Owned, Parts
  <1>2. \A m \in NPU : Cardinality(A[m]) <= Cardinality(B[m])
    BY DEF Parts
  <1>3. A[n] = {} /\ B[n] # {}
    BY FS_EmptySet DEF Parts
  <1>4. \A m \in NPU : A[m] = Owned(m)
    OBVIOUS
  <1> HIDE DEF A
  <1>5. PICK w \in Walker : \A m \in NPU : w \notin A[m]
    BY <1>1, <1>2, <1>3, Pigeons
  <1> QED
    BY <1>4, <1>5 DEF Owned

\* Equal shares of the walkers, one NPU's after the other's.
LEMMA EqualParts ==
  \E B : Parts(B, [m \in NPU |-> Share])
  <1>1. Share \in Nat /\ NPUNum \in Nat /\ WalkerNum \in Nat /\ NPUNum * Share <= WalkerNum
    BY CountAssumption DEF Share
  <1>2. \A l, m \in Nat : l < m => l * Share + Share <= m * Share
    <2> SUFFICES ASSUME NEW l \in Nat, NEW m \in Nat, l < m
                 PROVE  l * Share + Share <= m * Share
      OBVIOUS
    <2>1. PICK d \in Nat : m = l + 1 + d
      <3>1. m - l - 1 \in Nat /\ m = l + 1 + (m - l - 1)
        OBVIOUS
      <3> QED
        BY <3>1
    <2> DEFINE sh == Share
    <2>2. sh \in Nat
      BY <1>1
    <2> HIDE DEF sh
    <2>3. (l + 1 + d) * sh = l * sh + sh + d * sh /\ d * sh \in Nat /\ l * sh \in Nat
      BY <2>2
    <2>4. l * sh + sh <= m * sh
      BY <2>1, <2>2, <2>3
    <2> QED
      BY <2>4 DEF sh
  <1> DEFINE first(m) == m * Share
             B == [m \in NPU |-> first(m) .. first(m) + Share - 1]
  <1>3. \A m \in NPU : first(m) \in Nat /\ first(m) + Share <= WalkerNum
    <2>1. ASSUME NEW m \in NPU PROVE first(m) \in Nat /\ first(m) + Share <= WalkerNum
      <3>1. m \in Nat /\ m < NPUNum
        BY <1>1 DEF NPU
      <3>2. m * Share + Share <= NPUNum * Share /\ m * Share \in Nat
        BY <1>1, <1>2, <3>1
      <3> QED
        BY <1>1, <3>1, <3>2
    <2> QED
      BY <2>1
  <1>4. \A l, m \in NPU : l < m => first(l) + Share <= first(m)
    BY <1>2, CountAssumption DEF NPU
  <1> HIDE DEF first
  <1>5. B \in [NPU -> SUBSET Walker]
    BY <1>1, <1>3 DEF Walker
  <1>6. ASSUME NEW l \in NPU, NEW m \in NPU, l # m PROVE B[l] \cap B[m] = {}
    <2>1. l < m \/ m < l
      BY <1>6, CountAssumption DEF NPU
    <2> QED
      BY <1>1, <1>3, <1>4, <2>1
  <1>7. ASSUME NEW m \in NPU PROVE Cardinality(B[m]) = Share
    <2>1. first(m) \in Int /\ first(m) + Share - 1 \in Int
      BY <1>1, <1>3
    <2> QED
      BY <1>1, <2>1, <1>3, FS_Interval, SMTT(30)
  <1> HIDE DEF B
  <1>8. Parts(B, [m \in NPU |-> Share])
    BY <1>5, <1>6, <1>7 DEF Parts
  <1> QED
    BY <1>8

\* access() finds a walker for every miss, when all NPUs have a partition: the
\* NPU's own, one beyond the lower bound of another, or one that nobody has.
THEOREM WalkerCorrect == Spec => []WalkerFound
  <1>1. WInv => WalkerFound
    <2> SUFFICES ASSUME WInv, AllHave, ReturnPTW => WalkerNum >= NPUNum,
                        NEW n \in NPU, Usable(n) = {}
                 PROVE  FALSE
      BY DEF WalkerFound, AllHave
    <2>1. /\ IInv /\ TypeOK /\ conf \in Conf
          /\ \A m \in NPU : occ[m] = Cardinality(Owned(m)) /\ occ[m] \in Nat
      BY PartitionAssumption, CountAssumption DEF WInv, IInv, TypeOK, OccupationExact
    <2>2. /\ Owned(n) = {} /\ occ[n] = 0
          /\ occ[n] < upper[n] =>
               \A w \in Walker : belong[w] \in NPU /\ occ[belong[w]] <= lower[belong[w]]
      BY <2>1, NothingUsable
    <2>3. WalkerNum \in Nat \ {0} /\ NPUNum \in Nat \ {0}
      BY CountAssumption
    <2>4. ASSUME NEW size, size[n] \in Nat \ {0}, upper[n] > 0,
                 \A m \in NPU : lower[m] <= size[m] /\ size[m] \in Nat,
                 \E B : Parts(B, size)
          PROVE  FALSE
      <3>1. \A w \in Walker : belong[w] \in NPU /\ occ[belong[w]] <= lower[belong[w]]
        BY <2>2, <2>4
      <3>2. ASSUME NEW m \in NPU PROVE Cardinality(Owned(m)) <= size[m]
        <4>1. CASE Owned(m) = {}
          BY <2>4, <4>1, FS_EmptySet
        <4>2. CASE Owned(m) # {}
          <5>1. PICK w \in Walker : belong[w] = m
            BY <4>2 DEF Owned
          <5>2. occ[m] <= lower[m] /\ lower[m] \in Nat
            BY <2>1, <3>1, <5>1, CountAssumption DEF TypeOK
          <5> QED
            BY <2>1, <2>4, <5>2
        <4> QED
          BY <4>1, <4>2
      <3>3. PICK B : Parts(B, size)
        BY <2>4
      <3> QED
        BY <2>1, <2>2, <2>4, <3>1, <3>2, <3>3, NotAllOwned
    <2>5. CASE ~ReturnPTW
      <3>1. \A m \in NPU : /\ WalkerInit[m] \in Nat \ {0} /\ lower[m] = WalkerLower[m]
                            /\ upper[m] = WalkerUpper[m]
        BY <2>1, <2>3, <2>5 DEF IInv, Bounded, AllHave, Conf, WalkerInit
      <3>2. \A m \in NPU : lower[m] <= WalkerInit[m] /\ WalkerInit[m] <= upper[m]
                            /\ upper[m] \in Nat
        <4>1. \A m \in NPU : /\ WalkerLower[m] <= WalkerInit[m]
                              /\ WalkerInit[m] <= WalkerUpper[m]
          BY <2>1, PartitionAssumption
          DEF TypeOK, AllHave, WalkerInit, WalkerLower, WalkerUpper
        <4>2. \A m \in NPU : upper[m] \in Nat
          BY <2>1, <2>3 DEF TypeOK
        <4> QED
          BY <3>1, <4>1, <4>2
      <3>3. \E B : Parts(B, WalkerInit)
        BY DEF WInv
      <3>4. upper[n] > 0
        BY <3>1, <3>2
      <3> QED
        BY <2>4, <3>1, <3>2, <3>3, <3>4
    <2>6. CASE ReturnPTW
      <3>1. CASE \A m \in NPU : upper[m] = WalkerNum /\ lower[m] = 0
        <4>1. 0 \in Walker
          BY <2>3 DEF Walker
        <4>2. belong[0] \in NPU /\ occ[belong[0]] <= 0
          BY <2>2, <2>3, <3>1, <4>1
        <4>3. 0 \in Owned(belong[0])
          BY <4>1 DEF Owned
        <4>4. IsFiniteSet(Owned(belong[0]))
          BY Walkers DEF Owned
        <4> QED
          BY <2>1, <4>2, <4>3, <4>4, FS_EmptySet
      <3>2. CASE \A m \in NPU : upper[m] = Share /\ lower[m] = Share
        <4>1. Share \in Nat \ {0}
          BY <2>3, <2>6 DEF Share
        <4>2. \E B : Parts(B, [m \in NPU |-> Share])
          BY EqualParts
        <4> QED
          BY <2>4, <3>2, <4>1, <4>2
      <3> QED
        BY <2>6, <3>1, <3>2 DEF WInv, Returned
    <2> QED
      BY <2>5, <2>6
  <1> QED
    BY <1>1, WalkersInductive, PTL
=============================================================================

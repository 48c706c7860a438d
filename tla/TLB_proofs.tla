----------------------------- MODULE TLB_proofs -----------------------------
(***************************************************************************)
(* Proofs about the TLB, for any associativity, number of NPUs, walkers and  *)
(* ports, any pages and latencies.                                         *)
(***************************************************************************)
EXTENDS TLB, FiniteSetTheorems, TLAPS

-----------------------------------------------------------------------------
\* How many elements of a set of numbers come before one.
Rank(K, k) == Cardinality({j \in K : j < k})

\* An injective function does not map into a smaller set.
LEMMA NotSmaller ==
  ASSUME NEW S, IsFiniteSet(S), NEW T, IsFiniteSet(T), NEW f \in [S -> T],
         \A x, y \in S : f[x] = f[y] => x = y
  PROVE  Cardinality(S) <= Cardinality(T)
  <1>1. Cardinality(S) \in Nat /\ Cardinality(T) \in Nat
    BY FS_CardinalityType
  <1>2. CASE Cardinality(T) < Cardinality(S)
    BY <1>2, FS_PigeonHole
  <1> QED
    BY <1>1, <1>2

\* Ranks of the elements of a finite set are different, and below its size.
LEMMA Ranks ==
  ASSUME NEW K \in SUBSET Int, IsFiniteSet(K)
  PROVE  /\ \A k \in K : Rank(K, k) \in 0 .. Cardinality(K) - 1
         /\ \A j, k \in K : Rank(K, j) = Rank(K, k) => j = k
  <1> DEFINE Before(k) == {j \in K : j < k}
  <1>1. ASSUME NEW k \in K
        PROVE  /\ IsFiniteSet(Before(k)) /\ Cardinality(Before(k)) \in Nat
               /\ Cardinality(Before(k)) < Cardinality(K)
    <2>1. Before(k) \in SUBSET K /\ Before(k) # K
      OBVIOUS
    <2>2. /\ IsFiniteSet(Before(k)) /\ Cardinality(Before(k)) <= Cardinality(K)
          /\ Cardinality(K) # Cardinality(Before(k))
      BY <2>1, FS_Subset
    <2> QED
      BY <2>2, FS_CardinalityType
  <1>2. ASSUME NEW j \in K, NEW k \in K, j < k
        PROVE  Cardinality(Before(j)) < Cardinality(Before(k))
    <2>1. Before(j) \in SUBSET Before(k) /\ j \in Before(k) /\ j \notin Before(j)
      <3>1. j < k /\ ~(j < j) /\ \A i \in K : i < j => i < k
        BY <1>2
      <3> QED
        BY <3>1
    <2>2. /\ Cardinality(Before(j)) <= Cardinality(Before(k))
          /\ Cardinality(Before(k)) # Cardinality(Before(j))
      BY <2>1, <1>1, FS_Subset
    <2> QED
      BY <2>2, <1>1
  <1>3. ASSUME NEW k \in K
        PROVE  Rank(K, k) \in 0 .. Cardinality(K) - 1
    BY <1>1, FS_CardinalityType DEF Rank
  <1>4. ASSUME NEW j \in K, NEW k \in K, Rank(K, j) = Rank(K, k)
        PROVE  j = k
    <2>1. Cardinality(Before(j)) = Cardinality(Before(k)) /\ Cardinality(Before(j)) \in Nat
      BY <1>1, <1>4 DEF Rank
    <2>2. ~(j < k) /\ ~(k < j)
      BY <1>2, <2>1
    <2> QED
      BY <2>2
  <1> QED
    BY <1>3, <1>4

\* Nth counts through a finite set: it is the inverse of the rank.
LEMMA Counted ==
  ASSUME NEW K \in SUBSET Int, IsFiniteSet(K)
  PROVE  /\ Cardinality(K) \in Nat
         /\ \A i \in 0 .. Cardinality(K) - 1 : Nth(K, i) \in K /\ Rank(K, Nth(K, i)) = i
         /\ \A k \in K : Rank(K, k) \in 0 .. Cardinality(K) - 1 /\ Nth(K, Rank(K, k)) = k
  <1> DEFINE N == Cardinality(K)
  <1>1. N \in Nat
    BY FS_CardinalityType
  <1>2. ASSUME NEW i \in 0 .. N - 1
        PROVE  Nth(K, i) \in K /\ Rank(K, Nth(K, i)) = i
    <2>1. CASE \E k \in K : Rank(K, k) = i
      BY <2>1 DEF Nth, Rank
    <2>2. CASE ~\E k \in K : Rank(K, k) = i
      <3> DEFINE T == (0 .. N - 1) \ {i}
                 f == [k \in K |-> Rank(K, k)]
      <3>1. IsFiniteSet(0 .. N - 1) /\ Cardinality(0 .. N - 1) = N
        BY <1>1, FS_Interval
      <3>2. IsFiniteSet(T) /\ Cardinality(T) = N - 1
        BY <3>1, FS_RemoveElement
      <3>3. f \in [K -> T] /\ \A x, y \in K : f[x] = f[y] => x = y
        BY <2>2, Ranks
      <3>4. Cardinality(K) <= Cardinality(T)
        BY <3>2, <3>3, NotSmaller
      <3> QED
        BY <1>1, <3>2, <3>4
    <2> QED
      BY <2>1, <2>2
  <1>3. ASSUME NEW k \in K
        PROVE  Rank(K, k) \in 0 .. N - 1 /\ Nth(K, Rank(K, k)) = k
    <2>1. Rank(K, k) \in 0 .. N - 1
      BY Ranks
    <2>2. Nth(K, Rank(K, k)) \in K /\ Rank(K, Nth(K, Rank(K, k))) = Rank(K, k)
      BY <1>2, <2>1
    <2>3. \A j \in K : Rank(K, j) = Rank(K, k) => j = k
      BY Ranks
    <2> QED
      BY <2>1, <2>2, <2>3
  <1> QED
    BY <1>1, <1>2, <1>3

\* A finite set of numbers has a largest one.
LEMMA Largest ==
  ASSUME NEW K \in SUBSET Int, IsFiniteSet(K), K # {}
  PROVE  \E t \in K : \A u \in K : u <= t
  <1> DEFINE N == Cardinality(K)
             t == Nth(K, N - 1)
             Before == {j \in K : j < t}
  <1>1. N \in Nat /\ N # 0
    BY FS_CardinalityType, FS_EmptySet
  <1>2. t \in K /\ Rank(K, t) = N - 1
    BY <1>1, Counted
  <1>3. IsFiniteSet(K \ {t}) /\ Cardinality(K \ {t}) = N - 1
    BY <1>2, FS_RemoveElement
  <1>4. Cardinality(Before) = N - 1
    BY <1>2 DEF Rank
  <1> HIDE DEF t
  <1>5. Before \in SUBSET (K \ {t})
    <2>1. t \in Int /\ ~(t < t)
      BY <1>2
    <2> QED
      BY <2>1
  <1>6. Before = K \ {t}
    BY <1>3, <1>4, <1>5, FS_Subset
  <1>7. ASSUME NEW u \in K
        PROVE  u <= t
    <2>1. u = t \/ u < t
      BY <1>6
    <2> QED
      BY <2>1, <1>2
  <1> QED
    BY <1>2, <1>7

-----------------------------------------------------------------------------
\* The inductive invariant, in parts.
\* Slots that do not count as valid hold nothing.
Filled == \A i \in Slot : i >= valid_entry_num => ~table[i].valid

\* What was used last is marked.
Recent == EntryNum > 1 => \A i \in Valid : Key(i) = last => mrubits[i]

\* The entry of a walk, or the one that took its place, is not usable before
\* the walk is over, unless that is so already or a flush waits for it.
Awaited(x) ==
  \/ x.slot \in Valid /\ x.to <= table[x.slot].tick
  \/ x.to <= curtick
  \/ \E m \in NPU : x.to <= resume[m]
Covered == \A x \in walks : Awaited(x)

\* A walker does its walks one after the other.
Apart(x, y) == x.to <= y.from \/ y.to <= x.from
OneByOne ==
  /\ \A x \in walks : x.to <= clock[x.walker]
  /\ \A x, y \in walks : x # y /\ x.walker = y.walker => Apart(x, y)

SetInv == Filled /\ NoDuplicates /\ VictimExists /\ Recent
IInv == TypeOK /\ SetInv /\ PortOrder /\ Covered /\ OneByOne

-----------------------------------------------------------------------------
\* One set.
LEMMA Slots ==
  /\ EntryNum \in Nat \ {0} /\ Slot \in SUBSET Int
  /\ IsFiniteSet(Slot) /\ Cardinality(Slot) = EntryNum
  /\ \A S \in SUBSET Slot : IsFiniteSet(S) /\ Cardinality(S) \in 0 .. EntryNum
  <1>1. EntryNum \in Nat \ {0}
    BY EntryAssumption
  <1>2. IsFiniteSet(Slot) /\ Cardinality(Slot) = EntryNum
    BY <1>1, FS_Interval DEF Slot
  <1>3. ASSUME NEW S \in SUBSET Slot
        PROVE  IsFiniteSet(S) /\ Cardinality(S) \in 0 .. EntryNum
    BY <1>1, <1>2, FS_Subset, FS_CardinalityType
  <1> QED
    BY <1>1, <1>2, <1>3 DEF Slot

LEMMA Counting == \A x \in Nat : x < UintRange => x % UintRange = x
  <1> SUFFICES ASSUME NEW x \in Nat, x < UintRange PROVE x % UintRange = x
    OBVIOUS
  <1>1. UintRange \in Nat \ {0}
    BY WidthAssumption
  <1> QED
    BY <1>1

\* Marking an entry leaves a zero bit for every one that is counted.
LEMMA MarkKeepsVictim ==
  ASSUME mrubits \in [Slot -> BOOLEAN], remaining_zeros \in Nat, VictimExists,
         NEW idx \in Slot, UpdateMRUbits(idx)
  PROVE  /\ mrubits' \in [Slot -> BOOLEAN] /\ remaining_zeros' \in Nat /\ VictimExists'
         /\ mrubits'[idx]
  <1>1. mrubits' \in [Slot -> BOOLEAN] /\ mrubits'[idx]
    BY DEF UpdateMRUbits
  <1>2. remaining_zeros' \in Nat
    <2>1. UintRange \in Nat \ {0} /\ EntryNum - 1 \in Nat
      BY WidthAssumption, EntryAssumption
    <2>2. (remaining_zeros - 1) % UintRange \in Nat
      BY <2>1
    <2> QED
      BY <2>1, <2>2 DEF UpdateMRUbits
  <1>3. ASSUME EntryNum > 1
        PROVE  remaining_zeros' >= 1 /\ remaining_zeros' <= Cardinality(Zeros')
    <2>1. /\ remaining_zeros >= 1 /\ remaining_zeros <= Cardinality(Zeros)
          /\ IsFiniteSet(Zeros) /\ Cardinality(Zeros) \in 0 .. EntryNum
      BY <1>3, Slots DEF VictimExists, Zeros
    <2>2. CASE mrubits[idx]
      <3>1. mrubits' = mrubits /\ remaining_zeros' = remaining_zeros
        BY <2>2 DEF UpdateMRUbits
      <3> QED
        BY <2>1, <3>1 DEF Zeros
    <2>3. CASE ~mrubits[idx] /\ remaining_zeros = 1
      <3>1. remaining_zeros' = EntryNum - 1 /\ Zeros' = Slot \ {idx}
        BY <2>3 DEF UpdateMRUbits, Zeros
      <3>2. Cardinality(Slot \ {idx}) = EntryNum - 1
        BY Slots, FS_RemoveElement
      <3> QED
        BY <1>3, <3>1, <3>2, Slots
    <2>4. CASE ~mrubits[idx] /\ remaining_zeros # 1
      <3>1. remaining_zeros' = (remaining_zeros - 1) % UintRange /\ Zeros' = Zeros \ {idx}
        BY <2>4 DEF UpdateMRUbits, Zeros
      <3>2. remaining_zeros - 1 \in Nat /\ remaining_zeros - 1 < UintRange
        BY <2>1, WidthAssumption, EntryAssumption
      <3>3. remaining_zeros' = remaining_zeros - 1
        BY <3>1, <3>2, Counting
      <3>4. Cardinality(Zeros \ {idx}) = Cardinality(Zeros) - 1
        BY <2>1, <2>4, FS_RemoveElement DEF Zeros
      <3> QED
        BY <2>1, <2>4, <3>1, <3>3, <3>4
    <2> QED
      BY <2>2, <2>3, <2>4
  <1> QED
    BY <1>1, <1>2, <1>3 DEF VictimExists

-----------------------------------------------------------------------------
\* What a flush does to the slots: slot i receives slot Nth(Kept(n), i).
LEMMA Moved ==
  ASSUME TypeOK, NEW n \in NPU, SetFlush(n)
  PROVE  /\ Kept(n) \in SUBSET Slot /\ Cardinality(Kept(n)) \in 0 .. EntryNum
         /\ \A i \in Slot : i < Cardinality(Kept(n)) =>
              /\ Nth(Kept(n), i) \in Kept(n) /\ Rank(Kept(n), Nth(Kept(n), i)) = i
              /\ table'[i] = table[Nth(Kept(n), i)] /\ mrubits'[i] = mrubits[Nth(Kept(n), i)]
         /\ \A i \in Slot : i >= Cardinality(Kept(n)) => ~table'[i].valid /\ ~mrubits'[i]
         /\ \A k \in Kept(n) :
              /\ Rank(Kept(n), k) \in Slot /\ Rank(Kept(n), k) < Cardinality(Kept(n))
              /\ Nth(Kept(n), Rank(Kept(n), k)) = k
  <1> DEFINE K == Kept(n)
  <1>1. K \in SUBSET Slot
    BY DEF Kept
  <1>2. K \in SUBSET Int /\ IsFiniteSet(K) /\ Cardinality(K) \in 0 .. EntryNum
    BY <1>1, Slots
  <1>3. /\ \A i \in 0 .. Cardinality(K) - 1 : Nth(K, i) \in K /\ Rank(K, Nth(K, i)) = i
        /\ \A k \in K : Rank(K, k) \in 0 .. Cardinality(K) - 1 /\ Nth(K, Rank(K, k)) = k
    BY <1>2, Counted
  <1>4. \A i \in Slot :
          /\ table'[i] = IF i < Cardinality(K) THEN table[Nth(K, i)] ELSE Unused
          /\ mrubits'[i] = IF i < Cardinality(K) THEN mrubits[Nth(K, i)] ELSE FALSE
    BY DEF SetFlush, Compacted
  <1> HIDE DEF K
  <1>5. \A i \in Slot : i < Cardinality(K) => i \in 0 .. Cardinality(K) - 1
    BY <1>2 DEF Slot
  <1>6. \A i \in 0 .. Cardinality(K) - 1 : i \in Slot /\ i < Cardinality(K)
    BY <1>2, Slots DEF Slot
  <1>7. \A i \in Slot : i >= Cardinality(K) => ~(i < Cardinality(K))
    BY <1>2, Slots
  <1>8. \A i \in Slot : i >= Cardinality(K) => ~table'[i].valid /\ ~mrubits'[i]
    <2> SUFFICES ASSUME NEW i \in Slot, i >= Cardinality(K)
                 PROVE  ~table'[i].valid /\ ~mrubits'[i]
      OBVIOUS
    <2>1. table'[i] = Unused /\ mrubits'[i] = FALSE
      BY <1>4, <1>7
    <2> QED
      BY <2>1 DEF Unused
  <1>9. \A k \in K : Rank(K, k) \in Slot /\ Rank(K, k) < Cardinality(K)
    BY <1>3, <1>6
  <1> QED
    BY <1>1, <1>2, <1>3, <1>4, <1>5, <1>8, <1>9 DEF K

\* A flush keeps the set in order, and the entries of the other NPUs.
LEMMA FlushKeeps ==
  ASSUME TypeOK, SetInv, NEW n \in NPU, SetFlush(n), last' = IF last.npu = n THEN None ELSE last
  PROVE  SetInv' /\ Entries' = {e \in Entries : e.npu # n}
  <1> DEFINE K == Kept(n)
             N == Cardinality(K)
             from(i) == Nth(K, i)
             to(k) == Rank(K, k)
  <1>1. /\ K \in SUBSET Slot /\ N \in 0 .. EntryNum
        /\ \A i \in Slot : i < N =>
             /\ from(i) \in K /\ to(from(i)) = i
             /\ table'[i] = table[from(i)] /\ mrubits'[i] = mrubits[from(i)]
        /\ \A i \in Slot : i >= N => ~table'[i].valid /\ ~mrubits'[i]
        /\ \A k \in K : to(k) \in Slot /\ to(k) < N /\ from(to(k)) = k
    BY Moved
  <1>2. valid_entry_num' = N /\ remaining_zeros' = remaining_zeros
    BY DEF SetFlush
  <1>3. \A k \in K : k \in Slot /\ ~(table[k].valid /\ table[k].npu = n)
    BY DEF Kept
  <1>4. \A k \in Slot : k \notin K => table[k].valid /\ table[k].npu = n
    BY DEF Kept
  <1> HIDE DEF K, N, from, to
  <1>5. \A i \in Slot : i < N \/ i >= N
    BY <1>1, Slots
  <1>6. \A i \in Valid' :
          /\ i \in Slot /\ i < N /\ from(i) \in K /\ from(i) \in Valid /\ to(from(i)) = i
          /\ table'[i] = table[from(i)] /\ mrubits'[i] = mrubits[from(i)]
          /\ table[from(i)].npu # n
    BY <1>1, <1>3, <1>5 DEF Valid
  <1>7. Filled'
    BY <1>1, <1>2 DEF Filled
  <1>8. NoDuplicates'
    <2> SUFFICES ASSUME NEW i \in Valid', NEW j \in Valid', Key(i)' = Key(j)' PROVE i = j
      BY DEF NoDuplicates
    <2>1. Key(from(i)) = Key(from(j))
      BY <1>6 DEF Key
    <2>2. from(i) = from(j)
      BY <1>6, <2>1 DEF SetInv, NoDuplicates
    <2> QED
      BY <1>6, <2>2
  <1>9. VictimExists'
    <2> DEFINE S == {i \in Slot : mrubits'[i]}
               T == {i \in Slot : mrubits[i]}
               f == [i \in S |-> from(i)]
    <2>1. IsFiniteSet(S) /\ IsFiniteSet(T)
      BY Slots
    <2>2. \A i \in S : i \in Slot /\ i < N /\ from(i) \in T /\ to(from(i)) = i
      BY <1>1, <1>5
    <2>3. f \in [S -> T] /\ \A x, y \in S : f[x] = f[y] => x = y
      BY <2>2
    <2>4. Cardinality(S) <= Cardinality(T)
      BY <2>1, <2>3, NotSmaller
    <2>5. Zeros = Slot \ T /\ Zeros' = Slot \ S
      BY DEF Zeros
    <2>6. /\ Cardinality(Slot \ T) = EntryNum - Cardinality(T)
          /\ Cardinality(Slot \ S) = EntryNum - Cardinality(S)
      <3>1. Slot \cap T = T /\ Slot \cap S = S
        OBVIOUS
      <3> HIDE DEF S, T
      <3>2. Cardinality(Slot \ T) = Cardinality(Slot) - Cardinality(Slot \cap T)
        BY Slots, FS_Difference
      <3>3. Cardinality(Slot \ S) = Cardinality(Slot) - Cardinality(Slot \cap S)
        BY Slots, FS_Difference
      <3> QED
        BY <3>1, <3>2, <3>3, Slots
    <2>7. Cardinality(Zeros) <= Cardinality(Zeros') /\ Cardinality(Zeros) \in Nat
          /\ Cardinality(Zeros') \in Nat
      <3>1. Cardinality(S) \in Nat /\ Cardinality(T) \in Nat
        BY <2>1, FS_CardinalityType
      <3>2. Cardinality(Zeros) \in Nat /\ Cardinality(Zeros') \in Nat
        BY Slots, <2>5
      <3> QED
        BY <2>4, <2>5, <2>6, <3>1, <3>2, Slots
    <2> QED
      BY <1>2, <2>7 DEF VictimExists, SetInv, TypeOK
  <1>10. Recent'
    <2> SUFFICES ASSUME EntryNum > 1, NEW i \in Valid', Key(i)' = last' PROVE mrubits'[i]
      BY DEF Recent
    <2>1. Key(i)' = Key(from(i)) /\ Key(i)'.npu \in NPU
      BY <1>6 DEF Key, Valid, TypeOK
    <2>2. last' = last
      <3>1. -1 \notin NPU
        BY WalkAssumption DEF NPU, W!NPU
      <3> QED
        BY <2>1, <3>1 DEF None
    <2>3. mrubits[from(i)]
      BY <1>6, <2>1, <2>2 DEF SetInv, Recent
    <2> QED
      BY <1>6, <2>3
  <1>11. Entries' = {e \in Entries : e.npu # n}
    <2>1. ASSUME NEW e \in Entries' PROVE e \in Entries /\ e.npu # n
      <3>1. PICK i \in Valid' : e = table'[i]
        BY DEF Entries
      <3> QED
        BY <1>6, <3>1 DEF Entries
    <2>2. ASSUME NEW e \in Entries, e.npu # n PROVE e \in Entries'
      <3>1. PICK k \in Valid : e = table[k]
        BY DEF Entries
      <3>2. k \in K
        BY <1>4, <2>2, <3>1 DEF Valid
      <3>3. to(k) \in Slot /\ table'[to(k)] = e
        BY <1>1, <3>1, <3>2
      <3>4. to(k) \in Valid'
        BY <3>1, <3>3 DEF Valid
      <3> QED
        BY <3>3, <3>4 DEF Entries
    <2> QED
      BY <2>1, <2>2
  <1> QED
    BY <1>7, <1>8, <1>9, <1>10, <1>11 DEF SetInv

\* So does a miss.
LEMMA FillKeeps ==
  ASSUME TypeOK, SetInv, NEW n \in NPU, NEW v \in Page, NEW idx \in Slot, NEW done \in Nat,
         Placed(n, v, idx), Fill(n, v, idx, done), last' = [npu |-> n, vpn |-> v]
  PROVE  /\ SetInv' /\ valid_entry_num' \in 0 .. EntryNum
         /\ mrubits' \in [Slot -> BOOLEAN] /\ remaining_zeros' \in Nat
         /\ table' \in [Slot -> [vpn : Page \cup {0}, npu : NPU, tick : Nat, valid : BOOLEAN]]
         /\ table'[idx].tick = done /\ \A i \in Slot \ {idx} : table'[i] = table[i]
         /\ idx \in Valid' /\ Valid' \subseteq Valid \cup {idx} /\ Valid \subseteq Valid'
         /\ EntryNum > 1 /\ idx \in Valid => ~mrubits[idx]
  <1> DEFINE new == [vpn |-> v, npu |-> n, tick |-> done, valid |-> TRUE]
  <1>1. table' = [table EXCEPT ![idx] = new]
    BY DEF Fill
  <1>2. table' \in [Slot -> [vpn : Page \cup {0}, npu : NPU, tick : Nat, valid : BOOLEAN]]
    BY <1>1 DEF TypeOK
  <1>3. table'[idx] = new /\ \A i \in Slot \ {idx} : table'[i] = table[i]
    BY <1>1 DEF TypeOK
  <1>4. idx \in Valid' /\ Valid' \subseteq Valid \cup {idx} /\ Valid \subseteq Valid'
    BY <1>3 DEF Valid
  <1>5. /\ mrubits' \in [Slot -> BOOLEAN] /\ remaining_zeros' \in Nat /\ VictimExists'
        /\ mrubits'[idx]
    BY MarkKeepsVictim DEF Fill, TypeOK, SetInv
  <1>6. valid_entry_num' \in 0 .. EntryNum /\ Filled'
    <2>1. CASE valid_entry_num < EntryNum
      <3>1. idx = valid_entry_num /\ valid_entry_num' = valid_entry_num + 1
        BY <2>1 DEF Placed, Fill
      <3>2. \A i \in Slot : i >= valid_entry_num + 1 => i # idx /\ i >= valid_entry_num
        BY <3>1, Slots
      <3> QED
        BY <2>1, <3>1, <3>2, <1>3, EntryAssumption DEF Filled, SetInv, TypeOK
    <2>2. CASE valid_entry_num = EntryNum
      <3>1. valid_entry_num' = EntryNum
        BY <2>2, EntryAssumption DEF Fill
      <3>2. \A i \in Slot : ~(i >= EntryNum)
        BY EntryAssumption DEF Slot
      <3> QED
        BY <3>1, <3>2, EntryAssumption DEF Filled
    <2> QED
      BY <2>1, <2>2, EntryAssumption DEF TypeOK
  <1>7. \A i \in Valid' : i # idx => Key(i)' = Key(i) /\ i \in Valid /\ Key(i) # [npu |-> n, vpn |-> v]
    BY <1>3, <1>4 DEF Key, Valid, Placed, Matches
  <1>8. Key(idx)' = [npu |-> n, vpn |-> v]
    BY <1>3 DEF Key
  <1>9. NoDuplicates'
    BY <1>4, <1>7, <1>8 DEF NoDuplicates, SetInv
  <1>10. Recent'
    BY <1>5, <1>7 DEF Recent
  <1>11. EntryNum > 1 /\ idx \in Valid => ~mrubits[idx]
    <2> SUFFICES ASSUME EntryNum > 1, idx \in Valid PROVE ~mrubits[idx]
      OBVIOUS
    <2>1. idx # valid_entry_num
      BY Slots DEF SetInv, Filled, Valid
    <2>2. idx \in Zeros
      BY <2>1 DEF Placed, Victim
    <2> QED
      BY <2>2 DEF Zeros
  <1> QED
    BY <1>2, <1>3, <1>4, <1>5, <1>6, <1>9, <1>10, <1>11 DEF SetInv

-----------------------------------------------------------------------------
\* PTW counts as this module does.
LEMMA SameCardinality == \A S : W!Cardinality(S) = Cardinality(S)
  BY DEF W!Cardinality, Cardinality

\* A walk begins when it has arrived and the walker has done its last one, ends
\* after that, and moves the clock of no other walker.
LEMMA AWalk ==
  ASSUME clock \in [W!Walker -> Nat], NEW n \in NPU, NEW v \in Page, NEW t \in Nat,
         NEW w \in W!Walker, W!Earliest(W!Usable(n), w), W!Access(n, v, t)
  PROVE  /\ clock' \in [W!Walker -> Nat] /\ conf' = conf
         /\ clock'[w] >= t /\ clock'[w] >= clock[w]
         /\ \A x \in W!Walker \ {w} : clock'[x] = clock[x]
         /\ W!Begin(w, t) \in Nat /\ W!Begin(w, t) >= clock[w] /\ clock'[w] >= W!Begin(w, t)
  <1> DEFINE steps == Cardinality(W!StepsLeft(v))
  <1>1. PICK y \in W!Walker :
          /\ W!Earliest(W!Usable(n), y)
          /\ clock' = [clock EXCEPT ![y] = W!Begin(y, t) + StepLatency * steps]
          /\ conf' = conf
    BY SameCardinality DEF W!Access
  <1>2. y = w
    <2>1. W!Walker \in SUBSET Int /\ clock[w] \in Int /\ clock[y] \in Int
      BY WalkAssumption DEF W!Walker
    <2>2. /\ w \in W!Usable(n) /\ y \in W!Usable(n)
          /\ clock[w] < clock[y] \/ (clock[w] = clock[y] /\ w <= y)
          /\ clock[y] < clock[w] \/ (clock[y] = clock[w] /\ y <= w)
      BY <1>1 DEF W!Earliest
    <2> QED
      BY <2>1, <2>2
  <1>3. W!Begin(w, t) \in Nat /\ W!Begin(w, t) >= t /\ W!Begin(w, t) >= clock[w]
    BY DEF W!Begin
  <1>4. IsFiniteSet(W!Step) /\ Cardinality(W!Step) = StepNum
    <2>1. StepNum \in Nat \ {0}
      BY WalkAssumption
    <2>2. IsFiniteSet(W!Step)
      BY <2>1, FS_Interval DEF W!Step
    <2>3. Cardinality(0 .. StepNum - 1) =
            IF 0 > StepNum - 1 THEN 0 ELSE StepNum - 1 - 0 + 1
      BY <2>1, FS_Interval, 0 \in Int, StepNum - 1 \in Int
    <2> QED
      BY <2>1, <2>2, <2>3 DEF W!Step
  <1>5. steps \in Nat
    <2>1. W!StepsLeft(v) \in SUBSET W!Step
      BY DEF W!StepsLeft
    <2> QED
      BY <1>4, <2>1, FS_Subset, FS_CardinalityType
  <1> HIDE DEF steps
  <1>7. StepLatency * steps \in Nat
    BY <1>5, WalkAssumption
  <1>9. clock'[w] = W!Begin(w, t) + StepLatency * steps
    BY <1>1, <1>2
  <1>10. clock' \in [W!Walker -> Nat] /\ \A x \in W!Walker \ {w} : clock'[x] = clock[x]
    BY <1>1, <1>2, <1>3, <1>7
  <1> QED
    BY <1>1, <1>3, <1>7, <1>9, <1>10

\* A lookup takes the first free port.
LEMMA PortsInOrder ==
  ASSUME TypeOK, PortOrder, NEW t \in Ticks, Started(t), UsePort(t),
         curtick' = curtick, portnum' = portnum
  PROVE  PortOrder' /\ port' \in [0 .. MaxTick -> Nat]
  <1>1. /\ MaxTick \in Nat /\ portnum \in Nat /\ curtick \in Nat
        /\ \A u \in Ticks : u \in 0 .. MaxTick /\ port[u] \in Nat
    BY PortAssumption DEF TypeOK, Ticks
  <1>2. CASE portnum = 0
    BY <1>2 DEF UsePort, PortOrder, TypeOK
  <1>3. CASE portnum > 0
    <2>1. port' = [port EXCEPT ![t] = port[t] + 1]
      BY <1>1, <1>3 DEF UsePort
    <2>2. port[t] < portnum /\ \A u \in Ticks : u < t => port[u] >= portnum
      BY <1>1, <1>3 DEF Started
    <2>3. port' \in [0 .. MaxTick -> Nat]
      BY <1>1, <2>1 DEF TypeOK
    <2>4. port'[t] = port[t] + 1 /\ \A u \in Ticks \ {t} : port'[u] = port[u]
      BY <1>1, <2>1 DEF TypeOK
    <2>5. \A u \in Ticks : port[u] <= portnum
                           /\ (port[u] > 0 => \A x \in Ticks : x < u => port[x] = portnum)
      BY <1>3 DEF PortOrder
    <2>6. ASSUME NEW u \in Ticks
          PROVE  port'[u] <= portnum
      BY <1>1, <2>2, <2>4, <2>5
    <2>7. ASSUME NEW u \in Ticks, port'[u] > 0, NEW x \in Ticks, x < u
          PROVE  port'[x] = portnum
      <3>1. CASE u = t
        <4>1. x # t /\ port[x] >= portnum /\ port[x] <= portnum
          BY <1>1, <2>2, <2>5, <2>7, <3>1
        <4> QED
          BY <1>1, <2>4, <4>1
      <3>2. CASE u # t
        <4>1. port[u] > 0 /\ port[x] = portnum
          BY <2>4, <2>5, <2>7, <3>2
        <4>2. x # t
          BY <1>1, <2>2, <4>1
        <4> QED
          BY <2>4, <4>1, <4>2
      <3> QED
        BY <3>1, <3>2
    <2>8. PortOrder'
      BY <2>6, <2>7 DEF PortOrder, Ticks
    <2> QED
      BY <2>3, <2>8
  <1> QED
    BY <1>1, <1>2, <1>3

\* A flush returns the tick of the last walk it waits for.
LEMMA FlushWaits ==
  ASSUME TypeOK, NEW n \in NPU
  PROVE  /\ FlushTick(n) \in Nat
         /\ \A i \in Valid : table[i].npu = n => table[i].tick <= FlushTick(n)
  <1> DEFINE gone == Slot \ Kept(n)
             ticks == {0} \cup {table[i].tick : i \in gone}
             f == [i \in gone |-> table[i].tick]
  <1>1. ticks \in SUBSET Nat /\ 0 \in ticks
    BY DEF TypeOK
  <1>2. \E u \in ticks : \A x \in ticks : x <= u
    <2>1. IsFiniteSet({table[i].tick : i \in gone})
      <3>1. IsFiniteSet(gone)
        BY Slots
      <3>2. f \in Surjection(gone, {table[i].tick : i \in gone})
        BY DEF Surjection
      <3> QED
        BY <3>1, <3>2, FS_Surjection
    <2>2. IsFiniteSet(ticks)
      BY <2>1, FS_Union, FS_Singleton
    <2> QED
      BY <1>1, <2>2, Largest
  <1>3. FlushTick(n) \in ticks /\ \A x \in ticks : x <= FlushTick(n)
    BY <1>2 DEF FlushTick
  <1>4. \A i \in Valid : table[i].npu = n => i \in gone
    BY DEF Valid, Kept
  <1> QED
    BY <1>1, <1>3, <1>4

-----------------------------------------------------------------------------
\* What LastUsedKept says of a step.
Spared ==
  \A i \in Valid :
    Key(i) = last /\ EntryNum > 1 =>
      \/ last' = None
      \/ \E j \in Slot :
           table'[j].valid /\ [npu |-> table'[j].npu, vpn |-> table'[j].vpn] = last

\* What FlushCoversWalks says of a flush.
Waited(n) ==
  \A x \in walks :
    x.npu = n /\ x.to > curtick =>
      \/ x.to <= FlushTick(n)
      \/ /\ x.slot \in Valid /\ table[x.slot].npu # n
         /\ x.to <= table[x.slot].tick

LEMMA HitStep ==
  ASSUME IInv, NEW n \in NPU, NEW v \in Page, Hit(n, v), last' = [npu |-> n, vpn |-> v],
         PortOrder', port' \in [0 .. MaxTick -> Nat],
         UNCHANGED <<curtick, portnum, resume>>
  PROVE  IInv' /\ Spared
  <1>1. PICK i \in Matches(n, v) : UpdateMRUbits(i)
    BY DEF Hit, SetHit
  <1>2. i \in Valid /\ i \in Slot /\ Key(i) = [npu |-> n, vpn |-> v]
    BY DEF Matches, Valid
  <1>3. /\ table' = table /\ valid_entry_num' = valid_entry_num /\ walks' = walks
        /\ clock' = clock /\ conf' = conf
    BY DEF Hit, SetHit, ptwvars
  <1>4. /\ mrubits' \in [Slot -> BOOLEAN] /\ remaining_zeros' \in Nat /\ VictimExists'
        /\ mrubits'[i]
    BY <1>1, <1>2, MarkKeepsVictim DEF IInv, TypeOK, SetInv
  <1>5. Filled' /\ NoDuplicates'
    BY <1>3 DEF IInv, SetInv, Filled, NoDuplicates, Valid, Key
  <1>6. Recent'
    <2> SUFFICES ASSUME NEW j \in Valid', Key(j)' = last' PROVE mrubits'[j]
      BY DEF Recent
    <2>1. j \in Valid /\ Key(j) = Key(i)
      BY <1>2, <1>3 DEF Valid, Key
    <2>2. j = i
      BY <1>2, <2>1 DEF IInv, SetInv, NoDuplicates
    <2> QED
      BY <1>4, <2>2
  <1>7. Covered' /\ OneByOne'
    BY <1>3 DEF IInv, Covered, Awaited, OneByOne, Valid
  <1>8. TypeOK'
    BY <1>3, <1>4 DEF IInv, TypeOK
  <1>9. Spared
    BY <1>3 DEF Spared, Valid, Key
  <1> QED
    BY <1>4, <1>5, <1>6, <1>7, <1>8, <1>9 DEF IInv, SetInv

LEMMA MissStep ==
  ASSUME IInv, NEW n \in NPU, NEW v \in Page, NEW t \in Nat, Miss(n, v, t),
         last' = [npu |-> n, vpn |-> v],
         PortOrder', port' \in [0 .. MaxTick -> Nat],
         UNCHANGED <<curtick, portnum, resume>>
  PROVE  IInv' /\ Spared
  <1>1. PICK idx \in Slot, w \in W!Walker :
          /\ Placed(n, v, idx) /\ W!Earliest(W!Usable(n), w)
          /\ W!Access(n, v, WalkStart(idx, t))
          /\ Fill(n, v, idx, clock'[w])
          /\ walks' = walks \cup {[npu |-> n, walker |-> w, slot |-> idx,
                                   from |-> W!Begin(w, WalkStart(idx, t)), to |-> clock'[w]]}
    BY DEF Miss
  <1>2. WalkStart(idx, t) \in Nat /\ WalkStart(idx, t) >= table[idx].tick
    <2>1. HitLatency \in Nat /\ table[idx].tick \in Nat
      BY EntryAssumption DEF IInv, TypeOK
    <2> QED
      BY <2>1 DEF WalkStart, Larger
  <1>3. /\ clock' \in [W!Walker -> Nat] /\ conf' = conf
        /\ clock'[w] >= WalkStart(idx, t) /\ clock'[w] >= clock[w]
        /\ \A x \in W!Walker \ {w} : clock'[x] = clock[x]
        /\ W!Begin(w, WalkStart(idx, t)) \in Nat
        /\ W!Begin(w, WalkStart(idx, t)) >= clock[w]
    BY <1>1, <1>2, AWalk DEF IInv, TypeOK
  <1> DEFINE done == clock'[w]
             new == [npu |-> n, walker |-> w, slot |-> idx,
                     from |-> W!Begin(w, WalkStart(idx, t)), to |-> done]
  <1>4. done \in Nat /\ done >= table[idx].tick
    <2>1. table[idx].tick \in Nat
      BY DEF IInv, TypeOK
    <2> QED
      BY <1>2, <1>3, <2>1
  <1>5. Fill(n, v, idx, done) /\ walks' = walks \cup {new}
    BY <1>1
  <1>5a. /\ new \in Walk /\ new.walker = w /\ new.slot = idx /\ new.to = done
         /\ new.from \in Nat /\ new.from >= clock[w]
    BY <1>3, <1>4 DEF Walk
  <1>5b. done = clock'[w]
    OBVIOUS
  <1> HIDE DEF done, new
  <1>6. /\ SetInv' /\ valid_entry_num' \in 0 .. EntryNum
        /\ mrubits' \in [Slot -> BOOLEAN] /\ remaining_zeros' \in Nat
        /\ table' \in [Slot -> [vpn : Page \cup {0}, npu : NPU, tick : Nat, valid : BOOLEAN]]
        /\ table'[idx].tick = done /\ \A i \in Slot \ {idx} : table'[i] = table[i]
        /\ idx \in Valid' /\ Valid' \subseteq Valid \cup {idx} /\ Valid \subseteq Valid'
        /\ EntryNum > 1 /\ idx \in Valid => ~mrubits[idx]
    BY <1>1, <1>4, <1>5, FillKeeps DEF IInv
  <1>7. walks' \subseteq Walk
    BY <1>5, <1>5a DEF IInv, TypeOK
  <1>8. TypeOK'
    BY <1>3, <1>6, <1>7 DEF IInv, TypeOK
  <1>9. Covered'
    <2> SUFFICES ASSUME NEW x \in walks' PROVE Awaited(x)'
      BY DEF Covered
    <2>1. CASE x = new
      <3>1. x.slot \in Valid' /\ x.to = done /\ table'[x.slot].tick = done
        BY <1>5a, <1>6, <2>1
      <3> QED
        BY <1>4, <3>1 DEF Awaited
    <2>2. CASE x \in walks
      <3>1. Awaited(x) /\ x.to \in Nat
        BY <2>2 DEF IInv, Covered, TypeOK, Walk
      <3>2. CASE x.slot \in Valid /\ x.to <= table[x.slot].tick
        <4>1. /\ x.slot \in Slot /\ x.slot \in Valid'
              /\ table[x.slot].tick \in Nat /\ table'[x.slot].tick \in Nat
          BY <1>6, <3>2 DEF IInv, TypeOK, Valid
        <4>2. table[x.slot].tick <= table'[x.slot].tick
          <5>1. CASE x.slot = idx
            BY <1>4, <1>6, <5>1
          <5>2. CASE x.slot # idx
            BY <1>6, <4>1, <5>2
          <5> QED
            BY <5>1, <5>2
        <4>3. x.to <= table'[x.slot].tick
          BY <3>1, <3>2, <4>1, <4>2
        <4> QED
          BY <4>1, <4>3 DEF Awaited
      <3>3. CASE x.to <= curtick \/ \E m \in NPU : x.to <= resume[m]
        BY <3>3 DEF Awaited
      <3> QED
        BY <3>1, <3>2, <3>3 DEF Awaited
    <2> QED
      BY <1>5, <2>1, <2>2
  <1>10. OneByOne'
    <2>1. ASSUME NEW x \in walks
          PROVE  /\ x.walker \in W!Walker /\ x.to <= clock'[x.walker]
                 /\ x.walker = w => x.to <= new.from
      <3>1. /\ x.walker \in W!Walker /\ x.to \in Nat /\ x.to <= clock[x.walker]
            /\ clock[x.walker] \in Nat /\ clock[w] \in Nat
        BY DEF IInv, OneByOne, TypeOK, Walk
      <3>2. clock'[x.walker] \in Nat /\ clock[x.walker] <= clock'[x.walker]
        BY <1>3, <3>1
      <3>3. x.to <= clock'[x.walker]
        BY <3>1, <3>2
      <3>4. x.walker = w => x.to <= new.from
        BY <1>5a, <3>1
      <3> QED
        BY <3>1, <3>3, <3>4
    <2>2. \A x \in walks' : x.to <= clock'[x.walker]
      <3> SUFFICES ASSUME NEW x \in walks' PROVE x.to <= clock'[x.walker]
        OBVIOUS
      <3>1. CASE x = new
        BY <1>4, <1>5a, <1>5b, <3>1
      <3> QED
        BY <1>5, <2>1, <3>1
    <2>3. ASSUME NEW x \in walks', NEW y \in walks', x # y, x.walker = y.walker
          PROVE  Apart(x, y)
      <3>1. CASE x \in walks /\ y \in walks
        BY <2>3, <3>1 DEF IInv, OneByOne
      <3>2. CASE x = new /\ y \in walks
        BY <1>5a, <2>1, <2>3, <3>2 DEF Apart
      <3>3. CASE x \in walks /\ y = new
        BY <1>5a, <2>1, <2>3, <3>3 DEF Apart
      <3> QED
        BY <1>5, <2>3, <3>1, <3>2, <3>3
    <2> QED
      BY <2>2, <2>3 DEF OneByOne
  <1>11. Spared
    <2> SUFFICES ASSUME NEW i \in Valid, Key(i) = last, EntryNum > 1
                 PROVE  table'[i] = table[i] /\ i \in Slot /\ table[i].valid
      BY DEF Spared, Key
    <2>1. mrubits[i]
      BY DEF IInv, SetInv, Recent
    <2>2. i # idx
      BY <1>6, <2>1
    <2> QED
      BY <1>6, <2>2 DEF Valid
  <1> QED
    BY <1>6, <1>8, <1>9, <1>10, <1>11 DEF IInv

LEMMA AccessStep ==
  ASSUME IInv, NEW n \in NPU, NEW v \in Page, Access(n, v)
  PROVE  IInv' /\ Spared
  <1>1. PICK t \in Ticks : Started(t) /\ UsePort(t) /\ (Hit(n, v) \/ Miss(n, v, t))
    BY DEF Access
  <1>2. last' = [npu |-> n, vpn |-> v] /\ UNCHANGED <<curtick, portnum, resume>>
    BY DEF Access
  <1>3. t \in Nat
    BY PortAssumption DEF Ticks, IInv, TypeOK
  <1>4. PortOrder' /\ port' \in [0 .. MaxTick -> Nat]
    BY <1>1, <1>2, PortsInOrder DEF IInv
  <1>5. CASE Hit(n, v)
    BY <1>2, <1>4, <1>5, HitStep
  <1>6. CASE Miss(n, v, t)
    BY <1>2, <1>3, <1>4, <1>6, MissStep
  <1> QED
    BY <1>1, <1>5, <1>6

LEMMA FlushStep ==
  ASSUME IInv, NEW n \in NPU, Flush(n)
  PROVE  /\ IInv' /\ Spared /\ Waited(n)
         /\ Entries' = {e \in Entries : e.npu # n}
  <1>1. /\ SetFlush(n) /\ resume' = [resume EXCEPT ![n] = FlushTick(n)]
        /\ last' = IF last.npu = n THEN None ELSE last
        /\ clock' = clock /\ conf' = conf /\ curtick' = curtick /\ portnum' = portnum
        /\ port' = port
        /\ walks' = {[x EXCEPT !.slot = MovedTo(n, x.slot)] : x \in walks}
    BY DEF Flush, ptwvars
  <1>2. \A m \in NPU : resume[m] <= curtick
    BY DEF Flush, Flushing, IInv, TypeOK
  <1>3. SetInv' /\ Entries' = {e \in Entries : e.npu # n}
    BY <1>1, FlushKeeps DEF IInv
  <1>4. FlushTick(n) \in Nat /\ \A i \in Valid : table[i].npu = n => table[i].tick <= FlushTick(n)
    BY FlushWaits DEF IInv
  <1> DEFINE K == Kept(n)
             to(k) == Rank(K, k)
  <1>5. /\ Cardinality(K) \in 0 .. EntryNum
        /\ \A i \in Slot : i < Cardinality(K) =>
             Nth(K, i) \in Slot /\ to(Nth(K, i)) = i /\ Nth(K, i) \in K
               /\ table'[i] = table[Nth(K, i)] /\ mrubits'[i] = mrubits[Nth(K, i)]
        /\ \A i \in Slot : i >= Cardinality(K) => ~table'[i].valid
        /\ \A k \in K : to(k) \in Slot /\ to(k) < Cardinality(K) /\ Nth(K, to(k)) = k
    BY <1>1, Moved DEF IInv
  <1>6. \A i \in Slot : i \in K <=> ~(table[i].valid /\ table[i].npu = n)
    BY DEF Kept
  <1>6a. \A k \in K : MovedTo(n, k) = to(k)
    BY DEF MovedTo, Rank
  <1>6b. \A i \in Slot \cup {Gone} : MovedTo(n, i) \in Slot \cup {Gone}
    BY <1>5, <1>6a DEF MovedTo
  <1> HIDE DEF K, to
  <1>7. \A i \in Slot : i < Cardinality(K) \/ i >= Cardinality(K)
    BY <1>5, Slots
  <1>8. \A i \in Valid' : /\ i \in Slot /\ Nth(K, i) \in Valid /\ to(Nth(K, i)) = i
                          /\ table'[i] = table[Nth(K, i)]
    BY <1>5, <1>7 DEF Valid
  <1>9. \A k \in Valid : table[k].npu # n => /\ to(k) \in Valid'
                                             /\ table'[to(k)] = table[k]
    BY <1>5, <1>6 DEF Valid
  <1>10. TypeOK'
    <2>1. /\ table' = Compacted(table, Kept(n), Unused)
          /\ mrubits' = Compacted(mrubits, Kept(n), FALSE)
          /\ valid_entry_num' = Cardinality(K) /\ remaining_zeros' = remaining_zeros
      BY <1>1 DEF SetFlush, K
    <2>2. table' \in [Slot -> [vpn : Page \cup {0}, npu : NPU, tick : Nat, valid : BOOLEAN]]
      <3>1. Unused \in [vpn : Page \cup {0}, npu : NPU, tick : Nat, valid : BOOLEAN]
        <4>1. 0 \in NPU
          BY WalkAssumption DEF NPU, W!NPU
        <4> QED
          BY <4>1 DEF Unused
      <3>2. table' = [i \in Slot |-> IF i < Cardinality(K) THEN table[Nth(K, i)] ELSE Unused]
        BY <2>1 DEF Compacted, K
      <3>3. \A i \in Slot : i < Cardinality(K) =>
              table[Nth(K, i)] \in [vpn : Page \cup {0}, npu : NPU, tick : Nat, valid : BOOLEAN]
        BY <1>5 DEF IInv, TypeOK
      <3> QED
        BY <3>1, <3>2, <3>3
    <2>3. mrubits' \in [Slot -> BOOLEAN]
      <3>1. mrubits' = [i \in Slot |-> IF i < Cardinality(K) THEN mrubits[Nth(K, i)] ELSE FALSE]
        BY <2>1 DEF Compacted, K
      <3>2. \A i \in Slot : i < Cardinality(K) => mrubits[Nth(K, i)] \in BOOLEAN
        BY <1>5 DEF IInv, TypeOK
      <3> QED
        BY <3>1, <3>2
    <2>4. resume' \in [NPU -> Nat] /\ last' \in [npu : NPU, vpn : Page] \cup {None}
      BY <1>1, <1>4 DEF IInv, TypeOK
    <2>5. walks' \subseteq Walk
      <3>1. \A x \in walks : [x EXCEPT !.slot = MovedTo(n, x.slot)] \in Walk
        BY <1>6b DEF IInv, TypeOK, Walk
      <3> QED
        BY <1>1, <3>1
    <2> QED
      BY <1>1, <1>5, <2>1, <2>2, <2>3, <2>4, <2>5 DEF IInv, TypeOK
  <1>11. PortOrder'
    BY <1>1 DEF IInv, PortOrder, Ticks
  <1>12. ASSUME NEW x \in walks
         PROVE  \/ x.to <= curtick
                \/ x.to <= FlushTick(n)
                \/ /\ x.slot \in Valid /\ table[x.slot].npu # n
                   /\ x.to <= table[x.slot].tick
    <2>1. /\ x.to \in Nat /\ curtick \in Nat /\ (\A m \in NPU : resume[m] \in Nat)
          /\ (\A i \in Valid : table[i].tick \in Nat) /\ Awaited(x)
      BY DEF IInv, TypeOK, Walk, Valid, Covered
    <2>2. CASE \E m \in NPU : x.to <= resume[m]
      BY <1>2, <2>1, <2>2
    <2>3. CASE x.slot \in Valid /\ x.to <= table[x.slot].tick
      BY <1>4, <2>1, <2>3
    <2> QED
      BY <2>1, <2>2, <2>3 DEF Awaited
  <1>13. Covered'
    <2> SUFFICES ASSUME NEW y \in walks' PROVE Awaited(y)'
      BY DEF Covered
    <2>1. PICK x \in walks : y = [x EXCEPT !.slot = MovedTo(n, x.slot)]
      BY <1>1
    <2>2. y.to = x.to /\ y.slot = MovedTo(n, x.slot)
      BY <2>1 DEF IInv, TypeOK, Walk
    <2>3. resume'[n] = FlushTick(n)
      BY <1>1 DEF IInv, TypeOK
    <2>4. CASE x.slot \in Valid /\ table[x.slot].npu # n /\ x.to <= table[x.slot].tick
      <3>1. x.slot \in K
        BY <1>6, <2>4 DEF Valid
      <3>2. y.slot \in Valid' /\ table'[y.slot] = table[x.slot]
        BY <1>6a, <1>9, <2>2, <2>4, <3>1
      <3> QED
        BY <2>2, <2>4, <3>2 DEF Awaited
    <2>5. CASE x.to <= curtick \/ x.to <= FlushTick(n)
      BY <1>1, <2>2, <2>3, <2>5 DEF Awaited
    <2> QED
      BY <1>12, <2>4, <2>5
  <1>14. OneByOne'
    <2>1. ASSUME NEW y \in walks'
          PROVE  \E x \in walks : /\ y = [x EXCEPT !.slot = MovedTo(n, x.slot)]
                                 /\ y.to = x.to /\ y.from = x.from /\ y.walker = x.walker
      BY <1>1 DEF IInv, TypeOK, Walk
    <2>2. \A y \in walks' : y.to <= clock'[y.walker]
      BY <1>1, <2>1 DEF IInv, OneByOne
    <2>3. ASSUME NEW y \in walks', NEW z \in walks', y # z, y.walker = z.walker
          PROVE  Apart(y, z)
      <3>1. PICK x \in walks : /\ y = [x EXCEPT !.slot = MovedTo(n, x.slot)]
                              /\ y.to = x.to /\ y.from = x.from /\ y.walker = x.walker
        BY <2>1
      <3>2. PICK u \in walks : /\ z = [u EXCEPT !.slot = MovedTo(n, u.slot)]
                              /\ z.to = u.to /\ z.from = u.from /\ z.walker = u.walker
        BY <2>1
      <3>3. x # u
        BY <2>3, <3>1, <3>2
      <3>4. Apart(x, u)
        BY <2>3, <3>1, <3>2, <3>3 DEF IInv, OneByOne
      <3> QED
        BY <3>1, <3>2, <3>4 DEF Apart
    <2> QED
      BY <2>2, <2>3 DEF OneByOne
  <1>15. Spared
    <2> SUFFICES ASSUME NEW i \in Valid, Key(i) = last, last' # None
                 PROVE  \E j \in Slot : table'[j].valid
                          /\ [npu |-> table'[j].npu, vpn |-> table'[j].vpn] = last
      BY DEF Spared
    <2>1. table[i].npu # n
      BY <1>1 DEF Key
    <2>2. to(i) \in Valid' /\ table'[to(i)] = table[i]
      BY <1>9, <2>1
    <2> QED
      BY <2>2 DEF Valid, Key
  <1>16. Waited(n)
    BY <1>12 DEF Waited, IInv, TypeOK, Walk
  <1> QED
    BY <1>3, <1>10, <1>11, <1>13, <1>14, <1>15, <1>16 DEF IInv

LEMMA TickStep ==
  ASSUME IInv, Tick
  PROVE  IInv' /\ Spared
  <1>1. /\ table' = table /\ mrubits' = mrubits /\ valid_entry_num' = valid_entry_num
        /\ remaining_zeros' = remaining_zeros /\ clock' = clock /\ conf' = conf
        /\ portnum' = portnum /\ resume' = resume /\ last' = last
        /\ walks' = {x \in walks : x.to > curtick'}
        /\ curtick' = curtick + 1
        /\ port' = [t \in DOMAIN port |-> IF t = curtick THEN 0 ELSE port[t]]
    BY DEF Tick, setvars, ptwvars
  <1>2. TypeOK'
    BY <1>1 DEF IInv, TypeOK
  <1>3. SetInv'
    BY <1>1 DEF IInv, SetInv, Filled, NoDuplicates, VictimExists, Zeros, Recent, Valid, Key
  <1>4. PortOrder'
    <2> SUFFICES ASSUME portnum > 0, NEW t \in Ticks'
                 PROVE  /\ port'[t] <= portnum
                        /\ port'[t] > 0 => \A u \in Ticks' : u < t => port'[u] = portnum
      BY <1>1 DEF PortOrder
    <2>1. \A u \in Ticks' : u \in Ticks /\ u # curtick /\ u \in 0 .. MaxTick
      BY <1>1, PortAssumption DEF Ticks, IInv, TypeOK
    <2>2. \A u \in Ticks' : port'[u] = port[u]
      BY <1>1, <2>1 DEF IInv, TypeOK
    <2> QED
      BY <2>1, <2>2 DEF IInv, PortOrder
  <1>5. Covered'
    <2> SUFFICES ASSUME NEW x \in walks' PROVE Awaited(x)'
      BY DEF Covered
    <2>1. x \in walks /\ x.to \in Nat /\ curtick \in Nat
      BY <1>1 DEF IInv, TypeOK, Walk
    <2>2. x.to <= curtick => x.to <= curtick'
      BY <1>1, <2>1
    <2> QED
      BY <1>1, <2>1, <2>2 DEF IInv, Covered, Awaited, Valid
  <1>6. OneByOne'
    BY <1>1 DEF IInv, OneByOne
  <1>7. Spared
    BY <1>1 DEF Spared, Valid, Key
  <1> QED
    BY <1>2, <1>3, <1>4, <1>5, <1>6, <1>7 DEF IInv

-----------------------------------------------------------------------------
LEMMA Start == Init => IInv
  <1> SUFFICES ASSUME Init PROVE IInv
    OBVIOUS
  <1>1. /\ table = [i \in Slot |-> Unused] /\ mrubits = [i \in Slot |-> FALSE]
        /\ valid_entry_num = 0 /\ remaining_zeros = EntryNum
        /\ curtick = 0 /\ last = None /\ portnum \in Ports
        /\ port = [t \in 0 .. MaxTick |-> 0]
        /\ resume = [n \in NPU |-> 0] /\ walks = {}
        /\ clock = [w \in W!Walker |-> 0]
    BY DEF Init, SetInit, W!Init
  <1>2. Valid = {}
    BY <1>1 DEF Valid, Unused
  <1>3. TypeOK
    <2>1. 0 \in NPU
      BY WalkAssumption DEF NPU, W!NPU
    <2>2. Unused \in [vpn : Page \cup {0}, npu : NPU, tick : Nat, valid : BOOLEAN]
      BY <2>1 DEF Unused
    <2> QED
      BY <1>1, <2>2, PortAssumption, EntryAssumption DEF TypeOK
  <1>4. VictimExists
    <2>1. Zeros = Slot
      BY <1>1 DEF Zeros
    <2> QED
      BY <1>1, <2>1, Slots DEF VictimExists
  <1>5. Filled /\ NoDuplicates /\ Recent
    BY <1>1, <1>2 DEF Filled, NoDuplicates, Recent, Unused
  <1>6. PortOrder
    <2>1. \A t \in Ticks : t \in 0 .. MaxTick
      BY <1>1, PortAssumption DEF Ticks
    <2>2. \A t \in Ticks : port[t] = 0
      BY <1>1, <2>1
    <2> QED
      BY <1>3, <2>2 DEF PortOrder, TypeOK
  <1>7. Covered
    BY <1>1 DEF Covered
  <1>8. OneByOne
    BY <1>1 DEF OneByOne
  <1> QED
    BY <1>3, <1>4, <1>5, <1>6, <1>7, <1>8 DEF IInv, SetInv

LEMMA Preserved == IInv /\ [Next]_vars => IInv' /\ (Spared \/ UNCHANGED vars)
  <1> SUFFICES ASSUME IInv, [Next]_vars PROVE IInv' /\ (Spared \/ UNCHANGED vars)
    OBVIOUS
  <1>1. CASE \E n \in NPU, v \in Page : Access(n, v)
    BY <1>1, AccessStep
  <1>2. CASE \E n \in NPU : Flush(n)
    BY <1>2, FlushStep
  <1>3. CASE Tick
    BY <1>3, TickStep
  <1>4. CASE UNCHANGED vars
    <2>1. /\ table' = table /\ mrubits' = mrubits /\ valid_entry_num' = valid_entry_num
          /\ remaining_zeros' = remaining_zeros /\ clock' = clock /\ conf' = conf
          /\ portnum' = portnum /\ resume' = resume /\ last' = last /\ walks' = walks
          /\ curtick' = curtick /\ port' = port
      BY <1>4 DEF vars, setvars, ptwvars
    <2>2. TypeOK'
      BY <2>1 DEF IInv, TypeOK
    <2>3. SetInv'
      BY <2>1 DEF IInv, SetInv, Filled, NoDuplicates, VictimExists, Zeros, Recent, Valid, Key
    <2>4. PortOrder' /\ Covered' /\ OneByOne'
      BY <2>1 DEF IInv, PortOrder, Ticks, Covered, Awaited, OneByOne, Valid
    <2> QED
      BY <1>4, <2>2, <2>3, <2>4 DEF IInv
  <1> QED
    BY <1>1, <1>2, <1>3, <1>4 DEF Next

LEMMA Inductive == Spec => []IInv
  <1>1. Init => IInv
    BY Start
  <1>2. IInv /\ [Next]_vars => IInv'
    BY Preserved
  <1> QED
    BY <1>1, <1>2, PTL DEF Spec

\* Entries, bits, counters, ports and clocks keep their types.
THEOREM TLBTyped == Spec => []TypeOK
  <1>1. IInv => TypeOK
    BY DEF IInv
  <1> QED
    BY <1>1, Inductive, PTL

\* TLBSet::access: a page of an NPU is in one entry at most.
THEOREM NoDuplicatesHolds == Spec => []NoDuplicates
  <1>1. IInv => NoDuplicates
    BY DEF IInv, SetInv
  <1> QED
    BY <1>1, Inductive, PTL

\* evict(): there always is an entry that was not used recently, and the
\* counter never promises more of them than there are.
THEOREM VictimExistsHolds == Spec => []VictimExists
  <1>1. IInv => VictimExists
    BY DEF IInv, SetInv
  <1> QED
    BY <1>1, Inductive, PTL

\* TLB::access: lookups take the ports of the ticks in order.
THEOREM PortOrderHolds == Spec => []PortOrder
  <1>1. IInv => PortOrder
    BY DEF IInv
  <1> QED
    BY <1>1, Inductive, PTL

\* Walks in progress have walkers of their own, so there are no more of them
\* than walkers.
THEOREM WalkBandwidthHolds == Spec => []WalkBandwidth
  <1>1. IInv => WalkBandwidth
    <2> SUFFICES ASSUME IInv, NEW x \in walks
                 PROVE  Cardinality({y \in walks : y.from <= x.from /\ x.from < y.to})
                          <= WalkerNum
      BY DEF WalkBandwidth
    <2> DEFINE S == {y \in walks : y.from <= x.from /\ x.from < y.to}
               f == [y \in S |-> y.walker]
    <2>1. WalkerNum \in Nat \ {0}
      BY WalkAssumption
    <2>2. IsFiniteSet(W!Walker) /\ Cardinality(W!Walker) = WalkerNum
      <3>1. IsFiniteSet(W!Walker)
        BY <2>1, FS_Interval DEF W!Walker
      <3>2. Cardinality(0 .. WalkerNum - 1) =
              IF 0 > WalkerNum - 1 THEN 0 ELSE WalkerNum - 1 - 0 + 1
        BY <2>1, FS_Interval, 0 \in Int, WalkerNum - 1 \in Int
      <3> QED
        BY <2>1, <3>1, <3>2 DEF W!Walker
    <2>3. ASSUME NEW y \in S, NEW z \in S, y.walker = z.walker
          PROVE  y = z
      <3>1. /\ x.from \in Nat /\ y.from \in Nat /\ y.to \in Nat /\ z.from \in Nat /\ z.to \in Nat
            /\ y.from <= x.from /\ x.from < y.to /\ z.from <= x.from /\ x.from < z.to
        BY DEF IInv, TypeOK, Walk
      <3>2. ~Apart(y, z)
        BY <3>1 DEF Apart
      <3> QED
        BY <2>3, <3>2 DEF IInv, OneByOne
    <2>4. f \in Injection(S, W!Walker)
      <3>1. \A y \in S : y.walker \in W!Walker
        BY DEF IInv, TypeOK, Walk
      <3>2. f \in [S -> W!Walker] /\ \A y, z \in S : f[y] = f[z] => y = z
        BY <2>3, <3>1
      <3> HIDE DEF S, f
      <3> QED
        BY <3>2 DEF Injection, IsInjective
    <2> HIDE DEF S, f
    <2>5. Cardinality(S) <= Cardinality(W!Walker)
      BY <2>2, <2>4, FS_Injection
    <2> QED
      BY <2>2, <2>5 DEF S
  <1> QED
    BY <1>1, Inductive, PTL

\* Bit-PLRU never replaces the entry that was used last.
THEOREM LastUsedKeptHolds == Spec => LastUsedKept
  <1>1. IInv /\ [Next]_vars => [Spared]_vars
    BY Preserved
  <1> QED
    BY <1>1, Inductive, PTL DEF Spec, LastUsedKept, Spared

\* TLBSet::flush removes the entries of one NPU and no other's.
THEOREM FlushExactHolds == Spec => FlushExact
  <1> DEFINE Exact == \A n \in NPU : Flush(n) => Entries' = {e \in Entries : e.npu # n}
  <1>1. IInv /\ [Next]_vars => [Exact]_vars
    BY FlushStep
  <1> QED
    BY <1>1, Inductive, PTL DEF Spec, FlushExact

\* TLBSet::flush waits for every walk of the NPU that is in progress, except
\* where the walk's entry is another NPU's by now and waits as long.
THEOREM FlushCoversWalksHolds == Spec => FlushCoversWalks
  <1> DEFINE Covers == \A n \in NPU : Flush(n) => Waited(n)
  <1>1. IInv /\ [Next]_vars => [Covers]_vars
    BY FlushStep
  <1> QED
    BY <1>1, Inductive, PTL DEF Spec, FlushCoversWalks, Waited
=============================================================================

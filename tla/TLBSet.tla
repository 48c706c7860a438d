------------------------------- MODULE TLBSet -------------------------------
(***************************************************************************)
(* One set of a TLB (TLBSet in tlb.cpp): entries filled in order until the *)
(* set counts as full, then replaced by Bit-PLRU; flush removes the        *)
(* entries of one NPU and closes the gaps.  Module TLB puts it between the *)
(* ports and the page table walkers.                                       *)
(***************************************************************************)
EXTENDS Integers, FiniteSets

CONSTANTS
  EntryNum,   \* m_entry_num, the associativity
  HitLatency, \* m_hit_latency
  UintRange   \* 2^32: m_remaining_zeros is unsigned

ASSUME EntryAssumption == EntryNum \in Nat \ {0} /\ HitLatency \in Nat
ASSUME WidthAssumption == UintRange \in Nat /\ UintRange > EntryNum

VARIABLES
  table,           \* m_table
  mrubits,         \* m_mrubits
  valid_entry_num, \* m_valid_entry_num
  remaining_zeros  \* m_remaining_zeros

Slot == 0 .. EntryNum - 1
Unused == [vpn |-> 0, npu |-> 0, tick |-> 0, valid |-> FALSE]

Larger(a, b) == IF a >= b THEN a ELSE b
Valid == {i \in Slot : table[i].valid}
Key(i) == [npu |-> table[i].npu, vpn |-> table[i].vpn]

-----------------------------------------------------------------------------
\* Operators named X_Fault are X with one plausible mistake in it.
UpdateMRUbits_ClearAll(idx) ==
  IF ~mrubits[idx] /\ remaining_zeros = 1
    THEN /\ mrubits' = [i \in Slot |-> FALSE]
         /\ remaining_zeros' = EntryNum - 1
    ELSE /\ mrubits' = [mrubits EXCEPT ![idx] = TRUE]
         /\ remaining_zeros' =
              IF mrubits[idx] THEN remaining_zeros ELSE (remaining_zeros - 1) % UintRange

\* Here the counter is not reset with the bits.
UpdateMRUbits_Uncounted(idx) ==
  IF ~mrubits[idx] /\ remaining_zeros = 1
    THEN /\ mrubits' = [i \in Slot |-> i = idx]
         /\ remaining_zeros' = EntryNum
    ELSE /\ mrubits' = [mrubits EXCEPT ![idx] = TRUE]
         /\ remaining_zeros' =
              IF mrubits[idx] THEN remaining_zeros ELSE (remaining_zeros - 1) % UintRange

\* updateMRUbits: the last zero bit is not set, all others are cleared instead.
UpdateMRUbits(idx) ==
  IF ~mrubits[idx] /\ remaining_zeros = 1
    THEN /\ mrubits' = [i \in Slot |-> i = idx]
         /\ remaining_zeros' = EntryNum - 1
    ELSE /\ mrubits' = [mrubits EXCEPT ![idx] = TRUE]
         /\ remaining_zeros' =
              IF mrubits[idx] THEN remaining_zeros ELSE (remaining_zeros - 1) % UintRange

Zeros == {i \in Slot : ~mrubits[i]}

\* evict(): the first entry that was not used recently.
Victim(i) ==
  IF EntryNum = 1 THEN i = 0 ELSE i \in Zeros /\ \A j \in Zeros : i <= j

-----------------------------------------------------------------------------
Matches(n, v) == {i \in Valid : Key(i) = [npu |-> n, vpn |-> v]}

SetHit(n, v) ==
  \E i \in Matches(n, v) :
    /\ \A j \in Matches(n, v) : i <= j
    /\ UpdateMRUbits(i)
    /\ UNCHANGED <<table, valid_entry_num>>

\* Where a miss puts its page: the next free entry while the set does not
\* count as full, then the victim.
Placed(n, v, idx) ==
  /\ Matches(n, v) = {}
  /\ IF valid_entry_num < EntryNum THEN idx = valid_entry_num ELSE Victim(idx)

\* The walk of a miss starts after the walk that the entry is waiting for.
WalkStart_AtOnce(idx, t) == t + HitLatency
WalkStart(idx, t) == Larger(t, table[idx].tick) + HitLatency

\* The entry is usable when the walk is done.
Fill(n, v, idx, done) ==
  /\ table' = [table EXCEPT ![idx] = [vpn |-> v, npu |-> n, tick |-> done, valid |-> TRUE]]
  /\ UpdateMRUbits(idx)
  /\ valid_entry_num' =
       IF valid_entry_num < EntryNum THEN valid_entry_num + 1 ELSE valid_entry_num

-----------------------------------------------------------------------------
\* flush(n): the entries that stay move to the front in order; the number of
\* valid entries is set to the number of slots not flushed.
Kept(n) == {i \in Slot : ~(table[i].valid /\ table[i].npu = n)}
Nth(K, i) == CHOOSE k \in K : Cardinality({j \in K : j < k}) = i

FlushTick(n) ==
  LET ticks == {0} \cup {table[i].tick : i \in Slot \ Kept(n)}
  IN  CHOOSE t \in ticks : \A u \in ticks : u <= t

\* The slots in K, moved to the front; the slots behind them are reset.
Compacted_InPlace(f, K, unused) ==
  [i \in Slot |-> IF i < Cardinality(K) THEN f[i] ELSE unused]
Compacted_NoReset(f, K, unused) ==
  [i \in Slot |-> IF i < Cardinality(K) THEN f[Nth(K, i)] ELSE f[i]]
Compacted(f, K, unused) ==
  [i \in Slot |-> IF i < Cardinality(K) THEN f[Nth(K, i)] ELSE unused]

SetFlush(n) ==
  /\ table' = Compacted(table, Kept(n), Unused)
  /\ mrubits' = Compacted(mrubits, Kept(n), FALSE)
  /\ valid_entry_num' = Cardinality(Kept(n))
  /\ UNCHANGED remaining_zeros

SetInit ==
  /\ table = [i \in Slot |-> Unused]
  /\ mrubits = [i \in Slot |-> FALSE]
  /\ valid_entry_num = 0 /\ remaining_zeros = EntryNum

-----------------------------------------------------------------------------
Entries == {table[i] : i \in Valid}

\* A page of an NPU sits in at most one entry, whatever was filled, replaced
\* and moved: the lookup stops at the first match.
NoDuplicates == \A i, j \in Valid : Key(i) = Key(j) => i = j

\* evict() never runs past the bits ("the MRU bit was not updated correctly")
\* and never indexes m_table with -1, although flush clears bits without
\* adding them to m_remaining_zeros.
VictimExists ==
  EntryNum > 1 => /\ remaining_zeros >= 1
                  /\ remaining_zeros <= Cardinality(Zeros)
=============================================================================

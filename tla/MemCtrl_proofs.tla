-------------------------- MODULE MemCtrl_proofs --------------------------
(***************************************************************************)
(* Proofs about the memory controller, for any number of NPUs, addresses,  *)
(* latencies and batches.                                                  *)
(***************************************************************************)
EXTENDS MemCtrl, FiniteSetTheorems, WellFoundedInduction, TLAPS

USE NAssumption DEF NPU, Buffers, None, KeepStalling

(* The least element of a set of naturals exists and is in the set. *)
LEMMA LeastExists ==
  ASSUME NEW S \in SUBSET Nat, S # {}
  PROVE  Least(S) \in S /\ \A j \in S : Least(S) <= j
<1> DEFINE R == OpToRel(<, Nat)
<1>1. IsWellFoundedOn(R, Nat)
  BY NatLessThanWellFounded
<1>2. \A m, n \in Nat : m < n => <<m, n>> \in R
  BY DEF OpToRel
<1> HIDE DEF R
<1>3. PICK x \in S : \A y \in S : ~ (<<y, x>> \in R)
  BY <1>1, WFMin
<1>4. ASSUME NEW y \in S PROVE x <= y
  <2>1. x \in Nat /\ y \in Nat
    OBVIOUS
  <2>2. ~ (y < x)
    BY <1>3, <1>2, <2>1
  <2> QED BY <2>1, <2>2
<1> QED BY <1>3, <1>4 DEF Least

(* Buffers n and n + N are those of NPU n. *)
LEMMA BufferOwner ==
  /\ \A n \in NPU : n % N = n /\ (n + N) % N = n
  /\ \A b \in Buffers : b % N \in NPU
  /\ \A n \in NPU, wr \in BOOLEAN :
       CalcSPMidx(n, wr) \in Buffers /\ CalcSPMidx(n, wr) % N = n
<1>1. ASSUME NEW n \in NPU PROVE n % N = n /\ (n + N) % N = n
  OBVIOUS
<1>2. ASSUME NEW b \in Buffers PROVE b % N \in NPU
  OBVIOUS
<1>3. ASSUME NEW n \in NPU, NEW wr \in BOOLEAN
      PROVE  CalcSPMidx(n, wr) \in Buffers /\ CalcSPMidx(n, wr) % N = n
  BY <1>1 DEF CalcSPMidx
<1> QED BY <1>1, <1>2, <1>3

-----------------------------------------------------------------------------
(* Type correctness. *)

LEMMA LeastOrNoneType ==
  ASSUME NEW S \in SUBSET NPU
  PROVE  LeastOrNone(S) \in NPU \cup {KeepStalling} /\ (S # {} => Least(S) \in S)
<1>1. S \in SUBSET Nat
  OBVIOUS
<1>2. CASE S = {}
  BY <1>2 DEF LeastOrNone
<1>3. CASE S # {}
  <2>1. Least(S) \in S
    BY <1>1, <1>3, LeastExists
  <2> QED BY <1>3, <2>1 DEF LeastOrNone
<1> QED BY <1>2, <1>3

LEMMA AtomicType ==
  ASSUME TypeOK, NEW c \in AtomicCurs, Atomic(c)
  PROVE  /\ c \in NPU \cup {None}
         /\ tlbq' \in [NPU -> SUBSET Entry]
         /\ pageq' \in SUBSET Entry
         /\ reqs' \in [Buffers -> SUBSET Packet]
         /\ dram' \in SUBSET [pkt : Packet, due : Nat]
         /\ is_begin' \in [NPU -> BOOLEAN]
         /\ UNCHANGED <<spm0_req, finished>>
         /\ AtomicPopped \in [NPU -> BOOLEAN]
         /\ AtomicNoReq \in [NPU -> BOOLEAN]
<1>1. c \in NPU \cup {None}
  BY DEF AtomicCurs, TypeOK, Entry, Packet
<1>2. Arriving \in SUBSET Entry
  BY DEF Arriving, TypeOK
<1>3. \A p \in Entry : p.pkt \in Packet /\ p.tick \in Nat
  BY DEF Entry
<1>4. tlbq' \in [NPU -> SUBSET Entry]
  BY DEF Atomic
<1>5. reqs' \in [Buffers -> SUBSET Packet]
  <2>1. Pkts(Arriving) \in SUBSET Packet
    BY <1>2, <1>3 DEF Pkts
  <2> QED BY <2>1 DEF Atomic, TypeOK
<1>6. PICK lat \in [Arriving -> TlbLat] :
        LET Q == pageq \cup {[pkt |-> p.pkt, tick |-> clock + lat[p]] : p \in Arriving}
        IN  \E I \in SUBSET Eligible(Q, c) :
              /\ Accepts(Eligible(Q, c), I)
              /\ pageq' = Q \ I
              /\ \E l \in [I -> DramLat] :
                   dram' = dram \cup {[pkt |-> p.pkt, due |-> clock + l[p]] : p \in I}
              /\ is_begin' = [n \in NPU |-> is_begin[n] \/ \E p \in I : p.pkt.npu = n]
  BY DEF Atomic
<1> DEFINE Q == pageq \cup {[pkt |-> p.pkt, tick |-> clock + lat[p]] : p \in Arriving}
<1>7. Q \in SUBSET Entry
  <2>1. \A p \in Arriving : lat[p] \in Nat
    BY LatAssumption
  <2>2. \A p \in Arriving : [pkt |-> p.pkt, tick |-> clock + lat[p]] \in Entry
    BY <2>1, <1>2, <1>3 DEF Entry, TypeOK
  <2> QED BY <2>2 DEF TypeOK
<1> HIDE DEF Q
<1>8. PICK I \in SUBSET Eligible(Q, c) :
        /\ pageq' = Q \ I
        /\ \E l \in [I -> DramLat] :
             dram' = dram \cup {[pkt |-> p.pkt, due |-> clock + l[p]] : p \in I}
        /\ is_begin' = [n \in NPU |-> is_begin[n] \/ \E p \in I : p.pkt.npu = n]
  BY <1>6 DEF Q
<1>9. I \in SUBSET Entry
  BY <1>7 DEF Eligible
<1>10. pageq' \in SUBSET Entry
  BY <1>7, <1>8
<1>11. dram' \in SUBSET [pkt : Packet, due : Nat]
  <2>1. PICK l \in [I -> DramLat] :
          dram' = dram \cup {[pkt |-> p.pkt, due |-> clock + l[p]] : p \in I}
    BY <1>8
  <2>2. \A p \in I : l[p] \in Nat
    BY LatAssumption
  <2>3. \A p \in I : [pkt |-> p.pkt, due |-> clock + l[p]] \in [pkt : Packet, due : Nat]
    BY <2>2, <1>9, <1>3 DEF TypeOK
  <2> QED BY <2>1, <2>3 DEF TypeOK
<1>12. is_begin' \in [NPU -> BOOLEAN]
  BY <1>8, Zenon DEF TypeOK
<1>13. AtomicPopped \in [NPU -> BOOLEAN] /\ AtomicNoReq \in [NPU -> BOOLEAN]
  BY Zenon DEF AtomicPopped, AtomicNoReq, TypeOK
<1> QED BY <1>1, <1>4, <1>5, <1>10, <1>11, <1>12, <1>13 DEF Atomic

LEMMA ReleasedCurType ==
  ASSUME NEW c \in NPU \cup {None}, NEW Called
  PROVE  ReleasedCur(c, Called) \in NPU \cup {None}
BY DEF ReleasedCur

(* A batch of requests of NPU n, as it is put into the TLB queue. *)
LEMMA BatchType ==
  ASSUME NEW n \in NPU, NEW wr \in BOOLEAN, NEW S \in SUBSET AddrOf[n], NEW t \in Tags
  PROVE  /\ Batch(n, wr, S, t) \in SUBSET Packet
         /\ IsFiniteSet(Batch(n, wr, S, t))
         /\ Cardinality(Batch(n, wr, S, t)) \in Nat
         /\ \A p \in Batch(n, wr, S, t) : p.npu = n /\ p.addr \in AddrOf[p.npu]
<1> DEFINE rq(a) == [npu |-> n, wr |-> wr, addr |-> a, tag |-> t]
<1>1. S \in SUBSET Addr /\ IsFiniteSet(S)
  BY AddrAssumption, FS_Subset
<1>2. Batch(n, wr, S, t) \in SUBSET Packet
  BY <1>1 DEF Batch, Packet
<1>3. IsFiniteSet(Batch(n, wr, S, t))
  <2> DEFINE f == [a \in S |-> rq(a)]
  <2>1. f \in Surjection(S, Batch(n, wr, S, t))
    BY DEF Surjection, Batch
  <2> QED BY <1>1, <2>1, FS_Surjection
<1>4. \A p \in Batch(n, wr, S, t) : p.npu = n /\ p.addr \in AddrOf[p.npu]
  BY DEF Batch
<1> QED BY <1>2, <1>3, <1>4, FS_CardinalityType

LEMMA InitType == Init => TypeOK
BY DEF Init, TypeOK

LEMMA ReturnsType ==
  ASSUME NEW r, PopStallReturns(r)
  PROVE  ret' = r /\ reported' \in [NPU -> BOOLEAN]
BY Zenon DEF PopStallReturns

LEMMA PopStallType == TypeOK /\ PopStall => TypeOK'
<1> SUFFICES ASSUME TypeOK, PopStall PROVE TypeOK'
  OBVIOUS
<1>1. PICK c \in AtomicCurs :
        Atomic(c) /\ (PopStallIdle(c) \/ PopStallLeftover(c) \/ PopStallSearch(c))
  BY DEF PopStall
<1> DEFINE rest == /\ no_req' \in [NPU -> BOOLEAN]
                   /\ popped' \in [NPU -> BOOLEAN]
                   /\ cur' \in NPU \cup {None}
                   /\ pc' \in {"idle", "stall", "dram"}
                   /\ endidx' \in NPU \cup {KeepStalling}
                   /\ ret' \in NPU \cup {KeepStalling, None}
                   /\ reported' \in [NPU -> BOOLEAN]
<1>2. CASE PopStallIdle(c)
  <2>1. rest
    BY <1>1, <1>2, AtomicType, ReturnsType DEF PopStallIdle, TypeOK
  <2> QED BY <1>1, <2>1, AtomicType DEF PopStall, TypeOK
<1>3. CASE PopStallLeftover(c)
  <2> DEFINE left == {n \in NPU : AtomicPopped[n]}
  <2>1. Least(left) \in NPU
    <3>1. left \in SUBSET NPU /\ left # {}
      BY <1>3 DEF PopStallLeftover
    <3> HIDE DEF left
    <3> QED BY <3>1, LeastOrNoneType
  <2>2. rest
    BY <1>1, <1>3, <2>1, AtomicType, ReturnsType DEF PopStallLeftover, TypeOK
  <2> QED BY <1>1, <2>2, AtomicType DEF PopStall, TypeOK
<1>4. CASE PopStallSearch(c)
  <2>1. endidx' \in NPU \cup {KeepStalling}
    <3>1. Served(no_req)' \in SUBSET NPU
      BY DEF Served
    <3> QED BY <3>1, <1>4, LeastOrNoneType DEF PopStallSearch, LeastOrNone
  <2>2. cur' \in NPU \cup {None}
    <3>1. c \in NPU \cup {None}
      BY <1>1, AtomicType
    <3> QED BY <1>4, <3>1 DEF PopStallSearch, ReleasedCur
  <2>3. rest
    BY <1>1, <1>4, <2>1, <2>2, AtomicType DEF PopStallSearch, TypeOK
  <2> QED BY <1>1, <2>3, AtomicType DEF PopStall, TypeOK
<1> QED BY <1>1, <1>2, <1>3, <1>4
LEMMA AtomicTickType ==
  ASSUME TypeOK, NEW who \in {"stall", "sync", "keep"}, AtomicTick(who)
  PROVE  TypeOK'
<1>1. PICK c \in AtomicCurs : Atomic(c) /\ cur' = c
  BY DEF AtomicTick
<1>2. /\ tlbq' \in [NPU -> SUBSET Entry]
      /\ pageq' \in SUBSET Entry
      /\ reqs' \in [Buffers -> SUBSET Packet]
      /\ dram' \in SUBSET [pkt : Packet, due : Nat]
      /\ is_begin' \in [NPU -> BOOLEAN]
      /\ cur' \in NPU \cup {None}
      /\ UNCHANGED <<spm0_req, finished>>
  BY <1>1, AtomicType
<1>3. no_req' \in [NPU -> BOOLEAN] /\ popped' \in [NPU -> BOOLEAN]
  BY <1>1, AtomicType DEF AtomicTick
<1>4. clock' \in Nat /\ pc' = "dram" /\ caller' = who /\ UNCHANGED <<endidx, ret, reported>>
  BY DEF AtomicTick, TypeOK
<1> QED BY <1>2, <1>3, <1>4 DEF TypeOK

LEMMA InsideType == TypeOK /\ Inside => TypeOK'
<1> SUFFICES ASSUME TypeOK, Inside PROVE TypeOK'
  OBVIOUS
<1>1. CASE StallTick
  BY <1>1, AtomicTickType DEF StallTick
<1>2. CASE StallReturn
  <2>1. CASE endidx = KeepStalling
    BY <1>2, <2>1, ReturnsType DEF StallReturn, TickDone, queues, TypeOK
  <2>2. CASE endidx # KeepStalling
    <3>1. popped' \in [NPU -> BOOLEAN]
      BY <1>2, <2>2, Zenon DEF StallReturn
    <3>2. cur' \in NPU \cup {None}
      BY <1>2, <2>2, ReleasedCurType DEF StallReturn, TypeOK
    <3>3. no_req' \in [NPU -> BOOLEAN]
      BY <1>2, <2>2 DEF StallReturn, TypeOK
    <3> QED BY <1>2, <3>1, <3>2, <3>3, ReturnsType DEF StallReturn, TickDone, queues, TypeOK
  <2> QED BY <2>1, <2>2
<1>3. CASE SyncReturn
  BY <1>3 DEF SyncReturn, TickDone, queues, TypeOK
<1>4. CASE KeepReturn
  <2>1. ret' \in NPU \cup {KeepStalling}
    <3>1. {n \in NPU : CheckNPURequest(n)} \in SUBSET NPU
      OBVIOUS
    <3> QED BY <1>4, <3>1, LeastOrNoneType DEF KeepReturn
  <2>2. cur' \in NPU \cup {None}
    BY <1>4, ReleasedCurType DEF KeepReturn, TypeOK
  <2> QED BY <1>4, <2>1, <2>2 DEF KeepReturn, TickDone, queues, TypeOK
<1>5. ASSUME NEW d \in dram, Callback(d) PROVE TypeOK'
  <2>1. dram' \in SUBSET [pkt : Packet, due : Nat]
    BY <1>5 DEF Callback, TypeOK
  <2>2. reqs' \in [Buffers -> SUBSET Packet] /\ spm0_req' \in [NPU -> Int]
    <3>1. CASE CallbackLost(d)
      BY <3>1 DEF CallbackLost, TypeOK
    <3>2. CASE CallbackFound(d)
      <4> DEFINE b == Least(Holders(d.pkt.addr))
      <4>1. b \in Buffers
        <5>1. Holders(d.pkt.addr) \in SUBSET Nat /\ Holders(d.pkt.addr) \in SUBSET Buffers
          BY DEF Holders
        <5> QED BY <5>1, <3>2, LeastExists DEF CallbackFound
      <4> HIDE DEF b
      <4>2. b % N \in NPU
        BY <4>1, BufferOwner
      <4>3. reqs' \in [Buffers -> SUBSET Packet]
        BY <3>2, <4>1 DEF CallbackFound, TypeOK, b
      <4>4. spm0_req' \in [NPU -> Int]
        BY <3>2, <4>2 DEF CallbackFound, TypeOK, b
      <4> QED BY <4>3, <4>4
    <3> QED BY <1>5, <3>1, <3>2 DEF Callback
  <2> QED BY <1>5, <2>1, <2>2 DEF Callback, flags, TypeOK
<1> QED BY <1>1, <1>2, <1>3, <1>4, <1>5 DEF Inside

LEMMA ClientType ==
  ASSUME TypeOK, \/ PopStall \/ SyncTick \/ KeepTick
                 \/ \E n \in NPU : Submit(n) \/ MarkFinished(n)
  PROVE  TypeOK'
<1>1. CASE PopStall
  BY <1>1, PopStallType
<1>2. CASE SyncTick
  BY <1>2, AtomicTickType DEF SyncTick
<1>3. CASE KeepTick
  BY <1>3, AtomicTickType DEF KeepTick
<1>4. ASSUME NEW n \in NPU, Submit(n) PROVE TypeOK'
  <2>1. PICK wr \in BOOLEAN, S \in (SUBSET AddrOf[n]) \ {{}}, t \in Tags : DramRequest(n, wr, S, t)
    BY <1>4 DEF Submit
  <2> DEFINE new == Batch(n, wr, S, t)
  <2>2. new \in SUBSET Packet /\ Cardinality(new) \in Nat
    BY BatchType
  <2> HIDE DEF new
  <2>3. {[pkt |-> p, tick |-> clock] : p \in new} \in SUBSET Entry
    BY <2>2 DEF Entry, TypeOK
  <2>4. tlbq' \in [NPU -> SUBSET Entry] /\ spm0_req' \in [NPU -> Int]
    <3>1. /\ tlbq' = [tlbq EXCEPT ![n] = @ \cup {[pkt |-> p, tick |-> clock] : p \in new}]
          /\ spm0_req' = [spm0_req EXCEPT ![n] = @ + Cardinality(new)]
      BY <2>1 DEF DramRequest, new
    <3>2. tlbq \in [NPU -> SUBSET Entry] /\ spm0_req \in [NPU -> Int]
      BY DEF TypeOK
    <3> QED BY <2>2, <2>3, <3>1, <3>2
  <2>5. UNCHANGED <<clock, pageq, reqs, dram, popped, no_req, is_begin, finished, cur,
                    pc, caller, endidx, ret, reported>>
    BY <2>1 DEF DramRequest, flags
  <2> QED BY <2>4, <2>5 DEF TypeOK
<1>5. ASSUME NEW n \in NPU, MarkFinished(n) PROVE TypeOK'
  BY <1>5 DEF MarkFinished, Finish, queues, TypeOK
<1> QED BY <1>1, <1>2, <1>3, <1>4, <1>5

LEMMA NextType == TypeOK /\ [Next]_vars => TypeOK'
<1>1. TypeOK /\ Next => TypeOK'
  BY InsideType, ClientType DEF Next
<1>2. TypeOK /\ UNCHANGED vars => TypeOK'
  BY DEF TypeOK, vars, queues, flags
<1> QED BY <1>1, <1>2

(* Every state of the controller is well typed. *)
THEOREM TypeCorrect == Spec => []TypeOK
BY InitType, NextType, PTL DEF Spec
-----------------------------------------------------------------------------
(* The request lists.  Only three things touch them: atomic(), a new batch *)
(* and a callback.                                                         *)

LEMMA PktsUnion ==
  ASSUME NEW S, NEW T
  PROVE  Pkts(S \cup T) = Pkts(S) \cup Pkts(T)
BY DEF Pkts

LEMMA SamePkts ==
  ASSUME NEW S, NEW T,
         \A p \in S : \E e \in T : e.pkt = p.pkt,
         \A e \in T : \E p \in S : e.pkt = p.pkt
  PROVE  Pkts(T) = Pkts(S)
BY DEF Pkts

(* atomic() moves every waiting packet into its buffer's request list and  *)
(* into the page queue or the DRAM, and loses or duplicates none.          *)
LEMMA AtomicMoves ==
  ASSUME TypeOK, Placed, Distinct, NEW c \in AtomicCurs, Atomic(c)
  PROVE  /\ Waiting' = {}
         /\ AllReqs' = AllReqs \cup Waiting
         /\ InFlight' = InFlight \cup Waiting
         /\ \A n \in NPU : Outstanding(n)' = Outstanding(n)
         /\ Placed' /\ Distinct'
<1>1. Pkts(Arriving) = Waiting
  BY DEF Pkts, Arriving, Waiting
<1>2. \A n \in NPU : tlbq'[n] = {} /\ Pkts(tlbq[n])' = {}
  BY DEF Atomic, Pkts
<1>3. Waiting' = {}
  BY <1>2 DEF Waiting
<1>4. \A b \in Buffers :
        reqs'[b] = reqs[b] \cup {p \in Waiting : CalcSPMidx(p.npu, p.wr) = b}
  BY <1>1, Zenon DEF Atomic
<1>5. \A p \in Waiting : p \in Packet /\ p.npu \in NPU /\ p.wr \in BOOLEAN
                        /\ p \in Pkts(tlbq[p.npu])
  <2>1. \A n \in NPU : Pkts(tlbq[n]) \in SUBSET Packet
    BY DEF Pkts, TypeOK, Entry
  <2>2. \A n \in NPU : \A p \in Pkts(tlbq[n]) : p.npu = n
    BY DEF Placed
  <2>3. \A p \in Packet : p.npu \in NPU /\ p.wr \in BOOLEAN
    BY DEF Packet
  <2> QED BY <2>1, <2>2, <2>3 DEF Waiting
<1>6. AllReqs' = AllReqs \cup Waiting
  <2>1. \A p \in Waiting : CalcSPMidx(p.npu, p.wr) \in Buffers
    BY <1>5, BufferOwner
  <2> QED BY <1>4, <2>1 DEF AllReqs
<1>7. ASSUME NEW n \in NPU PROVE Outstanding(n)' = Outstanding(n)
  <2>1. n \in Buffers /\ n + N \in Buffers
    OBVIOUS
  <2>2. \A p \in Waiting : CalcSPMidx(p.npu, p.wr) \in {n, n + N} <=> p.npu = n
    BY <1>5 DEF CalcSPMidx
  <2>3. Pkts(tlbq[n]) = {p \in Waiting : p.npu = n}
    BY <1>5 DEF Waiting, Placed
  <2>4. reqs'[n] \cup reqs'[n + N] = reqs[n] \cup reqs[n + N] \cup {p \in Waiting : p.npu = n}
    BY <1>4, <2>1, <2>2
  <2>5. Outstanding(n)' = reqs'[n] \cup reqs'[n + N]
    BY <1>2 DEF Outstanding
  <2> QED BY <2>3, <2>4, <2>5 DEF Outstanding
<1>8. PICK lat \in [Arriving -> TlbLat] :
        LET Q == pageq \cup {[pkt |-> p.pkt, tick |-> clock + lat[p]] : p \in Arriving}
        IN  \E I \in SUBSET Eligible(Q, c) :
              /\ Accepts(Eligible(Q, c), I)
              /\ pageq' = Q \ I
              /\ \E l \in [I -> DramLat] :
                   dram' = dram \cup {[pkt |-> p.pkt, due |-> clock + l[p]] : p \in I}
              /\ is_begin' = [n \in NPU |-> is_begin[n] \/ \E p \in I : p.pkt.npu = n]
  BY DEF Atomic
<1> DEFINE new == {[pkt |-> p.pkt, tick |-> clock + lat[p]] : p \in Arriving}
           Q == pageq \cup new
<1>9. Pkts(Q) = Pkts(pageq) \cup Waiting
  <2>1. Pkts(new) = Pkts(Arriving)
    <3>1. ASSUME NEW p \in Arriving PROVE \E e \in new : e.pkt = p.pkt
      <4> WITNESS [pkt |-> p.pkt, tick |-> clock + lat[p]] \in new
      <4> QED OBVIOUS
    <3>2. \A e \in new : \E p \in Arriving : e.pkt = p.pkt
      OBVIOUS
    <3> HIDE DEF new
    <3> QED BY <3>1, <3>2, SamePkts
  <2> HIDE DEF new
  <2> QED BY <1>1, <2>1, PktsUnion
<1>10. \A p, q \in Q : p.pkt = q.pkt => p = q
  <2>1. \A p, q \in Arriving : p.pkt = q.pkt => p = q
    <3>1. \A n \in NPU : \A p \in tlbq[n] : p.pkt.npu = n
      BY DEF Placed, Pkts
    <3> QED BY <3>1 DEF Arriving, Distinct
  <2>2. \A p, q \in new : p.pkt = q.pkt => p = q
    BY <2>1
  <2>3. \A p \in pageq, q \in new : p.pkt # q.pkt
    BY <1>1 DEF Distinct, InFlight, Pkts
  <2> HIDE DEF new
  <2> QED BY <2>2, <2>3 DEF Distinct
<1>11. Pkts(Q) \cap Pkts(dram) = {}
  BY <1>9 DEF Distinct, InFlight
<1>12. PICK I \in SUBSET Eligible(Q, c) :
        /\ pageq' = Q \ I
        /\ \E l \in [I -> DramLat] :
             dram' = dram \cup {[pkt |-> p.pkt, due |-> clock + l[p]] : p \in I}
  BY <1>8
<1>19. I \subseteq Q
  BY DEF Eligible
<1> HIDE DEF Q
<1>13. PICK l \in [I -> DramLat] :
         dram' = dram \cup {[pkt |-> p.pkt, due |-> clock + l[p]] : p \in I}
  BY <1>12
<1> DEFINE J == {[pkt |-> p.pkt, due |-> clock + l[p]] : p \in I}
<1>14. Pkts(pageq)' = Pkts(Q \ I) /\ Pkts(dram)' = Pkts(dram) \cup Pkts(I) /\ Pkts(J) = Pkts(I)
  <2>1. Pkts(J) = Pkts(I)
    <3>1. ASSUME NEW p \in I PROVE \E e \in J : e.pkt = p.pkt
      <4> WITNESS [pkt |-> p.pkt, due |-> clock + l[p]] \in J
      <4> QED OBVIOUS
    <3>2. \A e \in J : \E p \in I : e.pkt = p.pkt
      OBVIOUS
    <3> HIDE DEF J
    <3> QED BY <3>1, <3>2, SamePkts
  <2>2. Pkts(pageq)' = Pkts(Q \ I)
    BY <1>12 DEF Pkts
  <2>3. Pkts(dram)' = Pkts(dram \cup J)
    BY <1>13 DEF Pkts
  <2> HIDE DEF J
  <2> QED BY <2>1, <2>2, <2>3, PktsUnion
<1>15. Pkts(Q \ I) \cup Pkts(I) = Pkts(Q) /\ Pkts(Q \ I) \cap Pkts(I) = {}
  BY <1>10, <1>19 DEF Pkts
<1>16. InFlight' = InFlight \cup Waiting
  BY <1>9, <1>14, <1>15 DEF InFlight
<1>17. Placed'
  <2>1. \A n \in NPU : \A p \in Pkts(tlbq[n])' : p.npu = n
    BY <1>2
  <2>2. \A b \in Buffers : \A q \in reqs'[b] : CalcSPMidx(q.npu, q.wr) = b
    BY <1>4 DEF Placed
  <2>3. \A q \in (Waiting \cup AllReqs \cup InFlight)' : q.addr \in AddrOf[q.npu]
    BY <1>3, <1>6, <1>16 DEF Placed
  <2> QED BY <2>1, <2>2, <2>3 DEF Placed
<1>18. Distinct'
  <2>1. (Waiting \cap (AllReqs \cup InFlight))' = {}
    BY <1>3
  <2>2. (Pkts(pageq) \cap Pkts(dram))' = {}
    BY <1>11, <1>14, <1>15
  <2>3. \A n \in NPU : \A p, q \in tlbq'[n] : p.pkt = q.pkt => p = q
    BY <1>2
  <2>4. \A p, q \in pageq' : p.pkt = q.pkt => p = q
    BY <1>10, <1>12
  <2>5. \A p, q \in dram' : p.pkt = q.pkt => p = q
    <3>1. \A p, q \in J : p.pkt = q.pkt => p = q
      BY <1>10, <1>19
    <3>2. \A p \in dram, q \in J : p.pkt # q.pkt
      BY <1>11, <1>14, <1>15, ZenonT(30) DEF Pkts
    <3> HIDE DEF J
    <3>3. dram' = dram \cup J
      BY <1>13 DEF J
    <3> QED BY <3>1, <3>2, <3>3 DEF Distinct
  <2> QED BY <2>1, <2>2, <2>3, <2>4, <2>5 DEF Distinct
<1> QED BY <1>3, <1>6, <1>7, <1>16, <1>17, <1>18
LEMMA DisjointUnion ==
  ASSUME NEW S, NEW T, IsFiniteSet(S), IsFiniteSet(T), S \cap T = {}
  PROVE  /\ IsFiniteSet(S \cup T)
         /\ Cardinality(S \cup T) = Cardinality(S) + Cardinality(T)
<1>1. Cardinality(S) \in Nat /\ Cardinality(T) \in Nat
  BY FS_CardinalityType
<1>2. Cardinality(S \cap T) = 0
  BY FS_EmptySet
<1>3. /\ IsFiniteSet(S \cup T)
      /\ Cardinality(S \cup T) = Cardinality(S) + Cardinality(T) - Cardinality(S \cap T)
  BY FS_Union
<1> QED BY <1>1, <1>2, <1>3

(* The number of requests for an address, when a set of packets grows or   *)
(* shrinks.                                                                *)
LEMMA PacketsGrow ==
  ASSUME NEW S, NEW T, IsFiniteSet(S), IsFiniteSet(T), S \cap T = {}, NEW a
  PROVE  /\ IsFiniteSet(S \cup T)
         /\ Cardinality(At(S \cup T, a)) = Cardinality(At(S, a)) + Cardinality(At(T, a))
<1>1. IsFiniteSet(At(S, a)) /\ IsFiniteSet(At(T, a))
  BY FS_Subset DEF At
<1>2. At(S \cup T, a) = At(S, a) \cup At(T, a) /\ At(S, a) \cap At(T, a) = {}
  BY DEF At
<1> QED BY <1>1, <1>2, DisjointUnion

LEMMA PacketsShrink ==
  ASSUME NEW S, IsFiniteSet(S), NEW q \in S, NEW a
  PROVE  /\ IsFiniteSet(S \ {q})
         /\ Cardinality(At(S \ {q}, a))
              = Cardinality(At(S, a)) - (IF q.addr = a THEN 1 ELSE 0)
<1>1. IsFiniteSet(At(S, a))
  BY FS_Subset DEF At
<1>2. Cardinality(At(S, a)) \in Nat
  BY <1>1, FS_CardinalityType
<1>3. CASE q.addr = a
  <2>1. At(S \ {q}, a) = At(S, a) \ {q} /\ q \in At(S, a)
    BY <1>3 DEF At
  <2>2. Cardinality(At(S, a) \ {q}) = Cardinality(At(S, a)) - 1
    BY <1>1, <2>1, FS_RemoveElement
  <2>3. IsFiniteSet(S \ {q})
    BY FS_RemoveElement
  <2> QED BY <1>3, <2>1, <2>2, <2>3
<1>4. CASE q.addr # a
  <2>1. At(S \ {q}, a) = At(S, a)
    BY <1>4 DEF At
  <2> QED BY <1>2, <1>4, <2>1, FS_RemoveElement
<1> QED BY <1>3, <1>4

LEMMA AtomicCore ==
  ASSUME TypeOK, Core, NEW c \in AtomicCurs, Atomic(c)
  PROVE  Core'
<1>1. /\ Waiting' = {}
      /\ AllReqs' = AllReqs \cup Waiting
      /\ InFlight' = InFlight \cup Waiting
      /\ \A n \in NPU : Outstanding(n)' = Outstanding(n)
      /\ Placed' /\ Distinct'
  BY AtomicMoves DEF Core
<1>2. /\ IsFiniteSet(Waiting) /\ IsFiniteSet(AllReqs) /\ IsFiniteSet(InFlight)
      /\ Waiting \cap AllReqs = {} /\ Waiting \cap InFlight = {}
  BY DEF Core, FiniteQueues, Distinct
<1>3. FiniteQueues'
  <2>1. IsFiniteSet({}) /\ IsFiniteSet(AllReqs \cup Waiting) /\ IsFiniteSet(InFlight \cup Waiting)
    BY <1>2, FS_EmptySet, FS_Union
  <2> QED BY <1>1, <2>1 DEF FiniteQueues
<1>4. ReqAccounting'
  <2>1. spm0_req' = spm0_req
    BY DEF Atomic
  <2> QED BY <1>1, <2>1 DEF Core, ReqAccounting
<1>5. CallbackMatched'
  <2> SUFFICES ASSUME NEW a \in Addr
               PROVE  Cardinality(At(AllReqs', a)) = Cardinality(At(InFlight', a))
    BY DEF CallbackMatched, At
  <2>1. Cardinality(At(AllReqs \cup Waiting, a))
          = Cardinality(At(AllReqs, a)) + Cardinality(At(Waiting, a))
    BY <1>2, PacketsGrow
  <2>2. Cardinality(At(InFlight \cup Waiting, a))
          = Cardinality(At(InFlight, a)) + Cardinality(At(Waiting, a))
    BY <1>2, PacketsGrow
  <2> QED BY <1>1, <2>1, <2>2 DEF Core, CallbackMatched
<1> QED BY <1>1, <1>3, <1>4, <1>5 DEF Core
LEMMA RequestCore ==
  ASSUME TypeOK, Core, NEW n \in NPU, NEW wr \in BOOLEAN,
         NEW S \in SUBSET AddrOf[n], NEW t \in Tags, DramRequest(n, wr, S, t)
  PROVE  Core'
<1> DEFINE new == Batch(n, wr, S, t)
           entries == {[pkt |-> p, tick |-> clock] : p \in new}
<1>1. /\ new \in SUBSET Packet /\ IsFiniteSet(new) /\ Cardinality(new) \in Nat
      /\ \A p \in new : p.npu = n /\ p.addr \in AddrOf[p.npu]
  BY BatchType
<1>2. new \cap (Waiting \cup AllReqs \cup InFlight) = {}
  BY DEF DramRequest, Fresh
<1> HIDE DEF new
<1>3. Pkts(entries) = new
  <2>1. ASSUME NEW p \in new PROVE p \in Pkts(entries)
    <3>1. [pkt |-> p, tick |-> clock] \in entries
      OBVIOUS
    <3>2. \A e \in entries : e.pkt \in Pkts(entries)
      BY DEF Pkts
    <3> HIDE DEF entries
    <3> QED BY <3>1, <3>2
  <2>2. Pkts(entries) \subseteq new
    BY DEF Pkts
  <2> QED BY <2>1, <2>2
<1>4. /\ tlbq' = [tlbq EXCEPT ![n] = @ \cup entries]
      /\ spm0_req' = [spm0_req EXCEPT ![n] = @ + Cardinality(new)]
      /\ UNCHANGED <<pageq, reqs, dram>>
  BY DEF DramRequest, new
<1> HIDE DEF entries
<1>5. AllReqs' = AllReqs /\ InFlight' = InFlight /\ Pkts(pageq)' = Pkts(pageq) /\ Pkts(dram)' = Pkts(dram)
  BY <1>4 DEF AllReqs, InFlight, Pkts
<1>6. /\ Pkts(tlbq[n])' = Pkts(tlbq[n]) \cup new
      /\ \A m \in NPU : m # n => Pkts(tlbq[m])' = Pkts(tlbq[m])
  BY <1>3, <1>4, PktsUnion DEF TypeOK
<1>7. Waiting' = Waiting \cup new
  BY <1>6 DEF Waiting
<1>8. Placed'
  <2>1. \A m \in NPU : \A p \in Pkts(tlbq[m])' : p.npu = m
    BY <1>1, <1>6 DEF Core, Placed
  <2>2. \A b \in Buffers : \A q \in reqs'[b] : CalcSPMidx(q.npu, q.wr) = b
    BY <1>4 DEF Core, Placed
  <2>3. \A q \in (Waiting \cup AllReqs \cup InFlight)' : q.addr \in AddrOf[q.npu]
    BY <1>1, <1>5, <1>7 DEF Core, Placed
  <2> QED BY <2>1, <2>2, <2>3 DEF Placed
<1>9. Distinct'
  <2>1. (Waiting \cap (AllReqs \cup InFlight))' = {}
    BY <1>2, <1>5, <1>7 DEF Core, Distinct
  <2>2. \A m \in NPU : \A p, q \in tlbq'[m] : p.pkt = q.pkt => p = q
    <3>1. \A p, q \in entries : p.pkt = q.pkt => p = q
      BY DEF entries
    <3>2. \A p \in tlbq[n], q \in entries : p.pkt # q.pkt
      BY <1>2, <1>3 DEF Pkts, Waiting
    <3>3. \A p, q \in tlbq'[n] : p.pkt = q.pkt => p = q
      BY <1>4, <3>1, <3>2 DEF Core, Distinct, TypeOK
    <3> QED BY <1>4, <3>3 DEF Core, Distinct, TypeOK
  <2> QED BY <1>4, <1>5, <2>1, <2>2 DEF Core, Distinct
<1>10. FiniteQueues'
  BY <1>1, <1>5, <1>7, FS_Union DEF Core, FiniteQueues
<1>11. ReqAccounting'
  <2> SUFFICES ASSUME NEW m \in NPU PROVE spm0_req'[m] = Cardinality(Outstanding(m)')
    BY DEF ReqAccounting
  <2>1. CASE m # n
    <3>1. Outstanding(m)' = Outstanding(m)
      BY <1>4, <1>6, <2>1 DEF Outstanding
    <3> QED BY <1>4, <2>1, <3>1 DEF Core, ReqAccounting, TypeOK
  <2>2. CASE m = n
    <3>1. Outstanding(n)' = Outstanding(n) \cup new
      BY <1>4, <1>6 DEF Outstanding
    <3>2. Outstanding(n) \in SUBSET (Waiting \cup AllReqs)
      BY DEF Outstanding, Waiting, AllReqs
    <3>3. IsFiniteSet(Outstanding(n)) /\ Outstanding(n) \cap new = {}
      BY <1>2, <3>2, FS_Union, FS_Subset DEF Core, FiniteQueues
    <3>4. Cardinality(Outstanding(n) \cup new) = Cardinality(Outstanding(n)) + Cardinality(new)
      BY <1>1, <3>3, DisjointUnion
    <3> QED BY <1>4, <2>2, <3>1, <3>4 DEF Core, ReqAccounting, TypeOK
  <2> QED BY <2>1, <2>2
<1>12. CallbackMatched'
  <2>1. \A a \in Addr : At(AllReqs, a)' = At(AllReqs, a) /\ At(InFlight, a)' = At(InFlight, a)
    BY <1>5 DEF At
  <2> QED BY <2>1 DEF Core, CallbackMatched
<1> QED BY <1>8, <1>9, <1>10, <1>11, <1>12 DEF Core
-----------------------------------------------------------------------------
(* A packet on its way to or inside the DRAM finds its address in a        *)
(* request list, and every list that has it belongs to the NPU that sent   *)
(* the packet.                                                             *)
LEMMA FlightFound ==
  ASSUME TypeOK, Core, NEW p \in InFlight
  PROVE  /\ p.npu \in NPU
         /\ Holders(p.addr) # {}
         /\ Least(Holders(p.addr)) \in Buffers
         /\ \A b \in Holders(p.addr) : b % N = p.npu
<1> DEFINE a == p.addr
<1>1. p \in Packet /\ a \in Addr /\ p.npu \in NPU
  BY DEF TypeOK, InFlight, Pkts, Entry, Packet
<1>2. At(AllReqs, a) # {}
  <2>1. p \in At(InFlight, a)
    BY <1>1 DEF At
  <2>2. IsFiniteSet(At(InFlight, a)) /\ IsFiniteSet(At(AllReqs, a))
    BY FS_Subset DEF At, Core, FiniteQueues
  <2>3. Cardinality(At(InFlight, a)) # 0
    BY <2>1, <2>2, FS_EmptySet
  <2>4. Cardinality(At(AllReqs, a)) = Cardinality(At(InFlight, a))
    BY <1>1 DEF Core, CallbackMatched
  <2> QED BY <2>2, <2>3, <2>4, FS_EmptySet
<1>3. Holders(a) # {}
  BY <1>2 DEF Holders, At, AllReqs
<1>4. Least(Holders(a)) \in Buffers
  <2>1. Holders(a) \in SUBSET Nat /\ Holders(a) \in SUBSET Buffers
    BY NAssumption DEF Holders, Buffers
  <2> QED BY <1>3, <2>1, LeastExists
<1>5. ASSUME NEW b \in Holders(a) PROVE b % N = p.npu
  <2>1. b \in Buffers
    BY DEF Holders
  <2>2. PICK q \in reqs[b] : q.addr = a
    BY DEF Holders
  <2>3. q \in Packet /\ q.npu \in NPU /\ q.wr \in BOOLEAN
    BY <2>1 DEF TypeOK, Packet
  <2>4. CalcSPMidx(q.npu, q.wr) = b
    BY <2>1 DEF Core, Placed
  <2>5. b % N = q.npu
    BY <2>3, <2>4, BufferOwner
  <2>6. a \in AddrOf[q.npu] /\ a \in AddrOf[p.npu]
    BY <1>1, <2>1, <2>2 DEF Core, Placed, AllReqs
  <2> QED BY <1>1, <2>3, <2>5, <2>6, AddrAssumption
<1> QED BY <1>1, <1>3, <1>4, <1>5

LEMMA HolderFound ==
  ASSUME TypeOK, Core, NEW d \in dram
  PROVE  /\ Holders(d.pkt.addr) # {}
         /\ Least(Holders(d.pkt.addr)) \in Buffers
         /\ \A b \in Holders(d.pkt.addr) : b % N = d.pkt.npu
<1>1. d.pkt \in InFlight
  BY DEF InFlight, Pkts
<1> QED BY <1>1, FlightFound

LEMMA CallbackCore ==
  ASSUME TypeOK, Core, NEW d \in dram, Callback(d)
  PROVE  Core'
<1> DEFINE a == d.pkt.addr
           b == Least(Holders(a))
<1>1. Holders(a) # {} /\ b \in Buffers /\ b % N \in NPU
  BY HolderFound, BufferOwner
<1>2. b \in Holders(a)
  <2>1. Holders(a) \in SUBSET Nat
    BY DEF Holders
  <2> QED BY <1>1, <2>1, LeastExists
<1>3. PICK q \in reqs[b] :
        /\ q.addr = a
        /\ reqs' = [reqs EXCEPT ![b] = @ \ {q}]
        /\ spm0_req' = [spm0_req EXCEPT ![b % N] = @ - 1]
        /\ dram' = dram \ {d}
        /\ UNCHANGED <<tlbq, pageq>>
  BY <1>1 DEF Callback, CallbackLost, CallbackFound
<1> HIDE DEF b
<1>4. /\ q \in Packet /\ q.npu \in NPU /\ q.wr \in BOOLEAN
      /\ CalcSPMidx(q.npu, q.wr) = b /\ b % N = q.npu
  <2>1. q \in Packet /\ q.npu \in NPU /\ q.wr \in BOOLEAN
    BY <1>1 DEF TypeOK, Packet
  <2>2. CalcSPMidx(q.npu, q.wr) = b
    BY <1>1 DEF Core, Placed
  <2> QED BY <2>1, <2>2, BufferOwner
<1>5. q \in AllReqs /\ q \notin Waiting
  BY <1>1 DEF AllReqs, Core, Distinct
<1>6. \A x \in Buffers : x # b => q \notin reqs[x]
  BY <1>4 DEF Core, Placed
<1>7. AllReqs' = AllReqs \ {q}
  BY <1>1, <1>3, <1>6, SMTT(30) DEF AllReqs, TypeOK
<1>8. Waiting' = Waiting /\ Pkts(pageq)' = Pkts(pageq) /\ \A n \in NPU : Pkts(tlbq[n])' = Pkts(tlbq[n])
  BY <1>3 DEF Waiting, Pkts
<1>9. d.pkt \in Pkts(dram) /\ d.pkt \notin Pkts(pageq) /\ Pkts(dram)' = Pkts(dram) \ {d.pkt}
  <2>1. d.pkt \in Pkts(dram)
    BY DEF Pkts
  <2>2. Pkts(dram \ {d}) = Pkts(dram) \ {d.pkt}
    BY DEF Core, Distinct, Pkts
  <2>3. Pkts(dram)' = Pkts(dram \ {d})
    BY <1>3 DEF Pkts
  <2> QED BY <2>1, <2>2, <2>3 DEF Core, Distinct
<1>10. InFlight' = InFlight \ {d.pkt} /\ d.pkt \in InFlight
  BY <1>8, <1>9 DEF InFlight
<1>11. Placed'
  <2>1. \A x \in Buffers : \A r \in reqs'[x] : CalcSPMidx(r.npu, r.wr) = x
    BY <1>1, <1>3 DEF Core, Placed, TypeOK
  <2>2. \A n \in NPU : \A p \in Pkts(tlbq[n])' : p.npu = n
    BY <1>8 DEF Core, Placed
  <2>3. \A r \in (Waiting \cup AllReqs \cup InFlight)' : r.addr \in AddrOf[r.npu]
    BY <1>7, <1>8, <1>10 DEF Core, Placed
  <2> QED BY <2>1, <2>2, <2>3 DEF Placed
<1>12. Distinct'
  <2>1. (Waiting \cap (AllReqs \cup InFlight))' = {} /\ (Pkts(pageq) \cap Pkts(dram))' = {}
    BY <1>7, <1>8, <1>9, <1>10 DEF Core, Distinct
  <2> QED BY <1>3, <2>1 DEF Core, Distinct
<1>13. FiniteQueues'
  BY <1>7, <1>8, <1>10, FS_RemoveElement, FS_Subset DEF Core, FiniteQueues
<1>14. ReqAccounting'
  <2> SUFFICES ASSUME NEW n \in NPU PROVE spm0_req'[n] = Cardinality(Outstanding(n)')
    BY DEF ReqAccounting
  <2>1. n \in Buffers /\ n + N \in Buffers
    OBVIOUS
  <2>2. CASE n # q.npu
    <3>1. n # b /\ n + N # b
      BY <1>4, <2>2, BufferOwner
    <3>2. Outstanding(n)' = Outstanding(n)
      BY <1>3, <1>8, <2>1, <3>1 DEF Outstanding, TypeOK
    <3> QED BY <1>1, <1>3, <1>4, <2>2, <3>2 DEF Core, ReqAccounting, TypeOK
  <2>3. CASE n = q.npu
    <3>1. b \in {n, n + N}
      BY <1>4, <2>3 DEF CalcSPMidx
    <3>2. q \notin Pkts(tlbq[n])
      BY <1>5 DEF Waiting
    <3>3. Outstanding(n)' = Outstanding(n) \ {q} /\ q \in Outstanding(n)
      BY <1>3, <1>6, <1>8, <2>1, <3>1, <3>2, ZenonT(30) DEF Outstanding, TypeOK
    <3>4. IsFiniteSet(Outstanding(n))
      <4>1. Outstanding(n) \in SUBSET (Waiting \cup AllReqs)
        BY <2>1 DEF Outstanding, Waiting, AllReqs
      <4> QED BY <4>1, FS_Union, FS_Subset DEF Core, FiniteQueues
    <3>5. Cardinality(Outstanding(n) \ {q}) = Cardinality(Outstanding(n)) - 1
      BY <3>3, <3>4, FS_RemoveElement
    <3> QED BY <1>1, <1>3, <1>4, <2>3, <3>3, <3>5 DEF Core, ReqAccounting, TypeOK
  <2> QED BY <2>2, <2>3
<1>15. CallbackMatched'
  <2> SUFFICES ASSUME NEW x \in Addr
               PROVE  Cardinality(At(AllReqs', x)) = Cardinality(At(InFlight', x))
    BY DEF CallbackMatched, At
  <2>1. Cardinality(At(AllReqs \ {q}, x))
          = Cardinality(At(AllReqs, x)) - (IF q.addr = x THEN 1 ELSE 0)
    BY <1>5, PacketsShrink DEF Core, FiniteQueues
  <2>2. Cardinality(At(InFlight \ {d.pkt}, x))
          = Cardinality(At(InFlight, x)) - (IF d.pkt.addr = x THEN 1 ELSE 0)
    BY <1>10, PacketsShrink DEF Core, FiniteQueues
  <2> QED BY <1>3, <1>7, <1>10, <2>1, <2>2 DEF Core, CallbackMatched
<1> QED BY <1>11, <1>12, <1>13, <1>14, <1>15 DEF Core
LEMMA CoreUnchanged ==
  ASSUME Core, UNCHANGED <<tlbq, pageq, reqs, dram, spm0_req>>
  PROVE  Core'
<1>1. UNCHANGED <<Waiting, AllReqs, InFlight, Pkts(pageq), Pkts(dram)>>
  BY DEF Waiting, AllReqs, InFlight, Pkts
<1>2. \A n \in NPU : Pkts(tlbq[n])' = Pkts(tlbq[n]) /\ Outstanding(n)' = Outstanding(n)
  BY DEF Pkts, Outstanding
<1>3. Placed' /\ Distinct' /\ FiniteQueues'
  BY <1>1, <1>2 DEF Core, Placed, Distinct, FiniteQueues
<1>4. ReqAccounting'
  BY <1>2 DEF Core, ReqAccounting
<1>5. CallbackMatched'
  BY <1>1 DEF Core, CallbackMatched, At
<1> QED BY <1>3, <1>4, <1>5 DEF Core

LEMMA InitCore == Init => Core
<1> SUFFICES ASSUME Init PROVE Core
  OBVIOUS
<1>1. Waiting = {} /\ AllReqs = {} /\ InFlight = {} /\ Pkts(pageq) = {} /\ Pkts(dram) = {}
  BY DEF Init, Waiting, AllReqs, InFlight, Pkts
<1>2. \A n \in NPU : Pkts(tlbq[n]) = {} /\ Outstanding(n) = {}
  BY DEF Init, Pkts, Outstanding
<1>3. Placed /\ Distinct /\ FiniteQueues
  BY <1>1, <1>2, FS_EmptySet DEF Init, Placed, Distinct, FiniteQueues
<1>4. ReqAccounting
  BY <1>2, FS_EmptySet DEF Init, ReqAccounting
<1>5. CallbackMatched
  BY <1>1, FS_EmptySet DEF CallbackMatched, At
<1> QED BY <1>3, <1>4, <1>5 DEF Core

LEMMA NextCore == TypeOK /\ Core /\ [Next]_vars => Core'
<1> SUFFICES ASSUME TypeOK, Core, [Next]_vars PROVE Core'
  OBVIOUS
<1>1. CASE PopStall
  BY <1>1, AtomicCore DEF PopStall
<1>2. CASE StallTick \/ SyncTick \/ KeepTick
  BY <1>2, AtomicCore DEF StallTick, SyncTick, KeepTick, AtomicTick
<1>3. CASE StallReturn \/ SyncReturn \/ KeepReturn
  BY <1>3, CoreUnchanged DEF StallReturn, SyncReturn, KeepReturn, TickDone, queues
<1>4. CASE \E d \in dram : Callback(d)
  BY <1>4, CallbackCore
<1>5. ASSUME NEW n \in NPU, Submit(n) PROVE Core'
  BY <1>5, RequestCore DEF Submit
<1>6. ASSUME NEW n \in NPU, MarkFinished(n) PROVE Core'
  BY <1>6, CoreUnchanged DEF MarkFinished, Finish, queues
<1>7. CASE UNCHANGED vars
  BY <1>7, CoreUnchanged DEF vars, queues
<1> QED BY <1>1, <1>2, <1>3, <1>4, <1>5, <1>6, <1>7 DEF Next, Inside

(* The inductive invariant: where a packet is tells whose it is, no packet *)
(* is in two places, and the counts agree.                                 *)
THEOREM CoreInvariant == Spec => []Core
BY TypeCorrect, InitCore, NextCore, PTL DEF Spec

(* m_spm0_req, which popStallRequest takes for "nothing outstanding", is   *)
(* exact: increaseReq and decreaseReq never drift apart.                   *)
THEOREM AccountingCorrect == Spec => []ReqAccounting
<1>1. Core => ReqAccounting
  BY DEF Core
<1> QED BY <1>1, CoreInvariant, PTL

(* callback() always finds the address it is called with, in a buffer of   *)
(* the NPU that sent the transaction.                                      *)
THEOREM CallbackCorrect == Spec => []CallbackCreditsOwner
<1>1. TypeOK /\ Core => CallbackCreditsOwner
  <2> SUFFICES ASSUME TypeOK, Core, NEW d \in dram
               PROVE  /\ Holders(d.pkt.addr) # {}
                      /\ Least(Holders(d.pkt.addr)) % N = d.pkt.npu
    BY DEF CallbackCreditsOwner
  <2>1. Holders(d.pkt.addr) # {} /\ \A b \in Holders(d.pkt.addr) : b % N = d.pkt.npu
    BY HolderFound
  <2>2. Holders(d.pkt.addr) \in SUBSET Nat
    BY DEF Holders
  <2> QED BY <2>1, <2>2, LeastExists
<1> QED BY <1>1, TypeCorrect, CoreInvariant, PTL

-----------------------------------------------------------------------------
(* assert(iter->first == m_clock) in atomic() never fails: every tick goes *)
(* through an atomic() that empties the TLB queues.                        *)
THEOREM TlbQueuesCurrent == Spec => []TlbQueueCurrent
<1>1. Init => TlbQueueCurrent
  BY DEF Init, TlbQueueCurrent
<1>2. TypeOK /\ TlbQueueCurrent /\ [Next]_vars => TlbQueueCurrent'
  <2> SUFFICES ASSUME TypeOK, TlbQueueCurrent, [Next]_vars PROVE TlbQueueCurrent'
    OBVIOUS
  <2>1. CASE PopStall \/ StallTick \/ SyncTick \/ KeepTick
    <3>1. tlbq' = [n \in NPU |-> {}]
      BY <2>1 DEF PopStall, StallTick, SyncTick, KeepTick, AtomicTick, Atomic
    <3> QED BY <3>1 DEF TlbQueueCurrent
  <2>2. ASSUME NEW n \in NPU, Submit(n) PROVE TlbQueueCurrent'
    BY <2>2 DEF Submit, DramRequest, TlbQueueCurrent, TypeOK
  <2>3. CASE UNCHANGED <<clock, tlbq>>
    BY <2>3 DEF TlbQueueCurrent
  <2>4. CASE \/ StallReturn \/ SyncReturn \/ KeepReturn \/ \E d \in dram : Callback(d)
             \/ \E n \in NPU : MarkFinished(n) \/ UNCHANGED vars
    BY <2>3, <2>4 DEF StallReturn, SyncReturn, KeepReturn, TickDone, Callback,
                      MarkFinished, Finish, queues, vars
  <2> QED BY <2>1, <2>2, <2>4 DEF Next, Inside
<1> QED BY <1>1, <1>2, TypeCorrect, PTL DEF Spec

-----------------------------------------------------------------------------
(* Tile-level bandwidth interleaving.  The bandwidth is given away only by *)
(* an NPU whose request lists are empty, and that has nothing in the DRAM. *)
Owner == TiledBW => \A d \in dram : d.pkt.npu = cur

Listed ==
  \A p \in InFlight : p.npu \in NPU /\ (reqs[p.npu] # {} \/ reqs[p.npu + N] # {})

LEMMA ListsCoverFlight == TypeOK /\ Core => Listed
<1> SUFFICES ASSUME TypeOK, Core, NEW p \in InFlight
             PROVE  p.npu \in NPU /\ (reqs[p.npu] # {} \/ reqs[p.npu + N] # {})
  BY DEF Listed
<1>1. p.npu \in NPU /\ Holders(p.addr) # {} /\ \A b \in Holders(p.addr) : b % N = p.npu
  BY FlightFound
<1>2. PICK b \in Holders(p.addr) : b % N = p.npu
  BY <1>1
<1>3. b \in Buffers /\ reqs[b] # {}
  BY DEF Holders
<1>4. PICK q \in reqs[b] : TRUE
  BY <1>3
<1>5. q.npu \in NPU /\ q.wr \in BOOLEAN /\ CalcSPMidx(q.npu, q.wr) = b
  BY <1>3, <1>4 DEF TypeOK, Packet, Core, Placed
<1>6. b % N = q.npu
  BY <1>5, BufferOwner
<1> QED BY <1>1, <1>2, <1>3, <1>5, <1>6 DEF CalcSPMidx

LEMMA AtomicOwner ==
  ASSUME TypeOK, Owner, TiledBW, NEW c \in AtomicCurs, Atomic(c)
  PROVE  \A d \in dram' : d.pkt.npu = c
<1>1. \A d \in dram : d.pkt.npu = c
  <2>1. \A d \in dram : d.pkt.npu \in NPU
    BY DEF TypeOK, Packet
  <2>2. cur # None => c = cur
    BY DEF AtomicCurs
  <2> QED BY <2>1, <2>2 DEF Owner
<1>2. PICK lat \in [Arriving -> TlbLat] :
        LET Q == pageq \cup {[pkt |-> p.pkt, tick |-> clock + lat[p]] : p \in Arriving}
        IN  \E I \in SUBSET Eligible(Q, c) :
              /\ Accepts(Eligible(Q, c), I)
              /\ pageq' = Q \ I
              /\ \E l \in [I -> DramLat] :
                   dram' = dram \cup {[pkt |-> p.pkt, due |-> clock + l[p]] : p \in I}
              /\ is_begin' = [n \in NPU |-> is_begin[n] \/ \E p \in I : p.pkt.npu = n]
  BY DEF Atomic
<1> DEFINE Q == pageq \cup {[pkt |-> p.pkt, tick |-> clock + lat[p]] : p \in Arriving}
<1> HIDE DEF Q
<1>3. PICK I \in SUBSET Eligible(Q, c) :
        \E l \in [I -> DramLat] :
          dram' = dram \cup {[pkt |-> p.pkt, due |-> clock + l[p]] : p \in I}
  BY <1>2 DEF Q
<1>4. \A p \in I : p.pkt.npu = c
  BY DEF Eligible
<1> QED BY <1>1, <1>3, <1>4

LEMMA NextOwner ==
  ASSUME TypeOK, Core, Owner, [Next]_vars, TypeOK', Core'
  PROVE  Owner'
<1> SUFFICES ASSUME TiledBW PROVE \A d \in dram' : d.pkt.npu = cur'
  BY DEF Owner
<1>1. \A d \in dram' : /\ d.pkt.npu \in NPU
                       /\ reqs'[d.pkt.npu] # {} \/ reqs'[d.pkt.npu + N] # {}
  <2>1. (TypeOK /\ Core => Listed)'
    BY ListsCoverFlight, PTL
  <2> QED BY <2>1 DEF Listed, InFlight, Pkts
<1>2. CASE PopStall
  <2>1. PICK c \in AtomicCurs :
          Atomic(c) /\ (PopStallIdle(c) \/ PopStallLeftover(c) \/ PopStallSearch(c))
    BY <1>2 DEF PopStall
  <2>2. c \in NPU \cup {None} /\ \A d \in dram' : d.pkt.npu = c
    BY <2>1, AtomicType, AtomicOwner
  <2>3. CASE PopStallSearch(c)
    <3>1. /\ cur' \in {c, None}
          /\ cur' = None => c = None \/ (reqs'[c] = {} /\ reqs'[c + N] = {})
      BY <2>3 DEF PopStallSearch, ReleasedCur, CheckSPMRequest
    <3> QED BY <1>1, <2>2, <3>1
  <2> QED BY <2>1, <2>2, <2>3 DEF PopStallIdle, PopStallLeftover
<1>3. CASE StallTick \/ SyncTick \/ KeepTick
  BY <1>3, AtomicOwner DEF StallTick, SyncTick, KeepTick, AtomicTick
<1>4. CASE StallReturn \/ KeepReturn
  <2>1. UNCHANGED <<dram, reqs>>
    BY <1>4 DEF StallReturn, KeepReturn, TickDone, queues
  <2>2. /\ cur' \in {cur, None}
        /\ cur' = None => cur = None \/ (reqs[cur] = {} /\ reqs[cur + N] = {})
    BY <1>4 DEF StallReturn, KeepReturn, ReleasedCur, CheckSPMRequest
  <2> QED BY <1>1, <2>1, <2>2 DEF Owner, TypeOK
<1>5. CASE \/ SyncReturn \/ UNCHANGED vars \/ \E d \in dram : Callback(d)
           \/ \E n \in NPU : Submit(n) \/ MarkFinished(n)
  <2>1. dram' \subseteq dram /\ cur' = cur
    BY <1>5 DEF SyncReturn, TickDone, Callback, Submit, DramRequest, MarkFinished, Finish,
                queues, vars
  <2> QED BY <2>1 DEF Owner
<1> QED BY <1>2, <1>3, <1>4, <1>5 DEF Next, Inside

(* The DRAM never holds transactions of two NPUs when tiles take turns.    *)
THEOREM TiledExclusiveHolds == Spec => []TiledExclusive
<1>1. Init => Owner
  BY DEF Init, Owner
<1>2. Owner => TiledExclusive
  BY DEF Owner, TiledExclusive
<1>3. Spec => []Owner
  BY <1>1, NextOwner, TypeCorrect, CoreInvariant, PTL DEF Spec
<1> QED BY <1>2, <1>3, PTL

-----------------------------------------------------------------------------
(* The memory controller implements CompletionService: popStallRequest      *)
(* reports an NPU only when none of its requests is left, and once per      *)
(* submission.                                                              *)

(* What popStallRequest remembers across its DRAM tick, and from one call  *)
(* to the next, is still true when it is reported.                         *)
Settled(n) == Outstanding(n) = {} /\ cur # n

EndServed ==
  endidx # KeepStalling =>
    /\ pc = "stall" \/ (pc = "dram" /\ caller = "stall")
    /\ \A n \in NPU : n = endidx => ~no_req[n] /\ n \notin finished /\ Settled(n)
PoppedServed ==
  \A n \in NPU : popped[n] => ~no_req[n] /\ reqs[n] = {} /\ reqs[n + N] = {} /\ cur # n
ReportInv == EndServed /\ PoppedServed

Owed(n) == ~no_req[n] \/ tlbq[n] # {}

-----------------------------------------------------------------------------
(* Steps of the abstract service, pointwise. *)

LEMMA ServiceStutters ==
  ASSUME UNCHANGED <<spm0_req, reported, finished>>, \A n \in NPU : Owed(n)' = Owed(n)
  PROVE  UNCHANGED CS!csvars
<1>1. [n \in NPU |-> Owed(n)]' = [n \in NPU |-> Owed(n)]
  BY Zenon
<1> QED BY <1>1 DEF CS!csvars, Owed

LEMMA ServiceReports ==
  ASSUME NEW m \in NPU, UNCHANGED <<spm0_req, finished>>, spm0_req[m] = 0,
         reported' = [reported EXCEPT ![m] = ~@], Owed(m), ~Owed(m)',
         \A n \in NPU \ {m} : Owed(n)' = Owed(n)
  PROVE  CS!Next
<1> DEFINE f == [n \in NPU |-> Owed(n)]
<1>1. f[m] /\ f' = [f EXCEPT ![m] = FALSE]
  <2>1. f[m]
    BY Zenon
  <2>3. Owed(m)' = FALSE
    BY DEF Owed
  <2>2. \A n \in NPU : f'[n] = IF n = m THEN FALSE ELSE f[n]
    BY <2>3, Zenon
  <2> QED BY <2>1, <2>2, Zenon
<1>2. CS!Report(m)
  BY <1>1 DEF CS!Report, Owed
<1> QED BY <1>2 DEF CS!Next

LEMMA ServiceCompletes ==
  ASSUME NEW m \in NPU, spm0_req[m] > 0, spm0_req' = [spm0_req EXCEPT ![m] = @ - 1],
         UNCHANGED <<no_req, tlbq, reported, finished>>
  PROVE  CS!Next
<1>1. CS!Complete(m)
  BY DEF CS!Complete
<1> QED BY <1>1 DEF CS!Next

LEMMA ServiceTakes ==
  ASSUME TypeOK, NEW m \in NPU, spm0_req'[m] > spm0_req[m],
         spm0_req' = [spm0_req EXCEPT ![m] = spm0_req'[m]],
         m \notin finished, UNCHANGED <<reported, finished>>, Owed(m)', \A n \in NPU \ {m} : Owed(n)' = Owed(n)
  PROVE  CS!Next
<1> DEFINE f == [n \in NPU |-> Owed(n)]
<1>1. f' = [f EXCEPT ![m] = TRUE]
  <2>1. \A n \in NPU : f'[n] = IF n = m THEN TRUE ELSE f[n]
    BY Zenon
  <2> QED BY <2>1, Zenon
<1>2. CS!Submit(m)
  BY <1>1 DEF CS!Submit, Owed
<1> QED BY <1>2 DEF CS!Next

-----------------------------------------------------------------------------
LEMMA ServiceDismisses ==
  ASSUME NEW m \in NPU, spm0_req[m] = 0, finished' = finished \cup {m},
         UNCHANGED <<spm0_req, reported, no_req, tlbq>>
  PROVE  CS!Next
<1>1. CS!Dismiss(m)
  BY DEF CS!Dismiss
<1> QED BY <1>1 DEF CS!Next

(* Only the return of an NPU is a report.                                  *)
LEMMA ReportFlips ==
  ASSUME TypeOK, NEW r, PopStallReturns(r)
  PROVE  /\ r \notin NPU => UNCHANGED reported
         /\ r \in NPU => reported' = [reported EXCEPT ![r] = ~@]
<1>1. reported \in [NPU -> BOOLEAN]
  BY DEF TypeOK
<1>2. reported' = [n \in NPU |-> (n = r) # reported[n]]
  BY DEF PopStallReturns
<1>3. ASSUME r \notin NPU PROVE reported' = reported
  <2>1. \A n \in NPU : ((n = r) # reported[n]) = reported[n]
    BY <1>1, <1>3, Zenon
  <2> QED BY <1>1, <1>2, <2>1, Zenon
<1>4. ASSUME r \in NPU PROVE reported' = [reported EXCEPT ![r] = ~@]
  <2>1. \A n \in NPU : ((n = r) # reported[n]) = (IF n = r THEN ~reported[n] ELSE reported[n])
    BY <1>1, Zenon
  <2> QED BY <1>1, <1>2, <1>4, <2>1, Zenon
<1> QED BY <1>3, <1>4

LEMMA ServedOutstanding ==
  ASSUME NEW n \in NPU, tlbq[n] = {}, reqs[n] = {}, reqs[n + N] = {}
  PROVE  Outstanding(n) = {}
BY DEF Outstanding, Pkts

(* An NPU with nothing outstanding and nothing in its count. *)
LEMMA NothingCounted ==
  ASSUME Core, NEW n \in NPU, Outstanding(n) = {}
  PROVE  spm0_req[n] = 0
BY FS_EmptySet DEF Core, ReqAccounting

LEMMA ServedNPU ==
  ASSUME NEW noreq, NEW n \in Served(noreq)
  PROVE  n \in NPU /\ ~noreq[n] /\ Outstanding(n) = {} /\ tlbq[n] = {}
         /\ reqs[n] = {} /\ reqs[n + N] = {}
<1>1. n \in NPU /\ ~noreq[n] /\ tlbq[n] = {} /\ reqs[n] = {} /\ reqs[n + N] = {}
  BY DEF Served, CheckNPURequest, CheckSPMRequest
<1> QED BY <1>1, ServedOutstanding

(* An NPU whose lists are empty gets the bandwidth from nobody.            *)
LEMMA CurStays ==
  ASSUME TypeOK, Core, NEW n \in NPU, reqs[n] = {}, reqs[n + N] = {}, cur # n,
         NEW c \in AtomicCurs
  PROVE  c # n
<1>1. CASE c = cur
  BY <1>1
<1>2. CASE \E e \in pageq : c = e.pkt.npu
  <2>1. PICK e \in pageq : c = e.pkt.npu
    BY <1>2
  <2>2. e.pkt \in InFlight
    BY DEF InFlight, Pkts
  <2>3. reqs[c] # {} \/ reqs[c + N] # {}
    BY <2>1, <2>2, ListsCoverFlight DEF Listed
  <2> QED BY <2>3
<1> QED BY <1>1, <1>2 DEF AtomicCurs

LEMMA SettledLists ==
  ASSUME NEW n \in NPU, Outstanding(n) = {}
  PROVE  tlbq[n] = {} /\ reqs[n] = {} /\ reqs[n + N] = {}
BY DEF Outstanding, Pkts

(* checkNPURequest releases the bandwidth of the NPU that it finds served. *)
LEMMA Released ==
  ASSUME Core, NEW n \in NPU, CheckNPURequest(n), NEW c, NEW Called, n \in Called
  PROVE  ReleasedCur(c, Called) # n
<1>1. Outstanding(n) = {}
  BY ServedOutstanding DEF CheckNPURequest, CheckSPMRequest
<1>2. spm0_req[n] = 0
  BY <1>1, NothingCounted
<1>3. CASE c = n
  BY <1>2, <1>3, NAssumption DEF ReleasedCur, CheckNPURequest, None, NPU
<1>4. CASE c # n
  BY <1>4, NAssumption DEF ReleasedCur, None, NPU
<1> QED BY <1>3, <1>4

(* atomic() keeps what is remembered; it moves requests but ends none.     *)
LEMMA AtomicKeeps ==
  ASSUME TypeOK, Core, PoppedServed, NEW c \in AtomicCurs, Atomic(c)
  PROVE  /\ \A n \in NPU : Outstanding(n)' = Outstanding(n) /\ tlbq'[n] = {}
         /\ \A n \in NPU : AtomicNoReq[n] <=> ~Owed(n)
         /\ \A n \in NPU : AtomicPopped[n] =>
              /\ popped[n] /\ Owed(n) /\ ~AtomicNoReq[n] /\ Outstanding(n) = {}
              /\ reqs'[n] = {} /\ reqs'[n + N] = {} /\ c # n
         /\ \A n \in NPU : Settled(n) => c # n
         /\ UNCHANGED <<spm0_req, finished>>
<1>1. \A n \in NPU : Outstanding(n)' = Outstanding(n) /\ tlbq'[n] = {}
  BY AtomicMoves DEF Core, Atomic
<1>2. \A n \in NPU : AtomicNoReq[n] <=> ~Owed(n)
  BY Zenon DEF AtomicNoReq, Owed
<1>3. ASSUME NEW n \in NPU, AtomicPopped[n]
      PROVE  /\ popped[n] /\ Owed(n) /\ ~AtomicNoReq[n] /\ Outstanding(n) = {}
             /\ reqs'[n] = {} /\ reqs'[n + N] = {} /\ c # n
  <2>1. popped[n] /\ tlbq[n] = {}
    BY <1>3, Zenon DEF AtomicPopped
  <2>2. ~no_req[n] /\ reqs[n] = {} /\ reqs[n + N] = {} /\ cur # n
    BY <2>1 DEF PoppedServed
  <2>3. Outstanding(n) = {}
    BY <2>1, <2>2, ServedOutstanding
  <2>4. reqs'[n] = {} /\ reqs'[n + N] = {}
    BY <1>1, <2>3 DEF Outstanding
  <2>5. c # n
    BY <2>2, CurStays
  <2> QED BY <1>2, <2>1, <2>2, <2>3, <2>4, <2>5 DEF Owed
<1>4. ASSUME NEW n \in NPU, Settled(n) PROVE c # n
  BY <1>4, SettledLists, CurStays DEF Settled
<1> QED BY <1>1, <1>2, <1>3, <1>4 DEF Atomic

-----------------------------------------------------------------------------
LEMMA InitReport == Init => ReportInv /\ CS!Init
<1> SUFFICES ASSUME Init PROVE ReportInv /\ CS!Init
  OBVIOUS
<1>1. ReportInv
  BY DEF Init, ReportInv, EndServed, PoppedServed
<1>2. \A n \in NPU : (~no_req[n] \/ tlbq[n] # {}) = FALSE
  BY DEF Init
<1>3. [n \in NPU |-> ~no_req[n] \/ tlbq[n] # {}]
        = [n \in NPU |-> FALSE]
  BY <1>2, Zenon
<1>4. CS!Init
  BY <1>3 DEF Init, CS!Init
<1> QED BY <1>1, <1>4

(* "No request!" and the polls: the service sees nothing of an atomic().   *)
LEMMA PopStallReport ==
  ASSUME TypeOK, Core, ReportInv, PopStall
  PROVE  ReportInv' /\ [CS!Next]_CS!csvars
<1>1. PICK c \in AtomicCurs :
        Atomic(c) /\ (PopStallIdle(c) \/ PopStallLeftover(c) \/ PopStallSearch(c))
  BY DEF PopStall
<1>2. /\ \A n \in NPU : Outstanding(n)' = Outstanding(n) /\ tlbq'[n] = {}
      /\ \A n \in NPU : AtomicNoReq[n] <=> ~Owed(n)
      /\ \A n \in NPU : AtomicPopped[n] =>
           /\ popped[n] /\ Owed(n) /\ ~AtomicNoReq[n] /\ Outstanding(n) = {}
           /\ reqs'[n] = {} /\ reqs'[n + N] = {} /\ c # n
      /\ \A n \in NPU : Settled(n) => c # n
      /\ UNCHANGED <<spm0_req, finished>>
  BY <1>1, AtomicKeeps DEF ReportInv
<1>3. endidx = KeepStalling /\ pc = "idle"
  BY DEF PopStall, ReportInv, EndServed
<1>4. cur' \in {c, None}
  BY <1>1 DEF PopStallIdle, PopStallLeftover, PopStallSearch, ReleasedCur
<1>5. \A n \in NPU : c # n => cur' # n
  BY <1>4, NAssumption DEF None, NPU
<1>6. CASE PopStallIdle(c) \/ PopStallSearch(c)
  <2> USE <1>6
  <2>0. no_req' = AtomicNoReq /\ popped' = AtomicPopped
    BY DEF PopStallIdle, PopStallSearch
  <2>1. PoppedServed'
    BY <1>2, <1>5, <2>0 DEF PoppedServed
  <2>2. EndServed'
    <3>1. CASE UNCHANGED endidx
      BY <1>3, <3>1 DEF EndServed
    <3>2. CASE PopStallSearch(c)
      <4>1. Served(no_req)' \in SUBSET NPU
        BY DEF Served
      <4>2. ASSUME endidx' # KeepStalling, NEW n \in NPU, n = endidx'
            PROVE  ~no_req'[n] /\ n \notin finished' /\ Settled(n)'
        <5>1. n \in Served(no_req)'
          BY <3>2, <4>1, <4>2, LeastOrNoneType DEF PopStallSearch, LeastOrNone
        <5>2. ~no_req'[n] /\ tlbq'[n] = {} /\ reqs'[n] = {} /\ reqs'[n + N] = {}
              /\ n \notin finished' /\ CheckNPURequest(n)'
          BY <5>1 DEF Served, CheckNPURequest, CheckSPMRequest
        <5>3. n \in 0 .. endidx'
          BY <4>2, NAssumption DEF NPU
        <5>4. Outstanding(n)' = {} /\ spm0_req'[n] = 0
          <6>1. Outstanding(n)' = {}
            BY <5>2 DEF Outstanding, Pkts
          <6> QED BY <1>2, <6>1, NothingCounted
        <5>5. cur' # n
          BY <3>2, <5>2, <5>3, <5>4, NAssumption
          DEF PopStallSearch, ReleasedCur, CheckNPURequest, None, NPU
        <5> QED BY <5>2, <5>4, <5>5 DEF Settled
      <4> QED BY <3>2, <4>2 DEF EndServed, PopStallSearch
    <3> QED BY <3>1, <3>2, <1>3 DEF PopStallIdle
  <2>3. \A n \in NPU : Owed(n)' = Owed(n)
    BY <1>2, <2>0 DEF Owed
  <2>4. UNCHANGED reported
    <3>1. CASE PopStallIdle(c)
      <4>1. PopStallReturns(None) /\ None \notin NPU
        BY <3>1 DEF PopStallIdle, NPU, None
      <4> QED BY <4>1, ReportFlips
    <3>2. CASE PopStallSearch(c)
      BY <3>2 DEF PopStallSearch
    <3> QED BY <3>1, <3>2
  <2> QED BY <1>2, <2>1, <2>2, <2>3, <2>4, ServiceStutters DEF ReportInv
<1>7. CASE PopStallLeftover(c)
  <2> DEFINE left == {n \in NPU : AtomicPopped[n]}
  <2>1. PICK m \in NPU : m = Least(left) /\ AtomicPopped[m]
    <3>1. left \in SUBSET NPU /\ left # {}
      BY <1>7 DEF PopStallLeftover
    <3>2. Least(left) \in left
      <4> HIDE DEF left
      <4> QED BY <3>1, LeastOrNoneType
    <3> QED BY <3>2
  <2>2. /\ no_req' = [AtomicNoReq EXCEPT ![m] = TRUE]
        /\ popped' = [AtomicPopped EXCEPT ![m] = FALSE]
        /\ UNCHANGED <<pc, endidx>>
    BY <1>7, <2>1 DEF PopStallLeftover
  <2>3. AtomicNoReq \in [NPU -> BOOLEAN] /\ AtomicPopped \in [NPU -> BOOLEAN]
    BY <1>1, AtomicType
  <2>4. PoppedServed'
    BY <1>2, <1>5, <2>1, <2>2, <2>3 DEF PoppedServed
  <2>5. EndServed'
    BY <1>3, <2>2 DEF EndServed
  <2>6. Owed(m) /\ ~Owed(m)' /\ \A n \in NPU \ {m} : Owed(n)' = Owed(n)
    BY <1>2, <2>1, <2>2, <2>3 DEF Owed
  <2>7. spm0_req[m] = 0
    BY <1>2, <2>1, NothingCounted
  <2>8. reported' = [reported EXCEPT ![m] = ~@]
    BY <1>7, <2>1, ReportFlips DEF PopStallLeftover
  <2> QED BY <1>2, <2>1, <2>4, <2>5, <2>6, <2>7, <2>8, ServiceReports DEF ReportInv
<1> QED BY <1>1, <1>6, <1>7

LEMMA TickReport ==
  ASSUME TypeOK, Core, ReportInv, NEW who \in {"stall", "sync", "keep"}, AtomicTick(who),
         who = "stall" <=> pc = "stall", pc # "dram"
  PROVE  ReportInv' /\ UNCHANGED CS!csvars
<1>1. PICK c \in AtomicCurs : Atomic(c) /\ cur' = c
  BY DEF AtomicTick
<1>2. /\ \A n \in NPU : Outstanding(n)' = Outstanding(n) /\ tlbq'[n] = {}
      /\ \A n \in NPU : AtomicNoReq[n] <=> ~Owed(n)
      /\ \A n \in NPU : AtomicPopped[n] =>
           /\ popped[n] /\ Owed(n) /\ ~AtomicNoReq[n] /\ Outstanding(n) = {}
           /\ reqs'[n] = {} /\ reqs'[n + N] = {} /\ c # n
      /\ \A n \in NPU : Settled(n) => c # n
      /\ UNCHANGED <<spm0_req, finished>>
  BY <1>1, AtomicKeeps DEF ReportInv
<1>3. /\ no_req' = AtomicNoReq /\ popped' = AtomicPopped
      /\ pc' = "dram" /\ caller' = who /\ UNCHANGED <<endidx, reported>>
  BY DEF AtomicTick
<1>4. PoppedServed'
  BY <1>1, <1>2, <1>3 DEF PoppedServed
<1>5. EndServed'
  <2>1. \A n \in NPU : ~no_req[n] => ~no_req'[n]
    BY <1>2, <1>3 DEF Owed
  <2>2. \A n \in NPU : Settled(n) => Settled(n)'
    BY <1>1, <1>2 DEF Settled
  <2> QED BY <1>2, <1>3, <2>1, <2>2 DEF EndServed, ReportInv
<1>6. \A n \in NPU : Owed(n)' = Owed(n)
  BY <1>2, <1>3 DEF Owed
<1> QED BY <1>2, <1>3, <1>4, <1>5, <1>6, ServiceStutters DEF ReportInv

(* The end of popStallRequest reports the NPU it found before the tick.    *)
LEMMA StallReturnReport ==
  ASSUME TypeOK, Core, ReportInv, StallReturn
  PROVE  ReportInv' /\ [CS!Next]_CS!csvars
<1>1. UNCHANGED <<tlbq, pageq, reqs, dram, spm0_req, finished>> /\ endidx' = KeepStalling
  BY DEF StallReturn, TickDone, queues
<1>2. EndServed'
  BY <1>1 DEF EndServed
<1>3. CASE endidx = KeepStalling
  <2>1. UNCHANGED <<popped, no_req, cur>>
    BY <1>3 DEF StallReturn
  <2>2. PoppedServed'
    BY <1>1, <2>1 DEF ReportInv, PoppedServed
  <2>3. \A n \in NPU : Owed(n)' = Owed(n)
    BY <1>1, <2>1 DEF Owed
  <2>4. UNCHANGED reported
    <3>1. PopStallReturns(endidx) /\ endidx \notin NPU
      BY <1>3 DEF StallReturn, NPU, KeepStalling
    <3> QED BY <3>1, ReportFlips
  <2> QED BY <1>1, <1>2, <2>2, <2>3, <2>4, ServiceStutters DEF ReportInv
<1>4. CASE endidx # KeepStalling
  <2>1. PICK m \in NPU : m = endidx
    BY <1>4 DEF TypeOK
  <2>2. ~no_req[m] /\ m \notin finished /\ Outstanding(m) = {}
    BY <1>4, <2>1 DEF ReportInv, EndServed, Settled
  <2>3. /\ popped' = [n \in NPU |-> n # m /\ (popped[n] \/ n \in Served(no_req))]
        /\ no_req' = [no_req EXCEPT ![m] = TRUE]
        /\ cur' = ReleasedCur(cur, NPU)
    BY <1>4, <2>1 DEF StallReturn
  <2>4. no_req \in [NPU -> BOOLEAN] /\ tlbq \in [NPU -> SUBSET Entry]
    BY DEF TypeOK
  <2>5. no_req'[m] /\ \A n \in NPU \ {m} : no_req'[n] = no_req[n]
    BY <2>3, <2>4
  <2>6. PoppedServed'
    <3>1. ASSUME NEW n \in NPU, popped'[n]
          PROVE  ~no_req'[n] /\ reqs'[n] = {} /\ reqs'[n + N] = {} /\ cur' # n
      <4>1. n # m /\ (popped[n] \/ n \in Served(no_req))
        BY <2>3, <3>1, Zenon
      <4>2. ~no_req[n] /\ reqs[n] = {} /\ reqs[n + N] = {}
        BY <4>1, ServedNPU DEF ReportInv, PoppedServed
      <4>3. ASSUME popped[n] PROVE cur' # n
        <5>1. cur # n
          BY <4>3 DEF ReportInv, PoppedServed
        <5> QED BY <2>3, <5>1, NAssumption DEF ReleasedCur, None, NPU
      <4>4. ASSUME n \in Served(no_req) PROVE cur' # n
        <5>1. CheckNPURequest(n)
          BY <4>4 DEF Served
        <5>2. ReleasedCur(cur, NPU) # n
          BY <5>1, Released
        <5> QED BY <2>3, <5>2
      <4>5. cur' # n
        BY <4>1, <4>3, <4>4, Zenon
      <4> QED BY <1>1, <2>5, <4>1, <4>2, <4>5
    <3> QED BY <3>1 DEF PoppedServed
  <2>7. Owed(m) /\ ~Owed(m)' /\ \A n \in NPU \ {m} : Owed(n)' = Owed(n)
    <3>1. tlbq[m] = {}
      BY <2>2 DEF Outstanding, Pkts
    <3> QED BY <1>1, <2>2, <2>5, <3>1 DEF Owed
  <2>8. spm0_req[m] = 0
    BY <2>2, NothingCounted
  <2>9. reported' = [reported EXCEPT ![m] = ~@]
    BY <2>1, ReportFlips DEF StallReturn
  <2> QED BY <1>1, <1>2, <2>6, <2>7, <2>8, <2>9, ServiceReports DEF ReportInv
<1> QED BY <1>3, <1>4

LEMMA CallbackReport ==
  ASSUME TypeOK, Core, ReportInv, NEW d \in dram, Callback(d)
  PROVE  ReportInv' /\ CS!Next
<1> DEFINE H == Holders(d.pkt.addr)
<1>1. H # {} /\ H \in SUBSET Nat /\ H \in SUBSET Buffers
  <2>1. H # {}
    BY HolderFound
  <2>2. Buffers \in SUBSET Nat
    BY NAssumption DEF Buffers
  <2>3. H \in SUBSET Buffers
    BY DEF Holders
  <2> QED BY <2>1, <2>2, <2>3
<1>2. PICK b \in Buffers : b = Least(H) /\ b \in H
  <2> HIDE DEF H
  <2> QED BY <1>1, LeastExists
<1>3. PICK q \in reqs[b] :
        /\ reqs' = [reqs EXCEPT ![b] = @ \ {q}]
        /\ spm0_req' = [spm0_req EXCEPT ![b % N] = @ - 1]
  BY <1>1, <1>2 DEF Callback, CallbackFound, CallbackLost
<1>4. UNCHANGED <<tlbq, no_req, popped, endidx, pc, caller, cur, finished, reported>>
  BY DEF Callback, flags
<1>5. b % N \in NPU /\ (b = b % N \/ b = (b % N) + N)
  <2>1. q.npu \in NPU /\ q.wr \in BOOLEAN /\ CalcSPMidx(q.npu, q.wr) = b
    BY DEF TypeOK, Packet, Core, Placed
  <2>2. b % N = q.npu
    BY <2>1, BufferOwner
  <2> QED BY <2>1, <2>2 DEF CalcSPMidx
<1>6. \A n \in Buffers : reqs'[n] \subseteq reqs[n]
  BY <1>3 DEF TypeOK
<1>7. \A n \in NPU : n \in Buffers /\ n + N \in Buffers
  BY NAssumption DEF NPU, Buffers
<1>8. \A n \in NPU : Outstanding(n) = {} => Outstanding(n)' = {}
  BY <1>4, <1>6, <1>7 DEF Outstanding, Pkts
<1>9. ReportInv'
  <2>1. PoppedServed'
    BY <1>4, <1>6, <1>7 DEF ReportInv, PoppedServed
  <2>2. EndServed'
    BY <1>4, <1>8 DEF ReportInv, EndServed, Settled
  <2> QED BY <2>1, <2>2 DEF ReportInv
<1>10. PICK m \in NPU : m = b % N
  BY <1>5
<1>11. spm0_req[m] > 0
  <2>1. q \in Outstanding(m)
    BY <1>3, <1>5, <1>10 DEF Outstanding
  <2>2. IsFiniteSet(Outstanding(m))
    <3>1. Outstanding(m) \in SUBSET (Waiting \cup AllReqs)
      BY <1>7 DEF Outstanding, Waiting, AllReqs
    <3> QED BY <3>1, FS_Union, FS_Subset DEF Core, FiniteQueues
  <2>3. Cardinality(Outstanding(m)) \in Nat /\ Cardinality(Outstanding(m)) # 0
    BY <2>1, <2>2, FS_CardinalityType, FS_EmptySet
  <2> QED BY <2>3 DEF Core, ReqAccounting
<1> QED BY <1>3, <1>4, <1>9, <1>10, <1>11, ServiceCompletes

LEMMA SubmitReport ==
  ASSUME TypeOK, Core, ReportInv, NEW m \in NPU, Submit(m)
  PROVE  ReportInv' /\ CS!Next
<1>1. PICK wr \in BOOLEAN, S \in (SUBSET AddrOf[m]) \ {{}}, t \in Tags : DramRequest(m, wr, S, t)
  BY DEF Submit
<1> DEFINE new == Batch(m, wr, S, t)
<1>2. new # {} /\ IsFiniteSet(new) /\ Cardinality(new) \in Nat
  <2>1. new # {}
    <3>1. PICK a \in S : TRUE
      BY <1>1
    <3>2. [npu |-> m, wr |-> wr, addr |-> a, tag |-> t] \in new
      BY DEF Batch
    <3> QED BY <3>2
  <2> QED BY <2>1, BatchType
<1>3. Cardinality(new) > 0
  <2> HIDE DEF new
  <2> QED BY <1>2, FS_EmptySet
<1> DEFINE waits == {[pkt |-> p, tick |-> clock] : p \in new}
<1>4. /\ tlbq' = [tlbq EXCEPT ![m] = @ \cup waits]
      /\ spm0_req' = [spm0_req EXCEPT ![m] = @ + Cardinality(new)]
      /\ UNCHANGED <<reqs, popped, no_req, endidx, pc, caller, cur, finished, reported>>
  BY <1>1 DEF DramRequest, flags
<1>5. waits # {}
  BY <1>2
<1> HIDE DEF new, waits
<1>6. endidx = KeepStalling /\ pc = "idle" /\ m \notin finished
  BY DEF Submit, ReportInv, EndServed
<1>7. ReportInv'
  BY <1>4, <1>6 DEF ReportInv, EndServed, PoppedServed
<1>8. tlbq'[m] # {} /\ \A n \in NPU \ {m} : tlbq'[n] = tlbq[n]
  BY <1>4, <1>5 DEF TypeOK
<1>9. Owed(m)' /\ \A n \in NPU \ {m} : Owed(n)' = Owed(n)
  BY <1>4, <1>6, <1>8 DEF Owed
<1>10. /\ spm0_req'[m] > spm0_req[m]
       /\ spm0_req' = [spm0_req EXCEPT ![m] = spm0_req'[m]]
  BY <1>2, <1>3, <1>4 DEF TypeOK
<1> QED BY <1>4, <1>6, <1>7, <1>9, <1>10, ServiceTakes

(* An NPU is marked finished: it is dismissed.                             *)
LEMMA FinishReport ==
  ASSUME TypeOK, Core, ReportInv, NEW m \in NPU, MarkFinished(m)
  PROVE  ReportInv' /\ [CS!Next]_CS!csvars
<1>1. /\ UNCHANGED <<tlbq, reqs, spm0_req, popped, no_req, endidx, cur, reported>>
      /\ finished' = finished \cup {m} /\ m \notin finished /\ spm0_req[m] = 0
  BY DEF MarkFinished, Finish, queues
<1>2. endidx = KeepStalling
  BY DEF MarkFinished, ReportInv, EndServed
<1>3. ReportInv'
  BY <1>1, <1>2 DEF ReportInv, EndServed, PoppedServed
<1> QED BY <1>1, <1>3, ServiceDismisses

LEMMA OtherReport ==
  ASSUME TypeOK, Core, ReportInv, SyncReturn \/ KeepReturn \/ UNCHANGED vars
  PROVE  ReportInv' /\ UNCHANGED CS!csvars
<1>1. UNCHANGED <<tlbq, reqs, spm0_req, popped, no_req, endidx, finished, reported>>
  BY DEF SyncReturn, KeepReturn, TickDone, queues, flags, vars
<1>2. endidx = KeepStalling \/ UNCHANGED <<pc, caller, cur>>
  BY DEF SyncReturn, KeepReturn, TickDone, vars, ReportInv, EndServed
<1>3. cur' \in {cur, None}
  BY DEF SyncReturn, KeepReturn, vars, ReleasedCur
<1>4. \A n \in NPU : cur # n => cur' # n
  BY <1>3, NAssumption DEF None, NPU
<1>5. \A n \in NPU : Outstanding(n)' = Outstanding(n) /\ Owed(n)' = Owed(n)
  BY <1>1 DEF Outstanding, Pkts, Owed
<1>6. ReportInv'
  BY <1>1, <1>2, <1>4, <1>5 DEF ReportInv, EndServed, PoppedServed, Settled
<1> QED BY <1>1, <1>5, <1>6, ServiceStutters

LEMMA NextReport ==
  ASSUME TypeOK, Core, ReportInv, [Next]_vars
  PROVE  ReportInv' /\ [CS!Next]_CS!csvars
<1>1. CASE PopStall
  BY <1>1, PopStallReport
<1>2. CASE StallTick \/ SyncTick \/ KeepTick
  BY <1>2, TickReport DEF StallTick, SyncTick, KeepTick
<1>3. CASE StallReturn
  BY <1>3, StallReturnReport
<1>4. CASE \E d \in dram : Callback(d)
  BY <1>4, CallbackReport
<1>5. CASE \E n \in NPU : Submit(n)
  BY <1>5, SubmitReport
<1>6. CASE \E n \in NPU : MarkFinished(n)
  BY <1>6, FinishReport
<1>7. CASE SyncReturn \/ KeepReturn \/ UNCHANGED vars
  BY <1>7, OtherReport
<1> QED BY <1>1, <1>2, <1>3, <1>4, <1>5, <1>6, <1>7 DEF Next, Inside

-----------------------------------------------------------------------------
(* What a caller may conclude from the NPU it is returned.                 *)

(* An NPU with nothing outstanding stays so until it submits, whatever the *)
(* other NPUs do, and it does not get the bandwidth back.                  *)
LEMMA SettledStays ==
  ASSUME TypeOK, Core, ReportInv, [Next]_vars, NEW n \in NPU, Settled(n), tlbq'[n] = {}
  PROVE  Settled(n)'
<1>1. \A c \in AtomicCurs : Atomic(c) => Outstanding(n)' = Outstanding(n) /\ c # n
  BY AtomicKeeps DEF ReportInv
<1>2. ASSUME NEW c, c # n, cur' \in {c, None} PROVE cur' # n
  BY <1>2, NAssumption DEF None, NPU
<1>3. CASE PopStall
  <2>1. PICK c \in AtomicCurs :
          Atomic(c) /\ (PopStallIdle(c) \/ PopStallLeftover(c) \/ PopStallSearch(c))
    BY <1>3 DEF PopStall
  <2>2. cur' \in {c, None}
    BY <2>1 DEF PopStallIdle, PopStallLeftover, PopStallSearch, ReleasedCur
  <2> QED BY <1>1, <1>2, <2>1, <2>2 DEF Settled
<1>4. CASE StallTick \/ SyncTick \/ KeepTick
  <2>1. PICK c \in AtomicCurs : Atomic(c) /\ cur' = c
    BY <1>4 DEF StallTick, SyncTick, KeepTick, AtomicTick
  <2> QED BY <1>1, <2>1 DEF Settled
<1>5. CASE StallReturn \/ SyncReturn \/ KeepReturn \/ UNCHANGED vars
  <2>1. UNCHANGED <<tlbq, reqs>> /\ cur' \in {cur, None}
    BY <1>5 DEF StallReturn, SyncReturn, KeepReturn, TickDone, ReleasedCur, queues, vars
  <2> QED BY <1>2, <2>1 DEF Settled, Outstanding, Pkts
<1>6. ASSUME NEW d \in dram, Callback(d) PROVE Settled(n)'
  <2>1. UNCHANGED <<tlbq, cur>>
    BY <1>6 DEF Callback
  <2>2. \A b \in Buffers : reqs'[b] \subseteq reqs[b]
    <3>1. reqs \in [Buffers -> SUBSET Packet]
      BY DEF TypeOK
    <3>2. CASE CallbackFound(d)
      <4>1. PICK b, q : reqs' = [reqs EXCEPT ![b] = @ \ {q}]
        BY <3>2 DEF CallbackFound
      <4> QED BY <3>1, <4>1
    <3>3. CASE CallbackLost(d)
      BY <3>3 DEF CallbackLost
    <3> QED BY <1>6, <3>2, <3>3 DEF Callback
  <2>3. n \in Buffers /\ n + N \in Buffers
    BY NAssumption DEF NPU, Buffers
  <2> QED BY <2>1, <2>2, <2>3 DEF Settled, Outstanding, Pkts
<1>7. ASSUME NEW m \in NPU, Submit(m) PROVE Settled(n)'
  <2>1. m # n
    <3>1. PICK wr \in BOOLEAN, S \in (SUBSET AddrOf[m]) \ {{}}, t \in Tags :
            DramRequest(m, wr, S, t)
      BY <1>7 DEF Submit
    <3>2. PICK a \in S : TRUE
      OBVIOUS
    <3> DEFINE p == [npu |-> m, wr |-> wr, addr |-> a, tag |-> t]
    <3>3. p \in Batch(m, wr, S, t)
      BY DEF Batch
    <3> HIDE DEF p
    <3>4. [pkt |-> p, tick |-> clock] \in tlbq'[m]
      BY <3>1, <3>3 DEF DramRequest, TypeOK
    <3> QED BY <3>4
  <2>2. UNCHANGED <<reqs, cur>> /\ tlbq'[n] = tlbq[n]
    BY <1>7, <2>1 DEF Submit, DramRequest, TypeOK
  <2> QED BY <2>2 DEF Settled, Outstanding, Pkts
<1>8. ASSUME NEW m \in NPU, MarkFinished(m) PROVE Settled(n)'
  BY <1>8 DEF MarkFinished, Finish, Settled, Outstanding, Pkts, queues
<1> QED BY <1>3, <1>4, <1>5, <1>6, <1>7, <1>8 DEF Next, Inside

(* The NPU that a call returns is settled: popStallRequest's, whether it   *)
(* was left over or searched for, and mem_stall's poll.                    *)
LEMMA ReturnSettled ==
  ASSUME TypeOK, Core, ReportInv, NEW n \in NPU, ret' = n,
         \/ PopStall /\ pc' = "idle"
         \/ StallReturn
         \/ KeepReturn
  PROVE  Settled(n)'
<1>1. CASE PopStall /\ pc' = "idle"
  <2>1. PICK c \in AtomicCurs :
          Atomic(c) /\ (PopStallIdle(c) \/ PopStallLeftover(c) \/ PopStallSearch(c))
    BY <1>1 DEF PopStall
  <2>2. PopStallLeftover(c)
    BY <1>1, <2>1, NAssumption DEF PopStallIdle, PopStallSearch, PopStallReturns, None, NPU
  <2> DEFINE left == {m \in NPU : AtomicPopped[m]}
  <2>3. n = Least(left) /\ left # {} /\ cur' = c
    BY <2>2 DEF PopStallLeftover, PopStallReturns
  <2>4. left \in SUBSET NPU
    OBVIOUS
  <2>5. n \in left
    <3> HIDE DEF left
    <3> QED BY <2>3, <2>4, LeastOrNoneType
  <2> QED BY <2>1, <2>3, <2>5, AtomicKeeps, ZenonT(30) DEF ReportInv, Settled
<1>2. CASE StallReturn
  <2>1. n = endidx /\ endidx # KeepStalling
    BY <1>2, NAssumption DEF StallReturn, PopStallReturns, NPU, KeepStalling
  <2>2. UNCHANGED <<tlbq, reqs>> /\ cur' \in {cur, None}
    BY <1>2, <2>1 DEF StallReturn, TickDone, ReleasedCur, queues
  <2>3. Settled(n)
    BY <2>1 DEF ReportInv, EndServed
  <2> QED BY <2>2, <2>3, NAssumption DEF Settled, Outstanding, Pkts, None, NPU
<1>3. CASE KeepReturn
  <2> DEFINE S == {m \in NPU : CheckNPURequest(m)}
  <2>1. n = LeastOrNone(S) /\ UNCHANGED <<tlbq, reqs>> /\ cur' = ReleasedCur(cur, 0 .. n)
    BY <1>3 DEF KeepReturn, TickDone, queues
  <2>2. n \in S
    <3>1. S \in SUBSET NPU /\ N \notin NPU
      BY NAssumption DEF NPU
    <3> HIDE DEF S
    <3> QED BY <2>1, <3>1, LeastOrNoneType DEF LeastOrNone, KeepStalling
  <2>3. Outstanding(n) = {}
    BY <2>2, ServedOutstanding DEF CheckNPURequest, CheckSPMRequest
  <2>4. n \in 0 .. n
    BY NAssumption DEF NPU
  <2>5. CheckNPURequest(n)
    BY <2>2
  <2>6. ReleasedCur(cur, 0 .. n) # n
    BY <2>4, <2>5, Released
  <2> QED BY <2>1, <2>3, <2>6 DEF Settled, Outstanding, Pkts
<1> QED BY <1>1, <1>2, <1>3

(* popStallRequest never reports an NPU that has a request left, reports it *)
(* once per submission, and requests end one by one: the memory controller *)
(* implements the service that the scheduling loop is written for.         *)
THEOREM CompletionRefined == Spec => CompletionSafe
<1>1. Spec => [](TypeOK /\ Core)
  BY TypeCorrect, CoreInvariant, PTL
<1>2. TypeOK /\ Core /\ ReportInv /\ [Next]_vars => ReportInv' /\ [CS!Next]_CS!csvars
  BY NextReport
<1>3. Init => ReportInv /\ CS!Init
  BY InitReport
<1> QED BY <1>1, <1>2, <1>3, PTL DEF Spec, CompletionSafe, CS!Spec
=============================================================================

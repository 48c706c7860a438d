--------------------------- MODULE NPUGroup_proofs ---------------------------
(***************************************************************************)
(* The scheduling loop, for any number of NPUs, workload, start cycles and  *)
(* clock speeds: it uses the memory controller as the controller's clients  *)
(* must, keeps its copy of the DRAM clock in step, and moves every tile of  *)
(* every layer exactly once.                                               *)
(***************************************************************************)
EXTENDS NPUGroup, SequenceTheorems, TLAPS

(* The controller again, with what has been proved about it.               *)
MCR == INSTANCE MemCtrl_proofs

(* Where the loop stands; whose turn it is to run, and whose is over.      *)
Running == stage = "run" \/ (stage = "sync" /\ cont = "run")
Popping == stage \in {"pop", "issue"} \/ (stage = "sync" /\ cont = "issue")
Turn(n) == Running /\ i = n
Passed(n) == Popping \/ (Running /\ i > n)
Issuing == stage = "issue" \/ (stage = "sync" /\ cont = "issue")
Retiring == stage = "retire" \/ (stage = "sync" /\ cont = "retire")

(* The controller is busy only while the loop waits for the call it made.  *)
CallInv ==
  /\ stage \notin {"keepwait", "stallwait", "sync"} => pc = "idle"
  /\ stage = "keepwait" => pc = "idle" \/ (pc = "dram" /\ caller = "keep")
  /\ stage = "stallwait" => pc # "dram" \/ caller = "stall"
  /\ stage = "sync" => pc = "idle" \/ (pc = "dram" /\ caller = "sync")

(* memory_cycle equals the DRAM clock, lags behind it inside mem_stall, and *)
(* is ahead of it inside mem_sync.                                         *)
ClockInv ==
  /\ ClockInStep
  /\ stage \in {"stall", "keepwait", "stallwait", "done"} => memory_cycle <= clock
  /\ stage = "sync" => clock <= memory_cycle

(* An NPU that was returned, or whose workload is over, has nothing left in *)
(* the controller.                                                         *)
Settled(n) == MC!Outstanding(n) = {} /\ cur # n
SettledInv ==
  /\ stage \in {"keepwait", "stallwait"} /\ pc = "idle" /\ ret \in NPU => Settled(ret)
  /\ (stage = "ret" \/ Retiring) /\ idx \in NPU => Settled(idx)
  /\ \A n \in NPU : npu[n].is_saved => Settled(n)
  /\ finished = {n \in NPU : npu[n].is_saved}

(* The phases of an NPU: what its flags say of each other.                 *)
PhaseOf(n) ==
  LET s == npu[n]
  IN  /\ ~s.is_terminated => s.layer < Len(Layers[n])
      /\ s.open => s.is_setup /\ ~s.is_terminated
      /\ s.is_saved => s.is_terminated
      /\ ~s.open => ~s.tile_full /\ (s.is_begin => s.eof)
      /\ s.open /\ s.eof => s.is_returned /\ ~s.tile_full
      /\ s.is_begin /\ ~s.is_setup => ComputeKey(n) <= memory_cycle
      /\ s.tile_full /\ s.is_returned => Turn(n) /\ ComputeKey(n) <= memory_cycle
PhaseInv == \A n \in NPU : PhaseOf(n)

RetireInv ==
  Retiring => /\ idx \in NPU
              /\ ~npu[idx].open /\ npu[idx].is_setup
              /\ ComputeKey(idx) <= memory_cycle

(* The NPUs in keep_queue have opened a layer and never begun one.         *)
KeepInv ==
  /\ \A k, l \in DOMAIN keep_queue : keep_queue[k] = keep_queue[l] => k = l
  /\ \A k \in DOMAIN keep_queue : npu[keep_queue[k]].open /\ ~npu[keep_queue[k]].is_begin

(* A packet that is not the last of its layer was due when it was queued,   *)
(* and is issued in this pass, or it asks for the tile after one that is    *)
(* still to be written: such an NPU computes nothing more until it is due.  *)
PacketOf(p) ==
  /\ npu[p.npu].open /\ npu[p.npu].is_begin
  /\ p.sync <=> p.op = Write
  /\ p.eof => p.op = Write /\ npu[p.npu].eof
  /\ ~p.eof => \/ p.op = Read /\ npu[p.npu].tile_full /\ p.key <= ComputeKey(p.npu)
               \/ p.key <= memory_cycle /\ Passed(p.npu)
PacketInv == \A k \in DOMAIN cycle_idx_map : PacketOf(cycle_idx_map[k])

QueueInv ==
  /\ Issuing => cycle_idx_map # << >>
  /\ \A k, l \in DOMAIN cycle_idx_map :
       k <= l => cycle_idx_map[k].key <= cycle_idx_map[l].key
  /\ \A k, l \in DOMAIN cycle_idx_map :
       /\ cycle_idx_map[k].npu = cycle_idx_map[l].npu
       /\ cycle_idx_map[k].op = cycle_idx_map[l].op
       => k = l

(* Every tile is accounted for: read, asked for, waiting to be written,     *)
(* queued to be written or written.                                        *)
Queued(n, op) ==
  \E k \in DOMAIN cycle_idx_map : cycle_idx_map[k].npu = n /\ cycle_idx_map[k].op = op
One(b) == IF b THEN 1 ELSE 0
TilesOf(n) ==
  LET s == npu[n]
  IN  /\ ~s.is_begin => s.tile = 0 /\ s.dread = 0 /\ s.dwrite = 0 /\ ~s.tile_full /\ ~s.eof
      /\ s.is_begin =>
           /\ s.dread + One(Queued(n, Read)) = IF s.eof THEN Tiles(n) ELSE s.tile + 1
           /\ s.dwrite + One(Queued(n, Write)) + One(s.tile_full) = s.tile
           /\ IF s.eof THEN s.tile = Tiles(n) /\ ~Queued(n, Read) ELSE s.tile < Tiles(n)
TilesInv == \A n \in NPU : npu[n].open => TilesOf(n)

LoopInv ==
  /\ CallInv /\ ClockInv /\ SettledInv /\ PhaseInv /\ RetireInv
  /\ KeepInv /\ PacketInv /\ QueueInv /\ TilesInv

-----------------------------------------------------------------------------
(* The two instances of the controller are the same.                       *)
LEMMA SameController ==
  /\ MC!Init <=> MCR!Init
  /\ MC!Next <=> MCR!Next
  /\ MC!TypeOK <=> MCR!TypeOK
  /\ MC!Core <=> MCR!Core
  /\ MC!PopStall <=> MCR!PopStall
  /\ MC!StallReturn <=> MCR!StallReturn
  /\ MC!KeepReturn <=> MCR!KeepReturn
  /\ \A n \in NPU : Settled(n) <=> MCR!Settled(n)
<1> USE DEF
      MC!NPU, MC!Buffers, MC!None, MC!KeepStalling, MC!Packet, MC!Least, MC!Pkts,
      MC!CalcSPMidx, MC!Waiting, MC!AllReqs, MC!InFlight, MC!Outstanding, MC!Batch,
      MC!Fresh, MC!DramRequest, MC!Arriving, MC!AtomicCurs, MC!Eligible,
      MC!Accepts, MC!Atomic, MC!AtomicPopped, MC!AtomicNoReq, MC!CheckSPMRequest,
      MC!CheckNPURequest, MC!ReleasedCur, MC!Served, MC!LeastOrNone,
      MC!PopStallReturns, MC!PopStallIdle, MC!PopStallLeftover, MC!PopStallSearch, MC!PopStall,
      MC!AtomicTick, MC!StallTick, MC!SyncTick, MC!KeepTick, MC!Holders,
      MC!CallbackFound, MC!CallbackLost, MC!Callback, MC!TickDone, MC!StallReturn,
      MC!SyncReturn, MC!KeepReturn, MC!Finish, MC!Submit, MC!MarkFinished, MC!Init,
      MC!Inside, MC!Next, MC!Entry, MC!TypeOK, MC!ReqAccounting, MC!At,
      MC!CallbackMatched, MC!Placed, MC!Distinct, MC!FiniteQueues, MC!Core,
      MC!vars, MC!queues, MC!flags, MC!Cardinality, MC!IsFiniteSet, MCR!NPU,
      MCR!Buffers, MCR!None, MCR!KeepStalling, MCR!Packet, MCR!Least, MCR!Pkts,
      MCR!CalcSPMidx, MCR!Waiting, MCR!AllReqs, MCR!InFlight, MCR!Outstanding,
      MCR!Batch, MCR!Fresh, MCR!DramRequest, MCR!Arriving, MCR!AtomicCurs,
      MCR!Eligible, MCR!Accepts, MCR!Atomic, MCR!AtomicPopped, MCR!AtomicNoReq,
      MCR!CheckSPMRequest, MCR!CheckNPURequest, MCR!ReleasedCur, MCR!Served,
      MCR!LeastOrNone, MCR!PopStallReturns, MCR!PopStallIdle, MCR!PopStallLeftover, MCR!PopStallSearch,
      MCR!PopStall, MCR!AtomicTick, MCR!StallTick, MCR!SyncTick, MCR!KeepTick,
      MCR!Holders, MCR!CallbackFound, MCR!CallbackLost, MCR!Callback, MCR!TickDone,
      MCR!StallReturn, MCR!SyncReturn, MCR!KeepReturn, MCR!Finish, MCR!Submit,
      MCR!MarkFinished, MCR!Init, MCR!Inside, MCR!Next, MCR!Entry, MCR!TypeOK,
      MCR!ReqAccounting, MCR!At, MCR!CallbackMatched, MCR!Placed, MCR!Distinct,
      MCR!FiniteQueues, MCR!Core, MCR!vars, MCR!queues, MCR!flags, MCR!Cardinality,
      MCR!IsFiniteSet
<1>1. MC!Init <=> MCR!Init
  OBVIOUS
<1>2. MC!Next <=> MCR!Next
  OBVIOUS
<1>3. MC!TypeOK <=> MCR!TypeOK
  OBVIOUS
<1>4. MC!Core <=> MCR!Core
  OBVIOUS
<1>5. MC!PopStall <=> MCR!PopStall
  OBVIOUS
<1>6. MC!StallReturn <=> MCR!StallReturn
  OBVIOUS
<1>7. MC!KeepReturn <=> MCR!KeepReturn
  OBVIOUS
<1>8. \A n \in NPU : Settled(n) <=> MCR!Settled(n)
  BY DEF Settled, MCR!Settled
<1> QED BY <1>1, <1>2, <1>3, <1>4, <1>5, <1>6, <1>7, <1>8

LEMMA SameInv == MCR!TypeOK /\ MCR!Core => MC!TypeOK /\ MC!Core
BY SameController

SettledAgree == \A m \in NPU : MCR!Settled(m) => Settled(m)
LEMMA SameSettled == SettledAgree
BY SameController DEF SettledAgree

(* The constants are what the controller assumes of its own.               *)
LEMMA ControllerConstants ==
  /\ MCR!NAssumption /\ MCR!AddrAssumption /\ MCR!FlagAssumption /\ MCR!LatAssumption
BY ControllerAssumption
DEF NPU, MCR!NPU, IsFiniteSet, MCR!IsFiniteSet, MCR!NAssumption, MCR!AddrAssumption,
    MCR!FlagAssumption, MCR!LatAssumption

(* What the controller keeps, and promises, as long as it is used rightly. *)
ControllerInv == MC!Core /\ MCR!ReportInv

LEMMA ControllerInit == MC!Init => MC!TypeOK /\ ControllerInv
BY SameController, ControllerConstants, MCR!InitType, MCR!InitCore, MCR!InitReport
DEF ControllerInv

LEMMA ControllerStep ==
  ASSUME MC!TypeOK, ControllerInv, [MC!Next]_mcvars
  PROVE  /\ MC!TypeOK' /\ ControllerInv'
         /\ \A n \in NPU : Settled(n) /\ tlbq'[n] = {} => Settled(n)'
<1>1. [MCR!Next]_MCR!vars
  BY SameController DEF mcvars, MCR!vars, MCR!queues, MCR!flags
<1>2. MCR!TypeOK /\ MCR!Core /\ MCR!ReportInv
  BY SameController DEF ControllerInv
<1>3. MCR!TypeOK' /\ MCR!Core' /\ MCR!ReportInv'
  BY <1>1, <1>2, ControllerConstants, MCR!NextType, MCR!NextCore, MCR!NextReport
<1>4. MC!TypeOK' /\ MC!Core'
  <2>1. (MCR!TypeOK /\ MCR!Core => MC!TypeOK /\ MC!Core)'
    BY SameInv, PTL
  <2> QED BY <1>3, <2>1
<1>5. ASSUME NEW n \in NPU, Settled(n), tlbq'[n] = {}
      PROVE  Settled(n)'
  <2>1. n \in MCR!NPU
    BY DEF NPU, MCR!NPU
  <2>2. MCR!Settled(n)
    BY <1>5, SameController
  <2>3. MCR!Settled(n)'
    BY <1>1, <1>2, <1>5, <2>1, <2>2, ControllerConstants, MCR!SettledStays
  <2>4. SettledAgree'
    BY SameSettled, PTL
  <2> QED BY <2>3, <2>4 DEF SettledAgree
<1> QED BY <1>3, <1>4, <1>5 DEF ControllerInv

(* The NPU that popStallRequest or mem_stall's poll returns is settled.    *)
LEMMA ControllerReturns ==
  ASSUME MC!TypeOK, ControllerInv, NEW n \in NPU, ret' = n,
         (MC!PopStall /\ pc' = "idle") \/ MC!StallReturn \/ MC!KeepReturn
  PROVE  Settled(n)'
<1>1. MCR!TypeOK /\ MCR!Core /\ MCR!ReportInv
  BY SameController DEF ControllerInv
<1>2. (MCR!PopStall /\ pc' = "idle") \/ MCR!StallReturn \/ MCR!KeepReturn
  BY SameController
<1>3. n \in MCR!NPU
  BY DEF NPU, MCR!NPU
<1>4. MCR!Settled(n)'
  BY <1>1, <1>2, <1>3, ControllerConstants, MCR!ReturnSettled
<1>5. SettledAgree'
  BY SameSettled, PTL
<1> QED BY <1>4, <1>5 DEF SettledAgree

-----------------------------------------------------------------------------
(* Clock arithmetic. *)
LEMMA Cancel ==
  ASSUME NEW b \in Nat \ {0}, NEW x \in Nat, NEW y \in Nat, b * x < b * y + b
  PROVE  x <= y
<1> SUFFICES ASSUME y < x PROVE FALSE
  OBVIOUS
<1>1. PICK z \in Nat : x = y + 1 + z
  <2>1. x - y - 1 \in Nat /\ x = y + 1 + (x - y - 1)
    OBVIOUS
  <2> QED BY <2>1
<1>2. b * x = b * y + b + b * z
  BY <1>1
<1>3. b * z \in Nat /\ b * y \in Nat
  BY <1>1
<1> QED BY <1>2, <1>3

LEMMA CeilDivBounds ==
  ASSUME NEW a \in Nat, NEW b \in Nat \ {0}
  PROVE  /\ CeilDiv(a, b) \in Nat
         /\ a <= b * CeilDiv(a, b)
         /\ \A c \in Nat : b * c <= a => c <= CeilDiv(a, b)
         /\ \A d \in Nat : a <= d => CeilDiv(a, b) <= CeilDiv(d, b)
<1>1. \A x \in Nat : /\ x \div b \in Nat /\ x % b \in 0 .. b - 1
                    /\ x = b * (x \div b) + (x % b)
  OBVIOUS
<1>2. \A x \in Nat : CeilDiv(x, b) \in Nat /\ x <= b * CeilDiv(x, b)
                    /\ b * CeilDiv(x, b) < x + b
  BY <1>1 DEF CeilDiv
<1>3. ASSUME NEW c \in Nat, b * c <= a PROVE c <= CeilDiv(a, b)
  <2>1. b * c \in Nat /\ b * CeilDiv(a, b) \in Nat
    BY <1>2
  <2>2. b * c < b * CeilDiv(a, b) + b
    BY <1>2, <1>3, <2>1
  <2> QED BY <1>2, <2>2, Cancel
<1>4. ASSUME NEW d \in Nat, a <= d PROVE CeilDiv(a, b) <= CeilDiv(d, b)
  <2>1. b * CeilDiv(a, b) \in Nat /\ b * CeilDiv(d, b) \in Nat
    BY <1>2
  <2>2. b * CeilDiv(a, b) < b * CeilDiv(d, b) + b
    BY <1>2, <1>4, <2>1
  <2> QED BY <1>2, <2>2, Cancel
<1> QED BY <1>2, <1>3, <1>4

(* Conversions are monotone, and from the DRAM clock to an NPU's and back   *)
(* no cycle is lost.                                                       *)
LEMMA Conversions ==
  ASSUME NEW n \in NPU
  PROVE  /\ \A c \in Nat : Npu2Dram(n, c) \in Nat /\ Dram2Npu(n, c) \in Nat
         /\ \A c, d \in Nat : c <= d => Npu2Dram(n, c) <= Npu2Dram(n, d)
         /\ \A c \in Nat : c <= Npu2Dram(n, Dram2Npu(n, c))
<1> DEFINE f == DRAMClock
           g == NPUClock[n]
<1>1. f \in Nat \ {0} /\ g \in Nat \ {0}
  BY WorkloadAssumption
<1> HIDE DEF f, g
<1>2. \A c \in Nat : Npu2Dram(n, c) = CeilDiv(c * f, g) /\ Dram2Npu(n, c) = CeilDiv(c * g, f)
  BY DEF Npu2Dram, Dram2Npu, f, g
<1>3. \A c \in Nat : c * f \in Nat /\ c * g \in Nat
  BY <1>1
<1>4. \A c \in Nat : Npu2Dram(n, c) \in Nat /\ Dram2Npu(n, c) \in Nat
  BY <1>1, <1>2, <1>3, CeilDivBounds
<1>5. ASSUME NEW c \in Nat, NEW d \in Nat, c <= d PROVE Npu2Dram(n, c) <= Npu2Dram(n, d)
  <2>1. c * f <= d * f
    <3>1. d * f = c * f + (d - c) * f /\ (d - c) * f \in Nat
      BY <1>1, <1>5
    <3> QED BY <1>3, <3>1
  <2>2. \A x, y \in Nat : x <= y => CeilDiv(x, g) <= CeilDiv(y, g)
    BY <1>1, CeilDivBounds
  <2>3. CeilDiv(c * f, g) <= CeilDiv(d * f, g)
    BY <1>3, <2>1, <2>2
  <2> QED BY <1>2, <2>3
<1>6. ASSUME NEW c \in Nat PROVE c <= Npu2Dram(n, Dram2Npu(n, c))
  <2> DEFINE d == Dram2Npu(n, c)
  <2>1. d \in Nat /\ c * g <= f * d
    BY <1>1, <1>2, <1>3, <1>4, CeilDivBounds
  <2> HIDE DEF d
  <2>2. g * c <= d * f
    BY <1>1, <2>1
  <2>3. c <= CeilDiv(d * f, g)
    BY <1>1, <1>3, <2>1, <2>2, CeilDivBounds
  <2> QED BY <1>2, <2>1, <2>3 DEF d
<1> QED BY <1>4, <1>5, <1>6

(* mem_sync(n) moves memory_cycle to where NPU n's cycle and the DRAM clock *)
(* have both got.                                                          *)
LEMMA SyncedBounds ==
  ASSUME TypeOK, NEW n \in NPU
  PROVE  /\ npu[n].compute_cycle \in Nat /\ clock \in Nat
         /\ Synced(n) \in Nat /\ npu[n].compute_cycle <= Synced(n)
         /\ ComputeKey(n) \in Nat /\ Npu2Dram(n, Synced(n)) \in Nat
         /\ clock <= Npu2Dram(n, Synced(n))
         /\ ComputeKey(n) <= Npu2Dram(n, Synced(n))
<1>1. npu[n].compute_cycle \in Nat /\ clock \in Nat
  BY DEF TypeOK, NPUState, MC!TypeOK
<1>2. GetTick(n) \in Nat /\ clock <= Npu2Dram(n, GetTick(n))
  BY <1>1, Conversions DEF GetTick
<1>3. /\ Synced(n) \in Nat
      /\ npu[n].compute_cycle <= Synced(n) /\ GetTick(n) <= Synced(n)
  BY <1>1, <1>2 DEF Synced, Larger
<1>4. /\ Npu2Dram(n, Synced(n)) \in Nat /\ ComputeKey(n) \in Nat
      /\ Npu2Dram(n, GetTick(n)) \in Nat
      /\ Npu2Dram(n, GetTick(n)) <= Npu2Dram(n, Synced(n))
      /\ ComputeKey(n) <= Npu2Dram(n, Synced(n))
  BY <1>1, <1>2, <1>3, Conversions DEF ComputeKey
<1> QED BY <1>1, <1>2, <1>3, <1>4

-----------------------------------------------------------------------------
(* The packet queue. *)

LEMMA LeastOf ==
  ASSUME NEW S \in SUBSET Nat, S # {}
  PROVE  MC!Least(S) \in S /\ \A j \in S : MC!Least(S) <= j
<1>1. MCR!Least(S) \in S /\ \A j \in S : MCR!Least(S) <= j
  BY ControllerConstants, MCR!LeastExists
<1> QED BY <1>1 DEF MC!Least, MCR!Least

LEMMA InsertAtElements ==
  ASSUME NEW T, NEW q \in Seq(T), NEW p \in T, NEW at \in 1 .. Len(q) + 1
  PROVE  /\ InsertAt(q, at, p) \in Seq(T)
         /\ Len(InsertAt(q, at, p)) = Len(q) + 1
         /\ InsertAt(q, at, p)[at] = p
         /\ \A k \in 1 .. at - 1 : InsertAt(q, at, p)[k] = q[k]
         /\ \A k \in at .. Len(q) : InsertAt(q, at, p)[k + 1] = q[k]
<1> DEFINE front == SubSeq(q, 1, at - 1)
           back == SubSeq(q, at, Len(q))
<1>1. /\ front \in Seq(T) /\ Len(front) = at - 1
      /\ \A k \in 1 .. at - 1 : front[k] = q[k]
  OBVIOUS
<1>2. /\ back \in Seq(T) /\ Len(back) = Len(q) - at + 1
      /\ \A k \in 1 .. Len(q) - at + 1 : back[k] = q[at + k - 1]
  OBVIOUS
<1>3. InsertAt(q, at, p) = front \o <<p>> \o back
  BY DEF InsertAt
<1> HIDE DEF front, back
<1> DEFINE start == front \o <<p>>
<1>4. /\ start \in Seq(T) /\ Len(start) = at /\ start[at] = p
      /\ \A k \in 1 .. at - 1 : start[k] = q[k]
  BY <1>1
<1> HIDE DEF start
<1>5. /\ start \o back \in Seq(T) /\ Len(start \o back) = Len(q) + 1
      /\ \A k \in 1 .. Len(q) + 1 :
           (start \o back)[k] = IF k <= at THEN start[k] ELSE back[k - at]
  <2>1. /\ start \o back \in Seq(T) /\ Len(start \o back) = Len(start) + Len(back)
        /\ \A k \in 1 .. Len(start) + Len(back) :
             (start \o back)[k] = IF k <= Len(start) THEN start[k] ELSE back[k - Len(start)]
    BY <1>2, <1>4, ConcatProperties
  <2>2. Len(start) + Len(back) = Len(q) + 1
    BY <1>2, <1>4
  <2> QED BY <1>4, <2>1, <2>2
<1>6. \A k \in at .. Len(q) : back[k + 1 - at] = q[k]
  BY <1>2
<1>7. \A k \in at .. Len(q) : (start \o back)[k + 1] = q[k]
  BY <1>5, <1>6
<1> QED BY <1>3, <1>4, <1>5, <1>7 DEF start

(* multimap::insert puts the packet behind those with a key that is not     *)
(* larger and before the others.                                           *)
LEMMA Inserted ==
  ASSUME cycle_idx_map \in Seq(Packet), QueueInv, NEW p \in Packet
  PROVE  \E at \in 1 .. Len(cycle_idx_map) + 1 :
           /\ InsertPacket(p) = InsertAt(cycle_idx_map, at, p)
           /\ \A k \in 1 .. at - 1 : cycle_idx_map[k].key <= p.key
           /\ \A k \in at .. Len(cycle_idx_map) : p.key <= cycle_idx_map[k].key
<1> DEFINE L == Len(cycle_idx_map)
           behind == {k \in DOMAIN cycle_idx_map : cycle_idx_map[k].key > p.key}
<1>1. L \in Nat /\ DOMAIN cycle_idx_map = 1 .. L
  OBVIOUS
<1>2. p.key \in Nat /\ \A k \in 1 .. L : cycle_idx_map[k].key \in Nat
  <2>1. \A k \in 1 .. L : cycle_idx_map[k] \in Packet
    OBVIOUS
  <2> QED BY <2>1 DEF Packet
<1>3. \A k, l \in 1 .. L : k <= l => cycle_idx_map[k].key <= cycle_idx_map[l].key
  BY <1>1 DEF QueueInv
<1>4. CASE behind = {}
  <2>1. InsertPacket(p) = InsertAt(cycle_idx_map, L + 1, p)
    BY <1>4 DEF InsertPacket
  <2>2. \A k \in 1 .. L : cycle_idx_map[k].key <= p.key
    BY <1>1, <1>2, <1>4
  <2> QED BY <1>1, <2>1, <2>2
<1>5. CASE behind # {}
  <2>1. PICK at \in behind : at = MC!Least(behind) /\ \A j \in behind : at <= j
    <3>1. behind \in SUBSET Nat
      BY <1>1
    <3> HIDE DEF behind
    <3> QED BY <1>5, <3>1, LeastOf
  <2>2. InsertPacket(p) = InsertAt(cycle_idx_map, at, p)
    BY <1>5, <2>1 DEF InsertPacket
  <2>3. at \in 1 .. L /\ cycle_idx_map[at].key > p.key
    BY <1>1
  <2>4. \A k \in 1 .. L : k < at => cycle_idx_map[k].key <= p.key
    <3> SUFFICES ASSUME NEW k \in 1 .. L, k < at, cycle_idx_map[k].key > p.key PROVE FALSE
      BY <1>2
    <3>1. k \in behind
      BY <1>1
    <3> HIDE DEF behind
    <3> QED BY <1>1, <2>1, <2>3, <3>1
  <2>5. \A k \in at .. L : p.key <= cycle_idx_map[k].key
    BY <1>1, <1>2, <1>3, <2>3
  <2> HIDE DEF behind
  <2> QED BY <1>1, <2>2, <2>3, <2>4, <2>5
<1> QED BY <1>4, <1>5

(* What inserting a packet does to the queue.                              *)
LEMMA QueueGrows ==
  ASSUME cycle_idx_map \in Seq(Packet), QueueInv, NEW p \in Packet,
         ~Queued(p.npu, p.op), cycle_idx_map' = InsertPacket(p)
  PROVE  /\ cycle_idx_map' \in Seq(Packet) /\ cycle_idx_map' # << >>
         /\ QueueInv'
         /\ \A k \in DOMAIN cycle_idx_map' :
              cycle_idx_map'[k] = p \/ \E l \in DOMAIN cycle_idx_map :
                                        cycle_idx_map'[k] = cycle_idx_map[l]
         /\ \A m, op : Queued(m, op)' <=> Queued(m, op) \/ (m = p.npu /\ op = p.op)
<1> DEFINE q == cycle_idx_map
           L == Len(q)
           r == cycle_idx_map'
<1>1. /\ q \in Seq(Packet) /\ L \in Nat /\ DOMAIN q = 1 .. L
      /\ \A k \in 1 .. L : q[k] \in Packet
  OBVIOUS
<1>2. PICK at \in 1 .. L + 1 :
        /\ r = InsertAt(q, at, p)
        /\ \A k \in 1 .. at - 1 : q[k].key <= p.key
        /\ \A k \in at .. L : p.key <= q[k].key
  BY Inserted
<1>3. /\ r \in Seq(Packet) /\ Len(r) = L + 1 /\ DOMAIN r = 1 .. L + 1
      /\ r[at] = p
      /\ \A k \in 1 .. at - 1 : r[k] = q[k]
      /\ \A k \in at .. L : r[k + 1] = q[k]
  <2>1. /\ InsertAt(q, at, p) \in Seq(Packet) /\ Len(InsertAt(q, at, p)) = L + 1
        /\ InsertAt(q, at, p)[at] = p
        /\ \A k \in 1 .. at - 1 : InsertAt(q, at, p)[k] = q[k]
        /\ \A k \in at .. L : InsertAt(q, at, p)[k + 1] = q[k]
    BY InsertAtElements
  <2> HIDE DEF q
  <2> QED BY <1>1, <1>2, <2>1
(* Where the packet at k of the new queue was. *)
<1> DEFINE old(k) == IF k < at THEN k ELSE k - 1
<1>4. \A k \in 1 .. L + 1 : k # at => old(k) \in 1 .. L /\ r[k] = q[old(k)]
  <2> SUFFICES ASSUME NEW k \in 1 .. L + 1, k # at
               PROVE  old(k) \in 1 .. L /\ r[k] = q[old(k)]
    OBVIOUS
  <2>1. CASE k < at
    BY <1>1, <1>3, <2>1
  <2>2. CASE k > at
    <3>1. k - 1 \in at .. L
      BY <1>1, <2>2
    <3>2. r[(k - 1) + 1] = q[k - 1]
      BY <1>3, <3>1
    <3> QED BY <1>1, <2>2, <3>1, <3>2
  <2> QED BY <1>1, <2>1, <2>2
<1>5. \A k \in 1 .. L : \E j \in 1 .. L + 1 : r[j] = q[k]
  <2> SUFFICES ASSUME NEW k \in 1 .. L PROVE \E j \in 1 .. L + 1 : r[j] = q[k]
    OBVIOUS
  <2>1. CASE k < at
    BY <1>1, <1>3, <2>1
  <2>2. CASE k >= at
    <3>1. k + 1 \in 1 .. L + 1 /\ r[k + 1] = q[k]
      BY <1>1, <1>3, <2>2
    <3> QED BY <3>1
  <2> QED BY <1>1, <2>1, <2>2
<1>6. \A m, op : Queued(m, op)' <=> Queued(m, op) \/ (m = p.npu /\ op = p.op)
  <2>0. /\ \A m, op : Queued(m, op) <=> \E k \in 1 .. L : q[k].npu = m /\ q[k].op = op
        /\ \A m, op : Queued(m, op)' <=> \E k \in 1 .. L + 1 : r[k].npu = m /\ r[k].op = op
    BY <1>1, <1>3 DEF Queued
  <2> HIDE DEF q, L, r
  <2> TAKE m, op
  <2>1. ASSUME Queued(m, op)' PROVE Queued(m, op) \/ (m = p.npu /\ op = p.op)
    <3>1. PICK k \in 1 .. L + 1 : r[k].npu = m /\ r[k].op = op
      BY <2>0, <2>1
    <3>2. CASE k = at
      BY <1>3, <3>1, <3>2
    <3>3. CASE k # at
      BY <1>4, <2>0, <3>1, <3>3
    <3> QED BY <3>2, <3>3
  <2>2. ASSUME Queued(m, op) PROVE Queued(m, op)'
    <3>1. PICK k \in 1 .. L : q[k].npu = m /\ q[k].op = op
      BY <2>0, <2>2
    <3> QED BY <1>5, <2>0, <3>1
  <2>3. m = p.npu /\ op = p.op => Queued(m, op)'
    BY <1>1, <1>3, <2>0
  <2> QED BY <2>1, <2>2, <2>3
<1>7. \A k, l \in 1 .. L :
        /\ k <= l => q[k].key <= q[l].key
        /\ q[k].npu = q[l].npu /\ q[k].op = q[l].op => k = l
  BY <1>1 DEF QueueInv
<1>8. ASSUME NEW k \in 1 .. L + 1, NEW l \in 1 .. L + 1, k <= l PROVE r[k].key <= r[l].key
  <2>0. p.key \in Nat /\ \A x \in 1 .. L : q[x].key \in Nat
    BY <1>1 DEF Packet
  <2>1. CASE k = at /\ l = at
    BY <1>3, <2>0, <2>1
  <2>2. CASE k = at /\ l # at
    <3>1. old(l) \in at .. L
      BY <1>1, <1>4, <1>8, <2>2
    <3> QED BY <1>2, <1>3, <1>4, <2>2, <3>1
  <2>3. CASE k # at /\ l = at
    <3>1. old(k) \in 1 .. at - 1
      BY <1>1, <1>4, <1>8, <2>3
    <3> QED BY <1>2, <1>3, <1>4, <2>3, <3>1
  <2>4. CASE k # at /\ l # at
    <3>1. old(k) <= old(l) /\ old(k) \in 1 .. L /\ old(l) \in 1 .. L
      BY <1>1, <1>4, <1>8, <2>4
    <3> QED BY <1>4, <1>7, <2>4, <3>1
  <2> QED BY <2>1, <2>2, <2>3, <2>4
<1>9. ASSUME NEW k \in 1 .. L + 1, NEW l \in 1 .. L + 1, r[k].npu = r[l].npu, r[k].op = r[l].op
      PROVE  k = l
  <2>1. \A j \in 1 .. L : ~(q[j].npu = p.npu /\ q[j].op = p.op)
    BY <1>1 DEF Queued
  <2> HIDE DEF q, r, L
  <2>2. CASE k # at /\ l # at
    <3>1. /\ old(k) \in 1 .. L /\ old(l) \in 1 .. L
          /\ r[k] = q[old(k)] /\ r[l] = q[old(l)]
      BY <1>4, <2>2
    <3>2. old(k) = old(l)
      <4> HIDE DEF old
      <4> QED BY <1>7, <1>9, <3>1
    <3> QED BY <1>1, <2>2, <3>2
  <2>3. CASE k = at /\ l # at
    <3>1. old(l) \in 1 .. L /\ r[l] = q[old(l)] /\ r[k] = p
      BY <1>3, <1>4, <2>3
    <3> QED BY <1>9, <2>1, <3>1
  <2>4. CASE k # at /\ l = at
    <3>1. old(k) \in 1 .. L /\ r[k] = q[old(k)] /\ r[l] = p
      BY <1>3, <1>4, <2>4
    <3> QED BY <1>9, <2>1, <3>1
  <2> QED BY <2>2, <2>3, <2>4
<1>10. r # << >>
  BY <1>1, <1>3
<1>11. QueueInv'
  BY <1>3, <1>8, <1>9, <1>10 DEF QueueInv
<1>12. \A k \in DOMAIN r : r[k] = p \/ \E l \in DOMAIN q : r[k] = q[l]
  BY <1>1, <1>3, <1>4
<1> QED BY <1>3, <1>6, <1>10, <1>11, <1>12

(* What taking the first packet out does to it.                            *)
LEMMA QueueShrinks ==
  ASSUME cycle_idx_map \in Seq(Packet), QueueInv, cycle_idx_map # << >>,
         cycle_idx_map' = Tail(cycle_idx_map), ~Issuing'
  PROVE  /\ cycle_idx_map' \in Seq(Packet)
         /\ QueueInv'
         /\ \A k \in DOMAIN cycle_idx_map' :
              k + 1 \in DOMAIN cycle_idx_map /\ cycle_idx_map'[k] = cycle_idx_map[k + 1]
         /\ LET h == Head(cycle_idx_map)
            IN  /\ h = cycle_idx_map[1] /\ 1 \in DOMAIN cycle_idx_map
                /\ \A m, op : Queued(m, op)' <=> Queued(m, op) /\ ~(m = h.npu /\ op = h.op)
<1> DEFINE q == cycle_idx_map
           L == Len(q)
           r == cycle_idx_map'
           h == Head(q)
<1>1. /\ q \in Seq(Packet) /\ L \in Nat \ {0} /\ DOMAIN q = 1 .. L /\ h = q[1]
      /\ \A k \in 1 .. L : q[k] \in Packet
  OBVIOUS
<1>2. /\ r \in Seq(Packet) /\ Len(r) = L - 1 /\ DOMAIN r = 1 .. L - 1
      /\ \A k \in 1 .. L - 1 : r[k] = q[k + 1]
  BY <1>1, HeadTailProperties
<1>3. \A k \in 1 .. L - 1 : k + 1 \in 1 .. L
  BY <1>1
<1>4. \A m, op : Queued(m, op)' <=> Queued(m, op) /\ ~(m = h.npu /\ op = h.op)
  <2> TAKE m, op
  <2>1. ASSUME Queued(m, op)' PROVE Queued(m, op) /\ ~(m = h.npu /\ op = h.op)
    <3>1. PICK k \in 1 .. L - 1 : r[k].npu = m /\ r[k].op = op
      BY <1>2, <2>1 DEF Queued
    <3>2. k + 1 \in 1 .. L /\ q[k + 1].npu = m /\ q[k + 1].op = op /\ k + 1 # 1
      BY <1>2, <1>3, <3>1
    <3>3. ~(m = h.npu /\ op = h.op)
      BY <1>1, <3>2 DEF QueueInv
    <3> QED BY <1>1, <3>2, <3>3 DEF Queued
  <2>2. ASSUME Queued(m, op), ~(m = h.npu /\ op = h.op) PROVE Queued(m, op)'
    <3>1. PICK k \in 1 .. L : q[k].npu = m /\ q[k].op = op
      BY <1>1, <2>2 DEF Queued
    <3>2. k - 1 \in 1 .. L - 1 /\ (k - 1) + 1 = k
      BY <1>1, <2>2, <3>1
    <3>3. r[k - 1] = q[k]
      BY <1>2, <3>2
    <3> QED BY <1>2, <3>1, <3>2, <3>3 DEF Queued
  <2> QED BY <2>1, <2>2
<1>5. QueueInv'
  <2>1. ASSUME NEW k \in 1 .. L - 1, NEW l \in 1 .. L - 1
        PROVE  /\ k <= l => r[k].key <= r[l].key
               /\ r[k].npu = r[l].npu /\ r[k].op = r[l].op => k = l
    <3>1. /\ k + 1 <= l + 1 => q[k + 1].key <= q[l + 1].key
          /\ q[k + 1].npu = q[l + 1].npu /\ q[k + 1].op = q[l + 1].op => k + 1 = l + 1
      BY <1>1, <1>3 DEF QueueInv
    <3> QED BY <1>1, <1>2, <3>1
  <2> QED BY <1>2, <2>1 DEF QueueInv
<1> QED BY <1>1, <1>2, <1>3, <1>4, <1>5

-----------------------------------------------------------------------------
(* What the calls of the controller do to what the loop can see of it.     *)
Seen == <<clock, pc, caller, finished>>

LEMMA TickSeen ==
  ASSUME NEW who, MC!AtomicTick(who)
  PROVE  /\ pc' = "dram" /\ caller' = who /\ clock' = clock + 1 /\ finished' = finished
         /\ \A n \in NPU : tlbq'[n] = {}
BY DEF MC!AtomicTick, MC!Atomic, MC!NPU, NPU

LEMMA PopStallSeen ==
  ASSUME MC!PopStall
  PROVE  /\ pc = "idle" /\ pc' \in {"idle", "stall"} /\ UNCHANGED <<clock, caller, finished>>
         /\ \A n \in NPU : tlbq'[n] = {}
BY DEF MC!PopStall, MC!PopStallIdle, MC!PopStallLeftover, MC!PopStallSearch, MC!Atomic,
       MC!NPU, NPU

LEMMA InsideSeen ==
  ASSUME MC!TypeOK, MC!Inside
  PROVE  /\ finished' = finished
         /\ \A n \in NPU : tlbq[n] = {} => tlbq'[n] = {}
         /\ \/ pc = "stall" /\ pc' = "dram" /\ caller' = "stall" /\ clock' = clock + 1
            \/ /\ pc = "dram" /\ UNCHANGED <<clock, caller>>
               /\ \/ pc' = "dram"
                  \/ pc' = "idle" /\ caller = "stall" /\ MC!StallReturn
                  \/ pc' = "idle" /\ caller = "sync" /\ MC!SyncReturn
                  \/ pc' = "idle" /\ caller = "keep" /\ MC!KeepReturn
<1>1. CASE MC!StallTick
  BY <1>1, TickSeen DEF MC!StallTick
<1>2. CASE MC!StallReturn
  BY <1>2 DEF MC!StallReturn, MC!TickDone, MC!queues
<1>3. CASE MC!SyncReturn
  BY <1>3 DEF MC!SyncReturn, MC!TickDone, MC!queues
<1>4. CASE MC!KeepReturn
  BY <1>4 DEF MC!KeepReturn, MC!TickDone, MC!queues
<1>5. CASE \E d \in dram : MC!Callback(d)
  BY <1>5 DEF MC!Callback, MC!flags
<1> QED BY <1>1, <1>2, <1>3, <1>4, <1>5 DEF MC!Inside

LEMMA RequestSeen ==
  ASSUME MC!TypeOK, NEW n \in NPU, NEW op, Request(n, op)
  PROVE  /\ UNCHANGED <<Seen, ret, cur>>
         /\ \A m \in NPU : m # n => tlbq'[m] = tlbq[m]
         /\ pc = "idle" /\ n \notin finished => MC!Submit(n)
<1>1. PICK t \in Tags : MC!DramRequest(n, op = Write, AddrOf[n], t)
  BY DEF Request, FreshTags
<1>2. UNCHANGED <<Seen, ret, cur>> /\ \A m \in NPU : m # n => tlbq'[m] = tlbq[m]
  BY <1>1 DEF MC!DramRequest, MC!flags, Seen, MC!TypeOK, MC!NPU, NPU
<1>3. AddrOf[n] \in (SUBSET AddrOf[n]) \ {{}} /\ (op = Write) \in BOOLEAN
  BY ControllerAssumption
<1>4. pc = "idle" /\ n \notin finished => MC!Submit(n)
  BY <1>1, <1>3 DEF MC!Submit
<1> QED BY <1>2, <1>4

LEMMA FinishSeen ==
  ASSUME NEW n, MC!Finish(n)
  PROVE  UNCHANGED <<clock, pc, caller, tlbq>> /\ finished' = finished \cup {n}
BY DEF MC!Finish, MC!queues

LEMMA SettledFinish ==
  ASSUME MC!TypeOK, MC!Core, NEW n \in NPU, Settled(n), pc = "idle", n \notin finished,
         MC!Finish(n)
  PROVE  MC!MarkFinished(n)
<1>1. MCR!Core /\ n \in MCR!NPU /\ MCR!Outstanding(n) = {}
  BY SameController DEF NPU, MCR!NPU, MCR!Settled
<1>2. spm0_req[n] = 0
  BY <1>1, ControllerConstants, MCR!NothingCounted
<1> QED BY <1>2 DEF MC!MarkFinished, Settled

-----------------------------------------------------------------------------
(* Every step of the loop is one the controller's clients may take; who is  *)
(* settled stays settled, unless the loop asks for a tile of a workload     *)
(* that is not over.                                                       *)
Asking == stage \in {"setup", "stall", "issue"}

LEMMA Fields ==
  ASSUME TypeOK, NEW n \in NPU
  PROVE  /\ npu[n] \in NPUState
         /\ npu[n].layer \in Nat /\ npu[n].iter_cnt \in Nat /\ npu[n].compute_cycle \in Nat
         /\ npu[n].tile \in Nat /\ npu[n].dread \in Nat /\ npu[n].dwrite \in Nat
         /\ npu[n].is_begin \in BOOLEAN /\ npu[n].is_returned \in BOOLEAN
         /\ npu[n].tile_full \in BOOLEAN /\ npu[n].eof \in BOOLEAN /\ npu[n].open \in BOOLEAN
         /\ npu[n].is_setup \in BOOLEAN /\ npu[n].is_first \in BOOLEAN
         /\ npu[n].is_terminated \in BOOLEAN /\ npu[n].is_saved \in BOOLEAN
BY DEF TypeOK, NPUState

LEMMA SettledQueue ==
  ASSUME MC!TypeOK, NEW n \in NPU, Settled(n)
  PROVE  tlbq[n] = {}
<1> SUFFICES ASSUME NEW e \in tlbq[n] PROVE FALSE
  OBVIOUS
<1>1. e.pkt \in MC!Outstanding(n)
  BY DEF MC!Outstanding, MC!Pkts
<1> QED BY <1>1 DEF Settled

LEMMA RequestUse ==
  ASSUME TypeOK, LoopInv, NEW n \in NPU, NEW op, Request(n, op), pc = "idle",
         ~npu[n].is_saved
  PROVE  /\ MC!Next
         /\ \A m \in NPU : npu[m].is_saved /\ tlbq[m] = {} => tlbq'[m] = {}
<1>1. n \notin finished
  BY DEF LoopInv, SettledInv
<1>2. MC!TypeOK
  BY DEF TypeOK
<1>3. MC!Submit(n) /\ \A m \in NPU : m # n => tlbq'[m] = tlbq[m]
  BY <1>1, <1>2, RequestSeen
<1> QED BY <1>3 DEF MC!Next, MC!NPU, NPU

LEMMA LoopUse ==
  ASSUME TypeOK, LoopInv, ControllerInv, Next
  PROVE  /\ MC!Next \/ UNCHANGED mcvars
         /\ \A n \in NPU : Settled(n) /\ (npu[n].is_saved \/ ~Asking) => tlbq'[n] = {}
<1> DEFINE Kept == \A n \in NPU : Settled(n) /\ (npu[n].is_saved \/ ~Asking) => tlbq'[n] = {}
<1>1. MC!TypeOK /\ MC!Core
  BY DEF TypeOK, ControllerInv
<1>2. \A n \in NPU : Settled(n) => tlbq[n] = {}
  BY <1>1, SettledQueue
<1>3. UNCHANGED mcvars => Kept
  BY <1>2 DEF mcvars
<1>4. CASE Memory
  BY <1>1, <1>2, <1>4, InsideSeen DEF Memory, MC!Next
<1>5. CASE SetupLayer
  <2> DEFINE n == MC!Least(ToSetup)
  <2>1. n \in NPU /\ ~npu[n].is_saved
    <3>1. ToSetup \in SUBSET Nat /\ ToSetup # {}
      BY <1>5 DEF SetupLayer, ToSetup, NPU
    <3>2. n \in ToSetup
      BY <3>1, LeastOf
    <3>3. \A m \in ToSetup : m \in NPU /\ ~npu[m].is_terminated
      BY DEF ToSetup
    <3> HIDE DEF n
    <3> QED BY <3>2, <3>3, Fields DEF LoopInv, PhaseInv, PhaseOf
  <2>2. pc = "idle" /\ Asking
    BY <1>5 DEF SetupLayer, LoopInv, CallInv, Asking
  <2>3. SetupNow(n) \/ SetupLater(n)
    BY <1>5 DEF SetupLayer
  <2> HIDE DEF n
  <2>4. CASE SetupNow(n)
    BY <1>2, <2>1, <2>2, <2>4, RequestUse DEF SetupNow
  <2>5. CASE SetupLater(n)
    BY <1>3, <2>5 DEF SetupLater
  <2> QED BY <2>3, <2>4, <2>5
<1>6. CASE KeepStart
  <2> DEFINE n == Head(keep_queue)
  <2>1. n \in NPU /\ ~npu[n].is_saved
    <3>1. n = keep_queue[1] /\ 1 \in DOMAIN keep_queue /\ n \in NPU
      BY <1>6 DEF KeepStart, TypeOK
    <3>2. npu[n].open
      BY <3>1 DEF LoopInv, KeepInv
    <3> HIDE DEF n
    <3> QED BY <3>1, <3>2, Fields DEF LoopInv, PhaseInv, PhaseOf
  <2>2. pc = "idle" /\ Asking /\ Request(n, Read)
    BY <1>6 DEF KeepStart, LoopInv, CallInv, Asking
  <2> HIDE DEF n
  <2> QED BY <1>2, <2>1, <2>2, RequestUse
<1>7. CASE Issue
  <2> DEFINE p == Head(cycle_idx_map)
  <2>1. p.npu \in NPU /\ ~npu[p.npu].is_saved
    <3>1. p = cycle_idx_map[1] /\ 1 \in DOMAIN cycle_idx_map /\ p \in Packet
      BY <1>7 DEF Issue, TypeOK, LoopInv, QueueInv, Issuing
    <3>2. PacketOf(p)
      BY <3>1 DEF LoopInv, PacketInv
    <3> HIDE DEF p
    <3> QED BY <3>1, <3>2, Fields DEF LoopInv, PhaseInv, PhaseOf, PacketOf, Packet
  <2>2. pc = "idle" /\ Asking /\ Request(p.npu, p.op)
    BY <1>7 DEF Issue, LoopInv, CallInv, Asking
  <2> HIDE DEF p
  <2> QED BY <1>2, <2>1, <2>2, RequestUse
<1>8. CASE KeepWait
  BY <1>8, TickSeen DEF KeepWait, MC!Next, MC!KeepTick
<1>9. CASE SyncTick
  BY <1>9, TickSeen DEF SyncTick, MC!Next, MC!SyncTick
<1>10. CASE CallStall
  BY <1>10, PopStallSeen DEF CallStall, MC!Next
<1>11. CASE Retire
  <2>1. CASE RetireWorkload
    <3>1. idx \in NPU /\ Settled(idx) /\ pc = "idle" /\ idx \notin finished
      BY <1>11, <2>1 DEF Retire, RetireWorkload, LoopInv, SettledInv, RetireInv, Retiring, CallInv
    <3>2. MC!MarkFinished(idx) /\ UNCHANGED tlbq
      BY <1>1, <2>1, <3>1, SettledFinish, FinishSeen DEF RetireWorkload
    <3> QED BY <1>2, <3>1, <3>2 DEF MC!Next, MC!NPU, NPU
  <2>2. CASE RetireLayer \/ RetireIteration
    BY <1>3, <2>2 DEF RetireLayer, RetireIteration
  <2> QED BY <1>11, <2>1, <2>2 DEF Retire
<1>12. CASE \/ SetupDone \/ KeepPoll \/ StallResult \/ ReturnLayer \/ ReturnOther \/ RunSkip
            \/ RunReturned \/ RunNPU \/ RunDone \/ PopSync \/ PopNoSync \/ PopDone \/ SyncDone
            \/ Terminated
  <2>1. UNCHANGED mcvars
    BY <1>12 DEF SetupDone, KeepPoll, StallResult, ReturnLayer, ReturnOther, RunSkip,
                RunReturned, RunNPU, RunDone, PopSync, PopNoSync, PopDone, SyncDone,
                Terminated, vars
  <2> QED BY <1>3, <2>1
<1> QED BY <1>4, <1>5, <1>6, <1>7, <1>8, <1>9, <1>10, <1>11, <1>12 DEF Next, Loop

(* The controller's part of a step of the loop.                            *)
LEMMA LoopController ==
  ASSUME TypeOK, LoopInv, ControllerInv, [Next]_vars
  PROVE  /\ [MC!Next]_mcvars
         /\ MC!TypeOK' /\ ControllerInv'
         /\ \A n \in NPU : Settled(n) /\ (npu[n].is_saved \/ ~Asking) => Settled(n)'
<1>1. MC!TypeOK
  BY DEF TypeOK
<1>2. [MC!Next]_mcvars
  BY LoopUse DEF vars
<1>3. /\ MC!TypeOK' /\ ControllerInv'
      /\ \A n \in NPU : Settled(n) /\ tlbq'[n] = {} => Settled(n)'
  BY <1>1, <1>2, ControllerStep
<1>4. \A n \in NPU : Settled(n) /\ (npu[n].is_saved \/ ~Asking) => tlbq'[n] = {}
  <2>1. CASE Next
    BY <2>1, LoopUse
  <2>2. CASE UNCHANGED vars
    BY <1>1, <2>2, SettledQueue DEF vars, mcvars
  <2> QED BY <2>1, <2>2
<1> QED BY <1>2, <1>3, <1>4

-----------------------------------------------------------------------------
(* Types. *)
LEMMA AfterMemOpType ==
  ASSUME NEW s \in NPUState, NEW op
  PROVE  AfterMemOp(s, op) \in NPUState
BY DEF NPUState, AfterMemOp

LEMMA OpenedType ==
  ASSUME NEW s \in NPUState
  PROVE  Opened(s) \in NPUState
BY DEF NPUState, Opened

LEMMA ClosedType ==
  ASSUME NEW s \in NPUState, NEW n
  PROVE  Closed(s, n) \in NPUState
<1> DEFINE l == s.layer + 1
           c == s.iter_cnt + 1
<1>1. l \in Nat /\ c \in Nat
  BY DEF NPUState
<1>2. Closed(s, n) =
        IF l = Len(Layers[n])
          THEN [s EXCEPT !.open = FALSE, !.layer = l, !.is_first = TRUE,
                         !.iter_cnt = c, !.is_terminated = TRUE]
          ELSE [s EXCEPT !.open = FALSE, !.layer = l, !.is_first = TRUE]
  BY DEF Closed
<1> HIDE DEF l, c
<1>3. [s EXCEPT !.open = FALSE, !.layer = l, !.is_first = TRUE,
                !.iter_cnt = c, !.is_terminated = TRUE] \in NPUState
  BY <1>1 DEF NPUState
<1>4. [s EXCEPT !.open = FALSE, !.layer = l, !.is_first = TRUE] \in NPUState
  BY <1>1 DEF NPUState
<1> QED BY <1>2, <1>3, <1>4

LEMMA ComputedType ==
  ASSUME NEW s \in NPUState, NEW n \in NPU
  PROVE  Computed(s, n) \in NPUState /\ s.compute_cycle <= Computed(s, n).compute_cycle
<1> DEFINE c == s.compute_cycle + ComputeTime[n]
           k == s.tile + 1
<1>1. ComputeTime[n] \in Nat
  BY WorkloadAssumption
<1>2. c \in Nat /\ k \in Nat /\ s.compute_cycle <= c
  BY <1>1 DEF NPUState
<1>3. Computed(s, n) = [s EXCEPT !.compute_cycle = c, !.tile = k, !.is_first = FALSE]
  BY DEF Computed
<1> HIDE DEF c, k
<1>4. /\ [s EXCEPT !.compute_cycle = c, !.tile = k, !.is_first = FALSE] \in NPUState
      /\ [s EXCEPT !.compute_cycle = c, !.tile = k, !.is_first = FALSE].compute_cycle = c
  BY <1>2 DEF NPUState
<1> QED BY <1>2, <1>3, <1>4

(* The three things a turn may do.                                         *)
LEMMA RunResultCases ==
  ASSUME NEW n \in NPU
  PROVE  \/ npu[n].tile_full /\ RunResult(n) = RunWrite(n)
         \/ ~npu[n].tile_full /\ npu[n].tile + 1 < Tiles(n) /\ RunResult(n) = RunTile(n)
         \/ ~npu[n].tile_full /\ ~(npu[n].tile + 1 < Tiles(n)) /\ RunResult(n) = RunLast(n)
BY DEF RunResult

RunTypeOf(n, r) ==
  /\ r.state \in NPUState /\ r.op \in {Read, Write} /\ r.sync \in BOOLEAN /\ r.eof \in BOOLEAN
  /\ npu[n].compute_cycle <= r.state.compute_cycle

LEMMA RunResultType ==
  ASSUME TypeOK, NEW n \in NPU
  PROVE  /\ RunTypeOf(n, RunResult(n))
         /\ Npu2Dram(n, RunResult(n).state.compute_cycle) \in Nat
<1>1. /\ npu[n] \in NPUState /\ npu[n].compute_cycle \in Nat
      /\ Computed(npu[n], n) \in NPUState
      /\ npu[n].compute_cycle <= Computed(npu[n], n).compute_cycle
  BY Fields, ComputedType
<1>2. RunTypeOf(n, RunWrite(n))
  <2>1. [npu[n] EXCEPT !.tile_full = FALSE, !.is_first = FALSE] \in NPUState
    BY <1>1 DEF NPUState
  <2>2. RunWrite(n).state.compute_cycle = npu[n].compute_cycle
    BY <1>1 DEF RunWrite, NPUState
  <2> QED BY <1>1, <2>1, <2>2 DEF RunTypeOf, RunWrite
<1> DEFINE s == Computed(npu[n], n)
<1> HIDE DEF s
<1>3. RunTypeOf(n, RunTile(n))
  <2>1. /\ RunTile(n).state = [s EXCEPT !.tile_full = TRUE, !.is_returned = FALSE]
        /\ RunTile(n).op = Read /\ RunTile(n).sync = FALSE /\ RunTile(n).eof = FALSE
    BY DEF RunTile, s
  <2>2. s \in NPUState /\ npu[n].compute_cycle <= s.compute_cycle
    BY <1>1 DEF s
  <2>3. [s EXCEPT !.tile_full = TRUE, !.is_returned = FALSE] \in NPUState
    BY <2>2 DEF NPUState
  <2> QED BY <2>1, <2>2, <2>3 DEF RunTypeOf, NPUState
<1>4. RunTypeOf(n, RunLast(n))
  <2>1. /\ RunLast(n).state = [s EXCEPT !.eof = TRUE]
        /\ RunLast(n).op = Write /\ RunLast(n).sync = TRUE /\ RunLast(n).eof = TRUE
    BY DEF RunLast, s
  <2>2. s \in NPUState /\ npu[n].compute_cycle <= s.compute_cycle
    BY <1>1 DEF s
  <2>3. [s EXCEPT !.eof = TRUE] \in NPUState
    BY <2>2 DEF NPUState
  <2> QED BY <2>1, <2>2, <2>3 DEF RunTypeOf, NPUState
<1>5. RunTypeOf(n, RunResult(n))
  BY <1>2, <1>3, <1>4, RunResultCases
<1>6. RunResult(n).state.compute_cycle \in Nat
  BY <1>5 DEF RunTypeOf, NPUState
<1> QED BY <1>5, <1>6, Conversions

Stages == {"setup", "stall", "keepwait", "stallwait", "ret", "retire",
           "run", "pop", "issue", "sync", "done"}
LoopTypes ==
  /\ npu \in [NPU -> NPUState] /\ memory_cycle \in Nat
  /\ keep_queue \in Seq(NPU) /\ cycle_idx_map \in Seq(Packet)
  /\ idx \in NPU \cup {MC!None, N}
  /\ stage \in Stages /\ i \in 0 .. N /\ cont \in {"retire", "run", "issue"}

LEMMA TypeParts == TypeOK <=> MC!TypeOK /\ LoopTypes
BY DEF TypeOK, LoopTypes, Stages

LEMMA WhoIsSetUp ==
  ASSUME ToSetup # {}
  PROVE  MC!Least(ToSetup) \in ToSetup /\ MC!Least(ToSetup) \in NPU
<1>1. ToSetup \in SUBSET Nat /\ ToSetup \subseteq NPU
  BY DEF ToSetup, NPU
<1> QED BY <1>1, LeastOf

LEMMA WhoIsFirst ==
  ASSUME keep_queue \in Seq(NPU), keep_queue # << >>
  PROVE  /\ Head(keep_queue) \in NPU /\ Head(keep_queue) = keep_queue[1]
         /\ 1 \in DOMAIN keep_queue
         /\ Tail(keep_queue) \in Seq(NPU)
         /\ \A k \in DOMAIN Tail(keep_queue) :
              k + 1 \in DOMAIN keep_queue /\ Tail(keep_queue)[k] = keep_queue[k + 1]
<1>1. Len(keep_queue) \in Nat \ {0} /\ DOMAIN keep_queue = 1 .. Len(keep_queue)
  OBVIOUS
<1>2. /\ Head(keep_queue) \in NPU /\ Head(keep_queue) = keep_queue[1]
      /\ Tail(keep_queue) \in Seq(NPU) /\ Len(Tail(keep_queue)) = Len(keep_queue) - 1
      /\ \A k \in 1 .. Len(Tail(keep_queue)) : Tail(keep_queue)[k] = keep_queue[k + 1]
  BY HeadTailProperties
<1> QED BY <1>1, <1>2

LEMMA WhoIsIssued ==
  ASSUME TypeOK, LoopInv, cycle_idx_map # << >>
  PROVE  LET h == Head(cycle_idx_map)
         IN  /\ h = cycle_idx_map[1] /\ 1 \in DOMAIN cycle_idx_map
             /\ h \in Packet /\ h.npu \in NPU /\ PacketOf(h)
<1> DEFINE h == Head(cycle_idx_map)
<1>1. h = cycle_idx_map[1] /\ 1 \in DOMAIN cycle_idx_map /\ h \in Packet
  BY DEF TypeOK
<1>2. PacketOf(h)
  BY <1>1 DEF LoopInv, PacketInv
<1> QED BY <1>1, <1>2 DEF Packet

(* What becomes of the NPU a step is about; nobody else's state moves.     *)
Only(n, s) == npu' = [npu EXCEPT ![n] = s]

LEMMA OnlyOne ==
  ASSUME npu \in [NPU -> NPUState], NEW n \in NPU, NEW s \in NPUState, Only(n, s)
  PROVE  /\ npu' \in [NPU -> NPUState] /\ npu'[n] = s
         /\ \A m \in NPU : m # n => npu'[m] = npu[m]
BY DEF Only

LEMMA LoopTypeNext ==
  ASSUME TypeOK, LoopInv, [Next]_vars
  PROVE  LoopTypes'
<1>1. MC!TypeOK /\ LoopTypes
  BY TypeParts
<1>2. clock \in Nat /\ ret \in NPU \cup {MC!KeepStalling, MC!None}
  BY <1>1 DEF MC!TypeOK, MC!NPU, NPU
<1>3. ASSUME NEW n \in NPU, NEW s \in NPUState, Only(n, s) PROVE npu' \in [NPU -> NPUState]
  BY <1>1, <1>3, OnlyOne DEF LoopTypes
<1>4. ASSUME NEW n \in NPU
      PROVE  /\ [npu[n] EXCEPT !.compute_cycle = Synced(n)] \in NPUState
             /\ \A next : MemSync(n, next) => memory_cycle' \in Nat /\ stage' = "sync" /\ cont' = next
  BY SyncedBounds, Fields DEF NPUState, MemSync
<1>5. CASE SetupLayer
  <2> DEFINE n == MC!Least(ToSetup)
  <2>1. n \in NPU /\ npu[n] \in NPUState /\ (SetupNow(n) \/ SetupLater(n))
    BY <1>5, WhoIsSetUp, Fields DEF SetupLayer
  <2>2. UNCHANGED <<memory_cycle, cycle_idx_map, idx, stage, i, cont>>
    BY <1>5 DEF SetupLayer
  <2> HIDE DEF n
  <2>3. Opened(npu[n]) \in NPUState
    BY <2>1, OpenedType
  <2>4. AfterMemOp([Opened(npu[n]) EXCEPT !.is_begin = TRUE], Read) \in NPUState
    <3>1. [Opened(npu[n]) EXCEPT !.is_begin = TRUE] \in NPUState
      BY <2>3 DEF NPUState
    <3> QED BY <3>1, AfterMemOpType
  <2>5. npu' \in [NPU -> NPUState]
    <3>1. CASE SetupNow(n)
      BY <1>3, <2>1, <2>4, <3>1 DEF SetupNow, Only
    <3>2. CASE SetupLater(n)
      BY <1>3, <2>1, <2>3, <3>2 DEF SetupLater, Only
    <3> QED BY <2>1, <3>1, <3>2
  <2>6. keep_queue' \in Seq(NPU)
    <3>1. keep_queue \in Seq(NPU) /\ Append(keep_queue, n) \in Seq(NPU)
      BY <1>1, <2>1, AppendProperties DEF LoopTypes
    <3>2. keep_queue' \in {keep_queue, Append(keep_queue, n)}
      BY <2>1 DEF SetupNow, SetupLater
    <3> QED BY <3>1, <3>2
  <2> QED BY <1>1, <2>2, <2>5, <2>6 DEF LoopTypes
<1>6. CASE KeepStart
  <2> DEFINE n == Head(keep_queue)
  <2>1. n \in NPU /\ npu[n] \in NPUState /\ Tail(keep_queue) \in Seq(NPU)
    BY <1>1, <1>6, WhoIsFirst, Fields DEF KeepStart, LoopTypes
  <2>2. Only(n, AfterMemOp([npu[n] EXCEPT !.is_begin = TRUE], Read))
    BY <1>6 DEF KeepStart, Only
  <2>3. keep_queue' = Tail(keep_queue) /\ UNCHANGED <<memory_cycle, cycle_idx_map, idx, stage, i, cont>>
    BY <1>6 DEF KeepStart
  <2> HIDE DEF n
  <2>4. AfterMemOp([npu[n] EXCEPT !.is_begin = TRUE], Read) \in NPUState
    <3>1. [npu[n] EXCEPT !.is_begin = TRUE] \in NPUState
      BY <2>1 DEF NPUState
    <3> QED BY <3>1, AfterMemOpType
  <2> QED BY <1>1, <1>3, <2>1, <2>2, <2>3, <2>4 DEF LoopTypes
<1>7. CASE ReturnLayer
  <2>1. idx \in NPU /\ Only(idx, [npu[idx] EXCEPT !.compute_cycle = Synced(idx)])
    BY <1>7 DEF ReturnLayer, LayerReturned, Only
  <2>2. MemSync(idx, "retire") /\ UNCHANGED <<keep_queue, cycle_idx_map, idx, i>>
    BY <1>7 DEF ReturnLayer
  <2>3. npu' \in [NPU -> NPUState]
    BY <1>3, <1>4, <2>1
  <2>4. memory_cycle' \in Nat /\ stage' = "sync" /\ cont' = "retire"
    BY <1>4, <2>1, <2>2
  <2> QED BY <1>1, <2>2, <2>3, <2>4 DEF LoopTypes, Stages
<1>8. CASE Retire
  <2>1. /\ UNCHANGED <<keep_queue, cycle_idx_map, idx>> /\ idx \in NPU /\ i' = 0 /\ 0 \in 0 .. N
    BY <1>8, ControllerAssumption
    DEF Retire, LoopInv, RetireInv, Retiring, RetireLayer, RetireWorkload, RetireIteration
  <2>2. npu[idx] \in NPUState
    BY <2>1, Fields
  <2>3. CASE RetireLayer
    <3>1. Only(idx, [npu[idx] EXCEPT !.is_setup = FALSE])
          /\ [npu[idx] EXCEPT !.is_setup = FALSE] \in NPUState
      BY <2>2, <2>3 DEF RetireLayer, Only, NPUState
    <3>2. npu' \in [NPU -> NPUState]
      BY <1>3, <2>1, <3>1
    <3> QED BY <1>1, <2>1, <2>3, <3>2 DEF RetireLayer, LoopTypes, Stages
  <2>4. CASE RetireWorkload
    <3>1. /\ Only(idx, [npu[idx] EXCEPT !.is_saved = TRUE, !.is_setup = FALSE])
          /\ [npu[idx] EXCEPT !.is_saved = TRUE, !.is_setup = FALSE] \in NPUState
      BY <2>2, <2>4 DEF RetireWorkload, Only, NPUState
    <3>2. npu' \in [NPU -> NPUState]
      BY <1>3, <2>1, <3>1
    <3> QED BY <1>1, <2>1, <2>4, <3>2 DEF RetireWorkload, LoopTypes, Stages
  <2>5. CASE RetireIteration
    <3> DEFINE s == [npu[idx] EXCEPT !.layer = 0, !.is_first = TRUE, !.tile_full = FALSE,
                       !.is_setup = FALSE, !.is_returned = FALSE,
                       !.is_terminated = FALSE, !.compute_cycle = Synced(idx)]
    <3>1. Only(idx, s) /\ MemSync(idx, "run")
      BY <2>5 DEF RetireIteration, Only
    <3>2. s \in NPUState
      BY <2>1, <2>2, SyncedBounds DEF NPUState
    <3>3. memory_cycle' \in Nat /\ stage' = "sync" /\ cont' = "run"
      BY <1>4, <2>1, <3>1
    <3> HIDE DEF s
    <3>4. npu' \in [NPU -> NPUState]
      BY <1>3, <2>1, <3>1, <3>2
    <3> QED BY <1>1, <2>1, <3>3, <3>4 DEF LoopTypes, Stages
  <2> QED BY <1>8, <2>3, <2>4, <2>5 DEF Retire
<1>9. CASE RunReturned
  <2>1. i \in NPU /\ i < N
    BY <1>1, <1>9, ControllerAssumption DEF RunReturned, LoopTypes, NPU
  <2>2. Only(i, [npu[i] EXCEPT !.is_returned = TRUE, !.compute_cycle = Synced(i)])
    BY <1>9 DEF RunReturned, Only
  <2>3. [npu[i] EXCEPT !.is_returned = TRUE, !.compute_cycle = Synced(i)] \in NPUState
    BY <2>1, SyncedBounds, Fields DEF NPUState
  <2>4. MemSync(i, "run") /\ UNCHANGED <<keep_queue, cycle_idx_map, idx, i>>
    BY <1>9 DEF RunReturned
  <2>5. memory_cycle' \in Nat /\ stage' = "sync" /\ cont' = "run"
    BY <1>4, <2>1, <2>4
  <2>6. npu' \in [NPU -> NPUState]
    BY <1>3, <2>1, <2>2, <2>3
  <2> QED BY <1>1, <2>4, <2>5, <2>6 DEF LoopTypes, Stages
<1>10. CASE RunNPU
  <2> DEFINE r == RunResult(i)
             p == [key |-> Npu2Dram(i, r.state.compute_cycle), npu |-> i,
                   op |-> r.op, sync |-> r.sync, eof |-> r.eof]
  <2>1. i \in NPU /\ i + 1 \in 0 .. N
    BY <1>1, <1>10, ControllerAssumption DEF RunNPU, LoopTypes, NPU
  <2>2. Only(i, r.state) /\ cycle_idx_map' = InsertPacket(p) /\ i' = i + 1
    BY <1>10 DEF RunNPU, Only
  <2>3. RunTypeOf(i, r) /\ Npu2Dram(i, r.state.compute_cycle) \in Nat
    BY <2>1, RunResultType
  <2> HIDE DEF r
  <2>4. p \in Packet
    BY <2>1, <2>3 DEF Packet, RunTypeOf
  <2> HIDE DEF p
  <2>5. npu' \in [NPU -> NPUState]
    BY <1>3, <2>1, <2>2, <2>3 DEF RunTypeOf
  <2>6. cycle_idx_map' \in Seq(Packet)
    <3>1. PICK at \in 1 .. Len(cycle_idx_map) + 1 : InsertPacket(p) = InsertAt(cycle_idx_map, at, p)
      BY <1>1, <2>4, Inserted DEF LoopTypes, LoopInv
    <3> QED BY <1>1, <2>2, <2>4, <3>1, InsertAtElements DEF LoopTypes
  <2>7. UNCHANGED <<memory_cycle, keep_queue, idx, stage, cont>>
    BY <1>10 DEF RunNPU
  <2> QED BY <1>1, <2>1, <2>2, <2>5, <2>6, <2>7 DEF LoopTypes
<1>11. CASE PopSync
  <2> DEFINE n == Head(cycle_idx_map).npu
  <2>1. n \in NPU
    BY <1>11, WhoIsIssued DEF PopSync, Due
  <2>2. /\ Only(n, [npu[n] EXCEPT !.compute_cycle = Synced(n)]) /\ MemSync(n, "issue")
        /\ idx' = n /\ UNCHANGED <<keep_queue, cycle_idx_map, i>>
    BY <1>11 DEF PopSync, Only
  <2> HIDE DEF n
  <2>3. npu' \in [NPU -> NPUState]
    BY <1>3, <1>4, <2>1, <2>2
  <2>4. memory_cycle' \in Nat /\ stage' = "sync" /\ cont' = "issue"
    BY <1>4, <2>1, <2>2
  <2> QED BY <1>1, <2>1, <2>2, <2>3, <2>4 DEF LoopTypes, Stages
<1>12. CASE PopNoSync
  <2>1. Head(cycle_idx_map).npu \in NPU
    BY <1>12, WhoIsIssued DEF PopNoSync, Due
  <2> QED BY <1>1, <1>12, <2>1 DEF PopNoSync, LoopTypes, Stages
<1>13. CASE Issue
  <2> DEFINE p == Head(cycle_idx_map)
             s == AfterMemOp(npu[p.npu], p.op)
             t == IF p.eof THEN Closed(s, p.npu) ELSE s
  <2>1. p.npu \in NPU /\ cycle_idx_map # << >>
    BY <1>13, WhoIsIssued DEF Issue, LoopInv, QueueInv, Issuing
  <2>2. t \in NPUState
    <3>1. s \in NPUState
      BY <2>1, Fields, AfterMemOpType
    <3> HIDE DEF s, p
    <3> QED BY <3>1, ClosedType
  <2>3. Only(p.npu, t)
    BY <1>13 DEF Issue, Only
  <2>4. /\ cycle_idx_map' = Tail(cycle_idx_map) /\ stage' = "pop"
        /\ UNCHANGED <<memory_cycle, keep_queue, idx, i, cont>>
    BY <1>13 DEF Issue
  <2> HIDE DEF p, t
  <2>5. npu' \in [NPU -> NPUState]
    BY <1>3, <2>1, <2>2, <2>3
  <2>6. cycle_idx_map' \in Seq(Packet)
    BY <1>1, <2>1, <2>4, HeadTailProperties DEF LoopTypes
  <2> QED BY <1>1, <2>4, <2>5, <2>6 DEF LoopTypes, Stages
<1>14. CASE Memory \/ SyncTick \/ SetupDone \/ KeepWait \/ CallStall \/ UNCHANGED vars
  BY <1>1, <1>14 DEF Memory, SyncTick, SetupDone, KeepWait, CallStall, vars, loopvars,
                     LoopTypes, Stages
<1>15. CASE KeepPoll \/ StallResult
  BY <1>1, <1>2, <1>15, ControllerAssumption
  DEF KeepPoll, StallResult, LoopTypes, Stages, MC!KeepStalling, MC!None, NPU
<1>16. CASE ReturnOther \/ SyncDone \/ PopDone \/ RunDone
  BY <1>1, <1>16, ControllerAssumption
  DEF ReturnOther, SyncDone, PopDone, RunDone, LoopTypes, Stages
<1>17. CASE RunSkip
  BY <1>1, <1>17, ControllerAssumption DEF RunSkip, LoopTypes
<1>18. CASE Terminated
  BY <1>1, <1>18 DEF Terminated, vars, loopvars, LoopTypes
<1> QED BY <1>5, <1>6, <1>7, <1>8, <1>9, <1>10, <1>11, <1>12, <1>13, <1>14, <1>15,
           <1>16, <1>17, <1>18 DEF Next, Loop

LEMMA TypeNext ==
  ASSUME TypeOK, LoopInv, ControllerInv, [Next]_vars
  PROVE  TypeOK'
<1>1. MC!TypeOK' /\ LoopTypes'
  BY LoopController, LoopTypeNext
<1>2. (MC!TypeOK /\ LoopTypes => TypeOK)'
  BY TypeParts, PTL
<1> QED BY <1>1, <1>2

-----------------------------------------------------------------------------
(* Whose call the controller is busy with, and the copy of its clock.      *)
LEMMA CallNext ==
  ASSUME TypeOK, LoopInv, [Next]_vars
  PROVE  CallInv'
<1>1. CallInv /\ MC!TypeOK
  BY DEF LoopInv, TypeOK
<1>2. ASSUME NEW n \in NPU, NEW op, Request(n, op) PROVE UNCHANGED <<pc, caller>>
  BY <1>1, <1>2, RequestSeen DEF Seen
<1>3. CASE Memory
  BY <1>1, <1>3, InsideSeen DEF Memory, loopvars, CallInv
<1>4. CASE SetupLayer
  <2> DEFINE n == MC!Least(ToSetup)
  <2>1. n \in NPU /\ (SetupNow(n) \/ SetupLater(n)) /\ stage' = stage
    BY <1>4, WhoIsSetUp DEF SetupLayer
  <2> HIDE DEF n
  <2>2. UNCHANGED <<pc, caller>>
    BY <1>2, <2>1 DEF SetupNow, SetupLater, mcvars
  <2> QED BY <1>1, <2>1, <2>2 DEF CallInv
<1>5. CASE KeepStart
  <2>1. Head(keep_queue) \in NPU
    BY <1>5, WhoIsFirst DEF KeepStart, TypeOK
  <2> QED BY <1>1, <1>2, <1>5, <2>1 DEF KeepStart, CallInv
<1>6. CASE Issue
  <2>1. Head(cycle_idx_map).npu \in NPU
    BY <1>6, WhoIsIssued DEF Issue, LoopInv, QueueInv, Issuing
  <2>2. UNCHANGED <<pc, caller>>
    BY <1>2, <1>6, <2>1 DEF Issue
  <2> QED BY <1>1, <1>6, <2>2 DEF Issue, CallInv
<1>7. CASE KeepWait
  BY <1>7, TickSeen DEF KeepWait, MC!KeepTick, CallInv
<1>8. CASE SyncTick
  BY <1>1, <1>8, TickSeen DEF SyncTick, MC!SyncTick, loopvars, CallInv
<1>9. CASE CallStall
  BY <1>9, PopStallSeen DEF CallStall, CallInv
<1>10. CASE Retire
  <2>1. UNCHANGED <<pc, caller>>
    BY <1>10, FinishSeen DEF Retire, RetireLayer, RetireWorkload, RetireIteration, mcvars
  <2>2. stage = "retire" /\ stage' \in {"run", "sync"}
    BY <1>10 DEF Retire, RetireLayer, RetireWorkload, RetireIteration, MemSync
  <2> QED BY <1>1, <2>1, <2>2 DEF CallInv
<1>11. CASE ReturnLayer \/ RunReturned \/ PopSync
  BY <1>1, <1>11 DEF ReturnLayer, RunReturned, PopSync, MemSync, mcvars, CallInv
<1>12. CASE SetupDone \/ KeepPoll \/ StallResult \/ ReturnOther
  BY <1>1, <1>12 DEF SetupDone, KeepPoll, StallResult, ReturnOther, mcvars, CallInv
<1>13. CASE RunSkip \/ RunNPU \/ RunDone \/ PopNoSync \/ PopDone
  BY <1>1, <1>13 DEF RunSkip, RunNPU, RunDone, PopNoSync, PopDone, mcvars, CallInv
<1>14. CASE SyncDone
  BY <1>1, <1>14 DEF SyncDone, mcvars, CallInv, TypeOK
<1>15. CASE Terminated \/ UNCHANGED vars
  BY <1>1, <1>15 DEF Terminated, vars, mcvars, loopvars, CallInv
<1> QED BY <1>3, <1>4, <1>5, <1>6, <1>7, <1>8, <1>9, <1>10, <1>11, <1>12, <1>13, <1>14,
           <1>15 DEF Next, Loop

LEMMA ClockNext ==
  ASSUME TypeOK, LoopInv, [Next]_vars
  PROVE  ClockInv' /\ clock <= clock' /\ memory_cycle <= memory_cycle'
<1>1. ClockInv /\ CallInv /\ MC!TypeOK /\ clock \in Nat /\ memory_cycle \in Nat
  BY DEF LoopInv, TypeOK, MC!TypeOK
<1>2. ASSUME NEW n \in NPU, NEW op, Request(n, op) PROVE clock' = clock
  BY <1>1, <1>2, RequestSeen DEF Seen
<1>3. ASSUME NEW n \in NPU, NEW next, MemSync(n, next), clock' = clock, memory_cycle = clock
      PROVE  ClockInv' /\ clock <= clock' /\ memory_cycle <= memory_cycle'
  <2>1. clock <= memory_cycle' /\ stage' = "sync"
    BY <1>3, SyncedBounds DEF MemSync
  <2> QED BY <1>1, <1>3, <2>1 DEF ClockInv, ClockInStep
<1>4. CASE Memory
  <2>1. clock' = clock \/ (pc = "stall" /\ clock' = clock + 1)
    BY <1>1, <1>4, InsideSeen DEF Memory
  <2>2. UNCHANGED <<memory_cycle, stage>>
    BY <1>4 DEF Memory, loopvars
  <2>3. pc = "stall" => stage = "stallwait"
    BY <1>1 DEF CallInv, TypeOK
  <2> QED BY <1>1, <2>1, <2>2, <2>3 DEF ClockInv, ClockInStep
<1>5. CASE SetupLayer
  <2> DEFINE n == MC!Least(ToSetup)
  <2>1. n \in NPU /\ (SetupNow(n) \/ SetupLater(n)) /\ UNCHANGED <<stage, memory_cycle>>
    BY <1>5, WhoIsSetUp DEF SetupLayer
  <2> HIDE DEF n
  <2>2. clock' = clock
    BY <1>2, <2>1 DEF SetupNow, SetupLater, mcvars
  <2> QED BY <1>1, <2>1, <2>2 DEF ClockInv, ClockInStep
<1>6. CASE KeepStart
  <2>1. Head(keep_queue) \in NPU
    BY <1>6, WhoIsFirst DEF KeepStart, TypeOK
  <2> QED BY <1>1, <1>2, <1>6, <2>1 DEF KeepStart, ClockInv, ClockInStep
<1>7. CASE Issue
  <2>1. Head(cycle_idx_map).npu \in NPU
    BY <1>7, WhoIsIssued DEF Issue, LoopInv, QueueInv, Issuing
  <2>2. clock' = clock
    BY <1>2, <1>7, <2>1 DEF Issue
  <2> QED BY <1>1, <1>7, <2>2 DEF Issue, ClockInv, ClockInStep
<1>8. CASE KeepWait
  <2>1. clock' = clock + 1 /\ memory_cycle' = memory_cycle
    BY <1>8, TickSeen DEF KeepWait, MC!KeepTick
  <2> QED BY <1>1, <1>8, <2>1 DEF KeepWait, ClockInv, ClockInStep
<1>9. CASE SyncTick
  <2>1. clock' = clock + 1 /\ UNCHANGED <<memory_cycle, stage>>
    BY <1>9, TickSeen DEF SyncTick, MC!SyncTick, loopvars
  <2> QED BY <1>1, <1>9, <2>1 DEF SyncTick, ClockInv, ClockInStep
<1>10. CASE CallStall
  <2>1. UNCHANGED <<clock, memory_cycle>>
    BY <1>10, PopStallSeen DEF CallStall
  <2> QED BY <1>1, <1>10, <2>1 DEF CallStall, ClockInv, ClockInStep
<1>11. CASE Retire
  <2>1. memory_cycle = clock /\ idx \in NPU
    BY <1>1, <1>11 DEF Retire, ClockInv, ClockInStep, LoopInv, RetireInv, Retiring
  <2>2. clock' = clock
    BY <1>11, FinishSeen DEF Retire, RetireLayer, RetireWorkload, RetireIteration, mcvars
  <2>3. MemSync(idx, "run") \/ (UNCHANGED memory_cycle /\ stage' = "run")
    BY <1>11 DEF Retire, RetireLayer, RetireWorkload, RetireIteration
  <2> QED BY <1>1, <1>3, <2>1, <2>2, <2>3 DEF ClockInv, ClockInStep
<1>12. CASE ReturnLayer
  BY <1>1, <1>3, <1>12 DEF ReturnLayer, LayerReturned, mcvars, ClockInv, ClockInStep
<1>13. CASE RunReturned
  <2>1. i \in NPU
    BY <1>13, ControllerAssumption DEF RunReturned, TypeOK, NPU
  <2> QED BY <1>1, <1>3, <1>13, <2>1 DEF RunReturned, mcvars, ClockInv, ClockInStep
<1>14. CASE PopSync
  <2>1. Head(cycle_idx_map).npu \in NPU
    BY <1>14, WhoIsIssued DEF PopSync, Due
  <2> QED BY <1>1, <1>3, <1>14, <2>1 DEF PopSync, mcvars, ClockInv, ClockInStep
<1>15. CASE SetupDone \/ KeepPoll \/ StallResult \/ ReturnOther
  BY <1>1, <1>15 DEF SetupDone, KeepPoll, StallResult, ReturnOther, mcvars, ClockInv, ClockInStep
<1>16. CASE RunSkip \/ RunNPU \/ RunDone \/ PopNoSync \/ PopDone
  BY <1>1, <1>16 DEF RunSkip, RunNPU, RunDone, PopNoSync, PopDone, mcvars, ClockInv, ClockInStep
<1>17. CASE SyncDone
  BY <1>1, <1>17 DEF SyncDone, mcvars, ClockInv, ClockInStep, TypeOK
<1>18. CASE Terminated \/ UNCHANGED vars
  BY <1>1, <1>18 DEF Terminated, vars, mcvars, loopvars, ClockInv, ClockInStep
<1> QED BY <1>4, <1>5, <1>6, <1>7, <1>8, <1>9, <1>10, <1>11, <1>12, <1>13, <1>14,
           <1>15, <1>16, <1>17, <1>18 DEF Next, Loop

-----------------------------------------------------------------------------
(* Who a step declares over, and what it may do to the rest of an NPU.     *)
LEMMA SavedStep ==
  ASSUME TypeOK, LoopInv, [Next]_vars
  PROVE  \/ /\ RetireWorkload /\ Retire
            /\ npu'[idx].is_saved /\ idx \in NPU
            /\ \A m \in NPU : npu'[m].iter_cnt = npu[m].iter_cnt
            /\ \A m \in NPU \ {idx} : npu'[m].is_saved = npu[m].is_saved
         \/ /\ ~(Retire /\ RetireWorkload)
            /\ finished' = finished
            /\ \A m \in NPU :
                 /\ npu'[m].is_saved = npu[m].is_saved
                 /\ npu[m].iter_cnt <= npu'[m].iter_cnt
                 /\ npu[m].is_saved => npu'[m].iter_cnt = npu[m].iter_cnt
<1>1. /\ npu \in [NPU -> NPUState] /\ npu' \in [NPU -> NPUState] /\ MC!TypeOK
      /\ \A m \in NPU : npu[m].iter_cnt \in Nat /\ npu[m] \in NPUState
  BY LoopTypeNext, Fields DEF LoopTypes, TypeOK
<1> DEFINE Same(n, s) ==
             s.is_saved = npu[n].is_saved /\ s.iter_cnt = npu[n].iter_cnt
           Unmoved == \A m \in NPU :
                        /\ npu'[m].is_saved = npu[m].is_saved
                        /\ npu'[m].iter_cnt = npu[m].iter_cnt
<1>2. ASSUME NEW n \in NPU, NEW s, Only(n, s), Same(n, s) PROVE Unmoved
  BY <1>1, <1>2 DEF Only
<1>3. ASSUME NEW n \in NPU, NEW op, Request(n, op) PROVE finished' = finished
  BY <1>1, <1>3, RequestSeen DEF Seen
<1>4. ASSUME Unmoved PROVE \A m \in NPU : npu[m].iter_cnt <= npu'[m].iter_cnt
  BY <1>1, <1>4
<1>5. CASE Retire /\ RetireWorkload
  <2>1. idx \in NPU
    BY <1>5 DEF Retire, LoopInv, RetireInv, Retiring
  <2>2. npu[idx] \in NPUState
    BY <1>1, <2>1
  <2>3. npu' = [npu EXCEPT ![idx] = [npu[idx] EXCEPT !.is_saved = TRUE, !.is_setup = FALSE]]
    BY <1>5 DEF RetireWorkload
  <2>4. /\ [npu[idx] EXCEPT !.is_saved = TRUE, !.is_setup = FALSE].is_saved = TRUE
        /\ [npu[idx] EXCEPT !.is_saved = TRUE, !.is_setup = FALSE].iter_cnt = npu[idx].iter_cnt
    BY <2>2 DEF NPUState
  <2>5. npu'[idx].is_saved = TRUE /\ npu'[idx].iter_cnt = npu[idx].iter_cnt
        /\ \A m \in NPU \ {idx} : npu'[m] = npu[m]
    BY <1>1, <2>1, <2>3, <2>4
  <2> QED BY <1>5, <2>1, <2>5
<1>6. CASE ~(Retire /\ RetireWorkload)
  <2> SUFFICES /\ finished' = finished
               /\ \/ Unmoved
                  \/ \A m \in NPU :
                       /\ npu'[m].is_saved = npu[m].is_saved
                       /\ npu[m].iter_cnt <= npu'[m].iter_cnt
                       /\ npu[m].is_saved => npu'[m].iter_cnt = npu[m].iter_cnt
    BY <1>4, <1>6
  <2>1. CASE Memory
    BY <1>1, <2>1, InsideSeen DEF Memory
  <2>2. CASE SetupLayer
    <3> DEFINE n == MC!Least(ToSetup)
               b == [Opened(npu[n]) EXCEPT !.is_begin = TRUE]
    <3>1. n \in NPU /\ (SetupNow(n) \/ SetupLater(n)) /\ npu[n] \in NPUState
      BY <1>1, <2>2, WhoIsSetUp DEF SetupLayer
    <3> HIDE DEF n
    <3>2. Opened(npu[n]) \in NPUState /\ Same(n, Opened(npu[n]))
      BY <3>1, OpenedType, ZenonT(30) DEF Opened, NPUState
    <3>3. Same(n, b) /\ b \in NPUState
      BY <3>2 DEF NPUState
    <3> HIDE DEF b
    <3>4. Same(n, AfterMemOp(b, Read))
      BY <3>3 DEF AfterMemOp, NPUState
    <3>5. finished' = finished
      BY <1>3, <3>1 DEF SetupNow, SetupLater, mcvars
    <3>6. Only(n, AfterMemOp(b, Read)) \/ Only(n, Opened(npu[n]))
      BY <3>1 DEF SetupNow, SetupLater, Only, b
    <3> QED BY <1>2, <3>1, <3>2, <3>4, <3>5, <3>6
  <2>3. CASE KeepStart
    <3> DEFINE n == Head(keep_queue)
               b == [npu[n] EXCEPT !.is_begin = TRUE]
    <3>1. n \in NPU /\ npu[n] \in NPUState /\ Request(n, Read)
      BY <1>1, <2>3, WhoIsFirst DEF KeepStart, TypeOK
    <3>2. Only(n, AfterMemOp(b, Read))
      BY <2>3 DEF KeepStart, Only
    <3> HIDE DEF n
    <3>3. Same(n, b) /\ b \in NPUState
      BY <3>1 DEF NPUState
    <3> HIDE DEF b
    <3>4. Same(n, AfterMemOp(b, Read))
      BY <3>3 DEF AfterMemOp, NPUState
    <3> QED BY <1>2, <1>3, <3>1, <3>2, <3>4
  <2>4. CASE Issue
    <3> DEFINE p == Head(cycle_idx_map)
               n == p.npu
               s == AfterMemOp(npu[n], p.op)
    <3>1. /\ n \in NPU /\ npu[n] \in NPUState /\ Request(n, p.op) /\ PacketOf(p)
          /\ Only(n, IF p.eof THEN Closed(s, n) ELSE s)
      BY <1>1, <2>4, WhoIsIssued DEF Issue, LoopInv, QueueInv, Issuing, Only
    <3>2. finished' = finished
      BY <1>3, <3>1
    <3>3. npu[n].open
      BY <3>1 DEF PacketOf
    <3> HIDE DEF p
    <3>4. ~npu[n].is_saved
      BY <1>1, <3>1, <3>3, Fields DEF LoopInv, PhaseInv, PhaseOf
    <3>5. Same(n, s) /\ s \in NPUState
      BY <3>1, AfterMemOpType DEF AfterMemOp, NPUState
    <3> HIDE DEF n, s
    <3>6. Closed(s, n).is_saved = s.is_saved /\ s.iter_cnt <= Closed(s, n).iter_cnt
      BY <3>5 DEF Closed, NPUState
    <3>7. CASE ~p.eof
      BY <1>2, <3>1, <3>2, <3>5, <3>7
    <3>8. CASE p.eof
      <4>1. npu'[n] = Closed(s, n) /\ \A m \in NPU : m # n => npu'[m] = npu[m]
        BY <1>1, <3>1, <3>8 DEF Only
      <4> QED BY <1>1, <3>1, <3>2, <3>4, <3>5, <3>6, <4>1
    <3> QED BY <3>7, <3>8
  <2>5. CASE Retire
    <3>1. idx \in NPU /\ npu[idx] \in NPUState /\ finished' = finished
      BY <1>1, <1>6, <2>5 DEF Retire, LoopInv, RetireInv, Retiring, RetireLayer, RetireIteration, mcvars
    <3>2. CASE RetireLayer
      <4>1. Same(idx, [npu[idx] EXCEPT !.is_setup = FALSE])
        BY <3>1 DEF NPUState
      <4> QED BY <1>2, <3>1, <3>2, <4>1 DEF RetireLayer, Only
    <3>3. CASE RetireIteration
      <4> DEFINE s == [npu[idx] EXCEPT !.layer = 0, !.is_first = TRUE, !.tile_full = FALSE,
                         !.is_setup = FALSE, !.is_returned = FALSE,
                         !.is_terminated = FALSE, !.compute_cycle = Synced(idx)]
      <4>1. Only(idx, s)
        BY <3>3 DEF RetireIteration, Only
      <4>2. Same(idx, s)
        BY <3>1 DEF NPUState
      <4> HIDE DEF s
      <4> QED BY <1>2, <3>1, <4>1, <4>2
    <3> QED BY <1>6, <2>5, <3>2, <3>3 DEF Retire
  <2>6. CASE ReturnLayer
    <3>1. idx \in NPU /\ npu[idx] \in NPUState /\ finished' = finished
      BY <1>1, <2>6 DEF ReturnLayer, LayerReturned, mcvars
    <3>2. Same(idx, [npu[idx] EXCEPT !.compute_cycle = Synced(idx)])
      BY <3>1 DEF NPUState
    <3> QED BY <1>2, <2>6, <3>1, <3>2 DEF ReturnLayer, Only
  <2>7. CASE RunReturned
    <3>1. i \in NPU /\ npu[i] \in NPUState /\ finished' = finished
      BY <1>1, <2>7, ControllerAssumption DEF RunReturned, mcvars, TypeOK, NPU
    <3>2. Same(i, [npu[i] EXCEPT !.is_returned = TRUE, !.compute_cycle = Synced(i)])
      BY <3>1 DEF NPUState
    <3> QED BY <1>2, <2>7, <3>1, <3>2 DEF RunReturned, Only
  <2>8. CASE RunNPU
    <3>1. i \in NPU /\ npu[i] \in NPUState /\ finished' = finished /\ Only(i, RunResult(i).state)
      BY <1>1, <2>8, ControllerAssumption DEF RunNPU, mcvars, TypeOK, NPU, Only
    <3>2. Same(i, RunWrite(i).state) /\ Same(i, RunTile(i).state) /\ Same(i, RunLast(i).state)
      BY <3>1 DEF RunWrite, RunTile, RunLast, Computed, NPUState
    <3>3. Same(i, RunResult(i).state)
      BY <3>1, <3>2, RunResultCases
    <3> QED BY <1>2, <3>1, <3>3
  <2>9. CASE PopSync
    <3>1. /\ Head(cycle_idx_map).npu \in NPU /\ finished' = finished
          /\ npu[Head(cycle_idx_map).npu] \in NPUState
      BY <1>1, <2>9, WhoIsIssued DEF PopSync, Due, mcvars
    <3>2. Same(Head(cycle_idx_map).npu, [npu[Head(cycle_idx_map).npu] EXCEPT
                 !.compute_cycle = Synced(Head(cycle_idx_map).npu)])
      BY <3>1 DEF NPUState
    <3> QED BY <1>2, <2>9, <3>1, <3>2 DEF PopSync, Only
  <2>10. CASE KeepWait \/ SyncTick \/ CallStall
    <3>1. finished' = finished
      BY <2>10, TickSeen, PopStallSeen DEF KeepWait, SyncTick, CallStall, MC!KeepTick, MC!SyncTick
    <3> QED BY <2>10, <3>1 DEF KeepWait, SyncTick, CallStall
  <2>11. CASE SetupDone \/ KeepPoll \/ StallResult \/ ReturnOther \/ RunSkip \/ RunDone
              \/ PopNoSync \/ PopDone \/ SyncDone \/ Terminated \/ UNCHANGED vars
    BY <2>11 DEF SetupDone, KeepPoll, StallResult, ReturnOther, RunSkip, RunDone,
                 PopNoSync, PopDone, SyncDone, Terminated, vars, mcvars
  <2> QED BY <2>1, <2>2, <2>3, <2>4, <2>5, <2>6, <2>7, <2>8, <2>9, <2>10, <2>11 DEF Next, Loop
<1> QED BY <1>5, <1>6

LEMMA IterationsNext ==
  ASSUME TypeOK, LoopInv, IterationsDone, [Next]_vars
  PROVE  IterationsDone'
<1>1. /\ \A m \in NPU : npu[m].iter_cnt \in Nat /\ npu'[m].iter_cnt \in Nat
      /\ \A m \in NPU : Iteration[m] \in Int \ {0}
  BY LoopTypeNext, WorkloadAssumption DEF LoopTypes, TypeOK, NPUState
<1>2. ASSUME NEW n \in NPU, npu[n].is_saved, npu'[n].iter_cnt = npu[n].iter_cnt,
             \A m \in NPU : npu[m].iter_cnt <= npu'[m].iter_cnt
      PROVE  IF Iteration[n] > 0 THEN npu'[n].iter_cnt = Iteration[n]
             ELSE \A m \in NPU : npu'[m].iter_cnt >= -Iteration[n]
  BY <1>1, <1>2 DEF IterationsDone
<1>3. CASE /\ RetireWorkload /\ Retire /\ npu'[idx].is_saved /\ idx \in NPU
           /\ \A m \in NPU : npu'[m].iter_cnt = npu[m].iter_cnt
           /\ \A m \in NPU \ {idx} : npu'[m].is_saved = npu[m].is_saved
  <2>1. LastIteration(idx)
    BY <1>3 DEF RetireWorkload
  <2>2. CASE Iteration[idx] > 0
    <3>1. npu'[idx].iter_cnt = Iteration[idx]
      BY <1>1, <1>3, <2>1, <2>2 DEF LastIteration
    <3> QED BY <1>1, <1>2, <1>3, <2>2, <3>1 DEF IterationsDone
  <2>3. CASE ~(Iteration[idx] > 0)
    <3>1. MinFinishIter >= -Iteration[idx]
      BY <1>1, <1>3, <2>1, <2>3 DEF LastIteration
    <3> DEFINE C == {npu[n].iter_cnt : n \in NPU}
    <3>2. C \in SUBSET Nat /\ C # {} /\ \A m \in NPU : npu[m].iter_cnt \in C
      BY <1>1, <1>3
    <3>3. MinFinishIter = MC!Least(C)
      BY DEF MinFinishIter
    <3> HIDE DEF C
    <3>4. MinFinishIter \in Nat /\ \A m \in NPU : MinFinishIter <= npu[m].iter_cnt
      BY <3>2, <3>3, LeastOf
    <3>5. \A m \in NPU : npu'[m].iter_cnt >= -Iteration[idx]
      BY <1>1, <1>3, <3>1, <3>4
    <3> QED BY <1>1, <1>2, <1>3, <2>3, <3>5 DEF IterationsDone
  <2> QED BY <2>2, <2>3
<1>4. CASE \A m \in NPU : /\ npu'[m].is_saved = npu[m].is_saved
                          /\ npu[m].iter_cnt <= npu'[m].iter_cnt
                          /\ npu[m].is_saved => npu'[m].iter_cnt = npu[m].iter_cnt
  BY <1>2, <1>4 DEF IterationsDone
<1> QED BY <1>3, <1>4, SavedStep

LEMMA SettledNext ==
  ASSUME TypeOK, LoopInv, ControllerInv, [Next]_vars
  PROVE  SettledInv'
<1>1. /\ SettledInv /\ CallInv /\ MC!TypeOK
      /\ npu' \in [NPU -> NPUState] /\ npu \in [NPU -> NPUState]
  BY LoopTypeNext DEF LoopInv, TypeOK, LoopTypes
<1>2. \A n \in NPU : Settled(n) /\ (npu[n].is_saved \/ ~Asking) => Settled(n)'
  BY LoopController
<1>3. /\ \A n \in NPU : npu'[n].is_saved => Settled(n)'
      /\ finished' = {n \in NPU : npu'[n].is_saved}
  <2>1. CASE /\ RetireWorkload /\ Retire /\ npu'[idx].is_saved /\ idx \in NPU
             /\ \A m \in NPU \ {idx} : npu'[m].is_saved = npu[m].is_saved
    <3>1. finished' = finished \cup {idx}
      BY <2>1, FinishSeen DEF RetireWorkload
    <3>2. Settled(idx) /\ ~Asking
      BY <1>1, <2>1 DEF Retire, SettledInv, Retiring, Asking
    <3>3. \A n \in NPU : npu'[n].is_saved <=> npu[n].is_saved \/ n = idx
      <4>1. npu'[idx].is_saved <=> TRUE
        BY <2>1
      <4>2. \A n \in NPU : n # idx => (npu'[n].is_saved <=> npu[n].is_saved)
        BY <2>1
      <4> QED BY <4>1, <4>2
    <3>4. \A n \in NPU : npu'[n].is_saved => Settled(n)'
      BY <1>1, <1>2, <3>2, <3>3 DEF SettledInv
    <3>5. finished' = {n \in NPU : npu'[n].is_saved}
      BY <1>1, <2>1, <3>1, <3>3 DEF SettledInv
    <3> QED BY <3>4, <3>5
  <2>2. CASE finished' = finished /\ \A m \in NPU : npu'[m].is_saved = npu[m].is_saved
    BY <1>1, <1>2, <2>2 DEF SettledInv
  <2> QED BY <2>1, <2>2, SavedStep
<1>4. ASSUME stage' \in {"keepwait", "stallwait"}, pc' = "idle", NEW n \in NPU, n = ret'
      PROVE  Settled(n)'
  <2>1. CASE Memory
    <3>1. stage' = stage /\ pc = "dram" /\ (MC!StallReturn \/ MC!KeepReturn \/ MC!SyncReturn)
      BY <1>1, <1>4, <2>1, InsideSeen DEF Memory, loopvars
    <3>2. ~MC!SyncReturn
      BY <1>1, <1>4, <3>1 DEF CallInv, MC!SyncReturn, MC!TickDone
    <3> QED BY <1>1, <1>4, <3>1, <3>2, ControllerReturns
  <2>2. CASE CallStall
    BY <1>1, <1>4, <2>2, ControllerReturns DEF CallStall
  <2>3. CASE KeepWait
    BY <1>4, <2>3, TickSeen DEF KeepWait, MC!KeepTick
  <2>4. CASE Terminated \/ UNCHANGED vars
    <3>1. UNCHANGED <<stage, pc, ret>>
      BY <2>4 DEF Terminated, vars, loopvars, mcvars
    <3> QED BY <1>1, <1>4, <1>2, <3>1 DEF SettledInv, Asking
  <2>5. CASE SetupLayer \/ SetupDone \/ KeepPoll \/ KeepStart \/ StallResult \/ ReturnLayer
             \/ ReturnOther \/ Retire \/ RunSkip \/ RunReturned \/ RunNPU \/ RunDone
             \/ PopSync \/ PopNoSync \/ Issue \/ PopDone \/ SyncTick \/ SyncDone
    <3>1. stage' \notin {"keepwait", "stallwait"}
      BY <2>5
      DEF SetupLayer, SetupDone, KeepPoll, KeepStart, StallResult, ReturnLayer, ReturnOther,
          Retire, RetireLayer, RetireWorkload, RetireIteration, RunSkip, RunReturned, RunNPU,
          RunDone, PopSync, PopNoSync, Issue, PopDone, SyncTick, SyncDone, MemSync, loopvars,
          TypeOK
    <3> QED BY <1>4, <3>1
  <2> QED BY <2>1, <2>2, <2>3, <2>4, <2>5 DEF Next, Loop
<1>5. ASSUME stage' = "ret" \/ Retiring', NEW n \in NPU, n = idx'
      PROVE  Settled(n)'
  <2>1. CASE KeepPoll \/ StallResult
    <3>1. idx' = ret /\ Settled(ret) /\ ret \in NPU /\ UNCHANGED mcvars
      BY <1>1, <1>5, <2>1 DEF KeepPoll, StallResult, SettledInv, Retiring
    <3> QED BY <1>2, <1>5, <2>1, <3>1 DEF KeepPoll, StallResult, Asking
  <2>2. CASE ReturnLayer
    BY <1>1, <1>5, <1>2, <2>2 DEF ReturnLayer, SettledInv, Asking
  <2>3. CASE Memory \/ SyncTick \/ Terminated \/ UNCHANGED vars
    <3>1. UNCHANGED <<stage, cont, idx>>
      BY <2>3 DEF Memory, SyncTick, Terminated, vars, loopvars
    <3> QED BY <1>1, <1>5, <1>2, <3>1 DEF SettledInv, Asking, Retiring
  <2>4. CASE SyncDone
    <3>1. stage' = cont /\ stage = "sync" /\ UNCHANGED <<cont, idx>>
      BY <2>4 DEF SyncDone
    <3>2. cont = "retire"
      BY <1>5, <3>1 DEF Retiring, TypeOK
    <3> QED BY <1>1, <1>5, <1>2, <3>1, <3>2 DEF SettledInv, Asking, Retiring
  <2>5. CASE SetupLayer \/ SetupDone \/ KeepWait \/ KeepStart \/ CallStall
             \/ ReturnOther \/ Retire \/ RunSkip \/ RunReturned \/ RunNPU \/ RunDone
             \/ PopSync \/ PopNoSync \/ Issue \/ PopDone
    <3>1. ~(stage' = "ret" \/ Retiring')
      BY <2>5
      DEF SetupLayer, SetupDone, KeepWait, KeepStart, CallStall, ReturnOther,
          Retire, RetireLayer, RetireWorkload, RetireIteration, RunSkip, RunReturned, RunNPU,
          RunDone, PopSync, PopNoSync, Issue, PopDone, MemSync, Retiring
    <3> QED BY <1>5, <3>1
  <2> QED BY <2>1, <2>2, <2>3, <2>4, <2>5 DEF Next, Loop
<1> QED BY <1>3, <1>4, <1>5 DEF SettledInv

-----------------------------------------------------------------------------
(* The flags, queues and counters.  First the steps that move none of them: *)
(* an NPU's cycle may be synchronised, an NPU may be returned on its turn.  *)
DataInv == PhaseInv /\ KeepInv /\ PacketInv /\ QueueInv /\ TilesInv

Alike(s, t) ==
  /\ t.layer = s.layer /\ t.open = s.open /\ t.eof = s.eof /\ t.tile_full = s.tile_full
  /\ t.is_begin = s.is_begin /\ t.is_setup = s.is_setup
  /\ t.is_terminated = s.is_terminated /\ t.is_saved = s.is_saved
  /\ t.tile = s.tile /\ t.dread = s.dread /\ t.dwrite = s.dwrite

LEMMA KeyGrows ==
  ASSUME TypeOK, TypeOK', NEW n \in NPU, npu[n].compute_cycle <= npu'[n].compute_cycle
  PROVE  ComputeKey(n) <= ComputeKey(n)' /\ ComputeKey(n) \in Nat /\ ComputeKey(n)' \in Nat
<1>1. npu[n].compute_cycle \in Nat /\ npu'[n].compute_cycle \in Nat
  BY DEF TypeOK, NPUState
<1>2. ComputeKey(n)' = Npu2Dram(n, npu'[n].compute_cycle)
  BY DEF ComputeKey, Npu2Dram, CeilDiv
<1>3. ComputeKey(n) = Npu2Dram(n, npu[n].compute_cycle)
  BY DEF ComputeKey
<1> QED BY <1>1, <1>2, <1>3, Conversions

LEMMA PhaseStays ==
  ASSUME TypeOK, TypeOK', NEW n \in NPU, PhaseOf(n), memory_cycle <= memory_cycle',
         Alike(npu[n], npu'[n]), npu[n].compute_cycle <= npu'[n].compute_cycle,
         npu'[n] = npu[n] \/ (ComputeKey(n)' <= memory_cycle'
                              /\ (npu[n].is_returned => npu'[n].is_returned)),
         npu'[n].tile_full /\ npu'[n].is_returned => Turn(n)'
  PROVE  PhaseOf(n)'
<1>1. /\ ComputeKey(n) <= ComputeKey(n)' /\ ComputeKey(n) \in Nat /\ ComputeKey(n)' \in Nat
      /\ memory_cycle \in Nat /\ memory_cycle' \in Nat
  BY KeyGrows DEF TypeOK
<1>2. npu'[n] = npu[n] => ComputeKey(n)' = ComputeKey(n)
  BY DEF ComputeKey, Npu2Dram, CeilDiv
<1>3. /\ npu'[n].is_begin /\ ~npu'[n].is_setup => ComputeKey(n)' <= memory_cycle'
      /\ npu'[n].tile_full /\ npu'[n].is_returned => ComputeKey(n)' <= memory_cycle'
  BY <1>1, <1>2 DEF PhaseOf, Alike
<1> HIDE DEF ComputeKey
<1> QED BY <1>3 DEF PhaseOf, Alike

LEMMA PacketStays ==
  ASSUME TypeOK, TypeOK', NEW p \in Packet, PacketOf(p), memory_cycle <= memory_cycle',
         Alike(npu[p.npu], npu'[p.npu]),
         npu[p.npu].compute_cycle <= npu'[p.npu].compute_cycle,
         p.key <= memory_cycle /\ Passed(p.npu) => Passed(p.npu)'
  PROVE  PacketOf(p)'
<1> DEFINE n == p.npu
<1>1. n \in NPU /\ p.key \in Nat /\ memory_cycle \in Nat /\ memory_cycle' \in Nat
  BY DEF Packet, TypeOK
<1>2. ComputeKey(n) <= ComputeKey(n)' /\ ComputeKey(n) \in Nat /\ ComputeKey(n)' \in Nat
  BY <1>1, KeyGrows
<1> QED BY <1>1, <1>2 DEF PacketOf, Alike

LEMMA TilesStay ==
  ASSUME NEW n \in NPU, TilesOf(n), Alike(npu[n], npu'[n]),
         \A op \in {Read, Write} : Queued(n, op)' <=> Queued(n, op)
  PROVE  TilesOf(n)'
<1>1. Tiles(n)' = Tiles(n)
  BY DEF Tiles, Alike
<1>2. (Queued(n, Read)' <=> Queued(n, Read)) /\ (Queued(n, Write)' <=> Queued(n, Write))
  OBVIOUS
<1>3. One(Queued(n, Read))' = One(Queued(n, Read)) /\ One(Queued(n, Write))' = One(Queued(n, Write))
      /\ One(npu'[n].tile_full) = One(npu[n].tile_full)
  BY <1>2 DEF One, Alike
<1> QED BY <1>1, <1>2, <1>3 DEF TilesOf, Alike, One

LEMMA DataStays ==
  ASSUME TypeOK, TypeOK', DataInv, UNCHANGED <<keep_queue, cycle_idx_map>>,
         memory_cycle <= memory_cycle',
         Issuing' => cycle_idx_map # << >>,
         \A n \in NPU :
           /\ Alike(npu[n], npu'[n]) /\ npu[n].compute_cycle <= npu'[n].compute_cycle
           /\ npu'[n] = npu[n] \/ (ComputeKey(n)' <= memory_cycle'
                                   /\ (npu[n].is_returned => npu'[n].is_returned))
           /\ npu'[n].tile_full /\ npu'[n].is_returned => Turn(n)',
         \A p \in Packet : p.key <= memory_cycle /\ Passed(p.npu)
           /\ (\E k \in DOMAIN cycle_idx_map : p = cycle_idx_map[k]) => Passed(p.npu)'
  PROVE  DataInv'
<1>1. PhaseInv'
  BY PhaseStays DEF DataInv, PhaseInv
<1>2. KeepInv'
  <2>1. \A k \in DOMAIN keep_queue : keep_queue[k] \in NPU
    BY DEF TypeOK
  <2> QED BY <2>1 DEF DataInv, KeepInv, Alike
<1>3. PacketInv'
  <2>1. ASSUME NEW k \in DOMAIN cycle_idx_map PROVE PacketOf(cycle_idx_map[k])'
    <3>0. cycle_idx_map[k] \in Packet /\ cycle_idx_map[k] = cycle_idx_map'[k]
      BY DEF TypeOK
    <3>1. PICK p \in Packet : p = cycle_idx_map[k] /\ p = cycle_idx_map'[k] /\ p.npu \in NPU
      BY <3>0 DEF Packet
    <3>2. PacketOf(p)
      BY <3>1 DEF DataInv, PacketInv
    <3>3. PacketOf(p)'
      BY <3>1, <3>2, PacketStays
    <3> QED BY <3>1, <3>3
  <2> QED BY <2>1 DEF PacketInv
<1>4. QueueInv'
  BY DEF DataInv, QueueInv
<1>5. TilesInv'
  <2>1. \A n \in NPU, op \in {Read, Write} : Queued(n, op)' <=> Queued(n, op)
    BY DEF Queued
  <2>2. ASSUME NEW n \in NPU, npu'[n].open PROVE TilesOf(n)'
    <3>1. npu[n].open
      BY <2>2 DEF Alike
    <3> QED BY <2>1, <3>1, TilesStay DEF DataInv, TilesInv
  <2> QED BY <2>2 DEF TilesInv
<1> QED BY <1>1, <1>2, <1>3, <1>4, <1>5 DEF DataInv

(* Then the steps that move one NPU: the others are as they were.          *)
LEMMA OthersStay ==
  ASSUME TypeOK, TypeOK', DataInv, NEW n \in NPU, memory_cycle <= memory_cycle',
         \A m \in NPU : m # n => npu'[m] = npu[m],
         \A m \in NPU : m # n /\ Turn(m) => Turn(m)',
         \A m \in NPU : m # n /\ Passed(m) => Passed(m)'
  PROVE  /\ \A m \in NPU : m # n => PhaseOf(m)'
         /\ \A p \in Packet : PacketOf(p) /\ p.npu # n => PacketOf(p)'
         /\ \A m \in NPU : /\ m # n /\ npu'[m].open
                           /\ \A op \in {Read, Write} : Queued(m, op)' <=> Queued(m, op)
                           => TilesOf(m)'
<1>1. \A m \in NPU : npu[m].compute_cycle \in Nat
  BY DEF TypeOK, NPUState
<1>2. \A m \in NPU : m # n =>
        Alike(npu[m], npu'[m]) /\ npu[m].compute_cycle <= npu'[m].compute_cycle
  BY <1>1 DEF Alike
<1>3. ASSUME NEW m \in NPU, m # n PROVE PhaseOf(m)'
  <2>1. PhaseOf(m) /\ npu'[m] = npu[m]
    BY <1>3 DEF DataInv, PhaseInv
  <2>2. npu'[m].tile_full /\ npu'[m].is_returned => Turn(m)'
    BY <1>3, <2>1 DEF PhaseOf
  <2> QED BY <1>2, <1>3, <2>1, <2>2, PhaseStays
<1>4. ASSUME NEW p \in Packet, PacketOf(p), p.npu # n PROVE PacketOf(p)'
  <2>1. p.npu \in NPU
    BY DEF Packet
  <2> QED BY <1>2, <1>4, <2>1, PacketStays
<1>5. ASSUME NEW m \in NPU, m # n, npu'[m].open,
             \A op \in {Read, Write} : Queued(m, op)' <=> Queued(m, op)
      PROVE  TilesOf(m)'
  <2>1. TilesOf(m)
    BY <1>2, <1>5 DEF DataInv, TilesInv, Alike
  <2> QED BY <1>2, <1>5, <2>1, TilesStay
<1> QED BY <1>3, <1>4, <1>5

(* An NPU that has not begun a layer has no packets.                       *)
LEMMA NoPackets ==
  ASSUME TypeOK, DataInv, NEW n \in NPU, ~npu[n].open \/ ~npu[n].is_begin
  PROVE  /\ \A k \in DOMAIN cycle_idx_map : cycle_idx_map[k].npu # n
         /\ \A op : ~Queued(n, op)
<1>1. ASSUME NEW k \in DOMAIN cycle_idx_map PROVE cycle_idx_map[k].npu # n
  <2>1. PacketOf(cycle_idx_map[k])
    BY DEF DataInv, PacketInv
  <2> QED BY <2>1 DEF PacketOf
<1> QED BY <1>1 DEF Queued

(* The same, for a step that leaves the packet queue alone and moves an NPU *)
(* without packets.                                                        *)
LEMMA FreeStep ==
  ASSUME TypeOK, TypeOK', DataInv, NEW n \in NPU, ~npu[n].open \/ ~npu[n].is_begin,
         cycle_idx_map' = cycle_idx_map, ~Issuing', ~Running, ~Popping,
         memory_cycle <= memory_cycle',
         \A m \in NPU : m # n => npu'[m] = npu[m],
         PhaseOf(n)', npu'[n].open => TilesOf(n)',
         KeepInv'
  PROVE  DataInv'
<1>1. /\ \A m \in NPU : m # n => PhaseOf(m)'
      /\ \A p \in Packet : PacketOf(p) /\ p.npu # n => PacketOf(p)'
      /\ \A m \in NPU : /\ m # n /\ npu'[m].open
                        /\ \A op \in {Read, Write} : Queued(m, op)' <=> Queued(m, op)
                        => TilesOf(m)'
  BY OthersStay DEF Turn, Passed
<1>2. \A m \in NPU, op \in {Read, Write} : Queued(m, op)' <=> Queued(m, op)
  BY DEF Queued
<1>3. PacketInv'
  <2>1. ASSUME NEW k \in DOMAIN cycle_idx_map PROVE PacketOf(cycle_idx_map[k])'
    <3>1. /\ cycle_idx_map[k] \in Packet /\ cycle_idx_map'[k] = cycle_idx_map[k]
          /\ cycle_idx_map[k].npu # n
      BY NoPackets DEF TypeOK
    <3>2. PICK p \in Packet : p = cycle_idx_map[k] /\ p = cycle_idx_map'[k] /\ p.npu # n
      BY <3>1
    <3>3. PacketOf(p)'
      BY <1>1, <3>2 DEF DataInv, PacketInv
    <3> QED BY <3>2, <3>3
  <2> QED BY <2>1 DEF PacketInv
<1>4. QueueInv'
  BY DEF DataInv, QueueInv
<1> QED BY <1>1, <1>2, <1>3, <1>4 DEF DataInv, PhaseInv, TilesInv

LEMMA LoopData == LoopInv => DataInv
BY DEF LoopInv, DataInv

LEMMA HasTiles ==
  ASSUME TypeOK, NEW n \in NPU, npu[n].layer < Len(Layers[n])
  PROVE  Tiles(n) \in Nat \ {0}
<1>1. npu[n].layer + 1 \in 1 .. Len(Layers[n]) /\ Layers[n] \in Seq(Nat \ {0})
  BY Fields, WorkloadAssumption
<1> QED BY <1>1 DEF Tiles

LEMMA OpenedFields ==
  ASSUME NEW s \in NPUState
  PROVE  LET t == Opened(s)
         IN  /\ t \in NPUState
             /\ t.layer = s.layer /\ t.tile_full = s.tile_full /\ t.is_begin = s.is_begin
             /\ t.is_terminated = s.is_terminated /\ t.is_saved = s.is_saved
             /\ t.compute_cycle = s.compute_cycle
             /\ t.open /\ ~t.eof /\ t.is_setup /\ ~t.is_returned
             /\ t.tile = 0 /\ t.dread = 0 /\ t.dwrite = 0
<1>1. /\ Opened(s).layer = s.layer /\ Opened(s).tile_full = s.tile_full
      /\ Opened(s).is_begin = s.is_begin
  BY DEF Opened, NPUState
<1>2. /\ Opened(s).is_terminated = s.is_terminated /\ Opened(s).is_saved = s.is_saved
      /\ Opened(s).compute_cycle = s.compute_cycle
  BY DEF Opened, NPUState
<1>3. Opened(s).open /\ ~Opened(s).eof /\ Opened(s).is_setup /\ ~Opened(s).is_returned
  BY DEF Opened, NPUState
<1>4. Opened(s).tile = 0 /\ Opened(s).dread = 0 /\ Opened(s).dwrite = 0
  BY DEF Opened, NPUState
<1> QED BY <1>1, <1>2, <1>3, <1>4, OpenedType

(* The first tile of a layer is asked for, now or after the start cycle.   *)
LEMMA BegunFields ==
  ASSUME NEW s \in NPUState
  PROVE  LET t == AfterMemOp([s EXCEPT !.is_begin = TRUE], Read)
         IN  /\ t \in NPUState
             /\ t.layer = s.layer /\ t.tile_full = s.tile_full
             /\ t.is_terminated = s.is_terminated /\ t.is_saved = s.is_saved
             /\ t.compute_cycle = s.compute_cycle
             /\ t.open = s.open /\ t.eof = s.eof /\ t.is_setup = s.is_setup
             /\ t.is_returned = s.is_returned
             /\ t.tile = s.tile /\ t.dwrite = s.dwrite
             /\ t.is_begin /\ t.dread = s.dread + 1
<1> DEFINE u == [s EXCEPT !.is_begin = TRUE]
<1>1. /\ u \in NPUState /\ u.is_begin
      /\ u.layer = s.layer /\ u.tile_full = s.tile_full
      /\ u.is_terminated = s.is_terminated /\ u.is_saved = s.is_saved
      /\ u.compute_cycle = s.compute_cycle
      /\ u.open = s.open /\ u.eof = s.eof /\ u.is_setup = s.is_setup
      /\ u.is_returned = s.is_returned
      /\ u.tile = s.tile /\ u.dwrite = s.dwrite /\ u.dread = s.dread
  BY DEF NPUState
<1> HIDE DEF u
<1>2. /\ AfterMemOp(u, Read) \in NPUState
      /\ AfterMemOp(u, Read) = [u EXCEPT !.dread = @ + 1]
  BY <1>1, AfterMemOpType DEF AfterMemOp, Read
<1> DEFINE t == [u EXCEPT !.dread = @ + 1]
<1>3. /\ t.layer = u.layer /\ t.tile_full = u.tile_full
      /\ t.is_terminated = u.is_terminated /\ t.is_saved = u.is_saved
      /\ t.compute_cycle = u.compute_cycle
      /\ t.open = u.open /\ t.eof = u.eof /\ t.is_setup = u.is_setup
      /\ t.is_returned = u.is_returned
      /\ t.tile = u.tile /\ t.dwrite = u.dwrite
      /\ t.is_begin = u.is_begin /\ t.dread = u.dread + 1
  BY <1>1 DEF NPUState
<1> HIDE DEF t
<1>4. AfterMemOp(u, Read) = t
  BY <1>2 DEF t
<1> QED BY <1>1, <1>2, <1>3, <1>4 DEF u

LEMMA FirstTile ==
  ASSUME TypeOK, TypeOK', NEW n \in NPU,
         npu'[n].open, npu'[n].is_setup, npu'[n].is_begin, ~npu'[n].eof,
         ~npu'[n].tile_full, ~npu'[n].is_terminated, ~npu'[n].is_saved,
         npu'[n].layer < Len(Layers[n]),
         npu'[n].tile = 0, npu'[n].dread = 1, npu'[n].dwrite = 0,
         \A op : ~Queued(n, op)'
  PROVE  PhaseOf(n)' /\ TilesOf(n)'
<1>1. PhaseOf(n)'
  BY DEF PhaseOf
<1>2. Tiles(n)' \in Nat \ {0}
  <2>0. npu'[n].layer \in Nat
    BY DEF TypeOK, NPUState
  <2>1. npu'[n].layer + 1 \in 1 .. Len(Layers[n]) /\ Layers[n] \in Seq(Nat \ {0})
    BY <2>0, WorkloadAssumption
  <2> QED BY <2>1 DEF Tiles
<1>3. One(Queued(n, Read)') = 0 /\ One(Queued(n, Write)') = 0 /\ One(npu'[n].tile_full) = 0
  BY DEF One
<1>4. TilesOf(n)'
  BY <1>2, <1>3 DEF TilesOf, One
<1> QED BY <1>1, <1>4

LEMMA SetupData ==
  ASSUME TypeOK, TypeOK', LoopInv, SetupLayer
  PROVE  DataInv'
<1>0. PICK n \in NPU : n = MC!Least(ToSetup)
  BY WhoIsSetUp DEF SetupLayer
<1>1. /\ n \in NPU /\ npu[n] \in NPUState /\ (SetupNow(n) \/ SetupLater(n))
      /\ ~npu[n].is_setup /\ ~npu[n].is_terminated
      /\ stage = "setup" /\ stage' = "setup"
      /\ UNCHANGED <<memory_cycle, cycle_idx_map>>
  BY <1>0, WhoIsSetUp, Fields DEF SetupLayer, ToSetup
<1>2. DataInv /\ memory_cycle \in Nat /\ npu \in [NPU -> NPUState]
  BY LoopData DEF TypeOK
<1>3. /\ ~npu[n].open /\ ~npu[n].is_saved /\ ~npu[n].tile_full
      /\ npu[n].layer < Len(Layers[n])
      /\ npu[n].is_begin => ComputeKey(n) <= memory_cycle
  BY <1>1, <1>2 DEF DataInv, PhaseInv, PhaseOf
<1>4. \A op : ~Queued(n, op)'
  BY <1>1, <1>2, <1>3, NoPackets DEF Queued
<1>5. ~Issuing' /\ ~Running /\ ~Popping
  BY <1>1 DEF Issuing, Running, Popping
<1>6. \A k \in DOMAIN keep_queue : keep_queue[k] \in NPU /\ keep_queue[k] # n
  BY <1>2, <1>3 DEF DataInv, KeepInv, TypeOK
<1> DEFINE t == Opened(npu[n])
<1>7. /\ t \in NPUState
      /\ t.layer = npu[n].layer /\ t.tile_full = npu[n].tile_full
      /\ t.is_begin = npu[n].is_begin
      /\ t.is_terminated = npu[n].is_terminated /\ t.is_saved = npu[n].is_saved
      /\ t.open /\ ~t.eof /\ t.is_setup /\ ~t.is_returned
      /\ t.tile = 0 /\ t.dread = 0 /\ t.dwrite = 0
  BY <1>1, OpenedFields
<1> HIDE DEF t
<1>8. CASE SetupNow(n)
  <2> DEFINE u == AfterMemOp([t EXCEPT !.is_begin = TRUE], Read)
  <2>1. npu' = [npu EXCEPT ![n] = u] /\ keep_queue' = keep_queue
    BY <1>8 DEF SetupNow, t
  <2>2. /\ u.layer = t.layer /\ u.tile_full = t.tile_full
        /\ u.is_terminated = t.is_terminated /\ u.is_saved = t.is_saved
        /\ u.open = t.open /\ u.eof = t.eof /\ u.is_setup = t.is_setup
        /\ u.tile = t.tile /\ u.dwrite = t.dwrite
        /\ u.is_begin /\ u.dread = t.dread + 1
    BY <1>7, BegunFields
  <2> HIDE DEF u
  <2>3. npu'[n] = u /\ \A m \in NPU : m # n => npu'[m] = npu[m]
    BY <1>1, <1>2, <2>1
  <2>4. PhaseOf(n)' /\ TilesOf(n)'
    <3>1. /\ u.open /\ u.is_setup /\ u.is_begin /\ ~u.eof
          /\ ~u.tile_full /\ ~u.is_terminated /\ ~u.is_saved
      BY <1>1, <1>3, <1>7, <2>2
    <3>2. u.layer < Len(Layers[n]) /\ u.tile = 0 /\ u.dread = 1 /\ u.dwrite = 0
      BY <1>3, <1>7, <2>2
    <3> QED BY <1>1, <1>4, <2>3, <3>1, <3>2, FirstTile
  <2>5. KeepInv'
    BY <1>2, <1>6, <2>1, <2>3 DEF DataInv, KeepInv
  <2> QED BY <1>1, <1>2, <1>3, <1>5, <2>3, <2>4, <2>5, FreeStep
<1>9. CASE SetupLater(n)
  <2>1. /\ npu' = [npu EXCEPT ![n] = t] /\ keep_queue' = Append(keep_queue, n)
        /\ memory_cycle < ComputeKey(n)
    BY <1>9 DEF SetupLater, t
  <2>2. npu'[n] = t /\ \A m \in NPU : m # n => npu'[m] = npu[m]
    BY <1>1, <1>2, <2>1
  <2>3. ~npu[n].is_begin
    <3>1. ComputeKey(n) \in Nat
      BY <1>1, SyncedBounds
    <3> QED BY <1>2, <1>3, <2>1, <3>1
  <2>4. PhaseOf(n)'
    <3>1. t.layer < Len(Layers[n]) /\ ~t.is_begin /\ ~t.is_saved /\ ~t.tile_full /\ ~t.is_terminated
      BY <1>1, <1>3, <1>7, <2>3
    <3> QED BY <1>7, <2>2, <3>1 DEF PhaseOf
  <2>5. TilesOf(n)'
    BY <1>3, <1>7, <2>2, <2>3 DEF TilesOf
  <2>6. KeepInv'
    <3> DEFINE L == Len(keep_queue)
    <3>1. /\ L \in Nat /\ DOMAIN keep_queue = 1 .. L /\ DOMAIN keep_queue' = 1 .. L + 1
          /\ keep_queue'[L + 1] = n /\ \A k \in 1 .. L : keep_queue'[k] = keep_queue[k]
      BY <1>1, <2>1 DEF TypeOK
    <3> HIDE DEF L
    <3>2. \A k \in 1 .. L + 1 : npu'[keep_queue'[k]].open /\ ~npu'[keep_queue'[k]].is_begin
      <4>1. npu'[n].open /\ ~npu'[n].is_begin
        BY <1>7, <2>2, <2>3
      <4>2. \A k \in 1 .. L : npu'[keep_queue[k]].open /\ ~npu'[keep_queue[k]].is_begin
        BY <1>2, <1>6, <2>2, <3>1 DEF DataInv, KeepInv
      <4> QED BY <3>1, <4>1, <4>2
    <3>3. \A k, l \in 1 .. L + 1 : keep_queue'[k] = keep_queue'[l] => k = l
      <4>1. \A k, l \in 1 .. L : keep_queue[k] = keep_queue[l] => k = l
        BY <1>2, <3>1 DEF DataInv, KeepInv
      <4>2. \A k \in 1 .. L + 1 : k # L + 1 => k \in 1 .. L
        BY <3>1
      <4> QED BY <1>6, <3>1, <4>1, <4>2
    <3> QED BY <3>1, <3>2, <3>3 DEF KeepInv
  <2> QED BY <1>1, <1>2, <1>3, <1>5, <2>2, <2>4, <2>5, <2>6, FreeStep
<1> QED BY <1>1, <1>8, <1>9

LEMMA KeepData ==
  ASSUME TypeOK, TypeOK', LoopInv, KeepStart
  PROVE  DataInv'
<1>0. PICK n \in NPU : n = Head(keep_queue)
  BY WhoIsFirst DEF KeepStart, TypeOK
<1>1. /\ n \in NPU /\ npu[n] \in NPUState /\ n = keep_queue[1] /\ 1 \in DOMAIN keep_queue
      /\ \A k \in DOMAIN Tail(keep_queue) :
           k + 1 \in DOMAIN keep_queue /\ Tail(keep_queue)[k] = keep_queue[k + 1]
      /\ stage = "stall" /\ stage' = "stall" /\ keep_queue' = Tail(keep_queue)
      /\ UNCHANGED <<memory_cycle, cycle_idx_map>>
  BY <1>0, WhoIsFirst, Fields DEF KeepStart, TypeOK
<1> DEFINE u == AfterMemOp([npu[n] EXCEPT !.is_begin = TRUE], Read)
<1>2. npu' = [npu EXCEPT ![n] = u]
  BY <1>0 DEF KeepStart
<1>3. DataInv /\ memory_cycle \in Nat /\ npu \in [NPU -> NPUState]
  BY LoopData DEF TypeOK
<1>4. npu[n].open /\ ~npu[n].is_begin
  BY <1>1, <1>3 DEF DataInv, KeepInv
<1>5. /\ npu[n].is_setup /\ ~npu[n].is_terminated /\ ~npu[n].is_saved
      /\ npu[n].layer < Len(Layers[n])
  BY <1>1, <1>3, <1>4 DEF DataInv, PhaseInv, PhaseOf
<1>6. /\ npu[n].tile = 0 /\ npu[n].dread = 0 /\ npu[n].dwrite = 0
      /\ ~npu[n].tile_full /\ ~npu[n].eof
  BY <1>1, <1>3, <1>4 DEF DataInv, TilesInv, TilesOf
<1>7. /\ u.layer = npu[n].layer /\ u.tile_full = npu[n].tile_full
      /\ u.is_terminated = npu[n].is_terminated /\ u.is_saved = npu[n].is_saved
      /\ u.open = npu[n].open /\ u.eof = npu[n].eof /\ u.is_setup = npu[n].is_setup
      /\ u.tile = npu[n].tile /\ u.dwrite = npu[n].dwrite
      /\ u.is_begin /\ u.dread = npu[n].dread + 1
  BY <1>1, BegunFields
<1> HIDE DEF u
<1>8. npu'[n] = u /\ \A m \in NPU : m # n => npu'[m] = npu[m]
  BY <1>1, <1>2, <1>3
<1>9. \A op : ~Queued(n, op)'
  BY <1>1, <1>3, <1>4, NoPackets DEF Queued
<1>10. PhaseOf(n)' /\ TilesOf(n)'
  <2>1. /\ u.open /\ u.is_setup /\ u.is_begin /\ ~u.eof
        /\ ~u.tile_full /\ ~u.is_terminated /\ ~u.is_saved
    BY <1>4, <1>5, <1>6, <1>7
  <2>2. u.layer < Len(Layers[n]) /\ u.tile = 0 /\ u.dread = 1 /\ u.dwrite = 0
    BY <1>5, <1>6, <1>7
  <2> QED BY <1>1, <1>8, <1>9, <2>1, <2>2, FirstTile
<1>11. KeepInv'
  <2>1. \A k \in DOMAIN keep_queue' :
          /\ k + 1 \in DOMAIN keep_queue /\ keep_queue'[k] = keep_queue[k + 1]
          /\ k \in Nat \ {0} /\ k + 1 # 1
    BY <1>1 DEF TypeOK
  <2>2. \A k \in DOMAIN keep_queue' : keep_queue'[k] \in NPU /\ keep_queue'[k] # n
    BY <1>1, <1>3, <2>1 DEF DataInv, KeepInv, TypeOK
  <2>3. \A k \in DOMAIN keep_queue' : npu'[keep_queue'[k]].open /\ ~npu'[keep_queue'[k]].is_begin
    BY <1>3, <1>8, <2>1, <2>2 DEF DataInv, KeepInv
  <2>4. ASSUME NEW k \in DOMAIN keep_queue', NEW l \in DOMAIN keep_queue',
               keep_queue'[k] = keep_queue'[l]
        PROVE  k = l
    <3>1. k + 1 = l + 1
      BY <1>3, <2>1, <2>4 DEF DataInv, KeepInv
    <3> QED BY <2>1, <3>1
  <2> QED BY <2>3, <2>4 DEF KeepInv
<1>12. ~Issuing' /\ ~Running /\ ~Popping
  BY <1>1 DEF Issuing, Running, Popping
<1> QED BY <1>1, <1>3, <1>4, <1>8, <1>10, <1>11, <1>12, FreeStep

LEMMA RetireData ==
  ASSUME TypeOK, TypeOK', LoopInv, Retire, memory_cycle <= memory_cycle'
  PROVE  DataInv'
<1>0. PICK n \in NPU : n = idx
  BY DEF Retire, LoopInv, RetireInv, Retiring
<1>1. /\ stage = "retire" /\ Retiring /\ npu[n] \in NPUState
      /\ keep_queue' = keep_queue /\ cycle_idx_map' = cycle_idx_map
      /\ RetireLayer \/ RetireWorkload \/ RetireIteration
      /\ stage' = "run" \/ (stage' = "sync" /\ cont' = "run")
  BY Fields DEF Retire, RetireLayer, RetireWorkload, RetireIteration, MemSync, Retiring
<1>2. DataInv /\ memory_cycle \in Nat /\ memory_cycle' \in Nat /\ npu \in [NPU -> NPUState]
  BY LoopData DEF TypeOK
<1>3. /\ ~npu[n].open /\ npu[n].is_setup /\ ComputeKey(n) <= memory_cycle
      /\ ~npu[n].tile_full
      /\ npu[n].is_begin => npu[n].eof
      /\ npu[n].is_saved => npu[n].is_terminated
      /\ ~npu[n].is_terminated => npu[n].layer < Len(Layers[n])
  BY <1>0, <1>1, <1>2 DEF LoopInv, RetireInv, DataInv, PhaseInv, PhaseOf
<1>4. ~Issuing' /\ ~Running /\ ~Popping
  BY <1>1 DEF Issuing, Running, Popping
(* A step that leaves the closed files alone keeps the rest.               *)
<1>5. ASSUME NEW s \in NPUState, npu' = [npu EXCEPT ![n] = s],
             ~s.open, PhaseOf(n)'
      PROVE  DataInv'
  <2>1. npu'[n] = s /\ \A m \in NPU : m # n => npu'[m] = npu[m]
    BY <1>2, <1>5
  <2>2. \A k \in DOMAIN keep_queue : keep_queue[k] \in NPU /\ keep_queue[k] # n
    BY <1>2, <1>3 DEF DataInv, KeepInv, TypeOK
  <2>3. KeepInv'
    BY <1>1, <1>2, <2>1, <2>2 DEF DataInv, KeepInv
  <2>4. ~npu'[n].open
    BY <1>5, <2>1
  <2> QED BY <1>1, <1>2, <1>3, <1>4, <1>5, <2>1, <2>3, <2>4, FreeStep
<1>6. CASE RetireLayer
  <2> DEFINE s == [npu[n] EXCEPT !.is_setup = FALSE]
  <2>1. npu' = [npu EXCEPT ![n] = s] /\ memory_cycle' = memory_cycle
    BY <1>0, <1>6 DEF RetireLayer
  <2>2. /\ s \in NPUState /\ s.open = npu[n].open /\ s.tile_full = npu[n].tile_full
        /\ s.is_begin = npu[n].is_begin /\ s.eof = npu[n].eof
        /\ s.is_saved = npu[n].is_saved /\ s.is_terminated = npu[n].is_terminated
        /\ s.layer = npu[n].layer /\ s.compute_cycle = npu[n].compute_cycle
    BY <1>1 DEF NPUState
  <2> HIDE DEF s
  <2>3. /\ ~s.open /\ ~s.tile_full /\ (s.is_begin => s.eof)
        /\ s.is_saved => s.is_terminated
        /\ ~s.is_terminated => s.layer < Len(Layers[n])
    BY <1>3, <2>2
  <2>4. npu'[n] = s /\ ComputeKey(n)' = ComputeKey(n)
    <3>1. npu'[n] = s
      BY <1>2, <2>1
    <3> QED BY <2>2, <3>1 DEF ComputeKey, Npu2Dram, CeilDiv
  <2>5. PhaseOf(n)'
    <3>1. ComputeKey(n)' <= memory_cycle'
      BY <1>3, <2>1, <2>4
    <3> HIDE DEF ComputeKey
    <3> QED BY <2>3, <2>4, <3>1 DEF PhaseOf
  <2> QED BY <1>5, <2>1, <2>2, <2>3, <2>5
<1>7. CASE RetireWorkload
  <2> DEFINE s == [npu[n] EXCEPT !.is_saved = TRUE, !.is_setup = FALSE]
  <2>1. /\ npu' = [npu EXCEPT ![n] = s] /\ memory_cycle' = memory_cycle
        /\ npu[n].is_terminated
    BY <1>0, <1>7 DEF RetireWorkload
  <2>2. /\ s \in NPUState /\ s.open = npu[n].open /\ s.tile_full = npu[n].tile_full
        /\ s.is_begin = npu[n].is_begin /\ s.eof = npu[n].eof
        /\ s.is_terminated = npu[n].is_terminated
        /\ s.compute_cycle = npu[n].compute_cycle
    BY <1>1 DEF NPUState
  <2> HIDE DEF s
  <2>3. /\ ~s.open /\ ~s.tile_full /\ (s.is_begin => s.eof) /\ s.is_terminated
    BY <1>3, <2>1, <2>2
  <2>4. npu'[n] = s /\ ComputeKey(n)' = ComputeKey(n)
    <3>1. npu'[n] = s
      BY <1>2, <2>1
    <3> QED BY <2>2, <3>1 DEF ComputeKey, Npu2Dram, CeilDiv
  <2>5. PhaseOf(n)'
    <3>1. ComputeKey(n)' <= memory_cycle'
      BY <1>3, <2>1, <2>4
    <3> HIDE DEF ComputeKey
    <3> QED BY <2>3, <2>4, <3>1 DEF PhaseOf
  <2> QED BY <1>5, <2>1, <2>2, <2>3, <2>5
<1>8. CASE RetireIteration
  <2> DEFINE c == Synced(n)
             s == [npu[n] EXCEPT !.layer = 0, !.is_first = TRUE, !.tile_full = FALSE,
                     !.is_setup = FALSE, !.is_returned = FALSE,
                     !.is_terminated = FALSE, !.compute_cycle = c]
  <2>1. /\ npu' = [npu EXCEPT ![n] = s] /\ memory_cycle' = Npu2Dram(n, c)
        /\ ~npu[n].is_saved
    BY <1>0, <1>8 DEF RetireIteration, MemSync
  <2>2. c \in Nat
    BY SyncedBounds
  <2> HIDE DEF c
  <2>3. /\ s \in NPUState /\ s.open = npu[n].open /\ ~s.tile_full
        /\ s.is_begin = npu[n].is_begin /\ s.eof = npu[n].eof
        /\ s.is_saved = npu[n].is_saved
        /\ s.layer = 0 /\ s.compute_cycle = c
    BY <1>1, <2>2 DEF NPUState
  <2> HIDE DEF s
  <2>4. /\ ~s.open /\ (s.is_begin => s.eof) /\ ~s.is_saved
        /\ s.layer < Len(Layers[n])
    <3>1. Len(Layers[n]) \in Nat \ {0}
      BY WorkloadAssumption
    <3> QED BY <1>3, <2>1, <2>3, <3>1
  <2>5. npu'[n] = s
    BY <1>2, <2>1
  <2>6. PhaseOf(n)'
    <3>1. ComputeKey(n)' = Npu2Dram(n, c)
      BY <2>3, <2>5 DEF ComputeKey, Npu2Dram, CeilDiv
    <3>2. ComputeKey(n)' <= memory_cycle'
      BY <1>2, <2>1, <3>1
    <3> QED BY <2>3, <2>4, <2>5, <3>2 DEF PhaseOf
  <2> QED BY <1>5, <2>1, <2>3, <2>4, <2>6
<1> QED BY <1>1, <1>6, <1>7, <1>8

(* The steps that only synchronise an NPU's cycle.                         *)
LEMMA SyncData ==
  ASSUME TypeOK, TypeOK', LoopInv, memory_cycle <= memory_cycle', NEW n \in NPU, NEW b,
         npu' = [npu EXCEPT ![n] = [npu[n] EXCEPT !.compute_cycle = Synced(n), !.is_returned = b]],
         b = TRUE \/ b = npu[n].is_returned,
         memory_cycle' = Npu2Dram(n, Synced(n)),
         UNCHANGED <<keep_queue, cycle_idx_map>>,
         Issuing' => cycle_idx_map # << >>,
         \A m \in NPU : npu[m].tile_full /\ npu[m].is_returned => Turn(m)',
         b => npu[n].is_returned \/ Turn(n)',
         \A m \in NPU : Passed(m) => Passed(m)'
  PROVE  DataInv'
<1> DEFINE c == Synced(n)
           s == [npu[n] EXCEPT !.compute_cycle = c, !.is_returned = b]
<1>1. /\ c \in Nat /\ npu[n].compute_cycle <= c /\ npu[n] \in NPUState
      /\ npu \in [NPU -> NPUState] /\ b \in BOOLEAN
      /\ memory_cycle \in Nat /\ memory_cycle' \in Nat
  BY SyncedBounds, Fields DEF TypeOK
<1> HIDE DEF c
<1>2. npu' = [npu EXCEPT ![n] = s] /\ memory_cycle' = Npu2Dram(n, c)
  BY DEF c
<1>3. Alike(npu[n], s) /\ s.compute_cycle = c /\ s.is_returned = b
  BY <1>1 DEF Alike, NPUState
<1> HIDE DEF s
<1>4. npu'[n] = s /\ \A m \in NPU : m # n => npu'[m] = npu[m]
  BY <1>1, <1>2
<1>5. ComputeKey(n)' = Npu2Dram(n, c)
  BY <1>3, <1>4 DEF ComputeKey, Npu2Dram, CeilDiv
<1>6. ComputeKey(n)' <= memory_cycle'
  BY <1>1, <1>2, <1>5
<1>7. ASSUME NEW m \in NPU
      PROVE  /\ Alike(npu[m], npu'[m]) /\ npu[m].compute_cycle <= npu'[m].compute_cycle
             /\ npu'[m] = npu[m] \/ (ComputeKey(m)' <= memory_cycle'
                                     /\ (npu[m].is_returned => npu'[m].is_returned))
             /\ npu'[m].tile_full /\ npu'[m].is_returned => Turn(m)'
  <2>1. CASE m = n
    <3>1. npu[n].is_returned => npu'[n].is_returned
      BY <1>3, <1>4
    <3>2. npu'[n].tile_full /\ npu'[n].is_returned => Turn(n)'
      BY <1>3, <1>4 DEF Alike
    <3> QED BY <1>1, <1>3, <1>4, <1>6, <2>1, <3>1, <3>2
  <2>2. CASE m # n
    <3>1. npu[m].compute_cycle \in Nat
      BY Fields
    <3> QED BY <1>4, <2>2, <3>1 DEF Alike
  <2> QED BY <2>1, <2>2
<1>8. \A p \in Packet : Passed(p.npu) => Passed(p.npu)'
  BY DEF Packet
<1> QED BY <1>7, <1>8, LoopData, DataStays

LEMMA SynchronisedData ==
  ASSUME TypeOK, TypeOK', LoopInv, memory_cycle <= memory_cycle',
         ReturnLayer \/ RunReturned \/ PopSync
  PROVE  DataInv'
<1>1. /\ DataInv /\ npu \in [NPU -> NPUState] /\ \A m \in NPU : npu[m] \in NPUState
      /\ \A m \in NPU : npu[m].tile_full /\ npu[m].is_returned => Turn(m)
  BY LoopData DEF TypeOK, DataInv, PhaseInv, PhaseOf
<1>2. ASSUME NEW n \in NPU, NEW c, npu' = [npu EXCEPT ![n].compute_cycle = c]
      PROVE  npu' = [npu EXCEPT ![n] = [npu[n] EXCEPT !.compute_cycle = c,
                                                     !.is_returned = npu[n].is_returned]]
  <2>1. /\ npu[n] \in NPUState
        /\ npu' = [npu EXCEPT ![n] = [npu[n] EXCEPT !.compute_cycle = c]]
    BY <1>1, <1>2
  <2>2. [npu[n] EXCEPT !.compute_cycle = c, !.is_returned = npu[n].is_returned]
          = [npu[n] EXCEPT !.compute_cycle = c]
    BY <2>1 DEF NPUState
  <2> QED BY <2>1, <2>2
<1>3. CASE ReturnLayer
  <2>1. PICK n \in NPU : n = idx
    BY <1>3 DEF ReturnLayer, LayerReturned
  <2>2. npu' = [npu EXCEPT ![n] = [npu[n] EXCEPT !.compute_cycle = Synced(n),
                                                 !.is_returned = npu[n].is_returned]]
    BY <1>2, <1>3, <2>1 DEF ReturnLayer
  <2>3. /\ memory_cycle' = Npu2Dram(n, Synced(n)) /\ stage = "ret" /\ stage' = "sync"
        /\ cont' = "retire" /\ UNCHANGED <<keep_queue, cycle_idx_map>>
    BY <1>3, <2>1 DEF ReturnLayer, MemSync
  <2>4. ~Issuing' /\ \A m \in NPU : ~Turn(m) /\ ~Passed(m)
    BY <2>3 DEF Issuing, Turn, Passed, Running, Popping
  <2>5. PICK b \in BOOLEAN : b = npu[n].is_returned
    BY Fields
  <2>6. b => npu[n].is_returned \/ Turn(n)'
    BY <2>5
  <2> QED BY <1>1, <2>2, <2>3, <2>4, <2>5, <2>6, SyncData
<1>4. CASE RunReturned
  <2>1. PICK n \in NPU : n = i
    BY <1>4, ControllerAssumption DEF RunReturned, TypeOK, NPU
  <2>2. npu' = [npu EXCEPT ![n] = [npu[n] EXCEPT !.compute_cycle = Synced(n),
                                                 !.is_returned = TRUE]]
    <3>1. npu' = [npu EXCEPT ![n] = [npu[n] EXCEPT !.is_returned = TRUE,
                                                   !.compute_cycle = Synced(n)]]
      BY <1>4, <2>1 DEF RunReturned
    <3>2. [npu[n] EXCEPT !.compute_cycle = Synced(n), !.is_returned = TRUE]
            = [npu[n] EXCEPT !.is_returned = TRUE, !.compute_cycle = Synced(n)]
      BY <1>1 DEF NPUState
    <3> QED BY <3>1, <3>2
  <2>3. /\ memory_cycle' = Npu2Dram(n, Synced(n)) /\ stage = "run" /\ stage' = "sync"
        /\ cont' = "run" /\ i' = i /\ UNCHANGED <<keep_queue, cycle_idx_map>>
    BY <1>4, <2>1 DEF RunReturned, MemSync
  <2>4. /\ ~Issuing' /\ Turn(n)'
        /\ \A m \in NPU : (Turn(m) => Turn(m)') /\ (Passed(m) => Passed(m)')
    BY <2>1, <2>3 DEF Issuing, Turn, Passed, Running, Popping
  <2> QED BY <1>1, <2>2, <2>3, <2>4, SyncData
<1>5. CASE PopSync
  <2>1. PICK n \in NPU : n = Head(cycle_idx_map).npu
    BY <1>5, WhoIsIssued DEF PopSync, Due
  <2>2. npu' = [npu EXCEPT ![n] = [npu[n] EXCEPT !.compute_cycle = Synced(n),
                                                 !.is_returned = npu[n].is_returned]]
    BY <1>2, <1>5, <2>1 DEF PopSync
  <2>3. /\ memory_cycle' = Npu2Dram(n, Synced(n)) /\ stage = "pop" /\ stage' = "sync"
        /\ cont' = "issue" /\ UNCHANGED <<keep_queue, cycle_idx_map>> /\ cycle_idx_map # << >>
    BY <1>5, <2>1 DEF PopSync, MemSync, Due
  <2>4. \A m \in NPU : ~Turn(m) /\ Passed(m)'
    BY <2>3 DEF Turn, Passed, Running, Popping
  <2>5. PICK b \in BOOLEAN : b = npu[n].is_returned
    BY Fields
  <2>6. b => npu[n].is_returned \/ Turn(n)'
    BY <2>5
  <2> QED BY <1>1, <2>2, <2>3, <2>4, <2>5, <2>6, SyncData
<1> QED BY <1>3, <1>4, <1>5

(* The steps that move nothing of it.  On an NPU's turn its full tile is    *)
(* not skipped; when the pass is over, what was due has been issued.        *)
LEMMA QuietData ==
  ASSUME TypeOK, TypeOK', LoopInv, memory_cycle <= memory_cycle',
         \/ Memory \/ SyncTick \/ SyncDone \/ SetupDone \/ KeepWait \/ KeepPoll \/ CallStall
         \/ StallResult \/ ReturnOther \/ RunSkip \/ RunDone \/ PopNoSync \/ PopDone
         \/ Terminated \/ UNCHANGED vars
  PROVE  DataInv'
<1>1. /\ DataInv /\ \A m \in NPU : npu[m].compute_cycle \in Nat
      /\ \A m \in NPU : npu[m].tile_full /\ npu[m].is_returned => Turn(m)
  BY LoopData, Fields DEF DataInv, PhaseInv, PhaseOf
<1>2. UNCHANGED <<npu, keep_queue, cycle_idx_map>>
  BY DEF Memory, SyncTick, SyncDone, SetupDone, KeepWait, KeepPoll, CallStall, StallResult,
         ReturnOther, RunSkip, RunDone, PopNoSync, PopDone, Terminated, vars, loopvars
<1>3. ASSUME Issuing' => cycle_idx_map # << >>,
             \A m \in NPU : npu[m].tile_full /\ npu[m].is_returned => Turn(m)',
             \A p \in Packet : p.key <= memory_cycle /\ Passed(p.npu)
               /\ (\E k \in DOMAIN cycle_idx_map : p = cycle_idx_map[k]) => Passed(p.npu)'
      PROVE  DataInv'
  <2>1. \A m \in NPU : Alike(npu[m], npu'[m]) /\ npu[m].compute_cycle <= npu'[m].compute_cycle
    BY <1>1, <1>2 DEF Alike
  <2> QED BY <1>1, <1>2, <1>3, <2>1, DataStays
<1>4. CASE Memory \/ SyncTick \/ Terminated \/ UNCHANGED vars
  <2>1. UNCHANGED <<stage, i, cont>>
    BY <1>4 DEF Memory, SyncTick, Terminated, vars, loopvars
  <2>2. /\ Issuing' => cycle_idx_map # << >>
        /\ \A m \in NPU : (Turn(m) => Turn(m)') /\ (Passed(m) => Passed(m)')
    BY <1>1, <2>1 DEF Issuing, Turn, Passed, Running, Popping, DataInv, QueueInv
  <2> QED BY <1>1, <1>3, <2>2 DEF Packet
<1>5. CASE SyncDone
  <2>1. stage = "sync" /\ stage' = cont /\ UNCHANGED <<i, cont>>
        /\ cont \in {"retire", "run", "issue"}
    BY <1>5 DEF SyncDone, TypeOK
  <2>2. /\ Issuing' => cycle_idx_map # << >>
        /\ \A m \in NPU : (Turn(m) => Turn(m)') /\ (Passed(m) => Passed(m)')
    BY <1>1, <2>1 DEF Issuing, Turn, Passed, Running, Popping, DataInv, QueueInv
  <2> QED BY <1>1, <1>3, <2>2 DEF Packet
<1>6. CASE \/ SetupDone \/ KeepWait \/ KeepPoll \/ CallStall \/ StallResult \/ ReturnOther
  <2>1. /\ stage \in {"setup", "stall", "keepwait", "stallwait", "ret"}
        /\ stage' \in {"stall", "keepwait", "stallwait", "ret", "run"}
    BY <1>6 DEF SetupDone, KeepWait, KeepPoll, CallStall, StallResult, ReturnOther
  <2>2. ~Issuing' /\ \A m \in NPU : ~Turn(m) /\ ~Passed(m)
    BY <2>1 DEF Issuing, Turn, Passed, Running, Popping
  <2> QED BY <1>1, <1>3, <2>2 DEF Packet
<1>7. CASE RunSkip
  <2>1. /\ stage = "run" /\ stage' = "run" /\ i' = i + 1 /\ i \in NPU
        /\ \/ npu[i].is_terminated \/ ~npu[i].is_begin
           \/ idx # i /\ ~npu[i].is_returned
           \/ npu[i].is_returned /\ npu[i].eof
    BY <1>7, ControllerAssumption DEF RunSkip, TypeOK, NPU
  <2>2. ~(npu[i].tile_full /\ npu[i].is_returned)
    <3>1. PhaseOf(i)
      BY <1>1, <2>1 DEF DataInv, PhaseInv
    <3>2. ~npu[i].open => ~npu[i].tile_full
      BY <3>1 DEF PhaseOf
    <3>3. npu[i].open => ~npu[i].is_terminated /\ (npu[i].eof => ~npu[i].tile_full)
      BY <3>1 DEF PhaseOf
    <3>4. npu[i].open /\ ~npu[i].is_begin => ~npu[i].tile_full
      BY <1>1, <2>1 DEF DataInv, TilesInv, TilesOf
    <3> QED BY <2>1, <3>2, <3>3, <3>4
  <2>3. \A m \in NPU : Turn(m) => m = i
    BY <2>1 DEF Turn
  <2>4. ~Issuing' /\ \A m \in NPU : Passed(m) => Passed(m)'
    BY <2>1 DEF Issuing, Passed, Running, Popping, TypeOK, NPU
  <2> QED BY <1>1, <1>3, <2>2, <2>3, <2>4 DEF Packet
<1>8. CASE RunDone
  <2>1. stage = "run" /\ i = N /\ stage' = "pop"
    BY <1>8 DEF RunDone
  <2>2. ~Issuing' /\ \A m \in NPU : ~Turn(m) /\ Passed(m)'
    BY <2>1, ControllerAssumption DEF Issuing, Turn, Passed, Running, Popping, NPU
  <2> QED BY <1>1, <1>3, <2>2 DEF Packet
<1>9. CASE PopNoSync
  <2>1. stage = "pop" /\ stage' = "issue" /\ cycle_idx_map # << >>
    BY <1>9 DEF PopNoSync, Due
  <2>2. \A m \in NPU : ~Turn(m) /\ Passed(m)'
    BY <2>1 DEF Turn, Passed, Running, Popping
  <2> QED BY <1>1, <1>3, <2>1, <2>2 DEF Packet
<1>10. CASE PopDone
  <2>1. stage = "pop" /\ stage' \in {"setup", "done"} /\ ~Due
    BY <1>10 DEF PopDone
  <2>2. ~Issuing' /\ \A m \in NPU : ~Turn(m)
    BY <2>1 DEF Issuing, Turn, Running
  <2>3. ASSUME NEW k \in DOMAIN cycle_idx_map PROVE ~(cycle_idx_map[k].key <= memory_cycle)
    <3>1. /\ 1 \in DOMAIN cycle_idx_map /\ Head(cycle_idx_map) = cycle_idx_map[1] /\ 1 <= k
          /\ cycle_idx_map # << >>
      BY DEF TypeOK
    <3>2. /\ cycle_idx_map[1] \in Packet /\ cycle_idx_map[k] \in Packet
          /\ memory_cycle \in Nat
      BY <3>1 DEF TypeOK
    <3>3. cycle_idx_map[1].key \in Nat /\ cycle_idx_map[k].key \in Nat
      BY <3>2 DEF Packet
    <3>4. cycle_idx_map[1].key <= cycle_idx_map[k].key
      BY <1>1, <3>1 DEF DataInv, QueueInv
    <3>5. ~(cycle_idx_map[1].key <= memory_cycle)
      BY <2>1, <3>1 DEF Due
    <3> QED BY <3>2, <3>3, <3>4, <3>5
  <2> QED BY <1>1, <1>3, <2>2, <2>3
<1> QED BY <1>4, <1>5, <1>6, <1>7, <1>8, <1>9, <1>10

(* On its turn an NPU with an open layer has nothing queued, except the     *)
(* request for the tile after the one it is about to have written.         *)
LEMMA TurnQueue ==
  ASSUME TypeOK, LoopInv, RunNPU, NEW n \in NPU, n = i
  PROVE  /\ npu[n].open /\ npu[n].is_setup /\ npu[n].is_begin /\ npu[n].is_returned /\ ~npu[n].eof
         /\ ~npu[n].is_terminated /\ ~npu[n].is_saved /\ npu[n].layer < Len(Layers[n])
         /\ TilesOf(n) /\ Tiles(n) \in Nat \ {0}
         /\ npu[n].tile_full => ComputeKey(n) <= memory_cycle
         /\ \A k \in DOMAIN cycle_idx_map : cycle_idx_map[k].npu = n =>
              /\ npu[n].tile_full /\ ~cycle_idx_map[k].sync
              /\ cycle_idx_map[k].op = Read /\ ~cycle_idx_map[k].eof
              /\ cycle_idx_map[k].key <= ComputeKey(n)
<1>1. DataInv /\ PhaseOf(n)
  BY LoopData DEF DataInv, PhaseInv
<1>2. /\ npu[n].is_begin /\ npu[n].is_returned /\ ~npu[n].eof /\ ~npu[n].is_terminated
      /\ stage = "run"
  BY DEF RunNPU
<1>3. /\ npu[n].open /\ npu[n].is_setup /\ ~npu[n].is_saved
      /\ npu[n].layer < Len(Layers[n])
      /\ npu[n].tile_full => ComputeKey(n) <= memory_cycle
  BY <1>1, <1>2 DEF PhaseOf
<1>4. TilesOf(n) /\ Tiles(n) \in Nat \ {0}
  BY <1>1, <1>3, HasTiles DEF DataInv, TilesInv
<1>5. ~Passed(n)
  BY <1>2 DEF Passed, Popping, TypeOK
<1>6. ASSUME NEW k \in DOMAIN cycle_idx_map, cycle_idx_map[k].npu = n
      PROVE  /\ npu[n].tile_full /\ ~cycle_idx_map[k].sync
             /\ cycle_idx_map[k].op = Read /\ ~cycle_idx_map[k].eof
             /\ cycle_idx_map[k].key <= ComputeKey(n)
  <2>1. PacketOf(cycle_idx_map[k])
    BY <1>1 DEF DataInv, PacketInv
  <2> QED BY <1>2, <1>5, <1>6, <2>1 DEF PacketOf, Read, Write
<1> QED BY <1>2, <1>3, <1>4, <1>6

LEMMA ComputedFields ==
  ASSUME NEW s \in NPUState, NEW n \in NPU
  PROVE  LET t == Computed(s, n)
         IN  /\ t \in NPUState
             /\ t.layer = s.layer /\ t.open = s.open /\ t.eof = s.eof
             /\ t.tile_full = s.tile_full /\ t.is_begin = s.is_begin
             /\ t.is_setup = s.is_setup /\ t.is_returned = s.is_returned
             /\ t.is_terminated = s.is_terminated /\ t.is_saved = s.is_saved
             /\ t.dread = s.dread /\ t.dwrite = s.dwrite
             /\ t.tile = s.tile + 1
<1> DEFINE t == Computed(s, n)
<1>1. /\ t.layer = s.layer /\ t.open = s.open /\ t.eof = s.eof
      /\ t.tile_full = s.tile_full /\ t.is_begin = s.is_begin
  BY DEF Computed, NPUState
<1>2. /\ t.is_setup = s.is_setup /\ t.is_returned = s.is_returned
      /\ t.is_terminated = s.is_terminated /\ t.is_saved = s.is_saved
  BY DEF Computed, NPUState
<1>3. t.dread = s.dread /\ t.dwrite = s.dwrite /\ t.tile = s.tile + 1
  BY DEF Computed, NPUState
<1> QED BY <1>1, <1>2, <1>3, ComputedType

(* The NPU on its turn, after it.                                          *)
LEMMA TurnPhase ==
  ASSUME TypeOK, TypeOK', LoopInv, RunNPU, NEW n \in NPU, n = i,
         npu' = [npu EXCEPT ![n] = RunResult(n).state],
         \A op : Queued(n, op)' <=> Queued(n, op) \/ op = RunResult(n).op
  PROVE  /\ PhaseOf(n)' /\ TilesOf(n)'
         /\ npu'[n].open /\ npu'[n].is_begin
<1> DEFINE s == npu[n]
           t == npu'[n]
<1>1. /\ s.open /\ s.is_setup /\ s.is_begin /\ s.is_returned /\ ~s.eof
      /\ ~s.is_terminated /\ ~s.is_saved /\ s.layer < Len(Layers[n])
      /\ TilesOf(n) /\ Tiles(n) \in Nat \ {0}
      /\ \A k \in DOMAIN cycle_idx_map : cycle_idx_map[k].npu = n =>
           s.tile_full /\ cycle_idx_map[k].op = Read
  BY TurnQueue
<1>2. t = RunResult(n).state /\ s \in NPUState
  BY Fields DEF TypeOK
<1>3. /\ s.tile \in Nat /\ s.dread \in Nat /\ s.dwrite \in Nat
  BY Fields
<1>4. ~Queued(n, Write) /\ (~s.tile_full => ~Queued(n, Read))
  BY <1>1 DEF Queued, Read, Write
<1>5. /\ s.dread + One(Queued(n, Read)) = s.tile + 1
      /\ s.dwrite + One(s.tile_full) = s.tile
      /\ s.tile < Tiles(n)
  <2>1. /\ s.dread + One(Queued(n, Read)) = s.tile + 1
        /\ s.dwrite + One(Queued(n, Write)) + One(s.tile_full) = s.tile
        /\ s.tile < Tiles(n)
    BY <1>1 DEF TilesOf
  <2>2. One(Queued(n, Write)) = 0 /\ One(s.tile_full) \in {0, 1}
    BY <1>4 DEF One
  <2> HIDE DEF s
  <2> QED BY <1>3, <2>1, <2>2
<1>6. CASE s.tile_full
  <2>1. RunResult(n) = RunWrite(n)
    BY <1>6 DEF RunResult
  <2>2. /\ t.layer = s.layer /\ t.open = s.open /\ t.eof = s.eof
        /\ t.is_begin = s.is_begin /\ t.is_setup = s.is_setup
        /\ t.is_terminated = s.is_terminated /\ t.is_saved = s.is_saved
        /\ t.dread = s.dread /\ t.dwrite = s.dwrite /\ t.tile = s.tile
        /\ ~t.tile_full
    <3>1. t = [s EXCEPT !.tile_full = FALSE, !.is_first = FALSE]
      BY <1>2, <2>1 DEF RunWrite
    <3> HIDE DEF s, t
    <3> QED BY <1>2, <3>1 DEF NPUState
  <2>3. (Queued(n, Read)' <=> Queued(n, Read)) /\ Queued(n, Write)'
    BY <2>1 DEF RunWrite, Read, Write
  <2>4. /\ t.open /\ t.is_setup /\ t.is_begin /\ ~t.eof /\ ~t.is_terminated /\ ~t.is_saved
        /\ t.layer < Len(Layers[n])
    BY <1>1, <2>2
  <2>5. PhaseOf(n)'
    BY <2>2, <2>4 DEF PhaseOf
  <2>6. TilesOf(n)'
    <3>1. Tiles(n)' = Tiles(n)
      BY <2>2 DEF Tiles
    <3>2. /\ One(Queued(n, Read))' = One(Queued(n, Read))
          /\ One(Queued(n, Write))' = 1 /\ One(t.tile_full) = 0 /\ One(s.tile_full) = 1
      BY <1>6, <2>2, <2>3 DEF One
    <3>3. t.dread + One(Queued(n, Read))' = t.tile + 1
      BY <1>5, <2>2, <3>2
    <3>4. t.dwrite + One(Queued(n, Write))' + One(t.tile_full) = t.tile
      BY <1>3, <1>5, <2>2, <3>2
    <3>5. t.tile < Tiles(n)'
      BY <1>5, <2>2, <3>1
    <3> QED BY <2>4, <3>3, <3>4, <3>5 DEF TilesOf, One
  <2> QED BY <2>4, <2>5, <2>6
<1> DEFINE u == Computed(s, n)
<1>7. /\ u \in NPUState
      /\ u.layer = s.layer /\ u.open = s.open /\ u.eof = s.eof
      /\ u.tile_full = s.tile_full /\ u.is_begin = s.is_begin
      /\ u.is_setup = s.is_setup /\ u.is_returned = s.is_returned
      /\ u.is_terminated = s.is_terminated /\ u.is_saved = s.is_saved
      /\ u.dread = s.dread /\ u.dwrite = s.dwrite
      /\ u.tile = s.tile + 1
  BY <1>2, ComputedFields
<1>8. CASE ~s.tile_full /\ s.tile + 1 < Tiles(n)
  <2>1. RunResult(n) = RunTile(n)
    BY <1>8 DEF RunResult
  <2>2. t = [u EXCEPT !.tile_full = TRUE, !.is_returned = FALSE]
    BY <1>2, <2>1 DEF RunTile
  <2>3. /\ t.layer = u.layer /\ t.open = u.open /\ t.eof = u.eof
        /\ t.is_begin = u.is_begin /\ t.is_setup = u.is_setup
        /\ t.is_terminated = u.is_terminated /\ t.is_saved = u.is_saved
        /\ t.dread = u.dread /\ t.dwrite = u.dwrite /\ t.tile = u.tile
        /\ t.tile_full /\ ~t.is_returned
    <3> HIDE DEF u, t
    <3> QED BY <1>7, <2>2 DEF NPUState
  <2>4. Queued(n, Read)' /\ ~Queued(n, Write)'
    BY <1>4, <2>1 DEF RunTile, Read, Write
  <2> HIDE DEF u
  <2>5. /\ t.open /\ t.is_setup /\ t.is_begin /\ ~t.eof /\ ~t.is_terminated /\ ~t.is_saved
        /\ t.layer < Len(Layers[n])
    BY <1>1, <1>7, <2>3
  <2>6. PhaseOf(n)'
    BY <2>3, <2>5 DEF PhaseOf
  <2>7. TilesOf(n)'
    <3>1. Tiles(n)' = Tiles(n)
      BY <1>7, <2>3 DEF Tiles
    <3>2. /\ One(Queued(n, Read)) = 0 /\ One(Queued(n, Read))' = 1
          /\ One(Queued(n, Write))' = 0 /\ One(t.tile_full) = 1 /\ One(s.tile_full) = 0
      BY <1>4, <1>8, <2>3, <2>4 DEF One
    <3>3. t.dread = s.dread /\ t.dwrite = s.dwrite /\ t.tile = s.tile + 1
      BY <1>7, <2>3
    <3>4. t.dread + One(Queued(n, Read))' = t.tile + 1
      BY <1>3, <1>5, <3>2, <3>3
    <3>5. t.dwrite + One(Queued(n, Write))' + One(t.tile_full) = t.tile
      BY <1>3, <1>5, <3>2, <3>3
    <3>6. t.tile < Tiles(n)'
      BY <1>8, <3>1, <3>3
    <3> QED BY <2>5, <3>4, <3>5, <3>6 DEF TilesOf, One
  <2> QED BY <2>5, <2>6, <2>7
<1>9. CASE ~s.tile_full /\ ~(s.tile + 1 < Tiles(n))
  <2>1. RunResult(n) = RunLast(n)
    BY <1>9 DEF RunResult
  <2>2. t = [u EXCEPT !.eof = TRUE]
    BY <1>2, <2>1 DEF RunLast
  <2>3. /\ t.layer = u.layer /\ t.open = u.open /\ t.eof
        /\ t.is_begin = u.is_begin /\ t.is_setup = u.is_setup
        /\ t.is_terminated = u.is_terminated /\ t.is_saved = u.is_saved
        /\ t.dread = u.dread /\ t.dwrite = u.dwrite /\ t.tile = u.tile
        /\ t.tile_full = u.tile_full /\ t.is_returned = u.is_returned
    <3> HIDE DEF u, t
    <3> QED BY <1>7, <2>2 DEF NPUState
  <2>4. ~Queued(n, Read)' /\ Queued(n, Write)'
    BY <1>4, <1>9, <2>1 DEF RunLast, Read, Write
  <2> HIDE DEF u
  <2>5. /\ t.open /\ t.is_setup /\ t.is_begin /\ ~t.is_terminated /\ ~t.is_saved
        /\ t.layer < Len(Layers[n]) /\ ~t.tile_full /\ t.is_returned
    BY <1>1, <1>7, <1>9, <2>3
  <2>6. PhaseOf(n)'
    BY <2>3, <2>5 DEF PhaseOf
  <2>7. TilesOf(n)'
    <3>1. Tiles(n)' = Tiles(n)
      BY <1>7, <2>3 DEF Tiles
    <3>2. /\ One(Queued(n, Read)) = 0 /\ One(Queued(n, Read))' = 0
          /\ One(Queued(n, Write))' = 1 /\ One(t.tile_full) = 0 /\ One(s.tile_full) = 0
      BY <1>4, <1>9, <2>4, <2>5 DEF One
    <3>3. t.dread = s.dread /\ t.dwrite = s.dwrite /\ t.tile = s.tile + 1
      BY <1>7, <2>3
    <3>4. t.tile = Tiles(n)'
      BY <1>1, <1>3, <1>5, <1>9, <3>1, <3>3
    <3>5. t.dread + One(Queued(n, Read))' = Tiles(n)'
      BY <1>3, <1>5, <3>2, <3>3, <3>4
    <3>6. t.dwrite + One(Queued(n, Write))' + One(t.tile_full) = t.tile
      BY <1>3, <1>5, <3>2, <3>3
    <3> QED BY <2>3, <2>4, <2>5, <3>4, <3>5, <3>6 DEF TilesOf, One
  <2> QED BY <2>5, <2>6, <2>7
<1> QED BY <1>6, <1>8, <1>9

(* The packet it leaves, and the one it may have left before.              *)
LEMMA TurnPacket ==
  ASSUME TypeOK, TypeOK', LoopInv, RunNPU, NEW n \in NPU, n = i, NEW p \in Packet,
         npu'[n] = RunResult(n).state, npu'[n].open, npu'[n].is_begin,
         p.npu = n, p.op = RunResult(n).op, p.sync = RunResult(n).sync,
         p.eof = RunResult(n).eof, p.key = Npu2Dram(n, npu'[n].compute_cycle)
  PROVE  PacketOf(p)'
<1>1. /\ npu[n] \in NPUState
      /\ npu[n].tile_full => ComputeKey(n) <= memory_cycle
      /\ p.key \in Nat /\ memory_cycle' = memory_cycle /\ memory_cycle \in Nat
      /\ Computed(npu[n], n) \in NPUState
  BY Fields, TurnQueue, ComputedType DEF RunNPU, Packet, TypeOK
<1>2. Passed(n)'
  BY DEF RunNPU, Passed, Running, TypeOK, NPU
<1>3. ComputeKey(n)' = p.key
  BY DEF ComputeKey, Npu2Dram, CeilDiv
<1>4. CASE npu[n].tile_full /\ RunResult(n) = RunWrite(n)
  <2>1. p.op = Write /\ p.sync = TRUE /\ p.eof = FALSE
    BY <1>4 DEF RunWrite
  <2>2. npu'[n].compute_cycle = npu[n].compute_cycle
    <3>1. npu'[n] = [npu[n] EXCEPT !.tile_full = FALSE, !.is_first = FALSE]
      BY <1>4 DEF RunWrite
    <3> QED BY <1>1, <3>1 DEF NPUState
  <2>3. p.key = ComputeKey(n)
    BY <2>2 DEF ComputeKey
  <2>4. p.key <= memory_cycle'
    <3> HIDE DEF ComputeKey
    <3> QED BY <1>1, <1>4, <2>3
  <2>5. npu'[p.npu].open /\ npu'[p.npu].is_begin /\ Passed(p.npu)'
    BY <1>2
  <2>6. (p.sync <=> p.op = Write) /\ ~p.eof
    BY <2>1
  <2> HIDE DEF ComputeKey
  <2> QED BY <2>4, <2>5, <2>6 DEF PacketOf
<1>5. CASE RunResult(n) = RunTile(n)
  <2>1. p.op = Read /\ p.sync = FALSE /\ p.eof = FALSE /\ npu'[n].tile_full
    <3>1. p.op = Read /\ p.sync = FALSE /\ p.eof = FALSE
      BY <1>5 DEF RunTile
    <3>2. npu'[n] = [Computed(npu[n], n) EXCEPT !.tile_full = TRUE, !.is_returned = FALSE]
      BY <1>5 DEF RunTile
    <3>3. npu'[n].tile_full
      BY <1>1, <3>2 DEF NPUState
    <3> QED BY <3>1, <3>3
  <2>2. p.key <= ComputeKey(n)'
    BY <1>1, <1>3
  <2> HIDE DEF ComputeKey
  <2> QED BY <2>1, <2>2 DEF PacketOf, Read, Write
<1>6. CASE RunResult(n) = RunLast(n)
  <2>1. p.op = Write /\ p.sync = TRUE /\ p.eof = TRUE /\ npu'[n].eof
    BY <1>1, <1>6 DEF RunLast, NPUState
  <2> QED BY <2>1 DEF PacketOf
<1> QED BY <1>4, <1>5, <1>6, RunResultCases

LEMMA RunData ==
  ASSUME TypeOK, TypeOK', LoopInv, RunNPU
  PROVE  DataInv'
<1>0. PICK n \in NPU : n = i
  BY ControllerAssumption DEF RunNPU, TypeOK, NPU
<1>1. PICK p \in Packet :
        /\ cycle_idx_map' = InsertPacket(p)
        /\ p.npu = n /\ p.op = RunResult(n).op /\ p.sync = RunResult(n).sync
        /\ p.eof = RunResult(n).eof
        /\ p.key = Npu2Dram(n, RunResult(n).state.compute_cycle)
  <2> DEFINE r == RunResult(n)
             p == [key |-> Npu2Dram(n, r.state.compute_cycle), npu |-> n,
                   op |-> r.op, sync |-> r.sync, eof |-> r.eof]
  <2>1. cycle_idx_map' = InsertPacket(p)
    BY <1>0 DEF RunNPU
  <2>2. RunTypeOf(n, r) /\ Npu2Dram(n, r.state.compute_cycle) \in Nat
    BY RunResultType
  <2> HIDE DEF r
  <2>3. p \in Packet
    BY <2>2 DEF Packet, RunTypeOf
  <2>4. /\ p.npu = n /\ p.op = r.op /\ p.sync = r.sync /\ p.eof = r.eof
        /\ p.key = Npu2Dram(n, r.state.compute_cycle)
    OBVIOUS
  <2> HIDE DEF p
  <2> QED BY <2>1, <2>3, <2>4 DEF r
<1>2. /\ npu' = [npu EXCEPT ![n] = RunResult(n).state]
      /\ memory_cycle' = memory_cycle /\ keep_queue' = keep_queue
      /\ stage = "run" /\ stage' = "run" /\ i' = i + 1
  BY <1>0 DEF RunNPU
<1>3. DataInv /\ npu \in [NPU -> NPUState] /\ memory_cycle \in Nat /\ i \in Nat
  BY LoopData DEF TypeOK
<1>4. /\ npu[n].open /\ npu[n].is_begin
      /\ npu[n].tile_full => ComputeKey(n) <= memory_cycle
      /\ \A k \in DOMAIN cycle_idx_map : cycle_idx_map[k].npu = n =>
           /\ npu[n].tile_full /\ ~cycle_idx_map[k].sync
           /\ cycle_idx_map[k].op = Read /\ ~cycle_idx_map[k].eof
           /\ cycle_idx_map[k].key <= ComputeKey(n)
  BY <1>0, TurnQueue
<1>5. npu'[n] = RunResult(n).state /\ \A m \in NPU : m # n => npu'[m] = npu[m]
  BY <1>2, <1>3
<1>6. ~Queued(n, p.op)
  <2>1. npu[n].tile_full => p.op = Write
    BY <1>1 DEF RunResult, RunWrite
  <2> QED BY <1>4, <2>1 DEF Queued, Read, Write
<1>7. /\ QueueInv'
      /\ \A k \in DOMAIN cycle_idx_map' :
           cycle_idx_map'[k] = p \/ \E l \in DOMAIN cycle_idx_map :
                                     cycle_idx_map'[k] = cycle_idx_map[l]
      /\ \A m, op : Queued(m, op)' <=> Queued(m, op) \/ (m = n /\ op = p.op)
  BY <1>1, <1>3, <1>6, QueueGrows DEF TypeOK, DataInv
<1>8. PhaseOf(n)' /\ TilesOf(n)' /\ npu'[n].open /\ npu'[n].is_begin
  BY <1>0, <1>1, <1>2, <1>7, TurnPhase, ZenonT(30)
<1>9. /\ \A m \in NPU : m # n => PhaseOf(m)'
      /\ \A q \in Packet : PacketOf(q) /\ q.npu # n => PacketOf(q)'
      /\ \A m \in NPU : /\ m # n /\ npu'[m].open
                        /\ \A op \in {Read, Write} : Queued(m, op)' <=> Queued(m, op)
                        => TilesOf(m)'
  <2>1. \A m \in NPU : m # n => ~Turn(m)
    BY <1>0 DEF Turn
  <2>2. \A m \in NPU : Passed(m) => Passed(m)'
    BY <1>2, <1>3 DEF Passed, Running, Popping, NPU
  <2>3. memory_cycle <= memory_cycle'
    BY <1>2, <1>3
  <2> QED BY <1>3, <1>5, <2>1, <2>2, <2>3, OthersStay
<1>10. PacketOf(p)'
  BY <1>0, <1>1, <1>5, <1>8, TurnPacket
<1>11. Passed(n)'
  BY <1>0, <1>2, <1>3 DEF Passed, Running
<1>12. PacketInv'
  <2>1. ASSUME NEW l \in DOMAIN cycle_idx_map, NEW q \in Packet, q = cycle_idx_map[l]
        PROVE  PacketOf(q)'
    <3>1. PacketOf(q)
      BY <1>3, <2>1 DEF DataInv, PacketInv
    <3>2. CASE q.npu # n
      BY <1>9, <2>1, <3>1, <3>2
    <3>3. CASE q.npu = n
      <4>1. q.op = Read /\ ~q.sync /\ ~q.eof /\ q.key <= ComputeKey(n) /\ npu[n].tile_full
        BY <1>4, <2>1, <3>3
      <4>2. q.key <= memory_cycle'
        <5>1. q.key \in Nat /\ ComputeKey(n) \in Nat
          BY SyncedBounds DEF Packet
        <5> QED BY <1>2, <1>3, <1>4, <4>1, <5>1
      <4> QED BY <1>8, <1>11, <3>3, <4>1, <4>2 DEF PacketOf, Read, Write
    <3> QED BY <3>2, <3>3
  <2>2. ASSUME NEW k \in DOMAIN cycle_idx_map' PROVE PacketOf(cycle_idx_map[k])'
    <3>1. CASE cycle_idx_map'[k] = p
      BY <1>10, <3>1
    <3>2. CASE \E l \in DOMAIN cycle_idx_map : cycle_idx_map'[k] = cycle_idx_map[l]
      <4>1. PICK l \in DOMAIN cycle_idx_map : cycle_idx_map'[k] = cycle_idx_map[l]
        BY <3>2
      <4>2. cycle_idx_map[l] \in Packet
        BY DEF TypeOK
      <4>3. PICK q \in Packet : q = cycle_idx_map[l] /\ q = cycle_idx_map'[k]
        BY <4>1, <4>2
      <4> QED BY <2>1, <4>3
    <3> QED BY <1>7, <3>1, <3>2
  <2> QED BY <2>2 DEF PacketInv
<1>13. KeepInv'
  <2>1. \A k \in DOMAIN keep_queue : keep_queue[k] \in NPU /\ keep_queue[k] # n
    BY <1>3, <1>4 DEF DataInv, KeepInv, TypeOK
  <2> QED BY <1>2, <1>3, <1>5, <2>1 DEF DataInv, KeepInv
<1>14. PhaseInv' /\ TilesInv'
  BY <1>7, <1>8, <1>9 DEF PhaseInv, TilesInv
<1> QED BY <1>7, <1>12, <1>13, <1>14 DEF DataInv

-----------------------------------------------------------------------------
(* A batch is issued; with the last one of a layer its files are closed,    *)
(* and by then every tile has been read, computed and written.             *)
LEMMA OpFields ==
  ASSUME NEW s \in NPUState, NEW op \in {Read, Write}
  PROVE  LET t == AfterMemOp(s, op)
         IN  /\ t \in NPUState
             /\ t.layer = s.layer /\ t.open = s.open /\ t.eof = s.eof
             /\ t.tile_full = s.tile_full /\ t.is_begin = s.is_begin
             /\ t.is_setup = s.is_setup /\ t.is_returned = s.is_returned
             /\ t.is_terminated = s.is_terminated /\ t.is_saved = s.is_saved
             /\ t.compute_cycle = s.compute_cycle /\ t.tile = s.tile
             /\ op = Read => t.dread = s.dread + 1 /\ t.dwrite = s.dwrite
             /\ op = Write => t.dread = s.dread /\ t.dwrite = s.dwrite + 1
<1> DEFINE t == AfterMemOp(s, op)
<1>1. /\ t.layer = s.layer /\ t.open = s.open /\ t.eof = s.eof
      /\ t.tile_full = s.tile_full /\ t.is_begin = s.is_begin
  BY DEF AfterMemOp, NPUState
<1>2. /\ t.is_setup = s.is_setup /\ t.is_returned = s.is_returned
      /\ t.is_terminated = s.is_terminated /\ t.is_saved = s.is_saved
  BY DEF AfterMemOp, NPUState
<1>3. t.compute_cycle = s.compute_cycle /\ t.tile = s.tile
  BY DEF AfterMemOp, NPUState
<1>4. op = Read => t.dread = s.dread + 1 /\ t.dwrite = s.dwrite
  BY DEF AfterMemOp, NPUState
<1>5. op = Write => t.dread = s.dread /\ t.dwrite = s.dwrite + 1
  BY DEF AfterMemOp, NPUState, Read, Write
<1> QED BY <1>1, <1>2, <1>3, <1>4, <1>5, AfterMemOpType

LEMMA ClosedFields ==
  ASSUME NEW s \in NPUState, NEW n \in NPU, s.layer < Len(Layers[n])
  PROVE  LET t == Closed(s, n)
         IN  /\ t \in NPUState /\ ~t.open
             /\ t.eof = s.eof /\ t.tile_full = s.tile_full /\ t.is_begin = s.is_begin
             /\ t.is_setup = s.is_setup /\ t.is_saved = s.is_saved
             /\ t.compute_cycle = s.compute_cycle
             /\ t.tile = s.tile /\ t.dread = s.dread /\ t.dwrite = s.dwrite
             /\ s.is_terminated => t.is_terminated
             /\ ~t.is_terminated => t.layer < Len(Layers[n])
<1> DEFINE t == Closed(s, n)
<1>1. ~t.open /\ t.eof = s.eof /\ t.tile_full = s.tile_full /\ t.is_begin = s.is_begin
  BY DEF Closed, NPUState
<1>2. t.is_setup = s.is_setup /\ t.is_saved = s.is_saved /\ t.compute_cycle = s.compute_cycle
  BY DEF Closed, NPUState
<1>3. t.tile = s.tile /\ t.dread = s.dread /\ t.dwrite = s.dwrite
  BY DEF Closed, NPUState
<1>4. s.is_terminated => t.is_terminated
  BY DEF Closed, NPUState
<1>5. ~t.is_terminated => t.layer < Len(Layers[n])
  <2>1. s.layer \in Nat /\ Len(Layers[n]) \in Nat
    BY WorkloadAssumption DEF NPUState
  <2>2. CASE s.layer + 1 = Len(Layers[n])
    <3>1. t = [s EXCEPT !.open = FALSE, !.layer = @ + 1, !.is_first = TRUE,
                        !.iter_cnt = @ + 1, !.is_terminated = TRUE]
      BY <2>2 DEF Closed
    <3> HIDE DEF t
    <3> QED BY <3>1 DEF NPUState
  <2>3. CASE s.layer + 1 # Len(Layers[n])
    <3>1. t = [s EXCEPT !.open = FALSE, !.layer = @ + 1, !.is_first = TRUE]
      BY <2>3 DEF Closed
    <3> HIDE DEF t
    <3>2. t.layer = s.layer + 1
      BY <3>1 DEF NPUState
    <3> QED BY <2>1, <2>3, <3>2
  <2> QED BY <2>2, <2>3
<1> QED BY <1>1, <1>2, <1>3, <1>4, <1>5, ClosedType

(* What the batch's NPU is before and after.                               *)
LEMMA IssueCounts ==
  ASSUME TypeOK, LoopInv, Issue
  PROVE  \E h \in Packet, n \in NPU, s \in NPUState :
           /\ h = Head(cycle_idx_map) /\ h = cycle_idx_map[1] /\ n = h.npu /\ PacketOf(h)
           /\ s = AfterMemOp(npu[n], h.op) /\ s.open
           /\ npu' = [npu EXCEPT ![n] = IF h.eof THEN Closed(s, n) ELSE s]
           /\ Queued(n, h.op) /\ TilesOf(n)
           /\ h.eof => /\ ~Queued(n, Read) /\ npu[n].dread = Tiles(n)
                       /\ npu[n].tile = Tiles(n) /\ s.dwrite = Tiles(n)
<1>1. PICK h \in Packet, n \in NPU :
        /\ h = Head(cycle_idx_map) /\ h = cycle_idx_map[1] /\ 1 \in DOMAIN cycle_idx_map
        /\ n = h.npu /\ PacketOf(h)
  BY WhoIsIssued DEF Issue, LoopInv, QueueInv, Issuing
<1>2. PICK s \in NPUState :
        /\ s = AfterMemOp(npu[n], h.op) /\ s.open = npu[n].open
        /\ h.op = Write => s.dwrite = npu[n].dwrite + 1
  BY <1>1, Fields, OpFields DEF Packet
<1>3. npu' = [npu EXCEPT ![n] = IF h.eof THEN Closed(s, n) ELSE s]
  BY <1>1, <1>2 DEF Issue
<1>4. Queued(n, h.op)
  BY <1>1 DEF Queued
<1>5. npu[n].open /\ npu[n].is_begin /\ s.open
  BY <1>1, <1>2 DEF PacketOf
<1>6. TilesOf(n) /\ PhaseOf(n)
  BY <1>5 DEF LoopInv, TilesInv, PhaseInv
<1>7. ASSUME h.eof
      PROVE  /\ ~Queued(n, Read) /\ npu[n].dread = Tiles(n)
             /\ npu[n].tile = Tiles(n) /\ s.dwrite = Tiles(n)
  <2>1. h.op = Write /\ npu[n].eof
    BY <1>1, <1>7 DEF PacketOf
  <2>2. ~npu[n].tile_full
    BY <1>5, <1>6, <2>1 DEF PhaseOf
  <2>3. /\ ~Queued(n, Read) /\ npu[n].tile = Tiles(n)
        /\ npu[n].dread + One(Queued(n, Read)) = Tiles(n)
        /\ npu[n].dwrite + One(Queued(n, Write)) + One(npu[n].tile_full) = npu[n].tile
    BY <1>5, <1>6, <2>1 DEF TilesOf
  <2>4. One(Queued(n, Read)) = 0 /\ One(Queued(n, Write)) = 1 /\ One(npu[n].tile_full) = 0
    BY <1>4, <2>1, <2>2, <2>3 DEF One
  <2>5. npu[n].dread \in Nat /\ npu[n].dwrite \in Nat /\ npu[n].tile \in Nat
    BY Fields
  <2> QED BY <1>2, <2>1, <2>3, <2>4, <2>5
<1> QED BY <1>1, <1>2, <1>3, <1>4, <1>5, <1>6, <1>7

LEMMA IssueData ==
  ASSUME TypeOK, TypeOK', LoopInv, Issue
  PROVE  DataInv'
<1>1. PICK h \in Packet, n \in NPU, s \in NPUState :
        /\ h = Head(cycle_idx_map) /\ h = cycle_idx_map[1] /\ n = h.npu /\ PacketOf(h)
        /\ s = AfterMemOp(npu[n], h.op) /\ s.open
        /\ npu' = [npu EXCEPT ![n] = IF h.eof THEN Closed(s, n) ELSE s]
        /\ Queued(n, h.op) /\ TilesOf(n)
        /\ h.eof => ~Queued(n, Read)
  BY IssueCounts
<1>2. /\ DataInv /\ npu \in [NPU -> NPUState] /\ memory_cycle \in Nat
      /\ memory_cycle' = memory_cycle /\ keep_queue' = keep_queue
      /\ stage = "issue" /\ stage' = "pop" /\ cycle_idx_map' = Tail(cycle_idx_map)
      /\ cycle_idx_map # << >>
      /\ h.op \in {Read, Write}
  BY LoopData DEF TypeOK, Issue, LoopInv, QueueInv, Issuing, Packet
<1>3. \A m \in NPU : Passed(m)' /\ ~Turn(m) /\ ~Issuing'
  BY <1>2 DEF Passed, Turn, Issuing, Running, Popping
<1>4. /\ QueueInv'
      /\ \A k \in DOMAIN cycle_idx_map' :
           k + 1 \in DOMAIN cycle_idx_map /\ cycle_idx_map'[k] = cycle_idx_map[k + 1]
      /\ \A m, op : Queued(m, op)' <=> Queued(m, op) /\ ~(m = n /\ op = h.op)
  <2>1. ~Issuing'
    BY <1>2 DEF Issuing
  <2> QED BY <1>1, <1>2, <2>1, QueueShrinks DEF TypeOK, DataInv
<1>5. npu'[n] = (IF h.eof THEN Closed(s, n) ELSE s) /\ \A m \in NPU : m # n => npu'[m] = npu[m]
  BY <1>1, <1>2
<1>6. /\ \A m \in NPU : m # n => PhaseOf(m)'
      /\ \A p \in Packet : PacketOf(p) /\ p.npu # n => PacketOf(p)'
      /\ \A m \in NPU : /\ m # n /\ npu'[m].open
                        /\ \A op \in {Read, Write} : Queued(m, op)' <=> Queued(m, op)
                        => TilesOf(m)'
  <2>1. memory_cycle <= memory_cycle'
    BY <1>2
  <2> QED BY <1>2, <1>3, <1>5, <2>1, OthersStay
<1>7. /\ s.layer = npu[n].layer /\ s.eof = npu[n].eof
      /\ s.tile_full = npu[n].tile_full /\ s.is_begin = npu[n].is_begin
      /\ s.is_setup = npu[n].is_setup /\ s.is_returned = npu[n].is_returned
      /\ s.is_terminated = npu[n].is_terminated /\ s.is_saved = npu[n].is_saved
      /\ s.compute_cycle = npu[n].compute_cycle /\ s.tile = npu[n].tile
      /\ h.op = Read => s.dread = npu[n].dread + 1 /\ s.dwrite = npu[n].dwrite
      /\ h.op = Write => s.dread = npu[n].dread /\ s.dwrite = npu[n].dwrite + 1
  <2>1. npu[n] \in NPUState
    BY Fields
  <2> QED BY <1>1, <1>2, <2>1, OpFields
<1>8. npu[n].open /\ npu[n].is_begin /\ PhaseOf(n)
  BY <1>1, <1>2 DEF PacketOf, DataInv, PhaseInv
<1>9. /\ s.is_setup /\ ~s.is_terminated /\ ~s.is_saved /\ s.is_begin
      /\ s.layer < Len(Layers[n])
      /\ s.eof => s.is_returned /\ ~s.tile_full
      /\ ~(s.tile_full /\ s.is_returned)
  BY <1>3, <1>7, <1>8 DEF PhaseOf
<1>10. KeepInv'
  <2>1. \A k \in DOMAIN keep_queue : keep_queue[k] \in NPU /\ keep_queue[k] # n
    BY <1>2, <1>8 DEF DataInv, KeepInv, TypeOK
  <2> QED BY <1>2, <1>5, <2>1 DEF DataInv, KeepInv
<1>11. ASSUME PhaseOf(n)', npu'[n].open => TilesOf(n)',
              \A p \in Packet : /\ PacketOf(p) /\ p.npu = n
                                /\ \E k \in DOMAIN cycle_idx_map' : p = cycle_idx_map'[k]
                                => PacketOf(p)'
       PROVE  DataInv'
  <2>1. PacketInv'
    <3>1. ASSUME NEW k \in DOMAIN cycle_idx_map' PROVE PacketOf(cycle_idx_map[k])'
      <4>1. /\ cycle_idx_map'[k] \in Packet /\ cycle_idx_map'[k] = cycle_idx_map[k + 1]
            /\ k + 1 \in DOMAIN cycle_idx_map
        BY <1>4 DEF TypeOK
      <4>2. PICK p \in Packet : p = cycle_idx_map'[k] /\ p = cycle_idx_map[k + 1]
        BY <4>1
      <4>3. PacketOf(p)
        BY <1>2, <4>1, <4>2 DEF DataInv, PacketInv
      <4>4. PacketOf(p)'
        BY <1>6, <1>11, <4>2, <4>3
      <4> QED BY <4>2, <4>4
    <3> QED BY <3>1 DEF PacketInv
  <2>2. PhaseInv'
    BY <1>6, <1>11 DEF PhaseInv
  <2>3. TilesInv'
    <3>1. \A m \in NPU, op \in {Read, Write} : m # n => (Queued(m, op)' <=> Queued(m, op))
      BY <1>4
    <3> QED BY <1>6, <1>11, <3>1 DEF TilesInv
  <2> QED BY <1>4, <1>10, <2>1, <2>2, <2>3 DEF DataInv
<1>12. CASE ~h.eof
  <2>1. npu'[n] = s
    BY <1>5, <1>12
  <2>2. PhaseOf(n)'
    BY <1>1, <1>9, <2>1 DEF PhaseOf
  <2>3. TilesOf(n)'
    <3>1. Tiles(n)' = Tiles(n)
      BY <1>7, <2>1 DEF Tiles
    <3>2. /\ npu[n].dread + One(Queued(n, Read))
                = IF npu[n].eof THEN Tiles(n) ELSE npu[n].tile + 1
          /\ npu[n].dwrite + One(Queued(n, Write)) + One(npu[n].tile_full) = npu[n].tile
          /\ IF npu[n].eof THEN npu[n].tile = Tiles(n) /\ ~Queued(n, Read)
                           ELSE npu[n].tile < Tiles(n)
      BY <1>1, <1>8 DEF TilesOf
    <3>3. npu[n].dread \in Nat /\ npu[n].dwrite \in Nat /\ npu[n].tile \in Nat
      BY Fields
    <3>4. One(s.tile_full) = One(npu[n].tile_full) /\ One(s.tile_full) \in {0, 1}
      BY <1>7 DEF One
    <3>5. /\ s.dread + One(Queued(n, Read))' = npu[n].dread + One(Queued(n, Read))
          /\ s.dwrite + One(Queued(n, Write))' = npu[n].dwrite + One(Queued(n, Write))
          /\ Queued(n, Read)' => Queued(n, Read)
      <4>1. CASE h.op = Read
        <5>1. /\ Queued(n, Read) /\ ~Queued(n, Read)'
              /\ Queued(n, Write)' <=> Queued(n, Write)
          BY <1>1, <1>4, <4>1 DEF Read, Write
        <5>2. /\ One(Queued(n, Read)) = 1 /\ One(Queued(n, Read))' = 0
              /\ One(Queued(n, Write))' = One(Queued(n, Write))
          BY <5>1 DEF One
        <5>3. s.dread = npu[n].dread + 1 /\ s.dwrite = npu[n].dwrite
          BY <1>7, <4>1
        <5>4. /\ s.dread + 0 = npu[n].dread + 1
              /\ s.dwrite + One(Queued(n, Write)) = npu[n].dwrite + One(Queued(n, Write))
          BY <3>3, <5>3
        <5> QED BY <5>1, <5>2, <5>4, Zenon
      <4>2. CASE h.op = Write
        <5>1. /\ Queued(n, Write) /\ ~Queued(n, Write)'
              /\ Queued(n, Read)' <=> Queued(n, Read)
          BY <1>1, <1>4, <4>2 DEF Read, Write
        <5>2. /\ One(Queued(n, Write)) = 1 /\ One(Queued(n, Write))' = 0
              /\ One(Queued(n, Read))' = One(Queued(n, Read))
          BY <5>1 DEF One
        <5>3. s.dread = npu[n].dread /\ s.dwrite = npu[n].dwrite + 1
          BY <1>7, <4>2
        <5>4. /\ s.dwrite + 0 = npu[n].dwrite + 1
              /\ s.dread + One(Queued(n, Read)) = npu[n].dread + One(Queued(n, Read))
          BY <3>3, <5>3
        <5> QED BY <5>1, <5>2, <5>4, Zenon
      <4> QED BY <1>2, <4>1, <4>2
    <3>6. s.dread + One(Queued(n, Read))' = IF s.eof THEN Tiles(n)' ELSE s.tile + 1
      BY <1>7, <3>1, <3>2, <3>5
    <3>7. s.dwrite + One(Queued(n, Write))' + One(s.tile_full) = s.tile
      BY <1>7, <3>2, <3>4, <3>5
    <3>8. IF s.eof THEN s.tile = Tiles(n)' /\ ~Queued(n, Read)' ELSE s.tile < Tiles(n)'
      BY <1>7, <3>1, <3>2, <3>5
    <3> QED BY <1>9, <2>1, <3>6, <3>7, <3>8 DEF TilesOf, One
  <2>4. ASSUME NEW p \in Packet, PacketOf(p), p.npu = n PROVE PacketOf(p)'
    <3>1. ComputeKey(n)' = ComputeKey(n)
      BY <1>7, <2>1 DEF ComputeKey, Npu2Dram, CeilDiv
    <3>2. /\ p.sync <=> p.op = Write
          /\ p.eof => p.op = Write /\ s.eof
          /\ ~p.eof => \/ p.op = Read /\ s.tile_full /\ p.key <= ComputeKey(n)
                       \/ p.key <= memory_cycle
      BY <1>7, <2>4 DEF PacketOf
    <3> HIDE DEF ComputeKey
    <3> QED BY <1>1, <1>2, <1>3, <1>9, <2>1, <2>4, <3>1, <3>2 DEF PacketOf
  <2> QED BY <1>11, <2>2, <2>3, <2>4
<1>13. CASE h.eof
  <2>1. npu'[n] = Closed(s, n)
    BY <1>5, <1>13
  <2>2. h.op = Write /\ npu[n].eof
    BY <1>1, <1>13 DEF PacketOf
  <2> DEFINE t == Closed(s, n)
  <2>3. /\ ~t.open /\ t.eof = s.eof /\ t.tile_full = s.tile_full
        /\ t.is_begin = s.is_begin /\ t.is_setup = s.is_setup /\ t.is_saved = s.is_saved
        /\ ~t.is_terminated => t.layer < Len(Layers[n])
    BY <1>9, ClosedFields
  <2> HIDE DEF t
  <2>4. /\ t.eof /\ ~t.tile_full /\ t.is_setup /\ ~t.is_saved
    BY <1>7, <1>9, <2>2, <2>3
  <2>5. npu'[n] = t
    BY <2>1 DEF t
  <2>6. PhaseOf(n)' /\ ~npu'[n].open
    BY <2>3, <2>4, <2>5 DEF PhaseOf
  <2>7. \A p \in Packet : p.npu = n => ~\E k \in DOMAIN cycle_idx_map' : p = cycle_idx_map'[k]
    <3>1. ~Queued(n, Read)' /\ ~Queued(n, Write)'
      BY <1>1, <1>4, <1>13, <2>2
    <3>2. \A p \in Packet : p.op \in {Read, Write}
      BY DEF Packet
    <3> QED BY <3>1, <3>2 DEF Queued
  <2> QED BY <1>11, <2>6, <2>7
<1> QED BY <1>12, <1>13

(* A layer is retired by the step after its NPU was returned and synced.   *)
LEMMA RetireNext ==
  ASSUME TypeOK, LoopInv, [Next]_vars
  PROVE  RetireInv'
<1>1. /\ RetireInv /\ npu \in [NPU -> NPUState] /\ memory_cycle \in Nat
      /\ cont \in {"retire", "run", "issue"}
  BY DEF LoopInv, TypeOK
<1>2. ASSUME Retiring, UNCHANGED <<npu, idx, memory_cycle>>
      PROVE  RetireInv'
  BY <1>1, <1>2 DEF RetireInv, ComputeKey, Npu2Dram, CeilDiv
<1>3. CASE ReturnLayer
  <2>1. PICK n \in NPU : n = idx
    BY <1>3 DEF ReturnLayer, LayerReturned
  <2>2. /\ idx' = n /\ npu' = [npu EXCEPT ![n].compute_cycle = Synced(n)]
        /\ memory_cycle' = Npu2Dram(n, Synced(n)) /\ ~npu[n].open /\ npu[n].is_setup
    BY <1>3, <2>1 DEF ReturnLayer, LayerReturned, MemSync
  <2>3. npu[n] \in NPUState /\ npu'[n] = [npu[n] EXCEPT !.compute_cycle = Synced(n)]
    BY <1>1, <2>2
  <2>4. /\ ~npu'[n].open /\ npu'[n].is_setup /\ npu'[n].compute_cycle = Synced(n)
    BY <2>2, <2>3 DEF NPUState
  <2>5. ComputeKey(n)' = memory_cycle' /\ memory_cycle' \in Nat
    <3>1. memory_cycle' \in Nat
      BY <2>2, SyncedBounds
    <3> QED BY <2>2, <2>4, <3>1 DEF ComputeKey, Npu2Dram, CeilDiv
  <2>6. ComputeKey(idx)' <= memory_cycle'
    BY <2>2, <2>5 DEF ComputeKey
  <2> QED BY <2>2, <2>4, <2>6 DEF RetireInv
<1>4. CASE Memory \/ SyncTick \/ Terminated \/ UNCHANGED vars
  <2>1. UNCHANGED <<npu, idx, memory_cycle, stage, cont>>
    BY <1>4 DEF Memory, SyncTick, Terminated, vars, loopvars
  <2> QED BY <1>2, <2>1 DEF RetireInv, Retiring
<1>5. CASE SyncDone
  <2>1. UNCHANGED <<npu, idx, memory_cycle>> /\ (Retiring' => Retiring)
    BY <1>1, <1>5 DEF SyncDone, Retiring
  <2> QED BY <1>2, <2>1 DEF RetireInv
<1>6. CASE \/ SetupLayer \/ SetupDone \/ KeepWait \/ KeepPoll \/ KeepStart \/ CallStall
           \/ StallResult \/ ReturnOther \/ Retire \/ RunSkip \/ RunReturned \/ RunNPU
           \/ RunDone \/ PopSync \/ PopNoSync \/ Issue \/ PopDone
  <2>1. ~Retiring'
    BY <1>6
    DEF SetupLayer, SetupDone, KeepWait, KeepPoll, KeepStart, CallStall, StallResult,
        ReturnOther, Retire, RetireLayer, RetireWorkload, RetireIteration, RunSkip,
        RunReturned, RunNPU, RunDone, PopSync, PopNoSync, Issue, PopDone, MemSync, Retiring
  <2> QED BY <2>1 DEF RetireInv
<1> QED BY <1>3, <1>4, <1>5, <1>6 DEF Next, Loop

-----------------------------------------------------------------------------
(* The invariant of the loop.                                              *)
LEMMA DataNext ==
  ASSUME TypeOK, TypeOK', LoopInv, [Next]_vars
  PROVE  DataInv'
<1>1. memory_cycle <= memory_cycle'
  BY ClockNext
<1> QED BY <1>1, SetupData, KeepData, RetireData, SynchronisedData, QuietData, RunData,
           IssueData
     DEF Next, Loop

LEMMA LoopNext ==
  ASSUME TypeOK, LoopInv, ControllerInv, [Next]_vars
  PROVE  TypeOK' /\ LoopInv' /\ ControllerInv'
<1>1. TypeOK' /\ ControllerInv'
  BY TypeNext, LoopController
<1>2. CallInv' /\ ClockInv' /\ SettledInv' /\ RetireInv'
  BY CallNext, ClockNext, SettledNext, RetireNext
<1>3. DataInv'
  BY <1>1, DataNext
<1> QED BY <1>1, <1>2, <1>3 DEF LoopInv, DataInv

LEMMA LoopInit ==
  Init => TypeOK /\ LoopInv /\ ControllerInv /\ IterationsDone
<1> SUFFICES ASSUME Init PROVE TypeOK /\ LoopInv /\ ControllerInv /\ IterationsDone
  OBVIOUS
<1>1. MC!TypeOK /\ ControllerInv
  BY ControllerInit DEF Init
<1>2. clock = 0 /\ pc = "idle" /\ finished = {}
  BY DEF Init, MC!Init
<1>3. PICK start \in [NPU -> Nat] : npu = [n \in NPU |->
        [layer |-> 0, is_first |-> TRUE, tile_full |-> FALSE, is_setup |-> FALSE,
         is_returned |-> FALSE, is_begin |-> FALSE, is_terminated |-> FALSE,
         is_saved |-> FALSE, iter_cnt |-> 0, compute_cycle |-> start[n],
         open |-> FALSE, eof |-> FALSE, tile |-> 0, dread |-> 0, dwrite |-> 0]]
  BY WorkloadAssumption DEF Init
<1>4. /\ npu \in [NPU -> NPUState]
      /\ \A n \in NPU : /\ npu[n].layer = 0 /\ ~npu[n].open /\ ~npu[n].is_begin
                        /\ ~npu[n].is_saved /\ ~npu[n].tile_full
                        /\ ~npu[n].is_returned /\ ~npu[n].is_terminated
  BY <1>3 DEF NPUState
<1>5. /\ memory_cycle = 0 /\ keep_queue = << >> /\ cycle_idx_map = << >>
      /\ idx = MC!None /\ stage = "setup" /\ i = 0 /\ cont = "run"
  BY DEF Init
<1>6. TypeOK
  <2>1. LoopTypes
    BY <1>4, <1>5, ControllerAssumption DEF LoopTypes, Stages
  <2> QED BY <1>1, <2>1, TypeParts
<1>7. PhaseInv
  <2>1. \A n \in NPU : 0 < Len(Layers[n])
    BY WorkloadAssumption
  <2> QED BY <1>4, <2>1 DEF PhaseInv, PhaseOf
<1>8. KeepInv /\ PacketInv /\ TilesInv /\ RetireInv
  BY <1>4, <1>5 DEF KeepInv, PacketInv, TilesInv, RetireInv, Retiring
<1>9. QueueInv
  BY <1>5 DEF QueueInv, Issuing
<1>10. CallInv /\ ClockInv
  BY <1>2, <1>5 DEF CallInv, ClockInv, ClockInStep
<1>11. SettledInv
  BY <1>2, <1>4, <1>5 DEF SettledInv, Retiring
<1>12. IterationsDone
  BY <1>4 DEF IterationsDone
<1> QED BY <1>1, <1>6, <1>7, <1>8, <1>9, <1>10, <1>11, <1>12 DEF LoopInv

-----------------------------------------------------------------------------
(* What a step may do to an NPU's cycle, to the tiles it has computed and   *)
(* to its files: only its own turn computes, only an issue closes.         *)
Forward(s, t) ==
  s.compute_cycle <= t.compute_cycle /\ t.tile <= s.tile /\ (s.open => t.open)

LEMMA ForwardStep ==
  ASSUME TypeOK, LoopInv, [Next]_vars, ~RunNPU, ~Issue
  PROVE  \A n \in NPU : Forward(npu[n], npu'[n])
<1>1. /\ npu \in [NPU -> NPUState]
      /\ \A n \in NPU : /\ npu[n] \in NPUState
                        /\ Synced(n) \in Nat /\ npu[n].compute_cycle <= Synced(n)
                        /\ npu[n].compute_cycle \in Nat /\ npu[n].tile \in Nat
  BY Fields, SyncedBounds DEF TypeOK
<1>2. \A n \in NPU : Forward(npu[n], npu[n])
  BY <1>1 DEF Forward
<1>3. ASSUME NEW n \in NPU, NEW s, Only(n, s), Forward(npu[n], s)
      PROVE  \A m \in NPU : Forward(npu[m], npu'[m])
  <2>1. npu'[n] = s /\ \A m \in NPU : m # n => npu'[m] = npu[m]
    BY <1>1, <1>3 DEF Only
  <2> QED BY <1>2, <1>3, <2>1
<1>4. ASSUME NEW n \in NPU, Only(n, [npu[n] EXCEPT !.compute_cycle = Synced(n)])
      PROVE  \A m \in NPU : Forward(npu[m], npu'[m])
  <2>1. Forward(npu[n], [npu[n] EXCEPT !.compute_cycle = Synced(n)])
    BY <1>1 DEF Forward, NPUState
  <2> QED BY <1>3, <1>4, <2>1
<1>5. CASE SetupLayer
  <2> DEFINE n == MC!Least(ToSetup)
             o == Opened(npu[n])
             b == [o EXCEPT !.is_begin = TRUE]
  <2>1. n \in NPU /\ (SetupNow(n) \/ SetupLater(n)) /\ npu[n] \in NPUState
    BY <1>1, <1>5, WhoIsSetUp DEF SetupLayer
  <2>2. Only(n, AfterMemOp(b, Read)) \/ Only(n, o)
    BY <2>1 DEF SetupNow, SetupLater, Only
  <2> HIDE DEF n
  <2>3. o \in NPUState /\ o.compute_cycle = npu[n].compute_cycle /\ o.open /\ o.tile = 0
    BY <2>1, OpenedFields
  <2> HIDE DEF o
  <2>4. /\ AfterMemOp(b, Read).compute_cycle = o.compute_cycle
        /\ AfterMemOp(b, Read).open = o.open /\ AfterMemOp(b, Read).tile = o.tile
    BY <2>3, BegunFields
  <2> HIDE DEF b
  <2>5. Forward(npu[n], o) /\ Forward(npu[n], AfterMemOp(b, Read))
    BY <1>1, <2>1, <2>3, <2>4 DEF Forward
  <2> QED BY <1>3, <2>1, <2>2, <2>5
<1>6. CASE KeepStart
  <2> DEFINE n == Head(keep_queue)
             t == AfterMemOp([npu[n] EXCEPT !.is_begin = TRUE], Read)
  <2>1. n \in NPU /\ npu[n] \in NPUState /\ Only(n, t)
    BY <1>1, <1>6, WhoIsFirst DEF KeepStart, TypeOK, Only
  <2> HIDE DEF n
  <2>2. /\ t.compute_cycle = npu[n].compute_cycle /\ t.open = npu[n].open
        /\ t.tile = npu[n].tile
    BY <2>1, BegunFields
  <2> HIDE DEF t
  <2>3. Forward(npu[n], t)
    BY <1>1, <2>1, <2>2 DEF Forward
  <2> QED BY <1>3, <2>1, <2>3
<1>7. CASE ReturnLayer
  <2>1. idx \in NPU /\ Only(idx, [npu[idx] EXCEPT !.compute_cycle = Synced(idx)])
    BY <1>7 DEF ReturnLayer, LayerReturned, Only
  <2> QED BY <1>4, <2>1
<1>8. CASE PopSync
  <2> DEFINE n == Head(cycle_idx_map).npu
  <2>1. n \in NPU /\ Only(n, [npu[n] EXCEPT !.compute_cycle = Synced(n)])
    BY <1>8, WhoIsIssued DEF PopSync, Due, Only
  <2> HIDE DEF n
  <2> QED BY <1>4, <2>1
<1>9. CASE RunReturned
  <2> DEFINE s == [npu[i] EXCEPT !.is_returned = TRUE, !.compute_cycle = Synced(i)]
  <2>1. i \in NPU /\ Only(i, s)
    <3>1. i \in NPU
      BY <1>9, ControllerAssumption DEF RunReturned, TypeOK, NPU
    <3>2. Only(i, s)
      BY <1>9 DEF RunReturned, Only
    <3> QED BY <3>1, <3>2
  <2>2. Forward(npu[i], s)
    BY <1>1, <2>1 DEF Forward, NPUState
  <2> HIDE DEF s
  <2> QED BY <1>3, <2>1, <2>2
<1>10. CASE Retire
  <2>1. idx \in NPU /\ npu[idx] \in NPUState
    BY <1>1, <1>10 DEF Retire, LoopInv, RetireInv, Retiring
  <2>2. CASE RetireLayer
    <3>1. Forward(npu[idx], [npu[idx] EXCEPT !.is_setup = FALSE])
      BY <1>1, <2>1 DEF Forward, NPUState
    <3> QED BY <1>3, <2>1, <2>2, <3>1 DEF RetireLayer, Only
  <2>3. CASE RetireWorkload
    <3>1. Forward(npu[idx], [npu[idx] EXCEPT !.is_saved = TRUE, !.is_setup = FALSE])
      BY <1>1, <2>1 DEF Forward, NPUState
    <3> QED BY <1>3, <2>1, <2>3, <3>1 DEF RetireWorkload, Only
  <2>4. CASE RetireIteration
    <3> DEFINE s == [npu[idx] EXCEPT !.layer = 0, !.is_first = TRUE, !.tile_full = FALSE,
                       !.is_setup = FALSE, !.is_returned = FALSE,
                       !.is_terminated = FALSE, !.compute_cycle = Synced(idx)]
    <3>1. Only(idx, s)
      BY <2>4 DEF RetireIteration, Only
    <3>2. Forward(npu[idx], s)
      BY <1>1, <2>1 DEF Forward, NPUState
    <3> HIDE DEF s
    <3> QED BY <1>3, <2>1, <3>1, <3>2
  <2> QED BY <1>10, <2>2, <2>3, <2>4 DEF Retire
<1>11. CASE \/ Memory \/ SyncTick \/ SyncDone \/ SetupDone \/ KeepWait \/ KeepPoll \/ CallStall
            \/ StallResult \/ ReturnOther \/ RunSkip \/ RunDone \/ PopNoSync \/ PopDone
            \/ Terminated \/ UNCHANGED vars
  <2>1. npu' = npu
    BY <1>11
    DEF Memory, SyncTick, SyncDone, SetupDone, KeepWait, KeepPoll, CallStall, StallResult,
        ReturnOther, RunSkip, RunDone, PopNoSync, PopDone, Terminated, vars
  <2> QED BY <1>2, <2>1
<1> QED BY <1>5, <1>6, <1>7, <1>8, <1>9, <1>10, <1>11 DEF Next, Loop

(* An NPU's turn moves its own state only, and leaves its files open.      *)
LEMMA TurnStep ==
  ASSUME TypeOK, LoopInv, RunNPU
  PROVE  \E n \in NPU :
           /\ n = i /\ npu'[n].open = npu[n].open
           /\ npu[n].compute_cycle <= npu'[n].compute_cycle
           /\ \A m \in NPU : m # n => npu'[m] = npu[m]
<1>1. PICK n \in NPU : n = i
  BY ControllerAssumption DEF RunNPU, TypeOK, NPU
<1>2. npu \in [NPU -> NPUState] /\ npu[n] \in NPUState
  BY DEF TypeOK
<1>3. npu' = [npu EXCEPT ![n] = RunResult(n).state]
  BY <1>1 DEF RunNPU
<1>4. npu[n].compute_cycle <= RunResult(n).state.compute_cycle
  BY RunResultType DEF RunTypeOf
<1>5. RunResult(n).state.open = npu[n].open
  <2>1. /\ RunWrite(n).state.open = npu[n].open
        /\ RunTile(n).state.open = npu[n].open /\ RunLast(n).state.open = npu[n].open
    BY <1>2 DEF RunWrite, RunTile, RunLast, Computed, NPUState
  <2> QED BY <2>1, RunResultCases
<1>6. npu'[n] = RunResult(n).state /\ \A m \in NPU : m # n => npu'[m] = npu[m]
  BY <1>2, <1>3
<1> QED BY <1>1, <1>4, <1>5, <1>6

(* An issue moves one NPU's counters, and closes its files after the last   *)
(* write of the layer.                                                     *)
LEMMA IssueStep ==
  ASSUME TypeOK, LoopInv, Issue
  PROVE  \A n \in NPU :
           /\ npu'[n].compute_cycle = npu[n].compute_cycle /\ npu'[n].tile = npu[n].tile
           /\ npu[n].open /\ ~npu'[n].open =>
                npu[n].dread = Tiles(n) /\ npu'[n].dwrite = Tiles(n) /\ npu[n].tile = Tiles(n)
<1>1. PICK h \in Packet, n \in NPU, s \in NPUState :
        /\ h = Head(cycle_idx_map) /\ h = cycle_idx_map[1] /\ n = h.npu /\ PacketOf(h)
        /\ s = AfterMemOp(npu[n], h.op) /\ s.open
        /\ npu' = [npu EXCEPT ![n] = IF h.eof THEN Closed(s, n) ELSE s]
        /\ Queued(n, h.op) /\ TilesOf(n)
        /\ h.eof => /\ ~Queued(n, Read) /\ npu[n].dread = Tiles(n)
                    /\ npu[n].tile = Tiles(n) /\ s.dwrite = Tiles(n)
  BY IssueCounts
<1>2. npu \in [NPU -> NPUState] /\ npu[n] \in NPUState /\ h.op \in {Read, Write}
  BY DEF TypeOK, Packet
<1>3. /\ s.compute_cycle = npu[n].compute_cycle /\ s.tile = npu[n].tile
      /\ s.layer = npu[n].layer
  BY <1>1, <1>2, OpFields
<1>4. s.layer < Len(Layers[n])
  BY <1>1, <1>3, Fields DEF PacketOf, LoopInv, PhaseInv, PhaseOf
<1>5. /\ Closed(s, n).compute_cycle = s.compute_cycle
      /\ Closed(s, n).tile = s.tile /\ Closed(s, n).dwrite = s.dwrite
  BY <1>4, ClosedFields
<1>6. /\ npu'[n] = IF h.eof THEN Closed(s, n) ELSE s
      /\ \A m \in NPU : m # n => npu'[m] = npu[m]
  BY <1>1, <1>2
<1> QED BY <1>1, <1>3, <1>5, <1>6, SMTT(30)

-----------------------------------------------------------------------------
(* What the loop relies on and promises, all of it together.               *)
IInv == TypeOK /\ LoopInv /\ ControllerInv /\ IterationsDone

(* The inductive invariant holds throughout: the phases of the NPUs, the    *)
(* queue of packets and the state of the controller agree.                 *)
THEOREM LoopInvariant == Spec => []IInv
<1>1. Init => IInv
  BY LoopInit DEF IInv
<1>2. IInv /\ [Next]_vars => IInv'
  BY LoopNext, IterationsNext DEF IInv
<1> QED BY <1>1, <1>2, PTL DEF Spec

(* Every variable of the loop, and of the controller below it, keeps its    *)
(* type, for any number of NPUs and any workload.                          *)
THEOREM LoopTypeCorrect == Spec => []TypeOK
<1>1. IInv => TypeOK
  BY DEF IInv
<1> QED BY <1>1, LoopInvariant, PTL

(* npu_group uses the controller as its clients may: it submits only        *)
(* between two calls and never for an NPU that is finished, ticks only in   *)
(* its calls, and marks an NPU finished when nothing of it is outstanding.  *)
THEOREM ControllerRefined == Spec => ControllerUsed
<1>1. Init => MC!Init
  BY DEF Init
<1>2. IInv /\ [Next]_vars => [MC!Next]_MC!vars
  <2>1. IInv /\ [Next]_vars => [MC!Next]_mcvars
    BY LoopController DEF IInv
  <2> QED BY <2>1 DEF mcvars, MC!vars, MC!queues, MC!flags
<1> QED BY <1>1, <1>2, LoopInvariant, PTL DEF Spec, ControllerUsed, MC!Spec

(* memory_cycle is a copy of the DRAM clock that is never stale where it    *)
(* decides what may be computed or issued: outside mem_stall and mem_sync.  *)
THEOREM ClockInStepHolds == Spec => []ClockInStep
<1>1. IInv => ClockInStep
  BY DEF IInv, LoopInv, ClockInv
<1> QED BY <1>1, LoopInvariant, PTL

(* No clock runs backwards, although mem_sync converts one clock into the   *)
(* other and back with rounding.                                           *)
THEOREM ClocksMonotoneHolds == Spec => ClocksMonotone
<1> DEFINE Step == /\ clock' >= clock /\ memory_cycle' >= memory_cycle
                   /\ \A n \in NPU : npu'[n].compute_cycle >= npu[n].compute_cycle
<1>1. ASSUME IInv, [Next]_vars PROVE Step
  <2>1. TypeOK /\ LoopInv /\ TypeOK'
    BY <1>1, LoopNext DEF IInv
  <2>2. \A n \in NPU : npu[n].compute_cycle \in Nat /\ npu'[n].compute_cycle \in Nat
    BY <2>1 DEF TypeOK, NPUState
  <2>3. \A n \in NPU : npu[n].compute_cycle <= npu'[n].compute_cycle
    <3>1. CASE RunNPU
      BY <2>1, <2>2, <3>1, TurnStep
    <3>2. CASE Issue
      BY <2>1, <2>2, <3>2, IssueStep
    <3>3. CASE ~RunNPU /\ ~Issue
      BY <1>1, <2>1, <3>3, ForwardStep DEF Forward
    <3> QED BY <3>1, <3>2, <3>3
  <2>4. clock <= clock' /\ memory_cycle <= memory_cycle'
    BY <1>1, <2>1, ClockNext
  <2>5. clock \in Nat /\ clock' \in Nat /\ memory_cycle \in Nat /\ memory_cycle' \in Nat
    BY <2>1 DEF TypeOK, MC!TypeOK
  <2> QED BY <2>2, <2>3, <2>4, <2>5
<1>2. IInv /\ [Next]_vars => [Step]_vars
  BY <1>1
<1> QED BY <1>2, LoopInvariant, PTL DEF Spec, ClocksMonotone

(* A workload is over only after the iterations that were configured.      *)
THEOREM IterationsDoneHolds == Spec => []IterationsDone
<1>1. IInv => IterationsDone
  BY DEF IInv
<1> QED BY <1>1, LoopInvariant, PTL

(* Nothing is outstanding in the controller, and no packet is queued, for   *)
(* an NPU whose workload was declared over.                                *)
THEOREM FinishedDrainedHolds == Spec => []FinishedDrained
<1>1. ASSUME IInv PROVE FinishedDrained
  <2>1. TypeOK /\ SettledInv /\ PhaseInv /\ PacketInv
    BY <1>1 DEF IInv, LoopInv
  <2>2. ASSUME NEW n \in NPU, n \in finished \/ npu[n].is_saved
        PROVE  MC!Outstanding(n) = {}
               /\ \A k \in DOMAIN cycle_idx_map : cycle_idx_map[k].npu # n
    <3>1. npu[n].is_saved /\ MC!Outstanding(n) = {}
      BY <2>1, <2>2 DEF SettledInv, Settled
    <3>2. ~npu[n].open
      BY <2>1, <3>1, Fields DEF PhaseInv, PhaseOf
    <3>3. \A k \in DOMAIN cycle_idx_map : npu[cycle_idx_map[k].npu].open
      BY <2>1 DEF PacketInv, PacketOf
    <3> QED BY <3>1, <3>2, <3>3
  <2> QED BY <2>2 DEF FinishedDrained
<1> QED BY <1>1, LoopInvariant, PTL

(* mem_op never runs into the end of a file, no tile is computed before its *)
(* read was issued or written before it was computed.                      *)
THEOREM TileTrafficHolds == Spec => []TileTraffic
<1>1. ASSUME IInv PROVE TileTraffic
  <2>1. TypeOK /\ PhaseInv /\ TilesInv
    BY <1>1 DEF IInv, LoopInv
  <2>2. ASSUME NEW n \in NPU, npu[n].open
        PROVE  /\ npu[n].dwrite <= npu[n].tile /\ npu[n].tile <= npu[n].dread
               /\ npu[n].dread <= Tiles(n)
    <3>1. TilesOf(n) /\ Tiles(n) \in Nat \ {0}
      BY <2>1, <2>2, HasTiles, Fields DEF PhaseInv, PhaseOf, TilesInv
    <3>2. npu[n].dread \in Nat /\ npu[n].dwrite \in Nat /\ npu[n].tile \in Nat
      BY <2>1, Fields
    <3>3. CASE ~npu[n].is_begin
      BY <3>1, <3>2, <3>3 DEF TilesOf
    <3>4. CASE npu[n].is_begin
      <4> DEFINE r == One(Queued(n, Read))
                 w == One(Queued(n, Write))
                 f == One(npu[n].tile_full)
      <4>1. /\ npu[n].dread + r = IF npu[n].eof THEN Tiles(n) ELSE npu[n].tile + 1
            /\ npu[n].dwrite + w + f = npu[n].tile
            /\ npu[n].eof => npu[n].tile = Tiles(n) /\ r = 0
            /\ ~npu[n].eof => npu[n].tile < Tiles(n)
        BY <3>1, <3>4 DEF TilesOf, One
      <4>2. r \in {0, 1} /\ w \in {0, 1} /\ f \in {0, 1}
        BY DEF One
      <4> HIDE DEF r, w, f
      <4>3. CASE npu[n].eof
        BY <3>1, <3>2, <4>1, <4>2, <4>3
      <4>4. CASE ~npu[n].eof
        BY <3>1, <3>2, <4>1, <4>2, <4>4
      <4> QED BY <4>3, <4>4
    <3> QED BY <3>3, <3>4
  <2> QED BY <2>2 DEF TileTraffic
<1> QED BY <1>1, LoopInvariant, PTL

(* An NPU does not compute on while a packet of it that needs mem_sync is   *)
(* queued: the packet would be synchronised to a later cycle than its own.  *)
THEOREM NoComputeOverWritebackHolds == Spec => NoComputeOverWriteback
<1> DEFINE Step == \A n \in NPU : npu'[n].tile > npu[n].tile =>
                     \A k \in DOMAIN cycle_idx_map :
                       cycle_idx_map[k].npu = n => ~cycle_idx_map[k].sync
<1>1. ASSUME IInv, [Next]_vars PROVE Step
  <2>1. TypeOK /\ LoopInv /\ TypeOK'
    BY <1>1, LoopNext DEF IInv
  <2>2. \A n \in NPU : npu[n].tile \in Nat /\ npu'[n].tile \in Nat
    BY <2>1 DEF TypeOK, NPUState
  <2>3. CASE RunNPU
    <3>1. PICK n \in NPU : n = i /\ \A m \in NPU : m # n => npu'[m] = npu[m]
      BY <2>1, <2>3, TurnStep
    <3>2. \A k \in DOMAIN cycle_idx_map : cycle_idx_map[k].npu = n => ~cycle_idx_map[k].sync
      BY <2>1, <2>3, <3>1, TurnQueue
    <3> QED BY <2>2, <3>1, <3>2
  <2>4. CASE Issue
    BY <2>1, <2>2, <2>4, IssueStep
  <2>5. CASE ~RunNPU /\ ~Issue
    <3>1. \A n \in NPU : npu'[n].tile <= npu[n].tile
      BY <1>1, <2>1, <2>5, ForwardStep DEF Forward
    <3> QED BY <2>2, <3>1
  <2> QED BY <2>3, <2>4, <2>5
<1>2. IInv /\ [Next]_vars => [Step]_vars
  BY <1>1
<1> QED BY <1>2, LoopInvariant, PTL DEF Spec, NoComputeOverWriteback

(* When the files of a layer are closed, every tile of it has been read,    *)
(* computed and written exactly once.                                      *)
THEOREM LayerCompleteHolds == Spec => LayerComplete
<1> DEFINE Step == \A n \in NPU : npu[n].open /\ ~npu'[n].open =>
                     npu[n].dread = Tiles(n) /\ npu'[n].dwrite = Tiles(n) /\ npu[n].tile = Tiles(n)
<1>1. ASSUME IInv, [Next]_vars PROVE Step
  <2>1. TypeOK /\ LoopInv
    BY <1>1 DEF IInv
  <2>2. CASE RunNPU
    BY <2>1, <2>2, TurnStep
  <2>3. CASE Issue
    BY <2>1, <2>3, IssueStep
  <2>4. CASE ~RunNPU /\ ~Issue
    BY <1>1, <2>1, <2>4, ForwardStep DEF Forward
  <2> QED BY <2>2, <2>3, <2>4
<1>2. IInv /\ [Next]_vars => [Step]_vars
  BY <1>1
<1> QED BY <1>2, LoopInvariant, PTL DEF Spec, LayerComplete

(* The loop over the memory controller still sees the service of            *)
(* Completion: whatever was proved of the controller holds underneath it.  *)
THEOREM CompletionServed == Spec => MCR!CompletionSafe
<1>1. Spec => MC!Spec
  BY ControllerRefined DEF ControllerUsed
<1>2. MC!Spec => MCR!Spec
  <2>1. [MC!Next]_MC!vars => [MCR!Next]_MCR!vars
    BY SameController DEF MC!vars, MC!queues, MC!flags, MCR!vars, MCR!queues, MCR!flags
  <2>2. MC!Init => MCR!Init
    BY SameController
  <2> QED BY <2>1, <2>2, PTL DEF MC!Spec, MCR!Spec
<1>3. MCR!Spec => MCR!CompletionSafe
  BY ControllerConstants, MCR!CompletionRefined
<1> QED BY <1>1, <1>2, <1>3, PTL
=============================================================================

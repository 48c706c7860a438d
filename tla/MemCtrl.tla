------------------------------ MODULE MemCtrl ------------------------------
(***************************************************************************)
(* The shared memory controller (memctrl.cpp): NPUs hand it batches of     *)
(* memory requests, every request waits for its TLB access, then for the   *)
(* DRAM, and the controller tells the scheduler which NPU has been served. *)
(*                                                                         *)
(* DRAMsim3 is outside the repository.  Here it holds at most DramCap      *)
(* transactions, refuses one only when it is full, and calls back after    *)
(* one of the latencies DramLat.  The TLB (module TLBSet and PTW) is seen  *)
(* through the tick it returns: one of the latencies TlbLat.               *)
(*                                                                         *)
(* dramRequest is one step; atomic() is one step; a DRAM tick is a step    *)
(* per callback and a step that hands control back.                        *)
(***************************************************************************)
EXTENDS Integers, FiniteSets

CONSTANTS
  N,            \* number of NPUs (m_npu_num)
  Addr,         \* physical addresses of DRAM transactions
  AddrOf,       \* AddrOf[n]: those mapped for NPU n
  Tags,         \* tells apart requests that are alike in everything else
  DoubleBuffer, \* is_double_buffer
  TiledBW,      \* is_tiled_bw
  TlbLat,       \* latencies of a TLB access, in DRAM ticks
  DramLat,      \* latencies of a DRAM transaction, in DRAM ticks
  DramCap       \* transactions the DRAM holds before it refuses one

NPU == 0 .. N - 1
Buffers == 0 .. 2 * N - 1

ASSUME NAssumption == N \in Nat \ {0}
ASSUME AddrAssumption ==
  /\ AddrOf \in [NPU -> SUBSET Addr]
  \* Physical pages of different NPUs are disjoint (PhysMem, Isolated).
  /\ \A m, n \in NPU : m # n => AddrOf[m] \cap AddrOf[n] = {}
  /\ \A n \in NPU : IsFiniteSet(AddrOf[n])
ASSUME FlagAssumption == DoubleBuffer \in BOOLEAN /\ TiledBW \in BOOLEAN
ASSUME LatAssumption ==
  /\ TlbLat \subseteq Nat
  /\ DramLat \subseteq Nat \ {0}
  /\ DramCap \in Nat \ {0}

None == -1      \* ~0 in the code: no NPU owns the bandwidth, no request
KeepStalling == N  \* what popStallRequest returns when nobody is served yet

VARIABLES
  clock,     \* m_clock
  tlbq,      \* per NPU: NPUMemory::m_tlbqueue, [pkt, tick]
  pageq,     \* m_pagequeue, [pkt, tick]
  reqs,      \* m_reqs: per buffer, requests whose callback is outstanding
  dram,      \* transactions inside DRAMsim3, [pkt, due]
  spm0_req,  \* NPUMemory::m_spm0_req, requests between dramRequest and callback
  popped,    \* NPUMemory::m_popped
  no_req,    \* NPUMemory::m_no_req
  is_begin,  \* NPUMemory::m_is_begin
  cur,       \* m_cur_buffer_idx
  finished,  \* m_finished_set
  pc,        \* "idle": in the caller; "stall": between the two atomic() of
             \* popStallRequest; "dram": inside DRAMsim3's ClockTick
  caller,    \* who asked for the tick: "stall", "sync" or "keep"
  endidx,    \* popStallRequest's endidx, KeepStalling when it found none
  ret,       \* what the last call returned
  reported   \* history: per NPU, flips when popStallRequest returns the NPU

queues == <<tlbq, pageq, reqs, dram>>
flags == <<popped, no_req, is_begin, finished>>
vars == <<clock, queues, spm0_req, flags, cur, pc, caller, endidx, ret, reported>>

Packet == [npu : NPU, wr : BOOLEAN, addr : Addr, tag : Tags]

Least(S) == CHOOSE i \in S : \A j \in S : i <= j

Pkts(Q) == {e.pkt : e \in Q}

-----------------------------------------------------------------------------
\* Operators named X_Fault are X with one plausible mistake in it: replacing X
\* by one of them must break a property.
CalcSPMidx_Interleaved(n, wr) == IF wr = DoubleBuffer THEN 2 * n + 1 ELSE 2 * n

CalcSPMidx(n, wr) == IF wr = DoubleBuffer THEN n + N ELSE n

Waiting == UNION {Pkts(tlbq[n]) : n \in NPU}
AllReqs == UNION {reqs[b] : b \in Buffers}
InFlight == Pkts(pageq) \cup Pkts(dram)
Outstanding(n) == Pkts(tlbq[n]) \cup reqs[n] \cup reqs[n + N]

\* The requests of a batch: page and dram_unit splitting have been done, S is
\* the set of transaction addresses that is left.
Batch(n, wr, S, t) == {[npu |-> n, wr |-> wr, addr |-> a, tag |-> t] : a \in S}

\* No request that is still alive would be confused with one of the batch.
Fresh(B) == B \cap (Waiting \cup AllReqs \cup InFlight) = {}

DramRequest(n, wr, S, t) ==
  LET new == Batch(n, wr, S, t)
  IN  /\ Fresh(new)
      /\ tlbq' = [tlbq EXCEPT ![n] = @ \cup {[pkt |-> p, tick |-> clock] : p \in new}]
      /\ spm0_req' = [spm0_req EXCEPT ![n] = @ + Cardinality(new)]
      /\ UNCHANGED <<clock, pageq, reqs, dram, flags, cur, pc, caller, endidx, ret, reported>>

-----------------------------------------------------------------------------
Arriving == UNION {tlbq[n] : n \in NPU}

\* The NPUs that may own the bandwidth once atomic() has looked: the owner of
\* the head of the page queue when nobody did (equal ticks leave it open).
AtomicCurs ==
  IF cur = None /\ pageq # {}
    THEN {p.pkt.npu : p \in {q \in pageq : \A r \in pageq : q.tick <= r.tick}}
    ELSE {cur}

Eligible(Q, c) == {p \in Q : p.tick <= clock /\ (TiledBW => p.pkt.npu = c)}

\* The DRAM takes as many of the eligible packets as it has room for; which
\* ones depends on its channel queues.
Accepts(E, I) ==
  /\ I \subseteq E
  /\ IF I = E THEN Cardinality(dram) + Cardinality(I) <= DramCap \/ I = {}
              ELSE Cardinality(dram) + Cardinality(I) = DramCap

\* atomic(): merge the TLB queues, access the TLB for all of them, then offer
\* every packet whose tick has come to the DRAM.  c owns the bandwidth.
Atomic(c) ==
  /\ c \in AtomicCurs
  /\ tlbq' = [n \in NPU |-> {}]
  /\ reqs' = [b \in Buffers |-> reqs[b] \cup
                {p \in Pkts(Arriving) : CalcSPMidx(p.npu, p.wr) = b}]
  /\ \E lat \in [Arriving -> TlbLat] :
       LET Q == pageq \cup {[pkt |-> p.pkt, tick |-> clock + lat[p]] : p \in Arriving}
       IN  \E I \in SUBSET Eligible(Q, c) :
             /\ Accepts(Eligible(Q, c), I)
             /\ pageq' = Q \ I
             /\ \E l \in [I -> DramLat] :
                  dram' = dram \cup {[pkt |-> p.pkt, due |-> clock + l[p]] : p \in I}
             /\ is_begin' = [n \in NPU |-> is_begin[n] \/ \E p \in I : p.pkt.npu = n]
  /\ UNCHANGED <<spm0_req, finished>>

\* What atomic() leaves in m_popped and m_no_req.
AtomicPopped == [n \in NPU |-> popped[n] /\ tlbq[n] = {}]
AtomicNoReq == [n \in NPU |-> no_req[n] /\ tlbq[n] = {}]

-----------------------------------------------------------------------------
CheckSPMRequest(b) == reqs[b] = {}

CheckNPURequest(n) ==
  /\ n \notin finished
  /\ is_begin[n]
  /\ CheckSPMRequest(n) /\ CheckSPMRequest(n + N)
  /\ tlbq[n] = {}

ReleasedCur_OneBuffer(c, Called) ==
  IF c \in Called \ finished /\ is_begin[c] /\ CheckSPMRequest(c) THEN None ELSE c

\* checkNPURequest's side effect, after it was called for the NPUs of Called
\* while c owned the bandwidth.
ReleasedCur(c, Called) ==
  IF /\ c \in Called \ finished
     /\ is_begin[c]
     /\ CheckSPMRequest(c) /\ CheckSPMRequest(c + N)
     /\ spm0_req[c] = 0
  THEN None ELSE c

\* NPUs whose batch is done and not reported yet.
Served(noreq) == {n \in NPU : CheckNPURequest(n) /\ ~noreq[n]}
LeastOrNone(S) == IF S = {} THEN KeepStalling ELSE Least(S)

\* popStallRequest returns r.
PopStallReturns(r) ==
  /\ ret' = r
  /\ reported' = [n \in NPU |-> (n = r) # reported[n]]

\* popStallRequest up to its atomicTick(); c is as in Atomic.
PopStallIdle(c) ==   \* "No request!"
  /\ \A n \in NPU : AtomicNoReq[n]
  /\ no_req' = AtomicNoReq /\ popped' = AtomicPopped
  /\ cur' = c /\ PopStallReturns(None)
  /\ UNCHANGED <<pc, endidx>>

PopStallLeftover_Sticky(c) ==
  LET left == {n \in NPU : AtomicPopped[n]}
  IN  /\ \E n \in NPU : ~AtomicNoReq[n]
      /\ left # {}
      /\ no_req' = [AtomicNoReq EXCEPT ![Least(left)] = TRUE]
      /\ popped' = AtomicPopped
      /\ cur' = c /\ PopStallReturns(Least(left))
      /\ UNCHANGED <<pc, endidx>>

PopStallLeftover(c) ==   \* "Stalled Returner!"
  LET left == {n \in NPU : AtomicPopped[n]}
  IN  /\ \E n \in NPU : ~AtomicNoReq[n]
      /\ left # {}
      /\ no_req' = [AtomicNoReq EXCEPT ![Least(left)] = TRUE]
      /\ popped' = [AtomicPopped EXCEPT ![Least(left)] = FALSE]
      /\ cur' = c /\ PopStallReturns(Least(left))
      /\ UNCHANGED <<pc, endidx>>

PopStallSearch(c) ==
  /\ \E n \in NPU : ~AtomicNoReq[n]
  /\ \A n \in NPU : ~AtomicPopped[n]
  /\ no_req' = AtomicNoReq /\ popped' = AtomicPopped
  /\ endidx' = LeastOrNone(Served(no_req)')
  /\ cur' = ReleasedCur(c, 0 .. endidx)'
  /\ pc' = "stall"
  /\ UNCHANGED <<ret, reported>>

PopStall ==
  /\ pc = "idle"
  /\ \E c \in AtomicCurs :
       /\ Atomic(c)
       /\ PopStallIdle(c) \/ PopStallLeftover(c) \/ PopStallSearch(c)
  /\ UNCHANGED <<clock, caller>>

-----------------------------------------------------------------------------
AtomicTick_NoAtomic(who) ==
  /\ clock' = clock + 1
  /\ pc' = "dram" /\ caller' = who
  /\ UNCHANGED <<queues, spm0_req, flags, cur, endidx, ret, reported>>

\* atomicTick(), up to the DRAM's callbacks.
AtomicTick(who) ==
  /\ \E c \in AtomicCurs : Atomic(c) /\ cur' = c
  /\ no_req' = AtomicNoReq /\ popped' = AtomicPopped
  /\ clock' = clock + 1
  /\ pc' = "dram" /\ caller' = who
  /\ UNCHANGED <<endidx, ret, reported>>

StallTick == pc = "stall" /\ AtomicTick("stall")
SyncTick == pc = "idle" /\ AtomicTick("sync")  \* mem_sync, tlbFlush, syncTick
KeepTick == pc = "idle" /\ AtomicTick("keep")  \* mem_stall with a waiting NPU

\* Buffers that hold a request for address a, searched in index order.
Holders(a) == {b \in Buffers : \E q \in reqs[b] : q.addr = a}

CallbackFound_PairedBuffers(d) ==
  LET b == Least(Holders(d.pkt.addr))
  IN  /\ Holders(d.pkt.addr) # {}
      /\ \E q \in reqs[b] :
           q.addr = d.pkt.addr /\ reqs' = [reqs EXCEPT ![b] = @ \ {q}]
      /\ spm0_req' = [spm0_req EXCEPT ![b \div 2] = @ - 1]

\* callback(): the first match is erased and its NPU credited; the code
\* credits NPU 0 when there is none (i runs to 2N).
CallbackFound(d) ==
  LET b == Least(Holders(d.pkt.addr))
  IN  /\ Holders(d.pkt.addr) # {}
      /\ \E q \in reqs[b] :
           /\ q.addr = d.pkt.addr
           /\ reqs' = [reqs EXCEPT ![b] = @ \ {q}]
      /\ spm0_req' = [spm0_req EXCEPT ![b % N] = @ - 1]

CallbackLost(d) ==
  /\ Holders(d.pkt.addr) = {}
  /\ spm0_req' = [spm0_req EXCEPT ![0] = @ - 1]
  /\ UNCHANGED reqs

Callback(d) ==
  /\ pc = "dram" /\ d.due = clock
  /\ dram' = dram \ {d}
  /\ CallbackFound(d) \/ CallbackLost(d)
  /\ UNCHANGED <<clock, tlbq, pageq, flags, cur, pc, caller, endidx, ret, reported>>

TickDone(who) ==
  /\ pc = "dram" /\ caller = who
  /\ \A d \in dram : d.due > clock
  /\ pc' = "idle"
  /\ UNCHANGED <<clock, queues, spm0_req, is_begin, finished, caller>>

\* The end of popStallRequest.
StallReturn ==
  /\ TickDone("stall")
  /\ PopStallReturns(endidx)
  /\ endidx' = KeepStalling
  /\ IF endidx = KeepStalling
       THEN UNCHANGED <<popped, no_req, cur>>
       ELSE /\ popped' = [n \in NPU |->
                            n # endidx /\ (popped[n] \/ n \in Served(no_req))]
            /\ no_req' = [no_req EXCEPT ![endidx] = TRUE]
            /\ cur' = ReleasedCur(cur, NPU)

SyncReturn == TickDone("sync") /\ UNCHANGED <<popped, no_req, cur, endidx, ret, reported>>

\* mem_stall's "sudden termination" poll: neither m_no_req nor m_popped moves.
KeepReturn ==
  /\ TickDone("keep")
  /\ ret' = LeastOrNone({n \in NPU : CheckNPURequest(n)})
  /\ cur' = ReleasedCur(cur, 0 .. ret')
  /\ UNCHANGED <<popped, no_req, endidx, reported>>

-----------------------------------------------------------------------------
\* markFinished: the scheduler will submit nothing more for n.
Finish(n) ==
  /\ finished' = finished \cup {n}
  /\ UNCHANGED <<clock, queues, spm0_req, popped, no_req, is_begin, cur,
                 pc, caller, endidx, ret, reported>>

\* The callers, as far as the controller is concerned (npu_group.cpp): any
\* batch at any time, ticks at any time, an NPU marked finished once served,
\* whether popStallRequest has reported it or mem_stall's poll.
Submit(n) ==
  /\ pc = "idle" /\ n \notin finished
  /\ \E wr \in BOOLEAN, S \in (SUBSET AddrOf[n]) \ {{}}, t \in Tags : DramRequest(n, wr, S, t)

MarkFinished(n) ==
  /\ pc = "idle" /\ n \notin finished /\ spm0_req[n] = 0 /\ cur # n
  /\ Finish(n)

Init ==
  /\ clock = 0
  /\ tlbq = [n \in NPU |-> {}]
  /\ pageq = {} /\ dram = {}
  /\ reqs = [b \in Buffers |-> {}]
  /\ spm0_req = [n \in NPU |-> 0]
  /\ popped = [n \in NPU |-> FALSE]
  /\ no_req = [n \in NPU |-> TRUE]
  /\ is_begin = [n \in NPU |-> FALSE]
  /\ cur = None /\ finished = {}
  /\ pc = "idle" /\ caller = "sync"
  /\ endidx = KeepStalling /\ ret = KeepStalling
  /\ reported = [n \in NPU |-> FALSE]

\* Steps of the controller once it was called.
Inside ==
  \/ StallTick \/ StallReturn \/ SyncReturn \/ KeepReturn
  \/ \E d \in dram : Callback(d)

Next ==
  \/ Inside \/ PopStall \/ SyncTick \/ KeepTick
  \/ \E n \in NPU : Submit(n) \/ MarkFinished(n)

Spec == Init /\ [][Next]_vars

\* The scheduler keeps calling popStallRequest, and calls return.
Fairness == WF_vars(Inside) /\ WF_vars(PopStall)
FairSpec == Spec /\ Fairness

-----------------------------------------------------------------------------
Entry == [pkt : Packet, tick : Nat]

TypeOK ==
  /\ clock \in Nat
  /\ tlbq \in [NPU -> SUBSET Entry]
  /\ pageq \in SUBSET Entry
  /\ reqs \in [Buffers -> SUBSET Packet]
  /\ dram \in SUBSET [pkt : Packet, due : Nat]
  /\ spm0_req \in [NPU -> Int]
  /\ popped \in [NPU -> BOOLEAN]
  /\ no_req \in [NPU -> BOOLEAN]
  /\ is_begin \in [NPU -> BOOLEAN]
  /\ finished \in SUBSET NPU
  /\ cur \in NPU \cup {None}
  /\ pc \in {"idle", "stall", "dram"}
  /\ caller \in {"stall", "sync", "keep"}
  /\ endidx \in NPU \cup {KeepStalling}
  /\ ret \in NPU \cup {KeepStalling, None}
  /\ reported \in [NPU -> BOOLEAN]

\* m_spm0_req counts exactly the requests of the NPU that still wait for the
\* TLB, the DRAM or the callback.  increaseReq and decreaseReq are far apart
\* and the callback derives the NPU from the buffer it found the address in.
ReqAccounting == \A n \in NPU : spm0_req[n] = Cardinality(Outstanding(n))

\* Per address, the request lists and the packets on their way to or inside
\* the DRAM agree, although the callback only knows an address.
At(S, a) == {q \in S : q.addr = a}
CallbackMatched ==
  \A a \in Addr : Cardinality(At(AllReqs, a)) = Cardinality(At(InFlight, a))

\* callback() never falls off the end of its search, where it would take a
\* request from NPU 0's count that NPU 0 never made, and the buffer it stops at
\* belongs to the NPU that sent the transaction.
CallbackCreditsOwner ==
  \A d \in dram :
    Holders(d.pkt.addr) # {} /\ Least(Holders(d.pkt.addr)) % N = d.pkt.npu

\* Why these two hold: where a packet is tells which one it is.
Placed ==
  /\ \A n \in NPU : \A p \in Pkts(tlbq[n]) : p.npu = n
  /\ \A b \in Buffers : \A q \in reqs[b] : CalcSPMidx(q.npu, q.wr) = b
  /\ \A q \in Waiting \cup AllReqs \cup InFlight : q.addr \in AddrOf[q.npu]

Distinct ==
  /\ Waiting \cap (AllReqs \cup InFlight) = {}
  /\ Pkts(pageq) \cap Pkts(dram) = {}
  /\ \A n \in NPU : \A p, q \in tlbq[n] : p.pkt = q.pkt => p = q
  /\ \A p, q \in pageq : p.pkt = q.pkt => p = q
  /\ \A p, q \in dram : p.pkt = q.pkt => p = q

FiniteQueues == IsFiniteSet(Waiting) /\ IsFiniteSet(AllReqs) /\ IsFiniteSet(InFlight)

Core == Placed /\ Distinct /\ FiniteQueues /\ ReqAccounting /\ CallbackMatched

\* assert(iter->first == m_clock) in atomic(): a request never waits in a TLB
\* queue across a tick.
TlbQueueCurrent == \A n \in NPU : \A p \in tlbq[n] : p.tick = clock

\* Tile-level bandwidth interleaving: the DRAM never holds transactions of two
\* NPUs, whoever submits, polls or ticks in between.
TiledExclusive == TiledBW => \A d, e \in dram : d.pkt.npu = e.pkt.npu

\* popStallRequest is what the scheduler relies on, see CompletionService: every
\* return of an NPU is the report of one submission, none of whose requests is
\* left; none is reported twice, or with nothing submitted.  m_no_req and the TLB
\* queue say between them whether a report is still owed.
CS == INSTANCE CompletionService WITH
        outstanding <- spm0_req,
        owed <- [n \in NPU |-> ~no_req[n] \/ tlbq[n] # {}],
        dismissed <- finished
CompletionSafe == CS!Spec
CompletionLive == CS!Live
=============================================================================

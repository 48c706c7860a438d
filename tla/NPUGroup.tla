------------------------------ MODULE NPUGroup ------------------------------
(***************************************************************************)
(* The scheduling loop npu_group::run (npu_group.cpp) with the NPU side    *)
(* npu_accelerator::run (npu_accelerator.cpp), on top of the memory        *)
(* controller MemCtrl.                                                     *)
(*                                                                         *)
(* An NPU executes layers; a layer is a number of tiles.  Tile k needs its *)
(* read batch, computes for ComputeTime[n] cycles and writes its results.  *)
(* The intermediate files are reduced to how far they have been read.      *)
(*                                                                         *)
(* stage is where the loop stands:                                         *)
(*   "setup"  begin layers          "stall"  mem_stall                     *)
(*   "keepwait", "stallwait"        the controller runs for mem_stall      *)
(*   "ret"    an NPU was returned   "retire" ... for a closed layer        *)
(*   "run"    NPU i's turn          "pop"    issue queued packets          *)
(*   "sync"   mem_sync, then cont   "done"   every NPU has terminated      *)
(***************************************************************************)
EXTENDS Integers, FiniteSets, SequencesExt

CONSTANTS N, Addr, AddrOf, Tags, DoubleBuffer, TiledBW, TlbLat, DramLat, DramCap

CONSTANTS
  Layers,       \* Layers[n][l]: number of tiles of NPU n's layer l
  ComputeTime,  \* ComputeTime[n]: what calcCycle adds to compute_cycle
  Starts,       \* the [start cycle] of misc_config, per NPU and in NPU cycles,
                \* a set of functions: the ones to look at
  Iteration,    \* Iteration[n]: [iteration] of misc_config
  NPUClock,     \* NPUClock[n]: npu_clockspeed
  DRAMClock     \* dram_clockspeed

VARIABLES clock, tlbq, pageq, reqs, dram, spm0_req, popped, no_req, is_begin,
          cur, finished, pc, caller, endidx, ret, reported

VARIABLES
  npu,           \* npu_accelerator and the arrays of npu_group::run, per NPU
  memory_cycle,  \* npu_group::memory_cycle
  keep_queue,    \* NPUs waiting for their start cycle
  cycle_idx_map, \* packets [key, npu, op, sync, eof], sorted by key
  idx,           \* run's idx
  stage, i, cont \* where the loop stands

MC == INSTANCE MemCtrl

NPU == 0 .. N - 1

\* What MemCtrl assumes of its constants, and an NPU that moves data at all.
ASSUME ControllerAssumption ==
  /\ N \in Nat \ {0}
  /\ AddrOf \in [NPU -> SUBSET Addr]
  /\ \A n \in NPU : AddrOf[n] # {} /\ IsFiniteSet(AddrOf[n])
  /\ \A m, n \in NPU : m # n => AddrOf[m] \cap AddrOf[n] = {}
  /\ DoubleBuffer \in BOOLEAN /\ TiledBW \in BOOLEAN
  /\ TlbLat \subseteq Nat /\ DramLat \subseteq Nat \ {0} /\ DramCap \in Nat \ {0}

ASSUME WorkloadAssumption ==
  /\ Layers \in [NPU -> Seq(Nat \ {0})] /\ \A n \in NPU : Layers[n] # << >>
  /\ ComputeTime \in [NPU -> Nat \ {0}]
  /\ Starts \subseteq [NPU -> Nat]
  /\ Iteration \in [NPU -> Int \ {0}]
  /\ NPUClock \in [NPU -> Nat \ {0}] /\ DRAMClock \in Nat \ {0}

mcvars == <<clock, tlbq, pageq, reqs, dram, spm0_req, popped, no_req, is_begin,
            cur, finished, pc, caller, endidx, ret, reported>>
loopvars == <<memory_cycle, keep_queue, cycle_idx_map, idx, stage, i, cont>>
vars == <<mcvars, npu, loopvars>>

Read == 0   \* op_type
Write == 1

-----------------------------------------------------------------------------
\* X_Fault: X with one plausible mistake, which must break a property.
CeilDiv_Floor(a, b) == a \div b
CeilDiv(a, b) == (a + b - 1) \div b
Larger(a, b) == IF a >= b THEN a ELSE b

Npu2Dram(n, c) == CeilDiv(c * DRAMClock, NPUClock[n])
Dram2Npu(n, c) == CeilDiv(c * NPUClock[n], DRAMClock)
GetTick(n) == Dram2Npu(n, clock)

Tiles(n) == Layers[n][npu[n].layer + 1]
ComputeKey(n) == Npu2Dram(n, npu[n].compute_cycle)

\* dramRequest as mem_op calls it; the tag is the model's.
FreshTags(n, op) ==
  {t \in Tags : MC!Fresh(MC!Batch(n, op = Write, AddrOf[n], t))}
Request(n, op) ==
  /\ FreshTags(n, op) # {}
  /\ MC!DramRequest(n, op = Write, AddrOf[n], CHOOSE t \in FreshTags(n, op) : TRUE)

\* mem_op: take the next line of the read or write file, send the requests.
AfterMemOp(s, op) ==
  IF op = Read THEN [s EXCEPT !.dread = @ + 1] ELSE [s EXCEPT !.dwrite = @ + 1]

\* mem_sync(n), then continue at next; the ticks are SyncTick's.
Synced(n) == Larger(npu[n].compute_cycle, GetTick(n))
MemSync(n, next) ==
  /\ memory_cycle' = Npu2Dram(n, Synced(n))
  /\ stage' = "sync" /\ cont' = next

SyncTick ==
  /\ stage = "sync" /\ clock < memory_cycle
  /\ MC!SyncTick
  /\ UNCHANGED <<npu, loopvars>>

SyncDone ==
  /\ stage = "sync" /\ pc = "idle" /\ clock >= memory_cycle
  /\ stage' = cont
  /\ UNCHANGED <<mcvars, npu, memory_cycle, keep_queue, cycle_idx_map, idx, i, cont>>

-----------------------------------------------------------------------------
\* Begin of a layer.
ToSetup_Ended == {n \in NPU : npu[n].is_first /\ ~npu[n].is_setup}
ToSetup == {n \in NPU : npu[n].is_first /\ ~npu[n].is_setup /\ ~npu[n].is_terminated}

Opened(s) ==
  [s EXCEPT !.open = TRUE, !.eof = FALSE, !.tile = 0, !.dread = 0, !.dwrite = 0,
            !.is_setup = TRUE, !.is_returned = FALSE]

SetupNow(n) ==
  /\ memory_cycle >= ComputeKey(n)
  /\ npu' = [npu EXCEPT ![n] = AfterMemOp([Opened(@) EXCEPT !.is_begin = TRUE], Read)]
  /\ Request(n, Read)
  /\ UNCHANGED keep_queue

SetupLater(n) ==
  /\ memory_cycle < ComputeKey(n)
  /\ npu' = [npu EXCEPT ![n] = Opened(@)]
  /\ keep_queue' = Append(keep_queue, n)
  /\ UNCHANGED mcvars

SetupLayer ==
  /\ stage = "setup" /\ ToSetup # {}
  /\ SetupNow(MC!Least(ToSetup)) \/ SetupLater(MC!Least(ToSetup))
  /\ UNCHANGED <<memory_cycle, cycle_idx_map, idx, stage, i, cont>>

SetupDone ==
  /\ stage = "setup" /\ ToSetup = {}
  /\ stage' = "stall"
  /\ UNCHANGED <<mcvars, npu, memory_cycle, keep_queue, cycle_idx_map, idx, i, cont>>

-----------------------------------------------------------------------------
\* mem_stall: serve keep_queue from its front, then call popStallRequest.
KeepWait ==
  /\ stage = "stall" /\ keep_queue # << >>
  /\ GetTick(Head(keep_queue)) < npu[Head(keep_queue)].compute_cycle
  /\ MC!KeepTick
  /\ stage' = "keepwait"
  /\ UNCHANGED <<npu, memory_cycle, keep_queue, cycle_idx_map, idx, i, cont>>

KeepPoll ==   \* "sudden termination"
  /\ stage = "keepwait" /\ pc = "idle"
  /\ IF ret = N
       THEN stage' = "stall" /\ UNCHANGED <<memory_cycle, idx>>
       ELSE stage' = "ret" /\ memory_cycle' = clock /\ idx' = ret
  /\ UNCHANGED <<mcvars, npu, keep_queue, cycle_idx_map, i, cont>>

KeepStart ==
  /\ stage = "stall" /\ keep_queue # << >>
  /\ LET n == Head(keep_queue)
     IN  /\ GetTick(n) >= npu[n].compute_cycle
         /\ npu' = [npu EXCEPT ![n] = AfterMemOp([@ EXCEPT !.is_begin = TRUE], Read)]
         /\ Request(n, Read)
  /\ keep_queue' = Tail(keep_queue)
  /\ UNCHANGED <<memory_cycle, cycle_idx_map, idx, stage, i, cont>>

CallStall ==
  /\ stage = "stall" /\ keep_queue = << >>
  /\ MC!PopStall
  /\ stage' = "stallwait"
  /\ UNCHANGED <<npu, memory_cycle, keep_queue, cycle_idx_map, idx, i, cont>>

StallResult_StaleCycle ==
  /\ stage = "stallwait" /\ pc = "idle"
  /\ idx' = ret
  /\ stage' = "ret"
  /\ UNCHANGED <<mcvars, npu, memory_cycle, keep_queue, cycle_idx_map, i, cont>>

StallResult ==
  /\ stage = "stallwait" /\ pc = "idle"
  /\ idx' = ret /\ memory_cycle' = clock
  /\ stage' = "ret"
  /\ UNCHANGED <<mcvars, npu, keep_queue, cycle_idx_map, i, cont>>

-----------------------------------------------------------------------------
\* "Last stalled request for previous tile arrived"
LayerReturned == idx \in NPU /\ ~npu[idx].open /\ npu[idx].is_setup

ReturnLayer ==
  /\ stage = "ret" /\ LayerReturned
  /\ npu' = [npu EXCEPT ![idx].compute_cycle = Synced(idx)]
  /\ MemSync(idx, "retire")
  /\ UNCHANGED <<mcvars, keep_queue, cycle_idx_map, idx, i>>

ReturnOther ==
  /\ stage = "ret" /\ ~LayerReturned
  /\ stage' = "run" /\ i' = 0
  /\ UNCHANGED <<mcvars, npu, memory_cycle, keep_queue, cycle_idx_map, idx, cont>>

MinFinishIter == MC!Least({npu[n].iter_cnt : n \in NPU})

LastIteration_OwnCount(n) ==
  \/ Iteration[n] = npu[n].iter_cnt
  \/ Iteration[n] < 0 /\ npu[n].iter_cnt >= -Iteration[n]
LastIteration(n) ==
  \/ Iteration[n] = npu[n].iter_cnt
  \/ Iteration[n] < 0 /\ MinFinishIter >= -Iteration[n]

RetireLayer ==
  /\ ~npu[idx].is_terminated \/ npu[idx].is_saved
  /\ npu' = [npu EXCEPT ![idx].is_setup = FALSE]
  /\ stage' = "run" /\ i' = 0
  /\ UNCHANGED <<mcvars, memory_cycle, cont>>

RetireWorkload ==
  /\ npu[idx].is_terminated /\ ~npu[idx].is_saved /\ LastIteration(idx)
  /\ npu' = [npu EXCEPT ![idx].is_saved = TRUE, ![idx].is_setup = FALSE]
  /\ MC!Finish(idx)
  /\ stage' = "run" /\ i' = 0
  /\ UNCHANGED <<memory_cycle, cont>>

\* Re-execution.  tlbFlush needs no ticks: the walks of a drained NPU are over.
RetireIteration ==
  /\ npu[idx].is_terminated /\ ~npu[idx].is_saved /\ ~LastIteration(idx)
  /\ npu' = [npu EXCEPT ![idx] =
               [@ EXCEPT !.layer = 0, !.is_first = TRUE, !.tile_full = FALSE,
                         !.is_setup = FALSE, !.is_returned = FALSE,
                         !.is_terminated = FALSE, !.compute_cycle = Synced(idx)]]
  /\ MemSync(idx, "run") /\ i' = 0
  /\ UNCHANGED mcvars

Retire ==
  /\ stage = "retire"
  /\ RetireLayer \/ RetireWorkload \/ RetireIteration
  /\ UNCHANGED <<keep_queue, cycle_idx_map, idx>>

-----------------------------------------------------------------------------
\* npu_accelerator::run: the new state of NPU n and the packet it hands out.
Computed(s, n) == [s EXCEPT !.compute_cycle = @ + ComputeTime[n], !.tile = @ + 1,
                            !.is_first = FALSE]

RunWrite_StillFull(n) ==
  [state |-> [npu[n] EXCEPT !.is_first = FALSE], op |-> Write, sync |-> TRUE, eof |-> FALSE]
RunTile_NoBarrier(n) ==
  [state |-> [Computed(npu[n], n) EXCEPT !.tile_full = TRUE],
   op |-> Read, sync |-> FALSE, eof |-> FALSE]
RunWrite(n) ==   \* the tile before the one that comes next is full
  [state |-> [npu[n] EXCEPT !.tile_full = FALSE, !.is_first = FALSE],
   op |-> Write, sync |-> TRUE, eof |-> FALSE]
RunTile(n) ==    \* compute a tile, ask for the next one
  [state |-> [Computed(npu[n], n) EXCEPT !.tile_full = TRUE, !.is_returned = FALSE],
   op |-> Read, sync |-> FALSE, eof |-> FALSE]
RunLast(n) ==    \* compute the last tile of the layer
  [state |-> [Computed(npu[n], n) EXCEPT !.eof = TRUE],
   op |-> Write, sync |-> TRUE, eof |-> TRUE]

RunResult_OneShort(n) ==
  IF npu[n].tile_full THEN RunWrite(n)
  ELSE IF npu[n].tile + 2 < Tiles(n) THEN RunTile(n) ELSE RunLast(n)
RunResult(n) ==
  IF npu[n].tile_full THEN RunWrite(n)
  ELSE IF npu[n].tile + 1 < Tiles(n) THEN RunTile(n) ELSE RunLast(n)

\* multimap::insert: behind the packets with the same key.
InsertPacket(p) ==
  LET behind == {k \in DOMAIN cycle_idx_map : cycle_idx_map[k].key > p.key}
      at == IF behind = {} THEN Len(cycle_idx_map) + 1 ELSE MC!Least(behind)
  IN  InsertAt(cycle_idx_map, at, p)

RunSkip ==   \* not begun, waiting for memory, or its file is at the end
  /\ stage = "run" /\ i < N
  /\ \/ npu[i].is_terminated \/ ~npu[i].is_begin
     \/ idx # i /\ ~npu[i].is_returned
     \/ npu[i].is_returned /\ npu[i].eof
  /\ i' = i + 1
  /\ UNCHANGED <<mcvars, npu, memory_cycle, keep_queue, cycle_idx_map, idx, stage, cont>>

RunReturned ==
  /\ stage = "run" /\ i < N
  /\ ~npu[i].is_terminated /\ npu[i].is_begin
  /\ idx = i /\ ~npu[i].is_returned
  /\ npu' = [npu EXCEPT ![i].is_returned = TRUE, ![i].compute_cycle = Synced(i)]
  /\ MemSync(i, "run")
  /\ UNCHANGED <<mcvars, keep_queue, cycle_idx_map, idx, i>>

RunNPU ==
  /\ stage = "run" /\ i < N
  /\ ~npu[i].is_terminated /\ npu[i].is_begin
  /\ npu[i].is_returned /\ ~npu[i].eof
  /\ LET r == RunResult(i)
     IN  /\ npu' = [npu EXCEPT ![i] = r.state]
         /\ cycle_idx_map' = InsertPacket(
              [key |-> Npu2Dram(i, r.state.compute_cycle), npu |-> i,
               op |-> r.op, sync |-> r.sync, eof |-> r.eof])
  /\ i' = i + 1
  /\ UNCHANGED <<mcvars, memory_cycle, keep_queue, idx, stage, cont>>

RunDone ==
  /\ stage = "run" /\ i = N
  /\ stage' = "pop"
  /\ UNCHANGED <<mcvars, npu, memory_cycle, keep_queue, cycle_idx_map, idx, i, cont>>

-----------------------------------------------------------------------------
\* Issue the packets whose time has come; with idx = ~0 the first one always.
Due_OnlyDue == cycle_idx_map # << >> /\ Head(cycle_idx_map).key <= memory_cycle
Due == cycle_idx_map # << >> /\ (idx = MC!None \/ Head(cycle_idx_map).key <= memory_cycle)

PopSync ==
  /\ stage = "pop" /\ Due /\ Head(cycle_idx_map).sync
  /\ LET n == Head(cycle_idx_map).npu
     IN  /\ npu' = [npu EXCEPT ![n].compute_cycle = Synced(n)]
         /\ idx' = n
         /\ MemSync(n, "issue")
  /\ UNCHANGED <<mcvars, keep_queue, cycle_idx_map, i>>

PopNoSync ==
  /\ stage = "pop" /\ Due /\ ~Head(cycle_idx_map).sync
  /\ idx' = Head(cycle_idx_map).npu
  /\ stage' = "issue"
  /\ UNCHANGED <<mcvars, npu, memory_cycle, keep_queue, cycle_idx_map, i, cont>>

\* "Force last writeback": the files are closed, the layer is over.
Closed_Saved(s, n) ==
  IF s.layer + 1 = Len(Layers[n])
    THEN [s EXCEPT !.open = FALSE, !.layer = @ + 1, !.is_first = TRUE,
                   !.iter_cnt = @ + 1, !.is_terminated = TRUE, !.is_saved = TRUE]
    ELSE [s EXCEPT !.open = FALSE, !.layer = @ + 1, !.is_first = TRUE]
Closed(s, n) ==
  IF s.layer + 1 = Len(Layers[n])
    THEN [s EXCEPT !.open = FALSE, !.layer = @ + 1, !.is_first = TRUE,
                   !.iter_cnt = @ + 1, !.is_terminated = TRUE]
    ELSE [s EXCEPT !.open = FALSE, !.layer = @ + 1, !.is_first = TRUE]

Issue ==
  /\ stage = "issue"
  /\ LET p == Head(cycle_idx_map)
         s == AfterMemOp(npu[p.npu], p.op)
     IN  /\ Request(p.npu, p.op)
         /\ npu' = [npu EXCEPT ![p.npu] = IF p.eof THEN Closed(s, p.npu) ELSE s]
  /\ cycle_idx_map' = Tail(cycle_idx_map)
  /\ stage' = "pop"
  /\ UNCHANGED <<memory_cycle, keep_queue, idx, i, cont>>

PopDone ==
  /\ stage = "pop" /\ ~Due
  /\ stage' = IF \A n \in NPU : npu[n].is_saved THEN "done" ELSE "setup"
  /\ i' = 0
  /\ UNCHANGED <<mcvars, npu, memory_cycle, keep_queue, cycle_idx_map, idx, cont>>

Terminated ==
  /\ stage = "done" /\ UNCHANGED vars

-----------------------------------------------------------------------------
Init ==
  /\ MC!Init
  /\ \E start \in Starts : npu = [n \in NPU |->
       [layer |-> 0, is_first |-> TRUE, tile_full |-> FALSE, is_setup |-> FALSE,
        is_returned |-> FALSE, is_begin |-> FALSE, is_terminated |-> FALSE,
        is_saved |-> FALSE, iter_cnt |-> 0, compute_cycle |-> start[n],
        open |-> FALSE, eof |-> FALSE, tile |-> 0, dread |-> 0, dwrite |-> 0]]
  /\ memory_cycle = 0 /\ keep_queue = << >> /\ cycle_idx_map = << >>
  /\ idx = MC!None /\ stage = "setup" /\ i = 0 /\ cont = "run"

Memory == MC!Inside /\ UNCHANGED <<npu, loopvars>>

Loop ==
  \/ SetupLayer \/ SetupDone
  \/ KeepWait \/ KeepPoll \/ KeepStart \/ CallStall \/ StallResult
  \/ ReturnLayer \/ ReturnOther \/ Retire
  \/ RunSkip \/ RunReturned \/ RunNPU \/ RunDone
  \/ PopSync \/ PopNoSync \/ Issue \/ PopDone
  \/ SyncTick \/ SyncDone

Next == Memory \/ Loop \/ Terminated

Spec == Init /\ [][Next]_vars

\* One thread: the program keeps executing.
FairSpec == Spec /\ WF_vars(Memory \/ Loop)

-----------------------------------------------------------------------------
Packet == [key : Nat, npu : NPU, op : {Read, Write}, sync : BOOLEAN, eof : BOOLEAN]

NPUState ==
  [layer : Nat, is_first : BOOLEAN, tile_full : BOOLEAN, is_setup : BOOLEAN,
   is_returned : BOOLEAN, is_begin : BOOLEAN, is_terminated : BOOLEAN,
   is_saved : BOOLEAN, iter_cnt : Nat, compute_cycle : Nat,
   open : BOOLEAN, eof : BOOLEAN, tile : Nat, dread : Nat, dwrite : Nat]

TypeOK ==
  /\ MC!TypeOK
  /\ npu \in [NPU -> NPUState]
  /\ memory_cycle \in Nat
  /\ keep_queue \in Seq(NPU) /\ cycle_idx_map \in Seq(Packet)
  /\ idx \in NPU \cup {MC!None, N}
  /\ stage \in {"setup", "stall", "keepwait", "stallwait", "ret", "retire",
                "run", "pop", "issue", "sync", "done"}
  /\ i \in 0 .. N /\ cont \in {"retire", "run", "issue"}

\* memory_cycle, which decides what may be issued, is a copy of the DRAM clock;
\* outside mem_stall and mem_sync it must not be stale.
ClockInStep ==
  stage \in {"setup", "ret", "retire", "run", "pop", "issue"} => memory_cycle = clock

\* A packet that needs mem_sync is synchronised to compute_cycle, not to the
\* key it was queued under: the NPU must not compute on while it is queued.
NoComputeOverWriteback ==
  [][\A n \in NPU : npu'[n].tile > npu[n].tile =>
       \A k \in DOMAIN cycle_idx_map :
         cycle_idx_map[k].npu = n => ~cycle_idx_map[k].sync]_vars

\* The lines of the intermediate files are consumed one per tile: mem_op never
\* runs into the end of a file (dram_load_write would exit), no tile is
\* computed before its read was issued or written before it was computed.
TileTraffic ==
  \A n \in NPU : npu[n].open =>
    /\ npu[n].dwrite <= npu[n].tile /\ npu[n].tile <= npu[n].dread
    /\ npu[n].dread <= Tiles(n)

\* When a layer's files are closed everything has been read and written.
LayerComplete ==
  [][\A n \in NPU : npu[n].open /\ ~npu'[n].open =>
       npu[n].dread = Tiles(n) /\ npu'[n].dwrite = Tiles(n) /\ npu[n].tile = Tiles(n)]_vars

\* accelerator.h:132, is_returned is a memory barrier: when a tile is computed no
\* read of the NPU is outstanding.
ReadBeforeCompute ==
  [][\A n \in NPU : npu'[n].tile > npu[n].tile =>
       \A p \in MC!Outstanding(n) : p.wr]_vars

\* Nothing is outstanding for an NPU whose workload was declared over.
FinishedDrained ==
  \A n \in NPU : n \in finished \/ npu[n].is_saved =>
    MC!Outstanding(n) = {} /\ \A k \in DOMAIN cycle_idx_map : cycle_idx_map[k].npu # n

\* misc_config: a positive iteration count is executed exactly, with -k every
\* workload has run k times before this one stops.
IterationsDone ==
  \A n \in NPU : npu[n].is_saved =>
    IF Iteration[n] > 0 THEN npu[n].iter_cnt = Iteration[n]
    ELSE \A m \in NPU : npu[m].iter_cnt >= -Iteration[n]

\* Clocks never run backwards, although compute_cycle and the DRAM clock are
\* converted into each other with rounding.
ClocksMonotone ==
  [][/\ clock' >= clock /\ memory_cycle' >= memory_cycle
     /\ \A n \in NPU : npu'[n].compute_cycle >= npu[n].compute_cycle]_vars

\* The loop uses the controller as MemCtrl's callers may: it marks an NPU finished
\* only when nothing of it is outstanding and it does not hold the bandwidth,
\* submits only between calls and nothing for an NPU that is finished.
ControllerUsed == MC!Spec

\* run() returns: no NPU waits for memory forever and the loop never spins
\* without the clock.
Terminates == <>(stage = "done")
=============================================================================

# TLA+ models of mNPUsim

mNPUsim is a cycle-level simulator of several NPUs that share memory: a
scheduler advances the NPUs tile by tile, a memory controller carries their
requests through TLBs, page table walkers and physical memory to DRAMsim3. It is
one thread, but an event simulator: what happens is decided by the order in which
clocks, queues and callbacks of a dozen data structures meet. That order is what
these modules model.

All paths below are those of the repository (`npu_group.cpp` and so on lie in
its top directory). `PROJECT.json` maps every definition to the lines it stands
for and lists runs, hazards and theorems.

## 1. Inventory

| Component | State | Operations | Modelled in |
|---|---|---|---|
| Scheduling loop, `npu_group.cpp` | per NPU the flags `is_begin/is_setup/is_returned/is_terminated/is_saved`, iteration counts, `compute_cycle`; `memory_cycle`, `keep_queue`, `cycle_idx_map` | `run`, `mem_op`, `mem_stall`, `mem_sync`, `mem_finished`, `min_finish_iter` | `NPUGroup` |
| NPU, `npu_accelerator.cpp` | `tile_full`, `is_first_tile`, end of file, `compute_cycle` | `run`, `calcCycle` | `NPUGroup` |
| Memory controller, `memctrl.cpp/.h` | TLB queues, `m_pagequeue`, `m_reqs`, `m_spm0_req`, `m_popped`, `m_no_req`, `m_is_begin`, `m_cur_buffer_idx`, `m_clock` | `dramRequest`, `tlbRequest`, `atomic`, `atomicTick`, `syncTick`, `popStallRequest`, `checkNPURequest`, `callback`, `markFinished` | `MemCtrl`, `CompletionService` |
| Token bandwidth, `memctrl.cpp` | `m_token` per NPU and channel | `tryConsumeToken`, `tryAddToken`, `tryBorrowToken`, the token part of `atomic` and `clockTick` | `TokenBW` |
| Address mapping, `memctrl.cpp`, `tlb.cpp` | none | `calcModuleIdx`, `calcModuleAddr`, `calcPhyAddr`, `calcVPN`, `calcSetIdx`; the cuts of `dramRequest`, `tlbRequest` | `AddrMap`, used by `PhysMem` |
| TLB, `tlb.cpp` | per set `m_table`, `m_mrubits`, `m_valid_entry_num`, `m_remaining_zeros`; `m_port` | `TLB::access`, `flush`; `TLBSet::access`, `evict`, `updateMRUbits`, `flush` | `TLBSet`, `TLB` |
| Page table walkers, `ptw.cpp` | `m_ptw_clock`, `m_ptw_belong`, `m_ptw_occupation`, partition bounds, `m_history`, `m_tpreg` | `setPartition`, `access` | `PTW` |
| Physical memory, `address_translator.cpp`, `memctrl_sharedtlb.cpp` | `m_free_list`, `m_free_pages`, `m_pmem_left`, `m_translation_table` | `DRAMAllocator::allocate/free`, `AddressTranslator::translate/allocate/free` | `PhysMem` |
| DRAMsim3 | the submodule's directory is empty | `WillAcceptTransaction`, `AddTransaction`, `ClockTick`, callback | external: assumed, section 5 |
| Scratchpad, `spm.cpp` | - | dead: `m_fake_mode` is always true, no scratchpad is created | no |
| Request generator, `software_request_generator.cpp`, `util_os.cpp`, `npu_accelerator.cpp` | `new_space_addr` and the tables of base addresses, `dram_filter_set`, `dram_ifmap_set`, `dram_ofmap_set`, `pre_local_cycle`; the intermediate files | `config_update`, `computation`, `is_full`, `move_reset_dram`, `tile_output` | `NetConfig`, `TileGen` |
| Layer tilings, `software_layer/` | fold counters, running offsets | `*_translation`, `*_gemm_computation`, `set_variable_config_gemv`, `address_update_gemv`; the `*_computation` functions | `NetConfig`, `LayerAccess` |
| Configuration, `main.cpp`, `memconfig.cpp`, ... | none | file input | its values are CONSTANTS |
| Logs and statistics | none that is read back | output | no |

How they interact: `npu_group::run` calls `mem_op` (a batch of requests for one
NPU), `mem_sync` (tick the controller until the DRAM clock has caught up with an
NPU) and `mem_stall` (tick until `popStallRequest` names an NPU whose batch is
done). The controller calls the TLB for every request of a batch in `atomic()`;
a miss calls the walkers and the allocator, all within that call, and the result
is a tick at which the request may go to the DRAM. DRAMsim3 calls back from
within its `ClockTick` with nothing but an address. Everything is shared:
one page queue, one clock, walkers, TLB (optionally) and free list. Before all
that, the request generator of each NPU writes the files `mem_op` and
`npu_accelerator::run` read: the addresses of every tile, and its cycles.

What is hard, and what correctness means there:

- *Completion.* Requests are matched to callbacks by address, counted in
  another structure than they are queued in, and reported one NPU per call, with
  leftovers remembered over ticks and new submissions. Correct: the count is
  exact, a callback is credited to its owner, an NPU is reported when it has
  nothing outstanding, once per submission, and in the end always.
- *Clocks.* Every NPU has a clock of its own, converted to the DRAM's with
  rounding up, and `memory_cycle` is a copy. Correct: the copy is current
  wherever it decides something, no clock runs backwards, the loop ends.
- *Packets in the future.* A write is queued under the cycle at which it should
  go out; other NPUs' packets move clocks before that. Correct: the lines of the
  intermediate files are used once and in step with the computation.
- *Bandwidth owner.* Under tile-level interleaving one NPU owns the DRAM and is
  released as a side effect of a query. Correct: exclusive, and released.
- *Moving partitions.* Walkers change owner on every miss, decided by counters
  kept beside the owners. Correct: counters match, bounds are respected, every
  miss finds a walker.
- *Flush.* Entries of one NPU leave a shared set, the rest moves; the counters of
  Bit-PLRU are not moved with the bits. Correct: exactly those entries leave, a
  victim is always found, and a walk that outlives the flush's tick is one whose
  entry another NPU has taken and waits for.
- *Three clocks of a walk.* A miss waits for a port, for the walk of the entry it
  replaces and for a walker, each with a clock of its own. Correct: ports are used
  in order and never overbooked, no more walks run than there are walkers.
- *Two address spaces cut twice.* A request is cut at DRAM units and at pages, its
  pages lie anywhere, and the physical address is cut into module and address.
  Correct: every byte is translated once, by its own page, and a module's answer
  leads back to the request.
- *Layout and tiling.* Addresses come from counters that two passes move, tiles
  from running offsets, and a tile is cut in the middle of a pipeline that fills,
  changes folds and drains. Correct: matrices are cut without gap or overlap,
  results overwrite nothing, no line is lost, tiles keep to their size but for a
  single step, and the simulation reads back the tiles and cycles that were meant.

`PROJECT.json`, "hazards", lists these and the smaller ones at their lines.

## 2. Modules

- `CompletionService` is the abstract promise of `popStallRequest`: per NPU a
  number of outstanding requests, whether a report is owed, and a bit (`reported`)
  that flips with every report; submit, complete, report when one is owed and nothing
  is outstanding, dismiss.
- `MemCtrl` is the controller. `dramRequest` is one action (`Submit`); `atomic()`
  is one operator, `Atomic`, conjoined to each caller; a DRAM tick is an action
  that starts it, one `Callback` per answer and a return action per caller
  (`StallReturn`, `SyncReturn`, `KeepReturn`), since callbacks of one tick come
  in any order and several data structures change in between. `m_cur_buffer_idx`
  and `checkNPURequest`'s side effect on it are `cur` and `ReleasedCur`. It
  implements `CompletionService` under the mapping at its end
  (`CompletionSafe`, `CompletionLive`). The history variable `reported` records what
  `popStallRequest` returned and is mapped to the service's, so that a return the
  service does not permit, one NPU twice or an NPU that submitted nothing, is no
  stutter. `MarkFinished` says when a client may call
  `markFinished`: when nothing of the NPU is outstanding and it does not own the
  bandwidth. It may have been found by the poll in `mem_stall`, which leaves the
  flags `m_no_req` and `m_popped` as they were: an NPU found before it was finished
  (`m_popped`) is still reported once, one that was not is not searched for any more.
  The service leaves that open (`dismissed`). That poll is no report of
  `popStallRequest` and not counted as one. `MCMemCtrl`
  bounds the client.
- `NPUGroup` is the loop and the NPUs on top of an instance of `MemCtrl`: its
  variables are the controller's too and its actions conjoin the controller's
  (`MC!PopStall`, `MC!SyncTick`, `MC!DramRequest`, ...). `stage` is where the loop
  stands. An intermediate file is reduced to how many of its lines were read.
  That the loop keeps to what `MemCtrl` expects of its callers is the property
  `ControllerUsed`, the specification of `MemCtrl` itself: a batch between two calls and
  none for a finished NPU (`Submit`), `MarkFinished`, ticks in calls only.
- `TLBSet` is the state of a set and what a hit, a miss and a flush do to it.
  `TLB` is `TLB::access` around it: `Access` finds the tick with a free port
  (`Started`, `UsePort`), looks the page up and, on a miss, takes a walker of the
  instance `W` of `PTW` (`W!Access`); the entry becomes usable at the tick that
  walker's clock says. `Flush` and `Tick` are `tlbFlush`. Set and walkers are the
  same definitions that `PTW` is checked with on its own, where NPUs are more and
  walks arrive in any order.
- `PTW` is the walkers, `TokenBW` the token loop.
- `AddrMap` holds the address functions, `PhysMem` the allocators and tables. What
  `AddrMap` promises is stated in `PhysMem`, of the addresses that accesses get
  there: `CallbackAddress`, `ModulePrivate`, `TagExact`, `RequestTranslated`.
- `PTW`, `TLB`, `PhysMem` and `TokenBW` keep the configuration of the simulation in a
  variable that is chosen in `Init` and never assigned again (`conf`,
  `portnum`, `arrangement`, `policy`): one run goes through all configurations in a set.
- `NetConfig`, `LayerAccess` and `TileGen` are the request generator, one NPU's.
  `NetConfig` is `config_update`: base addresses from references (`Resolve`,
  `SetVariableConfig`, `AddressUpdate`) and the tiles of products (`Tiles`).
  `LayerAccess` says which cachelines a step of a layer's computation touches.
  `TileGen` is the program: `ConfigLayer` per layer of the description, then for
  every row of the result `SetVariable`, a `ComputeStep` per round of the loop
  around `is_full` and `move_reset_dram`, `EndLayer`. Description and core are
  variables (`network`, `arch`) that `Init` chooses. The counters with which
  `conv_fold_parallel_computation` walks through folds, one triple per element of
  the array, are functions of the cycle here (`Fold`): each is started with
  `-x-y` and counts through filter elements, filter folds and ifmap folds.
- `MemCtrl_proofs`, `NPUGroup_proofs`, `PTW_proofs`, `TLB_proofs`, `TokenBW_proofs`,
  `PhysMem_proofs`, `TileGen_proofs` and, on top of it, `Layout_proofs` hold the theorems.
  The lemmas about division and about `tlbRequest` stand in front of `PhysMem_proofs`.

`MemCtrl` sees `TLB` through the latency it returns (`TlbLat`), and `PhysMem`
through the assumption that NPUs' addresses are disjoint (`AddrAssumption`), which
`PhysMem`'s `Isolated` and `MappedOnce` are about. `Batch` in `MemCtrl` starts from
the set of addresses that `dramRequest` cuts a batch into; the cutting itself is in
`AddrMap`. Operators named `X_Fault` are `X` with one plausible mistake; each
property is violated when one of them takes `X`'s place.

## 3. Runs

| Run | What it shows | Bounds and why they are enough |
|---|---|---|
| `mem_queues` | `ReqAccounting`: `m_spm0_req` is exact. `CallbackCreditsOwner`: the search in `callback()` never falls through and credits the sender. `TlbQueueCurrent`: the assertion in `atomic()`. `CompletionSafe`: refinement of `CompletionService` | 2 NPUs, one address each, three batches with tags so that a read and a write or two reads of one address are outstanding together; a DRAM that holds two, so the third waits; latencies 1 and 2, so answers overtake; TLB latencies 0 and 2, so packets overtake |
| `mem_tiled` | `TiledExclusive`, `CompletionLive` | 2 NPUs, two addresses for one of them, so that a batch is half done when the other asks |
| `group_tiled` | `TileTraffic`, `ControllerUsed`, `NoComputeOverWriteback`, `LayerComplete`, with tile-level interleaving | 2 NPUs, layers of four and two tiles: first, middle and last tile differ in the code and a layer follows a layer; compute times 1 and 3, shorter and longer than a DRAM access; they start together, or one in cycle 60, after the other has finished, so that the poll finds an NPU that ends |
| `group_corun` | `ClockInStep`, `FinishedDrained`, `IterationsDone`, `ClocksMonotone`, `Terminates` | Clock ratios 2:2 and 3:2 so that rounding happens, start cycles 6 and 3 or 0 and 9 (the start queue and its poll run, with one NPU in it and with two), one repeats until both have run twice and one runs exactly twice; a DRAM with room for one |
| `group_barrier` | *violated:* `ReadBeforeCompute` | the workloads of `group_tiled` without tile-level interleaving: read and write-back of one NPU and the traffic of another are outstanding together |
| `tlb_shared` | `NoDuplicates`, `VictimExists`, `PortOrder`, `WalkBandwidth`, `LastUsedKept`, `FlushExact`, `FlushCoversWalks` | 2 NPUs, 3 pages each, 3 ways: with fewer than three ways Bit-PLRU is a single bit; no limit, one and two ports; two walkers, shared greedily with a path register (walks of 0 to 2 ticks overtake) or in overlapping partitions, so that entries are replaced while walkers are busy; lookups until tick 3 (`MaxTick`) |
| `ptw_shared` | `OccupationExact`, `WalkerFound`, `ShareGuaranteed` | 3 NPUs and 4 walkers, so that a walker can be taken from either of two others and the share `4 div 3` is rounded; overlapping partitions, the return mode, no partitions with a path register; walks start until tick 4 (`MaxTick`) |
| `phys_all` | `FreeListExact`, `MappedOnce`, `Isolated`, `CallbackAddress`, `ModulePrivate`, `TagExact`, `RequestTranslated` | 3 NPUs with a share of one page: two virtual pages each with separate or one allocator, so that memory runs out and an NPU may take the pages of the others, one each with a shared TLB; all sequences of operations, unbounded, so that the three pages of one allocator are freed and reused in every order; pages of two bytes, every geometry of the six bytes into 1, 2 or 3 modules and chunks, powers of two or not, TLBs of 1, 2 and 3 sets (of 3 only 2 are used), units of one and two bytes, requests from any byte to any byte |
| `token_policies` | `IssuePaid`, `Served` | 2 NPUs with epochs 1 and 2, two channels, buckets of one token, three waiting packets (`MaxQueue`); a DRAM that refuses, or borrowing with translations in flight |
| `token_refund` | *violated:* `TokensConserved` | the refusing DRAM of the above, two tokens per bucket |
| `tile_networks` | `GemmTiles`, `OfmapFresh`, `NothingLost`, `TileFits`, `CyclesReadBack` | networks of two layers and three, of all types: inputs sequential, in new space and named in both ways, results sequential and placed by hand on results, on inputs and on the layer's own input; more filters and windows than the 2 x 2 arrays have columns and rows, and a 4 x 4 array whose folds end too early or just in time, sizes that strides and tiles do not divide, products cut along two dimensions; matrix-vector products of one band, of bands that fill the array, that are reshaped with roundings, and that get no size; cachelines of one, two and four elements and tiles of six of them, or twelve, so that layers need up to several tiles; cycles modulo 256, which no layer reaches; first layers whose vector lies where nothing was assigned, and filters larger than the result they are put on; cores of `unit_compute` 1 and 2 |
| `tile_filter` | *violated:* `FilterApart` | the same |

`ptw_shared` and `token_policies` do not check deadlock: clocks stop at their
bound, and a failing assertion stops the program (`Abort`). Everywhere else
deadlock is checked; `NPUGroup` has `Terminated` for the end of the program.
The type invariants of `MemCtrl`, `NPUGroup`, `PTW`, `TLB` and `PhysMem` are proved and not run
again. The inductive invariants of the proofs were checked on these instances
before they were proved.

Symmetry: the tags of `mem_queues` are interchangeable, they exist only to tell
alike requests apart; no other run uses symmetry, and none with liveness does.

### Fairness

The simulator is one thread that keeps executing: `NPUGroup`'s fairness is
`WF(Memory \/ Loop)`, no action of its own is favoured. `MemCtrl` alone assumes
that calls return (`WF(Inside)`; each is a bounded number of steps) and that the
scheduler calls `popStallRequest` again (`WF(PopStall)`); in `NPUGroup` the loop
itself makes those calls, and the liveness of reporting is shown there without
that assumption, as part of `Terminates` (`group_corun`). Tile-level interleaving
is covered by `CompletionLive` in `mem_tiled`. `TokenBW` assumes that the loop goes on
and, by `SF(Issue(n))`, that the DRAM does not refuse the packets of one NPU for
ever; DRAMsim3 refuses only when its queue is full and always drains it.

## 4. What is proved

`tlapm` checks every proof to the leaves.

`MemCtrl_proofs`, for any number of NPUs, any addresses, latencies, batches and
DRAM size, from the assumptions of `MemCtrl` (NPUs have disjoint finite sets of
addresses):

- `TypeCorrect`.
- `CoreInvariant`. The inductive invariant `Core` says: a packet's place follows
  from its NPU and direction (`Placed`), no packet is in two places
  (`Distinct`), the queues are finite, `m_spm0_req` counts the outstanding ones
  (`ReqAccounting`), and per address the request lists and the packets in
  flight are equal in number (`CallbackMatched`). `ReqAccounting` alone is not
  inductive: that the callback takes a request out of the lists of the NPU it
  credits needs an address to be found at all, hence `CallbackMatched`, and in
  the right NPU's buffer, hence `Placed`; cardinalities move by exactly one only
  because packets are distinct.
- `AccountingCorrect`, `CallbackCorrect`, `TlbQueuesCurrent`.
- `TiledExclusiveHolds`. The invariant (`Owner`) is that everything in the DRAM is of
  the NPU whose turn it is. The turn passes only when both lists of that NPU are
  empty, and a transaction in the DRAM is always in a list (`Listed`), which is
  where `CallbackMatched` is needed.

In its last part, `CompletionRefined`: the controller implements
`CompletionService`. Initial states map to initial states and every step to a step
of the service or a stutter; a return of an NPU flips its bit (`ReportFlips`), so that
it must be the step `Report`. `popStallRequest` looks at the queues, runs a tick of the
DRAM, and reports afterwards, so `Core` does not suffice: `ReportInv` says that an NPU
it has chosen (`endidx`), or that another call has found and left for later
(`m_popped`), still has nothing outstanding when it is reported. Callbacks keep
that, and no new batch arrives while a call is inside. `atomic` moves requests but
ends none (`AtomicKeeps`), so the service sees nothing of it. The end of the
module says what a caller may conclude from a report: the NPU is `Settled`, it has
nothing outstanding and does not own the bandwidth (`ReturnSettled`), and it stays so
until it submits (`SettledStays`).

`NPUGroup_proofs`, for any number of NPUs, layers, tiles, start cycles, iteration
counts, clock speeds and everything `MemCtrl` leaves open: all safety properties of
`group_corun` and `group_tiled`. The inductive invariant `IInv` is the type, the
controller's invariants (`ControllerInv`), `IterationsDone`, and `LoopInv`:

- `CallInv`: in every stage, whose call the controller is busy with. A request can
  then only be sent when it is idle.
- `ClockInv`: `memory_cycle` is the DRAM clock, or behind it in `mem_stall`, or ahead of
  it in `mem_sync`. `ClocksMonotone` adds that a cycle is never lost on the way to
  another clock and back (`Conversions`), which is where rounding up is needed.
- `SettledInv`: an NPU that was returned, and one that is saved, is settled; finished
  and saved are the same. Together with `CallInv` this makes every step of the loop a
  step of `MemCtrl` (`ControllerRefined`), which brings back the controller's invariants
  for the next step: the two specifications hold each other up, so the theorem is
  one induction over both. `CompletionServed` is the conclusion: the service that
  was proved for all callers is the one this loop gets.
- `PhaseInv`, `KeepInv`, `RetireInv`: what the flags of an NPU say of each other. An
  NPU that is full and returned is so during its own turn only, and its cycle has
  come.
- `PacketInv`, `QueueInv`: a packet in `cycle_idx_map` is due in this pass, or is the
  last write of its layer, or asks for the tile after one that is still to be
  written. Hence at most one read and one write per NPU are queued, in order of
  their keys, and an NPU on its turn has no packet that needs `mem_sync`
  (`NoComputeOverWriteback`).
- `TilesInv`: every tile is read, asked for, full, queued to be written, or written.
  `TileTraffic` is this without the queue, `LayerComplete` what it says when the last
  write is issued.

`PTW_proofs`, for any number of NPUs, walkers and table levels and any
partitions that fit the walkers: `TypeCorrect`, `OccupationCorrect`,
`ShareCorrect`, `WalkerCorrect`. The inductive invariant adds to type and counters that without the
return mode the bounds stay those of the configuration and occupations stay
between them (`Bounded`): `access` looks at the counters only, so the bounds on
owners follow from the counters being exact. `WalkerCorrect` counts: were no walker
usable for an NPU, the others would own all of them and none more than its lower
bound; but the initial partition (in the return mode, equal shares) gives disjoint
parts of those sizes that leave some for this NPU (`Parts`, `EqualParts`), and sets that
are no larger than disjoint parts cannot cover more than those do (`Pigeons`).

`TLB_proofs`, for any number of NPUs, ways, walkers and ports, any partitions and
latencies, from the assumptions of `TLBSet` and `TLB`: all seven properties of
`tlb_shared`, and `TLBTyped`. The inductive invariant is `IInv`:

- `Filled` (slots that do not count as valid are unused), `NoDuplicates`,
  `VictimExists` and `Recent` (what was used last is marked). A flush moves entries
  to the front, and `Nth` chooses the slot each comes from. That the choice exists
  would be an induction over the slots; the proof counts instead: ranks of the
  elements of a finite set are different and below its size (`Ranks`), and an
  injective function into a set of the same size is onto (`Counted`).
- `Covered`: the entry a walk filled, or the one that took its place, is valid and
  not usable before the walk is over, unless it is over or a flush waits for it
  (`Awaited`). `FlushCoversWalks` needs what happened to entries that are no longer
  there: a miss replaces an entry only with one whose walk begins after the tick it
  waits for.
- `OneByOne`: two walks of one walker do not overlap, and none ends after its clock.
  `WalkBandwidth` follows by counting: the walks of one tick have different walkers.

`PhysMem_proofs`, for any number of NPUs and pages, all arrangements, geometries
and TLB sizes: `FreeListExact`, `MappedOnce`, `Isolated`, `CallbackAddress`,
`ModulePrivate`, `TagExact`, `RequestTranslated`, and `PhysMemTyped`. The inductive
invariant says that list, set and counter of an allocator hold the same pages of its
own part (`Lists`), that a mapped page was taken from the allocator of its table and
by one entry (`Tables`), and that an NPU uses what its table holds (`Uses`). The
address properties follow from pages lying in the memory and from facts about
division. `RequestTranslated` needs that a unit no larger than a
page has at most two parts (`TwoParts`), so that the bytes which `tlbRequest` still
has to cut are a recursion of depth one, where its unsigned differences can be
followed: they wrap, and come back right, if two pages fit the address range
(`AddressAssumption`). Units cut a request as quotients and remainders do (`RequestCut`).

`TokenBW_proofs`, for any number of NPUs and channels, any epochs and bucket: `TypeOK`
(no bucket overflows or goes into debt, also when the DRAM refuses) and `IssuePaid`.
The inductive invariant is the type and, with a DRAM that accepts, `Balanced`: issued
packets and held tokens make up all tokens of a channel, without the modulus.
`TokensConserved` sums over the NPUs. The sum is turned into a cardinality, of the set
whose elements are the tokens (`SumIsHeld`): the number of tokens satisfies the
equation that the sum recurs by, and among the sets of NPUs for which a solution of
it differs there is no smallest. After that no order of summation matters: paying
takes one element out (`PaidTakesOne`), the end of an epoch puts `Gained` in
(`RefillGains`). With a DRAM that refuses the property is false (section 6).

`TileGen_proofs`, for any networks and cores that `ArchAssumption`, `NetworkAssumption`
and `VectorAssumption` admit and any width of the counter (`RangeAssumption`). Its first
half is `TileFits` and `CyclesReadBack`. Neither depends on which cachelines a step
touches, but both on the rows of the configuration being such that a step can be
computed at all:

- `Configured`: every row has a type that `SetVariable` knows, and the rows of a
  product have sizes of at least one. For that the tiles of a product must be finitely
  many and their sizes positive (`TilesSized`), which rests on the square root in the
  tiles' width being a number: the condition that it is found by holds for width 0 and
  for none above the number of elements, so there is a first width where it fails
  (`RootWidthExists`).
- `Begun`: which steps a tile holds is not in the program's state, so `cuts`, a history
  variable, records how many steps were done when each tile was written. The tile that is
  filled holds the steps behind the last cut and fits, or is a single step (`Filled`); every
  written one is those between two cuts (`Made`) and had no room for the step that ended
  it (`Full`). A tile that is added changes none before it (`TileAdded`), and the steps
  from one cut to the next are a union that grows by one (`BegunStep`).
- `Counted` and `Tallied`: the lines in the files, what they add up to, and the cycles
  still in the counter make up the cycles of the steps done (`CountedStep`). The sum
  is turned into a cardinality (`SumIsUnits`), as in `TokenBW_proofs`.

`CyclesReadBackHolds` has a hypothesis, `CountFits`: the cycles of a row fit the
counter, which wraps. It is true in every state of `tile_networks`. The time that the
simulation takes is `unit_compute` times the numbers it reads, and a passage through
the array for each tile; it may wrap, both sides of the equation are taken modulo the
counter's range. That a Pool layer in the first row writes an indeterminate counter
(section 6) is part of the property (`Inherits`).

The second half is about what all steps of one row touch together (`Touched`), from the
first to the first that is not live any more (`Ended`):

- `ConvTouched`: exactly the filters, the elements of the ifmap that windows cover and the
  results. The three counters of an element of the array are digits of its elapsed
  cycles (`FoldAt`), so an element that is on a filter, a window and an offset has been there
  at a cycle that can be computed (`WorksAt`), and nothing is live only after the last
  of them (`ConvStays`). A column reads only while a window is assigned on its diagonal; that
  there is one whenever it works needs an array no wider than high (`WorkingBefore`).
- `IneffTouched`: the same for the array that is emptied between folds. Where a fold begins is
  a sum of cycles of the folds before (`FoldsFollow`, `FoldOfCycle`); inside it every element
  that is live works through its filter if the fold is long enough for the last of them
  (`FoldRoom`): the larger number of live rows and columns must be less than twice the
  smaller for all inputs to be read, and larger by less than the elements of a filter
  for the last result to be begun. Neither implies the other; `tile_networks` has
  layers on both sides of each.
- `DirTouched` and `IneffDirTouched` for direct products, where tiles are as small as the
  array, or parts begin where others end when an element is a byte (`PlaceInBand`).

`Layout_proofs`, for the same networks and cores, from `ReferenceAssumption` in addition
(references name results and inputs of layers before): `GemmTiles`, `OfmapFresh` and
`NothingLost`. The first two are about addresses that the code gets by adding up, over the
tiles of a product or over the layers of a network. The first half of the module is about
one layer (what is said of digits and of sums stands in `TileGen_proofs`, which needs it too):

- The offsets of a product's tiles are the sums of three nested loops that take back
  what an inner loop has gone through. They are proved to be what the place of the
  tile in the product says: its number has three digits, the loop counters
  (`DigitsOfNumber`, `NumberOfDigits`), and the offsets computed from the digits
  satisfy the equation that the code's sums recur by (`OffsetsFollow`); the first
  place where two solutions of it differ does not exist. For bands `SteadySum` does the same.
- Cells whose place and size follow from the digits cover a matrix and are disjoint
  (`CellsCover`, `CellsApart`), also where the last ones are smaller. That the depths of
  the tiles of one result add up to the depth of the product is a sum over a set; it
  is the number of elements of a union of disjoint intervals (`SumOfSizes`).
- `GemmAreTiles`, `DirGemmAreTiles`, `IneffDirGemmIsTile` and `GemvAreBands` conclude, for each
  of the translations, what its rows are.

The second half carries this over from layer to layer. The inductive invariant of
`GemmTiles` is `Translated`: `config` is, for every layer and in order, a stretch of rows
laid out from addresses (`IsLaid`), and the three arrays of addresses have one entry
per layer, that of filters one per matrix-vector product (`Arrays`), so that every reference
finds one. That of `OfmapFresh` is `Roomy`: `Translated`, and

- `Remembering`: `ofmap_base_addr` is where the last result lies, which is what a
  sequential reference stands for.
- `Reserving`: every tensor that a reference can name ends before `new_space_addr`.
  It is what makes the next layer keep it, for what it names is no larger
  (`LayerSurrounds`, `VectorSurrounds`). `config_update` does not give anything back
  (`NextUpdated`), and reserves for the four types of layers that reserve nothing before.
- `RowReserved`: every row ends before `new_space_addr`, except a result or a filter for
  which nothing is reserved (`FilterReserved`), and `RowsApart`, which is `OfmapFresh` itself. A new layer's result begins at a point that everything before, and its own inputs,
  end at (`NextBehind`), and its rows are parts of its tensors (`RowsInside`).

The end of the module is `NothingLost`, with the inductive invariant `Collected`: the rows
have the shapes that the lemmas about `Touched` ask for (`Shaped`; windows lie in the ifmap,
tiles of direct products in the array), and `Gathered`: the tiles written so far and the one
that is filled hold what the steps so far have touched, and the address 0 at most
besides. Where a tile is cut, whether the step goes into the next one or is written
with it, and what an empty set is written as makes no difference to it (`GatheredStep`).
At the end of a row the tile that is filled is empty, and the lemmas say what is held.

Only model-checked is liveness (`CompletionLive`, `Terminates`, `Served`), which is out of the
prover's reach. The induction theorems of the library, which take an operator, are used
nowhere: where a definition recurs, the proofs replace it by what it amounts to, a place or a
number of elements, and show that a least counterexample does not exist. Induction over numbers
is stated for sets of numbers (`NumbersInduction`) and follows from the same.

## 5. Abstractions and assumptions

- DRAMsim3 holds at most `DramCap` transactions, refuses only when full and
  answers within `DramLat` in any order. Its channels are not modelled: which of
  the eligible packets are taken when there is room for some is open.
- In `PTW` alone a walk's arrival ticks are not ordered: more histories than the
  code has. In `TLB` they are what ports and replaced entries make of them.
- `TLB` has one set. Sets have only ports and walkers in common; a lookup of
  another set is, for this one, a port and perhaps a walker that are busy, as those
  of another page are. The entries of ticks that have passed are dropped from
  `m_port`: they are never counted again.
- The history variable `walks` of `TLB` holds the walks that are not over: their
  walker, the ticks they take, and where the entry they filled, or the one that
  replaced it, is now.
- A flush is synchronous, as `tlbFlush` is: it ticks until the flush is over and
  nothing else runs. `FlushCoversWalks` allows for a walk whose very entry belongs to
  another NPU by now: the flush does not wait for it, the replacing entry does. TLC
  finds such flushes, so the exception cannot be dropped.
- `RetireIteration` flushes the TLB without ticks: the NPU is drained then
  (`FinishedDrained`), its walks are over.
- `PhysMem` leaves out `m_inverse_table`, which nothing reads. `allocate` and
  `free` of the tables have no caller in the simulator; the model's caller
  allocates only pages that are not mapped (a second `allocate` of a page takes a
  physical page that nothing refers to). `Isolated` says nothing of the address
  that a failed translation leaves: there two NPUs do meet.
- `TokenBW` counts issued packets minus added tokens modulo one more than the
  tokens of a channel, which is all that conservation compares with. A borrowed
  token is taken in an `assert`; the models follow a build in which assertions are on.
- The request generator is modelled as it is compiled: `SUM_TILING` true,
  `SRAM_TRACE` false. Names of layers, and with them of files, are taken to be
  different. Arithmetic with `double` is exact for arrays whose width is a power
  of two, as all shipped ones are (`ArchAssumption`). Dimensions of layers are positive,
  windows lie in the ifmap (`NetworkAssumption`) and the vector of a matrix-vector
  product leaves room in the scratchpad (`VectorAssumption`), as in all shipped
  configurations. References by number name results of layers before, or inputs
  (`ReferenceAssumption`); the code does not look. The generator's properties state
  what they need: `OfmapFresh` that a layer's ifmap, vector and placed result are no larger than those
  whose names it uses, and a first vector has a name (`Fits`), that a product's filter is as
  high as the product goes through it, and that the window of an Other layer is one
  element (`FitsNames`). A filter, which has no name of its own, may be larger than what
  it is put on, as in most networks; three tensors are excepted for which nothing is
  reserved (section 6); `NothingLost` that a direct product is no narrower than its
  result, that the folds of an emptied array run long enough for all rows and columns in use (`FoldsReach`), that
  elements are bytes where parts begin at bytes, and of the address 0, which stands
  for an empty set, nothing; `GemmTiles` that the bands of a matrix-vector product
  have sizes (`Unassigned`). What a variable holds that nothing was assigned to is
  any value of `Indeterminate`: sizes of bands, the counter of cycles, `ofmap_base_addr`.
  Addresses do not wrap. Pool and Other layers only take part in `TileFits`,
  `OfmapFresh` and `CyclesReadBack`: what they read is not what section 6 would want.
- `BOUNDARY` is the code's `BOUNDARY_IFMAP_OFMAP_ARRAY`. A matrix-vector product
  needs an array of one column, which `gemv_translation` asserts (`Accepted`).
- Configurations are those the code can run with: partitions that fit, at least
  as many walkers as NPUs in the return mode (`WalkerFound`), epochs of at least
  one, a capacity that the modules divide.
- `npu_group.cpp` lines 157 to 171 are unreachable: the loop before them ends when
  every NPU is saved. `popSPMRequest`, `popNPURequest`, `popRequest`,
  `sramRequest`, `flipBuffer` and `prefetch` have no caller. Pre-run files are
  appended to and never cleared, `clear_output` has no caller either.

## 6. Where code and documents differ

Shown by a run:

- `group_barrier`: `accelerator.h:132` calls `is_returned` a memory barrier. Any batch
  of the NPU opens it (`npu_group.cpp:113`, `RunReturned`), also the write-back of the tile
  before while the read is still queued, so a tile may be computed before its read
  has arrived.
- `token_refund`: `memctrl.cpp:606` says that the consumed token is returned.
  `tryAddToken` adds one in every channel, to the packet's NPU whoever paid.
- `tile_filter`: `network_config/README.md` lets a description place each of the
  three tensors. `util_os.cpp:75` reads the ifmap's reference for the filter, so
  the common `-1, -2, -1` puts filter and ifmap at one address, and the filter's
  lines are fetched as if they were the ifmap's.

Seen while modelling, present in the models, not the subject of a run:

- `npu_group.cpp:82`: `misc_config/README.md:12` says that iteration -1 repeats
  until every other workload has finished. It stops once every NPU has run once,
  also next to one with iteration 2 (`LastIteration`).
- `npu_group.cpp:263`: the start queue is first in, first out; an NPU with an early
  start cycle waits behind one with a late one (`KeepStart`).
- `tlb.cpp:156`: after a flush unused slots are counted as valid, so the branch
  "eviction required" replaces a valid entry while slots are unused (`Flush`).
- `memctrl.cpp:321`: an NPU with initial partition 0 ("full-dynamic") next to a
  partitioned one finds no walker and `m_ptw_clock[-1]` is read (`Usable` is empty).
- `ptw.cpp:134`: "force to return all occupancy" only sets the bounds, walkers move
  back one walk at a time (`ReturnMode`).
- `tlb.cpp:256`: a failed `translate` is ignored and the access goes to the page
  `~0`, outside the NPU's partition (`Translate`).
- `address_translator.cpp:133`: translated pages are not entered in the inverse table.
- `memctrl.cpp:657`: a lender is asserted to have a token, but is chosen without
  looking; one that has just spent its last fails the assertion (`Abort`).
- `software_request_generator.cpp:64`: an empty set is written as `0,`, which the
  simulation reads as an access to the address 0 (`OrZero`): every Pool and Other
  layer, and tiles of a direct product after the first.
- `software_pool.cpp:16`: the row of a window is clipped as if `ifmap_width` were
  one, and rows of a window are `filter_width` apart; nothing is written
  (`PoolAccess`).
- `software_other.cpp:13`: elements that do not fill the array are dropped, and a
  base that is no multiple of the cacheline is not aligned (`OtherAccess`).
- `software_dir_tile_gemm.cpp:43`: cycles are counted by the width of the ifmap,
  results leave by the width of the filter; a wider result loses its last columns
  (`DirLive`, `DirAccess`).
- `software_gemm.cpp:18`: the height is divided and multiplied by the width of the
  array and so is never a tile's; only width and columns are cut (`GemmShape`).
- `software_pool.cpp`: a Pool layer counts no cycles and does not reset the
  counter; in the first row of a network it writes an indeterminate value
  (`SetVariable`).
- `arch_config/README.md:13` calls `unit_compute` the cycle time of a MAC operation.
  `software_eff_conv.cpp:173` counts that many cycles for a step, and
  `npu_accelerator.cpp:63` multiplies by it again, so with a `unit_compute` of 2 a step
  takes four cycles. `CyclesReadBack` states what the simulation does take: with a
  second factor (`ReadBack`).
- `arch_config/README.md:12` says that tiles have the tile size, half of the scratchpad for
  double buffering. `software_ineff_dir_tile_gemm.cpp:24` asks `is_full` first but then
  writes the tile together with the part that made it too large, as no other layer
  does (`ComputeStep`); `TileFits` excepts its tiles (`Uncut`).
- `software_gemv.cpp:40`: a band that neither fills the array nor divides into it
  is written with whatever `mtx_height_T` and `mtx_width_T` hold (`Unassigned`); a
  last band is reshaped by the size of the others, and bands that are rounded up
  reach behind the matrix (`InputBytes`).
- `software_gemv.cpp:58`: the comment says that `FILTER_HEIGHT` saves the length of
  the vector. It saves the rows of the band, so a band that is lower than wide reads
  a part of its vector only, and writes as many results as it has columns
  (`GemvAccess`).
- `software_gemv.cpp:213`: `filter_base_addr_array` has entries of matrix-vector
  products only, while references count layers (`SetVariableConfigGemv`).
- `software_ineff_conv.cpp:25`: the cycles of a fold count the smaller of live rows
  and columns twice. A fold that is twice as long one way as the other ends before the last
  row or column has worked through its elements, one that is longer by the number of
  elements of a filter before its last result is begun (`CycleInThisFold`, `FoldsReach`). Its results are not limited to
  filters and windows that exist (`IneffAccess`), and it counts no cycles
  (`Uncounted`).
- `software_ineff_dir_tile_gemm.cpp:41`: the offsets of parts are counted in elements
  and added to byte addresses (`IneffDirAccess`).
- `util_os.cpp:99`: nothing reserves the result of an `Ineff_Dir_Gemm` layer, the next
  tensor lies on it (`ResultElements`, `OfmapFresh`).
- `util_os.cpp:75`: a filter that is put where its ifmap lies and is larger, as in
  `-1, -2, -1` behind a small result, reaches behind what was reserved there; the
  layer's own result may lie on it, and in a product, which does not call
  `address_update`, any later result too (`FilterFits`, `FilterReserved`).
- `software_gemv.cpp:203`: a first layer that is a matrix-vector product with vector
  -1 reads `ofmap_base_addr`, which nothing has assigned (`accelerator.h:39`, `Blank`).

## 7. Plan

Done: `MemCtrl` with its abstract service and proofs, `NPUGroup` composing it,
`TLBSet` and `TLB` composing it with `PTW`, `PhysMem` with `AddrMap`, `TokenBW`, the
request generator (`NetConfig`, `LayerAccess`, `TileGen`) for all layer types; proofs
of the safety properties of all of them.

What is left:

1. `TLB` and `PhysMem` under `NPUGroup` in place of `TlbLat`. The state space is what
   stands against it: the two latencies of `MemCtrl` already let every packet
   overtake every other.
2. What Pool and Other layers touch, which the proofs about `Touched` leave out as
   `NothingLost` does.

Not modelled: configuration parsing and set-up (file input without state; the
values are CONSTANTS), logs and statistics (nothing reads them back), the
scratchpad (never created), DRAMsim3 (a submodule that is not there).

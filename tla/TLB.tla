-------------------------------- MODULE TLB --------------------------------
(***************************************************************************)
(* A set of the TLB between the memory controller and the page table       *)
(* walkers (TLB in tlb.cpp): a lookup waits for a port, a miss for the     *)
(* walk of the entry it replaces and then for a walker, and a flush for    *)
(* the walks of its NPU.  Sets have the ports and the walkers in common    *)
(* and nothing else.                                                       *)
(***************************************************************************)
EXTENDS TLBSet

CONSTANTS
  NPUNum, WalkerNum, Confs, Page, PTN, StepNum, StepLatency, MaxArrival, \* see PTW
  Ports,   \* values of m_portnum, 0 for any number of lookups per tick
  MaxTick  \* bound on the ticks at which a lookup or a walk starts

ASSUME PortAssumption == Ports \subseteq Nat /\ MaxTick \in Nat
ASSUME WalkAssumption ==
  /\ NPUNum \in Nat \ {0} /\ WalkerNum \in Nat \ {0} /\ StepNum \in Nat \ {0}
  /\ StepLatency \in Nat

VARIABLES
  curtick, \* the caller's clock
  portnum, \* m_portnum, never assigned again
  port,    \* m_port: lookups per tick; those of the past are never counted
  resume,  \* per NPU: the tick its last flush returned
  last,    \* what was looked up last, None once it was flushed
  walks    \* the walks that are not over yet, see Walk

VARIABLES conf, clock, belong, occ, upper, lower, history, tpreg \* the walkers

setvars == <<table, mrubits, valid_entry_num, remaining_zeros>>
ptwvars == <<conf, clock, belong, occ, upper, lower, history, tpreg>>
vars == <<setvars, ptwvars, curtick, portnum, port, resume, last, walks>>

W == INSTANCE PTW

NPU == 0 .. NPUNum - 1
None == [npu |-> -1, vpn |-> -1]
Ticks == curtick .. MaxTick

\* A walk of an NPU keeps a walker busy at the ticks from .. to - 1.  slot is
\* where the entry it filled was put, and goes along when a flush moves that
\* entry or the one that replaced it; Gone when one of them was flushed.
Gone == EntryNum
Walk == [npu : NPU, walker : W!Walker, slot : Slot \cup {Gone}, from : Nat, to : Nat]

-----------------------------------------------------------------------------
\* The tick of a lookup: the first one with a free port.
Started_OneMore(t) ==
  IF portnum = 0 THEN t = curtick
  ELSE port[t] <= portnum /\ \A u \in Ticks : u < t => port[u] > portnum
Started(t) ==
  IF portnum = 0 THEN t = curtick
  ELSE port[t] < portnum /\ \A u \in Ticks : u < t => port[u] >= portnum

UsePort_Now(t) == port' = IF portnum = 0 THEN port ELSE [port EXCEPT ![curtick] = @ + 1]
UsePort(t) == port' = IF portnum = 0 THEN port ELSE [port EXCEPT ![t] = @ + 1]

Hit(n, v) == SetHit(n, v) /\ UNCHANGED <<ptwvars, walks>>

\* The entry becomes usable when the walker that serves the miss is done.
Miss(n, v, t) ==
  \E idx \in Slot, w \in W!Walker :
    /\ Placed(n, v, idx) /\ W!Earliest(W!Usable(n), w)
    /\ W!Access(n, v, WalkStart(idx, t))
    /\ Fill(n, v, idx, clock'[w])
    /\ walks' = walks \cup {[npu |-> n, walker |-> w, slot |-> idx,
                             from |-> W!Begin(w, WalkStart(idx, t)), to |-> clock'[w]]}

\* tlbFlush ticks until the flush is over; nothing else runs meanwhile.
Flushing == {n \in NPU : curtick < resume[n]}

\* TLB::access and TLBSet::access.
Access(n, v) ==
  /\ Flushing = {}
  /\ curtick <= MaxTick /\ \A i \in Slot : table[i].tick <= MaxTick
  /\ \E t \in Ticks :
       /\ Started(t) /\ UsePort(t)
       /\ Hit(n, v) \/ Miss(n, v, t)
  /\ last' = [npu |-> n, vpn |-> v]
  /\ UNCHANGED <<curtick, portnum, resume>>

\* Where a flush of n moves the content of slot i.
MovedTo(n, i) ==
  IF i \in Kept(n) THEN Cardinality({k \in Kept(n) : k < i}) ELSE Gone

Flush(n) ==
  /\ Flushing = {}
  /\ SetFlush(n)
  /\ resume' = [resume EXCEPT ![n] = FlushTick(n)]
  /\ last' = IF last.npu = n THEN None ELSE last
  /\ walks' = {[x EXCEPT !.slot = MovedTo(n, @)] : x \in walks}
  /\ UNCHANGED <<ptwvars, curtick, portnum, port>>

\* Time passes up to the bound, and as long as an NPU waits for its flush.
Tick ==
  /\ curtick < MaxTick \/ Flushing # {}
  /\ curtick' = curtick + 1
  /\ port' = [t \in DOMAIN port |-> IF t = curtick THEN 0 ELSE port[t]]
  /\ walks' = {x \in walks : x.to > curtick'}
  /\ UNCHANGED <<setvars, ptwvars, portnum, resume, last>>

Init ==
  /\ SetInit
  /\ W!Init
  /\ curtick = 0 /\ last = None
  /\ portnum \in Ports /\ port = [t \in 0 .. MaxTick |-> 0]
  /\ resume = [n \in NPU |-> 0]
  /\ walks = {}

Next ==
  \/ \E n \in NPU, v \in Page : Access(n, v)
  \/ \E n \in NPU : Flush(n)
  \/ Tick

Spec == Init /\ [][Next]_vars
-----------------------------------------------------------------------------
TypeOK ==
  /\ table \in [Slot -> [vpn : Page \cup {0}, npu : NPU, tick : Nat, valid : BOOLEAN]]
  /\ mrubits \in [Slot -> BOOLEAN]
  /\ valid_entry_num \in 0 .. EntryNum /\ remaining_zeros \in Nat
  /\ curtick \in Nat /\ portnum \in Nat /\ port \in [0 .. MaxTick -> Nat]
  /\ resume \in [NPU -> Nat] /\ walks \subseteq Walk
  /\ last \in [npu : NPU, vpn : Page] \cup {None}
  /\ clock \in [W!Walker -> Nat]

\* The lookups of all NPUs use the ports one after the other: no tick has more
\* lookups than ports, and none waits for a tick while an earlier one has a
\* port free, although lookups keep arriving between those put off before.
PortOrder ==
  portnum > 0 =>
    \A t \in Ticks :
      /\ port[t] <= portnum
      /\ port[t] > 0 => \A u \in Ticks : u < t => port[u] = portnum

\* There never are more walks in progress than walkers, at whatever tick they
\* end: a walk put off because its walker, its entry or its port was busy does
\* not run beside the one it waited for, also when the entry of a walk in
\* progress is replaced or flushed.  (Most walks run when one of them begins.)
WalkBandwidth ==
  \A x \in walks :
    Cardinality({y \in walks : y.from <= x.from /\ x.from < y.to}) <= WalkerNum

\* Bit-PLRU: the entry used last is not the one replaced next, not even when
\* the bits have just been cleared or another NPU has been flushed.
LastUsedKept ==
  [][\A i \in Valid :
       Key(i) = last /\ EntryNum > 1 =>
         \/ last' = None
         \/ \E j \in Slot :
              table'[j].valid /\ [npu |-> table'[j].npu, vpn |-> table'[j].vpn] = last]_vars

\* flush(n) removes the entries of n and keeps every other NPU's, with the
\* walk it may still be waiting for.
FlushExact ==
  [][\A n \in NPU : Flush(n) => Entries' = {e \in Entries : e.npu # n}]_vars

\* flush waits for the walks of its NPU although it only sees the entries that
\* are still there.  A walk in progress that it does not wait for is one whose
\* very entry now belongs to another NPU, with a walk that ends no earlier.
FlushCoversWalks ==
  [][\A n \in NPU : Flush(n) =>
       \A x \in walks :
         x.npu = n /\ x.to > curtick =>
           \/ x.to <= FlushTick(n)
           \/ /\ x.slot \in Valid /\ table[x.slot].npu # n
              /\ x.to <= table[x.slot].tick]_vars
=============================================================================

------------------------------ MODULE TokenBW ------------------------------
(***************************************************************************)
(* Bandwidth sharing by tokens in the issue loop of                         *)
(* MemoryController::atomic (memctrl.cpp, is_token_bw): an NPU pays one      *)
(* token of the packet's channel, or borrows one (is_conserv_token), for     *)
(* each packet it sends to the DRAM. The loop takes one step per packet;     *)
(* packets arrive and tokens are added between two runs of it.               *)
(*                                                                         *)
(* The DRAM simulator is external: it may refuse a packet.                  *)
(***************************************************************************)
EXTENDS Integers, Sequences, SequencesExt, FiniteSetsExt

CONSTANTS
  NPUNum,   \* m_npu_num
  ChanNum,  \* m_total_channel_num
  Bucket,   \* m_token_thres, the tokens an NPU holds at most per channel
  Epoch,    \* per NPU: m_token_step
  Policies, \* see Policy
  Delays,   \* ticks until a packet's translation is done
  Wrap,     \* m_clock is kept modulo this multiple of every epoch
  MaxQueue  \* bound on the packets that wait

NPU == 0 .. NPUNum - 1
Chan == 0 .. ChanNum - 1
AllTokens == NPUNum * Bucket \* in a channel

ASSUME CountAssumption ==
  NPUNum \in Nat \ {0} /\ ChanNum \in Nat \ {0} /\ Bucket \in Nat \ {0}
ASSUME EpochAssumption ==
  /\ Epoch \in [NPU -> Nat \ {0}] /\ Wrap \in Nat \ {0}
  /\ \A n \in NPU : Wrap % Epoch[n] = 0

\* conserv: is_conserv_token; refuses: may the DRAM refuse a packet?
Policy == [conserv : BOOLEAN, refuses : BOOLEAN]

ASSUME PolicyAssumption ==
  Policies \subseteq Policy /\ Delays \subseteq Nat /\ MaxQueue \in Nat

VARIABLES
  policy,  \* of this simulation, never assigned again
  token,   \* m_token, per NPU and channel
  queue,   \* m_pagequeue, ordered by the tick a packet is ready
  pos,     \* the packet the loop is at, 0 before the loop
  clock,   \* m_clock
  spent,   \* per channel: packets issued minus tokens added, modulo AllTokens + 1
  aborted  \* has the assertion of tryBorrowToken failed?

vars == <<policy, token, queue, pos, clock, spent, aborted>>

Packet == [npu : NPU, chan : Chan, delay : Nat]

-----------------------------------------------------------------------------
\* Operators named X_Fault are X with one plausible mistake in it.
Added_NoLimit(tokens) == [c \in Chan |-> tokens[c] + 1]
Added_FirstOnly(tokens) ==
  [c \in Chan |-> IF c = 0 /\ tokens[c] < Bucket THEN tokens[c] + 1 ELSE tokens[c]]
\* tryAddToken: one token in every channel, up to the bucket.
Added(tokens) == [c \in Chan |-> IF tokens[c] < Bucket THEN tokens[c] + 1 ELSE tokens[c]]

Least(S) == CHOOSE x \in S : \A y \in S : x <= y

\* tryBorrowToken: the neighbours with no packet for the channel within
\* their epoch.
Lenders(n, c) ==
  {i \in NPU \ {n} : \A k \in DOMAIN queue :
     queue[k].npu = i /\ queue[k].chan = c => queue[k].delay > Epoch[i]}

Payer(p) == IF token[p.npu][p.chan] > 0 THEN p.npu ELSE Least(Lenders(p.npu, p.chan))
MayPay(p) == token[p.npu][p.chan] > 0 \/ (policy.conserv /\ Lenders(p.npu, p.chan) # {})

Paid_Borrowed(p) ==
  IF Payer(p) = p.npu THEN [token EXCEPT ![p.npu][p.chan] = @ - 1] ELSE token
Paid(p) == [token EXCEPT ![Payer(p)][p.chan] = @ - 1]

-----------------------------------------------------------------------------
AtPacket == pos \in DOMAIN queue /\ queue[pos].delay = 0 /\ ~aborted

Skip ==
  /\ AtPacket /\ ~MayPay(queue[pos])
  /\ pos' = pos + 1
  /\ UNCHANGED <<token, queue, clock, spent, aborted>>

CanPay(p) == MayPay(p) /\ token[Payer(p)][p.chan] > 0

Issue(n) ==
  /\ AtPacket /\ queue[pos].npu = n /\ CanPay(queue[pos])
  /\ token' = Paid(queue[pos])
  /\ spent' = [spent EXCEPT ![queue[pos].chan] = (@ + 1) % (AllTokens + 1)]
  /\ queue' = RemoveAt(queue, pos)
  /\ UNCHANGED <<pos, clock, aborted>>

\* The refused packet's NPU gets a token, in every channel.
Refuse ==
  /\ AtPacket /\ CanPay(queue[pos]) /\ policy.refuses
  /\ token' = [Paid(queue[pos]) EXCEPT ![queue[pos].npu] = Added(@)]
  /\ pos' = pos + 1
  /\ UNCHANGED <<queue, clock, spent, aborted>>

\* The lender that was found has no token: assert(tryConsumeToken).
Abort ==
  /\ AtPacket /\ MayPay(queue[pos]) /\ ~CanPay(queue[pos])
  /\ aborted' = TRUE
  /\ UNCHANGED <<token, queue, pos, clock, spent>>

\* A translated packet enters m_pagequeue, behind those that are not later.
Arrive(p) ==
  /\ pos = 0 /\ Len(queue) < MaxQueue
  /\ LET later == {k \in DOMAIN queue : queue[k].delay > p.delay}
     IN  queue' = InsertAt(queue, IF later = {} THEN Len(queue) + 1 ELSE Least(later), p)
  /\ UNCHANGED <<token, pos, clock, spent, aborted>>

Enter == pos = 0 /\ pos' = 1 /\ UNCHANGED <<token, queue, clock, spent, aborted>>

Refilled(n) == (clock + 1) % Epoch[n] = 0
Gained(c) == Cardinality({n \in NPU : Refilled(n) /\ token[n][c] < Bucket})

\* The loop is done; clockTick adds tokens where an epoch ends.
ClockTick ==
  /\ pos > 0 /\ ~aborted
  /\ pos \in DOMAIN queue => queue[pos].delay > 0
  /\ pos' = 0
  /\ clock' = (clock + 1) % Wrap
  /\ token' = [n \in NPU |-> IF Refilled(n) THEN Added(token[n]) ELSE token[n]]
  /\ spent' = [c \in Chan |-> (spent[c] - Gained(c)) % (AllTokens + 1)]
  /\ queue' = [k \in DOMAIN queue |->
                 [queue[k] EXCEPT !.delay = IF @ = 0 THEN 0 ELSE @ - 1]]
  /\ UNCHANGED aborted

Init ==
  /\ policy \in Policies
  /\ token = [n \in NPU |-> [c \in Chan |-> Bucket]]
  /\ queue = <<>> /\ pos = 0 /\ clock = 0
  /\ spent = [c \in Chan |-> 0]
  /\ aborted = FALSE

Loop == Enter \/ Skip \/ (\E n \in NPU : Issue(n)) \/ Refuse \/ Abort \/ ClockTick
Next ==
  /\ Loop \/ \E p \in [npu : NPU, chan : Chan, delay : Delays] : Arrive(p)
  /\ UNCHANGED policy

Spec == Init /\ [][Next]_vars

\* The loop goes on, and the DRAM does not refuse an NPU for ever.
FairSpec == Spec /\ WF_vars(Loop /\ UNCHANGED policy) /\ \A n \in NPU : SF_vars(Issue(n) /\ UNCHANGED policy)
-----------------------------------------------------------------------------
\* No NPU's bucket overflows or goes into debt.
TypeOK ==
  /\ policy \in Policies
  /\ token \in [NPU -> [Chan -> 0 .. Bucket]]
  /\ queue \in Seq(Packet) /\ Len(queue) <= MaxQueue
  /\ pos \in 0 .. MaxQueue + 1
  /\ clock \in 0 .. Wrap - 1
  /\ spent \in [Chan -> 0 .. AllTokens]
  /\ aborted \in BOOLEAN

\* memctrl.cpp:606, "return already-consumed token": each packet that reaches
\* the DRAM has cost exactly one token of its channel, its NPU's or a borrowed
\* one, and a packet the DRAM refused has cost none.
TokensConserved ==
  \A c \in Chan :
    (MapThenSumSet(LAMBDA n : token[n][c], NPU) + spent[c]) % (AllTokens + 1) = AllTokens

\* As long as the DRAM takes every packet that is so, whoever pays, and although
\* tokens are added between two runs of the loop.
IssuePaid == ~policy.refuses => TokensConserved

\* An NPU that has packets waiting from some time on goes on issuing: neither
\* an empty bucket nor the other NPUs' packets in front keep it back for ever,
\* unless the assertion of tryBorrowToken ends the simulation.
Waiting(n) == \E k \in DOMAIN queue : queue[k].npu = n
Served ==
  \/ <>aborted
  \/ \A n \in NPU : <>[]Waiting(n) => []<><<Issue(n)>>_vars
=============================================================================

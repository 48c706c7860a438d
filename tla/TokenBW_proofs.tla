--------------------------- MODULE TokenBW_proofs ---------------------------
(***************************************************************************)
(* Proofs about the tokens, for any number of NPUs and channels, any epochs *)
(* and buckets, and whoever lends to whom.                                 *)
(***************************************************************************)
EXTENDS TokenBW, FiniteSetTheorems, WellFoundedInduction, TLAPS

USE CountAssumption, EpochAssumption, PolicyAssumption

(* The tokens of a channel as a set: the k-th token of NPU n is <<n, k>>.  *)
Slot == 1 .. Bucket
Held(t, c, S) == {p \in S \X Slot : p[2] <= t[p[1]][c]}
Tokens == [NPU -> [Chan -> 0 .. Bucket]]

-----------------------------------------------------------------------------
(* The least element of a set of naturals exists and is in the set. *)
LEMMA LeastExists ==
  ASSUME NEW S \in SUBSET Nat, S # {}
  PROVE  Least(S) \in S /\ \A j \in S : Least(S) <= j
<1> DEFINE R == OpToRel(<, Nat)
<1>1. IsWellFoundedOn(R, Nat)
  BY NatLessThanWellFounded
<1>2. \A m, n \in Nat : m < n => <<m, n>> \in R
  BY DEF OpToRel
<1> HIDE DEF R
<1>3. PICK x \in S : \A y \in S : ~ (<<y, x>> \in R)
  BY <1>1, WFMin
<1>4. ASSUME NEW y \in S PROVE x <= y
  <2>1. x \in Nat /\ y \in Nat /\ ~ (y < x)
    BY <1>2, <1>3
  <2> QED BY <2>1
<1> QED BY <1>3, <1>4 DEF Least

(* Tokens are counted: there are finitely many, and at most AllTokens.     *)
LEMMA HeldFinite ==
  ASSUME NEW t \in Tokens, NEW c \in Chan, NEW S \in SUBSET NPU
  PROVE  /\ IsFiniteSet(S) /\ IsFiniteSet(Held(t, c, S))
         /\ Cardinality(Held(t, c, S)) \in 0 .. AllTokens
<1>1. IsFiniteSet(NPU) /\ Cardinality(NPU) = NPUNum
  <2>1. 0 \in Int /\ NPUNum - 1 \in Int
    OBVIOUS
  <2> QED BY <2>1, FS_Interval DEF NPU
<1>2. IsFiniteSet(Slot) /\ Cardinality(Slot) = Bucket
  <2>1. 1 \in Int /\ Bucket \in Int
    OBVIOUS
  <2> QED BY <2>1, FS_Interval DEF Slot
<1>3. IsFiniteSet(NPU \X Slot) /\ Cardinality(NPU \X Slot) = AllTokens
  BY <1>1, <1>2, FS_Product DEF AllTokens
<1>4. Held(t, c, S) \subseteq NPU \X Slot
  BY DEF Held
<1>5. /\ IsFiniteSet(Held(t, c, S)) /\ Cardinality(Held(t, c, S)) <= AllTokens
      /\ Cardinality(Held(t, c, S)) \in Nat
  BY <1>3, <1>4, FS_Subset, FS_CardinalityType
<1>6. IsFiniteSet(S)
  BY <1>1, FS_Subset
<1>7. AllTokens \in Nat
  BY DEF AllTokens
<1> QED BY <1>5, <1>6, <1>7

(* An NPU's tokens are as many as its counter says.                        *)
LEMMA OwnTokens ==
  ASSUME NEW t \in Tokens, NEW c \in Chan, NEW n \in NPU
  PROVE  Cardinality(Held(t, c, {n})) = t[n][c]
<1>1. t[n][c] \in 0 .. Bucket
  BY DEF Tokens
<1> DEFINE own == 1 .. t[n][c]
           f == [k \in own |-> <<n, k>>]
<1>2. IsFiniteSet(own) /\ Cardinality(own) = t[n][c]
  <2>1. 1 \in Int /\ t[n][c] \in Int
    BY <1>1
  <2>2. /\ IsFiniteSet(own)
        /\ Cardinality(own) = IF 1 > t[n][c] THEN 0 ELSE t[n][c] - 1 + 1
    BY <2>1, FS_Interval
  <2> QED BY <1>1, <2>2
<1>3. \A p \in Held(t, c, {n}) : p[2] \in own /\ p = <<n, p[2]>>
  BY <1>1 DEF Held, Slot
<1>4. \A k \in own : <<n, k>> \in Held(t, c, {n})
  BY <1>1 DEF Held, Slot
<1>5. f \in Bijection(own, Held(t, c, {n}))
  <2>1. f \in [own -> Held(t, c, {n})]
    BY <1>4
  <2>2. \A a, b \in own : f[a] = f[b] => a = b
    OBVIOUS
  <2>3. \A p \in Held(t, c, {n}) : \E k \in own : f[k] = p
    BY <1>3
  <2> QED BY <2>1, <2>2, <2>3 DEF Bijection, Injection, Surjection, IsInjective
<1> HIDE DEF own, f
<1>6. Cardinality(Held(t, c, {n})) = Cardinality(own)
  BY <1>2, <1>5, FS_Bijection DEF ExistsBijection
<1> QED BY <1>2, <1>6

(* Those of one more NPU are added to the others'.                         *)
LEMMA OneMore ==
  ASSUME NEW t \in Tokens, NEW c \in Chan, NEW S \in SUBSET NPU, NEW n \in S
  PROVE  Cardinality(Held(t, c, S)) = t[n][c] + Cardinality(Held(t, c, S \ {n}))
<1>1. Held(t, c, S) = Held(t, c, {n}) \cup Held(t, c, S \ {n})
  BY DEF Held
<1>2. Held(t, c, {n}) \cap Held(t, c, S \ {n}) = {}
  BY DEF Held
<1>3. /\ IsFiniteSet(Held(t, c, {n})) /\ IsFiniteSet(Held(t, c, S \ {n}))
      /\ Cardinality(Held(t, c, {n})) \in Nat /\ Cardinality(Held(t, c, S \ {n})) \in Nat
  BY HeldFinite
<1>4. Cardinality(Held(t, c, S)) = Cardinality(Held(t, c, {n}))
        + Cardinality(Held(t, c, S \ {n})) - Cardinality({})
  BY <1>1, <1>2, <1>3, FS_Union
<1> QED BY <1>3, <1>4, OwnTokens, FS_EmptySet

(* The sum that TokensConserved writes is the number of tokens held.       *)
(* Summation is recursive; the number of tokens satisfies its equation, and *)
(* a smallest set for which a solution differs from it cannot exist.       *)
LEMMA SumIsHeld ==
  ASSUME NEW t \in Tokens, NEW c \in Chan
  PROVE  MapThenSumSet(LAMBDA n : t[n][c], NPU) = Cardinality(Held(t, c, NPU))
<1> DEFINE Sums(h) == h = [s \in SUBSET NPU |->
                             IF s = {} THEN 0
                             ELSE LET x == CHOOSE x \in s : TRUE
                                  IN  t[x][c] + h[s \ {x}]]
           count == [s \in SUBSET NPU |-> Cardinality(Held(t, c, s))]
<1>1. Sums(count)
  <2>1. ASSUME NEW s \in SUBSET NPU, s # {}
        PROVE  count[s] = LET x == CHOOSE x \in s : TRUE IN t[x][c] + count[s \ {x}]
    <3> DEFINE x == CHOOSE x \in s : TRUE
    <3>1. x \in s
      BY <2>1
    <3> HIDE DEF x
    <3>2. s \ {x} \in SUBSET NPU
      OBVIOUS
    <3>3. count[s] = t[x][c] + count[s \ {x}]
      BY <3>1, <3>2, OneMore
    <3> QED BY <3>3 DEF x
  <2>2. count[{}] = 0
    <3>1. Held(t, c, {}) = {}
      BY DEF Held
    <3> QED BY <3>1, FS_EmptySet
  <2> HIDE DEF count
  <2>3. ASSUME NEW s \in SUBSET NPU
        PROVE  count[s] = IF s = {} THEN 0
                          ELSE LET x == CHOOSE x \in s : TRUE
                               IN  t[x][c] + count[s \ {x}]
    BY <2>1, <2>2
  <2>4. count = [s \in SUBSET NPU |-> count[s]]
    BY DEF count
  <2> QED BY <2>3, <2>4
<1>2. \E h : Sums(h) /\ MapThenSumSet(LAMBDA n : t[n][c], NPU) = h[NPU]
  <2> HIDE DEF count
  <2>1. MapThenSumSet(LAMBDA n : t[n][c], NPU) = (CHOOSE h : Sums(h))[NPU]
    BY DEF MapThenSumSet, MapThenFoldSet
  <2> HIDE DEF Sums
  <2> QED BY <1>1, <2>1
<1>3. PICK h : Sums(h) /\ MapThenSumSet(LAMBDA n : t[n][c], NPU) = h[NPU]
  BY <1>2
<1> DEFINE Differs(k) == \E s \in SUBSET NPU : Cardinality(s) = k /\ h[s] # count[s]
           sizes == {k \in Nat : Differs(k)}
<1>4. sizes = {}
  <2> SUFFICES ASSUME sizes # {} PROVE FALSE
    OBVIOUS
  <2> DEFINE k == Least(sizes)
  <2>1. k \in sizes /\ \A j \in sizes : k <= j
    BY LeastExists
  <2>2. PICK s \in SUBSET NPU : Cardinality(s) = k /\ h[s] # count[s]
    BY <2>1
  <2> HIDE DEF k
  <2>3. s # {}
    <3>1. h[{}] = 0 /\ count[{}] = 0
      BY <1>1, <1>3
    <3> QED BY <2>2, <3>1
  <2> DEFINE x == CHOOSE x \in s : TRUE
  <2>4. x \in s
    BY <2>3
  <2> HIDE DEF x
  <2>5. s \ {x} \in SUBSET NPU /\ Cardinality(s \ {x}) = k - 1 /\ k - 1 \in Nat
    <3>1. IsFiniteSet(s) /\ IsFiniteSet(s \ {x})
      BY HeldFinite
    <3>2. Cardinality(s \ {x}) = k - 1
      BY <2>2, <2>4, <3>1, FS_RemoveElement
    <3>3. Cardinality(s \ {x}) \in Nat
      BY <3>1, FS_CardinalityType
    <3> QED BY <3>2, <3>3
  <2>6. h[s \ {x}] = count[s \ {x}]
    <3> HIDE DEF count
    <3>1. k - 1 \notin sizes
      BY <2>1, <2>5
    <3> QED BY <2>5, <3>1
  <2>7. h[s] = t[x][c] + h[s \ {x}] /\ count[s] = t[x][c] + count[s \ {x}]
    <3> HIDE DEF count
    <3> QED BY <1>1, <1>3, <2>3 DEF x
  <2> HIDE DEF count
  <2> QED BY <2>2, <2>6, <2>7
<1>5. h[NPU] = count[NPU]
  <2>1. Cardinality(NPU) \in Nat
    BY HeldFinite, FS_CardinalityType
  <2> HIDE DEF count
  <2> QED BY <1>4, <2>1
<1> QED BY <1>3, <1>5

-----------------------------------------------------------------------------
(* The state between two steps.                                            *)

(* Per channel, issued packets and held tokens make up all tokens.         *)
Balanced == \A c \in Chan : spent[c] = AllTokens - Cardinality(Held(token, c, NPU))
IInv == TypeOK /\ (~policy.refuses => Balanced)

(* The remainder by which TokensConserved compares loses nothing.          *)
LEMMA BalancedIsConserved == TypeOK /\ Balanced => TokensConserved
<1> SUFFICES ASSUME TypeOK, Balanced, NEW c \in Chan
             PROVE  (MapThenSumSet(LAMBDA n : token[n][c], NPU) + spent[c])
                      % (AllTokens + 1) = AllTokens
  BY DEF TokensConserved
<1>1. token \in Tokens /\ AllTokens \in Nat
  BY DEF TypeOK, Tokens, AllTokens
<1>2. MapThenSumSet(LAMBDA n : token[n][c], NPU) = Cardinality(Held(token, c, NPU))
  BY <1>1, SumIsHeld
<1>3. Cardinality(Held(token, c, NPU)) \in Nat
  BY <1>1, HeldFinite
<1>4. Cardinality(Held(token, c, NPU)) + spent[c] = AllTokens
  BY <1>1, <1>3 DEF Balanced
<1>5. AllTokens % (AllTokens + 1) = AllTokens
  BY <1>1
<1> QED BY <1>2, <1>4, <1>5

(* Whoever pays has a token and is an NPU: the owner of the packet or the  *)
(* first of the lenders.                                                   *)
LEMMA PayerHas ==
  ASSUME TypeOK, NEW p \in Packet, CanPay(p)
  PROVE  Payer(p) \in NPU /\ token[Payer(p)][p.chan] \in 1 .. Bucket
<1>1. p.npu \in NPU /\ p.chan \in Chan
  BY DEF Packet
<1>2. Payer(p) \in NPU
  <2>1. CASE token[p.npu][p.chan] > 0
    BY <1>1, <2>1 DEF Payer
  <2>2. CASE ~(token[p.npu][p.chan] > 0)
    <3>1. Lenders(p.npu, p.chan) # {} /\ Lenders(p.npu, p.chan) \subseteq NPU
      BY <2>2 DEF CanPay, MayPay, Lenders
    <3>2. NPU \subseteq Nat
      BY DEF NPU
    <3>3. Least(Lenders(p.npu, p.chan)) \in NPU
      BY <3>1, <3>2, LeastExists
    <3> QED BY <2>2, <3>3 DEF Payer
  <2> QED BY <2>1, <2>2
<1>3. token[Payer(p)][p.chan] \in 0 .. Bucket
  BY <1>1, <1>2 DEF TypeOK
<1> QED BY <1>2, <1>3 DEF CanPay

(* Paying takes one token of the packet's channel away, and no other.      *)
LEMMA PaidTakesOne ==
  ASSUME TypeOK, NEW p \in Packet, CanPay(p)
  PROVE  /\ Paid(p) \in Tokens
         /\ \A c \in Chan : Cardinality(Held(Paid(p), c, NPU))
              = Cardinality(Held(token, c, NPU)) - (IF c = p.chan THEN 1 ELSE 0)
<1> DEFINE b == Payer(p)
           d == p.chan
           top == <<b, token[b][d]>>
<1>1. b \in NPU /\ token[b][d] \in 1 .. Bucket /\ d \in Chan
  BY PayerHas DEF Packet
<1>2. token \in Tokens
  BY DEF TypeOK, Tokens
<1>3. Paid(p) = [token EXCEPT ![b] = [token[b] EXCEPT ![d] = token[b][d] - 1]]
  BY <1>1, <1>2 DEF Paid, Tokens
<1> HIDE DEF b, d
<1>4. token[b] \in [Chan -> 0 .. Bucket] /\ token[b][d] - 1 \in 0 .. Bucket
  BY <1>1, <1>2 DEF Tokens
<1>5. Paid(p) \in Tokens
  BY <1>1, <1>2, <1>3, <1>4 DEF Tokens
<1>6. \A n \in NPU, c \in Chan : Paid(p)[n][c] =
        IF n = b /\ c = d THEN token[n][c] - 1 ELSE token[n][c]
  BY <1>1, <1>2, <1>3, <1>4 DEF Tokens
<1>7. ASSUME NEW c \in Chan, c # d
      PROVE  Held(Paid(p), c, NPU) = Held(token, c, NPU)
  BY <1>6, <1>7 DEF Held
<1>8. top \in Held(token, d, NPU) /\ Held(Paid(p), d, NPU) = Held(token, d, NPU) \ {top}
  <2>1. top \in Held(token, d, NPU)
    BY <1>1 DEF Held, Slot
  <2>2. ASSUME NEW q \in NPU \X Slot
        PROVE  q[2] <= Paid(p)[q[1]][d] <=> q[2] <= token[q[1]][d] /\ q # top
    <3>1. q[1] \in NPU /\ q[2] \in 1 .. Bucket /\ q = <<q[1], q[2]>>
      BY DEF Slot
    <3>2. token[q[1]][d] \in 0 .. Bucket
      BY <1>1, <1>2, <3>1 DEF Tokens
    <3>3. CASE q[1] = b
      BY <1>1, <1>6, <3>1, <3>2, <3>3
    <3>4. CASE q[1] # b
      BY <1>1, <1>6, <3>1, <3>2, <3>4
    <3> QED BY <3>3, <3>4
  <2> QED BY <2>1, <2>2 DEF Held
<1>9. /\ IsFiniteSet(Held(token, d, NPU)) /\ \A c \in Chan : Cardinality(Held(token, c, NPU)) \in Nat
  BY <1>1, <1>2, HeldFinite
<1> HIDE DEF top
<1>10. Cardinality(Held(Paid(p), d, NPU)) = Cardinality(Held(token, d, NPU)) - 1
  BY <1>8, <1>9, FS_RemoveElement
<1> QED BY <1>5, <1>7, <1>9, <1>10 DEF d

(* tryAddToken keeps within the bucket.                                    *)
LEMMA AddedWithin ==
  ASSUME NEW f \in [Chan -> 0 .. Bucket]
  PROVE  /\ Added(f) \in [Chan -> 0 .. Bucket]
         /\ \A c \in Chan : Added(f)[c] = IF f[c] < Bucket THEN f[c] + 1 ELSE f[c]
  BY DEF Added

(* The end of an epoch: in each channel the tokens grow by Gained.         *)
LEMMA RefillGains ==
  ASSUME TypeOK, NEW t,
         t = [n \in NPU |-> IF Refilled(n) THEN Added(token[n]) ELSE token[n]]
  PROVE  /\ t \in Tokens
         /\ \A c \in Chan : /\ Gained(c) \in Nat
                            /\ Cardinality(Held(t, c, NPU))
                                 = Cardinality(Held(token, c, NPU)) + Gained(c)
<1>1. token \in Tokens /\ \A n \in NPU : token[n] \in [Chan -> 0 .. Bucket]
  BY DEF TypeOK, Tokens
<1>2. t \in Tokens
  BY <1>1, AddedWithin DEF Tokens
<1>3. ASSUME NEW c \in Chan
      PROVE  /\ Gained(c) \in Nat
             /\ Cardinality(Held(t, c, NPU)) = Cardinality(Held(token, c, NPU)) + Gained(c)
  <2> DEFINE who == {n \in NPU : Refilled(n) /\ token[n][c] < Bucket}
             new == {<<n, token[n][c] + 1>> : n \in who}
             f == [n \in who |-> <<n, token[n][c] + 1>>]
  <2>1. \A n \in NPU : t[n][c] = IF n \in who THEN token[n][c] + 1 ELSE token[n][c]
    BY <1>1, AddedWithin
  <2>2. \A n \in NPU : token[n][c] \in 0 .. Bucket /\ (n \in who => token[n][c] < Bucket)
    BY <1>1
  <2>3. IsFiniteSet(who) /\ Cardinality(who) = Gained(c) /\ Gained(c) \in Nat
    <3>1. IsFiniteSet(who)
      BY <1>1, HeldFinite
    <3> QED BY <3>1, FS_CardinalityType DEF Gained
  <2>4. IsFiniteSet(new) /\ Cardinality(new) = Gained(c)
    <3>1. f \in Bijection(who, new)
      <4>1. f \in [who -> new]
        OBVIOUS
      <4>2. \A a, b \in who : f[a] = f[b] => a = b
        OBVIOUS
      <4>3. \A p \in new : \E n \in who : f[n] = p
        OBVIOUS
      <4> QED BY <4>1, <4>2, <4>3 DEF Bijection, Injection, Surjection, IsInjective
    <3> HIDE DEF who, new, f
    <3> QED BY <2>3, <3>1, FS_Bijection DEF ExistsBijection
  <2>5. Held(t, c, NPU) = Held(token, c, NPU) \cup new
    <3>1. ASSUME NEW p \in Held(t, c, NPU), p \notin Held(token, c, NPU) PROVE p \in new
      <4>1. /\ p[1] \in NPU /\ p[2] \in 1 .. Bucket /\ p = <<p[1], p[2]>>
            /\ p[2] <= t[p[1]][c] /\ ~(p[2] <= token[p[1]][c])
        BY <3>1 DEF Held, Slot
      <4>2. p[1] \in who /\ p[2] = token[p[1]][c] + 1
        <5> HIDE DEF who
        <5> QED BY <2>1, <2>2, <4>1, SMTT(30)
      <4> QED BY <4>1, <4>2
    <3>2. ASSUME NEW p \in Held(token, c, NPU) PROVE p \in Held(t, c, NPU)
      <4>1. p \in NPU \X Slot /\ p[1] \in NPU /\ p[2] \in Int /\ p[2] <= token[p[1]][c]
        BY DEF Held, Slot
      <4>2. p[2] <= t[p[1]][c]
        <5> HIDE DEF who
        <5> QED BY <2>1, <2>2, <4>1
      <4> QED BY <4>1, <4>2 DEF Held
    <3>3. ASSUME NEW n \in who PROVE <<n, token[n][c] + 1>> \in Held(t, c, NPU)
      <4>1. n \in NPU /\ t[n][c] = token[n][c] + 1 /\ token[n][c] + 1 \in 1 .. Bucket
        BY <2>1, <2>2
      <4> QED BY <4>1 DEF Held, Slot
    <3> QED BY <3>1, <3>2, <3>3
  <2>6. Held(token, c, NPU) \cap new = {}
    <3>1. ASSUME NEW n \in who PROVE <<n, token[n][c] + 1>> \notin Held(token, c, NPU)
      <4>1. n \in NPU /\ token[n][c] \in 0 .. Bucket
        BY <2>2
      <4> QED BY <4>1 DEF Held
    <3> QED BY <3>1
  <2>7. /\ IsFiniteSet(Held(token, c, NPU)) /\ Cardinality(Held(token, c, NPU)) \in Nat
    BY <1>1, HeldFinite
  <2> HIDE DEF new
  <2>8. Cardinality(Held(t, c, NPU)) = Cardinality(Held(token, c, NPU)) + Gained(c) - Cardinality({})
    BY <2>4, <2>5, <2>6, <2>7, FS_Union
  <2> QED BY <2>3, <2>7, <2>8, FS_EmptySet
<1> QED BY <1>2, <1>3

-----------------------------------------------------------------------------
(* The queue: a packet goes in, a packet goes out.                         *)

LEMMA Inserted ==
  ASSUME NEW T, NEW q \in Seq(T), NEW p \in T, NEW at \in 1 .. Len(q) + 1
  PROVE  InsertAt(q, at, p) \in Seq(T) /\ Len(InsertAt(q, at, p)) = Len(q) + 1
<1> DEFINE front == SubSeq(q, 1, at - 1)
           back == SubSeq(q, at, Len(q))
<1>1. /\ front \in Seq(T) /\ Len(front) = at - 1
      /\ back \in Seq(T) /\ Len(back) = Len(q) - at + 1
  OBVIOUS
<1>2. InsertAt(q, at, p) = front \o <<p>> \o back
  BY DEF InsertAt
<1> HIDE DEF front, back
<1> QED BY <1>1, <1>2

LEMMA Removed ==
  ASSUME NEW T, NEW q \in Seq(T), NEW at \in DOMAIN q
  PROVE  RemoveAt(q, at) \in Seq(T) /\ Len(RemoveAt(q, at)) = Len(q) - 1
<1> DEFINE front == SubSeq(q, 1, at - 1)
           back == SubSeq(q, at + 1, Len(q))
<1>1. /\ front \in Seq(T) /\ Len(front) = at - 1
      /\ back \in Seq(T) /\ Len(back) = Len(q) - at
  OBVIOUS
<1>2. RemoveAt(q, at) = front \o back
  BY DEF RemoveAt
<1> HIDE DEF front, back
<1> QED BY <1>1, <1>2

-----------------------------------------------------------------------------
(* The steps.                                                              *)

LEMMA Start == Init => IInv
<1> SUFFICES ASSUME Init PROVE IInv
  OBVIOUS
<1>1. TypeOK
  <2>1. token \in [NPU -> [Chan -> 0 .. Bucket]]
    BY DEF Init
  <2>2. policy \in Policies /\ aborted \in BOOLEAN
    BY DEF Init
  <2>5. clock \in 0 .. Wrap - 1
    BY DEF Init
  <2>3. spent \in [Chan -> 0 .. AllTokens]
    <3>1. AllTokens \in Nat
      BY DEF AllTokens
    <3> QED BY <3>1 DEF Init
  <2>4. queue \in Seq(Packet) /\ Len(queue) <= MaxQueue /\ pos \in 0 .. MaxQueue + 1
    BY DEF Init
  <2> QED BY <2>1, <2>2, <2>3, <2>4, <2>5 DEF TypeOK
<1>2. ASSUME NEW c \in Chan PROVE Cardinality(Held(token, c, NPU)) = AllTokens
  <2>1. \A n \in NPU : token[n][c] = Bucket
    BY DEF Init
  <2>2. Held(token, c, NPU) = NPU \X Slot
    BY <2>1 DEF Held, Slot
  <2>3. IsFiniteSet(NPU) /\ Cardinality(NPU) = NPUNum
    <3>1. 0 \in Int /\ NPUNum - 1 \in Int
      OBVIOUS
    <3> QED BY <3>1, FS_Interval DEF NPU
  <2>4. IsFiniteSet(Slot) /\ Cardinality(Slot) = Bucket
    <3>1. 1 \in Int /\ Bucket \in Int
      OBVIOUS
    <3> QED BY <3>1, FS_Interval DEF Slot
  <2> QED BY <2>2, <2>3, <2>4, FS_Product DEF AllTokens
<1>3. Balanced
  BY <1>2 DEF Balanced, Init, AllTokens
<1> QED BY <1>1, <1>3 DEF IInv

(* The packet the loop is at.                                              *)
LEMMA Current ==
  ASSUME TypeOK, AtPacket
  PROVE  pos \in 1 .. Len(queue) /\ queue[pos] \in Packet
  BY DEF TypeOK, AtPacket

LEMMA IssueKeeps ==
  ASSUME IInv, NEW n \in NPU, Issue(n), policy' = policy
  PROVE  IInv'
<1> DEFINE p == queue[pos]
<1>1. /\ TypeOK /\ pos \in 1 .. Len(queue) /\ p \in Packet /\ p.chan \in Chan /\ CanPay(p)
  BY Current DEF IInv, Issue, Packet
<1>2. /\ token' \in Tokens
      /\ \A c \in Chan : Cardinality(Held(token', c, NPU))
           = Cardinality(Held(token, c, NPU)) - (IF c = p.chan THEN 1 ELSE 0)
  BY <1>1, PaidTakesOne DEF Issue
<1>3. /\ spent \in [Chan -> 0 .. AllTokens] /\ AllTokens \in Nat
      /\ spent' = [spent EXCEPT ![p.chan] = (spent[p.chan] + 1) % (AllTokens + 1)]
  BY <1>1 DEF Issue, TypeOK, AllTokens
<1>4. spent' \in [Chan -> 0 .. AllTokens]
  BY <1>1, <1>3
<1>5. TypeOK'
  <2>1. queue' \in Seq(Packet) /\ Len(queue') = Len(queue) - 1
    BY <1>1, Removed DEF Issue, TypeOK
  <2>2. UNCHANGED <<policy, pos, clock, aborted>>
    BY DEF Issue
  <2> QED BY <1>1, <1>2, <1>4, <2>1, <2>2 DEF TypeOK, Tokens
<1>6. ASSUME Balanced PROVE Balanced'
  <2>1. token \in Tokens
    BY <1>1 DEF TypeOK, Tokens
  <2>2. ASSUME NEW c \in Chan
        PROVE  spent'[c] = AllTokens - Cardinality(Held(token', c, NPU))
    <3>1. /\ Cardinality(Held(token, c, NPU)) \in Nat
          /\ Cardinality(Held(token', c, NPU)) \in Nat
      BY <1>2, <2>1, HeldFinite
    <3>2. spent[c] = AllTokens - Cardinality(Held(token, c, NPU))
      BY <1>6 DEF Balanced
    <3>3. CASE c = p.chan
      <4>1. spent'[c] = (spent[c] + 1) % (AllTokens + 1)
        BY <1>1, <1>3, <3>3
      <4>2. spent[c] + 1 = AllTokens - Cardinality(Held(token', c, NPU))
        BY <1>2, <1>3, <3>1, <3>2, <3>3
      <4>3. spent[c] + 1 \in 0 .. AllTokens
        BY <1>3, <3>1, <4>2
      <4> QED BY <1>3, <4>1, <4>2, <4>3
    <3>4. CASE c # p.chan
      <4>1. spent'[c] = spent[c]
        BY <1>1, <1>3, <3>4
      <4> QED BY <1>2, <3>1, <3>2, <3>4, <4>1
    <3> QED BY <3>3, <3>4
  <2>3. Balanced' <=> \A c \in Chan : spent'[c] = AllTokens - Cardinality(Held(token', c, NPU))
    BY DEF Balanced, AllTokens, Held, NPU, Slot, Chan
  <2> QED BY <2>2, <2>3
<1> QED BY <1>5, <1>6 DEF IInv, Issue

LEMMA ClockTickKeeps ==
  ASSUME IInv, ClockTick, policy' = policy
  PROVE  IInv'
<1>1. TypeOK /\ token \in Tokens /\ AllTokens \in Nat
  BY DEF IInv, TypeOK, Tokens, AllTokens
<1>2. /\ token' \in Tokens
      /\ \A c \in Chan : /\ Gained(c) \in Nat
                         /\ Cardinality(Held(token', c, NPU))
                              = Cardinality(Held(token, c, NPU)) + Gained(c)
  BY <1>1, RefillGains DEF ClockTick
<1>3. /\ spent \in [Chan -> 0 .. AllTokens]
      /\ spent' = [c \in Chan |-> (spent[c] - Gained(c)) % (AllTokens + 1)]
  BY <1>1 DEF ClockTick, TypeOK
<1>4. spent' \in [Chan -> 0 .. AllTokens]
  BY <1>1, <1>2, <1>3
<1>5. TypeOK'
  <2>1. queue' \in Seq(Packet) /\ Len(queue') = Len(queue)
    <3> DEFINE later(q) == [q EXCEPT !.delay = IF @ = 0 THEN 0 ELSE @ - 1]
    <3>1. ASSUME NEW q \in Packet PROVE later(q) \in Packet
      <4>1. (IF q.delay = 0 THEN 0 ELSE q.delay - 1) \in Nat
        BY DEF Packet
      <4> QED BY <4>1 DEF Packet
    <3>2. queue' = [k \in DOMAIN queue |-> later(queue[k])] /\ queue \in Seq(Packet)
      BY <1>1 DEF ClockTick, TypeOK
    <3>3. \A k \in DOMAIN queue : queue[k] \in Packet
      BY <3>2
    <3> HIDE DEF later
    <3> QED BY <3>1, <3>2, <3>3
  <2>2. clock' \in 0 .. Wrap - 1 /\ pos' = 0 /\ aborted' = aborted
    BY <1>1 DEF ClockTick, TypeOK
  <2> QED BY <1>1, <1>2, <1>4, <2>1, <2>2 DEF TypeOK, Tokens
<1>6. ASSUME Balanced PROVE Balanced'
  <2>1. ASSUME NEW c \in Chan
        PROVE  spent'[c] = AllTokens - Cardinality(Held(token', c, NPU))
    <3>1. /\ Cardinality(Held(token, c, NPU)) \in Nat
          /\ Cardinality(Held(token', c, NPU)) \in 0 .. AllTokens
      BY <1>1, <1>2, HeldFinite
    <3>2. spent[c] = AllTokens - Cardinality(Held(token, c, NPU))
      BY <1>6 DEF Balanced
    <3>3. spent[c] - Gained(c) = AllTokens - Cardinality(Held(token', c, NPU))
      BY <1>1, <1>2, <3>1, <3>2
    <3>4. spent[c] - Gained(c) \in 0 .. AllTokens
      BY <1>1, <3>1, <3>3
    <3> QED BY <1>1, <1>3, <3>3, <3>4
  <2>2. Balanced' <=> \A c \in Chan : spent'[c] = AllTokens - Cardinality(Held(token', c, NPU))
    BY DEF Balanced, AllTokens, Held, NPU, Slot, Chan
  <2> QED BY <2>1, <2>2
<1> QED BY <1>5, <1>6 DEF IInv

(* The steps that give or take no token, and the refusal, which IssuePaid   *)
(* leaves out.                                                             *)
LEMMA Preserved == IInv /\ [Next]_vars => IInv'
<1> SUFFICES ASSUME IInv, [Next]_vars PROVE IInv'
  OBVIOUS
<1>1. TypeOK
  BY DEF IInv
<1>2. ASSUME TypeOK', UNCHANGED <<policy, token, spent>> PROVE IInv'
  BY <1>2 DEF IInv, Balanced, AllTokens, Held, NPU, Slot, Chan
<1>3. ASSUME Enter, policy' = policy PROVE IInv'
  BY <1>1, <1>2, <1>3 DEF Enter, TypeOK
<1>4. ASSUME Skip, policy' = policy PROVE IInv'
  <2>1. pos' \in 0 .. MaxQueue + 1 /\ UNCHANGED <<token, queue, clock, spent, aborted>>
    BY <1>1, <1>4, Current DEF Skip, TypeOK
  <2>2. TypeOK'
    BY <1>1, <1>4, <2>1 DEF TypeOK
  <2> QED BY <1>2, <1>4, <2>1, <2>2
<1>5. ASSUME Refuse, policy' = policy PROVE IInv'
  <2> DEFINE p == queue[pos]
  <2>1. /\ policy.refuses /\ pos' = pos + 1 /\ UNCHANGED <<queue, clock, spent, aborted>>
        /\ token' = [Paid(p) EXCEPT ![p.npu] = Added(@)]
    BY <1>5 DEF Refuse
  <2>2. p \in Packet /\ p.npu \in NPU /\ CanPay(p) /\ pos' \in 0 .. MaxQueue + 1
    <3>1. p \in Packet /\ pos \in 1 .. Len(queue)
      BY <1>1, <1>5, Current DEF Refuse
    <3>2. pos' \in 0 .. MaxQueue + 1
      BY <1>1, <2>1, <3>1 DEF TypeOK
    <3> HIDE DEF p
    <3>3. p.npu \in NPU
      BY <3>1 DEF Packet
    <3>4. CanPay(p)
      BY <1>5 DEF Refuse, p
    <3> QED BY <3>1, <3>2, <3>3, <3>4
  <2>3. Paid(p) \in Tokens
    BY <1>1, <2>2, PaidTakesOne
  <2>4. token' \in Tokens
    <3>1. Added(Paid(p)[p.npu]) \in [Chan -> 0 .. Bucket]
      BY <2>2, <2>3, AddedWithin DEF Tokens
    <3> QED BY <2>1, <2>2, <2>3, <3>1 DEF Tokens
  <2>5. TypeOK'
    BY <1>1, <1>5, <2>1, <2>2, <2>4 DEF TypeOK, Tokens
  <2> QED BY <1>5, <2>1, <2>5 DEF IInv
<1>6. ASSUME Abort, policy' = policy PROVE IInv'
  <2>1. TypeOK'
    BY <1>1, <1>6 DEF Abort, TypeOK
  <2> QED BY <1>2, <1>6, <2>1 DEF Abort
<1>7. ASSUME NEW p \in [npu : NPU, chan : Chan, delay : Delays], Arrive(p), policy' = policy
      PROVE  IInv'
  <2> DEFINE later == {k \in DOMAIN queue : queue[k].delay > p.delay}
             at == IF later = {} THEN Len(queue) + 1 ELSE Least(later)
  <2>1. p \in Packet /\ queue \in Seq(Packet) /\ Len(queue) < MaxQueue
        /\ UNCHANGED <<token, pos, clock, spent, aborted>> /\ queue' = InsertAt(queue, at, p)
    BY <1>1, <1>7 DEF Arrive, Packet, TypeOK
  <2>2. at \in 1 .. Len(queue) + 1
    <3>1. later \in SUBSET Nat /\ later \subseteq 1 .. Len(queue)
      BY <2>1
    <3>2. later # {} => Least(later) \in later
      BY <3>1, LeastExists
    <3>3. Len(queue) \in Nat
      BY <2>1
    <3>4. CASE later = {}
      BY <3>3, <3>4
    <3>5. CASE later # {}
      <4>1. at \in 1 .. Len(queue)
        BY <3>1, <3>2, <3>5
      <4> HIDE DEF at
      <4> QED BY <3>3, <4>1
    <3> QED BY <3>4, <3>5
  <2> HIDE DEF at
  <2>3. queue' \in Seq(Packet) /\ Len(queue') = Len(queue) + 1
    BY <2>1, <2>2, Inserted
  <2>4. TypeOK'
    BY <1>1, <1>7, <2>1, <2>3 DEF TypeOK
  <2> QED BY <1>2, <1>7, <2>1, <2>4
<1>8. CASE UNCHANGED vars
  <2>1. TypeOK'
    BY <1>1, <1>8 DEF vars, TypeOK
  <2> QED BY <1>2, <1>8, <2>1 DEF vars
<1>9. CASE Next
  BY <1>3, <1>4, <1>5, <1>6, <1>7, <1>9, IssueKeeps, ClockTickKeeps DEF Next, Loop
<1> QED BY <1>8, <1>9

LEMMA Inductive == Spec => []IInv
  BY Start, Preserved, PTL DEF Spec

-----------------------------------------------------------------------------
(* No bucket overflows and no NPU pays what it does not have, whoever       *)
(* borrows and however often the DRAM refuses (tryConsumeToken,            *)
(* tryAddToken, tryBorrowToken).                                           *)
THEOREM TokensTyped == Spec => []TypeOK
<1>1. IInv => TypeOK
  BY DEF IInv
<1> QED BY <1>1, Inductive, PTL

(* Each packet that the DRAM takes has cost one token of its channel, an    *)
(* NPU's own or a neighbour's, and ticks add what they should: the issue    *)
(* loop of atomic with a DRAM that accepts.                                *)
THEOREM IssuePaidHolds == Spec => []IssuePaid
<1>1. IInv => IssuePaid
  BY BalancedIsConserved DEF IInv, IssuePaid
<1> QED BY <1>1, Inductive, PTL
=============================================================================

--------------------------- MODULE PhysMem_proofs ---------------------------
(***************************************************************************)
(* Proofs about physical memory, for any number of NPUs, any memory and any  *)
(* number of virtual pages, in every arrangement.                          *)
(***************************************************************************)
EXTENDS PhysMem, FiniteSetTheorems, SequenceTheorems, WellFoundedInduction, TLAPS

-----------------------------------------------------------------------------
(* Addresses: splitting an address loses nothing, for every geometry of the *)
(* memory and every shape of the TLB.                                      *)

\* Quotient and remainder.
LEMMA DivMod ==
  ASSUME NEW x \in Nat, NEW k \in Nat \ {0}
  PROVE  /\ x \div k \in Nat /\ x % k \in 0 .. k - 1
         /\ x = k * (x \div k) + (x % k)
  OBVIOUS

\* A number is split in one way only.
LEMMA DivUnique ==
  ASSUME NEW k \in Nat \ {0}, NEW q \in Nat, NEW r \in 0 .. k - 1
  PROVE  (k * q + r) \div k = q /\ (k * q + r) % k = r
  OBVIOUS

\* A bound on a number bounds its quotient.
LEMMA DivBound ==
  ASSUME NEW x \in Nat, NEW k \in Nat \ {0}, NEW m \in Nat, x < k * m
  PROVE  x \div k < m
  OBVIOUS
-----------------------------------------------------------------------------
\* A product of positive numbers is positive.
LEMMA Positive ==
  ASSUME NEW a \in Nat \ {0}, NEW b \in Nat \ {0}
  PROVE  a * b \in Nat \ {0}
  OBVIOUS

\* The part of a module is not empty.
LEMMA PartPositive ==
  ASSUME NEW g \in Geometry
  PROVE  /\ g.part \in Nat \ {0} /\ g.chunk \in Nat \ {0} /\ g.modules \in Nat \ {0}
         /\ PartSize(g) \in Nat \ {0} /\ MemorySize(g) \in Nat \ {0}
  <1>1. g.part \in Nat \ {0} /\ g.chunk \in Nat \ {0} /\ g.modules \in Nat \ {0}
    BY DEF Geometry
  <1>2. PartSize(g) \in Nat \ {0}
    BY <1>1, Positive DEF PartSize
  <1> QED
    BY <1>1, <1>2, Positive DEF MemorySize

\* What an interleaved address is made of: chunk q of module m, offset r.
LEMMA Interleaved ==
  ASSUME NEW g \in Geometry, NEW x \in 0 .. MemorySize(g) - 1, g.interleaved
  PROVE  \E q \in Nat, m \in 0 .. g.modules - 1, r \in 0 .. g.chunk - 1 :
           /\ q < g.part
           /\ calcModuleIdx(g, x) = m
           /\ calcModuleAddr(g, x) = q * g.chunk + r
           /\ x = g.chunk * (g.modules * q + m) + r
  <1>1. /\ g.part \in Nat \ {0} /\ g.chunk \in Nat \ {0} /\ g.modules \in Nat \ {0}
        /\ MemorySize(g) \in Nat \ {0} /\ x \in Nat
    BY PartPositive
  <1> DEFINE c == x \div g.chunk
             r == x % g.chunk
             q == c \div g.modules
             m == c % g.modules
  <1>2. c \in Nat /\ r \in 0 .. g.chunk - 1 /\ x = g.chunk * c + r
    BY <1>1, DivMod
  <1>3. q \in Nat /\ m \in 0 .. g.modules - 1 /\ c = g.modules * q + m
    BY <1>1, <1>2, DivMod
  <1>4. x < g.chunk * (g.modules * g.part)
    BY <1>1 DEF MemorySize, PartSize
  <1>5. c < g.modules * g.part
    BY <1>1, <1>4, DivBound, g.modules * g.part \in Nat
  <1>6. q < g.part
    BY <1>1, <1>2, <1>5, DivBound
  <1>7. calcModuleIdx(g, x) = m /\ calcModuleAddr(g, x) = q * g.chunk + r
    BY DEF calcModuleIdx, calcModuleAddr
  <1> HIDE DEF c, r, q, m
  <1> QED
    BY <1>2, <1>3, <1>6, <1>7

\* Every module address leads back to the physical address it came from.
LEMMA RoundTripHolds ==
  ASSUME NEW g \in Geometry, NEW x \in 0 .. MemorySize(g) - 1
  PROVE  RoundTrip(g, x)
  <1>1. /\ g.part \in Nat \ {0} /\ g.chunk \in Nat \ {0} /\ g.modules \in Nat \ {0}
        /\ PartSize(g) \in Nat \ {0} /\ MemorySize(g) \in Nat \ {0} /\ x \in Nat
    BY PartPositive
  <1>2. CASE g.interleaved
    <2>1. PICK q \in Nat, m \in 0 .. g.modules - 1, r \in 0 .. g.chunk - 1 :
            /\ calcModuleIdx(g, x) = m
            /\ calcModuleAddr(g, x) = q * g.chunk + r
            /\ x = g.chunk * (g.modules * q + m) + r
      BY <1>2, Interleaved
    <2> DEFINE a == q * g.chunk + r
    <2>2. a = g.chunk * q + r
      BY <1>1
    <2>3. (g.chunk * q + r) % g.chunk = r
      BY <1>1, DivUnique
    <2>4. a % g.chunk = r
      BY <2>2, <2>3
    <2>5. calcPhyAddr(g, a, m) = (a - r) * g.modules + m * g.chunk + r
      BY <1>2, <2>4 DEF calcPhyAddr
    <2>6. a - r = q * g.chunk
      BY <1>1
    <2> QED
      BY <1>1, <2>1, <2>5, <2>6 DEF RoundTrip
  <1>3. CASE ~g.interleaved
    <2>1. x = PartSize(g) * (x \div PartSize(g)) + (x % PartSize(g))
      BY <1>1, DivMod
    <2>2. x \div PartSize(g) \in Nat /\ x % PartSize(g) \in 0 .. PartSize(g) - 1
      BY <1>1, DivMod
    <2> QED
      BY <1>1, <1>3, <2>1, <2>2 DEF RoundTrip, calcPhyAddr, calcModuleAddr, calcModuleIdx
  <1> QED
    BY <1>2, <1>3

\* Every address belongs to a module that exists, at an address it has.
LEMMA InModuleHolds ==
  ASSUME NEW g \in Geometry, NEW x \in 0 .. MemorySize(g) - 1
  PROVE  InModule(g, x)
  <1>1. /\ g.part \in Nat \ {0} /\ g.chunk \in Nat \ {0} /\ g.modules \in Nat \ {0}
        /\ PartSize(g) \in Nat \ {0} /\ MemorySize(g) \in Nat \ {0} /\ x \in Nat
    BY PartPositive
  <1>2. CASE g.interleaved
    <2>1. PICK q \in Nat, m \in 0 .. g.modules - 1, r \in 0 .. g.chunk - 1 :
            /\ q < g.part
            /\ calcModuleIdx(g, x) = m
            /\ calcModuleAddr(g, x) = q * g.chunk + r
      BY <1>2, Interleaved
    <2>2. q * g.chunk + r < (q + 1) * g.chunk
      BY <1>1
    <2>3. (q + 1) * g.chunk <= PartSize(g)
      BY <1>1, <2>1 DEF PartSize
    <2>4. q * g.chunk + r \in Nat
      BY <1>1
    <2> QED
      BY <1>1, <2>1, <2>2, <2>3, <2>4 DEF InModule
  <1>3. CASE ~g.interleaved
    <2>1. x < PartSize(g) * g.modules
      BY <1>1 DEF MemorySize
    <2>2. x \div PartSize(g) < g.modules /\ x \div PartSize(g) \in Nat
      BY <1>1, <2>1, DivBound, DivMod
    <2>3. x % PartSize(g) \in 0 .. PartSize(g) - 1
      BY <1>1, DivMod
    <2> QED
      BY <1>1, <1>3, <2>2, <2>3 DEF InModule, calcModuleIdx, calcModuleAddr
  <1> QED
    BY <1>2, <1>3

\* The sets that are used are a power of two, and exist: the largest one is that
\* of a nonempty set of numbers with a bound.
LEMMA SetsUsed ==
  ASSUME NEW s \in Shape
  PROVE  UsedSets(s) \in 1 .. s.sets
  <1> DEFINE P == Powers(s.sets)
             Rel == OpToRel(<, Nat)
             D == {d \in Nat : \E p \in P : d = s.sets - p}
  <1>1. s.sets \in Nat \ {0}
    BY DEF Shape
  <1>2. P \subseteq 1 .. s.sets
    BY DEF Powers
  <1>3. 1 \in P
    <2>1. 2^0 = 1 /\ 0 \in 0 .. s.sets
      BY <1>1
    <2>2. \E b \in 0 .. s.sets : 1 = 2^b
      BY <2>1, Zenon
    <2> QED
      BY <1>1, <2>2 DEF Powers
  <1>4. s.sets - 1 \in D
    BY <1>1, <1>3
  <1>5. PICK d \in D : \A e \in D : ~(<<e, d>> \in Rel)
    <2>1. IsWellFoundedOn(Rel, Nat)
      BY NatLessThanWellFounded
    <2>2. D \subseteq Nat /\ D # {}
      BY <1>4
    <2> HIDE DEF Rel, D
    <2> QED
      BY <2>1, <2>2, WFMin
  <1>6. PICK p \in P : d = s.sets - p
    BY <1>5
  <1>7. \A q \in P : q <= p
    <2> TAKE q \in P
    <2>1. s.sets - q \in D
      BY <1>1, <1>2
    <2>2. ~(<<s.sets - q, d>> \in Rel)
      BY <1>5, <2>1
    <2>3. ~(s.sets - q < d)
      BY <1>5, <2>1, <2>2 DEF OpToRel
    <2> QED
      BY <1>1, <1>2, <1>6, <2>3
  <1> HIDE DEF P
  <1>8. \E r \in P : \A q \in P : q <= r
    BY <1>7
  <1>9. (CHOOSE r \in P : \A q \in P : q <= r) \in P
    BY <1>8
  <1> QED
    BY <1>2, <1>9 DEF UsedSets, P

\* Page number, in terms of tag and set; and the set exists.
LEMMA SetAndTag ==
  ASSUME NEW s \in Shape, NEW w \in Nat
  PROVE  /\ w \div s.page = UsedSets(s) * calcVPN(s, w) + calcSetIdx(s, w)
         /\ SetExists(s, w)
  <1> DEFINE k == UsedSets(s)
             z == s.page * k
  <1>1. /\ s.page \in Nat \ {0} /\ s.sets \in Nat \ {0}
        /\ k \in Nat \ {0} /\ k <= s.sets
    BY SetsUsed DEF Shape
  <1> HIDE DEF k
  <1>2. z \in Nat \ {0}
    BY <1>1, Positive
  <1>3. /\ w = z * (w \div z) + (w % z)
        /\ w \div z \in Nat /\ w % z \in 0 .. z - 1
    <2> HIDE DEF z
    <2> QED
      BY <1>2, DivMod
  <1> DEFINE q == w \div z
             t == w % z
             u == t \div s.page
             r == t % s.page
  <1>4. q \in Nat /\ t \in Nat /\ w = z * q + t /\ t < z
    BY <1>2, <1>3
  <1> HIDE DEF q, t
  <1>5. u \in Nat /\ r \in 0 .. s.page - 1 /\ t = s.page * u + r
    BY <1>1, <1>4, DivMod
  <1>6. u < k
    BY <1>1, <1>4, DivBound
  <1> HIDE DEF u, r
  <1>7. w = s.page * (k * q + u) + r
    BY <1>1, <1>4, <1>5
  <1>8. k * q + u \in Nat
    BY <1>1, <1>4, <1>5
  <1>9. w \div s.page = k * q + u
    BY <1>1, <1>5, <1>7, <1>8, DivUnique
  <1>10. calcVPN(s, w) = q /\ calcSetIdx(s, w) = u
    BY DEF calcVPN, calcSetIdx, q, t, u, z, k
  <1>11. u \in 0 .. s.sets - 1
    BY <1>1, <1>5, <1>6
  <1> QED
    BY <1>9, <1>10, <1>11 DEF SetExists, k

\* Set and tag name one page.
LEMMA TagHolds ==
  ASSUME NEW s \in Shape, NEW x \in Nat, NEW y \in Nat
  PROVE  TagNamesPage(s, x, y)
  <1>1. /\ x \div s.page = UsedSets(s) * calcVPN(s, x) + calcSetIdx(s, x)
        /\ y \div s.page = UsedSets(s) * calcVPN(s, y) + calcSetIdx(s, y)
    BY SetAndTag
  <1> QED
    BY <1>1 DEF TagNamesPage
-----------------------------------------------------------------------------
\* What is left of a number below the range, or that far below zero.
LEMMA Wraps ==
  ASSUME NEW x \in Int, NEW m \in Nat \ {0}
  PROVE  /\ x \in 0 .. m - 1 => x % m = x
         /\ x \in -m .. -1 => x % m = x + m
  OBVIOUS

\* A unit that is no larger than a page has at most two parts: what is left of
\* the page it begins in, and the beginning of the next.
LEMMA TwoParts ==
  ASSUME NEW page \in Nat \ {0}, NEW addr \in Nat, NEW size \in 1 .. page,
         2 * page <= Unsigned
  PROVE  tlbRequest(page, addr, size) =
           IF (addr % page) + size <= page
             THEN {[vaddr |-> addr, size |-> size]}
             ELSE {[vaddr |-> addr, size |-> page - (addr % page)],
                   [vaddr |-> addr - (addr % page) + page,
                    size |-> (addr % page) + size - page]}
  <1> DEFINE r == addr % page
             page_addr(n) == addr - r + n * page
             last == (r + size - 1) \div page
             offset(n) == (addr - page_addr(n)) % Unsigned
             part(n, m) == MinOf((page - offset(n)) % Unsigned, m)
             rest == (size - part(0, size)) % Unsigned
             per_size == CHOOSE f : f = [n \in 0 .. last |->
                           IF n = 0 THEN size
                           ELSE (f[n - 1] - part(n - 1, f[n - 1])) % Unsigned]
  <1>1. tlbRequest(page, addr, size) =
          {[vaddr |-> MaxOf(addr, page_addr(n)), size |-> part(n, per_size[n])] : n \in 0 .. last}
    BY DEF tlbRequest
  <1>2. r \in 0 .. page - 1 /\ Unsigned \in Nat \ {0}
    BY DivMod, UnsignedAssumption
  <1> HIDE DEF r
  <1>3. last = IF r + size <= page THEN 0 ELSE 1
    <2>1. r + size - 1 \in 0 .. 2 * page - 2
      BY <1>2
    <2>2. CASE r + size <= page
      <3>1. page * 0 + (r + size - 1) = r + size - 1 /\ r + size - 1 \in 0 .. page - 1
        BY <1>2, <2>1, <2>2
      <3> QED
        BY <2>2, <3>1, DivUnique
    <2>3. CASE ~(r + size <= page)
      <3>1. page * 1 + (r + size - 1 - page) = r + size - 1
            /\ r + size - 1 - page \in 0 .. page - 1
        BY <1>2, <2>1, <2>3
      <3> QED
        BY <2>3, <3>1, DivUnique
    <2> QED
      BY <2>2, <2>3
  <1>4. /\ page_addr(0) = addr - r /\ offset(0) = r /\ part(0, size) = MinOf(page - r, size)
        /\ MaxOf(addr, page_addr(0)) = addr
    <2>1. page_addr(0) = addr - r /\ addr - page_addr(0) = r
      BY <1>2
    <2>2. offset(0) = r
      BY <1>2, <2>1, Wraps
    <2>3. (page - offset(0)) % Unsigned = page - r
      BY <1>2, <2>2, Wraps
    <2> QED
      BY <1>2, <2>1, <2>2, <2>3 DEF MaxOf
  <1>5. ASSUME ~(r + size <= page)
        PROVE  /\ MaxOf(addr, page_addr(1)) = addr - r + page
               /\ rest = r + size - page /\ part(1, rest) = rest
    <2>1. page_addr(1) = addr - r + page /\ addr - page_addr(1) = r - page
      BY <1>2
    <2>2. offset(1) = r - page + Unsigned
      BY <1>2, <2>1, Wraps
    <2>3. (page - offset(1)) % Unsigned = 2 * page - r
      <3>1. page - offset(1) = 2 * page - r - Unsigned
        BY <1>2, <2>2
      <3>2. 2 * page - r - Unsigned \in -Unsigned .. -1
        BY <1>2, <1>5
      <3> DEFINE d == 2 * page - r - Unsigned
      <3>3. d \in Int /\ d + Unsigned = 2 * page - r
        BY <1>2
      <3>4. d % Unsigned = d + Unsigned
        <4>1. d \in -Unsigned .. -1
          BY <3>2
        <4> HIDE DEF d
        <4> QED
          BY <1>2, <3>3, <4>1, Wraps
      <3> QED
        BY <3>1, <3>3, <3>4
    <2>4. part(0, size) = page - r
      BY <1>2, <1>4, <1>5 DEF MinOf
    <2>5. rest = r + size - page
      BY <1>2, <1>5, <2>4, Wraps
    <2>6. part(1, rest) = rest
      BY <1>2, <2>3, <2>5 DEF MinOf
    <2> QED
      BY <1>2, <2>1, <2>5, <2>6 DEF MaxOf
  <1> HIDE DEF page_addr, offset, last
  <1>6. \A n \in 0 .. last : per_size[n] = IF n = 0 THEN size ELSE rest
    <2> DEFINE Sizes(f) == f = [n \in 0 .. last |->
                           IF n = 0 THEN size
                           ELSE (f[n - 1] - part(n - 1, f[n - 1])) % Unsigned]
               sizes == [n \in 0 .. last |-> IF n = 0 THEN size ELSE rest]
    <2>1. last \in {0, 1} /\ 0 .. last \subseteq {0, 1} /\ 0 \in 0 .. last
      BY <1>3
    <2>2. Sizes(sizes)
      <3>1. ASSUME NEW n \in 0 .. last
            PROVE  sizes[n] = IF n = 0 THEN size
                              ELSE (sizes[n - 1] - part(n - 1, sizes[n - 1])) % Unsigned
        <4>1. CASE n = 0
          BY <4>1
        <4>2. CASE n = 1
          BY <2>1, <4>2
        <4> QED
          BY <2>1, <4>1, <4>2
      <3> HIDE DEF part, rest
      <3> QED
        BY <3>1
    <2>3. Sizes(per_size)
      <3> HIDE DEF sizes, part
      <3> QED
        BY <2>2
    <2> HIDE DEF per_size
    <2>4. per_size[0] = size
      BY <2>1, <2>3
    <2>5. 1 \in 0 .. last => per_size[1] = rest
      BY <2>1, <2>3, <2>4
    <2> QED
      BY <2>1, <2>4, <2>5
  <1> HIDE DEF per_size, part, rest
  <1>7. CASE r + size <= page
    <2>1. 0 .. last = {0} /\ MinOf(page - r, size) = size
      BY <1>2, <1>3, <1>7 DEF MinOf
    <2>2. tlbRequest(page, addr, size) = {[vaddr |-> addr, size |-> size]}
      BY <1>1, <1>4, <1>6, <2>1
    <2> QED
      BY <1>7, <2>2 DEF r
  <1>8. CASE ~(r + size <= page)
    <2>1. 0 .. last = {0, 1} /\ MinOf(page - r, size) = page - r
      BY <1>2, <1>3, <1>8 DEF MinOf
    <2>2. per_size[0] = size /\ per_size[1] = rest
      BY <1>6, <2>1
    <2>3. tlbRequest(page, addr, size) =
            {[vaddr |-> addr, size |-> page - r],
             [vaddr |-> addr - r + page, size |-> r + size - page]}
      BY <1>1, <1>4, <1>5, <1>8, <2>1, <2>2
    <2> QED
      BY <1>8, <2>3 DEF r
  <1> QED
    BY <1>7, <1>8

-----------------------------------------------------------------------------
(* The state between two steps.                                            *)

Owner(t) == IF OneAllocator THEN 0 ELSE t

\* The list of an allocator and its set hold the same pages of the part it
\* was given, each once.
Lists ==
  \A a \in Allocators :
    /\ free_pages[a] = {free_list[a][i] : i \in DOMAIN free_list[a]}
    /\ left[a] = Len(free_list[a])
    /\ \A i, j \in DOMAIN free_list[a] : free_list[a][i] = free_list[a][j] => i = j
    /\ free_pages[a] \subseteq PagesOf(a)

\* A mapped page was taken from the translator's allocator, and by one entry.
Tables ==
  /\ \A t \in Translators, k \in Key :
       table[t][k] # NoPage => table[t][k] \in PagesOf(Owner(t)) \ free_pages[Owner(t)]
  /\ \A t, u \in Translators, k, l \in Key :
       table[t][k] # NoPage /\ table[t][k] = table[u][l] => t = u /\ k = l

\* What an NPU uses is what the table holds, if no other NPU can free it.
Uses ==
  KeptApart =>
    \A n \in NPU, v \in VPage :
      used[n][v] \in Pages => table[TranslatorOf(n)][v + Offset(n)] = used[n][v]

IInv == TypeOK /\ Lists /\ Tables /\ Uses

-----------------------------------------------------------------------------
\* Multiples of a number do not overlap.
LEMMA Multiples ==
  ASSUME NEW s \in Nat \ {0}, NEW a \in Nat, NEW b \in Nat,
         NEW x \in 0 .. s - 1, NEW y \in 0 .. s - 1, a * s + x = b * s + y
  PROVE  a = b /\ x = y
  <1>1. (s * a + x) \div s = a /\ (s * a + x) % s = x
    BY DivUnique
  <1>2. (s * b + y) \div s = b /\ (s * b + y) % s = y
    BY DivUnique
  <1>3. s * a + x = s * b + y
    OBVIOUS
  <1> QED
    BY <1>1, <1>2, <1>3

\* Multiples of different size are apart.
LEMMA Below ==
  ASSUME NEW s \in Nat, NEW n \in Nat, NEW a \in 0 .. n - 1
  PROVE  a * s \in Nat /\ a * s + s <= n * s
  <1>1. a + 1 <= n
    OBVIOUS
  <1>2. (a + 1) * s <= n * s
    BY <1>1
  <1> QED
    BY <1>2

\* Allocators own parts of the memory that do not overlap.
LEMMA PartsApart ==
  /\ NPU \subseteq Nat /\ 0 \in NPU
  /\ Allocators \subseteq NPU /\ Translators \subseteq NPU
  /\ \A n \in NPU : AllocatorOf(n) \in Allocators /\ TranslatorOf(n) \in Translators
  /\ \A n \in NPU : Owner(TranslatorOf(n)) = AllocatorOf(n)
  /\ \A t \in Translators : Owner(t) \in Allocators
  /\ \A a \in Allocators : PagesOf(a) \subseteq Pages
  /\ \A a, b \in Allocators : a # b => PagesOf(a) \cap PagesOf(b) = {}
  <1>1. NPU \subseteq Nat /\ 0 \in NPU /\ Share \in Nat \ {0} /\ NPUNum \in Nat \ {0}
    BY CountAssumption DEF NPU
  <1>2. Allocators \subseteq NPU /\ Translators \subseteq NPU
    BY <1>1 DEF Allocators, Translators
  <1>3. \A n \in NPU : AllocatorOf(n) \in Allocators /\ TranslatorOf(n) \in Translators
    BY DEF AllocatorOf, TranslatorOf, Allocators, Translators
  <1>4. \A n \in NPU : Owner(TranslatorOf(n)) = AllocatorOf(n)
    BY DEF Owner, AllocatorOf, TranslatorOf, OneAllocator
  <1>5. \A t \in Translators : Owner(t) \in Allocators
    BY DEF Owner, Allocators, Translators, OneAllocator
  <1>6. ASSUME NEW a \in Allocators
        PROVE  PagesOf(a) \subseteq Pages
    <2>1. CASE OneAllocator
      BY <1>1, <2>1 DEF PagesOf, First, Capacity, Pages
    <2>2. CASE ~OneAllocator
      <3>1. a \in 0 .. NPUNum - 1
        BY <1>2 DEF NPU
      <3>2. a * Share \in Nat /\ a * Share + Share <= NPUNum * Share
        BY <1>1, <3>1, Below
      <3> QED
        BY <1>1, <2>2, <3>2 DEF PagesOf, First, Capacity, Pages
    <2> QED
      BY <2>1, <2>2
  <1>7. ASSUME NEW a \in Allocators, NEW b \in Allocators, a # b,
               NEW p \in PagesOf(a) \cap PagesOf(b)
        PROVE  FALSE
    <2>1. CASE OneAllocator
      BY <1>7, <2>1 DEF Allocators
    <2>2. CASE ~OneAllocator
      <3>1. a \in Nat /\ b \in Nat /\ a * Share \in Nat /\ b * Share \in Nat
        BY <1>1, <1>2
      <3>2. p \in a * Share .. a * Share + Share - 1 /\ p \in b * Share .. b * Share + Share - 1
        BY <2>2 DEF PagesOf, First, Capacity
      <3> DEFINE x == p - a * Share
                 y == p - b * Share
      <3>3. x \in 0 .. Share - 1 /\ y \in 0 .. Share - 1 /\ a * Share + x = b * Share + y
        BY <1>1, <3>1, <3>2
      <3> HIDE DEF x, y
      <3> QED
        BY <1>1, <1>7, <3>1, <3>3, Multiples
    <2> QED
      BY <2>1, <2>2
  <1> QED
    BY <1>1, <1>2, <1>3, <1>4, <1>5, <1>6, <1>7

\* The key of an NPU's virtual page, and whose it is.
LEMMA Keys ==
  ASSUME arrangement \in Arrangements
  PROVE  /\ \A n \in NPU, v \in VPage : v + Offset(n) \in Key
         /\ KeptApart =>
              \A m, n \in NPU, v, w \in VPage :
                TranslatorOf(m) = TranslatorOf(n) /\ v + Offset(m) = w + Offset(n)
                  => m = n /\ v = w
  <1>1. VPageNum \in Nat \ {0} /\ Share \in Nat \ {0} /\ NPUNum \in Nat \ {0}
    BY CountAssumption, ArrangementAssumption DEF VPageNum, Arrangement
  <1>2. ASSUME NEW n \in NPU, NEW v \in VPage
        PROVE  v + Offset(n) \in Key
    <2>1. n * Share \in Nat /\ Share * n = n * Share
      BY <1>1 DEF NPU
    <2>2. n * Share <= (NPUNum - 1) * Share
      <3>1. n <= NPUNum - 1 /\ n \in Nat
        BY <1>1 DEF NPU
      <3> QED
        BY <1>1, <3>1
    <2>3. (NPUNum - 1) * Share \in Nat
      BY <1>1
    <2> QED
      BY <1>1, <2>1, <2>2, <2>3 DEF Offset, Key, VPage
  <1>3. ASSUME KeptApart, NEW m \in NPU, NEW n \in NPU, NEW v \in VPage, NEW w \in VPage,
               TranslatorOf(m) = TranslatorOf(n), v + Offset(m) = w + Offset(n)
        PROVE  m = n /\ v = w
    <2>1. CASE ~SharedTLB
      BY <1>1, <1>3, <2>1 DEF TranslatorOf, Offset, VPage
    <2>2. CASE SharedTLB
      <3>1. v \in 0 .. Share - 1 /\ w \in 0 .. Share - 1 /\ m \in Nat /\ n \in Nat
        BY <1>1, <1>3, <2>2 DEF KeptApart, VPage, NPU
      <3>2. m * Share + v = n * Share + w
        BY <1>1, <1>3, <2>2, <3>1 DEF Offset
      <3> QED
        BY <1>1, <3>1, <3>2, Multiples
    <2> QED
      BY <2>1, <2>2
  <1> QED
    BY <1>2, <1>3

\* The arrangement decides who owns what, and never changes.
LEMMA SameArrangement ==
  ASSUME UNCHANGED arrangement
  PROVE  /\ Allocators' = Allocators /\ Translators' = Translators
         /\ VPage' = VPage /\ Key' = Key /\ KeptApart' = KeptApart
         /\ \A x : /\ PagesOf(x)' = PagesOf(x) /\ Owner(x)' = Owner(x)
                  /\ TranslatorOf(x)' = TranslatorOf(x) /\ Offset(x)' = Offset(x)
  <1>1. SharedTLB' = SharedTLB /\ DynamicPartition' = DynamicPartition /\ VPageNum' = VPageNum
    BY DEF SharedTLB, DynamicPartition, VPageNum
  <1>2. OneAllocator' = OneAllocator
    BY <1>1 DEF OneAllocator
  <1>3. Capacity' = Capacity /\ \A x : First(x)' = First(x)
    BY <1>2 DEF Capacity, First
  <1> QED
    BY <1>1, <1>2, <1>3 DEF Allocators, Translators, VPage, Key, KeptApart, PagesOf, Owner,
       TranslatorOf, Offset

\* Queue and table without the pages the NPUs remember.
MemTyped ==
  /\ free_list \in [Allocators -> Seq(Pages)]
  /\ free_pages \in [Allocators -> SUBSET Pages]
  /\ left \in [Allocators -> Nat]
  /\ table \in [Translators -> [Key -> Pages \cup {NoPage}]]

\* The head of a list that is not empty leaves list, set and counter and goes
\* into the table.
LEMMA TakeStep ==
  ASSUME IInv, UNCHANGED arrangement, NEW n \in NPU, NEW v \in VPage,
         NEW t, t = TranslatorOf(n), NEW k, k = v + Offset(n), NEW a, a = AllocatorOf(n),
         table[t][k] = NoPage, HasPage(a), TakePage(a),
         table' = [table EXCEPT ![t][k] = Head(free_list[a])]
  PROVE  Head(free_list[a]) \in Pages /\ MemTyped' /\ Lists' /\ Tables'
  <1> DEFINE l == free_list[a]
             page == Head(l)
  <1>0. /\ Allocators' = Allocators /\ Translators' = Translators /\ Key' = Key
        /\ \A x : PagesOf(x)' = PagesOf(x) /\ Owner(x)' = Owner(x)
    BY SameArrangement
  <1>1. t \in Translators /\ k \in Key /\ a \in Allocators /\ Owner(t) = a
    BY PartsApart, Keys DEF IInv, TypeOK
  <1>2. l \in Seq(Pages) /\ left[a] = Len(l) /\ Len(l) > 0 /\ l # << >>
    BY <1>1 DEF IInv, TypeOK, Lists, HasPage
  <1>3. /\ page \in Pages /\ page = l[1] /\ Tail(l) \in Seq(Pages) /\ Len(Tail(l)) = Len(l) - 1
        /\ \A i \in 1 .. Len(l) - 1 : Tail(l)[i] = l[i + 1]
    BY <1>2, HeadTailProperties
  <1>4. /\ free_list' = [free_list EXCEPT ![a] = Tail(l)]
        /\ free_pages' = [free_pages EXCEPT ![a] = free_pages[a] \ {page}]
        /\ left' = [left EXCEPT ![a] = left[a] - 1]
    BY DEF TakePage
  <1>5. MemTyped'
    <2> HIDE DEF l, page
    <2>1. free_list' \in [Allocators -> Seq(Pages)]
      BY <1>1, <1>3, <1>4 DEF IInv, TypeOK
    <2>2. free_pages' \in [Allocators -> SUBSET Pages]
      BY <1>1, <1>3, <1>4 DEF IInv, TypeOK
    <2>3. left' \in [Allocators -> Nat]
      BY <1>1, <1>2, <1>4 DEF IInv, TypeOK
    <2>4. table' = [table EXCEPT ![t][k] = page]
      BY DEF page, l
    <2>5. table' \in [Translators -> [Key -> Pages \cup {NoPage}]]
      BY <1>1, <1>3, <2>4 DEF IInv, TypeOK
    <2> QED
      BY <1>0, <2>1, <2>2, <2>3, <2>5 DEF MemTyped
  <1>6. /\ free_pages[a] = {l[i] : i \in 1 .. Len(l)}
        /\ \A i, j \in 1 .. Len(l) : l[i] = l[j] => i = j
        /\ free_pages[a] \subseteq PagesOf(a) /\ page \in free_pages[a]
    BY <1>1, <1>2, <1>3 DEF IInv, Lists
  <1>7. /\ free_list'[a] = Tail(l) /\ free_pages'[a] = free_pages[a] \ {page}
        /\ left'[a] = Len(l) - 1
        /\ \A b \in Allocators \ {a} : /\ free_list'[b] = free_list[b]
                                       /\ free_pages'[b] = free_pages[b] /\ left'[b] = left[b]
    BY <1>1, <1>2, <1>4 DEF IInv, TypeOK
  <1>8. Lists'
    <2>1. free_pages[a] \ {page} = {Tail(l)[i] : i \in 1 .. Len(l) - 1}
      <3>1. ASSUME NEW x \in free_pages[a] \ {page}
            PROVE  \E i \in 1 .. Len(l) - 1 : x = Tail(l)[i]
        <4>1. PICK j \in 1 .. Len(l) : x = l[j]
          BY <1>6
        <4>2. j # 1 /\ Len(l) \in Nat
          BY <1>2, <1>3, <4>1
        <4>3. j - 1 \in 1 .. Len(l) - 1 /\ (j - 1) + 1 = j
          BY <4>1, <4>2
        <4> QED
          BY <1>3, <4>1, <4>3
      <3>2. ASSUME NEW i \in 1 .. Len(l) - 1
            PROVE  Tail(l)[i] \in free_pages[a] \ {page}
        <4>1. i + 1 \in 1 .. Len(l) /\ 1 \in 1 .. Len(l) /\ i + 1 # 1 /\ Len(l) \in Nat
          BY <1>2
        <4> QED
          BY <1>3, <1>6, <4>1
      <3> QED
        BY <3>1, <3>2
    <2>2. \A i, j \in 1 .. Len(l) - 1 : Tail(l)[i] = Tail(l)[j] => i = j
      <3> TAKE i, j \in 1 .. Len(l) - 1
      <3>1. i + 1 \in 1 .. Len(l) /\ j + 1 \in 1 .. Len(l) /\ i \in Int /\ j \in Int
        BY <1>2
      <3> QED
        BY <1>3, <1>6, <3>1
    <2>3. DOMAIN Tail(l) = 1 .. Len(l) - 1
      BY <1>3
    <2>4. ASSUME NEW b \in Allocators
          PROVE  /\ free_pages'[b] = {free_list'[b][i] : i \in DOMAIN free_list'[b]}
                 /\ left'[b] = Len(free_list'[b])
                 /\ \A i, j \in DOMAIN free_list'[b] :
                      free_list'[b][i] = free_list'[b][j] => i = j
                 /\ free_pages'[b] \subseteq PagesOf(b)
      <3> HIDE DEF l, page
      <3>1. CASE b = a
        <4>1. left'[a] = Len(free_list'[a])
          BY <1>3, <1>7
        <4>2. free_pages'[a] = {free_list'[a][i] : i \in DOMAIN free_list'[a]}
          BY <1>7, <2>1, <2>3
        <4>3. \A i, j \in DOMAIN free_list'[a] : free_list'[a][i] = free_list'[a][j] => i = j
          BY <1>7, <2>2, <2>3
        <4>4. free_pages'[a] \subseteq PagesOf(a)
          BY <1>6, <1>7
        <4> QED
          BY <3>1, <4>1, <4>2, <4>3, <4>4
      <3>2. CASE b # a
        BY <1>7, <3>2 DEF IInv, Lists
      <3> QED
        BY <3>1, <3>2
    <2> QED
      BY <1>0, <2>4 DEF Lists
  <1>9. \A u \in Translators, j \in Key :
          table'[u][j] = IF u = t /\ j = k THEN page ELSE table[u][j]
    BY <1>1 DEF IInv, TypeOK
  <1>10. \A u \in Translators, j \in Key : table[u][j] # page
    <2> SUFFICES ASSUME NEW u \in Translators, NEW j \in Key, table[u][j] = page
                 PROVE  FALSE
      OBVIOUS
    <2>1. page # NoPage
      BY <1>3, CountAssumption DEF Pages, NoPage
    <2>2. page \in PagesOf(Owner(u)) \ free_pages[Owner(u)]
      BY <2>1 DEF IInv, Tables
    <2>3. Owner(u) \in Allocators /\ page \in PagesOf(a)
      BY <1>6, PartsApart
    <2>4. Owner(u) = a
      BY <1>1, <2>2, <2>3, PartsApart
    <2> QED
      BY <1>6, <2>2, <2>4
  <1>11. Tables'
    <2>1. ASSUME NEW u \in Translators, NEW j \in Key, table'[u][j] # NoPage
          PROVE  table'[u][j] \in PagesOf(Owner(u)) \ free_pages'[Owner(u)]
      <3>1. CASE u = t /\ j = k
        BY <1>1, <1>6, <1>7, <1>9, <3>1
      <3>2. CASE ~(u = t /\ j = k)
        <4>1. table[u][j] \in PagesOf(Owner(u)) \ free_pages[Owner(u)]
          BY <1>9, <2>1, <3>2 DEF IInv, Tables
        <4>2. free_pages'[Owner(u)] \subseteq free_pages[Owner(u)]
          BY <1>7, PartsApart
        <4> QED
          BY <1>9, <3>2, <4>1, <4>2
      <3> QED
        BY <3>1, <3>2
    <2>2. ASSUME NEW u \in Translators, NEW w \in Translators, NEW i \in Key, NEW j \in Key,
                 table'[u][i] # NoPage, table'[u][i] = table'[w][j]
          PROVE  u = w /\ i = j
      BY <1>9, <1>10, <2>2 DEF IInv, Tables
    <2> QED
      BY <1>0, <2>1, <2>2 DEF Tables
  <1> QED
    BY <1>3, <1>5, <1>8, <1>11

\* A page that leaves the table goes to the end of the list, or nowhere.
LEMMA GiveStep ==
  ASSUME IInv, UNCHANGED arrangement, NEW n \in NPU, NEW v \in VPage,
         NEW t, t = TranslatorOf(n), NEW k, k = v + Offset(n), NEW a, a = AllocatorOf(n),
         table[t][k] # NoPage, GiveBack(a, table[t][k]),
         table' = [table EXCEPT ![t][k] = NoPage]
  PROVE  MemTyped' /\ Lists' /\ Tables'
  <1> DEFINE l == free_list[a]
             page == table[t][k]
  <1>0. /\ Allocators' = Allocators /\ Translators' = Translators /\ Key' = Key
        /\ \A x : PagesOf(x)' = PagesOf(x) /\ Owner(x)' = Owner(x)
    BY SameArrangement
  <1>1. t \in Translators /\ k \in Key /\ a \in Allocators /\ Owner(t) = a
    BY PartsApart, Keys DEF IInv, TypeOK
  <1>2. page \in Pages /\ page \in PagesOf(a) \ free_pages[a]
    BY <1>1 DEF IInv, TypeOK, Tables
  <1>3. l \in Seq(Pages) /\ left[a] = Len(l) /\ Len(l) \in Nat /\ DOMAIN l = 1 .. Len(l)
    BY <1>1 DEF IInv, TypeOK, Lists
  <1>4. \A u \in Translators, j \in Key :
          table'[u][j] = IF u = t /\ j = k THEN NoPage ELSE table[u][j]
    BY <1>1 DEF IInv, TypeOK
  <1>5. table' \in [Translators -> [Key -> Pages \cup {NoPage}]]
    BY <1>1 DEF IInv, TypeOK
  <1>6. \A u, w \in Translators, i, j \in Key :
          table'[u][i] # NoPage /\ table'[u][i] = table'[w][j] => u = w /\ i = j
    BY <1>4 DEF IInv, Tables
  <1>7. \A u \in Translators, j \in Key :
          table'[u][j] # NoPage =>
            /\ table'[u][j] = table[u][j] /\ table[u][j] # page
            /\ table[u][j] \in PagesOf(Owner(u)) \ free_pages[Owner(u)]
    BY <1>1, <1>4 DEF IInv, Tables
  <1>8. CASE Refusable(a, page)
    <2>1. UNCHANGED <<free_list, free_pages, left>>
      BY <1>8 DEF GiveBack
    <2>2. MemTyped'
      BY <1>0, <1>5, <2>1 DEF MemTyped, IInv, TypeOK
    <2>3. Lists'
      BY <1>0, <2>1 DEF Lists, IInv
    <2>4. Tables'
      BY <1>0, <1>6, <1>7, <2>1 DEF Tables
    <2> QED
      BY <2>2, <2>3, <2>4
  <1>9. CASE ~Refusable(a, page)
    <2> DEFINE m == Append(l, page)
    <2>1. /\ free_list' = [free_list EXCEPT ![a] = m]
          /\ free_pages' = [free_pages EXCEPT ![a] = free_pages[a] \cup {page}]
          /\ left' = [left EXCEPT ![a] = left[a] + 1]
      BY <1>9 DEF GiveBack
    <2>2. /\ m \in Seq(Pages) /\ Len(m) = Len(l) + 1 /\ DOMAIN m = 1 .. Len(l) + 1
          /\ \A i \in 1 .. Len(l) : m[i] = l[i]
          /\ m[Len(l) + 1] = page
      BY <1>2, <1>3, AppendProperties
    <2>3. /\ free_list'[a] = m /\ free_pages'[a] = free_pages[a] \cup {page}
          /\ left'[a] = Len(l) + 1
          /\ \A b \in Allocators \ {a} : /\ free_list'[b] = free_list[b]
                                         /\ free_pages'[b] = free_pages[b] /\ left'[b] = left[b]
      BY <1>1, <1>3, <2>1 DEF IInv, TypeOK
    <2>4. /\ free_pages[a] = {l[i] : i \in 1 .. Len(l)}
          /\ \A i, j \in 1 .. Len(l) : l[i] = l[j] => i = j
          /\ free_pages[a] \subseteq PagesOf(a)
      BY <1>1, <1>3 DEF IInv, Lists
    <2>5. MemTyped'
      <3> HIDE DEF l, page, m
      <3>1. free_list' \in [Allocators -> Seq(Pages)]
        BY <1>1, <2>1, <2>2 DEF IInv, TypeOK
      <3>2. free_pages' \in [Allocators -> SUBSET Pages]
        BY <1>1, <1>2, <2>1 DEF IInv, TypeOK
      <3>3. left' \in [Allocators -> Nat]
        BY <1>1, <1>3, <2>1 DEF IInv, TypeOK
      <3> QED
        BY <1>0, <1>5, <3>1, <3>2, <3>3 DEF MemTyped
    <2>6. Lists'
      <3> HIDE DEF l, page, m
      <3>1. free_pages[a] \cup {page} = {m[i] : i \in 1 .. Len(l) + 1}
        <4>1. ASSUME NEW i \in 1 .. Len(l) + 1
              PROVE  m[i] \in free_pages[a] \cup {page}
          <5>1. CASE i = Len(l) + 1
            BY <2>2, <5>1
          <5>2. CASE i # Len(l) + 1
            <6>1. i \in 1 .. Len(l)
              BY <1>3, <5>2
            <6> QED
              BY <2>2, <2>4, <6>1
          <5> QED
            BY <5>1, <5>2
        <4>2. ASSUME NEW x \in free_pages[a] \cup {page}
              PROVE  \E i \in 1 .. Len(l) + 1 : x = m[i]
          <5>1. CASE x = page
            <6>1. Len(l) + 1 \in 1 .. Len(l) + 1
              BY <1>3
            <6> QED
              BY <2>2, <5>1, <6>1
          <5>2. CASE x # page
            <6>1. PICK i \in 1 .. Len(l) : x = l[i]
              BY <2>4, <5>2
            <6>2. i \in 1 .. Len(l) + 1
              BY <1>3
            <6> QED
              BY <2>2, <6>1, <6>2
          <5> QED
            BY <5>1, <5>2
        <4> QED
          BY <4>1, <4>2
      <3>2. \A i, j \in 1 .. Len(l) + 1 : m[i] = m[j] => i = j
        <4>1. \A i \in 1 .. Len(l) : m[i] # page
          BY <1>2, <2>2, <2>4
        <4> TAKE i, j \in 1 .. Len(l) + 1
        <4>2. /\ i = Len(l) + 1 \/ i \in 1 .. Len(l)
              /\ j = Len(l) + 1 \/ j \in 1 .. Len(l)
          BY <1>3
        <4> QED
          BY <2>2, <2>4, <4>1, <4>2
      <3>3. ASSUME NEW b \in Allocators
            PROVE  /\ free_pages'[b] = {free_list'[b][i] : i \in DOMAIN free_list'[b]}
                   /\ left'[b] = Len(free_list'[b])
                   /\ \A i, j \in DOMAIN free_list'[b] :
                        free_list'[b][i] = free_list'[b][j] => i = j
                   /\ free_pages'[b] \subseteq PagesOf(b)
        <4>1. CASE b = a
          <5>1. left'[a] = Len(free_list'[a]) /\ free_pages'[a] \subseteq PagesOf(a)
            BY <1>2, <2>2, <2>3, <2>4
          <5>2. free_pages'[a] = {free_list'[a][i] : i \in DOMAIN free_list'[a]}
            BY <2>2, <2>3, <3>1
          <5>3. \A i, j \in DOMAIN free_list'[a] : free_list'[a][i] = free_list'[a][j] => i = j
            BY <2>2, <2>3, <3>2
          <5> QED
            BY <4>1, <5>1, <5>2, <5>3
        <4>2. CASE b # a
          BY <2>3, <4>2 DEF IInv, Lists
        <4> QED
          BY <4>1, <4>2
      <3> QED
        BY <1>0, <3>3 DEF Lists
    <2>7. Tables'
      <3> HIDE DEF l, page, m
      <3>1. ASSUME NEW u \in Translators, NEW j \in Key, table'[u][j] # NoPage
            PROVE  table'[u][j] \in PagesOf(Owner(u)) \ free_pages'[Owner(u)]
        <4>1. free_pages'[Owner(u)] \subseteq free_pages[Owner(u)] \cup {page}
          BY <2>3, PartsApart
        <4> QED
          BY <1>7, <3>1, <4>1
      <3> QED
        BY <1>0, <1>6, <3>1 DEF Tables
    <2> QED
      BY <2>5, <2>6, <2>7
  <1> QED
    BY <1>8, <1>9

\* No page is both a page and one of the two marks.
LEMMA Marks == NoPage \notin Pages /\ Unseen \notin Pages
  BY CountAssumption DEF Pages, NoPage, Unseen

\* Typing of all variables from that of the parts.
LEMMA AllTyped ==
  ASSUME IInv, UNCHANGED arrangement, MemTyped',
         used' \in [NPU -> [VPage -> Pages \cup {NoPage, Unseen}]]
  PROVE  TypeOK'
  <1>1. VPage' = VPage
    BY SameArrangement
  <1> QED
    BY <1>1 DEF MemTyped, TypeOK, IInv

\* An entry that an NPU sets or clears is not what another access relies on.
LEMMA UsesStep ==
  ASSUME IInv, UNCHANGED arrangement, NEW n \in NPU, NEW v \in VPage,
         NEW x \in Pages \cup {NoPage}, NEW y \in Pages \cup {NoPage, Unseen},
         table' = [table EXCEPT ![TranslatorOf(n)][v + Offset(n)] = x],
         used' = [used EXCEPT ![n][v] = y],
         y \in Pages => x = y
  PROVE  Uses' /\ used' \in [NPU -> [VPage -> Pages \cup {NoPage, Unseen}]]
  <1>1. used' \in [NPU -> [VPage -> Pages \cup {NoPage, Unseen}]]
    BY DEF IInv, TypeOK
  <1>2. TranslatorOf(n) \in Translators /\ v + Offset(n) \in Key
    BY PartsApart, Keys DEF IInv, TypeOK
  <1>3. ASSUME KeptApart, NEW m \in NPU, NEW w \in VPage, used'[m][w] \in Pages
        PROVE  table'[TranslatorOf(m)][w + Offset(m)] = used'[m][w]
    <2>1. TranslatorOf(m) \in Translators /\ w + Offset(m) \in Key
      BY PartsApart, Keys DEF IInv, TypeOK
    <2>2. CASE m = n /\ w = v
      <3>1. used'[n][v] = y /\ table'[TranslatorOf(n)][v + Offset(n)] = x
        BY <1>2 DEF IInv, TypeOK
      <3> QED
        BY <1>3, <2>2, <3>1
    <2>3. CASE ~(m = n /\ w = v)
      <3>1. used'[m][w] = used[m][w]
        BY <2>3 DEF IInv, TypeOK
      <3>2. ~(TranslatorOf(m) = TranslatorOf(n) /\ w + Offset(m) = v + Offset(n))
        BY <1>3, <2>3, Keys DEF IInv, TypeOK
      <3>3. table'[TranslatorOf(m)][w + Offset(m)] = table[TranslatorOf(m)][w + Offset(m)]
        BY <1>2, <2>1, <3>2 DEF IInv, TypeOK
      <3> QED
        BY <1>3, <3>1, <3>3 DEF IInv, Uses
    <2> QED
      BY <2>2, <2>3
  <1>4. KeptApart' = KeptApart /\ VPage' = VPage
        /\ \A m : TranslatorOf(m)' = TranslatorOf(m) /\ Offset(m)' = Offset(m)
    BY SameArrangement
  <1> QED
    BY <1>1, <1>3, <1>4 DEF Uses

\* Nothing that the tables do not know changes if only used does.
LEMMA MemSame ==
  ASSUME IInv, UNCHANGED <<arrangement, free_list, free_pages, left, table>>
  PROVE  MemTyped' /\ Lists' /\ Tables'
  <1>1. /\ Allocators' = Allocators /\ Translators' = Translators /\ Key' = Key
        /\ \A x : PagesOf(x)' = PagesOf(x) /\ Owner(x)' = Owner(x)
    BY SameArrangement
  <1> QED
    BY <1>1 DEF IInv, TypeOK, MemTyped, Lists, Tables

-----------------------------------------------------------------------------
\* The lists begin with every page of their allocator.
LEMMA InitIInv == Init => IInv
  <1> SUFFICES ASSUME Init PROVE IInv
    OBVIOUS
  <1>1. /\ Capacity \in Nat /\ arrangement \in Arrangements
        /\ \A a \in Allocators : First(a) \in Nat
    <2>1. Share \in Nat /\ NPUNum \in Nat /\ \A a \in Allocators : a \in Nat
      BY PartsApart, CountAssumption
    <2> QED
      BY <2>1 DEF Init, Capacity, First
  <1>2. ASSUME NEW a \in Allocators
        PROVE  /\ free_list[a] = [i \in 1 .. Capacity |-> First(a) + i - 1]
               /\ free_pages[a] = First(a) .. First(a) + Capacity - 1
               /\ left[a] = Capacity /\ PagesOf(a) = free_pages[a]
    BY DEF Init, PagesOf
  <1>3. ASSUME NEW a \in Allocators
        PROVE  /\ free_list[a] \in Seq(Pages) /\ Len(free_list[a]) = Capacity
               /\ DOMAIN free_list[a] = 1 .. Capacity
               /\ \A i \in 1 .. Capacity : free_list[a][i] = First(a) + i - 1
    <2>1. First(a) \in Nat /\ PagesOf(a) \subseteq Pages
      BY <1>1, PartsApart
    <2>2. \A i \in 1 .. Capacity : First(a) + i - 1 \in Pages
      BY <1>1, <2>1 DEF PagesOf
    <2>3. free_list[a] = [i \in 1 .. Capacity |-> First(a) + i - 1]
      BY <1>2
    <2>4. free_list[a] \in [1 .. Capacity -> Pages]
      BY <2>2, <2>3
    <2>5. free_list[a] \in Seq(Pages) /\ Len(free_list[a]) = Capacity
      BY <1>1, <2>4
    <2> QED
      BY <2>3, <2>5
  <1>4. TypeOK
    <2>1. free_list \in [Allocators -> Seq(Pages)]
      BY <1>3 DEF Init
    <2>2. free_pages \in [Allocators -> SUBSET Pages]
      BY PartsApart DEF Init
    <2> QED
      BY <1>1, <2>1, <2>2 DEF Init, TypeOK
  <1>5. ASSUME NEW a \in Allocators
        PROVE  /\ free_pages[a] = {free_list[a][i] : i \in DOMAIN free_list[a]}
               /\ \A i, j \in DOMAIN free_list[a] : free_list[a][i] = free_list[a][j] => i = j
    <2>1. First(a) \in Nat /\ free_pages[a] = First(a) .. First(a) + Capacity - 1
      BY <1>1, <1>2
    <2>2. ASSUME NEW p \in free_pages[a]
          PROVE  \E i \in 1 .. Capacity : p = First(a) + i - 1
      <3>1. p \in First(a) .. First(a) + Capacity - 1
        BY <2>1
      <3>2. p - First(a) + 1 \in 1 .. Capacity /\ p = First(a) + (p - First(a) + 1) - 1
        BY <1>1, <2>1, <3>1
      <3> QED
        BY <3>2
    <2>3. \A i \in 1 .. Capacity : First(a) + i - 1 \in free_pages[a]
      <3> TAKE i \in 1 .. Capacity
      <3>1. First(a) + i - 1 \in First(a) .. First(a) + Capacity - 1
        BY <1>1, <2>1
      <3> QED
        BY <2>1, <3>1
    <2>4. \A i, j \in 1 .. Capacity : First(a) + i - 1 = First(a) + j - 1 => i = j
      BY <1>1, <2>1
    <2> QED
      BY <1>3, <2>2, <2>3, <2>4, SMTT(30)
  <1>6. Lists
    BY <1>2, <1>3, <1>5 DEF Lists
  <1>7. Tables
    BY DEF Init, Tables
  <1>8. Uses
    BY Marks DEF Init, Uses
  <1> QED
    BY <1>4, <1>6, <1>7, <1>8 DEF IInv

\* A translation that fails leaves the memory alone.
LEMMA TranslateStep ==
  ASSUME IInv, UNCHANGED arrangement, NEW n \in NPU, NEW v \in VPage, Translate(n, v)
  PROVE  IInv'
  <1> DEFINE t == TranslatorOf(n)
             k == v + Offset(n)
             a == AllocatorOf(n)
             page == Head(free_list[a])
  <1>1. t \in Translators /\ k \in Key /\ table[t][k] \in Pages \cup {NoPage}
    <2>1. t \in Translators /\ k \in Key
      BY PartsApart, Keys DEF IInv, TypeOK
    <2> QED
      BY <2>1 DEF IInv, TypeOK
  <1>2. table = [table EXCEPT ![t][k] = table[t][k]]
    BY <1>1 DEF IInv, TypeOK
  <1>3. CASE /\ table[t][k] # NoPage
             /\ used' = [used EXCEPT ![n][v] = table[t][k]]
             /\ UNCHANGED <<free_list, free_pages, left, table>>
    <2>1. Uses' /\ used' \in [NPU -> [VPage -> Pages \cup {NoPage, Unseen}]]
      <3>1. table' = [table EXCEPT ![t][k] = table[t][k]]
        BY <1>2, <1>3
      <3> DEFINE x == table[t][k]
      <3>2. /\ x \in Pages \cup {NoPage} /\ table' = [table EXCEPT ![t][k] = x]
            /\ used' = [used EXCEPT ![n][v] = x]
        BY <1>1, <1>3, <3>1
      <3> HIDE DEF x
      <3> QED
        BY <3>2, UsesStep
    <2> QED
      BY <1>3, <2>1, MemSame, AllTyped DEF IInv
  <1>4. CASE /\ table[t][k] = NoPage /\ HasPage(a)
             /\ TakePage(a)
             /\ table' = [table EXCEPT ![t][k] = page]
             /\ used' = [used EXCEPT ![n][v] = page]
    <2>1. page \in Pages /\ MemTyped' /\ Lists' /\ Tables'
      BY <1>4, TakeStep
    <2>2. Uses' /\ used' \in [NPU -> [VPage -> Pages \cup {NoPage, Unseen}]]
      BY <1>4, <2>1, UsesStep
    <2> QED
      BY <2>1, <2>2, AllTyped DEF IInv
  <1>5. CASE /\ used' = [used EXCEPT ![n][v] = NoPage]
             /\ UNCHANGED <<free_list, free_pages, left, table>>
    <2>1. Uses' /\ used' \in [NPU -> [VPage -> Pages \cup {NoPage, Unseen}]]
      <3>1. table' = [table EXCEPT ![t][k] = table[t][k]]
        BY <1>2, <1>5
      <3> QED
        BY <1>1, <1>5, <3>1, UsesStep, Marks
    <2> QED
      BY <1>5, <2>1, MemSame, AllTyped DEF IInv
  <1> QED
    BY <1>3, <1>4, <1>5 DEF Translate

\* What an NPU uses after a page was allocated ahead of use.
LEMMA AllocateStep ==
  ASSUME IInv, UNCHANGED arrangement, NEW n \in NPU, NEW v \in VPage, Allocate(n, v)
  PROVE  IInv'
  <1> DEFINE t == TranslatorOf(n)
             k == v + Offset(n)
             a == AllocatorOf(n)
             page == Head(free_list[a])
  <1>1. /\ table[t][k] = NoPage /\ HasPage(a) /\ TakePage(a)
        /\ table' = [table EXCEPT ![t][k] = page] /\ UNCHANGED used
    BY DEF Allocate
  <1>2. page \in Pages /\ MemTyped' /\ Lists' /\ Tables'
    BY <1>1, TakeStep
  <1>3. used' \in [NPU -> [VPage -> Pages \cup {NoPage, Unseen}]]
    BY <1>1 DEF IInv, TypeOK
  <1>4. Uses'
    <2>1. CASE KeptApart
      <3>1. used[n][v] \notin Pages
        BY <1>1, <2>1, Marks DEF IInv, Uses
      <3>2. used[n][v] \in Pages \cup {NoPage, Unseen} /\ used' = [used EXCEPT ![n][v] = used[n][v]]
        BY <1>1 DEF IInv, TypeOK
      <3> QED
        BY <1>1, <1>2, <3>1, <3>2, UsesStep
    <2>2. CASE ~KeptApart
      BY <2>2, SameArrangement DEF Uses
    <2> QED
      BY <2>1, <2>2
  <1> QED
    BY <1>2, <1>3, <1>4, AllTyped DEF IInv

\* After a page was freed.
LEMMA FreeStep ==
  ASSUME IInv, UNCHANGED arrangement, NEW n \in NPU, NEW v \in VPage, Free(n, v)
  PROVE  IInv'
  <1> DEFINE t == TranslatorOf(n)
             k == v + Offset(n)
  <1>1. /\ table[t][k] # NoPage /\ GiveBack(AllocatorOf(n), table[t][k])
        /\ table' = [table EXCEPT ![t][k] = NoPage]
        /\ used' = [used EXCEPT ![n][v] = Unseen]
    BY DEF Free
  <1>2. MemTyped' /\ Lists' /\ Tables'
    BY <1>1, GiveStep
  <1>3. Uses' /\ used' \in [NPU -> [VPage -> Pages \cup {NoPage, Unseen}]]
    BY <1>1, UsesStep, Marks
  <1> QED
    BY <1>2, <1>3, AllTyped DEF IInv

LEMMA Inductive == Spec => []IInv
  <1>1. IInv /\ [Next]_vars => IInv'
    <2> SUFFICES ASSUME IInv, [Next]_vars PROVE IInv'
      OBVIOUS
    <2>1. CASE Next
      BY <2>1, TranslateStep, AllocateStep, FreeStep DEF Next
    <2>2. CASE UNCHANGED vars
      <3>1. UNCHANGED arrangement /\ UNCHANGED used
            /\ UNCHANGED <<arrangement, free_list, free_pages, left, table>>
        BY <2>2 DEF vars
      <3>2. MemTyped' /\ Lists' /\ Tables'
        BY <3>1, MemSame
      <3>3. Uses' /\ used' \in [NPU -> [VPage -> Pages \cup {NoPage, Unseen}]]
        BY <3>1, SameArrangement DEF IInv, TypeOK, Uses
      <3> QED
        BY <3>1, <3>2, <3>3, AllTyped DEF IInv
    <2> QED
      BY <2>1, <2>2
  <1> QED
    BY <1>1, InitIInv, PTL DEF Spec

-----------------------------------------------------------------------------
\* The variables keep their types.
THEOREM PhysMemTyped == Spec => []TypeOK
  <1>1. IInv => TypeOK
    BY DEF IInv
  <1> QED
    BY <1>1, Inductive, PTL

\* m_free_list, m_free_pages and m_pmem_left agree, and no page is queued twice,
\* after any sequence of allocate, free and translate.
THEOREM FreeListExactHolds == Spec => []FreeListExact
  <1>1. ASSUME IInv, NEW a \in Allocators
        PROVE  Len(free_list[a]) = Cardinality(free_pages[a])
    <2> DEFINE l == free_list[a]
               S == free_pages[a]
    <2>1. /\ l \in Seq(Pages) /\ Len(l) \in Nat /\ DOMAIN l = 1 .. Len(l)
          /\ S = {l[i] : i \in 1 .. Len(l)}
          /\ \A i, j \in 1 .. Len(l) : l[i] = l[j] => i = j
      BY <1>1 DEF IInv, TypeOK, Lists
    <2> HIDE DEF l, S
    <2> DEFINE f == [i \in 1 .. Len(l) |-> l[i]]
    <2>2. f \in Bijection(1 .. Len(l), S)
      BY <2>1 DEF Bijection, Injection, Surjection, IsInjective
    <2>3. ExistsBijection(1 .. Len(l), S)
      BY <2>2 DEF ExistsBijection
    <2> QED
      BY <2>1, <2>3, FS_CountingElements DEF l, S
  <1>2. IInv => FreeListExact
    BY <1>1 DEF IInv, Lists, FreeListExact
  <1> QED
    BY <1>2, Inductive, PTL

\* No physical page has two owners, and none is free while it is mapped.
THEOREM MappedOnceHolds == Spec => []MappedOnce
  <1> SUFFICES IInv => MappedOnce
    BY Inductive, PTL
  <1> SUFFICES ASSUME IInv PROVE MappedOnce
    OBVIOUS
  <1>1. ASSUME NEW x \in Mapped
        PROVE  /\ x[1] \in Translators /\ x[2] \in Key /\ x = <<x[1], x[2]>>
               /\ table[x[1]][x[2]] # NoPage
    BY DEF Mapped
  <1>2. ASSUME NEW x \in Mapped, NEW y \in Mapped,
               table[x[1]][x[2]] = table[y[1]][y[2]]
        PROVE  x = y
    <2>1. x[1] = y[1] /\ x[2] = y[2]
      BY <1>1, <1>2 DEF IInv, Tables
    <2> QED
      BY <1>1, <2>1
  <1>3. ASSUME NEW x \in Mapped, NEW a \in Allocators,
               table[x[1]][x[2]] \in free_pages[a]
        PROVE  FALSE
    <2>1. table[x[1]][x[2]] \in PagesOf(Owner(x[1])) \ free_pages[Owner(x[1])]
      BY <1>1 DEF IInv, Tables
    <2>2. table[x[1]][x[2]] \in PagesOf(a)
      BY <1>3 DEF IInv, Lists
    <2>3. Owner(x[1]) \in Allocators
      BY <1>1, PartsApart
    <2>4. a = Owner(x[1])
      BY <2>1, <2>2, <2>3, PartsApart
    <2> QED
      BY <1>3, <2>1, <2>4
  <1> QED
    BY <1>2, <1>3 DEF MappedOnce

\* NPUs do not share memory by mistake, in any of the three arrangements.
THEOREM IsolatedHolds == Spec => []Isolated
  <1>1. ASSUME IInv, KeptApart, NEW m \in NPU, NEW n \in NPU,
               NEW v \in VPage, NEW w \in VPage,
               m # n, used[m][v] \in Pages, used[m][v] = used[n][w]
        PROVE  FALSE
    <2>1. /\ table[TranslatorOf(m)][v + Offset(m)] = table[TranslatorOf(n)][w + Offset(n)]
          /\ table[TranslatorOf(m)][v + Offset(m)] # NoPage
      BY <1>1, Marks DEF IInv, Uses
    <2>2. /\ TranslatorOf(m) \in Translators /\ TranslatorOf(n) \in Translators
          /\ v + Offset(m) \in Key /\ w + Offset(n) \in Key
      BY <1>1, PartsApart, Keys DEF IInv, TypeOK
    <2>3. TranslatorOf(m) = TranslatorOf(n) /\ v + Offset(m) = w + Offset(n)
      BY <1>1, <2>1, <2>2 DEF IInv, Tables
    <2> QED
      BY <1>1, <2>3, Keys DEF IInv, TypeOK
  <1>2. IInv => Isolated
    BY <1>1 DEF Isolated
  <1> QED
    BY <1>2, Inductive, PTL

\* The physical address of an access lies in the memory.
LEMMA PhysicalRange ==
  ASSUME NEW p \in Pages, NEW o \in Offsets
  PROVE  p * PageSize + o \in 0 .. (NPUNum * Share) * PageSize - 1
  <1> DEFINE M == NPUNum * Share
  <1>1. PageSize \in Nat \ {0} /\ M \in Nat /\ p \in 0 .. M - 1 /\ o \in 0 .. PageSize - 1
    BY CountAssumption DEF Pages, Offsets
  <1> HIDE DEF M
  <1>2. p * PageSize \in Nat /\ p * PageSize + PageSize <= M * PageSize
    BY <1>1, Below
  <1>3. M * PageSize \in Nat
    BY <1>1
  <1> QED
    BY <1>1, <1>2, <1>3 DEF M

\* callback() finds the request that a module answers, for every memory with
\* any number of modules and channels.
THEOREM CallbackAddressHolds == Spec => []CallbackAddress
  <1>1. CallbackAddress
    <2> SUFFICES ASSUME NEW g \in Geometries, Configured(g), NEW n \in NPU, NEW v \in VPage,
                        NEW o \in Offsets, Seen(n, v)
                 PROVE  /\ InModule(g, used[n][v] * PageSize + o)
                        /\ RoundTrip(g, used[n][v] * PageSize + o)
      BY DEF CallbackAddress
    <2>1. g \in Geometry /\ used[n][v] * PageSize + o \in 0 .. MemorySize(g) - 1
      BY MemoryAssumption, PhysicalRange DEF Configured, Seen
    <2> QED
      BY <2>1, InModuleHolds, RoundTripHolds
  <1> QED
    BY <1>1, PTL

\* Static partitioning keeps every NPU in a module of its own.
THEOREM ModulePrivateHolds == Spec => []ModulePrivate
  <1>1. ASSUME IInv, NEW g \in Geometries, Configured(g), g.modules = NPUNum,
               ~OneAllocator, NEW n \in NPU, NEW v \in VPage, NEW o \in Offsets,
               Seen(n, v)
        PROVE  calcModuleIdx(g, used[n][v] * PageSize + o) = n
    <2> DEFINE p == used[n][v]
               r == p - n * Share
               z == r * PageSize + o
    <2>1. /\ NPUNum \in Nat \ {0} /\ Share \in Nat \ {0} /\ PageSize \in Nat \ {0}
          /\ n \in 0 .. NPUNum - 1 /\ o \in 0 .. PageSize - 1 /\ p \in Pages
      BY <1>1, CountAssumption DEF NPU, Offsets, Seen
    <2>2. p \in n * Share .. n * Share + Share - 1
      <3>1. ~SharedTLB /\ KeptApart /\ TranslatorOf(n) = n /\ Owner(n) = n /\ v + Offset(n) \in Key
        BY <1>1, Keys DEF OneAllocator, KeptApart, TranslatorOf, Owner, IInv, TypeOK
      <3>2. table[n][v + Offset(n)] = p /\ p # NoPage
        BY <1>1, <2>1, <3>1, Marks DEF IInv, Uses
      <3>3. p \in PagesOf(n)
        BY <1>1, <3>1, <3>2, PartsApart DEF IInv, Tables
      <3> QED
        BY <1>1, <3>3 DEF PagesOf, First, Capacity
    <2>3. n * Share \in Nat /\ p \in Nat /\ r \in 0 .. Share - 1 /\ p = n * Share + r
      BY <2>1, <2>2 DEF Pages
    <2>4. g \in Geometry /\ ~g.interleaved /\ PartSize(g) \in Nat \ {0}
          /\ NPUNum * PartSize(g) = (NPUNum * Share) * PageSize
      <3>1. g \in Geometry
        BY MemoryAssumption
      <3>2. ~g.interleaved
        BY <1>1 DEF Configured, OneAllocator
      <3> QED
        BY <1>1, <3>1, <3>2, PartPositive DEF Configured, MemorySize
    <2>5. PartSize(g) = Share * PageSize
      <3> DEFINE X == PartSize(g)
                 Y == Share * PageSize
      <3>1. X \in Nat /\ Y \in Nat /\ NPUNum * X = NPUNum * Y
        BY <2>1, <2>4
      <3> HIDE DEF X, Y
      <3>2. X = Y
        BY <2>1, <3>1
      <3> QED
        BY <3>2 DEF X, Y
    <2>6. z \in 0 .. Share * PageSize - 1
      <3> HIDE DEF r
      <3>1. r * PageSize \in Nat /\ r * PageSize + PageSize <= Share * PageSize
        BY <2>1, <2>3, Below
      <3> QED
        BY <2>1, <3>1
    <2>7. p * PageSize + o = PartSize(g) * n + z
      <3> HIDE DEF r, p
      <3>1. (n * Share + r) * PageSize = (n * Share) * PageSize + r * PageSize
        BY <2>1, <2>3
      <3>2. (n * Share) * PageSize = (Share * PageSize) * n
        BY <2>1
      <3> QED
        BY <2>1, <2>3, <2>5, <3>1, <3>2
    <2>8. (PartSize(g) * n + z) \div PartSize(g) = n
      <3>1. z \in 0 .. PartSize(g) - 1 /\ n \in Nat
        BY <2>1, <2>5, <2>6
      <3> HIDE DEF z
      <3> QED
        BY <2>4, <3>1, DivUnique
    <2> QED
      BY <2>4, <2>7, <2>8 DEF calcModuleIdx
  <1>2. IInv => ModulePrivate
    BY <1>1 DEF ModulePrivate
  <1> QED
    BY <1>2, Inductive, PTL

\* Every address has a set, and an entry of the TLB is a hit for its own page only.
THEOREM TagExactHolds == Spec => []TagExact
  <1>1. ASSUME IInv, KeptApart, NEW sets \in TLBSets, NEW m \in NPU, NEW n \in NPU,
               NEW v \in VPage, NEW w \in VPage, NEW o \in Offsets, NEW q \in Offsets,
               NEW s, s = TLBOf(sets),
               NEW x, x = (v + Offset(m)) * PageSize + o,
               NEW y, y = (w + Offset(n)) * PageSize + q,
               TranslatorOf(m) = TranslatorOf(n),
               calcSetIdx(s, x) = calcSetIdx(s, y), calcVPN(s, x) = calcVPN(s, y)
        PROVE  used[m][v] = used[n][w]
    <2> DEFINE a == v + Offset(m)
               b == w + Offset(n)
    <2>1. a \in Nat /\ b \in Nat
      BY <1>1, Keys DEF Key, IInv, TypeOK
    <2>2. PageSize \in Nat \ {0} /\ o \in 0 .. PageSize - 1 /\ q \in 0 .. PageSize - 1
      BY CountAssumption DEF Offsets
    <2>3. s \in Shape /\ s.page = PageSize
      BY <1>1, <2>2, MemoryAssumption DEF Shape, TLBOf
    <2>4. x = PageSize * a + o /\ y = PageSize * b + q
      <3> HIDE DEF a, b
      <3>1. a * PageSize = PageSize * a /\ b * PageSize = PageSize * b
        BY <2>1, <2>2
      <3> QED
        BY <1>1, <3>1 DEF a, b
    <2> HIDE DEF a, b
    <2>5. x \in Nat /\ y \in Nat
      BY <2>1, <2>2, <2>4
    <2>6. x \div PageSize = a /\ y \div PageSize = b
      BY <2>1, <2>2, <2>4, DivUnique
    <2>7. a = b
      BY <1>1, <2>3, <2>5, <2>6, TagHolds DEF TagNamesPage
    <2> QED
      BY <1>1, <2>7, Keys DEF a, b, IInv, TypeOK
  <1>2. SetsExist
    <2> SUFFICES ASSUME NEW sets \in TLBSets, NEW x \in 0 .. Unsigned - 1
                 PROVE  SetExists(TLBOf(sets), x)
      BY DEF SetsExist
    <2>1. TLBOf(sets) \in Shape /\ x \in Nat
      BY CountAssumption, MemoryAssumption, UnsignedAssumption DEF TLBOf, Shape
    <2> QED
      BY <2>1, SetAndTag
  <1>3. IInv => TagExact
    BY <1>1, <1>2 DEF TagExact
  <1> QED
    BY <1>3, Inductive, PTL

-----------------------------------------------------------------------------
\* Requests (MemoryController::dramRequest and tlbRequest).

\* The parts of a unit are its bytes, each once, and each part lies in a page.
LEMMA UnitCut ==
  ASSUME NEW addr \in Nat, NEW size \in 1 .. PageSize,
         NEW T, T = tlbRequest(PageSize, addr, size)
  PROVE  /\ UNION {Bytes(q) : q \in T} = addr .. addr + size - 1
         /\ \A p, q \in T : p # q => Bytes(p) \cap Bytes(q) = {}
         /\ \A q \in T : /\ q.size \in 1 .. size /\ q.vaddr \in addr .. addr + size - 1
                         /\ \A x \in Bytes(q) : x \div PageSize = q.vaddr \div PageSize
  <1> DEFINE d == addr \div PageSize
             r == addr % PageSize
  <1>1. /\ PageSize \in Nat \ {0} /\ d \in Nat /\ r \in 0 .. PageSize - 1
        /\ addr = PageSize * d + r
    BY CountAssumption, DivMod
  <1>2. T = IF r + size <= PageSize
              THEN {[vaddr |-> addr, size |-> size]}
              ELSE {[vaddr |-> addr, size |-> PageSize - r],
                    [vaddr |-> addr - r + PageSize, size |-> r + size - PageSize]}
    BY <1>1, AddressAssumption, TwoParts
  <1> HIDE DEF d, r
  <1>3. \A y \in 0 .. PageSize - 1 : (PageSize * d + y) \div PageSize = d
    BY <1>1, DivUnique
  <1>4. CASE r + size <= PageSize
    <2> DEFINE q == [vaddr |-> addr, size |-> size]
    <2>1. T = {q} /\ Bytes(q) = addr .. addr + size - 1
      BY <1>2, <1>4 DEF Bytes
    <2>2. ASSUME NEW x \in addr .. addr + size - 1
          PROVE  x \div PageSize = d
      <3>1. x - addr + r \in 0 .. PageSize - 1 /\ x = PageSize * d + (x - addr + r)
        BY <1>1, <1>4
      <3> QED
        BY <1>3, <3>1
    <2>3. addr \in addr .. addr + size - 1 /\ q.vaddr = addr /\ q.size = size /\ size \in 1 .. size
      OBVIOUS
    <2> HIDE DEF q
    <2> QED
      BY <2>1, <2>2, <2>3
  <1>5. CASE ~(r + size <= PageSize)
    <2> DEFINE next == addr - r + PageSize
               p == [vaddr |-> addr, size |-> PageSize - r]
               q == [vaddr |-> next, size |-> r + size - PageSize]
    <2>1. /\ T = {p, q} /\ Bytes(p) = addr .. next - 1 /\ Bytes(q) = next .. addr + size - 1
          /\ next \in addr + 1 .. addr + size - 1
      BY <1>1, <1>2, <1>5 DEF Bytes
    <2>2. ASSUME NEW x \in addr .. next - 1
          PROVE  x \div PageSize = d
      <3>1. x - addr + r \in 0 .. PageSize - 1 /\ x = PageSize * d + (x - addr + r)
        BY <1>1
      <3> QED
        BY <1>3, <3>1
    <2>3. ASSUME NEW x \in next .. addr + size - 1
          PROVE  x \div PageSize = d + 1
      <3>1. PageSize * (d + 1) = PageSize * d + PageSize
        BY <1>1
      <3>2. next = PageSize * (d + 1)
        BY <1>1, <3>1
      <3>3. x - next \in 0 .. PageSize - 1 /\ x = PageSize * (d + 1) + (x - next)
        BY <1>1, <2>1, <3>2
      <3>4. (PageSize * (d + 1) + (x - next)) \div PageSize = d + 1
        <4> HIDE DEF next
        <4> QED
          BY <1>1, <3>3, DivUnique
      <3> QED
        BY <3>3, <3>4
    <2>4. /\ p.vaddr = addr /\ q.vaddr = next
          /\ p.size \in 1 .. size /\ q.size \in 1 .. size
      BY <1>1, <1>5
    <2> HIDE DEF p, q, next
    <2>5. /\ addr \in addr .. next - 1 /\ next \in next .. addr + size - 1
          /\ addr .. next - 1 \subseteq addr .. addr + size - 1
          /\ next .. addr + size - 1 \subseteq addr .. addr + size - 1
          /\ (addr .. next - 1) \cap (next .. addr + size - 1) = {}
          /\ (addr .. next - 1) \cup (next .. addr + size - 1) = addr .. addr + size - 1
      BY <2>1
    <2>6. \A z \in T : /\ z.size \in 1 .. size /\ z.vaddr \in addr .. addr + size - 1
                       /\ \A x \in Bytes(z) : x \div PageSize = z.vaddr \div PageSize
      BY <2>1, <2>2, <2>3, <2>4, <2>5
    <2>7. UNION {Bytes(z) : z \in T} = addr .. addr + size - 1
      <3>1. UNION {Bytes(z) : z \in T} = Bytes(p) \cup Bytes(q)
        BY <2>1
      <3> QED
        BY <2>1, <2>5, <3>1
    <2>8. \A y, z \in T : y # z => Bytes(y) \cap Bytes(z) = {}
      BY <2>1, <2>5
    <2> QED
      BY <2>6, <2>7, <2>8
  <1> QED
    BY <1>4, <1>5

\* The same of a request of any size, cut into units first.
LEMMA RequestCut ==
  ASSUME NEW u \in 1 .. PageSize, NEW b \in Nat, NEW size \in Nat \ {0},
         NEW T, T = dramRequest(PageSize, u, b, size)
  PROVE  /\ UNION {Bytes(q) : q \in T} = b .. b + size - 1
         /\ \A p, q \in T : p # q => Bytes(p) \cap Bytes(q) = {}
         /\ \A q \in T : /\ q.size \in 1 .. u /\ q.vaddr \in b .. b + size - 1
                         /\ \A x \in Bytes(q) : x \div PageSize = q.vaddr \div PageSize
  <1> DEFINE units == 0 .. (size - 1) \div u
             len(k) == MinOf(u, size - k * u)
             cut(k) == tlbRequest(PageSize, b + k * u, len(k))
             chunk(k) == b + k * u .. b + k * u + len(k) - 1
  <1>1. /\ PageSize \in Nat \ {0} /\ u \in Nat \ {0} /\ u <= PageSize /\ size - 1 \in Nat
        /\ T = UNION {cut(k) : k \in units}
    BY CountAssumption DEF dramRequest
  <1>2. ASSUME NEW k \in units
        PROVE  /\ k \in Nat /\ k * u \in Nat /\ len(k) \in 1 .. u
               /\ chunk(k) \subseteq b .. b + size - 1
    <2> DEFINE last == (size - 1) \div u
    <2>1. last \in Nat /\ size - 1 = u * last + ((size - 1) % u)
          /\ (size - 1) % u \in 0 .. u - 1
      BY <1>1, DivMod
    <2>2. k \in Nat /\ k <= last
      BY <2>1
    <2> HIDE DEF last
    <2>3. k * u <= u * last /\ k * u \in Nat
      BY <1>1, <2>1, <2>2
    <2>4. k * u <= size - 1
      <3>1. u * last \in Nat
        BY <1>1, <2>1
      <3> QED
        BY <1>1, <2>1, <2>3, <3>1
    <2> DEFINE z == k * u
    <2>5. z \in Nat /\ z <= size - 1
      BY <2>3, <2>4
    <2> HIDE DEF z
    <2>6. MinOf(u, size - z) \in 1 .. u /\ z + MinOf(u, size - z) <= size
      BY <1>1, <2>5 DEF MinOf
    <2>7. b + z .. b + z + MinOf(u, size - z) - 1 \subseteq b .. b + size - 1
      BY <1>1, <2>5, <2>6
    <2> QED
      BY <2>2, <2>3, <2>6, <2>7 DEF z
  <1>3. ASSUME NEW x \in b .. b + size - 1
        PROVE  \E k \in units : x \in chunk(k)
    <2> DEFINE k == (x - b) \div u
               y == (x - b) % u
    <2>1. x - b \in Nat /\ k \in Nat /\ y \in 0 .. u - 1 /\ x - b = u * k + y
      <3> DEFINE w == x - b
      <3>1. w \in Nat
        OBVIOUS
      <3> HIDE DEF w
      <3>2. w \div u \in Nat /\ w % u \in 0 .. u - 1 /\ w = u * (w \div u) + (w % u)
        BY <1>1, <3>1, DivMod
      <3> QED
        BY <3>1, <3>2 DEF w
    <2> HIDE DEF k, y
    <2>2. k \in units
      <3> DEFINE last == (size - 1) \div u
                 z == (size - 1) % u
      <3>1. last \in Nat /\ z \in 0 .. u - 1 /\ size - 1 = u * last + z
        BY <1>1, DivMod
      <3> HIDE DEF last, z
      <3>2. u * k + y <= u * last + z
        BY <1>1, <2>1, <3>1
      <3>3. CASE k > last
        <4>1. u * k >= u * (last + 1)
          BY <1>1, <2>1, <3>1, <3>3
        <4>2. u * (last + 1) = u * last + u
          BY <1>1, <3>1
        <4>3. u * k \in Nat /\ u * last \in Nat
          BY <1>1, <2>1, <3>1
        <4> QED
          BY <1>1, <2>1, <3>1, <3>2, <4>1, <4>2, <4>3
      <3> QED
        BY <2>1, <3>1, <3>3 DEF last
    <2> DEFINE z == k * u
    <2>3. z \in Nat /\ x = b + z + y
      BY <1>1, <2>1
    <2> HIDE DEF z
    <2>4. x \in b + z .. b + z + MinOf(u, size - z) - 1
      BY <1>1, <2>1, <2>3 DEF MinOf
    <2> QED
      BY <2>2, <2>4 DEF z
  <1>4. ASSUME NEW j \in units, NEW k \in units, j # k
        PROVE  chunk(j) \cap chunk(k) = {}
    <2>1. /\ j \in Nat /\ k \in Nat /\ j * u \in Nat /\ k * u \in Nat
          /\ len(j) \in 1 .. u /\ len(k) \in 1 .. u
      BY <1>2
    <2>2. j < k => j * u + u <= k * u
      BY <1>1, <2>1
    <2>3. k < j => k * u + u <= j * u
      BY <1>1, <2>1
    <2>4. j < k \/ k < j
      BY <1>4, <2>1
    <2> DEFINE y == j * u
               z == k * u
               l == len(j)
               m == len(k)
    <2>5. /\ y \in Nat /\ z \in Nat /\ l \in 1 .. u /\ m \in 1 .. u
          /\ (y + u <= z \/ z + u <= y)
      BY <2>1, <2>2, <2>3, <2>4
    <2> HIDE DEF y, z, l, m, len
    <2>6. (b + y .. b + y + l - 1) \cap (b + z .. b + z + m - 1) = {}
      BY <1>1, <2>5
    <2> QED
      BY <2>6 DEF y, z, l, m
  <1>5. ASSUME NEW k \in units
        PROVE  /\ UNION {Bytes(q) : q \in cut(k)} = chunk(k)
               /\ \A p, q \in cut(k) : p # q => Bytes(p) \cap Bytes(q) = {}
               /\ \A q \in cut(k) :
                    /\ q.size \in 1 .. len(k) /\ q.vaddr \in chunk(k)
                    /\ \A x \in Bytes(q) : x \div PageSize = q.vaddr \div PageSize
    <2>1. b + k * u \in Nat /\ len(k) \in 1 .. PageSize
      <3>1. k * u \in Nat /\ len(k) \in 1 .. u
        BY <1>2
      <3> HIDE DEF len
      <3> QED
        BY <1>1, <3>1
    <2> HIDE DEF len
    <2> QED
      BY <2>1, UnitCut
  <1> HIDE DEF units, cut, chunk
  <1>6. ASSUME NEW q \in T
        PROVE  \E k \in units : q \in cut(k) /\ Bytes(q) \subseteq chunk(k)
    BY <1>1, <1>5
  <1>7. UNION {Bytes(q) : q \in T} = b .. b + size - 1
    <2>1. ASSUME NEW x \in b .. b + size - 1 PROVE \E q \in T : x \in Bytes(q)
      BY <1>1, <1>3, <1>5
    <2>2. ASSUME NEW q \in T PROVE Bytes(q) \subseteq b .. b + size - 1
      BY <1>2, <1>6
    <2> QED
      BY <2>1, <2>2
  <1>8. ASSUME NEW p \in T, NEW q \in T, p # q
        PROVE  Bytes(p) \cap Bytes(q) = {}
    <2>1. PICK j \in units : p \in cut(j) /\ Bytes(p) \subseteq chunk(j)
      BY <1>6
    <2>2. PICK k \in units : q \in cut(k) /\ Bytes(q) \subseteq chunk(k)
      BY <1>6
    <2>3. CASE j = k
      BY <1>5, <1>8, <2>1, <2>2, <2>3
    <2>4. CASE j # k
      BY <1>4, <2>1, <2>2, <2>4
    <2> QED
      BY <2>3, <2>4
  <1>9. ASSUME NEW q \in T
        PROVE  /\ q.size \in 1 .. u /\ q.vaddr \in b .. b + size - 1
               /\ \A x \in Bytes(q) : x \div PageSize = q.vaddr \div PageSize
    <2>1. PICK k \in units : q \in cut(k)
      BY <1>6
    <2>2. /\ q.size \in 1 .. len(k) /\ q.vaddr \in chunk(k)
          /\ \A x \in Bytes(q) : x \div PageSize = q.vaddr \div PageSize
      BY <1>5, <2>1
    <2>3. len(k) \in 1 .. u /\ chunk(k) \subseteq b .. b + size - 1
      BY <1>2
    <2> HIDE DEF len
    <2> QED
      BY <1>1, <2>2, <2>3
  <1> QED
    BY <1>7, <1>8, <1>9
\* A part is translated as a whole, by the page it begins in, and the parts are
\* the request (sendMemReq with the addresses of tlbAccess).
THEOREM RequestTranslatedHolds == Spec => []RequestTranslated
  <1>1. IInv => RequestTranslated
    <2>0. SUFFICES ASSUME IInv, NEW u \in Units, NEW n \in NPU, NEW b \in ByteAddr,
                        NEW e \in ByteAddr, b <= e, u <= PageSize
                 PROVE  LET parts == Parts[u][b][e]
                            translated(x) == used[n][x \div PageSize] * PageSize + (x % PageSize)
                        IN /\ UNION {Bytes(q) : q \in parts} = b .. e
                           /\ \A p, q \in parts : p # q => Bytes(p) \cap Bytes(q) = {}
                           /\ \A q \in parts :
                                /\ q.size <= u
                                /\ \A x \in Bytes(q) :
                                     translated(x) = translated(q.vaddr) + x - q.vaddr
      BY DEF RequestTranslated
    <2> DEFINE parts == Parts[u][b][e]
               frame(x) == used[n][x \div PageSize]
    <2>1. /\ PageSize \in Nat \ {0} /\ u \in 1 .. PageSize
          /\ VPageNum \in Nat \ {0} /\ MostPages \in Nat \ {0} /\ VPageNum <= MostPages
      <3>1. arrangement \in Arrangements /\ arrangement.pages = VPageNum
        BY <2>0 DEF IInv, TypeOK, VPageNum
      <3>2. \A a \in Arrangements : a.pages \in Nat \ {0}
        BY ArrangementAssumption DEF Arrangement
      <3>3. \E m \in {a.pages : a \in Arrangements} : \A a \in Arrangements : a.pages <= m
        BY ArrangementAssumption
      <3>4. /\ MostPages \in {a.pages : a \in Arrangements}
            /\ \A a \in Arrangements : a.pages <= MostPages
        BY <3>3 DEF MostPages
      <3> QED
        BY <2>0, <3>1, <3>2, <3>4, CountAssumption, MemoryAssumption
    <2>2. VPageNum * PageSize \in Nat /\ VPageNum * PageSize <= MostPages * PageSize
          /\ MostPages * PageSize \in Nat
      BY <2>1
    <2>3. b \in 0 .. MostPages * PageSize - 1 /\ e \in 0 .. MostPages * PageSize - 1
      BY <2>2 DEF ByteAddr
    <2>4. parts = dramRequest(PageSize, u, b, e - b + 1)
      BY <2>0, <2>3 DEF Parts
    <2>5. b \in Nat /\ e - b + 1 \in Nat \ {0} /\ b + (e - b + 1) - 1 = e
      BY <2>0, <2>2 DEF ByteAddr
    <2> HIDE DEF parts
    <2>6. /\ UNION {Bytes(q) : q \in parts} = b .. e
          /\ \A p, q \in parts : p # q => Bytes(p) \cap Bytes(q) = {}
          /\ \A q \in parts : /\ q.size \in 1 .. u /\ q.vaddr \in b .. e
                              /\ \A x \in Bytes(q) : x \div PageSize = q.vaddr \div PageSize
      <3> DEFINE size == e - b + 1
      <3>1. size \in Nat \ {0} /\ b \in Nat /\ b + size - 1 = e
        BY <2>5
      <3>2. parts = dramRequest(PageSize, u, b, size)
        BY <2>4
      <3> HIDE DEF size
      <3>3. /\ UNION {Bytes(q) : q \in parts} = b .. b + size - 1
            /\ \A p, q \in parts : p # q => Bytes(p) \cap Bytes(q) = {}
            /\ \A q \in parts : /\ q.size \in 1 .. u /\ q.vaddr \in b .. b + size - 1
                                /\ \A x \in Bytes(q) : x \div PageSize = q.vaddr \div PageSize
        BY <2>1, <3>1, <3>2, RequestCut
      <3> QED
        BY <3>1, <3>3
    <2>7. ASSUME NEW q \in parts, NEW x \in Bytes(q)
          PROVE  frame(x) * PageSize + (x % PageSize)
                   = frame(q.vaddr) * PageSize + (q.vaddr % PageSize) + x - q.vaddr
      <3>1. x \in b .. e /\ q.vaddr \in b .. e
        BY <2>6
      <3> DEFINE k == x \div PageSize
      <3>2. /\ k \in Nat /\ x \in Nat /\ q.vaddr \in Nat
            /\ x % PageSize \in 0 .. PageSize - 1 /\ x = PageSize * k + (x % PageSize)
        <4>1. x \in Nat /\ q.vaddr \in Nat
          BY <2>5, <3>1
        <4> QED
          BY <2>1, <4>1, DivMod
      <3>3. /\ q.vaddr % PageSize \in 0 .. PageSize - 1 /\ q.vaddr \div PageSize = k
            /\ q.vaddr = PageSize * (q.vaddr \div PageSize) + (q.vaddr % PageSize)
        BY <2>1, <2>6, <3>2, DivMod
      <3>4. frame(x) = frame(q.vaddr)
        BY <3>3
      <3>5. k \in VPage
        <4>1. x < PageSize * VPageNum
          BY <2>1, <2>2, <3>1 DEF ByteAddr
        <4>2. k < VPageNum
          BY <2>1, <3>2, <4>1, DivBound
        <4> QED
          BY <2>1, <3>2, <4>2 DEF VPage
      <3>6. frame(x) * PageSize \in Int
        <4>1. frame(x) \in Int
          BY <2>0, <3>5, CountAssumption DEF IInv, TypeOK, Pages, NoPage, Unseen
        <4> HIDE DEF frame
        <4> QED
          BY <2>1, <4>1
      <3> DEFINE z == frame(x) * PageSize
                 y == PageSize * k
      <3>7. /\ z \in Int /\ y \in Int /\ x = y + (x % PageSize)
            /\ q.vaddr = y + (q.vaddr % PageSize)
        <4>1. y \in Int
          BY <2>1, <3>2
        <4>2. x = y + (x % PageSize)
          BY <3>2
        <4>3. q.vaddr = y + (q.vaddr % PageSize)
          BY <3>3
        <4> QED
          BY <3>6, <4>1, <4>2, <4>3
      <3>8. z + (x % PageSize) = z + (q.vaddr % PageSize) + x - q.vaddr
        <4> HIDE DEF z, y, k, frame
        <4> QED
          BY <3>2, <3>3, <3>7
      <3> QED
        BY <3>4, <3>8
    <2>8. \A q \in parts : q.size <= u
      BY <2>1, <2>6
    <2> QED
      BY <2>6, <2>7, <2>8 DEF parts
  <1> QED
    BY <1>1, Inductive, PTL
=============================================================================

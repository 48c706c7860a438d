------------------------------ MODULE AddrMap ------------------------------
(***************************************************************************)
(* How addresses are split: a physical address into a DRAM module and the    *)
(* address inside it (calcModuleIdx, calcModuleAddr) and back (calcPhyAddr,  *)
(* memctrl.cpp), a virtual one into a TLB set and a tag (calcSetIdx,         *)
(* calcVPN, tlb.cpp). callback() finds a request only by what calcPhyAddr    *)
(* makes of the address the module returns, and a TLB set compares tags      *)
(* only. And how a request is cut (dramRequest, tlbRequest): every part is   *)
(* translated by the page it begins in.                                    *)
(***************************************************************************)
EXTENDS Integers

CONSTANTS
  Unsigned    \* 2^64, the range of uint64_t

\* interleaved: is_dynamic_partition, or module_num differs from npu_num;
\* chunk: m_chunksize; part: dram_capacity / module_num, in chunks.
Geometry == [interleaved : BOOLEAN, modules : Nat \ {0}, chunk : Nat \ {0}, part : Nat \ {0}]
\* Of a TLB: pages of 2^m_page_bits bytes, m_set_num.
Shape == [page : Nat \ {0}, sets : Nat \ {0}]

ASSUME UnsignedAssumption == Unsigned \in Nat \ {0}

MinOf(x, y) == IF x < y THEN x ELSE y
MaxOf(x, y) == IF x > y THEN x ELSE y

PartSize(g) == g.part * g.chunk
MemorySize(g) == g.modules * PartSize(g)

\* Operators named X_Fault are X with one plausible mistake in it.
calcModuleIdx(g, p) ==
  IF g.interleaved THEN (p \div g.chunk) % g.modules ELSE p \div PartSize(g)

calcModuleAddr(g, p) ==
  IF g.interleaved
    THEN ((p \div g.chunk) \div g.modules) * g.chunk + (p % g.chunk)
    ELSE p % PartSize(g)

\* The offset is not cut off before the multiplication here.
PhyAddr_OffsetKept(g, a, m) ==
  IF g.interleaved
    THEN a * g.modules + m * g.chunk + (a % g.chunk)
    ELSE a + PartSize(g) * m
calcPhyAddr(g, a, m) ==
  IF g.interleaved
    THEN (a - (a % g.chunk)) * g.modules + m * g.chunk + (a % g.chunk)
    ELSE a + PartSize(g) * m

\* 2^m_set_bits, the sets that are used: log2 of the set number, truncated.
Powers(n) == {p \in 1 .. n : \E b \in 0 .. n : p = 2^b}
UsedSets(s) == CHOOSE p \in Powers(s.sets) : \A q \in Powers(s.sets) : q <= p

\* The tag leaves out the logarithm that is not truncated here.
calcVPN_AllSets(s, v) == v \div (s.page * s.sets)
calcVPN(s, v) == v \div (s.page * UsedSets(s))
calcSetIdx(s, v) == (v % (s.page * UsedSets(s))) \div s.page

-----------------------------------------------------------------------------
(* Requests. A request of the simulation loop, bytes at a virtual address,   *)
(* is cut into DRAM units, a unit into the parts that lie in one page each.  *)

\* Part n of the bytes from addr on: offset and the bytes still to be cut are
\* unsigned, so offset is not the 0 that MAX asks for behind the first page.
tlbRequest(page, addr, size) ==
  LET page_addr(n) == addr - (addr % page) + n * page
      last == ((addr % page) + size - 1) \div page
      offset(n) == (addr - page_addr(n)) % Unsigned
      part(n, per_size) == MinOf((page - offset(n)) % Unsigned, per_size)
      per_size[n \in 0 .. last] ==
        IF n = 0 THEN size ELSE (per_size[n - 1] - part(n - 1, per_size[n - 1])) % Unsigned
  IN {[vaddr |-> MaxOf(addr, page_addr(n)), size |-> part(n, per_size[n])] : n \in 0 .. last}

\* The last unit is not shortened here.
dramRequest_WholeUnits(page, unit, addr, size) ==
  UNION {tlbRequest(page, addr + k * unit, unit) : k \in 0 .. (size - 1) \div unit}
dramRequest(page, unit, addr, size) ==
  UNION {tlbRequest(page, addr + k * unit, MinOf(unit, size - k * unit)) :
           k \in 0 .. (size - 1) \div unit}

-----------------------------------------------------------------------------
\* The address a module calls back with is the address that was sent to it.
RoundTrip(g, x) == calcPhyAddr(g, calcModuleAddr(g, x), calcModuleIdx(g, x)) = x

\* A module is one of those that exist, and gets addresses of its size only.
InModule(g, x) ==
  /\ calcModuleIdx(g, x) \in 0 .. g.modules - 1
  /\ calcModuleAddr(g, x) \in 0 .. PartSize(g) - 1

\* No address has an invalid set index, which access() gives up at.
SetExists(s, x) == calcSetIdx(s, x) \in 0 .. s.sets - 1

\* Equal set and tag mean the same page.
TagNamesPage(s, x, y) ==
  calcSetIdx(s, x) = calcSetIdx(s, y) /\ calcVPN(s, x) = calcVPN(s, y)
    => x \div s.page = y \div s.page
=============================================================================

------------------------------ MODULE PhysMem ------------------------------
(***************************************************************************)
(* Physical pages and the tables that map virtual pages to them            *)
(* (DRAMAllocator, AddressTranslator in address_translator.cpp), in the     *)
(* three arrangements npumemSetup makes: an allocator for each NPU, one     *)
(* allocator for all, or a shared TLB with one allocator and one table.     *)
(*                                                                         *)
(* The simulator only translates; nothing in src/ calls the tables'       *)
(* allocate and free, which are modelled for a caller that allocates pages  *)
(* that are not mapped. m_inverse_table is left out: nothing reads it.      *)
(***************************************************************************)
EXTENDS AddrMap, Sequences, FiniteSets

CONSTANTS
  NPUNum,           \* m_npu_num
  Share,            \* pages in dram_capacity / m_npu_num
  PageSize,         \* m_pagesize
  Arrangements,     \* arrangements of the memory, see Arrangement
  Geometries,       \* geometries of the DRAM
  TLBSets,          \* numbers of sets of a TLB
  Units             \* values of dram_unit

\* shared: is_shared_tlb; dynamic: is_dynamic_partition; pages: virtual pages
\* that each NPU touches.
Arrangement == [shared : BOOLEAN, dynamic : BOOLEAN, pages : Nat \ {0}]

\* With pages of one byte and one set, calcVPN shifts by all 64 bits.
ASSUME CountAssumption == NPUNum \in Nat \ {0} /\ Share \in Nat \ {0} /\ PageSize \in Nat \ {0, 1}
ASSUME MemoryAssumption ==
  Geometries \subseteq Geometry /\ TLBSets \subseteq Nat \ {0} /\ Units \subseteq Nat \ {0}
ASSUME ArrangementAssumption == \* one of them touches the most pages
  /\ Arrangements \subseteq Arrangement
  /\ \E a \in Arrangements : \A b \in Arrangements : b.pages <= a.pages
ASSUME AddressAssumption == 2 * PageSize <= Unsigned

VARIABLES
  arrangement, \* of this simulation, never assigned again
  free_list,  \* m_free_list, per allocator
  free_pages, \* m_free_pages
  left,       \* m_pmem_left, in pages
  table,      \* m_translation_table, per translator
  used        \* per NPU and page: the physical page its last access got

vars == <<arrangement, free_list, free_pages, left, table, used>>

SharedTLB == arrangement.shared
DynamicPartition == arrangement.dynamic
VPageNum == arrangement.pages

NPU == 0 .. NPUNum - 1
VPage == 0 .. VPageNum - 1
Pages == 0 .. NPUNum * Share - 1
NoPage == -1 \* ~0
Unseen == -2 \* not accessed yet

\* Who shares an allocator, who shares a table (memctrl.cpp, npumemSetup).
OneAllocator == SharedTLB \/ DynamicPartition
Allocators == IF OneAllocator THEN {0} ELSE NPU
Translators == IF SharedTLB THEN {0} ELSE NPU
AllocatorOf(n) == IF OneAllocator THEN 0 ELSE n
TranslatorOf(n) == IF SharedTLB THEN 0 ELSE n
\* Operators named X_Fault are X with one plausible mistake in it.
\* m_addr_ptr does not move on here.
First_Zero(a) == 0
First(a) == IF OneAllocator THEN 0 ELSE a * Share
Capacity == IF OneAllocator THEN NPUNum * Share ELSE Share
PagesOf(a) == First(a) .. First(a) + Capacity - 1

Offset_None(n) == 0
\* m_offset keeps the NPUs' virtual pages apart in a shared table.
Offset(n) == IF SharedTLB THEN Share * n ELSE 0
Key == 0 .. (NPUNum - 1) * Share + VPageNum - 1

-----------------------------------------------------------------------------
TakePage_StillFree(a) ==
  /\ free_list' = [free_list EXCEPT ![a] = Tail(@)]
  /\ left' = [left EXCEPT ![a] = @ - 1]
  /\ UNCHANGED free_pages

\* DRAMAllocator::allocate, when there is a page left
TakePage(a) ==
  /\ free_list' = [free_list EXCEPT ![a] = Tail(@)]
  /\ free_pages' = [free_pages EXCEPT ![a] = @ \ {Head(free_list[a])}]
  /\ left' = [left EXCEPT ![a] = @ - 1]

\* DRAMAllocator::free returns false
Refusable(a, p) == left[a] = Capacity \/ p \in free_pages[a]

GiveBack_NotMarked(a, p) ==
  /\ free_list' = [free_list EXCEPT ![a] = Append(@, p)]
  /\ left' = [left EXCEPT ![a] = @ + 1]
  /\ UNCHANGED free_pages
GiveBack(a, p) ==
  IF Refusable(a, p)
    THEN UNCHANGED <<free_list, free_pages, left>>
    ELSE /\ free_list' = [free_list EXCEPT ![a] = Append(@, p)]
         /\ free_pages' = [free_pages EXCEPT ![a] = @ \cup {p}]
         /\ left' = [left EXCEPT ![a] = @ + 1]

HasPage(a) == left[a] > 0

-----------------------------------------------------------------------------
\* NPUMemory::tlbAccess: TLB::access ignores that translate() failed and goes
\* on with the page ~0.
Translate(n, v) ==
  LET a == AllocatorOf(n)
      t == TranslatorOf(n)
      k == v + Offset(n)
      page == Head(free_list[a])
  IN  \/ /\ table[t][k] # NoPage
         /\ used' = [used EXCEPT ![n][v] = table[t][k]]
         /\ UNCHANGED <<free_list, free_pages, left, table>>
      \/ /\ table[t][k] = NoPage /\ HasPage(a)
         /\ TakePage(a)
         /\ table' = [table EXCEPT ![t][k] = page]
         /\ used' = [used EXCEPT ![n][v] = page]
      \/ /\ table[t][k] = NoPage /\ ~HasPage(a)
         /\ used' = [used EXCEPT ![n][v] = NoPage]
         /\ UNCHANGED <<free_list, free_pages, left, table>>

\* AddressTranslator::allocate
Allocate(n, v) ==
  LET a == AllocatorOf(n)
      t == TranslatorOf(n)
      k == v + Offset(n)
      page == Head(free_list[a])
  IN  /\ table[t][k] = NoPage /\ HasPage(a)
      /\ TakePage(a)
      /\ table' = [table EXCEPT ![t][k] = page]
      /\ UNCHANGED used

\* AddressTranslator::free; the caller no longer uses the page.
Free(n, v) ==
  LET t == TranslatorOf(n)
      k == v + Offset(n)
  IN  /\ table[t][k] # NoPage
      /\ GiveBack(AllocatorOf(n), table[t][k])
      /\ table' = [table EXCEPT ![t][k] = NoPage]
      /\ used' = [used EXCEPT ![n][v] = Unseen]

Init ==
  /\ arrangement \in Arrangements
  /\ free_list = [a \in Allocators |-> [i \in 1 .. Capacity |-> First(a) + i - 1]]
  /\ free_pages = [a \in Allocators |-> PagesOf(a)]
  /\ left = [a \in Allocators |-> Capacity]
  /\ table = [t \in Translators |-> [k \in Key |-> NoPage]]
  /\ used = [n \in NPU |-> [v \in VPage |-> Unseen]]

Next ==
  /\ \E n \in NPU, v \in VPage : Translate(n, v) \/ Allocate(n, v) \/ Free(n, v)
  /\ UNCHANGED arrangement

Spec == Init /\ [][Next]_vars
-----------------------------------------------------------------------------
TypeOK ==
  /\ arrangement \in Arrangements
  /\ free_list \in [Allocators -> Seq(Pages)]
  /\ free_pages \in [Allocators -> SUBSET Pages]
  /\ left \in [Allocators -> Nat]
  /\ table \in [Translators -> [Key -> Pages \cup {NoPage}]]
  /\ used \in [NPU -> [VPage -> Pages \cup {NoPage, Unseen}]]

\* The queue, the set and the counter that say which pages are free agree,
\* and no page is queued twice.
FreeListExact ==
  \A a \in Allocators :
    /\ free_pages[a] = {free_list[a][i] : i \in DOMAIN free_list[a]}
    /\ left[a] = Len(free_list[a]) /\ left[a] = Cardinality(free_pages[a])

Mapped == {x \in Translators \X Key : table[x[1]][x[2]] # NoPage}

\* No physical page is mapped twice, by one NPU or by two, and no mapped page
\* is free, however pages were allocated, freed and reused.
MappedOnce ==
  /\ \A x, y \in Mapped : table[x[1]][x[2]] = table[y[1]][y[2]] => x = y
  /\ \A x \in Mapped, a \in Allocators : table[x[1]][x[2]] \notin free_pages[a]

\* In a shared table NPUs keep to their share of virtual pages: m_offset is no
\* more than that.
KeptApart == SharedTLB => VPageNum <= Share

\* Two NPUs that are kept apart never use the same physical page.
Isolated ==
  KeptApart =>
    \A m, n \in NPU, v, w \in VPage :
      m # n /\ used[m][v] \in Pages => used[m][v] # used[n][w]

-----------------------------------------------------------------------------
(* Accesses to pages that were translated.                                   *)

Seen(n, v) == used[n][v] \in Pages
Offsets == 0 .. PageSize - 1

\* The DRAM of a simulation with this arrangement.
Configured(g) ==
  /\ MemorySize(g) = (NPUNum * Share) * PageSize
  /\ g.interleaved = (DynamicPartition \/ g.modules # NPUNum)

\* Every access goes to a module that exists, at an address it has, and the
\* address the module calls back with leads to the one that was sent: no request
\* is lost and none is answered for another.
CallbackAddress ==
  \A g \in Geometries : Configured(g) =>
    \A n \in NPU, v \in VPage, o \in Offsets : Seen(n, v) =>
      InModule(g, used[n][v] * PageSize + o) /\ RoundTrip(g, used[n][v] * PageSize + o)

\* With as many modules as NPUs and an allocator for each NPU, every access of
\* an NPU goes to the module of its own: no two of them wait for one module.
ModulePrivate ==
  \A g \in Geometries : Configured(g) /\ g.modules = NPUNum /\ ~OneAllocator =>
    \A n \in NPU, v \in VPage, o \in Offsets : Seen(n, v) =>
      calcModuleIdx(g, used[n][v] * PageSize + o) = n

TLBOf(sets) == [page |-> PageSize, sets |-> sets]
SetsExist == \A sets \in TLBSets, x \in 0 .. Unsigned - 1 : SetExists(TLBOf(sets), x)

\* The set of every address exists, and an entry of it is found for the page it
\* was made for only: virtual pages with the same set and tag, be they of two NPUs
\* with a shared TLB, are one, also when some sets are never used.
TagExact ==
  /\ SetsExist
  /\ KeptApart =>
       \A sets \in TLBSets, m, n \in NPU, v, w \in VPage, o, q \in Offsets :
         LET x == (v + Offset(m)) * PageSize + o
             y == (w + Offset(n)) * PageSize + q
         IN /\ TranslatorOf(m) = TranslatorOf(n) /\ Seen(m, v) /\ Seen(n, w)
            /\ calcSetIdx(TLBOf(sets), x) = calcSetIdx(TLBOf(sets), y)
            /\ calcVPN(TLBOf(sets), x) = calcVPN(TLBOf(sets), y)
            => used[m][v] = used[n][w]

Bytes(q) == q.vaddr .. q.vaddr + q.size - 1
ByteAddr == 0 .. VPageNum * PageSize - 1

\* The parts of every request in the largest arrangement.
MostPages == CHOOSE m \in {a.pages : a \in Arrangements} : \A a \in Arrangements : a.pages <= m
Parts == [u \in Units |-> [b \in 0 .. MostPages * PageSize - 1 |->
            [e \in b .. MostPages * PageSize - 1 |->
              dramRequest(PageSize, u, b, e - b + 1)]]]

\* The parts of a request contain each of its bytes once and no other, and none
\* is larger than a unit; and the page that a part begins in translates all of
\* it, although the next page may lie anywhere. With units no larger than a page.
RequestTranslated ==
  \A u \in Units, n \in NPU, b, e \in ByteAddr :
    LET parts == Parts[u][b][e]
        seen == \A x \in b .. e : Seen(n, x \div PageSize)
        translated(x) == used[n][x \div PageSize] * PageSize + (x % PageSize)
    IN b <= e /\ u <= PageSize /\ seen =>
         /\ UNION {Bytes(q) : q \in parts} = b .. e
         /\ \A p, q \in parts : p # q => Bytes(p) \cap Bytes(q) = {}
         /\ \A q \in parts :
              /\ q.size <= u
              /\ \A x \in Bytes(q) : translated(x) = translated(q.vaddr) + x - q.vaddr
=============================================================================

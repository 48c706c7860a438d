----------------------------- MODULE MCPhysMem -----------------------------
(* PhysMem with three NPUs: more virtual pages than memory with an allocator  *)
(* each and with one for both, and as many as fit with a shared TLB; and    *)
(* every way to cut the memory into modules and chunks.                     *)
EXTENDS PhysMem

MCArrangements ==
  {[shared |-> FALSE, dynamic |-> FALSE, pages |-> Share + 1],
   [shared |-> FALSE, dynamic |-> TRUE, pages |-> Share + 1],
   [shared |-> TRUE, dynamic |-> FALSE, pages |-> Share]}

MCGeometries ==
  {g \in [interleaved : BOOLEAN, modules : {1, 2, 3}, chunk : {1, 2, 3, 6}, part : {1, 2, 3, 6}] :
     MemorySize(g) = NPUNum * Share * PageSize}
=============================================================================

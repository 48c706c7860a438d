\* Two NPUs, the DRAM full after two transactions, answers out of order.
CONSTANTS
  N = 2
  Addr = {0, 10}
  AddrOf <- MCAddrOf
  Tags = {t1, t2, t3}
  DoubleBuffer = TRUE
  TiledBW = FALSE
  TlbLat = {0, 2}
  DramLat = {1, 2}
  DramCap = 2
  MaxBatches = 3
  MaxTicks = 2
SYMMETRY MCSymmetry
SPECIFICATION MCSafeSpec
INVARIANTS ReqAccounting CallbackCreditsOwner TlbQueueCurrent
PROPERTIES CompletionSafe

\* Tile-level bandwidth interleaving, with liveness.
CONSTANTS
  N = 2
  Addr = {0, 1, 10}
  AddrOf <- MCAddrOf
  Tags = {1}
  DoubleBuffer = TRUE
  TiledBW = TRUE
  TlbLat = {1}
  DramLat = {1, 2}
  DramCap = 2
  MaxBatches = 3
  MaxTicks = 1
SPECIFICATION MCSpec
INVARIANTS TiledExclusive
PROPERTIES CompletionLive

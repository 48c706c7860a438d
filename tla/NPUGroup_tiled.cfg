\* Tile-level bandwidth interleaving under the real scheduling loop.
CONSTANTS
  N = 2
  Addr = {0, 10}
  AddrOf <- MCAddrOf
  Tags = {1, 2, 3, 4}
  DoubleBuffer = TRUE
  TiledBW = TRUE
  TlbLat = {1}
  DramLat = {1, 2}
  DramCap = 2
  Layers <- TwoLayers
  ComputeTime <- Compute13
  Starts <- OneLate
  Iteration <- Once
  NPUClock <- SameClock
  DRAMClock = 1
SPECIFICATION FairSpec
INVARIANTS TileTraffic
PROPERTIES ControllerUsed NoComputeOverWriteback LayerComplete

\* Layers of several tiles, NPUs share the DRAM: ReadBeforeCompute does not hold.
CONSTANTS
  N = 2
  Addr = {0, 10}
  AddrOf <- MCAddrOf
  Tags = {1, 2, 3, 4}
  DoubleBuffer = TRUE
  TiledBW = FALSE
  TlbLat = {1}
  DramLat = {1, 2}
  DramCap = 2
  Layers <- TwoLayers
  ComputeTime <- Compute13
  Starts <- AtOnce
  Iteration <- Once
  NPUClock <- SameClock
  DRAMClock = 1
SPECIFICATION Spec
PROPERTIES ReadBeforeCompute

\* Two NPUs with clock ratios 2:2 and 3:2 and different start cycles; each
\* runs until both have run twice.
CONSTANTS
  N = 2
  Addr = {0, 10}
  AddrOf <- MCAddrOf
  Tags = {1, 2, 3, 4}
  DoubleBuffer = TRUE
  TiledBW = FALSE
  TlbLat = {1}
  DramLat = {1, 3}
  DramCap = 1
  Layers <- ShortLayers
  ComputeTime <- Compute13
  Starts <- Staggered
  Iteration <- RepeatBoth
  NPUClock <- SlowNPU
  DRAMClock = 2
SPECIFICATION FairSpec
INVARIANTS ClockInStep FinishedDrained IterationsDone
PROPERTIES ClocksMonotone Terminates

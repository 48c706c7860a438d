\* A 3-way set and two walkers shared by two NPUs.
CONSTANTS
  NPUNum = 2
  WalkerNum = 2
  Confs <- MCConfs
  Page = {1, 2, 3}
  PTN <- MCPTN
  StepNum = 2
  StepLatency = 1
  MaxArrival = 0
  EntryNum = 3
  HitLatency = 1
  UintRange = 16
  Ports = {0, 1, 2}
  MaxTick = 3
SPECIFICATION Spec
INVARIANTS NoDuplicates VictimExists PortOrder WalkBandwidth
PROPERTIES LastUsedKept FlushExact FlushCoversWalks

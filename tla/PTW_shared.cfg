\* Three NPUs, four walkers.
CONSTANTS
  NPUNum = 3
  WalkerNum = 4
  Confs <- MCConfs
  Page = {"p", "q"}
  PTN <- MCPTN
  StepNum = 2
  StepLatency = 1
  MaxArrival = 1
  MaxTick = 4
SPECIFICATION Spec
INVARIANTS OccupationExact WalkerFound ShareGuaranteed
\* The clocks stop at their bound.
CHECK_DEADLOCK FALSE

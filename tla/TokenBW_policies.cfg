\* Two channels; a DRAM that refuses, or borrowing with translations in flight.
CONSTANTS
  NPUNum = 2
  ChanNum = 2
  Bucket = 1
  Epoch <- MCEpoch
  Policies <- Both
  Delays = {0, 2}
  Wrap = 2
  MaxQueue = 3
SPECIFICATION FairSpec
INVARIANTS TypeOK IssuePaid
PROPERTIES Served
\* The simulation ends at the failing assertion.
CHECK_DEADLOCK FALSE

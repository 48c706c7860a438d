\* TokensConserved does not hold.
CONSTANTS
  NPUNum = 2
  ChanNum = 2
  Bucket = 2
  Epoch <- MCEpoch
  Policies <- RefusingOnly
  Delays = {0}
  Wrap = 2
  MaxQueue = 2
SPECIFICATION Spec
INVARIANTS TokensConserved

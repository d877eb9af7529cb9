SPECIFICATION MCSpec
CONSTANTS
  NItems = 5
  ProbeLimit = 3
  Outcome = {reached, failed}
  NoAnswer = NoAnswer
  k1 = k1
  k2 = k2
  c1 = c1
  c2 = c2
INVARIANT IInv
PROPERTIES BatchSpec PoolReturns DownIsReported
CHECK_DEADLOCK FALSE

\* The pipeline and the handlers alone, nothing fails.
SPECIFICATION Spec
CONSTANTS
  a = a
  b = b
  MaxJobs    = 1
  Order      <- TwoOrders
  Attempts   = 1
  MaxEvents  = 0
INVARIANT
  HandledIsFinished
CHECK_DEADLOCK FALSE

\* Two orders, two jobs, and one operator's action or one process that dies.
\* The bound on jobs leaves the pipeline waiting to make another one.
SPECIFICATION Spec
CONSTANTS
  a = a
  b = b
  MaxJobs    = 2
  Order      <- TwoOrders
  Attempts   = 2
  MaxEvents  = 1
INVARIANTS
  TypeOK
  CompletedIsHandled
  CountedIsFinished
SYMMETRY Alike
CHECK_DEADLOCK FALSE

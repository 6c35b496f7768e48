\* One process, one administrator and any number of verifiers; one thing may go wrong.
SPECIFICATION FairSpec
CONSTANTS
  Host       = {"backend"}
  Clerk      = {"admin"}
  Line       = {1, 2, 3}
  Sold       <- Sales
  UomOf      <- Units
  Id         = {1, 2}
  LegacyOf   <- PerLine
  Legacy     = {"SUCCESS", "HELD", "PENDING"}
  Faults     = {"overlap", "reply_lost", "save_lost", "crash"}
  MaxFaults  = 1
  None       = None
INVARIANTS
  TypeOK
  RecordedMeansMoved
  MovedOnce
  NeverHidden
PROPERTIES
  SuccessIsFinal
  LedgerSpec
  StockFollows

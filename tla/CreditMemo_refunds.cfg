\* Every answer and every save may be lost; a circuit that opens at the second failure.
SPECIFICATION Spec
CONSTANTS
  Cron       = {"cron"}
  Clerk      = {"admin"}
  Caller     <- Everyone
  Threshold  = 2
  Limit      = 1
  MaxFlight  = 1
  Faults     <- AnyHarm
  MaxIngests = 1
  MaxCrashes = 0
INVARIANTS
  TypeOK
  MemoOnce
  SyncedIsPosted
  SyncedHasNumber

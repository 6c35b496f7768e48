\* A process may die; a circuit that opens at the first failure, and liveness.
SPECIFICATION FairSpec
CONSTANTS
  Cron       = {"cron"}
  Clerk      = {"admin"}
  Caller     <- Everyone
  Threshold  = 1
  Limit      = 1
  MaxFlight  = 1
  Faults     = {}
  MaxIngests = 0
  MaxCrashes = 1
PROPERTIES
  Recovers
  Settles

\* One process, two local days that look back two days each, and two mishaps or
\* operator's actions; the calendar ends there.
SPECIFICATION Spec
CONSTANTS
  Proc       = {"api"}
  MaxJobs    = 2
  MaxDay     = 3
  Lookback   = 2
  MaxEvents  = 2
INVARIANTS
  TypeOK
  OneRun
  CaughtUp
  Reported
  NoOrphan
CHECK_DEADLOCK FALSE

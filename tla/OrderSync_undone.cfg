\* One worker, the daily run and nobody else.
SPECIFICATION Spec
CONSTANTS
  Worker     = {1}
  Docs       <- ThreeDocs
  Unchecked  = {"misc"}
  Silent     = {"journal"}
  Attempts   = 1
  Faults     = {}
  MaxLosses  = 0
INVARIANT
  SyncedIsKept

\* Two workers, both ways of invoicing, everything that can go wrong.
SPECIFICATION FairSpec
CONSTANTS
  Worker     = {1, 2}
  Docs       <- ThreeDocs
  Unchecked  = {"misc"}
  Silent     = {"journal"}
  Attempts   = 2
  Faults     = {"stalled", "reply_lost", "save_lost", "edited"}
  MaxLosses  = 1
INVARIANTS
  TypeOK
  OneAtATime
  PostedOnce
  SyncedIsPosted
PROPERTIES
  Worked

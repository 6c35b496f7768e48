\* One process, a closed day with two tenders: receipts and their applications.
SPECIFICATION FairSpec
CONSTANTS
  Poster    = {"cron", "manual"}
  HostOf    <- OneHost
  Order     = {1, 2, 3}
  TenderOf  <- Tenders
  MethodOf  <- Methods
  Kinds     = {"standard", "misc", "apply"}
  Txn       = {1}
  None      = None
  ClosedDay = {1, 2, 3}
  Holdable  = {}
  Attempts  = 2
  Looks     = 1
  AbortAt   = {"check", "recheck", "create", "clear", "docs"}
  Faults    = {}
  MaxFaults = 2
INVARIANTS
  NoDoubleDocument
PROPERTIES
  DocumentsFollow

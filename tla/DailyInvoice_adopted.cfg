\* An order lands between a timed-out call and the look-up that settles it.
SPECIFICATION Spec
CONSTANTS
  Poster    = {"cron", "manual"}
  HostOf    <- OneHost
  Order     = {1, 2}
  TenderOf  <- Tenders
  MethodOf  <- Methods
  Kinds     = {}
  Txn       = {1, 2}
  None      = None
  ClosedDay = {1}
  Holdable  = {}
  Attempts  = 2
  Looks     = 1
  AbortAt   = {}
  Faults    = {}
  MaxFaults = 2
INVARIANTS
  NoSaleDropped

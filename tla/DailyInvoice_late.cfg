\* One process; an order lands late, one may be held back, runs time out and die;
\* receipts are posted for whatever is invoiced.
SPECIFICATION FairSpec
CONSTANTS
  Poster    = {"cron", "manual"}
  HostOf    <- OneHost
  Order     = {1, 2, 3}
  TenderOf  <- Tenders
  MethodOf  <- Methods
  Kinds     = {"standard"}
  Txn       = {1, 2, 3}
  None      = None
  ClosedDay = {1}
  Holdable  = {2}
  Attempts  = 2
  Looks     = 2
  AbortAt   = {"check", "recheck", "create", "clear", "docs"}
  Faults    = {}
  MaxFaults = 3
INVARIANTS
  InvoicedOnce
  NumberedOnce
PROPERTIES
  BillingSpec
  EveryOrderPosted

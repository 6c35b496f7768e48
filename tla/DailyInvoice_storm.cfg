\* A closed day, two processes, every fault and every abort point.
SPECIFICATION Spec
CONSTANTS
  Poster    = {"cron", "manual"}
  HostOf    <- TwoHosts
  Order     = {1, 2}
  TenderOf  <- AllCash
  MethodOf  <- Methods
  Kinds     = {"standard"}
  Txn       = {1, 2, 3, 4}
  None      = None
  ClosedDay = {1, 2}
  Holdable  = {}
  Attempts  = 2
  Looks     = 1
  AbortAt   = {"check", "recheck", "create", "reply", "settle", "mark", "persist", "clear", "docs", "docreply"}
  Faults    = {"doc_timeout", "mark_lost", "late_commit", "blank_reply"}
  MaxFaults = 3
INVARIANTS
  TypeOK
  NoSaleDropped
  DoublesAreExposed
  BillingInv

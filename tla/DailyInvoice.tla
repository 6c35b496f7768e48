---------------------------- MODULE DailyInvoice ----------------------------
(***************************************************************************)
(* Posting one aggregated daily invoice to Oracle Fusion:                  *)
(* DailyInvoiceService.postDay / postGroup / createInvoiceSafely, with the *)
(* part of DailyAggregationService.buildGroup that decides what a run      *)
(* still owes and the Oracle look-up that settles a timed-out call.        *)
(*                                                                         *)
(* The module follows ONE group: the orders of one branch, business day,   *)
(* customer type and credit flag.  Groups share no row, receipt number or  *)
(* transaction number, so each evolves like this one.  An order stands for *)
(* its lines: the Odoo backup lands them in one transaction, one header    *)
(* carries them and one save records them.                                 *)
(*                                                                         *)
(* The repository tables survive everything; what a run holds in memory is *)
(* lost when it ends.  Oracle is external: `invoices` and `documents` are  *)
(* what it accepted, whoever got to know about it.                         *)
(***************************************************************************)
EXTENDS Naturals, FiniteSets

CONSTANTS
  Poster,     \* the paths that call postDay: cron, manual run, automatic run, API
  HostOf,     \* [Poster -> process the path runs in]; inFlight is per process
  Order,      \* orders of the group, numbered as the query sorts them (dateOrder, orderId)
  TenderOf,   \* [Order -> tender], a tender being one (payment method, register) bucket
  MethodOf,   \* [tender -> payment method]
  Kinds,      \* follow-up documents of the group: receipts for retail, a journal for platforms
  Txn,        \* transaction numbers, issued in ascending order (bound on the invoices)
  None,       \* no transaction number; no tender
  ClosedDay,  \* orders already in the Odoo backup before the first run
  Holdable,   \* orders naming an item Oracle may not know (held back by a run)
  Attempts,   \* create attempts per run (3 in the code)
  Looks,      \* look-ups after a timeout (3 in the code)
  AbortAt,    \* points at which a run may die, or a repository call may throw
  Faults,     \* further environment faults admitted in this instance
  MaxFaults   \* bound on the number of faults of any kind

Host   == {HostOf[p] : p \in Poster}
Tender == {TenderOf[o] : o \in Order}
Method == {MethodOf[te] : te \in Tender}

AllKinds  == {"standard", "misc", "apply", "journal"}
AllFaults == {"doc_timeout", "mark_lost", "late_commit", "blank_reply"}
Points    == {"idle", "check", "recheck", "create", "reply", "settle", "mark",
              "persist", "clear", "docs", "docreply"}

ASSUME ConstantsOK ==
  /\ Order \subseteq Nat
  /\ TenderOf \in [Order -> Tender]
  /\ MethodOf \in [Tender -> Method]
  /\ HostOf \in [Poster -> Host]
  /\ Txn \subseteq Nat /\ None \notin Txn
  /\ Kinds \subseteq AllKinds
  /\ ClosedDay \subseteq Order
  /\ Holdable \subseteq Order
  /\ AbortAt \subseteq Points \ {"idle"}
  /\ Faults \subseteq AllFaults
  /\ Attempts \in Nat \ {0}
  /\ Looks \in Nat \ {0}
  /\ MaxFaults \in Nat

VARIABLES
  landed,     \* orders in BACKUP_ODOO_ORDER
  recent,     \* the business day is still today or yesterday
  covered,    \* and within the coverage query's look-back (14 days)
  success,    \* FUSION_INVOICE_LINE rows with status SUCCESS, as <<order, invoiceNumber>>
  uncertain,  \* orders with UNCERTAIN rows
  docRows,    \* keys of the receipt and journal rows with status SUCCESS
  queue,      \* [Order -> oracleInvoiceNumber of its OrderSyncQueue row]; None: not SYNCED
  inFlight,   \* hosts whose DailyInvoiceService.inFlight set holds this store/day
  run,        \* [Poster -> what its run holds in memory, and where it is]
  invoices,   \* Oracle: [Txn -> orders on that AR invoice], {} when not issued
  documents,  \* Oracle: receipts, applications and journals accepted
  orphans,    \* Oracle: headers of timed-out calls it may still process
  exposed,    \* history: orders billed behind everybody's back, or claimed by two runs at once
  budget      \* faults left

repo   == <<success, uncertain, docRows, queue>>
oracle == <<invoices, documents, orphans, exposed>>
source == <<landed, recent, covered>>
vars   == <<source, repo, inFlight, run, oracle, budget>>

-----------------------------------------------------------------------------
Posted == {r[1] : r \in success}

(* What a run holds: `header` and `payers` are the orders on the invoice     *)
(* header and contributingOrders, `todo` the documents not yet processed and *)
(* `sent` the one whose answer is awaited.                                   *)
NoRun == [pc |-> "idle", header |-> {}, payers |-> {}, txn |-> None, tries |-> 1,
          looks |-> 0, swapped |-> FALSE, todo |-> {}, sent |-> {}]

At(p, point) == run[p].pc = point

Go(p, r) == run' = [run EXCEPT ![p] = r] /\ UNCHANGED inFlight

(* Every exit of postDay runs its `finally`: the lock goes, the memory too.  *)
Exit(p) ==
  /\ run' = [run EXCEPT ![p] = NoRun]
  /\ inFlight' = inFlight \ {HostOf[p]}

Fault == budget > 0 /\ budget' = budget - 1

(* The orders of a header that are on an invoice of which no row tells.      *)
Unrecorded(S) ==
  {o \in S \ (Posted \cup uncertain) : \E t \in Txn : o \in invoices[t]}

(* What the run knew of them goes with it.                                   *)
Forget(p) == exposed' = exposed \cup Unrecorded(run[p].header)

(* Orders some run has on its header.                                        *)
Claimed == UNION {run[q].header : q \in Poster}

(* An invoice may exist of which the run has not yet saved the rows.         *)
Unattended == {"reply", "settle", "mark", "persist"}

(* Orders that Oracle may yet put on an invoice without harm: they are on    *)
(* none, nobody is about to send them, and whoever sends them next will look.*)
Expected ==
  {o \in Order :
     /\ \A t \in Txn : o \notin invoices[t]
     /\ \A q \in Poster : At(q, "create") => o \notin run[q].header
     /\ \/ o \in Posted \cup uncertain
        \/ \E q \in Poster : run[q].pc \in Unattended /\ o \in run[q].header}

(* buildAggregatedReceipts: one document per kind and tender of the orders   *)
(* that contribute a payment.  A platform group has one journal instead,     *)
(* whose amount is summed over the lines of the header built in this run: an *)
(* empty header totals zero and yields no journal.                           *)
Docs(header, payers) ==
  {[kind |-> k, tender |-> te, orders |-> {o \in payers : TenderOf[o] = te}] :
      k \in Kinds \ {"journal"}, te \in {TenderOf[o] : o \in payers}}
  \cup
  {[kind |-> k, tender |-> None, orders |-> header] :
      k \in {x \in Kinds \cap {"journal"} : header # {}}}

(* The number that identifies a document: receipts are `method-txn`, and the *)
(* journal is looked up by the transaction number alone.                     *)
RowKey(d, t) ==
  <<d.kind, IF d.kind = "journal" THEN None ELSE MethodOf[d.tender], t>>

(* Mutant: no look-up before a document is sent.                             *)
NeverPosted(d, t) == FALSE

AlreadyPosted(d, t) == RowKey(d, t) \in docRows

(* Standard receipts go first, then misc, applications and journals.         *)
Rank == [standard |-> 1, misc |-> 2, apply |-> 3, journal |-> 4]
NextDocs(p) ==
  {d \in run[p].todo : \A e \in run[p].todo : Rank[d.kind] <= Rank[e.kind]}

(* Oracle can apply a receipt only when it holds one with that number.       *)
Acceptable(d, t) ==
  d.kind = "apply" =>
    \E e \in documents : RowKey([kind |-> "standard", tender |-> e.tender], e.txn)
                           = RowKey([kind |-> "standard", tender |-> d.tender], t)
                         /\ e.kind = "standard"

Unused(t) == invoices[t] = {} /\ \A u \in Txn : u < t => invoices[u] # {}

(* Mutant: a look-up that insists on finding every sales order.              *)
MatchingAll(S) == {t \in Txn : S # {} /\ S \subseteq invoices[t]}

(* findInvoiceForSalesOrders: any invoice carrying any of the sales orders.  *)
Matching(S) == {t \in Txn : invoices[t] \cap S # {}}

-----------------------------------------------------------------------------
(* How a run changes: begun with orders to invoice, or around an invoice     *)
(* that exists; awaiting Oracle's answer; settling a lost one; holding an    *)
(* invoice to record; a document sent, and answered.                         *)
FreshRun(orders) ==
  [NoRun EXCEPT !.pc = "check", !.header = orders, !.payers = orders,
                !.todo = Docs(orders, orders)]
ReuseRun(t, orders) ==
  [NoRun EXCEPT !.pc = "docs", !.txn = t, !.payers = orders, !.todo = Docs({}, orders)]
Awaiting(r, t)  == [r EXCEPT !.pc = "reply", !.txn = t]
Settling(r)     == [r EXCEPT !.pc = "settle", !.looks = 0, !.txn = None]
StillUnknown(r) == [r EXCEPT !.pc = IF r.looks + 1 < Looks THEN "settle" ELSE "mark",
                             !.looks = r.looks + 1]
Holding(r, t)   == [r EXCEPT !.pc = "persist", !.txn = t]
Sent(r, d)      == [r EXCEPT !.pc = "docreply", !.todo = @ \ {d}, !.sent = {d}]
Answered(r)     == [r EXCEPT !.pc = "docs", !.sent = {}]
Again(r)        == [r EXCEPT !.pc = "create", !.tries = @ + 1]

Init ==
  /\ landed = ClosedDay
  /\ recent = TRUE /\ covered = TRUE
  /\ success = {}
  /\ uncertain = {}
  /\ docRows = {}
  /\ queue = [o \in Order |-> None]
  /\ inFlight = {}
  /\ run = [p \in Poster |-> NoRun]
  /\ invoices = [t \in Txn |-> {}]
  /\ documents = {}
  /\ orphans = {}
  /\ exposed = {}
  /\ budget = MaxFaults

(* The Odoo backup lands an order that earlier runs could not see.           *)
OrderLands(o) ==
  /\ o \notin landed
  /\ landed' = landed \cup {o}
  /\ UNCHANGED <<recent, covered, repo, inFlight, run, oracle, budget>>

(* The day grows old: first the scheduler no longer posts it for its own     *)
(* sake, later the coverage query no longer looks that far back.             *)
DayAges ==
  /\ covered
  /\ recent' = FALSE
  /\ covered' = recent
  /\ UNCHANGED <<landed, repo, inFlight, run, oracle, budget>>

(* Mutant: the in-process lock is not asked for.                             *)
Regardless(p) == TRUE

(* inFlight.has(lockKey), the in-process lock.                               *)
NotInFlight(p) == HostOf[p] \notin inFlight

(* postDay takes the in-process lock.  buildGroup reads the day, holds back  *)
(* orders with unknown items and drops what earlier runs posted.  When       *)
(* nothing is left to invoice it rebuilds the group around the transaction   *)
(* number of the first posted order, with the payments of EVERY order.       *)
PostDay(p) ==
  /\ At(p, "idle")
  /\ NotInFlight(p)
  /\ inFlight' = inFlight \cup {HostOf[p]}
  /\ \E held \in SUBSET (Holdable \cap landed) :
       LET seen  == landed \ held
           fresh == seen \ Posted
       IN \/ /\ fresh # {}
             /\ run' = [run EXCEPT ![p] = FreshRun(fresh)]
             /\ exposed' = exposed \cup (fresh \cap Claimed)
          \/ /\ fresh = {}
             /\ \E r \in success :
                  /\ r[1] \in seen
                  /\ \A o \in seen : r[1] <= o
                  /\ run' = [run EXCEPT ![p] = ReuseRun(r[2], landed)]
             /\ UNCHANGED exposed
  /\ UNCHANGED <<source, repo, invoices, documents, orphans, budget>>

(* Mutant: the markers of an earlier timeout are not consulted.              *)
CheckNothing(p) ==
  /\ At(p, "check")
  /\ Go(p, [run[p] EXCEPT !.pc = "create"])
  /\ UNCHANGED <<source, repo, oracle, budget>>

(* hasUncertainLines, asked per sales order.                                 *)
CheckUncertain(p) ==
  /\ At(p, "check")
  /\ Go(p, [run[p] EXCEPT !.pc =
             IF uncertain \cap run[p].header # {} THEN "recheck" ELSE "create"])
  /\ UNCHANGED <<source, repo, oracle, budget>>

(* verifyInOracle before anything is sent: adopt, create, or stay uncertain. *)
Recheck(p) ==
  /\ At(p, "recheck")
  /\ \/ \E t \in Matching(run[p].header) :
          Go(p, Holding(run[p], t)) /\ UNCHANGED budget
     \/ /\ Matching(run[p].header) = {}
        /\ Go(p, [run[p] EXCEPT !.pc = "create"]) /\ UNCHANGED budget
     \/ Fault /\ Go(p, [run[p] EXCEPT !.pc = "mark"])
  /\ UNCHANGED <<source, repo, oracle>>

-----------------------------------------------------------------------------
(* Mutant: one round too many.                                               *)
NextAttemptTooMany(p, r) ==
  IF r.tries <= Attempts
  THEN Go(p, Again(r))
  ELSE Exit(p)

(* One round of createInvoiceSafely's loop.  A round that is to be repeated  *)
(* ends the run when it was the last.                                        *)
NextAttempt(p, r) ==
  IF r.tries < Attempts
  THEN Go(p, Again(r))
  ELSE Exit(p)

(* Oracle accepts: from here the invoice exists, and the answer travels.     *)
CreateAccepted(p) ==
  /\ At(p, "create")
  /\ \E t \in Txn :
       /\ Unused(t)
       /\ invoices' = [invoices EXCEPT ![t] = run[p].header]
       /\ Go(p, Awaiting(run[p], t))
  /\ UNCHANGED <<source, repo, documents, orphans, exposed, budget>>

(* REJECTED for another reason than an item, NOT_SENT after the client's own *)
(* retries, or an open circuit: nothing was created, the group fails.        *)
CreateRefused(p) ==
  /\ At(p, "create")
  /\ Fault
  /\ Exit(p)
  /\ UNCHANGED <<source, repo, oracle>>

(* REJECTED because of an item: once per run the lines concerned move to the *)
(* fallback memo line and the create is repeated.                            *)
CreateItemRefused(p) ==
  /\ At(p, "create")
  /\ ~ run[p].swapped
  /\ Fault
  /\ NextAttempt(p, [run[p] EXCEPT !.swapped = TRUE])
  /\ UNCHANGED <<source, repo, oracle>>

(* UNKNOWN_OUTCOME and, so far, no invoice.  Oracle may still process it.    *)
CreateTimedOut(p) ==
  /\ At(p, "create")
  /\ Fault
  /\ Go(p, Settling(run[p]))
  /\ orphans' = IF "late_commit" \in Faults THEN orphans \cup {run[p].header} ELSE orphans
  /\ UNCHANGED <<source, repo, invoices, documents, exposed>>

(* Oracle gets round to a call whose caller stopped waiting.                 *)
LateCommit ==
  /\ \E S \in orphans, t \in Txn :
       /\ Unused(t)
       /\ invoices' = [invoices EXCEPT ![t] = S]
       /\ orphans' = orphans \ {S}
       /\ exposed' = exposed \cup (S \ Expected)
  /\ UNCHANGED <<source, repo, inFlight, run, documents, budget>>

ReplyArrives(p) ==
  /\ At(p, "reply")
  /\ Go(p, [run[p] EXCEPT !.pc = "persist"])
  /\ UNCHANGED <<source, repo, oracle, budget>>

(* UNKNOWN_OUTCOME although the invoice exists.                              *)
ReplyLost(p) ==
  /\ At(p, "reply")
  /\ Fault
  /\ Go(p, Settling(run[p]))
  /\ UNCHANGED <<source, repo, oracle>>

(* A success without a transaction number throws a plain Error, which        *)
(* oracleFailureKind calls REJECTED: the group fails as if nothing existed.  *)
ReplyBlank(p) ==
  /\ At(p, "reply")
  /\ "blank_reply" \in Faults
  /\ Fault
  /\ Exit(p)
  /\ Forget(p)
  /\ UNCHANGED <<source, repo, invoices, documents, orphans>>

(* verifyInOracle after a timeout: found, confirmed absent, or still unknown.*)
SettleFound(p) ==
  /\ At(p, "settle")
  /\ \E t \in Matching(run[p].header) :
       Go(p, Holding(run[p], t))
  /\ UNCHANGED <<source, repo, oracle, budget>>

SettleAbsent(p) ==
  /\ At(p, "settle")
  /\ Matching(run[p].header) = {}
  /\ NextAttempt(p, run[p])
  /\ UNCHANGED <<source, repo, oracle, budget>>

(* Mutants: an unknown outcome is taken for a created, or an absent, invoice.*)
SettleAssumeCreated(p) ==
  /\ At(p, "settle")
  /\ Fault
  /\ Go(p, [run[p] EXCEPT !.pc = "persist"])
  /\ UNCHANGED <<source, repo, oracle>>

SettleAssumeAbsent(p) ==
  /\ At(p, "settle")
  /\ Fault
  /\ NextAttempt(p, run[p])
  /\ UNCHANGED <<source, repo, oracle>>

SettleUnknown(p) ==
  /\ At(p, "settle")
  /\ Fault
  /\ Go(p, StillUnknown(run[p]))
  /\ UNCHANGED <<source, repo, oracle>>

(* persistInvoiceFailure of an uncertain group; a failed save is only logged.*)
MarkUncertain(p) ==
  /\ At(p, "mark")
  /\ \/ uncertain' = uncertain \cup run[p].header /\ UNCHANGED <<budget, exposed>>
     \/ "mark_lost" \in Faults /\ Fault /\ Forget(p) /\ UNCHANGED uncertain
  /\ Exit(p)
  /\ UNCHANGED <<source, success, docRows, queue, invoices, documents, orphans>>

(* persistInvoiceSuccess: one SUCCESS row per line of the header.            *)
Persist(p) ==
  /\ At(p, "persist")
  /\ success' = success \cup (run[p].header \X {run[p].txn})
  /\ Go(p, [run[p] EXCEPT !.pc = "clear"])
  /\ UNCHANGED <<source, uncertain, docRows, queue, oracle, budget>>

(* clearUncertain swallows its errors.                                       *)
ClearUncertain(p) ==
  /\ At(p, "clear")
  /\ \/ uncertain' = uncertain \ run[p].header /\ UNCHANGED budget
     \/ Fault /\ UNCHANGED uncertain
  /\ Go(p, [run[p] EXCEPT !.pc = "docs"])
  /\ UNCHANGED <<source, success, docRows, queue, oracle>>

-----------------------------------------------------------------------------
(* A document whose row says SUCCESS is skipped.                             *)
DocSkipped(p) ==
  /\ At(p, "docs")
  /\ \E d \in NextDocs(p) : /\ AlreadyPosted(d, run[p].txn)
                            /\ Go(p, [run[p] EXCEPT !.todo = @ \ {d}])
  /\ UNCHANGED <<source, repo, oracle, budget>>

(* Oracle accepts the document; `copy` tells a repeated one apart.  Two      *)
(* copies stand for "more than one" (bound).                                 *)
DocAccepted(p) ==
  /\ At(p, "docs")
  /\ \E d \in NextDocs(p) :
       LET t       == run[p].txn
           held(n) == [kind |-> d.kind, tender |-> d.tender, orders |-> d.orders,
                       txn |-> t, copy |-> n]
       IN /\ ~ AlreadyPosted(d, t)
          /\ Acceptable(d, t)
          /\ documents' = documents \cup {held(IF held(1) \in documents THEN 2 ELSE 1)}
          /\ Go(p, Sent(run[p], d))
  /\ UNCHANGED <<source, repo, invoices, orphans, exposed, budget>>

(* Mutant: the row of a refused document says SUCCESS.                       *)
DocRefusedSaved(p) ==
  /\ At(p, "docs")
  /\ \E d \in NextDocs(p) :
       /\ ~ AlreadyPosted(d, run[p].txn)
       /\ IF Acceptable(d, run[p].txn) THEN Fault ELSE UNCHANGED budget
       /\ docRows' = docRows \cup {RowKey(d, run[p].txn)}
       /\ Go(p, [run[p] EXCEPT !.todo = @ \ {d}])
  /\ UNCHANGED <<source, success, uncertain, queue, oracle>>

(* Refused: an ERROR row, which nothing reads.                               *)
DocRefused(p) ==
  /\ At(p, "docs")
  /\ \E d \in NextDocs(p) :
       /\ ~ AlreadyPosted(d, run[p].txn)
       /\ IF Acceptable(d, run[p].txn) THEN Fault ELSE UNCHANGED budget
       /\ Go(p, [run[p] EXCEPT !.todo = @ \ {d}])
  /\ UNCHANGED <<source, repo, oracle>>

DocSaved(p) ==
  /\ At(p, "docreply")
  /\ docRows' = docRows \cup {RowKey(d, run[p].txn) : d \in run[p].sent}
  /\ Go(p, Answered(run[p]))
  /\ UNCHANGED <<source, success, uncertain, queue, oracle, budget>>

(* Accepted, but the answer timed out: an ERROR row all the same.            *)
DocReplyLost(p) ==
  /\ At(p, "docreply")
  /\ "doc_timeout" \in Faults
  /\ Fault
  /\ Go(p, Answered(run[p]))
  /\ UNCHANGED <<source, repo, oracle>>

(* markOrdersSynced for every contributing order.                            *)
FinishRun(p) ==
  /\ At(p, "docs")
  /\ run[p].todo = {}
  /\ queue' = [o \in Order |-> IF o \in run[p].payers THEN run[p].txn ELSE queue[o]]
  /\ Exit(p)
  /\ UNCHANGED <<source, success, uncertain, docRows, oracle, budget>>

(* The process dies, or a repository call throws and postRange reports the   *)
(* store as failed: what was in memory is gone.                              *)
Abort(p) ==
  /\ run[p].pc \in AbortAt
  /\ Fault
  /\ Exit(p)
  /\ Forget(p)
  /\ UNCHANGED <<source, repo, invoices, documents, orphans>>

-----------------------------------------------------------------------------
(* The steps of a run once it has begun, and the mishaps it can meet.        *)
Create(p)  == CreateAccepted(p) \/ CreateRefused(p) \/ CreateItemRefused(p) \/ CreateTimedOut(p)
Reply(p)   == ReplyArrives(p) \/ ReplyLost(p) \/ ReplyBlank(p)
Settle(p)  == SettleFound(p) \/ SettleAbsent(p) \/ SettleUnknown(p)
Record(p)  == MarkUncertain(p) \/ Persist(p) \/ ClearUncertain(p)
FollowUp(p) == DocSkipped(p) \/ DocAccepted(p) \/ DocRefused(p) \/ DocSaved(p) \/ DocReplyLost(p)

Work(p) ==
  CheckUncertain(p) \/ Recheck(p) \/ Create(p) \/ Reply(p) \/ Settle(p) \/ Record(p)
    \/ FollowUp(p) \/ FinishRun(p)

Next ==
  \/ \E o \in Order : OrderLands(o)
  \/ DayAges
  \/ LateCommit
  \/ \E p \in Poster : PostDay(p) \/ Work(p) \/ Abort(p)

Spec == Init /\ [][Next]_vars

(* Mutant: nobody asks which older days are incomplete.                      *)
DueRecent == recent

(* A run that has begun goes on.  The scheduler starts one daily for today,  *)
(* yesterday and every day of the look-back window on which the coverage     *)
(* query finds an order with no SUCCESS row; nothing else is sure to start   *)
(* one, and what is older waits for an operator.                             *)
Due == recent \/ (covered /\ landed \ Posted # {})

CronPosts == Due /\ \E p \in Poster : PostDay(p)

FairSpec ==
  /\ Spec
  /\ \A p \in Poster : WF_vars(Work(p))
  /\ WF_vars(CronPosts)

-----------------------------------------------------------------------------
RetailKinds == AllKinds \ {"journal"}
Document ==
  [kind : RetailKinds, tender : Tender, orders : SUBSET Order]
    \cup [kind : {"journal"}, tender : {None}, orders : SUBSET Order]
Held ==
  [kind : AllKinds, tender : Tender \cup {None}, orders : SUBSET Order, txn : Txn, copy : 1..2]
Run == [pc : Points, header : SUBSET Order, payers : SUBSET Order, txn : Txn \cup {None},
        tries : 1..Attempts, looks : 0..Looks, swapped : BOOLEAN,
        todo : SUBSET Document, sent : SUBSET Document]

(* Every table, run and Oracle record keeps its shape; in particular no row  *)
(* is ever saved without a transaction number Oracle issued.                 *)
TypeOK ==
  /\ landed \subseteq Order
  /\ recent \in BOOLEAN /\ covered \in BOOLEAN
  /\ success \subseteq Order \X Txn
  /\ uncertain \subseteq Order
  /\ docRows \subseteq AllKinds \X (Method \cup {None}) \X Txn
  /\ queue \in [Order -> Txn \cup {None}]
  /\ inFlight \subseteq Host
  /\ run \in [Poster -> Run]
  /\ invoices \in [Txn -> SUBSET Order]
  /\ documents \subseteq Held
  /\ orphans \subseteq SUBSET Order
  /\ exposed \subseteq Order
  /\ budget \in 0..MaxFaults

(* What the type invariant rests on: from the moment Oracle answers, a run   *)
(* knows a transaction number, and one more look is always left to it.       *)
TxnKnown ==
  \A p \in Poster :
    /\ run[p].pc \in {"reply", "persist", "clear", "docs", "docreply"} => run[p].txn \in Txn
    /\ At(p, "settle") => run[p].looks < Looks

(* "Never invoiced twice": whatever times out, dies or is repeated, no order *)
(* is on two Oracle invoices.                                                *)
InvoicedOnce == \A t, u \in Txn : t # u => invoices[t] \cap invoices[u] = {}

(* "A sale is never lost": an order whose SUCCESS rows say it is on an       *)
(* invoice, so that no later run looks at it again, is on that invoice.      *)
NoSaleDropped == \A r \in success : r[2] \in Txn /\ r[1] \in invoices[r[2]]

(* An order reported SYNCED with an invoice number is on that invoice.       *)
SyncedMeansInvoiced == \A o \in Order : queue[o] # None => o \in invoices[queue[o]]

(* Oracle holds one document of a number: receipts and their applications go *)
(* by method and transaction, the journal by transaction.                    *)
NumberedOnce ==
  \A d, e \in documents : RowKey(d, d.txn) = RowKey(e, e.txn) => d = e

(* No two receipts, applications or journals of a kind cover the same order, *)
(* however often the day is re-run.                                          *)
NoDoubleDocument ==
  \A d, e \in documents : d.kind = e.kind /\ d # e => d.orders \cap e.orders = {}

(* An order that reaches the backup is eventually recorded as invoiced, long *)
(* after the day itself and though runs before failed, unless Oracle may not *)
(* know one of its items or the day first leaves the look-back window        *)
(* ("data the scheduler will never reach on its own").                       *)
EveryOrderPosted ==
  \A o \in Order \ Holdable : o \in landed ~> (o \in Posted \/ ~covered)

(* A recorded order gets each of its documents while the scheduler still     *)
(* re-posts the day, though earlier runs failed or died half-way.            *)
DocumentsFollow ==
  \A o \in Order, k \in Kinds :
    o \in Posted ~> ~ recent \/ \E e \in documents : e.kind = k /\ o \in e.orders

-----------------------------------------------------------------------------
BeforePersist == {"check", "recheck", "create", "reply", "settle", "mark", "persist"}

(* A header holds landed orders; none is recorded before the run records it, *)
(* and all are once it goes on to clear the UNCERTAIN markers.               *)
HeaderFresh ==
  \A p \in Poster :
    /\ run[p].header \subseteq landed
    /\ run[p].pc \in BeforePersist => run[p].header \cap Posted \subseteq exposed
    /\ At(p, "clear") => run[p].header \subseteq Posted

(* Two runs are about to record the same order only if it was claimed twice. *)
Uncontested ==
  \A p, q \in Poster :
    p # q /\ run[p].pc \in BeforePersist /\ run[q].pc \in BeforePersist =>
      run[p].header \cap run[q].header \subseteq exposed

(* An order on an invoice is recorded, or marked UNCERTAIN, or a live run    *)
(* knows that it may be there.                                               *)
Accounted ==
  \A t \in Txn : \A o \in invoices[t] \ exposed :
    o \in Posted \/ o \in uncertain
      \/ \E p \in Poster : run[p].pc \in Unattended /\ o \in run[p].header

(* A run sends a header only when none of its orders is on an invoice.       *)
SendsOnlyUnbilled ==
  \A p \in Poster : At(p, "create") =>
    \A t \in Txn : invoices[t] \cap run[p].header \subseteq exposed

(* Whatever else fails, an order is on two Oracle invoices only if a run     *)
(* died, was answered without a number or lost its UNCERTAIN markers when    *)
(* nobody else knew that the order was billed, if Oracle processed a call    *)
(* long given up, or if two processes were at the order at once.             *)
DoublesAreExposed ==
  \A t, u \in Txn : t # u => invoices[t] \cap invoices[u] \subseteq exposed

(* The inductive invariant behind it: the two answers to "is this order on   *)
(* an invoice?", Oracle's and the repository's, can differ only for an order *)
(* that is exposed, or that the next run will ask Oracle about before        *)
(* sending it.                                                               *)
BillingInv ==
  HeaderFresh /\ Uncontested /\ Accounted /\ SendsOnlyUnbilled /\ DoublesAreExposed

(* The posters share one process, and with it the lock.                      *)
SameHost == \A p, q \in Poster : HostOf[p] = HostOf[q]

(* What the code assumes of its surroundings for InvoicedOnce: one process,  *)
(* and nothing happens between the moment Oracle commits an invoice and the  *)
(* moment the run has written that down.                                     *)
Sheltered ==
  /\ SameHost
  /\ AbortAt \cap Unattended = {}
  /\ Faults \cap {"mark_lost", "late_commit", "blank_reply"} = {}

(* One run at a time holds the store/day.                                    *)
OneRun ==
  /\ \A p \in Poster : ~ At(p, "idle") => HostOf[p] \in inFlight
  /\ \A p, q \in Poster : ~ At(p, "idle") /\ ~ At(q, "idle") => p = q

-----------------------------------------------------------------------------
(* The promise of the daily invoice, and the step-by-step claim that the     *)
(* code keeps it: Oracle's invoices change only by one new invoice over      *)
(* landed orders that no earlier invoice carries.                            *)
Billing == INSTANCE DailyBilling WITH bills <- invoices

BillingSpec == Billing!Spec
=============================================================================

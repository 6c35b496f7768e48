# A verification model of the Odoo → Oracle Fusion integration

This directory holds TLA+ modules, TLC configurations and machine-checked proofs
about the integration service in `packages/backend` (NestJS, TypeORM on Oracle
Database, Bull queues on Redis).  The service copies point-of-sale orders from
Odoo (and VendHQ) into backup tables, aggregates every store's business day into
one AR invoice per group, posts it with its receipts and journals to Oracle
Fusion, moves the stock and turns refunds into credit memos.

Paths below are relative to `packages/backend/src/` unless they say otherwise.

## 1. Inventory

### Components, their state, and what makes each correct

| component | state it keeps | operations | what makes it correct |
|---|---|---|---|
| **Daily invoice posting** `sync/daily-invoice.service.ts` | in memory: `inFlight`; tables `FUSION_INVOICE_HEADER`, `FUSION_INVOICE_LINE` (SUCCESS, ERROR, UNCERTAIN, SUPERSEDED), receipts, journals; stamps `OrderSyncQueue` | `postDay`, `postRange`, `createInvoiceSafely` | a sale is never lost and never invoiced twice; re-running a day is safe; follow-up documents are not repeated and not left out |
| **Daily aggregation** `sync/daily-aggregation.service.ts` | none (reads the backup and the SUCCESS rows) | `buildDailyGroups…` | a header holds exactly what is owed |
| **Daily invoice scheduler, coverage** `sync/daily-invoice-scheduler.service.ts`, `sync/integration-coverage.service.ts` | a lease row of `SyncControl` | cron, `daysToPost`, `outstandingDays` | every order that lands is posted before its day leaves the look-back window |
| **Oracle clients** `clients/oracle/*` | none of their own; circuits in Redis | SOAP create calls with retries, REST look-ups | failure kinds (REJECTED, NOT_SENT, UNKNOWN_OUTCOME) never lie about what Oracle did |
| **Circuit breaker** `clients/circuit-breaker.service.ts` | a Redis hash per circuit, an in-process fallback | `execute`, `reset`, `isAnyOpen` | a circuit never shuts its callers out for good, a dead probe included |
| **Order queue and processor** `queues/**` | Bull jobs, `OrderSyncQueue.status`, `SyncJob` counters | `enqueueOrderSync`, `handleOrderSync`, retries, dead letters | SYNCED means posted; no document is posted twice; one handler at a time works on an order; a PENDING order is worked on |
| **Sync jobs, ingestion, pipeline cron** `sync/sync.service.ts`, `order-sync.service.ts`, `pipeline-scheduler.service.ts`, `idempotency.service.ts` | `SyncJob`, `OrderSyncQueue`, audit log | `createSyncJob`, `ingestOrder`, cron | a job is finished when its orders are, and not before; ingesting again does no harm |
| **Sync control** `sync/sync-control.service.ts` | `SyncControl` rows with a 30-minute lease | `acquireLock`, `releaseLock`, `markRunning`, `markStopped` | one holder at a time, and a dead holder does not block for ever |
| **Inventory upload** `sync/inventory-upload.service.ts`, `inventory-transaction-verifier.service.ts` | `FusionInvTxn` rows | `uploadDay`, `reprocess`, `verifyPending` | stock of an order and item moves exactly once |
| **Refunds, credit memos** `refunds/credit-memo.service.ts` | `RefundTracking`, audit log | `pushRefund`, cron | one credit memo per refund |
| **Integration runs and schedules** `sync/integration-run.service.ts`, `integration-scheduler.service.ts` | `runningRegions`, `SyncJob` scopes, schedules | `startRun`, `tick`, `runNow`, `recordFinished`, bootstrap clean-up | one run per region; a closed day missed is caught up; no row says running for ever |
| **Stalled orders, retries, auto-fix** `sync/stalled-orders.service.ts`, `enhanced-retry`, `bulk-retry`, `auto-fix` | `OrderSyncQueue` | periodic sweeps | an order is retried a bounded number of times and then surfaces as FAILED |
| **Odoo backup** `odoo-backup/` | backup tables | `upsertOrder`, bulk persistence | an order's lines are replaced as a whole |
| VendHQ and IBQ backups, webhooks, item sync, store configuration, payment mapping, reconciliation, transformations, users and audit, monitoring, reports, dashboard | tables of their own | CRUD, copies, reports, field mapping | data mapping and access rules rather than protocols |

### How they interact

`OdooBackup` fills the backup tables; ingestion and webhooks create
`OrderSyncQueue` rows; the pipeline cron creates a `SyncJob`, whose orders Bull
hands to `OrderSyncProcessor`.  In the default (daily aggregation) mode the
processor only validates and leaves the order PENDING; the daily-invoice cron, an
integration run, an automatic run or the API then calls
`DailyInvoiceService.postDay`, which asks `DailyAggregationService` what the day
still owes, calls Oracle through the SOAP client (inside the circuit breaker),
records rows, posts receipts and journals, and finally stamps the queue rows
SYNCED.  The same day's stock goes out through `InventoryUploadService`; refunds
go through `CreditMemoService`.  The parts share state through the database, so
the real interleavings are between processes, and between a call to Oracle and
the row that remembers it.

### What is hard here

* A call to Oracle and the database row that records it are two steps, and the
  process may die, or the answer be lost, in between.
* A timed-out call may or may not have taken effect, and may still take effect.
* Several paths start the same work; some guards live in one process only, and
  the deployment files run several (`infrastructure/docker/docker-compose.prod.yml`,
  3 backend and 2 worker replicas).
* Orders land late, are held back, or change while a day is being re-run.
* Decisions are taken on rows read before an `await`.

`PROJECT.json` lists these under `hazards`, each at the line where it bites, with
the property that watches it, what that property leaves out, or the reason why
none watches it.

## 2. Plan

Modules, most important behaviour first; all of them are done.

1. `DailyBilling`, `DailyInvoice`, `MCDailyInvoice`, `DailyInvoiceProofs`,
   `ClosedDayProofs` — posting one group of one store-day.
2. `StockLedger`, `InventoryUpload`, `MCInventoryUpload`, `InventoryUploadProofs`,
   `StockOnceProofs` — `uploadDay`, `reprocess` and `verifyPending`.
3. `OrderSync`, `MCOrderSync`, `OrderSyncProofs` — the life of an order in the
   queue: row, Bull job, handler, and everybody else who writes the row.
4. `CircuitBreaker`, and `CreditMemo`, which composes it with the pushes of a
   refund; `MCCreditMemo`, `CreditMemoProofs`.
5. `SyncJobs`, `MCSyncJobs`, `SyncJobsProofs` — jobs over the queue and their
   counters, the pipeline.

6. `IntegrationRuns`, `MCIntegrationRuns`, `IntegrationRunsProofs` — the automatic
   integration of a region: which closed days are posted, by which run, and what
   is said about it.

What could come next: the lease of `SyncControl`, which gates the posters of
`DailyInvoice`; they overlap at will there.

## 3. The modules

### `DailyInvoice` — posting a group

One *group* is the orders of one branch, business day, customer type and credit
flag; groups share no row, receipt number or transaction number, so one is
enough.  An *order* stands for its lines: the backup replaces them in one
transaction, one header carries them, and one `save` records them.

| model | code |
|---|---|
| `landed`, `OrderLands` | rows of the Odoo backup, `upsertOrder` |
| `success` | `FUSION_INVOICE_LINE` rows with status SUCCESS; a set of ⟨order, invoice number⟩ |
| `uncertain` | UNCERTAIN line rows |
| `docRows` | SUCCESS rows of receipts, applications and journals, by the number they are looked up with |
| `queue` | `OrderSyncQueue.oracleInvoiceNumber` of SYNCED rows |
| `inFlight` | `DailyInvoiceService.inFlight`, per process |
| `run[p]` | what `postGroup` holds in its locals, and where it is (`pc`) |
| `invoices`, `documents`, `orphans` | Oracle: what it accepted, and calls it may still process |
| `exposed` | a history variable: orders billed with nobody left who knows (`Forget`), on an invoice Oracle issued when it was not `Expected` any more, or claimed by two runs at once (`Claimed`); nothing reads it but the properties |
| `recent`, `covered`, `DayAges` | the day is today or yesterday, so `daysToPost` includes it anyway; it is within the look-back of `regionCoverage` (`DEFAULT_COVERAGE_LOOKBACK_DAYS`, 14), so `outstandingDays` may include it |
| `budget` | how many faults are left |

The program points are the places where `createInvoiceSafely` and `postGroup`
await something: `check` (are there UNCERTAIN rows), `recheck` (look-up before
sending), `create`, `reply` (Oracle has committed, the answer travels), `settle`
(look-ups after a timeout), `mark` (save UNCERTAIN), `persist`, `clear`, `docs`,
`docreply`.  A step of the model is the code from one await to the next, so all
interleavings of two posters, of late orders and of failures are explored.

`Faults` and `AbortAt` say which mishaps an instance admits, beyond refusals,
timeouts and unanswered look-ups, which are always possible: `late_commit`
(Oracle commits after the look-up said absent), `mark_lost` (the UNCERTAIN rows
could not be saved), `blank_reply` (success without a number), `doc_timeout` (a
receipt's answer is lost).  `AbortAt` names the points at which the process may
die or a repository call throw.

External and modelled from use: Oracle's numbering, its refusal to apply a
receipt that does not exist, and late commits.

### `DailyBilling` — the promise

Orders land; an invoice is issued for landed orders that no other invoice
carries; nothing else happens.  `DailyInvoice!Billing` instantiates it with
`bills <- invoices`, and `BillingSpec` is the claim that `DailyInvoice`
implements it.

### `StockLedger` — the promise of the upload

The stock of a line moves once; what is recorded as posted did move, and stays
recorded.  Harm releases the upload from all of that but "nothing is recorded that
did not move", and that ends with a verdict on the wrong row (`misjudged`).
`InventoryUpload!Ledger` instantiates it with `recorded <- PostedLines`, the lines of
the SUCCESS records, and `LedgerSpec` is the claim that `InventoryUpload` implements
it.

### `InventoryUpload` — moving the stock

One item of one order, sold on one or more lines.  `convertOrders` sums the lines
of a unit of measure into a row, so a row is a set of lines; `FusionInvTxn` is
searched by order and item only, so rows of other order-items never meet these.

| model | code |
|---|---|
| `landed`, `Sold` | the lines of the order that sell the item; the sales an instance admits |
| `table` | `FusionInvTxn`: per id, the lines reprocess would send for it and its status; `HELD` is ERROR or NEGATIVE_INVENTORY |
| `moves` | Oracle: how often each line's stock moved |
| `job[w]` | a call of `uploadDay` (`Host`) or `reprocess` (`Clerk`): rows to do, what it read about earlier records, rows under way |
| phases of a row | `sent` (POST under way), `unsent` (failed without a call), `accepted`, `refused`, `saved` (duplicates still to retire) |
| `staged[i]` | Oracle's interface row for leftover *i*: queued, processed, or refused (rejected, or never posted) |
| `checked` | leftovers in a batch of `verifyPending` |
| `budget` | mishaps left (`MaxFaults`): overlaps, lost answers, failed saves, deaths |
| `harm` | a history variable, see below |
| `misjudged` | a history variable: a verdict wrote SUCCESS on a row no longer PENDING, or a SUCCESS row is older than the verifier and its stock never moved |

`loadExisting` sorts by `updatedAt`; the model leaves open which live record comes
first, and, as in the code, all rows of one run share that choice.  A row that was
never sent keeps the payload of its record's previous POST, which reprocess
prefers to the columns (`SaveUnsent`).  Oracle committing a POST and reporting
failure, or acting after the caller gave up, is `ReplyLost`.

**Leftovers.**  The earlier upload, which is no longer in the code, queued one
interface row per line and recorded it PENDING; the verifier settles such a row
minutes or days later.  `Init` admits any of them: PENDING, SUCCESS or held, with
Oracle having processed the interface row, rejected it, or having it queued still.
So a held leftover may be one the verifier gave up (`abandoned`) that Oracle
processes after all, and a SUCCESS one may date from before the verifier, when
every queued row was recorded SUCCESS.  `OracleProcesses` and `OracleRejects` may
happen at any time.  `Check` is a batch's read, `Confirm` and `Condemn` are its
verdicts, written by `settle` whatever the row says by then, and `LetGo` is none.
Any number of verifiers may have a row in their batches.

**Harm** is done when

* two callers overlap, or a verdict is passed beside a call at work or on a row that
  is PENDING no longer (`Begin`, `Settle`);
* the outcome of a POST, or the retiring of a duplicate, is lost (`ReplyLost`,
  `SaveLost`, `RetireLost`, `Crash`);
* a line is sent that Oracle has queued for a leftover, or has moved for one that
  nobody confirmed (`Unsettled`);
* rows of two units of measure share the record of an earlier run (`Shared`).

### `OrderSync` — an order in the queue

| model | code |
|---|---|
| `row` | `OrderSyncQueue.status` of the order; `kind` whether it is invoiceable |
| `job` | the Bull job with the order's id: state, tries left |
| `run[w]` | what `handleOrderSync` holds in its locals, and where it is |
| `oracle`, `saved`, `audit` | documents in Oracle, SUCCESS rows, the audit log's record |
| `billed` | the day's invoice covers the order (`markOrdersSynced`) |
| `held` | the row is on the clean-up's list |
| `perOrder` | `PER_ORDER_INVOICING`, on or off: both are explored |
| `open` | the last cycle of the pipeline found nothing in its way (`Cycle`): its switches on, no oracle circuit OPEN, no ORDER_SYNC job PENDING or PROCESSING, the minimum batch reached |
| `losses` | workers that may still be lost |
| `harm` | a history variable: an answer or a record was lost, or Bull took a slow worker for a lost one |

A handler reads the row once (`Start`) and works from that copy; each write and
each call to Oracle is a step of its own.  The other writers of the row —
ingestion, `createSyncJob`, resets and retries, the negative-inventory retry, the
clean-up and the daily run — are the disjuncts of `Others`.  Between any two
steps of a handler each of them may act.

`Docs` is the sequence of documents the handler posts.  A `Checked` document is
looked up among the recorded ones before it is posted; miscellaneous receipts are
not (`Unchecked`); a journal without an id is recorded and passed over (`Silent`).
`Pipeline` is a cycle that finds its way clear and puts the PENDING sale on the queue.  The
workers are interchangeable, so the first idle one takes a job (`Start`).
Bull is external: one job per id, an add dropped while the id exists, a number of
tries, and the job of a lost worker handed to another (`Crash`), or of one that is
only taken for lost (`Stall`).

### `CircuitBreaker` and `CreditMemo` — refunds through a circuit

`CircuitBreaker` is one circuit kept in Redis.  `execute` reads the hash once
(`Enter`), decides on that copy and writes one field at a time (`Write`, whose
`todo` list is what remains to be written), so callers see each other's half-done
changes.  Time is what the code compares it with: the recovery time has passed
(`Elapse`), the key has expired (`Expire`; the TTL of 300 s outlives the recovery
time and the longest call).  Its actions speak of `circuit` and `call` only.
`CreditMemo` extends it and says in each action what else changes: a push enters
`execute` with `Create`, Oracle answers with `Post`, `Refuse` or `ReplyLost`, and
the push goes on when the breaker returns, throws or rejects.

| model | code |
|---|---|
| `circuit`, `call[w]` | the Redis hash; a call of `execute` |
| `refund` | `RefundTracking`: status, and whether it has the memo's number |
| `audit` | the SUCCESS record `findExisting` looks for |
| `memos` | credit memos Oracle has for the refund; 2 stands for more |
| `push[w]` | a batch of `processPending` or a single `pushRefund`, and where it is |
| `ingest` | `ingestOrder` on a refund, between reading the row and saving it |
| `harm` | overlapping pushes, a lost answer or save, a stale ingest, a death after the memo was made |

The cron runs in `Cron` callers, which test the circuit first (`AutoPush`); the
API runs in `Clerk` callers.  The batch's other refunds are calls on the same
circuit (`TakeOther`).

### `SyncJobs` — jobs over the queue

| model | code |
|---|---|
| `sync[j]` | the `SyncJob` row: status, total, processed, whether anything failed or progressed |
| `maker[j]` | `createSyncJob` at work: row saved, orders enqueued, totals to be written |
| `queue[o]` | the Bull entry of an order, and the job it names |
| `hand[o]` | the handler of that entry: the counters it has still to write |
| `cron` | one tick of `runAutomaticPipeline` |
| `handled[j]`, `astray`, `harm` | history: orders finished for the job; jobs whose count something led astray; deaths and lost counters |

What the handler does to an order is in `OrderSync`; here it is an outcome
(`Settle`), since `incrementSyncJobCounters` is all that jobs see of it: two
increments, a read and perhaps a write, each a step.  Only whether the failed
counter is zero, and whether synced and skipped together are, decides the final
status, so these are Booleans.

### `IntegrationRuns` — a region's automatic runs

One region.  `DailyInvoice` posts one business day; this module says which days are
handed to it, and what becomes of the runs that do.

| model | code |
|---|---|
| `today`, `hour`, `settings` | the region's local clock, and `runTime` and `cutoffTime` of its schedule |
| `on` | the master and the region switch of Sync Control |
| `row` | the rest of the `IntegrationSchedule` row: `lastScheduledDate`, `lastRunJobId`, and whether `lastRunStatus` is RUNNING |
| `busy[p]` | `runningRegions` of process *p* has the region |
| `start[c]` | `startAutomatic` (or `startRun` alone) at work for the tick or for an operator: `due` (day to be stamped), `ready` (region to be looked up), `save` (row to be saved, region to be registered), `started`, `refused` |
| `live[j]` | the `SyncJob` row is PENDING or PROCESSING |
| `run[j]` | `execute` at work, then `recordFinished` (`report`, `record`) |
| `stranded[p]` | rows that `onApplicationBootstrap` found and has not marked yet |
| `taken` | business days an automatic run got through (what became of each is `DailyInvoice`) |
| `bad` | local days whose scheduled run was refused, stopped, killed, still at work at midnight, or never fired because the switch was off or every process down |
| `raced`, `unreported`, `unwritten` | history: two starts met; a report was lost; jobs whose last status was not saved |

The window of a run ends at the latest closed day (`LatestClosed`) and looks back
`Lookback` days (`First`).  A local day has two parts, and each of `runTime` and
`cutoffTime` may fall into either: the cut-off before, after or together with the
run.  `run()` of the scheduler (every enabled region) is `RunNow` for each of them.
A day in the model lasts until its tick has fired, if the switch is on and a process
up, as one comes every minute; a tick does not straddle midnight.

### The proof modules

`DailyInvoiceProofs`, `InventoryUploadProofs`, `OrderSyncProofs`,
`CreditMemoProofs`, `SyncJobsProofs` and `IntegrationRunsProofs` hold the theorems of
section 6.  `ClosedDayProofs` extends the first with documents and with what needs a closed day,
`StockOnceProofs` the second with what holds until harm is done.

## 4. The runs

| run | instance | checks |
|---|---|---|
| `storm` | closed day of 2 orders, 2 processes, every abort point, every fault, 3 faults in all | `TypeOK`; `NoSaleDropped`: a SUCCESS row never names an invoice without its order; `DoublesAreExposed`: what it takes to bill an order twice; its inductive form `BillingInv` |
| `late` | one process, 3 orders (one at first, two late, one of them may be held), 3 faults, aborts outside the commit-to-record window; standard receipts | `InvoicedOnce`; `NumberedOnce`: Oracle holds one document of a number; `BillingSpec`, and `EveryOrderPosted` (before the day leaves the look-back window) under fairness |
| `receipts` | one process, closed day of 3 orders with two tenders; standard, misc and apply receipts | `NoDoubleDocument`; `DocumentsFollow` under fairness |
| `adopted` | one order late | *violated* `NoSaleDropped`: a late order adopted into an invoice that does not carry it |
| `stock` | one process and one administrator; two pieces, or a piece and a box; up to two rows left by the earlier upload in every status and state of Oracle's queue; the verifier; one mishap | `TypeOK`, `RecordedMeansMoved`, `MovedOnce`, `NeverHidden`, `SuccessIsFinal`, `LedgerSpec`; `StockFollows` under fairness |
| `orders` | one order, 2 workers, an invoice, a miscellaneous receipt and a journal, both ways of invoicing, the pipeline open or shut, 2 tries, webhook events without bound, 1 lost worker, every fault | `TypeOK`, `OneAtATime`, `PostedOnce`, `SyncedIsPosted`; `Worked` under fairness |
| `refunds` | one refund, the cron and a clerk, a circuit that opens at 2 failures, a webhook, every fault | `TypeOK`, `MemoOnce`, `SyncedIsPosted`, `SyncedHasNumber` |
| `breaker` | the same actors, a circuit that opens at 1 failure, one process may die | `Recovers`, `Settles` under fairness |
| `jobs` | 2 jobs over 2 orders, 2 tries, one operator's action or death, the pipeline | `TypeOK`, `CompletedIsHandled`, `CountedIsFinished` |
| `regions` | one process, 2 local days that look back 2 business days each, every order of cut-off and run time, 2 job rows, 2 mishaps or operator's actions | `TypeOK`, `OneRun`, `CaughtUp`, `Reported`, `NoOrphan` |
| `undone` | one order, one worker, the daily run | *violated* `SyncedIsKept`: a SYNCED order is left PROCESSING |
| `wedged` | one job over 2 orders, the pipeline, no fault | *violated* `HandledIsFinished`: a job whose orders are handled stays PENDING |

`adopted`, `undone` and `wedged` show real disagreements between what
comments of the code say and what it does; `findings` in `PROJECT.json` quotes
both sides.

**Why the passing runs have the conditions they have.**  `NoSaleDropped` is checked
on a closed day because run `adopted` shows it false otherwise.  `InvoicedOnce`
is checked in one process, because the lock `inFlight` is a field of the service
object: two processes that post the same day at once both find nothing posted and
both create the invoice.  The production compose file runs several back ends, so
this condition is one that the deployment has to keep (the lease of
`SyncControl` covers the cron only).  It is also checked without the events that no client-side
protocol can survive or that this code does not guard against: death between
commit and record, lost markers, late commits, blank answers.
These conditions are stated once, as `Sheltered`, and are the hypothesis of the
theorems about `InvoicedOnce` and `BillingSpec`.  `storm` has none of them and
checks instead what it takes to bill an order twice (`DoublesAreExposed`): the one
run that knew of the first invoice died, was answered without a number, or could
not save its markers, and no row, marker or other run told of it; or Oracle
processed a call after a look-up had said that it was absent, or after it was
forgotten; or two processes had the order in hand together.  A timeout, a lost
answer, an unanswered look-up, a late commit while some run still looks, and a
death at any other moment are not enough, in any number.  `receipts` gives each payment method one register, since two share a
receipt number (`daily-aggregation.service.ts:1227`, listed as a hazard).  Its day is
closed because `NoDoubleDocument` is false when an order lands late.  When every line
of a day is posted, `buildGroup` rebuilds the documents around the first invoice
from *every* order of the day (`daily-aggregation.service.ts:654-676`; its comment
speaks of "the orders that produced the existing invoice").  So if the run of the
first invoice dies before its receipts, and a late order paid by card is invoiced
and receipted as Card-2, the next run receipts that order again, as Card-1.  What holds on such a
day too is that no *number* is used twice (`NumberedOnce` in `late`): each document
is guarded by its own row.

`MovedOnce`, `NeverHidden`, `SuccessIsFinal` and `LedgerSpec` of `stock` say "until
`harm`".  `stock` explores what comes after as well, where `RecordedMeansMoved` goes
on to hold until a verdict is `misjudged`.  Each kind of harm is something the code
does not rule out, and each may move stock twice or lose a record:

* *Overlap.*  No lock keeps a reprocess call from overlapping an upload.
* *Lost outcomes.*  A POST whose answer is lost is recorded as failed, and a failed
  save is only logged (`inventory-upload.service.ts:488-515`, `749-758`).
* *Leftovers sent again.*  `uploadDay` skips an order-item only if a row of it says
  SUCCESS (line 168).  A row left PENDING, or given up by the verifier as ERROR, is
  reused and its lines are sent at once, while Oracle has processed or may yet process
  the queued interface row.  So lines 151-153, "switching to this upload never
  double-relieves a posted day", hold of rows that were confirmed only.
* *Late verdicts.*  `settle` updates by id.  Lines 118-120 of the verifier call it safe
  beside a posting run, because "a row is only ever moved out of PENDING"; yet the
  row was read before the look-up in Oracle, and may say SUCCESS by now, for stock
  the run moved: the verdict turns it into ERROR, and the next run sends it again.
* *Shared records.*  `postedKey` (line 745) leaves the unit of measure out.  Of an item
  sold by the piece and by the box:
  1. both rows fail and get a record each;
  2. the next run hands the most recent record to *both* rows; one is accepted and
     saved SUCCESS, the other is refused and saved over it;
  3. the third run finds no SUCCESS and sends the accepted row again.

  If instead one of them succeeds and the other is refused with a record of its own,
  the SUCCESS makes every later run skip both, and the second unit never moves;
  `StockFollows` therefore promises that *some* stock moves.

Without harm the properties hold of all the rest: refused and held rows, re-runs,
reprocess calls and clean-ups in any order, leftovers that are confirmed, rejected
or settled while nobody is at work, deaths between two rows, and two units whose
rows do not meet.

In `orders`, `PostedOnce` and `OneAtATime` say "unless `harm`", `SyncedIsPosted`
says it for nothing at all.  `PostedOnce` is about the checked documents: the
code posts miscellaneous receipts again on every retry, although
`order-sync.processor.ts:626` promises a check at every step.  In `refunds` the same
holds of `MemoOnce` and `SyncedIsPosted`.  `CountedIsFinished` of `jobs` excludes the
jobs of `astray`: those of which Bull dropped an entry because the order's entry
was still there, whose counter moved before `createSyncJob` wrote the totals (run
`wedged`), that were retried, or of which a process died.  Each of these leaves a
job PENDING for ever in this code, and the pipeline waits for it.

`CaughtUp` of `regions` says that a business day is posted on the first good day of
those that look back to it; which days are not good is `bad`, and nothing the
scheduler itself does makes a day bad.  The stamp `lastScheduledDate` is saved
before the run is started, so a refusal or a death in between costs the whole
day; only the next days' look-back repairs it, and with `lookbackDays` 1 nothing
does.  When the run time comes before the cut-off, a run that fires late, after the
cut-off, ends its window a day later than usual and begins it a day later: this is why
`LooksBackTo` then promises `Lookback - 1` days only, and none with `lookbackDays` 1.  `OneRun` says "unless `raced`": the region is looked up before the job's row
is saved and registered after it, so two starts that meet there both run, against
the comment of `integration-run.service.ts:91-93`; `raced` is set by nothing else.
`Reported` says "unless `unreported`": a process that is killed leaves its
schedule RUNNING until the next run, since the bootstrap corrects the job's row
only.  `NoOrphan` has no condition but that the last write of a row is not lost.
The run has one process: with several, the bootstrap of one marks the live runs of
another FAILED.  The theorems hold for any number.

**Bounds.**  Two posters are enough for every race on the lock, and a third could
only wait.  Two or three orders give a header that is old, one that is new and a
mixture.  `Txn` bounds the invoices to one more than a correct run needs; when it
is used up `CreateAccepted` is disabled, which happens only in `storm`.
`Attempts` and `Looks` are 2 and 1 or 2 instead of 3 and 3: the loop has a first,
a repeated and a last round.  Two `copy` values stand for "more than one
document".  `MaxFaults` of 2 or 3 admits a fault in a run, in its look-up and in
the run that repairs it.  In `stock` two ids are the two leftovers, or two records of
the new upload;
the id of a superseded record serves again once no call holds it, since such a
record is never read.  Two callers are enough to overlap, and the one mishap
(`MaxFaults` 1) can hit a run at any of its points; several of them in one behaviour
are left to the proofs, which hold for any number.  The two other kinds of harm,
`Unsettled` and `Shared`, are no mishaps and happen in `stock` without bound.  In `orders` two workers are enough for a job to be
taken over, two tries for a first and a last one; webhook events change the
order while it is worked on, as often as they like; the receipts and applications
are checked as the invoice is and left out of `Docs`.  A circuit's threshold of
2 has a failure that does not open it, `MaxFlight` 1 is the limit of probes.
In `jobs` two orders make a job with one order handled and one not, two jobs can
claim the same order.  In `regions` a business day is in reach of two windows, so
one may fail; two rows are a run that ends and one that begins, and a row that
nobody refers to serves again; two mishaps are a failure and a death.

**Deadlock** is checked in every run but those of `SyncJobs` and `IntegrationRuns`,
whose calendar ends.  A poster can always
begin again once something is recorded or owed, as the real schedulers do.  The
bound on jobs stops the pipeline of `SyncJobs` where the real one makes another
job, which is why its runs do not check deadlock.

**Fairness.**  `FairSpec` assumes that a run which has begun goes on
(`WF(Work(p))`: awaited calls have timeouts, so each promise settles) and that the
cron posts the day again while it is *due* (`WF(CronPosts)`): `daysToPost` returns
today, yesterday and every day of the coverage window with an order that has no
SUCCESS row.  The window is 14 days (`integration-coverage.service.ts:41-44`, 103-105,
135-139); what is older is "data the scheduler will never reach on its own" (218-222)
and waits for an operator, so `EveryOrderPosted` promises that an order is posted
or its day leaves the window (`covered`) first.  Nothing else is assumed: an old day whose orders all have SUCCESS
rows is not posted again, which is why `DocumentsFollow` promises documents only
while the day is recent.  No fairness is assumed of the backup, of faults or of
the calendar.

For `InventoryUpload` fairness is for uploads only: the cron posts the day while it
is recent, a run goes on, Oracle accepts a row it
is offered again and again, and the subinventory's organisation is found again
and again.  No administrator is obliged to act, so held rows of an old day may
stay held: `outstandingDays` looks at invoice lines, not at stock.  This is why
`StockFollows` ends with the day's age.

For `OrderSync`: `runAutomaticPipeline` runs every 5 minutes
(`pipeline-scheduler.service.ts:70`) and skips the cycle while it is switched off, an
oracle circuit is OPEN (97-105), an ORDER_SYNC job is PENDING or PROCESSING (111-124)
or too few orders wait (141).  Nothing makes a cycle find its way clear: run
`wedged` shows a job that stays PENDING, and blocks the pipeline, for ever.
`Worked` therefore has the premise `[]<>open`, that again and again a cycle finds
nothing in its way, and strong fairness of `Pipeline` says that such a cycle then
meets the PENDING order some day.  Beyond that, Bull starts what waits, a handler goes
on, and the breaker does not turn away the item look-up, or the same document, for ever
(strong fairness of `Proceed` or `HoldItems`, and of `Post`; without it a circuit that always rejects
would send the order round for ever).  `Worked` promises nothing once a worker was lost: Bull then may have given
the job up, and the row stays PROCESSING until somebody resets it.

For `CreditMemo`: the cron finds the circuit not OPEN infinitely often
and then ticks (strong fairness, as it ticks at
its own times), a batch reaches the refund it listed, a status is saved some day,
calls return, the recovery time passes and an idle key expires.  No administrator
has to reset anything.  `Recovers` rests on the expiry: a probe whose process died
is never counted out, and a half-open circuit that is full rejects without
writing, so the key is left to expire (mutant `ExpireClosed`).

## 5. Mutants

Every property of a passing run has a mutated definition, kept next to the
original and marked *Mutant*.  In `DailyInvoice.tla`: skipping the UNCERTAIN check,
a look-up that demands all sales orders, taking an unanswered look-up for
"created" or "absent", one attempt too many, ignoring older days, not looking for
a receipt's row, not asking for the in-process lock, and saving a refused receipt as SUCCESS.  In
`InventoryUpload.tla`: reusing records without a look at their status, counting a tried row as
posted, taking an in-band rejection for success, retiring the kept record, not
filtering the statuses of reprocess, sending what is posted again, and letting
reprocess retire duplicates.  In
`OrderSync.tla`: one document too many, adding a job whatever there is, not
removing a finished one, saving Oracle's raw status, passing over a refusal.  In
`CircuitBreaker.tla` and `CreditMemo.tla`: an open circuit's key that never
expires, a breaker that never learns that its caller has gone, a failure recorded under the success's key, a
rejected call taken for a made one, and an ingest that forgets the number.  In
`SyncJobs.tla`: counting where there is no job, not counting a failure that is to
be tried again, and not counting an order that is SYNCED already.  In
`IntegrationRuns.tla`: a window a day too wide or too early, a busy region that is not
turned away, a run that tells nobody, and an aborted row left as it was.
Each breaks the property it is listed with.

## 6. What is proved

`DailyInvoiceProofs` proves, for every set of orders, posters, transaction
numbers, attempts, look-ups and every fault budget:

* `TypeCorrect`: `Spec => []TypeOK`, with no hypothesis.  `TypeOK` is not
  inductive: that a row is never saved without a transaction number needs
  `TxnKnown` (from Oracle's answer on, a run knows a number, and a run still
  looking has a look left).  `TypeInv` is the conjunction.
* `BillingInvariant`: `Spec => [](TypeInv /\ BillingInv)`, with no hypothesis.
* `OnlyExposedTwice`: `Spec => []DoublesAreExposed`, with no hypothesis: whatever
  fails and however many processes post, an order on two invoices is `exposed`.
* `NeverInvoicedTwice`: `ASSUME Sheltered PROVE Spec => []InvoicedOnce`.
* `ImplementsBilling`: `ASSUME Sheltered PROVE Spec => BillingSpec`.

**The argument.**  `DoublesAreExposed` alone says nothing about a run that is about
to send.  `BillingInv` adds what makes its sending safe, each part "but for exposed
orders":

* `HeaderFresh` — a header holds landed orders without SUCCESS rows until it is
  recorded;
* `Uncontested` — no order is in the headers of two runs that have yet to record;
* `Accounted` — an order on an invoice has a SUCCESS row, or an UNCERTAIN row, or
  sits in the header of a run that has not written down its outcome yet;
* `SendsOnlyUnbilled` — a run at `create` sends nothing that is on an invoice.

`SendsOnlyUnbilled` is established in three ways: no UNCERTAIN rows (then, by the
other conjuncts, no invoice: lemma `UnmarkedUnbilled`), a look-up that found
nothing, or a refused create.  `Accounted` survives the end of a run because the
run either wrote its rows, or marked its orders, or knew that nothing was created
(lemma `RunEnds`), or exposed them (lemma `ForgottenBilling`).  `Uncontested` is
why another run's create does no harm to one that is about to send.

In one process (`SameHost`) the lock leaves one run at a time (`OneRunAlways`): every step
either ends that run or leaves it somewhere else (lemma `WorkGoesOnOrEnds`).  A
sheltered system exposes nothing (`NothingExposed`, lemma `NothingExposedStep`): there
is one run, and a run that may die knows nothing that the rows
do not tell (lemma `NothingForgotten`).  `InvoicedOnce` and the refinement follow.

The changes a run goes through are named operators (`Awaiting`, `Settling`,
`Holding`, …), each with a lemma about its type, program point and header; the
proof of a step then has one case per action.

`ClosedDayProofs` proves about documents, on any day:

* `NumbersOnce`: `ASSUME SameHost, AnswersArrive PROVE Spec => []NumberedOnce`.  The
  invariant is `NumbersInv`: the number of every document Oracle holds has its row, or
  the run that sent it is about to save it (`RowDue`).  The one run that sends found no
  row and awaits no answer itself, so Oracle holds no such number.  `AnswersArrive` is
  needed, since a lost answer about a document is recorded as an error whatever
  Oracle did (hazard at `daily-invoice.service.ts:524`); `SameHost` too, since two
  processes look for the row before either saves it.

And about a **closed day** (`Closed`: every order is in the backup before the first
run and none is held back):

* `ClosedDayDropsNothing`: `ASSUME Closed PROVE Spec => []NoSaleDropped`;
* `ClosedDaySyncedIsInvoiced`: `ASSUME Closed PROVE Spec => []SyncedMeansInvoiced`;
* `ClosedDayDocumentsOnce`: `ASSUME Sheltered, Closed, AnswersArrive PROVE
  Spec => []NoDoubleDocument`.

`Closed` is needed: run `adopted` refutes the first as soon as one order lands
late.  The first two need nothing else: any fault, any number of processes.  Their
invariant is `WholeDay`: every invoice, header, row and SYNCED stamp is about the
whole day or about nothing, so the look-up by *any* of the orders cannot adopt an
invoice that lacks one.  The third adds to `NumbersInv` that
every document is about all the orders of its tender and an invoice of the whole day
(`DocsWhole`), so that two documents of a kind about one order have one number.  It does not need one register per
payment method: two that share a receipt number lose a receipt, they do not double
one.

`InventoryUploadProofs` proves, for any number of processes, administrators,
lines, units, records and any admitted fault:

* `UploadTypeCorrect`: `Spec => []TypeOK`;
* `RecordedIsMoved`: `Spec => []RecordedMeansMoved`.  A record says SUCCESS through
  `Init`, through `Confirm`, whose line was processed or whose row was `misjudged`, or
  through `SaveSuccess`, so the strengthening is `AcceptedMoved`: the lines of every
  row at `accepted` have moved.  No step moves stock back (`Onward`), and retiring
  records creates no SUCCESS (lemma `RecordedKept`).

`StockOnceProofs` proves, for the same and for any number of leftovers and mishaps:

* `StockMovesOnce`: `Spec => []MovedOnce`; `StockIsShown`: `Spec => []NeverHidden`;
* `SuccessStays`: `Spec => SuccessIsFinal`, an action property;
* `ImplementsLedger`: `Spec => LedgerSpec`.  An accepted POST, or a queued row that
  Oracle processes, is `MoveStock`; a saved, retired or judged record is `Record`;
  everything else stutters or is `Harm`.

They have no hypothesis: what they leave open is in the properties, as `harm` and
`misjudged`.  The first three speak of states without harm, and their invariant is
`Orderly`: without harm one caller is at work, and whoever is alone is `Calm`:

* `Disjoint` — live records stand for different lines, those about to be retired
  excepted;
* `Settled` — a line that moved moved once, and a SUCCESS record says so or is about
  to, or Oracle moved it for a leftover;
* `Queued` — a leftover in Oracle's queue has not moved otherwise, so that processing it
  moves its line for the first time;
* `Pending` — what the call has still to send moved for a leftover if at all
  (and sending it is then harm), and what it has sent did not move before;
* for an upload `Apart` (its rows, one per unit, share no line) and `Anew` or
  `Again`: it found no record and writes new ones for lines no live record stands for,
  or it found some, sends one row only and knows every live record;
* for a reprocess `Selected`: it writes each of its held records once.

Two units that share a record break `Disjoint`, and a verdict beside a call breaks
`Selected` and `Again`, which is why both are harm.

`OrderSyncProofs` proves, for any documents, workers, tries, bounds and faults:

* `OrderTypeCorrect`, `SyncedMeansPosted`, `NeverTwoAtOnce`, `NeverPostedTwice`.
* `SyncedIsPosted` needs `Backed`: the recorded documents are in Oracle, the audit
  log speaks the truth, and a handler at document *i* has its predecessors in
  Oracle (`Reached`).  No step takes a document out of Oracle (`DoneKept`).
* `OneAtATime` needs `Owned`: without harm a handler at work owns the active job.
* `PostedOnce` needs `Owned` and `Accounted`: a document in Oracle is recorded or
  its only handler is about to record it.

`CreditMemoProofs` proves, for any callers, threshold, limit and faults:

* `MemoTypeCorrect`; only a call that is changing the circuit has writes to do.
* `SyncedHasMemo`, by `MemoBacked`: the audit log and every push that says it made
  a memo are right.
* `OneMemo` and `SyncedIsNumbered`, by `OneInHand` (without harm there is no memo,
  or it is recorded, or one push has it in hand and no other is past its look-up)
  and `Numbered` (the row has the number of a recorded memo).  What the circuit
  does in between is left out by lemmas `Carries` and `Stays`.

`SyncJobsProofs` proves, for any number of jobs, orders, tries and events:

* `JobsTypeCorrect`.  That a total fits among the orders needs `Fits`: what
  `createSyncJob` enqueued and what it skipped are disjoint (lemma `Apart`).
* `CompletedJobsAreHandled`: `Spec => []CompletedIsHandled`.  The counters are
  numbers written at different moments; `Sound` says what they can be trusted for
  without harm.  Without a failed order the processed count and the orders `Left`
  are together no more than the total (`Upper`); an order that is tried again has
  counted as failed (`Thrown`); a verdict of COMPLETED, reached (`Judged`) or shown
  (`Finished`), leaves no order.
* `CountedJobsFinish`: `Spec => []CountedIsFinished`.  The other direction, for a job
  that is not `astray`: the total is no more than the processed count and the orders
  left, and a PENDING job has an order left or a handler that has counted and goes
  on to judge (`Lower`, `Onto`; `Reaching` is the invariant).

Both rest on the shape of a job's life (`Shape`: `Listed`, `Voiced`) and on one case
analysis, `JobSteps`: seen from a job, every step of the system leaves its count as it is (`Same`), goes on
making it (`Making`), writes its totals (`Totalled`), counts one more order
(`TakenUp`), or goes wrong with harm (`GoesWrong`), which makes it `astray`.

`IntegrationRunsProofs` proves, for any processes, job rows, calendar, look-back and
mishaps:

* `RunsTypeCorrect`: no run reaches past the days its window may hold.
* `RegionRunsOnce`: `OneRun`, by `Registered` (a run at work keeps its process busy,
  and a start about to register is alone in a process that is not).
* `NoRowIsOrphaned`: `NoOrphan` is inductive with the types.
* `MissedDaysCatchUp`: `CaughtUp`.  The invariant follows a local day's promise
  through its life: a tick at work is today's and its window ends where it must
  (`Pledged`), a run has got through its window up to the day it is at
  (`Progress`), and a day that was fired is spoilt, done or on its way (`Owed`).  A
  window that ends where it must holds every day owed (`WindowHoldsOwed`), so a day
  that ends has kept its promise (`CatchNextDay`).
* `FinishedIsReported`: `Reported`, by `Expected` — a schedule that says RUNNING names
  a job that will report, and a start about to say so has one that has not read the
  schedule yet.

**Only model-checked:** the liveness properties `EveryOrderPosted`,
`DocumentsFollow`, `StockFollows`, `Worked`, `Recovers` and `Settles` (liveness under
fairness is out of the proof system's reach).  Every safety and action property of
a passing run is the statement of a theorem.

## 7. Not modelled

* Amounts, taxes, currencies and rounding: data, not protocol.
* An order whose payments land after its lines, or whose lines change after they
  were invoiced (hazard at `odoo-backup.service.ts:1626`).
* The paging limits of the invoice look-up (`oracle.client.ts:366`).
* A day whose posting throws before its inventory is reached: the upload of that
  run simply does not begin.
* Partial quantities of a line: a line moves as a whole.
* The earlier per-line upload, which is no longer in the code: only the rows it left
  are.  An interface row that Oracle rejects and purges later, so that a
  verifier finds it absent, is left out too.
* `outletAllows`: a settings read that leaves a store out of a run.
* The final status a job is given when two handlers count at once: a handler may
  read `failedCount` between the other's two increments and write COMPLETED over
  PARTIAL (`order-sync.processor.ts:1475`).  `SyncJobs` has those steps;
  no property forbids the outcome, because the code allows it.
* The breaker's fallback to a map in memory while Redis is away.
* The lease of `SyncControl`: it decides *when* the modelled posters run.  The
  modules let posters run at any time, lease or not.
* Changes of a schedule's settings while the calendar goes on, alerts, previews and
  counters of the automatic integration; `startAllActiveRegions` is `startRun` for each
  region.
* `retry.processor.ts`, `dead-letter.service.ts` and `enhanced-retry.service.ts`:
  nothing in production enqueues to them or calls them.
* Reconciliation, dashboards, reports, monitoring: readers of the tables.
* Backups of VendHQ, IBQ and Odoo beyond `upsertOrder`, item synchronisation:
  copies from an external API into tables nobody else writes.
* Users, authentication, store configuration, payment mapping: create, read,
  update and delete within one request.
* `packages/dashboard` (more than half of the implementation's lines): the user
  interface.

The protocols of the service — who posts what, when, and how it is remembered —
are a small part of its lines; mapping of fields, payload building, reports and
screens are most of them, and have no state to check.

## 8. Running

```
tlc -workers 2 -config DailyInvoice_late.cfg MCDailyInvoice
tlc -workers 2 -config InventoryUpload_stock.cfg MCInventoryUpload
tlc -workers 2 -config OrderSync_orders.cfg MCOrderSync
tlc -workers 2 -config CreditMemo_refunds.cfg MCCreditMemo
tlc -workers 2 -config SyncJobs_jobs.cfg MCSyncJobs
tlc -workers 2 -config IntegrationRuns_regions.cfg MCIntegrationRuns
tlapm DailyInvoiceProofs.tla
tlapm ClosedDayProofs.tla
tlapm InventoryUploadProofs.tla
tlapm StockOnceProofs.tla
tlapm OrderSyncProofs.tla
tlapm CreditMemoProofs.tla
tlapm SyncJobsProofs.tla
tlapm IntegrationRunsProofs.tla
```

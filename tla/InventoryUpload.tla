--------------------------- MODULE InventoryUpload ---------------------------
(***************************************************************************)
(* Moving the stock of a branch's day: InventoryUploadService.uploadDay,   *)
(* the administrators' reprocess call, and InventoryTransactionVerifier-   *)
(* Service, which settles what the earlier per-line upload left PENDING.   *)
(*                                                                         *)
(* The module follows ONE item of ONE order, sold on one or more lines.    *)
(* Its stock is uploaded as one row per unit of measure, a row standing    *)
(* for the lines it sums, while FusionInvTxn is searched by order and item *)
(* alone: rows of different order-items never meet.  The ten lanes of      *)
(* mapWithConcurrency are any interleaving of a caller's rows.             *)
(*                                                                         *)
(* Uploads run inside postDay, which admits one per process; reprocess     *)
(* takes no lock, nor does the verifier.  Nothing keeps two callers from   *)
(* overlapping, an answer from being lost, a save from failing or a line   *)
(* from being sent that Oracle has in its queue: `harm` remembers that     *)
(* such a thing happened, and the strongest promises are made only while   *)
(* none has.                                                               *)
(***************************************************************************)
EXTENDS Naturals, FiniteSets

CONSTANTS
  Host,       \* processes that may upload the day
  Clerk,      \* administrators' reprocess calls at work at once
  Line,       \* lines on which an order may sell the item
  Sold,       \* sets of lines on which the order of this instance may sell it
  UomOf,      \* [Line -> unit of measure]
  Id,         \* FusionInvTxn ids (bound on the table)
  LegacyOf,   \* [ids of rows left by the earlier per-line upload -> line]
  Legacy,     \* statuses such a row may have
  Faults,     \* mishaps admitted in this instance
  MaxFaults,  \* bound on the mishaps of a behaviour
  None        \* no row; no id

(* HELD is ERROR or NEGATIVE_INVENTORY: the two differ in what the panel     *)
(* shows and in the filter of reprocess, which may select any of them.       *)
Live      == {"HELD", "SUCCESS", "PENDING"}
LegacyId  == DOMAIN LegacyOf
Worker    == Host \cup Clerk
AllFaults == {"overlap", "reply_lost", "save_lost", "crash"}

ASSUME ConstantsOK ==
  /\ Host \cap Clerk = {}
  /\ Sold \subseteq (SUBSET Line) \ {{}}
  /\ UomOf \in [Line -> {UomOf[n] : n \in Line}]
  /\ LegacyId \subseteq Id
  /\ LegacyOf \in [LegacyId -> Line]
  /\ \A i, j \in LegacyId : LegacyOf[i] = LegacyOf[j] => i = j
  /\ None \notin Id \cup [lines : SUBSET Line, status : Live \cup {"SUPERSEDED"}]
  /\ Legacy \subseteq Live
  /\ Faults \subseteq AllFaults
  /\ MaxFaults \in Nat

VARIABLES
  landed,    \* lines of the item in the Odoo backup; {} before the order lands
  recent,    \* its business day is still today or yesterday
  table,     \* FusionInvTxn: [Id -> [lines, status]], or None
  moves,     \* Oracle: [Line -> times its stock moved], 2 standing for more
  job,       \* [Worker -> what the call holds in memory]
  budget,    \* mishaps that may still happen
  harm,      \* one of the harmful things happened
  staged,    \* Oracle: [leftover -> what became of the row queued for it]
  checked,   \* leftovers some verifier read as PENDING and may yet judge
  misjudged  \* a SUCCESS was written on a row no longer PENDING, or dates
             \* from before the verifier and never moved

leftovers == <<staged, checked, misjudged>>

vars == <<landed, recent, table, moves, job, budget, harm, leftovers>>

-----------------------------------------------------------------------------
(* What a call holds: the rows it has yet to look at, whether it believes    *)
(* the order-item posted, the record it will write to and the duplicates it  *)
(* will retire, and the rows it is sending.                                  *)
NoJob == [pc |-> "idle", todo |-> {}, posted |-> FALSE, reuse |-> None,
          older |-> {}, open |-> {}]

Status(i) == IF table[i] = None THEN "NONE" ELSE table[i].status

LiveIds == {i \in Id : Status(i) \in Live}

(* Mutant: an order-item that was tried counts as posted.                    *)
PostedOrTried == LiveIds # {}

Posted == \E i \in Id : Status(i) = "SUCCESS"

Move(ns) ==
  moves' = [n \in Line |-> IF n \notin ns THEN moves[n] ELSE IF moves[n] = 0 THEN 1 ELSE 2]

Write(i, ns, status) == table' = [table EXCEPT ![i] = [lines |-> ns, status |-> status]]

(* An update by id: the status alone is overwritten, whatever it is by now.  *)
Marked(ids, status) ==
  [i \in Id |-> IF i \in ids /\ table[i] # None
                THEN [table[i] EXCEPT !.status = status] ELSE table[i]]

(* Mutant: the rows of an earlier run are retired, the kept one included.    *)
SupersededAll(ids) ==
  Marked(ids \cup {i \in Id : \E w \in Worker : job[w].reuse = i}, "SUPERSEDED")

(* supersede.                                                                *)
Superseded(ids) == Marked(ids, "SUPERSEDED")

(* generateId: a superseded row is never read again, so its id serves anew   *)
(* once nobody holds it.                                                     *)
Ids(j) == {j.reuse} \cup j.older \cup {x.id : x \in j.todo \cup j.open}

FreshId(i) ==
  /\ Status(i) \in {"NONE", "SUPERSEDED"}
  /\ i \notin checked /\ \A w \in Worker : i \notin Ids(job[w])

(* Lines of a leftover Oracle has moved, or has in its queue.                *)
Unsettled(ns) ==
  \E i \in LegacyId : LegacyOf[i] \in ns /\ staged[i] \in {"queued", "processed"}

Quiet == \A w \in Worker : job[w] = NoJob

Alone(w) == \A v \in Worker \ {w} : job[v] = NoJob

Go(w, j) == job' = [job EXCEPT ![w] = j]

(* Something goes wrong that the code does not rule out.                     *)
Mishap(f) == f \in Faults /\ budget > 0 /\ budget' = budget - 1

(* The earlier upload left one row per line at most.  Oracle processed its   *)
(* interface row, has it queued still, or has not: it was rejected, or the   *)
(* POST failed.  A HELD row may have been given up for lost (abandoned), a   *)
(* SUCCESS row be older than the verifier: either says little of Oracle.     *)
Init ==
  /\ landed \in Sold \cup {{}}
  /\ recent = TRUE
  /\ table \in [Id -> [lines : {{n} : n \in Line}, status : Legacy] \cup {None}]
  /\ \A i \in Id : table[i] # None =>
       i \in LegacyId /\ LegacyOf[i] \in landed /\ table[i].lines = {LegacyOf[i]}
  /\ staged \in [LegacyId -> {"refused", "queued", "processed"}]
  /\ \A i \in LegacyId : table[i] = None => staged[i] = "refused"
  /\ moves = [n \in Line |-> IF \E i \in LegacyId : LegacyOf[i] = n /\ staged[i] = "processed"
                             THEN 1 ELSE 0]
  /\ misjudged = (\E i \in LegacyId : Status(i) = "SUCCESS" /\ staged[i] # "processed")
  /\ checked = {}
  /\ job = [w \in Worker |-> NoJob]
  /\ budget = MaxFaults
  /\ harm = FALSE

-----------------------------------------------------------------------------
RowLands ==
  /\ landed = {}
  /\ landed' \in Sold
  /\ UNCHANGED <<recent, table, moves, job, budget, harm, leftovers>>

DayAges ==
  /\ recent
  /\ recent' = FALSE
  /\ UNCHANGED <<landed, table, moves, job, budget, harm, leftovers>>

(* A call begins.  Nothing in the code keeps it from beginning beside        *)
(* another one; MaxFaults bounds how often that happens here.                *)
Begin(w, rows) ==
  /\ job[w] = NoJob
  /\ \/ Alone(w) /\ UNCHANGED <<budget, harm>>
     \/ ~Alone(w) /\ Mishap("overlap") /\ harm' = TRUE
  /\ Go(w, [NoJob EXCEPT !.pc = "read", !.todo = rows])
  /\ UNCHANGED <<landed, recent, table, moves, leftovers>>

(* convertOrders: one row per unit of measure, summing its lines.            *)
Rows == {{n \in landed : UomOf[n] = UomOf[m]} : m \in landed}

UploadDay(h) ==
  /\ landed # {}
  /\ Begin(h, {[lines |-> ns, id |-> None] : ns \in Rows})

(* Mutant: the statuses asked for are not filtered.                          *)
ReprocessAny(k) ==
  \E ids \in SUBSET LiveIds :
    /\ ids # {}
    /\ Begin(k, {[lines |-> table[i].lines, id |-> i] : i \in ids})

(* reprocess selects held rows by status, and by id when ids are given.      *)
Reprocess(k) ==
  \E ids \in SUBSET {i \in Id : Status(i) = "HELD"} :
    /\ ids # {}
    /\ Begin(k, {[lines |-> table[i].lines, id |-> i] : i \in ids})

(* Mutant: the rows found are reused without a look at their status.         *)
ReadBlindly(w) ==
  /\ job[w].pc = "read"
  /\ IF w \in Clerk \/ LiveIds = {}
     THEN Go(w, [job[w] EXCEPT !.pc = "work"])
     ELSE \E i \in LiveIds :
            Go(w, [job[w] EXCEPT !.pc = "work", !.reuse = i, !.older = LiveIds \ {i}])
  /\ UNCHANGED <<landed, recent, table, moves, budget, harm, leftovers>>

(* Mutant: reprocess keeps a list of duplicates, as an upload does.          *)
ReadForAll(w) ==
  /\ job[w].pc = "read"
  /\ IF LiveIds = {}
     THEN Go(w, [job[w] EXCEPT !.pc = "work", !.posted = Posted])
     ELSE \E i \in LiveIds :
            Go(w, [job[w] EXCEPT !.pc = "work", !.posted = Posted, !.reuse = i,
                                 !.older = LiveIds \ {i}])
  /\ UNCHANGED <<landed, recent, table, moves, budget, harm, leftovers>>

(* loadExisting: the live rows of the order-item.  An upload writes to the   *)
(* one updated last (any of them here) and retires the others; reprocess     *)
(* writes to the rows it selected.                                           *)
ReadExisting(w) ==
  /\ job[w].pc = "read"
  /\ IF w \in Clerk \/ LiveIds = {}
     THEN Go(w, [job[w] EXCEPT !.pc = "work", !.posted = Posted])
     ELSE \E i \in LiveIds :
            Go(w, [job[w] EXCEPT !.pc = "work", !.posted = Posted, !.reuse = i,
                                 !.older = LiveIds \ {i}])
  /\ UNCHANGED <<landed, recent, table, moves, budget, harm, leftovers>>

Working(w, x) == job[w].pc = "work" /\ x \in job[w].todo

(* Posted already: an upload skips the row, reprocess retires it.            *)
SkipPosted(w, x) ==
  /\ Working(w, x)
  /\ job[w].posted
  /\ Go(w, [job[w] EXCEPT !.todo = @ \ {x}])
  /\ table' = IF w \in Clerk THEN Superseded({x.id}) ELSE table
  /\ UNCHANGED <<landed, recent, moves, budget, harm, leftovers>>

(* The record a row's outcome goes to: the one reprocess selected, the one   *)
(* an upload reuses, or a new one.                                           *)
Target(w, x) ==
  IF x.id # None THEN {x.id}
  ELSE IF job[w].reuse # None THEN {job[w].reuse} ELSE {i \in Id : FreshId(i)}

(* Rows of several units of measure share one record of an earlier run.      *)
Shared(w, x) == x.id = None /\ job[w].reuse # None /\ Rows # {x.lines}

(* A lane takes a row: it is about to be posted, or the subinventory has no  *)
(* organisation (the stored record no usable payload) and it fails without   *)
(* a call.                                                                   *)
Take(w, x, phase) ==
  /\ Working(w, x)
  /\ \E i \in Target(w, x) :
       Go(w, [job[w] EXCEPT !.todo = @ \ {x}, !.open = @ \cup
                                 {[lines |-> x.lines, id |-> i, phase |-> phase]}])
  /\ harm' = (harm \/ Shared(w, x) \/ (phase = "sent" /\ Unsettled(x.lines)))
  /\ UNCHANGED <<landed, recent, table, moves, budget, leftovers>>

(* Mutant: a posted order-item is sent again.                                *)
TakeRowAnyway(w, x, phase) == Take(w, x, phase)

(* Only rows of an order-item that is not posted: a leftover that is HELD or *)
(* PENDING is no reason to skip it, whatever Oracle did or will do with it.  *)
TakeRow(w, x, phase) == ~job[w].posted /\ Take(w, x, phase)

Send(w, x)     == TakeRow(w, x, "sent")
Unmapped(w, x) == TakeRow(w, x, "unsent")

Advance(w, c, phase) ==
  Go(w, [job[w] EXCEPT !.open = (@ \ {c}) \cup {[c EXCEPT !.phase = phase]}])

(* Oracle moves the stock, or answers with an error.                         *)
Accept(w, c) ==
  /\ c \in job[w].open /\ c.phase = "sent"
  /\ Move(c.lines)
  /\ Advance(w, c, "accepted")
  /\ UNCHANGED <<landed, recent, table, budget, harm, leftovers>>

(* Mutant: a rejection inside an HTTP 200 is taken for a success.            *)
RefuseUnread(w, c) ==
  /\ c \in job[w].open /\ c.phase = "sent"
  /\ Advance(w, c, "accepted")
  /\ UNCHANGED <<landed, recent, table, moves, budget, harm, leftovers>>

Refuse(w, c) ==
  /\ c \in job[w].open /\ c.phase = "sent"
  /\ Advance(w, c, "refused")
  /\ UNCHANGED <<landed, recent, table, moves, budget, harm, leftovers>>

(* The answer to a POST that took effect is lost: the catch block takes it   *)
(* for a failure.  (Oracle acting only after the caller gave up is the same  *)
(* to the table, which holds the row as failed either way.)                  *)
ReplyLost(w, c) ==
  /\ Mishap("reply_lost")
  /\ c \in job[w].open /\ c.phase = "accepted"
  /\ Advance(w, c, "refused")
  /\ harm' = TRUE
  /\ UNCHANGED <<landed, recent, table, moves, leftovers>>

(* The outcome is returned to the caller whether or not it could be saved:   *)
(* reprocess then knows the order-item as posted, an upload goes on to       *)
(* retire the duplicates.                                                    *)
Outcome(w, c, success) ==
  Go(w, [job[w] EXCEPT
           !.posted = @ \/ (success /\ w \in Clerk),
           !.open   = (@ \ {c}) \cup
                      (IF job[w].older = {} THEN {} ELSE {[c EXCEPT !.phase = "saved"]})])

SaveSuccess(w, c) ==
  /\ c \in job[w].open /\ c.phase = "accepted"
  /\ Write(c.id, c.lines, "SUCCESS")
  /\ Outcome(w, c, TRUE)
  /\ UNCHANGED <<landed, recent, moves, budget, harm, leftovers>>

(* saveFailure: held for lack of stock, or an error.                         *)
SaveFailure(w, c) ==
  /\ c \in job[w].open /\ c.phase = "refused"
  /\ Write(c.id, c.lines, "HELD")
  /\ Outcome(w, c, FALSE)
  /\ UNCHANGED <<landed, recent, moves, budget, harm, leftovers>>

(* A row that was never sent: the payload of the record's last POST stays    *)
(* in it, and reprocess prefers that payload to the columns, so the record   *)
(* may go on standing for the lines of the earlier attempt.                  *)
SaveUnsent(w, c) ==
  /\ c \in job[w].open /\ c.phase = "unsent"
  /\ \/ Write(c.id, c.lines, "HELD")
     \/ Status(c.id) \in Live /\ Write(c.id, table[c.id].lines, "HELD")
  /\ Outcome(w, c, FALSE)
  /\ UNCHANGED <<landed, recent, moves, budget, harm, leftovers>>

(* The repository throws; `save` logs it and returns.                        *)
SaveLost(w, c) ==
  /\ Mishap("save_lost")
  /\ c \in job[w].open /\ c.phase \in {"accepted", "refused", "unsent"}
  /\ Outcome(w, c, c.phase = "accepted")
  /\ harm' = TRUE
  /\ UNCHANGED <<landed, recent, table, moves, leftovers>>

(* An upload retires the duplicates of the record it wrote.                  *)
Retire(w, c) ==
  /\ c \in job[w].open /\ c.phase = "saved"
  /\ table' = Superseded(job[w].older)
  /\ Go(w, [job[w] EXCEPT !.open = @ \ {c}])
  /\ UNCHANGED <<landed, recent, moves, budget, harm, leftovers>>

(* The repository throws; `supersede` logs it and returns.                   *)
RetireLost(w, c) ==
  /\ Mishap("save_lost")
  /\ c \in job[w].open /\ c.phase = "saved"
  /\ Go(w, [job[w] EXCEPT !.open = @ \ {c}])
  /\ harm' = TRUE
  /\ UNCHANGED <<landed, recent, table, moves, leftovers>>

Finish(w) ==
  /\ job[w].pc = "work" /\ job[w].todo = {} /\ job[w].open = {}
  /\ Go(w, NoJob)
  /\ UNCHANGED <<landed, recent, table, moves, budget, harm, leftovers>>

(* The process dies: a POST that took effect and was not recorded is lost,   *)
(* and so is the retiring of duplicates.                                     *)
Crash(w) ==
  /\ job[w] # NoJob
  /\ Mishap("crash")
  /\ harm' = (harm \/ \E c \in job[w].open : c.phase \in {"accepted", "saved"})
  /\ Go(w, NoJob)
  /\ UNCHANGED <<landed, recent, table, moves, leftovers>>

-----------------------------------------------------------------------------
(* The leftovers: Oracle's transaction manager, and verifyPending, which any *)
(* number of callers may be in at once.                                      *)
OracleProcesses(i) ==
  /\ staged[i] = "queued"
  /\ staged' = [staged EXCEPT ![i] = "processed"]
  /\ Move({LegacyOf[i]})
  /\ UNCHANGED <<landed, recent, table, job, budget, harm, checked, misjudged>>

OracleRejects(i) ==
  /\ staged[i] = "queued"
  /\ staged' = [staged EXCEPT ![i] = "refused"]
  /\ UNCHANGED <<landed, recent, table, moves, job, budget, harm, checked, misjudged>>

(* A verifier's batch holds the row.                                         *)
Check(i) ==
  /\ Status(i) = "PENDING" /\ i \notin checked
  /\ checked' = checked \cup {i}
  /\ UNCHANGED <<landed, recent, table, moves, job, budget, harm, staged, misjudged>>

(* settle: the verdict is written whatever the row is by now.  Beside a call *)
(* at work, or on a row that is PENDING no longer, that is a mishap.         *)
Settle(i, status) ==
  /\ i \in checked
  /\ IF Quiet /\ Status(i) = "PENDING" THEN UNCHANGED <<budget, harm>>
                                        ELSE Mishap("overlap") /\ harm' = TRUE
  /\ table' = Marked({i}, status)
  /\ UNCHANGED <<landed, recent, moves, job, staged, checked>>

(* Processed and purged from Oracle's interface.                             *)
Confirm(i) ==
  /\ staged[i] = "processed"
  /\ Settle(i, "SUCCESS")
  /\ misjudged' = (misjudged \/ Status(i) # "PENDING")

(* Rejected, or given up while it is still queued.                           *)
Condemn(i) ==
  /\ staged[i] \in {"refused", "queued"}
  /\ Settle(i, "HELD")
  /\ UNCHANGED misjudged

(* Too young, not to be looked up, or settled: the last verifier lets go.    *)
LetGo(i) ==
  /\ i \in checked
  /\ checked' = checked \ {i}
  /\ UNCHANGED <<landed, recent, table, moves, job, budget, harm, staged, misjudged>>

Leftover(i) ==
  \/ OracleProcesses(i) \/ OracleRejects(i)
  \/ Check(i) \/ Confirm(i) \/ Condemn(i) \/ LetGo(i)

-----------------------------------------------------------------------------
Upload(w) ==
  \/ ReadExisting(w)
  \/ \E x \in job[w].todo : SkipPosted(w, x) \/ Send(w, x) \/ Unmapped(w, x)
  \/ \E c \in job[w].open : \/ Accept(w, c) \/ Refuse(w, c) \/ ReplyLost(w, c)
                            \/ SaveSuccess(w, c) \/ SaveFailure(w, c)
                            \/ SaveUnsent(w, c) \/ SaveLost(w, c)
                            \/ Retire(w, c) \/ RetireLost(w, c)
  \/ Finish(w)

Next ==
  \/ RowLands
  \/ DayAges
  \/ \E h \in Host : UploadDay(h)
  \/ \E k \in Clerk : Reprocess(k)
  \/ \E w \in Worker : Upload(w) \/ Crash(w)
  \/ \E i \in LegacyId : Leftover(i)

Spec == Init /\ [][Next]_vars

(* Fairness: a call that is going goes on; the cron posts the day while it   *)
(* is recent, in between the calls this instance keeps it apart from; Oracle *)
(* accepts a row an upload offers again and again, and the subinventory is   *)
(* not unknown to it for ever.  No one makes an administrator press a        *)
(* button, or Oracle and the verifier settle a leftover.                     *)
Fairness ==
  /\ \A w \in Worker : WF_vars(Upload(w))
  /\ \A h \in Host :
       /\ SF_vars(recent /\ UploadDay(h))
       /\ SF_vars(\E x \in job[h].todo : Send(h, x))
       /\ SF_vars(\E c \in job[h].open : Accept(h, c))

FairSpec == Spec /\ Fairness

-----------------------------------------------------------------------------
Row  == [lines : SUBSET Line, id : Id \cup {None}]
Open == [lines : SUBSET Line, id : Id,
         phase : {"sent", "unsent", "accepted", "refused", "saved"}]
Job  == [pc : {"idle", "read", "work"}, todo : SUBSET Row, posted : BOOLEAN,
         reuse : Id \cup {None}, older : SUBSET Id, open : SUBSET Open]

(* The types of the state, and that only a run of uploads ever retires rows: *)
(* reprocess keeps no list of duplicates (uploadRow's caller at 258).        *)
TypeOK ==
  /\ landed \subseteq Line /\ recent \in BOOLEAN /\ harm \in BOOLEAN
  /\ table \in [Id -> [lines : SUBSET Line, status : Live \cup {"SUPERSEDED"}] \cup {None}]
  /\ moves \in [Line -> 0 .. 2]
  /\ job \in [Worker -> Job]
  /\ budget \in 0 .. MaxFaults
  /\ staged \in [LegacyId -> {"refused", "queued", "processed"}]
  /\ checked \subseteq LegacyId /\ misjudged \in BOOLEAN
  /\ \A k \in Clerk : job[k].older = {}

(* A row recorded SUCCESS did move its lines: whatever callers overlap and   *)
(* whatever is lost, re-runs only ever skip what Oracle really did.  The     *)
(* verifier can break it, by a verdict written on a row that meanwhile       *)
(* records something else; and it does not hold of SUCCESS rows older than   *)
(* the verifier.                                                             *)
RecordedMeansMoved ==
  misjudged \/ \A i \in Id : Status(i) = "SUCCESS" => \A n \in table[i].lines : moves[n] > 0

(* Stock moves at most once: refusals, held rows, re-runs, reprocess calls,  *)
(* leftovers and their verdicts, and runs that die between two rows          *)
(* notwithstanding.  It takes one of these to move it again: two callers, or *)
(* a caller and a verdict, overlap; the outcome of a POST or of retiring     *)
(* duplicates is lost; a line is sent that Oracle still has in its queue for *)
(* a leftover, or has moved for one that nobody confirmed; or rows of two    *)
(* units of measure share the record of an earlier run.                      *)
MovedOnce == \A n \in Line : moves[n] > 1 => harm

(* Under the same proviso retiring duplicates never hides an order-item: a   *)
(* superseded row has a live one beside it, so the admin panel and the next  *)
(* run still see it.                                                         *)
NeverHidden ==
  harm \/ ((\E i \in Id : Status(i) = "SUPERSEDED") => LiveIds # {})

(* Under the same proviso a SUCCESS row is final: no re-run, reprocess call  *)
(* or clean-up of duplicates turns it into anything else.                    *)
SuccessIsFinal ==
  [][harm' \/ \A i \in Id : Status(i) = "SUCCESS" => (Status(i) = "SUCCESS")']_vars

(* Re-runs, reprocess calls, clean-ups, verdicts and crashes together keep   *)
(* the ledger of the branch: stock moves only where it has not moved yet,    *)
(* and the lines shown as posted grow by what moved and never shrink; once   *)
(* harm was done, nothing is still recorded that did not move unless a       *)
(* verdict misjudged it.                                                     *)
PostedLines == UNION {table[i].lines : i \in {k \in Id : Status(k) = "SUCCESS"}}

Ledger == INSTANCE StockLedger WITH recorded <- PostedLines

LedgerSpec == Ledger!Spec

(* The stock of an order that lands moves, unless its day leaves the window  *)
(* the cron looks at.  (An item sold in one unit of measure moves as a       *)
(* whole.  Of several units one is promised: once its row is SUCCESS the     *)
(* others are taken for posted.  The earlier upload may have left half of an *)
(* order-item posted: the promise is for orders it never saw.)               *)
StockFollows == landed = {} => (landed # {} ~> ((\E n \in Line : moves[n] > 0) \/ ~recent))
==============================================================================

------------------------------- MODULE SyncJobs -------------------------------
(***************************************************************************)
(* Sync jobs over the order queue: SyncService.createSyncJob puts the      *)
(* orders in scope on the Bull queue and writes the job's totals           *)
(* afterwards; the handler of each order counts it for the job its Bull    *)
(* entry names and finalises the job; the pipeline makes a job for         *)
(* everything when no other is under way.                                  *)
(*                                                                         *)
(* What the handler does to the order itself is module OrderSync; here it  *)
(* is the outcome it counts, and whether an order waits is left open.  A   *)
(* scope fits one batch of 5000.  Bull (external) keeps one entry per      *)
(* order and drops an add while it exists.                                 *)
(*                                                                         *)
(* astray and harm are history: what has gone wrong with a job's count.    *)
(***************************************************************************)
EXTENDS Naturals, FiniteSets

CONSTANTS
  MaxJobs,    \* bound on sync jobs made
  Order,      \* the orders in the queue
  Attempts,   \* tries Bull gives an entry
  MaxEvents   \* bound on operators' and webhooks' actions and processes that die

Job     == 1 .. MaxJobs
NoJob   == 0
Outcome == {"progress", "failed"}  \* synced and skipped orders finalise a job alike
Enough  == Cardinality(Order)      \* no job counts to more

ASSUME JobsConstantsOK ==
  /\ MaxJobs \in Nat /\ Attempts \in Nat \ {0}
  /\ MaxEvents \in Nat
  /\ IsFiniteSet(Order)

VARIABLES
  sync,     \* [Job -> the SyncJob row]
  maker,    \* [Job -> createSyncJob at work on it]
  queue,    \* [Order -> its Bull entry]
  hand,     \* [Order -> the handler at work on it]
  cron,     \* the pipeline's tick
  handled,  \* [Job -> orders a handler has finished with for it]
  astray,   \* jobs whose count can no longer come out right
  harm,     \* a process died or a counter could not be written
  events    \* what is left of the bound

vars == <<sync, maker, queue, hand, cron, handled, astray, harm, events>>

NoRow   == [status |-> "NONE", total |-> 0, processed |-> 0,
            failed |-> FALSE, progressed |-> FALSE]
NoMaker == [pc |-> "none", auto |-> FALSE, enqueued |-> {}, skipped |-> 0]
NoHand  == [pc |-> "idle", outcome |-> "progress", throws |-> FALSE, verdict |-> "NONE"]

Init ==
  /\ sync = [j \in Job |-> NoRow]
  /\ maker = [j \in Job |-> NoMaker]
  /\ queue = [o \in Order |-> [state |-> "none", job |-> NoJob, tries |-> 0]]
  /\ hand = [o \in Order |-> NoHand]
  /\ cron = "idle"
  /\ handled = [j \in Job |-> {}]
  /\ astray = {} /\ harm = FALSE
  /\ events = MaxEvents

Event == events > 0 /\ events' = events - 1

-----------------------------------------------------------------------------
(* createSyncJob.                                                            *)

(* The row is saved PENDING, with totals of 0.                               *)
Save(j, auto) ==
  /\ sync[j].status = "NONE" /\ \A i \in 1 .. j - 1 : sync[i].status # "NONE"
  /\ maker' = [maker EXCEPT ![j].pc = "list", ![j].auto = auto]

Saved(j) == [NoRow EXCEPT !.status = "PENDING"]

Free(o) == queue[o].state \in {"none", "finished"}

(* The orders found in the scope, whatever their status: those that are not  *)
(* invoiceable become SKIPPED, the others are added to the queue, where Bull *)
(* drops an order whose entry still exists.                                  *)
List(j, adds, skips) ==
  /\ maker[j].pc = "list"
  /\ adds \cap skips = {}
  /\ maker' = [maker EXCEPT ![j] =
                 [@ EXCEPT !.pc = "update", !.enqueued = adds,
                           !.skipped = Cardinality(skips)]]
  /\ queue' = [o \in Order |->
       IF o \in adds /\ Free(o)
       THEN [state |-> "waiting", job |-> j, tries |-> Attempts] ELSE queue[o]]
  /\ astray' = IF \A o \in adds : Free(o) THEN astray ELSE astray \cup {j}
  /\ UNCHANGED <<sync, hand, cron, handled, harm, events>>

(* The totals replace whatever has been counted meanwhile, except failures.  *)
Totals(j) ==
  LET skipped == maker[j].skipped
  IN [sync[j] EXCEPT
       !.total = Cardinality(maker[j].enqueued) + skipped, !.processed = skipped,
       !.progressed = (skipped > 0),
       !.status = IF maker[j].enqueued # {} THEN "PENDING"
                  ELSE IF skipped > 0 THEN "PARTIAL" ELSE "COMPLETED"]

(* createSyncJob is over, and the pipeline's tick with it.                   *)
Leave(j) ==
  /\ maker' = [maker EXCEPT ![j] = [NoMaker EXCEPT !.pc = "made", !.enqueued = maker[j].enqueued]]
  /\ cron' = IF maker[j].auto THEN "idle" ELSE cron

Update(j) ==
  /\ maker[j].pc = "update"
  /\ sync' = [sync EXCEPT ![j] = Totals(j)]
  /\ Leave(j)
  /\ UNCHANGED <<queue, hand, handled, astray, harm, events>>

(* The process dies in between.                                              *)
MakerDies(j) ==
  /\ maker[j].pc \in {"list", "update"}
  /\ Event
  /\ Leave(j)
  /\ astray' = astray \cup {j} /\ harm' = TRUE
  /\ UNCHANGED <<sync, queue, hand, handled>>

-----------------------------------------------------------------------------
(* runAutomaticPipeline, one tick at a time.                                 *)

Idle(j) == sync[j].status \notin {"PENDING", "PROCESSING"}

(* No sync job is under way.  (A tick that finds the service switched off,   *)
(* a circuit OPEN or a job under way changes nothing.)                       *)
Tick ==
  /\ cron = "idle"
  /\ \A j \in Job : Idle(j)
  /\ cron' = "clear"
  /\ UNCHANGED <<sync, maker, queue, hand, handled, astray, harm, events>>

(* No order waits, or too few.                                               *)
Pass ==
  /\ cron = "clear"
  /\ cron' = "idle"
  /\ UNCHANGED <<sync, maker, queue, hand, handled, astray, harm, events>>

MakeForAll(j) ==
  /\ cron = "clear"
  /\ Save(j, TRUE)
  /\ sync' = [sync EXCEPT ![j] = Saved(j)]
  /\ cron' = "making"
  /\ UNCHANGED <<queue, hand, handled, astray, harm, events>>

-----------------------------------------------------------------------------
(* Operators and webhooks.                                                   *)
Make(j) ==
  /\ Event
  /\ Save(j, FALSE)
  /\ sync' = [sync EXCEPT ![j] = Saved(j)]
  /\ UNCHANGED <<queue, hand, cron, handled, astray, harm>>

Cancel(j) ==
  /\ Event
  /\ sync[j].status = "PENDING"
  /\ sync' = [sync EXCEPT ![j].status = "CANCELLED"]
  /\ UNCHANGED <<maker, queue, hand, cron, handled, astray, harm>>

(* retrySyncJob: the old row, whatever its status, is PENDING again, and a   *)
(* NEW job takes over its scope.                                             *)
Retry(i, j) ==
  /\ Event
  /\ sync[i].status # "NONE"
  /\ Save(j, FALSE)
  /\ sync' = [sync EXCEPT ![i].status = "PENDING", ![j] = Saved(j)]
  /\ astray' = astray \cup {i}
  /\ UNCHANGED <<queue, hand, cron, handled, harm>>

(* A webhook or an operator puts one order on the queue, for no sync job.    *)
EnqueueOne(o) ==
  /\ Event
  /\ queue' = IF Free(o)
              THEN [queue EXCEPT ![o] = [state |-> "waiting", job |-> NoJob,
                                         tries |-> Attempts]]
              ELSE queue
  /\ UNCHANGED <<sync, maker, hand, cron, handled, astray, harm>>

-----------------------------------------------------------------------------
(* The handler.                                                              *)
At(o, pc) == hand[o].pc = pc
Step(o, pc) == hand' = [hand EXCEPT ![o].pc = pc]
Counted(o) == queue[o].job

Start(o) ==
  /\ queue[o].state = "waiting"
  /\ queue' = [queue EXCEPT ![o].state = "active"]
  /\ hand' = [hand EXCEPT ![o] = [NoHand EXCEPT !.pc = "work"]]
  /\ UNCHANGED <<sync, maker, cron, handled, astray, harm, events>>

(* Mutant: counts for a sync job whether there is one or not.                *)
BegunAlways(o, outcome, throws) ==
  hand' = [hand EXCEPT ![o] =
    [pc |-> "count", outcome |-> outcome, throws |-> throws, verdict |-> "NONE"]]

Begun(o, outcome, throws) ==
  hand' = [hand EXCEPT ![o] =
    [pc |-> IF Counted(o) = NoJob THEN "end" ELSE "count",
     outcome |-> outcome, throws |-> throws, verdict |-> "NONE"]]

(* Mutant: an order that is SYNCED already returns without being counted.    *)
SettleUncounted(o, outcome, throws) ==
  /\ At(o, "work")
  /\ throws => outcome = "failed"
  /\ IF outcome = "progress" THEN Step(o, "end") ELSE Begun(o, outcome, throws)
  /\ UNCHANGED <<sync, maker, queue, cron, handled, astray, harm, events>>

(* The order is settled one way or another; one that waits for the day's     *)
(* invoice, or was turned away by the breaker, is PENDING again and counts   *)
(* as skipped.  Validation failures count as failed and do not throw.        *)
Settle(o, outcome, throws) ==
  /\ At(o, "work")
  /\ throws => outcome = "failed"
  /\ Begun(o, outcome, throws)
  /\ UNCHANGED <<sync, maker, queue, cron, handled, astray, harm, events>>

(* incrementSyncJobCounters: two increments, a read, and perhaps a write.    *)
CountProcessed(o) ==
  LET j == Counted(o)
  IN /\ At(o, "count")
     /\ sync' = [sync EXCEPT ![j].processed = IF @ < Enough THEN @ + 1 ELSE @]
     /\ astray' = IF maker[j].pc = "update" THEN astray \cup {j} ELSE astray
     /\ Step(o, "outcome")
     /\ UNCHANGED <<maker, queue, cron, handled, harm, events>>

(* Mutant: a failure that Bull will try again is not counted as one.         *)
CountOutcomeLast(o) ==
  LET j == Counted(o)
  IN /\ At(o, "outcome")
     /\ sync' = [sync EXCEPT
          ![j].failed     = @ \/ (hand[o].outcome = "failed" /\ queue[o].tries = 1),
          ![j].progressed = @ \/ hand[o].outcome = "progress"]
     /\ hand' = [hand EXCEPT ![o].pc = "judge", ![o].outcome = "progress"]
     /\ UNCHANGED <<maker, queue, cron, handled, astray, harm, events>>

CountOutcome(o) ==
  LET j == Counted(o)
  IN /\ At(o, "outcome")
     /\ sync' = [sync EXCEPT
          ![j].failed     = @ \/ hand[o].outcome = "failed",
          ![j].progressed = @ \/ hand[o].outcome = "progress"]
     /\ hand' = [hand EXCEPT ![o].pc = "judge", ![o].outcome = "progress"]
     /\ UNCHANGED <<maker, queue, cron, handled, astray, harm, events>>

Verdict(row) ==
  IF ~row.failed THEN "COMPLETED" ELSE IF row.progressed THEN "PARTIAL" ELSE "FAILED"

Judge(o) ==
  LET row == sync[Counted(o)]
  IN /\ At(o, "judge")
     /\ hand' = IF row.processed >= row.total /\ row.total > 0
                THEN [hand EXCEPT ![o].pc = "finalise", ![o].verdict = Verdict(row)]
                ELSE [hand EXCEPT ![o].pc = "end"]
     /\ UNCHANGED <<sync, maker, queue, cron, handled, astray, harm, events>>

Finalise(o) ==
  /\ At(o, "finalise")
  /\ sync' = [sync EXCEPT ![Counted(o)].status = hand[o].verdict]
  /\ hand' = [hand EXCEPT ![o].pc = "end", ![o].verdict = "NONE"]
  /\ UNCHANGED <<maker, queue, cron, handled, astray, harm, events>>

(* The handler returns or throws, and Bull finishes the entry or has it      *)
(* tried again.                                                              *)
End(o) ==
  /\ At(o, "end")
  /\ queue' = IF hand[o].throws /\ queue[o].tries > 1
              THEN [queue EXCEPT ![o].state = "waiting", ![o].tries = @ - 1]
              ELSE [queue EXCEPT ![o].state = "finished"]
  /\ handled' = IF Counted(o) = NoJob THEN handled
                ELSE [handled EXCEPT ![Counted(o)] = @ \cup {o}]
  /\ hand' = [hand EXCEPT ![o] = NoHand]
  /\ UNCHANGED <<sync, maker, cron, astray, harm, events>>

(* A counter cannot be written.  A failure's count is then given up; any     *)
(* other one throws into the catch block, which counts the order as failed.  *)
CountLost(o) ==
  /\ At(o, "count") \/ At(o, "outcome")
  /\ Event
  /\ IF hand[o].outcome = "failed" THEN Step(o, "end") ELSE Begun(o, "failed", TRUE)
  /\ astray' = astray \cup {Counted(o)}
  /\ harm' = TRUE
  /\ UNCHANGED <<sync, maker, queue, cron, handled>>

HasCounted(o) == hand[o].pc \in {"outcome", "judge", "finalise", "end"}

(* The worker dies: Bull gives the entry to another one, from the start.     *)
Crash(o) ==
  /\ ~At(o, "idle")
  /\ Event
  /\ queue' = [queue EXCEPT ![o].state = "waiting"]
  /\ hand' = [hand EXCEPT ![o] = NoHand]
  /\ astray' = IF HasCounted(o) THEN astray \cup ({Counted(o)} \ {NoJob}) ELSE astray
  /\ harm' = (harm \/ HasCounted(o))
  /\ UNCHANGED <<sync, maker, cron, handled>>

-----------------------------------------------------------------------------
Handle(o) ==
  \/ Start(o)
  \/ \E outcome \in Outcome, throws \in BOOLEAN : Settle(o, outcome, throws)
  \/ CountProcessed(o) \/ CountOutcome(o) \/ Judge(o) \/ Finalise(o) \/ End(o)

Next ==
  \/ Tick \/ Pass
  \/ \E j \in Job :
       \/ \E adds, skips \in SUBSET Order : List(j, adds, skips)
       \/ Update(j) \/ MakerDies(j) \/ MakeForAll(j) \/ Make(j) \/ Cancel(j)
       \/ \E i \in Job : Retry(i, j)
  \/ \E o \in Order : EnqueueOne(o) \/ Handle(o) \/ CountLost(o) \/ Crash(o)

Spec == Init /\ [][Next]_vars

-----------------------------------------------------------------------------
(* The types of the state; an entry is active while a handler works on it,   *)
(* and a handler counts only for a job.                                      *)
TypeOK ==
  /\ sync \in [Job -> [status : {"NONE", "PENDING", "COMPLETED", "PARTIAL", "FAILED",
                                 "CANCELLED"},
                       total : 0 .. Enough, processed : 0 .. Enough,
                       failed : BOOLEAN, progressed : BOOLEAN]]
  /\ maker \in [Job -> [pc : {"none", "list", "update", "made"},
                        auto : BOOLEAN, enqueued : SUBSET Order, skipped : 0 .. Enough]]
  /\ queue \in [Order -> [state : {"none", "waiting", "active", "finished"},
                          job : Job \cup {NoJob}, tries : 0 .. Attempts]]
  /\ hand \in [Order -> [pc : {"idle", "work", "count", "outcome", "judge", "finalise",
                               "end"},
                         outcome : Outcome, throws : BOOLEAN,
                         verdict : {"NONE", "COMPLETED", "PARTIAL", "FAILED"}]]
  /\ cron \in {"idle", "clear", "making"}
  /\ handled \in [Job -> SUBSET Order]
  /\ astray \subseteq Job /\ harm \in BOOLEAN
  /\ events \in 0 .. MaxEvents
  /\ \A o \in Order : hand[o].pc # "idle" <=> queue[o].state = "active"
  /\ \A o \in Order : hand[o].pc \in {"count", "outcome", "judge", "finalise"} =>
                        queue[o].job # NoJob

(* Handlers that have begun to count for j, as End has not yet recorded.     *)
Counting(j) == {o \in Order : Counted(o) = j /\ HasCounted(o)}

(* A job shown as COMPLETED had every order it counts taken up by a handler: *)
(* dropped entries, counters written over, retries, cancellations and early  *)
(* finalisations can hold a job up, but never complete one too soon.         *)
CompletedIsHandled ==
  \A j \in Job :
    sync[j].status = "COMPLETED" =>
      harm \/ maker[j].enqueued \subseteq handled[j] \cup Counting(j)

(* Every order of the job has been handled, and no handler or maker is left  *)
(* that could count for it.                                                  *)
Over(j) ==
  /\ maker[j].pc = "made"
  /\ maker[j].enqueued \subseteq handled[j]
  /\ \A o \in Order : Counted(o) = j => queue[o].state = "finished"

(* What the processor counts for ("else the counter never reaches            *)
(* totalRecords and the job hangs in PENDING forever",                       *)
(* order-sync.processor.ts:432-433): a job that is over is not PENDING.      *)
HandledIsFinished == \A j \in Job : Over(j) => sync[j].status # "PENDING"

(* It is not, if nothing led its count astray: Bull dropped no entry, no     *)
(* handler counted before the totals were written, no count was lost or made *)
(* twice by a process that died and no operator retried the job.             *)
CountedIsFinished ==
  \A j \in Job \ astray : Over(j) => sync[j].status # "PENDING"
==============================================================================

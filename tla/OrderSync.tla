------------------------------ MODULE OrderSync ------------------------------
(***************************************************************************)
(* The life of ONE order in the order queue: the row of OrderSyncQueue and *)
(* everyone who writes its status, the Bull job that carries the order and *)
(* OrderSyncProcessor.handleOrderSync, which works on it.                  *)
(*                                                                         *)
(* perOrder is the environment's PER_ORDER_INVOICING: with it the handler  *)
(* posts the order's documents to Oracle one after the other; without it   *)
(* the order waits for the day's invoice (module DailyInvoice), of which   *)
(* only the end shows here: markOrdersSynced.                              *)
(*                                                                         *)
(* Bull (external) runs one job per id, retries a handler that throws and  *)
(* hands the job of a lost worker to another one.  A worker that is merely *)
(* slow may be taken for lost, an answer may get lost after Oracle acted,  *)
(* a save may fail: `harm` remembers that one of these left a document or  *)
(* a failure that nobody recorded.                                         *)
(***************************************************************************)
EXTENDS Naturals, Sequences, FiniteSets

CONSTANTS
  Worker,     \* places where the queue's handler runs, numbered
  Docs,       \* the order's documents, in the order they are posted
  Unchecked,  \* those posted without looking for an earlier one
  Silent,     \* those whose refusal is recorded and passed over
  Attempts,   \* tries Bull gives a job
  Faults,     \* faults admitted in this instance
  MaxLosses   \* bound on workers that die or are taken for lost

Doc       == {Docs[i] : i \in 1 .. Len(Docs)}
Checked   == Doc \ Unchecked
Kind      == {"sale", "void"}  \* void: unpaid, cancelled or a refund
Status    == {"NONE", "PENDING", "QUEUED_FOR_RETRY", "PROCESSING", "SYNCED",
              "FAILED", "SKIPPED", "HOLD"}
AllFaults == {"stalled", "reply_lost", "save_lost", "edited"}

ASSUME ConstantsOK ==
  /\ Worker \subseteq Nat
  /\ Len(Docs) \in Nat \ {0}
  /\ Unchecked \subseteq Doc /\ Silent \subseteq Doc
  /\ Attempts \in Nat \ {0}
  /\ Faults \subseteq AllFaults
  /\ MaxLosses \in Nat

VARIABLES
  perOrder,  \* one invoice per order
  open,      \* the pipeline's last cycle found nothing in its way
  kind,      \* what the row says the order is
  row,       \* the row's status
  held,      \* the clean-up has this row on its list
  job,       \* the Bull job: its state and the tries it has left
  run,       \* [Worker -> what the handler holds in memory]
  oracle,    \* [Doc -> times Oracle posted it]: 2 stands for more, and
             \* of an unchecked one only whether it did is kept
  saved,     \* documents recorded SUCCESS
  audit,     \* the audit log says the order was posted
  billed,    \* the day's invoice covers the order
  losses,    \* workers that may still be lost
  harm

vars == <<perOrder, open, kind, row, held, job, run, oracle, saved, audit, billed,
          losses, harm>>

Idle == [pc |-> "idle", kind |-> "void", covered |-> FALSE, at |-> 1, owns |-> FALSE]

Init ==
  /\ perOrder \in BOOLEAN /\ open \in BOOLEAN
  /\ kind = "void" /\ row = "NONE" /\ held = FALSE
  /\ job = [state |-> "none", tries |-> 0]
  /\ run = [w \in Worker |-> Idle]
  /\ oracle = [d \in Doc |-> 0]
  /\ saved = {} /\ audit = FALSE /\ billed = FALSE
  /\ losses = MaxLosses
  /\ harm = FALSE

-----------------------------------------------------------------------------
(* Everyone else who writes the row's status or enqueues the order.          *)

(* ingestOrder saves the row, whatever its status was, and only then         *)
(* enqueues it (see Enqueue).                                                *)
Ingest(k) ==
  /\ kind' = k
  /\ row' = IF k = "sale" THEN "PENDING" ELSE "SKIPPED"
  /\ UNCHANGED <<perOrder, open, held, job, run, oracle, saved, audit, billed,
                 losses, harm>>

(* Mutant: the order is added whatever job it has.                           *)
EnqueueAnyway ==
  /\ row # "NONE"
  /\ job' = [state |-> "waiting", tries |-> Attempts]
  /\ run' = [w \in Worker |-> [run[w] EXCEPT !.owns = FALSE]]
  /\ UNCHANGED <<perOrder, open, kind, row, held, oracle, saved, audit, billed,
                 losses, harm>>

(* Mutant: a finished job is not removed first, so Bull drops the add.       *)
EnqueueUncleared ==
  /\ row # "NONE"
  /\ job.state = "none"
  /\ job' = [state |-> "waiting", tries |-> Attempts]
  /\ UNCHANGED <<perOrder, open, kind, row, held, run, oracle, saved, audit,
                 billed, losses, harm>>

(* enqueueOrderSync removes the order's finished job and adds a new one;     *)
(* while the job waits or works Bull drops the add.  Callers: ingestion, the *)
(* retries and resets below, and sync jobs, which enqueue every order in     *)
(* scope whatever its status.                                                *)
Enqueue ==
  /\ row # "NONE"
  /\ job.state \in {"none", "finished"}
  /\ job' = [state |-> "waiting", tries |-> Attempts]
  /\ UNCHANGED <<perOrder, open, kind, row, held, run, oracle, saved, audit,
                 billed, losses, harm>>

(* runAutomaticPipeline, every five minutes: a cycle is skipped while an     *)
(* ORDER_SYNC job is unfinished, while an oracle circuit is open and below   *)
(* the minimum batch.  What a cycle finds hangs on other orders too, so it   *)
(* is left open here; SyncJobs shows a job that never finishes.              *)
Cycle ==
  /\ open' = ~open
  /\ UNCHANGED <<perOrder, kind, row, held, job, run, oracle, saved, audit,
                 billed, losses, harm>>

(* A cycle with nothing in its way enqueues what is PENDING.                 *)
Pipeline == open /\ row = "PENDING" /\ kind = "sale" /\ Enqueue

(* createSyncJob marks an order that is not invoiceable without enqueueing.  *)
SkipVoid ==
  /\ row # "NONE" /\ kind = "void"
  /\ row' = "SKIPPED"
  /\ UNCHANGED <<perOrder, open, kind, held, job, run, oracle, saved, audit,
                 billed, losses, harm>>

(* An operator's retry, reset or fix writes the row; retrying a single entry *)
(* takes an order in any status.                                             *)
Reset(s) ==
  /\ "edited" \in Faults
  /\ row # "NONE"
  /\ row' = s
  /\ UNCHANGED <<perOrder, open, kind, held, job, run, oracle, saved, audit,
                 billed, losses, harm>>

(* The scheduler hands orders held for stock back to the pipeline.           *)
Release ==
  /\ row = "HOLD"
  /\ row' = "PENDING"
  /\ UNCHANGED <<perOrder, open, kind, held, job, run, oracle, saved, audit,
                 billed, losses, harm>>

(* The clean-up lists waiting orders that are old or tried too often, and    *)
(* works through the list without looking at them again.                     *)
ListStale ==
  /\ ~held
  /\ row \in {"PENDING", "QUEUED_FOR_RETRY"}
  /\ held' = TRUE
  /\ UNCHANGED <<perOrder, open, kind, row, job, run, oracle, saved, audit,
                 billed, losses, harm>>

CancelStale ==
  /\ held
  /\ held' = FALSE
  /\ row' = "FAILED"
  /\ UNCHANGED <<perOrder, open, kind, job, run, oracle, saved, audit, billed,
                 losses, harm>>

(* markOrdersSynced: the day's invoice was accepted.                         *)
Bill ==
  /\ ~perOrder
  /\ row # "NONE"
  /\ row' = "SYNCED"
  /\ billed' = TRUE
  /\ UNCHANGED <<perOrder, open, kind, held, job, run, oracle, saved, audit,
                 losses, harm>>

-----------------------------------------------------------------------------
(* The handler.                                                              *)
Go(w, r) == run' = [run EXCEPT ![w] = r]
At(w, pc) == run[w].pc = pc

(* The handler goes on; Forget drops what it will not use again.             *)
Step(w, pc) == Go(w, [run[w] EXCEPT !.pc = pc])
Forget(w, pc) == Go(w, [Idle EXCEPT !.pc = pc, !.owns = run[w].owns])
Cur(w) == Docs[run[w].at]

(* Bull activates the job: any idle worker will do, so the first one takes   *)
(* it.  The handler reads the row and works from that copy of it to the end; *)
(* whether the row is SYNCED it asks only when the day is invoiced.          *)
Start(w) ==
  /\ At(w, "idle") /\ \A v \in Worker : v < w => ~At(v, "idle")
  /\ job.state = "waiting"
  /\ job' = [job EXCEPT !.state = "active"]
  /\ Go(w, [pc |-> "check", kind |-> kind, at |-> 1,
            covered |-> (~perOrder /\ row = "SYNCED"), owns |-> TRUE])
  /\ UNCHANGED <<perOrder, open, kind, row, held, oracle, saved, audit, billed,
                 losses, harm>>

(* Writes the row's status and ends the handler.                             *)
Leave(w, s) ==
  /\ row' = s
  /\ Forget(w, "done")
  /\ UNCHANGED <<perOrder, open, kind, held, job, oracle, saved, audit, billed,
                 losses, harm>>

(* Refunds, unpaid and cancelled orders; then validation, stock and the      *)
(* store's configuration may stop the order.                                 *)
Decline(w) ==
  /\ At(w, "check")
  /\ \E s \in {"SKIPPED", "HOLD", "FAILED"} :
       /\ run[w].kind = "void" => s = "SKIPPED"
       /\ Leave(w, s)

MarkProcessing(w) ==
  /\ At(w, "check")
  /\ run[w].kind = "sale"
  /\ row' = "PROCESSING"
  /\ Step(w, "guard")
  /\ UNCHANGED <<perOrder, open, kind, held, job, oracle, saved, audit, billed,
                 losses, harm>>

(* The audit log has the order as posted.                                    *)
Duplicate(w) ==
  /\ At(w, "guard")
  /\ audit
  /\ Leave(w, "SYNCED")

(* Orders go out with the day's invoice: one that was SYNCED when the        *)
(* handler read it is left alone, any other waits for the daily run.         *)
HandOff(w) ==
  /\ At(w, "guard")
  /\ ~audit /\ ~perOrder
  /\ Leave(w, IF run[w].covered THEN row ELSE "PENDING")

(* Items unknown to Oracle hold the order.                                   *)
HoldItems(w) ==
  /\ At(w, "guard")
  /\ ~audit /\ perOrder
  /\ Leave(w, "SKIPPED")

Proceed(w) ==
  /\ At(w, "guard")
  /\ ~audit /\ perOrder
  /\ Forget(w, "post")
  /\ UNCHANGED <<perOrder, open, kind, row, held, job, oracle, saved, audit,
                 billed, losses, harm>>

(* Mutant: one document too many.                                            *)
OnwardTooFar(w) ==
  IF run[w].at <= Len(Docs)
  THEN Go(w, [run[w] EXCEPT !.pc = "post", !.at = @ + 1])
  ELSE Step(w, "record")

(* On to the next document, or to the audit log after the last one.          *)
Onward(w) ==
  IF run[w].at < Len(Docs)
  THEN Go(w, [run[w] EXCEPT !.pc = "post", !.at = @ + 1])
  ELSE Step(w, "record")

(* Duplicate checks A to D: a document recorded SUCCESS is not posted again. *)
Reuse(w) ==
  /\ At(w, "post")
  /\ Cur(w) \in saved \cap Checked
  /\ Onward(w)
  /\ UNCHANGED <<perOrder, open, kind, row, held, job, oracle, saved, audit,
                 billed, losses, harm>>

MayPost(w) == At(w, "post") /\ Cur(w) \notin saved \cap Checked

Posted(w) == oracle' = [oracle EXCEPT ![Cur(w)] = IF @ = 0 \/ Cur(w) \in Unchecked THEN 1 ELSE 2]

Post(w) ==
  /\ MayPost(w)
  /\ Posted(w)
  /\ Step(w, "posted")
  /\ UNCHANGED <<perOrder, open, kind, row, held, job, saved, audit, billed,
                 losses, harm>>

(* The circuit breaker turns a call away, the item look-up of the guard or a *)
(* post: back to PENDING, no failure.  A row that cannot be written stays as *)
(* it is.                                                                    *)
TurnedAway(w) ==
  /\ MayPost(w) \/ (At(w, "guard") /\ ~audit /\ perOrder)
  /\ Forget(w, "done")
  /\ \/ row' = "PENDING" /\ harm' = harm
     \/ "save_lost" \in Faults /\ row' = row /\ harm' = TRUE
  /\ UNCHANGED <<perOrder, open, kind, held, job, oracle, saved, audit, billed,
                 losses>>

(* The journal's import answers without an id: an ERROR row, and onward.     *)
PassOver(w) ==
  /\ MayPost(w)
  /\ Cur(w) \in Silent
  /\ Onward(w)
  /\ UNCHANGED <<perOrder, open, kind, row, held, job, oracle, saved, audit,
                 billed, losses, harm>>

(* Mutant: a document that fails is logged and passed over.                  *)
RefuseOnward(w) ==
  /\ MayPost(w)
  /\ Onward(w)
  /\ UNCHANGED <<perOrder, open, kind, row, held, job, oracle, saved, audit,
                 billed, losses, harm>>

(* The catch block: the row is FAILED, if it can be written, and the error   *)
(* goes on to Bull.  `harmful` is whether a document was left unrecorded.    *)
Throw(w, harmful) ==
  /\ Forget(w, "thrown")
  /\ \/ row' = "FAILED" /\ harm' = (harm \/ harmful)
     \/ "save_lost" \in Faults /\ row' = row /\ harm' = TRUE
  /\ UNCHANGED <<perOrder, open, kind, held, job, saved, audit, billed, losses>>

(* A read, a look-up or a write on the way to Oracle fails.                  *)
Fail(w) ==
  /\ At(w, "check") \/ At(w, "guard")
  /\ Throw(w, FALSE)
  /\ UNCHANGED oracle

Refuse(w) ==
  /\ MayPost(w)
  /\ Throw(w, FALSE)
  /\ UNCHANGED oracle

(* Oracle acted and the answer was lost.                                     *)
ReplyLost(w) ==
  /\ "reply_lost" \in Faults
  /\ MayPost(w)
  /\ Posted(w)
  /\ Throw(w, TRUE)

(* Mutant: Oracle's raw status 'S' is stored, which no check looks for.      *)
SaveRaw(w) ==
  /\ At(w, "posted")
  /\ Onward(w)
  /\ UNCHANGED <<perOrder, open, kind, row, held, job, oracle, saved, audit,
                 billed, losses, harm>>

Save(w) ==
  /\ At(w, "posted")
  /\ saved' = saved \cup {Cur(w)}
  /\ Onward(w)
  /\ UNCHANGED <<perOrder, open, kind, row, held, job, oracle, audit, billed,
                 losses, harm>>

(* The repository throws between Oracle's answer and the SUCCESS row.        *)
SaveLost(w) ==
  /\ "save_lost" \in Faults
  /\ At(w, "posted")
  /\ Throw(w, TRUE)
  /\ UNCHANGED oracle

Record(w) ==
  /\ At(w, "record")
  /\ audit' = TRUE
  /\ Step(w, "mark")
  /\ UNCHANGED <<perOrder, open, kind, row, held, job, oracle, saved, billed,
                 losses, harm>>

MarkSynced(w) ==
  /\ At(w, "mark")
  /\ Leave(w, "SYNCED")

(* Writing the audit log or the row fails.                                   *)
MarkLost(w) ==
  /\ "save_lost" \in Faults
  /\ At(w, "record") \/ At(w, "mark")
  /\ Throw(w, FALSE)
  /\ UNCHANGED oracle

Over == [state |-> "finished", tries |-> 0]

(* Bull settles the job when the handler returns or throws, unless it has    *)
(* given the job to another worker meanwhile.                                *)
End(w) ==
  /\ At(w, "done") \/ At(w, "thrown")
  /\ job' = IF ~run[w].owns THEN job
            ELSE IF At(w, "thrown") /\ job.tries > 1
                 THEN [state |-> "waiting", tries |-> job.tries - 1]
                 ELSE Over
  /\ Go(w, Idle)
  /\ UNCHANGED <<perOrder, open, kind, row, held, oracle, saved, audit, billed,
                 losses, harm>>

(* The lock of the job's worker expires: Bull lets another one have the job, *)
(* or fails it when that happened before.                                    *)
Expire(w) ==
  \E j \in {[job EXCEPT !.state = "waiting"], Over} :
    job' = IF run[w].owns THEN j ELSE job

Stall(w) ==
  /\ "stalled" \in Faults
  /\ run[w].owns
  /\ losses > 0
  /\ losses' = losses - 1
  /\ Expire(w)
  /\ Go(w, [run[w] EXCEPT !.owns = FALSE])
  /\ harm' = TRUE
  /\ UNCHANGED <<perOrder, open, kind, row, held, oracle, saved, audit, billed>>

(* The worker dies.  A document Oracle posted and nobody recorded is harm.   *)
Crash(w) ==
  /\ ~At(w, "idle")
  /\ losses > 0
  /\ losses' = losses - 1
  /\ harm' = (harm \/ At(w, "posted"))
  /\ Expire(w)
  /\ Go(w, Idle)
  /\ UNCHANGED <<perOrder, open, kind, row, held, oracle, saved, audit, billed>>

-----------------------------------------------------------------------------
Handle(w) ==
  \/ Decline(w) \/ MarkProcessing(w) \/ Duplicate(w) \/ HandOff(w) \/ HoldItems(w)
  \/ Proceed(w) \/ Fail(w) \/ Reuse(w) \/ Post(w) \/ TurnedAway(w) \/ PassOver(w)
  \/ Refuse(w) \/ ReplyLost(w) \/ Save(w) \/ SaveLost(w) \/ Record(w)
  \/ MarkSynced(w) \/ MarkLost(w) \/ End(w)

Others ==
  \/ \E k \in Kind : Ingest(k)
  \/ Cycle \/ Enqueue \/ SkipVoid \/ Release \/ ListStale \/ CancelStale \/ Bill
  \/ Reset("PENDING") \/ Reset("QUEUED_FOR_RETRY")

Next ==
  \/ Others
  \/ \E w \in Worker : Start(w) \/ Handle(w) \/ Stall(w) \/ Crash(w)

Spec == Init /\ [][Next]_vars

(* Fairness: the pipeline enqueues a PENDING order if again and again a      *)
(* cycle finds nothing in its way, Bull runs what waits, a handler goes on,  *)
(* and the breaker does not turn the same look-up or call away for ever.     *)
(* Nothing makes a cycle find its way clear.                                 *)
Fairness ==
  /\ SF_vars(Pipeline)
  /\ WF_vars(\E w \in Worker : Start(w))
  /\ \A w \in Worker : WF_vars(Handle(w))
  /\ SF_vars(\E w \in Worker : Proceed(w) \/ HoldItems(w))
  /\ \A d \in Doc : SF_vars(\E w \in Worker : Cur(w) = d /\ Post(w))

FairSpec == Spec /\ Fairness

-----------------------------------------------------------------------------
Run == [pc : {"idle", "check", "guard", "post", "posted", "record", "mark", "done",
              "thrown"},
        kind : Kind, covered : BOOLEAN, at : 1 .. Len(Docs), owns : BOOLEAN]

(* The types of the state.                                                   *)
TypeOK ==
  /\ perOrder \in BOOLEAN /\ open \in BOOLEAN /\ kind \in Kind /\ row \in Status
  /\ held \in BOOLEAN
  /\ job \in [state : {"none", "waiting", "active", "finished"}, tries : 0 .. Attempts]
  /\ run \in [Worker -> Run]
  /\ oracle \in [Doc -> 0 .. 2] /\ saved \subseteq Doc
  /\ audit \in BOOLEAN /\ billed \in BOOLEAN /\ harm \in BOOLEAN
  /\ losses \in 0 .. MaxLosses

(* Two handlers never work on the order at once, however often it is         *)
(* enqueued and whoever enqueues it, unless Bull took a slow worker for a    *)
(* lost one ("so we never duplicate genuinely in-flight work",               *)
(* queues.service.ts:49-50).                                                 *)
OneAtATime ==
  harm \/ \A v, w \in Worker : ~At(v, "idle") /\ ~At(w, "idle") => v = w

(* Every checked document is posted at most once, through retries by Bull,   *)
(* by operators and by the pipeline, webhook events, clean-ups and workers   *)
(* that die, unless one of the harmful things happened.                      *)
PostedOnce == \A d \in Checked : oracle[d] > 1 => harm

(* An order shown as SYNCED is in Oracle: with all its documents (the        *)
(* journal may be missing), or on the day's invoice.  Nothing weakens this.  *)
SyncedIsPosted ==
  row = "SYNCED" =>
    IF perOrder THEN \A d \in Doc \ Silent : oracle[d] > 0 ELSE billed

(* Posting per order, no PENDING sale is forgotten as long as again and      *)
(* again a cycle of the pipeline finds nothing in its way: a handler takes   *)
(* it up and settles its row, unless a worker was lost.  A pipeline shut for *)
(* good (run wedged shows one) is promised nothing.                          *)
Settled == {"SYNCED", "FAILED", "SKIPPED", "HOLD"}
Worked ==
  []<>open =>
    ((perOrder /\ row = "PENDING" /\ kind = "sale")
      ~> (row \in Settled \cup {"QUEUED_FOR_RETRY"} \/ kind = "void"
          \/ losses < MaxLosses \/ harm))

(* What the processor says of an order the day's invoice already covers      *)
(* (order-sync.processor.ts:424-426): the job that outlived the daily run    *)
(* leaves its status untouched, for the run has set it to SYNCED.  At the    *)
(* least its row is not left PROCESSING once the job is over.                *)
SyncedIsKept == (billed /\ job.state = "finished") => row # "PROCESSING"
==============================================================================

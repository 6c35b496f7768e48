------------------------------ MODULE CreditMemo ------------------------------
(***************************************************************************)
(* CreditMemoService: ONE refund on its way to a credit memo in Oracle,    *)
(* pushed by the cron and by administrators through the circuit breaker of *)
(* the create call (module CircuitBreaker), while webhooks may ingest the  *)
(* refund again.  The other refunds of a batch only show as calls that use *)
(* the same circuit.                                                       *)
(*                                                                         *)
(* Nothing keeps two pushes of the refund apart, an answer from being lost *)
(* or a save from failing: `harm` remembers that it did happen.            *)
(***************************************************************************)
EXTENDS CircuitBreaker

CONSTANTS
  Cron,       \* processes that run the cron
  Clerk,      \* administrators' calls at work at once
  Faults,     \* harmful events admitted in this instance
  MaxIngests, \* bound on webhook events about the refund
  MaxCrashes  \* bound on processes that die

AllFaults == {"overlap", "reply_lost", "save_lost", "stale_ingest"}

ASSUME MemoConstantsOK ==
  /\ Caller = Cron \cup Clerk /\ Cron \cap Clerk = {}
  /\ Faults \subseteq AllFaults
  /\ MaxIngests \in Nat /\ MaxCrashes \in Nat

VARIABLES
  refund,    \* RefundTracking: its status, and whether it has the memo's number
  audit,     \* the audit log has SUCCESS for the refund
  memos,     \* credit memos Oracle holds for it, 2 standing for more
  push,      \* [Caller -> what the call holds in memory]
  ingest,    \* a webhook between reading the row and saving it
  ingests, crashes, \* what is left of the bounds
  harm

vars == <<circuit, call, refund, audit, memos, push, ingest, ingests, crashes, harm>>

NoPush   == [pc |-> "idle", batch |-> FALSE, listed |-> FALSE]
NoIngest == [busy |-> FALSE, number |-> FALSE]

Init ==
  /\ BreakerInit
  /\ refund \in [status : {"NONE", "PENDING"}, number : {FALSE}]
  /\ audit = FALSE
  /\ memos = 0
  /\ push = [w \in Caller |-> NoPush]
  /\ ingest = NoIngest
  /\ ingests = MaxIngests /\ crashes = MaxCrashes
  /\ harm = FALSE

At(w, pc) == push[w].pc = pc
Go(w, pc) == push' = [push EXCEPT ![w].pc = pc]

(* pushRefund returns to the batch, or the call for one refund ends.         *)
Return(w) ==
  push' = [push EXCEPT ![w] = IF @.batch THEN [@ EXCEPT !.pc = "batch"] ELSE NoPush]

-----------------------------------------------------------------------------
(* ingestOrder on a refund: find, then save the row PENDING with the number  *)
(* it was found with.                                                        *)
IngestRead ==
  /\ ~ingest.busy
  /\ ingests > 0
  /\ ingests' = ingests - 1
  /\ ingest' = [busy |-> TRUE, number |-> refund.number]
  /\ UNCHANGED <<circuit, call, refund, audit, memos, push, crashes, harm>>

(* Mutant: the saved row leaves the number out.                              *)
IngestBlank ==
  /\ ingest.busy
  /\ ingest' = NoIngest
  /\ refund' = [status |-> "PENDING", number |-> FALSE]
  /\ UNCHANGED <<circuit, call, audit, memos, push, ingests, crashes, harm>>

IngestSave ==
  /\ ingest.busy
  /\ refund.number # ingest.number => "stale_ingest" \in Faults
  /\ ingest' = NoIngest
  /\ refund' = [status |-> "PENDING", number |-> ingest.number]
  /\ harm' = (harm \/ refund.number # ingest.number)
  /\ UNCHANGED <<circuit, call, audit, memos, push, ingests, crashes>>

-----------------------------------------------------------------------------
List(w) ==
  /\ push[w] = NoPush
  /\ push' = [push EXCEPT ![w] = [pc |-> "batch", batch |-> TRUE,
                                  listed |-> refund.status = "PENDING"]]
  /\ UNCHANGED <<circuit, call, refund, audit, memos, ingest, ingests, crashes, harm>>

(* runAutoPush: one at a time in a process, and not while a circuit is OPEN. *)
(* (The circuits of other Oracle calls gate it too.)                         *)
AutoPush(h) == circuit.state # "OPEN" /\ List(h)

ProcessPending(k) == List(k)

(* POST :id/push takes the refund whatever its status.                       *)
PushOne(k) ==
  /\ push[k] = NoPush
  /\ refund.status # "NONE"
  /\ Go(k, "look")
  /\ UNCHANGED <<circuit, call, refund, audit, memos, ingest, ingests, crashes, harm>>

(* Another refund of the batch comes first.                                  *)
TakeOther(w) ==
  /\ At(w, "batch")
  /\ Enter(w)
  /\ Go(w, "other")
  /\ UNCHANGED <<refund, audit, memos, ingest, ingests, crashes, harm>>

OtherAnswered(w, ok) ==
  /\ At(w, "other")
  /\ Answer(w, ok)
  /\ UNCHANGED <<refund, audit, memos, push, ingest, ingests, crashes, harm>>

OtherDone(w) ==
  /\ At(w, "other")
  /\ call[w].pc \in {"returned", "threw", "rejected"}
  /\ Forget(w)
  /\ Return(w)
  /\ UNCHANGED <<refund, audit, memos, ingest, ingests, crashes, harm>>

TakeMine(w) ==
  /\ At(w, "batch") /\ push[w].listed
  /\ push' = [push EXCEPT ![w].pc = "look", ![w].listed = FALSE]
  /\ UNCHANGED <<circuit, call, refund, audit, memos, ingest, ingests, crashes, harm>>

Finish(w) ==
  /\ At(w, "batch") /\ ~push[w].listed
  /\ push' = [push EXCEPT ![w] = NoPush]
  /\ UNCHANGED <<circuit, call, refund, audit, memos, ingest, ingests, crashes, harm>>

-----------------------------------------------------------------------------
(* pushRefund.                                                               *)

(* No branch, no configuration, or a payload that cannot be built.           *)
Unready(w) ==
  /\ At(w, "look") \/ At(w, "ready")
  /\ Go(w, "failing")
  /\ UNCHANGED <<circuit, call, refund, audit, memos, ingest, ingests, crashes, harm>>

(* The audit log has the refund as posted: SYNCED without a second push.     *)
Duplicate(w) ==
  /\ At(w, "look")
  /\ audit
  /\ refund' = [refund EXCEPT !.status = "SYNCED"]
  /\ Return(w)
  /\ UNCHANGED <<circuit, call, audit, memos, ingest, ingests, crashes, harm>>

(* No other push is between the look at the audit log and its own entry.     *)
Alone(w) ==
  \A v \in Caller \ {w} : push[v].pc \notin {"ready", "create", "created", "record"}

NotPosted(w) ==
  /\ At(w, "look")
  /\ ~audit
  /\ Alone(w) \/ "overlap" \in Faults
  /\ harm' = (harm \/ ~Alone(w))
  /\ Go(w, "ready")
  /\ UNCHANGED <<circuit, call, refund, audit, memos, ingest, ingests, crashes>>

Create(w) ==
  /\ At(w, "ready")
  /\ Enter(w)
  /\ Go(w, "create")
  /\ UNCHANGED <<refund, audit, memos, ingest, ingests, crashes, harm>>

NewMemo == memos' = IF memos = 0 THEN 1 ELSE 2

Post(w) ==
  /\ At(w, "create")
  /\ Answer(w, TRUE)
  /\ NewMemo
  /\ UNCHANGED <<refund, audit, push, ingest, ingests, crashes, harm>>

Refuse(w) ==
  /\ At(w, "create")
  /\ Answer(w, FALSE)
  /\ UNCHANGED <<refund, audit, memos, push, ingest, ingests, crashes, harm>>

(* Oracle made the memo, and the answer was lost or had no number.           *)
ReplyLost(w) ==
  /\ "reply_lost" \in Faults
  /\ At(w, "create")
  /\ Answer(w, FALSE)
  /\ NewMemo
  /\ harm' = TRUE
  /\ UNCHANGED <<refund, audit, push, ingest, ingests, crashes>>

(* The breaker notes the outcome of the call.                                *)
BookKeep(w) ==
  /\ Write(w)
  /\ UNCHANGED <<refund, audit, memos, push, ingest, ingests, crashes, harm>>

(* Mutant: a call the breaker turned away counts as made.                    *)
CreatedUnsent(w) ==
  /\ At(w, "create")
  /\ call[w].pc \in {"returned", "rejected"}
  /\ Forget(w)
  /\ Go(w, "created")
  /\ UNCHANGED <<refund, audit, memos, ingest, ingests, crashes, harm>>

(* The memo's application to the invoice never fails the push, and changes   *)
(* nothing kept here.                                                        *)
Created(w) ==
  /\ At(w, "create")
  /\ call[w].pc = "returned"
  /\ Forget(w)
  /\ Go(w, "created")
  /\ UNCHANGED <<refund, audit, memos, ingest, ingests, crashes, harm>>

(* Mutant: the breaker never learns that its caller has gone.                *)
NotCreatedKept(w) ==
  /\ At(w, "create")
  /\ call[w].pc \in {"threw", "rejected"}
  /\ Go(w, "failing")
  /\ UNCHANGED <<circuit, call, refund, audit, memos, ingest, ingests, crashes, harm>>

NotCreated(w) ==
  /\ At(w, "create")
  /\ call[w].pc \in {"threw", "rejected"}
  /\ Forget(w)
  /\ Go(w, "failing")
  /\ UNCHANGED <<refund, audit, memos, ingest, ingests, crashes, harm>>

SaveSynced(w) ==
  /\ At(w, "created")
  /\ refund' = [status |-> "SYNCED", number |-> TRUE]
  /\ Go(w, "record")
  /\ UNCHANGED <<circuit, call, audit, memos, ingest, ingests, crashes, harm>>

Record(w) ==
  /\ At(w, "record")
  /\ audit' = TRUE
  /\ Return(w)
  /\ UNCHANGED <<circuit, call, refund, memos, ingest, ingests, crashes, harm>>

(* The row or the audit record cannot be written: the catch block takes the  *)
(* refund for failed.                                                        *)
SaveLost(w) ==
  /\ "save_lost" \in Faults
  /\ At(w, "created") \/ At(w, "record")
  /\ harm' = TRUE
  /\ Go(w, "failing")
  /\ UNCHANGED <<circuit, call, refund, audit, memos, ingest, ingests, crashes>>

(* Mutant: the failure is recorded under the key of the success.             *)
MarkFailedSameKey(w) ==
  /\ At(w, "failing")
  /\ refund' = [refund EXCEPT !.status = "FAILED"]
  /\ audit' = FALSE
  /\ Return(w)
  /\ UNCHANGED <<circuit, call, memos, ingest, ingests, crashes, harm>>

(* markFailed: the failure goes to the audit log under a key of its own.     *)
MarkFailed(w) ==
  /\ At(w, "failing")
  /\ refund' = [refund EXCEPT !.status = "FAILED"]
  /\ Return(w)
  /\ UNCHANGED <<circuit, call, audit, memos, ingest, ingests, crashes, harm>>

(* markFailed throws: the batch ends there.                                  *)
MarkLost(w) ==
  /\ "save_lost" \in Faults
  /\ At(w, "failing")
  /\ push' = [push EXCEPT ![w] = NoPush]
  /\ UNCHANGED <<circuit, call, refund, audit, memos, ingest, ingests, crashes, harm>>

(* The process dies.  A memo made and not recorded is harm.                  *)
Crash(w) ==
  /\ ~At(w, "idle")
  /\ crashes > 0
  /\ crashes' = crashes - 1
  /\ harm' = (\/ harm
              \/ push[w].pc \in {"created", "record"}
              \/ At(w, "create") /\ call[w].pc \in {"succeeding", "returned"})
  /\ Forget(w)
  /\ push' = [push EXCEPT ![w] = NoPush]
  /\ UNCHANGED <<refund, audit, memos, ingest, ingests>>

Around == UNCHANGED <<refund, audit, memos, push, ingest, ingests, crashes, harm>>

CircuitElapses == Elapse /\ Around
CircuitExpires == Expire /\ Around
CircuitReset   == Reset /\ Around

-----------------------------------------------------------------------------
(* What a call does once it has begun, whatever answers it gets.             *)
Proceed(w) ==
  \/ OtherAnswered(w, TRUE) \/ OtherAnswered(w, FALSE) \/ OtherDone(w)
  \/ TakeMine(w) \/ Finish(w)
  \/ Unready(w) \/ Duplicate(w) \/ NotPosted(w) \/ Create(w)
  \/ Post(w) \/ Refuse(w) \/ ReplyLost(w) \/ BookKeep(w)
  \/ Created(w) \/ NotCreated(w)
  \/ SaveSynced(w) \/ Record(w) \/ SaveLost(w) \/ MarkFailed(w) \/ MarkLost(w)

Next ==
  \/ IngestRead \/ IngestSave
  \/ \E h \in Cron : AutoPush(h)
  \/ \E k \in Clerk : ProcessPending(k) \/ PushOne(k)
  \/ \E w \in Caller : TakeOther(w) \/ Proceed(w) \/ Crash(w)
  \/ CircuitElapses \/ CircuitExpires \/ CircuitReset

Spec == Init /\ [][Next]_vars

(* Fairness: the cron ticks, and does not find a circuit OPEN at every tick; *)
(* a batch gets to the refund it listed; a call goes on; a status that can   *)
(* not be saved once is saved some day; time passes.                         *)
Fairness ==
  /\ \A h \in Cron :
       /\ SF_vars(AutoPush(h))
       /\ SF_vars(TakeMine(h))
       /\ SF_vars(MarkFailed(h))
  /\ \A w \in Caller : WF_vars(Proceed(w))
  /\ WF_vars(CircuitElapses)
  /\ WF_vars(CircuitExpires)

FairSpec == Spec /\ Fairness

-----------------------------------------------------------------------------
(* The types of the state, and a call is open only while a push waits for it. *)
TypeOK ==
  /\ BreakerTypeOK
  /\ refund \in [status : {"NONE", "PENDING", "SYNCED", "FAILED"}, number : BOOLEAN]
  /\ audit \in BOOLEAN /\ memos \in 0 .. 2 /\ harm \in BOOLEAN
  /\ push \in [Caller -> [pc : {"idle", "batch", "other", "look", "ready", "create",
                                "created", "record", "failing"},
                          batch : BOOLEAN, listed : BOOLEAN]]
  /\ ingest \in [busy : BOOLEAN, number : BOOLEAN]
  /\ ingests \in 0 .. MaxIngests /\ crashes \in 0 .. MaxCrashes
  /\ \A w \in Caller : call[w] # NoCall => push[w].pc \in {"other", "create"}

(* A refund gets one credit memo, however often it is pushed, ingested       *)
(* again, refused, turned away by the breaker or marked FAILED, unless two   *)
(* pushes overlap or an answer or a record was lost ("Idempotent",           *)
(* credit-memo.service.ts:161).                                              *)
MemoOnce == memos > 1 => harm

(* A refund shown as SYNCED has a credit memo in Oracle, whatever overlaps   *)
(* and whatever is lost.                                                     *)
SyncedIsPosted == refund.status = "SYNCED" => memos > 0

(* Under the same proviso as MemoOnce it shows the memo's number, although   *)
(* the audit log lets a push mark it SYNCED without one.                     *)
SyncedHasNumber == refund.status = "SYNCED" => refund.number \/ harm

(* Again and again the circuit is not OPEN and lets a caller through, though *)
(* the cron does not call while it is OPEN and a probe may die.              *)
Admitting ==
  \/ circuit.state = "CLOSED"
  \/ circuit.state = "HALF_OPEN" /\ circuit.inFlight < Limit
Recovers == []<>Admitting

(* A PENDING refund is settled: pushed, or FAILED for someone to look at.    *)
Settles == refund.status = "PENDING" ~> refund.status # "PENDING"
==============================================================================

--------------------------- MODULE ClosedDayProofs ---------------------------
(***************************************************************************)
(* Theorems about DailyInvoice on a CLOSED day: every order is in the      *)
(* backup before the first run, and none is held back.  There no SUCCESS   *)
(* row and no SYNCED order names an invoice without its order, whatever    *)
(* fails and however many processes post; and in a sheltered system whose  *)
(* answers about documents arrive, no document is sent twice.              *)
(* Of documents on any day it proves that in one process whose answers     *)
(* about them arrive no number is used twice.                              *)
(*                                                                         *)
(* The run `adopted` shows the first claim false as soon as an order lands *)
(* late.                                                                   *)
(***************************************************************************)
EXTENDS DailyInvoiceProofs

Closed == ClosedDay = Order /\ Holdable = {}

(* A run that began over fresh orders has the whole day on its header until  *)
(* it is recorded; one that knows a transaction number knows an invoice of   *)
(* the whole day; and every run is about the payments of every order.        *)
HasInvoice == {"reply", "persist", "clear", "docs", "docreply"}

WholeRun(r) ==
  /\ r.pc \in BeforePersist => r.header = Order
  /\ r.pc \in HasInvoice => r.txn \in Txn /\ invoices[r.txn] = Order
  /\ r.pc # "idle" => r.payers = Order

(* On a closed day whatever exists covers all of it.                         *)
WholeDay ==
  /\ landed = Order
  /\ \A t \in Txn : invoices[t] \in {{}, Order}
  /\ orphans \subseteq {Order}
  /\ Posted \in {{}, Order}
  /\ \A r \in success : invoices[r[2]] = Order
  /\ \A o \in Order : queue[o] # None => invoices[queue[o]] = Order
  /\ \A p \in Poster : WholeRun(run[p])

-----------------------------------------------------------------------------
(* The fields of a changed run that matter here.                             *)
LEMMA Shapes ==
  ASSUME NEW r \in Run, NEW t, NEW d
  PROVE  /\ Awaiting(r, t).pc = "reply" /\ Awaiting(r, t).txn = t
         /\ Awaiting(r, t).header = r.header /\ Awaiting(r, t).payers = r.payers
         /\ Settling(r).pc = "settle"
         /\ Settling(r).header = r.header /\ Settling(r).payers = r.payers
         /\ StillUnknown(r).pc \in {"settle", "mark"}
         /\ StillUnknown(r).header = r.header /\ StillUnknown(r).payers = r.payers
         /\ Holding(r, t).pc = "persist" /\ Holding(r, t).txn = t
         /\ Holding(r, t).header = r.header /\ Holding(r, t).payers = r.payers
         /\ Again(r).pc = "create"
         /\ Again(r).header = r.header /\ Again(r).payers = r.payers
         /\ Sent(r, d).pc = "docreply" /\ Sent(r, d).txn = r.txn /\ Sent(r, d).payers = r.payers
         /\ Answered(r).pc = "docs" /\ Answered(r).txn = r.txn /\ Answered(r).payers = r.payers
  BY DEF Run, Awaiting, Settling, StillUnknown, Holding, Again, Sent, Answered

LEMMA Beginnings ==
  ASSUME NEW t, NEW S
  PROVE  /\ FreshRun(S).pc = "check" /\ FreshRun(S).header = S /\ FreshRun(S).payers = S
         /\ ReuseRun(t, S).pc = "docs" /\ ReuseRun(t, S).txn = t /\ ReuseRun(t, S).payers = S
         /\ NoRun.pc = "idle"
  BY DEF FreshRun, ReuseRun, NoRun

(* A step of one run, or of none, that leaves Oracle and the rows alone.     *)
LEMMA WholeKept ==
  ASSUME WholeDay, UNCHANGED <<landed, invoices, success, queue>>,
         orphans' \subseteq {Order},
         \A p \in Poster : run'[p] = run[p] \/ WholeRun(run'[p])
  PROVE  WholeDay'
  BY DEF WholeDay, WholeRun, Posted

LEMMA WholeInit == ASSUME Closed, Init PROVE WholeDay
  BY Beginnings DEF Init, Closed, WholeDay, WholeRun, Posted, BeforePersist, Unattended,
                    HasInvoice

LEMMA WholePostDay ==
  ASSUME Closed, TypeInv, WholeDay, NEW p \in Poster, PostDay(p)
  PROVE  WholeDay'
<1>a. run \in [Poster -> SoundRun] /\ success \subseteq Order \X Txn
  BY SoundRuns DEF TypeOK
<1>b. UNCHANGED <<landed, invoices, success, queue, orphans>>
  BY DEF PostDay, source, repo, oracle
<1>c. landed = Order /\ Posted \in {{}, Order} /\ Holdable = {}
  BY DEF WholeDay, Closed
<1>1. \/ Order \ Posted # {} /\ run' = [run EXCEPT ![p] = FreshRun(Order \ Posted)]
      \/ \E r \in success : run' = [run EXCEPT ![p] = ReuseRun(r[2], Order)]
  <2>1. PICK held \in SUBSET (Holdable \cap landed) :
          \/ /\ (landed \ held) \ Posted # {}
             /\ run' = [run EXCEPT ![p] = FreshRun((landed \ held) \ Posted)]
          \/ \E r \in success : run' = [run EXCEPT ![p] = ReuseRun(r[2], landed)]
    BY DEF PostDay
  <2>2. landed \ held = Order
    BY <1>c
  <2> QED BY <1>c, <2>1, <2>2
<1>2. CASE Order \ Posted # {} /\ run' = [run EXCEPT ![p] = FreshRun(Order \ Posted)]
  <2>1. Order \ Posted = Order
    BY <1>c, <1>2
  <2>2. WholeRun(FreshRun(Order))
    BY Beginnings DEF WholeRun, HasInvoice
  <2> QED BY <1>2, <1>a, <1>b, <2>1, <2>2, WholeKept DEF WholeDay
<1>3. CASE \E r \in success : run' = [run EXCEPT ![p] = ReuseRun(r[2], Order)]
  <2>1. PICK r \in success : run' = [run EXCEPT ![p] = ReuseRun(r[2], Order)]
    BY <1>3
  <2>2. r[2] \in Txn /\ invoices[r[2]] = Order
    BY <1>a DEF WholeDay
  <2>3. WholeRun(ReuseRun(r[2], Order))
    BY <2>2, Beginnings DEF WholeRun, BeforePersist, Unattended
  <2> QED BY <1>a, <1>b, <2>1, <2>3, WholeKept DEF WholeDay
<1> QED BY <1>1, <1>2, <1>3

(* The two steps that make an invoice make one of the whole day.             *)
LEMMA WholeInvoice ==
  ASSUME TypeOK, WholeDay, NEW t \in Txn, invoices' = [invoices EXCEPT ![t] = Order],
         UNCHANGED <<landed, success, queue>>, orphans' \subseteq orphans,
         \A p \in Poster : run'[p] = run[p] \/ WholeRun(run[p])'
  PROVE  WholeDay'
<1>1. /\ invoices \in [Txn -> SUBSET Order] /\ success \subseteq Order \X Txn
      /\ queue \in [Order -> Txn \cup {None}]
  BY DEF TypeOK
<1>2. \A u \in Txn : invoices[u] = Order => invoices'[u] = Order
  BY <1>1
<1>3. \A p \in Poster : WholeRun(run[p])
  BY DEF WholeDay
<1>4. ASSUME NEW p \in Poster PROVE WholeRun(run[p])'
  BY <1>2, <1>3 DEF WholeRun
<1>5. \A r \in success : invoices[r[2]] = Order /\ r[2] \in Txn
  BY <1>1 DEF WholeDay
<1>6. \A o \in Order : queue[o] # None => invoices[queue[o]] = Order /\ queue[o] \in Txn
  BY <1>1 DEF WholeDay
<1> QED BY <1>1, <1>2, <1>4, <1>5, <1>6 DEF WholeDay, Posted

(* A run ends.                                                               *)
LEMMA WholeExit ==
  ASSUME TypeInv, WholeDay, NEW p \in Poster, Exit(p),
         UNCHANGED <<landed, invoices, success, queue, orphans>>
  PROVE  WholeDay'
<1>1. \A q \in Poster : run'[q] = run[q] \/ run'[q] = NoRun
  BY SoundRuns, ExitSound DEF TypeOK
<1>2. WholeRun(NoRun)
  BY Beginnings DEF WholeRun, BeforePersist, Unattended, HasInvoice
<1> QED BY <1>1, <1>2, WholeKept DEF WholeDay

(* A run goes on.                                                            *)
LEMMA WholeGo ==
  ASSUME TypeInv, WholeDay, NEW p \in Poster, NEW r, Go(p, r), WholeRun(r),
         UNCHANGED <<landed, invoices, success, queue>>, orphans' \subseteq {Order}
  PROVE  WholeDay'
<1>1. \A q \in Poster : run'[q] = run[q] \/ run'[q] = r
  BY SoundRuns DEF Go
<1> QED BY <1>1, WholeKept

LEMMA WholeCreate ==
  ASSUME TypeInv, WholeDay, NEW p \in Poster, Create(p) PROVE WholeDay'
<1>a. run[p] \in Run /\ WholeRun(run[p])
  BY DEF TypeInv, TypeOK, WholeDay
<1>b. At(p, "create")
  BY DEF Create, CreateAccepted, CreateRefused, CreateItemRefused, CreateTimedOut
<1>c. run[p].header = Order /\ run[p].payers = Order
  BY <1>a, <1>b DEF At, WholeRun, BeforePersist
<1>1. CASE CreateAccepted(p)
  <2>1. PICK t \in Txn : /\ invoices' = [invoices EXCEPT ![t] = Order]
                         /\ Go(p, Awaiting(run[p], t))
    BY <1>1, <1>c DEF CreateAccepted
  <2>2. invoices'[t] = Order
    BY <2>1 DEF TypeInv, TypeOK
  <2>3. \A q \in Poster : run'[q] = run[q] \/ WholeRun(run[q])'
    <3>1. \A q \in Poster : run'[q] = run[q] \/ run'[q] = Awaiting(run[p], t)
      BY <2>1, SoundRuns DEF Go
    <3> QED BY <1>a, <1>c, <2>2, <3>1, Shapes DEF WholeRun
  <2>4. UNCHANGED <<landed, success, queue, orphans>>
    BY <1>1 DEF CreateAccepted, source, repo
  <2> QED BY <2>1, <2>3, <2>4, WholeInvoice DEF TypeInv
<1>2. CASE CreateRefused(p)
  BY <1>2, WholeExit DEF CreateRefused, source, repo, oracle
<1>3. CASE CreateItemRefused(p)
  <2> DEFINE r == [run[p] EXCEPT !.swapped = TRUE]
  <2>1. r \in Run /\ r.payers = Order /\ r.header = Order
    BY <1>a, <1>c DEF Run
  <2>2. Exit(p) \/ Go(p, Again(r))
    BY <1>3 DEF CreateItemRefused, NextAttempt
  <2>3. WholeRun(Again(r))
    <3> HIDE DEF r
    <3> QED BY <2>1, Shapes DEF WholeRun, HasInvoice
  <2>4. UNCHANGED <<landed, invoices, success, queue, orphans>>
    BY <1>3 DEF CreateItemRefused, source, repo, oracle
  <2> QED BY <2>2, <2>3, <2>4, WholeExit, WholeGo DEF WholeDay
<1>4. CASE CreateTimedOut(p)
  <2>1. WholeRun(Settling(run[p]))
    BY <1>a, <1>c, Shapes DEF WholeRun, HasInvoice
  <2>2. orphans' \subseteq {Order}
    BY <1>4, <1>c DEF CreateTimedOut, WholeDay
  <2> QED BY <1>4, <2>1, <2>2, WholeGo DEF CreateTimedOut, source, repo
<1> QED BY <1>1, <1>2, <1>3, <1>4 DEF Create

LEMMA WholeSettle ==
  ASSUME TypeInv, WholeDay, NEW p \in Poster, Reply(p) \/ Settle(p) PROVE WholeDay'
<1>a. run[p] \in Run /\ WholeRun(run[p])
  BY DEF TypeInv, TypeOK, WholeDay
<1>b. run[p].pc \in {"reply", "settle"}
  BY DEF Reply, ReplyArrives, ReplyLost, ReplyBlank, Settle, SettleFound, SettleAbsent,
         SettleUnknown, At
<1>c. run[p].header = Order /\ run[p].payers = Order
  BY <1>a, <1>b DEF WholeRun, BeforePersist, Unattended
<1>d. UNCHANGED <<landed, invoices, success, queue, orphans>>
  BY DEF Reply, ReplyArrives, ReplyLost, ReplyBlank, Settle, SettleFound, SettleAbsent,
         SettleUnknown, source, repo, oracle
<1>1. CASE ReplyArrives(p)
  <2>1. WholeRun([run[p] EXCEPT !.pc = "persist"])
    BY <1>1, <1>a, <1>c DEF ReplyArrives, At, WholeRun, HasInvoice, Run
  <2> QED BY <1>1, <1>d, <2>1, WholeGo DEF ReplyArrives, WholeDay
<1>2. CASE ReplyLost(p)
  <2>1. WholeRun(Settling(run[p]))
    BY <1>a, <1>c, Shapes DEF WholeRun, HasInvoice
  <2> QED BY <1>2, <1>d, <2>1, WholeGo DEF ReplyLost, WholeDay
<1>3. CASE ReplyBlank(p)
  BY <1>3, <1>d, WholeExit DEF ReplyBlank
<1>4. CASE SettleFound(p)
  <2>1. PICK t \in Matching(Order) : Go(p, Holding(run[p], t))
    BY <1>4, <1>c DEF SettleFound
  <2>2. t \in Txn /\ invoices[t] = Order
    BY <2>1 DEF Matching, WholeDay
  <2>3. WholeRun(Holding(run[p], t))
    BY <1>a, <1>c, <2>2, Shapes DEF WholeRun
  <2> QED BY <1>d, <2>1, <2>3, WholeGo DEF WholeDay
<1>5. CASE SettleAbsent(p)
  <2>1. Exit(p) \/ Go(p, Again(run[p]))
    BY <1>5 DEF SettleAbsent, NextAttempt
  <2>2. WholeRun(Again(run[p]))
    BY <1>a, <1>c, Shapes DEF WholeRun, HasInvoice
  <2> QED BY <1>d, <2>1, <2>2, WholeExit, WholeGo DEF WholeDay
<1>6. CASE SettleUnknown(p)
  <2>1. WholeRun(StillUnknown(run[p]))
    BY <1>a, <1>c, Shapes DEF WholeRun, HasInvoice
  <2> QED BY <1>6, <1>d, <2>1, WholeGo DEF SettleUnknown, WholeDay
<1> QED BY <1>1, <1>2, <1>3, <1>4, <1>5, <1>6 DEF Reply, Settle

(* The look-ups before anything is sent.                                     *)
LEMMA WholeLook ==
  ASSUME TypeInv, WholeDay, NEW p \in Poster, CheckUncertain(p) \/ Recheck(p) PROVE WholeDay'
<1>a. run[p] \in Run /\ WholeRun(run[p])
  BY DEF TypeInv, TypeOK, WholeDay
<1>b. run[p].pc \in {"check", "recheck"}
  BY DEF CheckUncertain, Recheck, At
<1>c. run[p].header = Order /\ run[p].payers = Order
  BY <1>a, <1>b DEF WholeRun, BeforePersist
<1>d. UNCHANGED <<landed, invoices, success, queue, orphans>>
  BY DEF CheckUncertain, Recheck, source, repo, oracle
<1>e. ASSUME NEW x \in {"create", "recheck", "mark"}
      PROVE  WholeRun([run[p] EXCEPT !.pc = x])
  BY <1>a, <1>c DEF WholeRun, HasInvoice, Run
<1>1. \/ \E x \in {"create", "recheck", "mark"} : Go(p, [run[p] EXCEPT !.pc = x])
      \/ \E t \in Matching(Order) : Go(p, Holding(run[p], t))
  BY <1>c DEF CheckUncertain, Recheck
<1>2. ASSUME NEW t \in Matching(Order) PROVE WholeRun(Holding(run[p], t))
  <2>1. t \in Txn /\ invoices[t] = Order
    BY <1>2 DEF Matching, WholeDay
  <2> QED BY <1>a, <1>c, <2>1, Shapes DEF WholeRun
<1> QED BY <1>1, <1>2, <1>d, <1>e, WholeGo DEF WholeDay

LEMMA WholeRecord ==
  ASSUME TypeInv, WholeDay, NEW p \in Poster, Record(p) PROVE WholeDay'
<1>a. run[p] \in Run /\ WholeRun(run[p])
  BY DEF TypeInv, TypeOK, WholeDay
<1>1. CASE MarkUncertain(p)
  BY <1>1, WholeExit DEF MarkUncertain, source
<1>2. CASE Persist(p)
  <2>1. /\ run[p].header = Order /\ run[p].payers = Order
        /\ run[p].txn \in Txn /\ invoices[run[p].txn] = Order
    BY <1>2, <1>a DEF Persist, At, WholeRun, BeforePersist, Unattended, HasInvoice
  <2>2. WholeRun([run[p] EXCEPT !.pc = "clear"])
    BY <1>a, <2>1 DEF WholeRun, BeforePersist, Unattended, Run
  <2>3. \A q \in Poster : run'[q] = run[q] \/ run'[q] = [run[p] EXCEPT !.pc = "clear"]
    BY <1>2, SoundRuns DEF Persist, Go
  <2>4. success' = success \cup (Order \X {run[p].txn})
    BY <1>2, <2>1 DEF Persist
  <2>5. Posted' \in {{}, Order}
    <3>1. \A o \in Order : <<o, run[p].txn>> \in success' /\ <<o, run[p].txn>>[1] = o
      BY <2>4
    <3>2. Order \subseteq Posted'
      BY <3>1 DEF Posted
    <3>3. Posted' \subseteq Posted \cup Order
      BY <2>4 DEF Posted
    <3> QED BY <3>2, <3>3 DEF WholeDay
  <2>6. \A r \in success' : invoices[r[2]] = Order
    BY <2>1, <2>4 DEF WholeDay
  <2>7. UNCHANGED <<landed, invoices, queue, orphans>>
    BY <1>2 DEF Persist, source, oracle
  <2>8. \A q \in Poster : WholeRun(run[q])'
    BY <2>2, <2>3, <2>7 DEF WholeDay, WholeRun
  <2> QED BY <2>5, <2>6, <2>7, <2>8 DEF WholeDay
<1>3. CASE ClearUncertain(p)
  <2>1. WholeRun([run[p] EXCEPT !.pc = "docs"])
    BY <1>3, <1>a DEF ClearUncertain, At, WholeRun, BeforePersist, Unattended, HasInvoice, Run
  <2> QED BY <1>3, <2>1, WholeGo DEF ClearUncertain, source, oracle, WholeDay
<1> QED BY <1>1, <1>2, <1>3 DEF Record

LEMMA WholeFollowUp ==
  ASSUME TypeInv, WholeDay, NEW p \in Poster, FollowUp(p) PROVE WholeDay'
<1>a. run[p] \in Run /\ WholeRun(run[p])
  BY DEF TypeInv, TypeOK, WholeDay
<1>b. run[p].pc \in {"docs", "docreply"}
  BY DEF FollowUp, DocSkipped, DocAccepted, DocRefused, DocSaved, DocReplyLost, At
<1>c. run[p].payers = Order /\ run[p].txn \in Txn /\ invoices[run[p].txn] = Order
  BY <1>a, <1>b DEF WholeRun, HasInvoice
<1>d. UNCHANGED <<landed, invoices, success, queue, orphans>>
  BY DEF FollowUp, DocSkipped, DocAccepted, DocRefused, DocSaved, DocReplyLost,
         source, repo, oracle
<1>1. \/ \E d : run[p].pc = "docs" /\ Go(p, [run[p] EXCEPT !.todo = run[p].todo \ {d}])
      \/ \E d : Go(p, Sent(run[p], d))
      \/ Go(p, Answered(run[p]))
  BY DEF FollowUp, DocSkipped, DocAccepted, DocRefused, DocSaved, DocReplyLost, At
<1>2. ASSUME NEW d, run[p].pc = "docs"
      PROVE  WholeRun([run[p] EXCEPT !.todo = run[p].todo \ {d}])
  BY <1>2, <1>a, <1>c DEF WholeRun, BeforePersist, Unattended, Run
<1>3. ASSUME NEW d PROVE WholeRun(Sent(run[p], d)) /\ WholeRun(Answered(run[p]))
  BY <1>a, <1>c, Shapes DEF WholeRun, BeforePersist, Unattended
<1> QED BY <1>1, <1>2, <1>3, <1>d, WholeGo DEF WholeDay

LEMMA WholeFinish ==
  ASSUME TypeInv, WholeDay, NEW p \in Poster, FinishRun(p) PROVE WholeDay'
<1>1. /\ run[p].payers = Order /\ run[p].txn \in Txn /\ invoices[run[p].txn] = Order
  BY DEF WholeDay, WholeRun, FinishRun, At, HasInvoice
<1>2. UNCHANGED <<landed, invoices, success, orphans>>
  BY DEF FinishRun, source, oracle
<1>3. \A o \in Order : queue'[o] = run[p].txn
  BY <1>1 DEF FinishRun
<1>4. \A q \in Poster : run'[q] = run[q] \/ run'[q] = NoRun
  BY SoundRuns, ExitSound DEF TypeOK, FinishRun
<1>5. WholeRun(NoRun)
  BY Beginnings DEF WholeRun, BeforePersist, Unattended, HasInvoice
<1>6. \A q \in Poster : WholeRun(run[q])'
  BY <1>2, <1>4, <1>5 DEF WholeDay, WholeRun
<1> QED BY <1>1, <1>2, <1>3, <1>6 DEF WholeDay, Posted

LEMMA WholeNext == ASSUME Closed, TypeInv, WholeDay, [Next]_vars PROVE WholeDay'
<1>1. ASSUME NEW o \in Order, OrderLands(o) PROVE WholeDay'
  BY <1>1 DEF OrderLands, WholeDay
<1>2. CASE DayAges \/ UNCHANGED vars
  BY <1>2, WholeKept DEF DayAges, vars, source, repo, oracle, WholeDay
<1>3. CASE LateCommit
  <2>1. PICK t \in Txn : invoices' = [invoices EXCEPT ![t] = Order]
    BY <1>3 DEF LateCommit, WholeDay
  <2>2. UNCHANGED <<landed, success, queue, run>> /\ orphans' \subseteq orphans
    BY <1>3 DEF LateCommit, source, repo
  <2> QED BY <2>1, <2>2, WholeInvoice DEF TypeInv
<1>4. ASSUME NEW p \in Poster, Abort(p) PROVE WholeDay'
  BY <1>4, WholeExit DEF Abort, source, repo
<1> QED
  BY <1>1, <1>2, <1>3, <1>4, WholePostDay, WholeLook, WholeCreate, WholeSettle, WholeRecord,
     WholeFollowUp, WholeFinish DEF Next, Work

(* On a closed day the invariant holds, in any number of processes and under *)
(* every fault.                                                              *)
LEMMA ClosedDayWhole == ASSUME Closed PROVE Spec => [](TypeInv /\ WholeDay)
<1>1. Init => TypeInv /\ WholeDay
  BY TypeInit, WholeInit
<1>2. TypeInv /\ WholeDay /\ [Next]_vars => (TypeInv /\ WholeDay)'
  BY TypeStep, WholeNext
<1> QED BY <1>1, <1>2, PTL DEF Spec

(* "A sale is never lost": on a closed day an order with a SUCCESS row, which*)
(* no later run looks at, is on the invoice that row names — whatever timed  *)
(* out, died or was recorded in between, and however many processes post.    *)
THEOREM ClosedDayDropsNothing == ASSUME Closed PROVE Spec => []NoSaleDropped
<1>1. TypeInv /\ WholeDay => NoSaleDropped
  <2> SUFFICES ASSUME TypeInv, WholeDay, NEW r \in success
               PROVE  r[2] \in Txn /\ r[1] \in invoices[r[2]]
    BY DEF NoSaleDropped
  <2>1. success \subseteq Order \X Txn
    BY DEF TypeInv, TypeOK
  <2> QED BY <2>1 DEF WholeDay
<1> QED BY <1>1, ClosedDayWhole, PTL

(* Nor is an order of a closed day reported SYNCED with the number of an     *)
(* invoice that does not carry it.                                           *)
THEOREM ClosedDaySyncedIsInvoiced == ASSUME Closed PROVE Spec => []SyncedMeansInvoiced
<1>1. WholeDay => SyncedMeansInvoiced
  BY DEF WholeDay, SyncedMeansInvoiced
<1> QED BY <1>1, ClosedDayWhole, PTL

-----------------------------------------------------------------------------
(* What a document must not meet: its answer lost, or the death of the       *)
(* process before the answer is recorded.                                    *)
AnswersArrive == "doc_timeout" \notin Faults /\ "docreply" \notin AbortAt

(* The row of a number is saved, or the run that sent it is about to save it.*)
RowDue(key) ==
  \/ key \in docRows
  \/ \E p \in Poster : /\ At(p, "docreply")
                       /\ \E d \in run[p].sent : RowKey(d, run[p].txn) = key

NumbersInv ==
  /\ \A e \in documents : e.copy = 1 /\ RowDue(RowKey(e, e.txn))
  /\ NumberedOnce

LEMMA KeyOfCopy ==
  ASSUME NEW d, NEW t, NEW n
  PROVE  RowKey([kind |-> d.kind, tender |-> d.tender, orders |-> d.orders,
                 txn |-> t, copy |-> n], t) = RowKey(d, t)
  BY DEF RowKey

(* The documents a changed run has still to send.                            *)
LEMMA Todos ==
  ASSUME NEW r \in Run, NEW t, NEW d
  PROVE  /\ Awaiting(r, t).todo = r.todo /\ Settling(r).todo = r.todo
         /\ StillUnknown(r).todo = r.todo /\ Holding(r, t).todo = r.todo
         /\ Again(r).todo = r.todo /\ Sent(r, d).todo = r.todo \ {d} /\ Sent(r, d).sent = {d}
         /\ Answered(r).todo = r.todo
         /\ FreshRun(Order).todo = Docs(Order, Order)
         /\ ReuseRun(t, Order).todo = Docs({}, Order) /\ NoRun.todo = {}
  BY DEF Run, NoRun, Awaiting, Settling, StillUnknown, Holding, Again, Sent, Answered,
         FreshRun, ReuseRun

(* A step that sends and records nothing, of a run that awaits no answer.    *)
LEMMA NumbersKept ==
  ASSUME NumbersInv, NEW p \in Poster, ~At(p, "docreply"), UNCHANGED <<documents, docRows>>,
         \A q \in Poster \ {p} : run'[q] = run[q]
  PROVE  NumbersInv'
<1>1. \A key : RowDue(key) => RowDue(key)'
  BY DEF RowDue, At
<1> QED BY <1>1 DEF NumbersInv, NumberedOnce, RowKey

(* Every step before the documents only changes the run's place.             *)
LEMMA Undocumented ==
  ASSUME TypeInv, NEW p \in Poster,
         \/ CheckUncertain(p) \/ Recheck(p) \/ Create(p) \/ Reply(p) \/ Settle(p)
         \/ Record(p) \/ DocSkipped(p) \/ DocRefused(p) \/ FinishRun(p)
  PROVE  /\ ~At(p, "docreply") /\ UNCHANGED <<documents, docRows>>
         /\ \A t \in Txn : invoices[t] # {} => invoices'[t] = invoices[t]
         /\ \A q \in Poster \ {p} : run'[q] = run[q]
         /\ run'[p].todo \subseteq run[p].todo
<1>a. run \in [Poster -> Run] /\ invoices \in [Txn -> SUBSET Order] /\ run[p] \in Run
  BY DEF TypeInv, TypeOK
<1>c. ASSUME NEW d
      PROVE  [run[p] EXCEPT !.todo = run[p].todo \ {d}].todo \subseteq run[p].todo
  BY <1>a DEF Run
<1>d. ASSUME NEW r, Go(p, r)
      PROVE  run'[p] = r /\ \A q \in Poster \ {p} : run'[q] = run[q]
  BY <1>a, <1>d DEF Go
<1>e. Exit(p) => run'[p].todo = {} /\ \A q \in Poster \ {p} : run'[q] = run[q]
  BY <1>a DEF Exit, NoRun
<1>b. ASSUME NEW x, Go(p, [run[p] EXCEPT !.pc = x])
      PROVE  run'[p].todo = run[p].todo /\ \A q \in Poster \ {p} : run'[q] = run[q]
  BY <1>a, <1>b DEF Go, Run
<1>f. ASSUME NEW t, Go(p, Holding(run[p], t))
      PROVE  run'[p].todo = run[p].todo /\ \A q \in Poster \ {p} : run'[q] = run[q]
  BY <1>a, <1>d, <1>f, Todos
<1>1. CASE CheckUncertain(p) \/ Recheck(p)
  <2>1. \/ \E x : Go(p, [run[p] EXCEPT !.pc = x])
        \/ \E t : Go(p, Holding(run[p], t))
    BY <1>1 DEF CheckUncertain, Recheck
  <2>2. ~At(p, "docreply") /\ UNCHANGED <<documents, docRows, invoices>>
    BY <1>1 DEF CheckUncertain, Recheck, At, repo, oracle
  <2> QED BY <1>b, <1>f, <2>1, <2>2
<1>2. CASE Create(p)
  <2> DEFINE s == [run[p] EXCEPT !.swapped = TRUE]
  <2>1. s \in Run /\ s.todo = run[p].todo
    BY <1>a DEF Run
  <2>2. \/ \E t : Go(p, Awaiting(run[p], t))
        \/ Exit(p) \/ Go(p, Again(s)) \/ Go(p, Settling(run[p]))
    BY <1>2 DEF Create, CreateAccepted, CreateRefused, CreateItemRefused, CreateTimedOut,
                NextAttempt
  <2>3. /\ ~At(p, "docreply") /\ UNCHANGED <<documents, docRows>>
        /\ \A t \in Txn : invoices[t] # {} => invoices'[t] = invoices[t]
    BY <1>a, <1>2 DEF Create, CreateAccepted, CreateRefused, CreateItemRefused, CreateTimedOut,
                      Unused, At, repo, oracle
  <2> HIDE DEF s
  <2> QED BY <1>a, <1>d, <1>e, <2>1, <2>2, <2>3, Todos
<1>3. CASE Reply(p) \/ Settle(p)
  <2>1. \/ Exit(p) \/ Go(p, [run[p] EXCEPT !.pc = "persist"]) \/ Go(p, Settling(run[p]))
        \/ \E t : Go(p, Holding(run[p], t))
        \/ Go(p, Again(run[p])) \/ Go(p, StillUnknown(run[p]))
    BY <1>3 DEF Reply, ReplyArrives, ReplyLost, ReplyBlank, Settle, SettleFound, SettleAbsent,
                SettleUnknown, NextAttempt
  <2>2. ~At(p, "docreply") /\ UNCHANGED <<documents, docRows, invoices>>
    BY <1>3 DEF Reply, ReplyArrives, ReplyLost, ReplyBlank, Settle, SettleFound, SettleAbsent,
                SettleUnknown, At, repo, oracle
  <2>3. /\ Settling(run[p]).todo = run[p].todo /\ Again(run[p]).todo = run[p].todo
        /\ StillUnknown(run[p]).todo = run[p].todo
    BY <1>a, Todos
  <2> QED BY <1>b, <1>d, <1>e, <1>f, <2>1, <2>2, <2>3
<1>4. CASE Record(p) \/ FinishRun(p)
  <2>1. Exit(p) \/ \E x : Go(p, [run[p] EXCEPT !.pc = x])
    BY <1>4 DEF Record, MarkUncertain, Persist, ClearUncertain, FinishRun
  <2>2. ~At(p, "docreply") /\ UNCHANGED <<documents, docRows, invoices>>
    BY <1>4 DEF Record, MarkUncertain, Persist, ClearUncertain, FinishRun, At, oracle
  <2> QED BY <1>a, <1>b, <1>d, <1>e, <2>1, <2>2, Todos
<1>5. CASE DocSkipped(p) \/ DocRefused(p)
  <2>1. \E d : Go(p, [run[p] EXCEPT !.todo = run[p].todo \ {d}])
    BY <1>5 DEF DocSkipped, DocRefused
  <2>2. ~At(p, "docreply") /\ UNCHANGED <<documents, docRows, invoices>>
    BY <1>5 DEF DocSkipped, DocRefused, At, repo, oracle
  <2> QED BY <1>a, <1>c, <1>d, <2>1, <2>2
<1> QED BY <1>1, <1>2, <1>3, <1>4, <1>5

(* Oracle accepts a document whose row is not saved.  The one run at work    *)
(* awaits no answer, so no other run owes that row: no such number exists.   *)
LEMMA NumbersAccepted ==
  ASSUME TypeInv, OneRun, NumbersInv, NEW p \in Poster, DocAccepted(p)
  PROVE  /\ NumbersInv'
         /\ \E d \in run[p].todo :
              /\ Go(p, Sent(run[p], d))
              /\ documents' = documents \cup {[kind |-> d.kind, tender |-> d.tender,
                                               orders |-> d.orders, txn |-> run[p].txn,
                                               copy |-> 1]}
<1>a. run \in [Poster -> Run] /\ run[p] \in Run
  BY DEF TypeInv, TypeOK
<1>b. run[p].pc = "docs" /\ \A q \in Poster : q # p => run[q].pc = "idle"
  BY DEF DocAccepted, At, OneRun
<1>c. docRows' = docRows
  BY DEF DocAccepted, repo
<1> DEFINE t == run[p].txn
           held(d, n) == [kind |-> d.kind, tender |-> d.tender, orders |-> d.orders,
                          txn |-> t, copy |-> n]
<1>1. PICK d \in run[p].todo :
        /\ RowKey(d, t) \notin docRows
        /\ documents' = documents \cup {held(d, IF held(d, 1) \in documents THEN 2 ELSE 1)}
        /\ Go(p, Sent(run[p], d))
  BY DEF DocAccepted, NextDocs, AlreadyPosted
<1>2. RowKey(held(d, 1), held(d, 1).txn) = RowKey(d, t) /\ held(d, 1).copy = 1
  BY KeyOfCopy
<1>3. \A e \in documents : e.copy = 1 /\ RowKey(e, e.txn) \in docRows
  BY <1>b DEF NumbersInv, RowDue, At
<1>4. documents' = documents \cup {held(d, 1)}
  BY <1>1, <1>2, <1>3
<1>5. /\ run'[p].pc = "docreply" /\ run'[p].sent = {d} /\ run'[p].txn = t
      /\ \A q \in Poster : q # p => run'[q] = run[q]
  BY <1>1, <1>a, Shapes, Todos DEF Go
<1>6. \A e \in documents' : e = held(d, 1) \/ (e.copy = 1 /\ RowKey(e, e.txn) \in docRows)
  BY <1>3, <1>4
<1>7. ASSUME NEW key, key = RowKey(d, t) \/ key \in docRows PROVE RowDue(key)'
  BY <1>5, <1>c, <1>7 DEF RowDue, At
<1>8. \A e \in documents' : e.copy = 1 /\ RowDue(RowKey(e, e.txn))'
  BY <1>2, <1>6, <1>7
<1>9. ASSUME NEW e \in documents', NEW f \in documents', RowKey(e, e.txn) = RowKey(f, f.txn)
      PROVE  e = f
  <2>1. CASE e = held(d, 1) \/ f = held(d, 1)
    BY <1>1, <1>2, <1>6, <1>9, <2>1
  <2>2. CASE e # held(d, 1) /\ f # held(d, 1)
    BY <1>4, <1>9, <2>2 DEF NumbersInv, NumberedOnce
  <2> QED BY <2>1, <2>2
<1>10. NumbersInv'
  BY <1>8, <1>9 DEF NumbersInv, NumberedOnce, RowKey
<1> QED BY <1>1, <1>4, <1>10

(* The row of the accepted document is saved.                                *)
LEMMA NumbersSaved ==
  ASSUME TypeInv, OneRun, NumbersInv, NEW p \in Poster, DocSaved(p)
  PROVE  NumbersInv'
<1>a. run[p].pc = "docreply" /\ \A q \in Poster : q # p => run[q].pc = "idle"
  BY DEF DocSaved, At, OneRun
<1>1. docRows' = docRows \cup {RowKey(d, run[p].txn) : d \in run[p].sent}
  BY DEF DocSaved
<1>2. ASSUME NEW key, RowDue(key) PROVE key \in docRows'
  BY <1>a, <1>1, <1>2 DEF RowDue, At
<1>3. documents' = documents
  BY DEF DocSaved, oracle
<1> QED BY <1>2, <1>3 DEF NumbersInv, NumberedOnce, RowDue, RowKey

LEMMA NumbersNext ==
  ASSUME AnswersArrive, TypeInv, OneRun, NumbersInv, [Next]_vars
  PROVE  NumbersInv'
<1>1. CASE (\E o \in Order : OrderLands(o)) \/ DayAges \/ LateCommit \/ UNCHANGED vars
  <2>1. UNCHANGED <<run, documents, docRows>>
    BY <1>1 DEF OrderLands, DayAges, LateCommit, vars, repo, oracle
  <2> QED BY <2>1 DEF NumbersInv, NumberedOnce, RowDue, RowKey, At
<1>2. ASSUME NEW p \in Poster, PostDay(p) PROVE NumbersInv'
  <2>1. UNCHANGED <<documents, docRows>> /\ ~At(p, "docreply")
    BY <1>2 DEF PostDay, At, repo
  <2> QED BY <1>2, <2>1, PostDayBegins, NumbersKept
<1>3. ASSUME NEW p \in Poster, Abort(p) PROVE NumbersInv'
  <2>1. ~At(p, "docreply") /\ UNCHANGED <<documents, docRows>>
    BY <1>3 DEF Abort, AnswersArrive, At, repo
  <2>2. \A q \in Poster \ {p} : run'[q] = run[q]
    BY <1>3 DEF Abort, Exit, TypeInv, TypeOK
  <2> QED BY <2>1, <2>2, NumbersKept
<1>4. ASSUME NEW p \in Poster, DocReplyLost(p) PROVE NumbersInv'
  BY <1>4 DEF DocReplyLost, AnswersArrive
<1>5. ASSUME NEW p \in Poster,
             \/ CheckUncertain(p) \/ Recheck(p) \/ Create(p) \/ Reply(p) \/ Settle(p)
             \/ Record(p) \/ DocSkipped(p) \/ DocRefused(p) \/ FinishRun(p)
      PROVE  NumbersInv'
  BY <1>5, Undocumented, NumbersKept
<1> QED BY <1>1, <1>2, <1>3, <1>4, <1>5, NumbersAccepted, NumbersSaved DEF Next, Work, FollowUp

(* "Each object is guarded individually before it is posted": in one process *)
(* whose answers about documents arrive, Oracle never holds two receipts of  *)
(* a method for one transaction, two applications, or two journals: late     *)
(* orders, held orders and orders on two invoices notwithstanding.           *)
THEOREM NumbersOnce == ASSUME SameHost, AnswersArrive PROVE Spec => []NumberedOnce
<1>1. Init => NumbersInv
  BY DEF Init, NumbersInv, NumberedOnce
<1>2. TypeInv /\ OneRun /\ NumbersInv /\ [Next]_vars => NumbersInv'
  BY NumbersNext
<1>3. NumbersInv => NumberedOnce
  BY DEF NumbersInv
<1> QED BY <1>1, <1>2, <1>3, OneRunAlways, PTL DEF Spec

-----------------------------------------------------------------------------
(* A document of a closed day is about every order of its tender, or of the  *)
(* day, and about an invoice of the whole day.                               *)
Proper(d) ==
  IF d.kind = "journal" THEN d.tender = None /\ d.orders = Order
  ELSE d.orders = {o \in Order : TenderOf[o] = d.tender}

DocsWhole ==
  /\ \A e \in documents : Proper(e) /\ invoices[e.txn] = Order
  /\ \A p \in Poster : \A d \in run[p].todo : Proper(d)

LEMMA ProperDocs ==
  ASSUME NEW H, H \in {{}, Order} PROVE \A d \in Docs(H, Order) : Proper(d)
  BY DEF Docs, Proper

(* A step that sends nothing.                                                *)
LEMMA DocsKept ==
  ASSUME DocsWhole, NEW p \in Poster, UNCHANGED documents, documents \subseteq Held,
         \A t \in Txn : invoices[t] = Order => invoices'[t] = Order,
         \A q \in Poster \ {p} : run'[q] = run[q],
         \A d \in run'[p].todo : Proper(d)
  PROVE  DocsWhole'
<1>1. \A e \in documents : e.txn \in Txn
  BY DEF Held
<1> QED BY <1>1 DEF DocsWhole, Proper

LEMMA DocsWork ==
  ASSUME TypeInv, TypeInv', DocsWhole, NEW p \in Poster,
         \/ CheckUncertain(p) \/ Recheck(p) \/ Create(p) \/ Reply(p) \/ Settle(p)
         \/ Record(p) \/ DocSkipped(p) \/ DocRefused(p) \/ FinishRun(p)
  PROVE  DocsWhole'
<1>1. documents \subseteq Held
  BY DEF TypeInv, TypeOK
<1>2. \A t \in Txn : invoices[t] = Order => invoices'[t] = Order
  <2>1. invoices' \in [Txn -> SUBSET Order]
    BY DEF TypeInv, TypeOK
  <2>2. \A t \in Txn : invoices[t] # {} => invoices'[t] = invoices[t]
    BY Undocumented
  <2> QED BY <2>1, <2>2
<1> QED BY <1>1, <1>2, Undocumented, DocsKept DEF DocsWhole

LEMMA DocsPostDay ==
  ASSUME Closed, TypeInv, WholeDay, DocsWhole, NEW p \in Poster, PostDay(p)
  PROVE  DocsWhole'
<1>a. run \in [Poster -> Run] /\ documents \subseteq Held
  BY DEF TypeInv, TypeOK
<1>b. UNCHANGED <<documents, invoices>>
  BY DEF PostDay
<1>1. \/ run' = [run EXCEPT ![p] = FreshRun(Order)]
      \/ \E t : run' = [run EXCEPT ![p] = ReuseRun(t, Order)]
  <2>1. landed = Order /\ Holdable = {} /\ Posted \in {{}, Order}
    BY DEF WholeDay, Closed
  <2>2. PICK held \in SUBSET (Holdable \cap landed) :
          \/ /\ (landed \ held) \ Posted # {}
             /\ run' = [run EXCEPT ![p] = FreshRun((landed \ held) \ Posted)]
          \/ \E r \in success : run' = [run EXCEPT ![p] = ReuseRun(r[2], landed)]
    BY DEF PostDay
  <2>3. (landed \ held) \ Posted \in {{}, Order}
    BY <2>1
  <2> QED BY <2>1, <2>2, <2>3
<1>2. \A d \in run'[p].todo : Proper(d)
  <2>1. (\A d \in Docs(Order, Order) : Proper(d)) /\ \A d \in Docs({}, Order) : Proper(d)
    BY ProperDocs
  <2>2. /\ FreshRun(Order).todo = Docs(Order, Order)
        /\ \A t : ReuseRun(t, Order).todo = Docs({}, Order)
    BY <1>a, Todos
  <2>3. run'[p] = FreshRun(Order) \/ \E t : run'[p] = ReuseRun(t, Order)
    BY <1>1, <1>a
  <2> QED BY <2>1, <2>2, <2>3
<1>3. \A q \in Poster \ {p} : run'[q] = run[q]
  BY <1>1, <1>a
<1> QED BY <1>a, <1>b, <1>2, <1>3, DocsKept

(* The document Oracle accepts is about the invoice of the run.              *)
LEMMA DocsAccepted ==
  ASSUME TypeInv, OneRun, NumbersInv, WholeDay, DocsWhole, NEW p \in Poster, DocAccepted(p)
  PROVE  DocsWhole'
<1>a. run \in [Poster -> Run] /\ run[p] \in Run
  BY DEF TypeInv, TypeOK
<1>b. run[p].pc = "docs" /\ UNCHANGED invoices
  BY DEF DocAccepted, At
<1> DEFINE held(d) == [kind |-> d.kind, tender |-> d.tender, orders |-> d.orders,
                       txn |-> run[p].txn, copy |-> 1]
<1>1. PICK d \in run[p].todo :
        Go(p, Sent(run[p], d)) /\ documents' = documents \cup {held(d)}
  BY NumbersAccepted
<1>2. invoices[run[p].txn] = Order
  BY <1>b DEF WholeDay, WholeRun, HasInvoice
<1>3. Proper(held(d)) /\ held(d).txn = run[p].txn
  BY DEF DocsWhole, Proper
<1>4. run'[p].todo = run[p].todo \ {d} /\ \A q \in Poster : q # p => run'[q] = run[q]
  BY <1>1, <1>a, Todos DEF Go
<1>5. \A e \in documents' : Proper(e) /\ invoices'[e.txn] = Order
  BY <1>1, <1>b, <1>2, <1>3 DEF DocsWhole
<1>6. \A q \in Poster : \A x \in run'[q].todo : Proper(x)
  BY <1>4 DEF DocsWhole
<1> QED BY <1>5, <1>6 DEF DocsWhole, Proper

LEMMA DocsNext ==
  ASSUME Closed, TypeInv, TypeInv', NothingExposed, NumbersInv, WholeDay, DocsWhole, [Next]_vars
  PROVE  DocsWhole'
<1>a. run \in [Poster -> Run] /\ documents \subseteq Held /\ \A p \in Poster : run[p] \in Run
  BY DEF TypeInv, TypeOK
<1>1. CASE (\E o \in Order : OrderLands(o)) \/ DayAges \/ UNCHANGED vars
  <2>1. UNCHANGED <<run, documents, invoices>>
    BY <1>1 DEF OrderLands, DayAges, vars, oracle
  <2> QED BY <2>1 DEF DocsWhole, Proper
<1>2. CASE LateCommit
  BY <1>2 DEF LateCommit, NothingExposed
<1>3. ASSUME NEW p \in Poster, Abort(p) PROVE DocsWhole'
  <2>1. run'[p].todo = {} /\ \A q \in Poster \ {p} : run'[q] = run[q]
    BY <1>3, <1>a DEF Abort, Exit, NoRun
  <2>2. UNCHANGED <<documents, invoices>>
    BY <1>3 DEF Abort
  <2> QED BY <1>a, <2>1, <2>2, DocsKept
<1>4. ASSUME NEW p \in Poster, DocSaved(p) \/ DocReplyLost(p) PROVE DocsWhole'
  <2>1. run'[p].todo = run[p].todo /\ \A q \in Poster \ {p} : run'[q] = run[q]
    BY <1>4, <1>a, Todos DEF DocSaved, DocReplyLost, Go
  <2>2. UNCHANGED <<documents, invoices>>
    BY <1>4 DEF DocSaved, DocReplyLost, oracle
  <2> QED BY <1>a, <2>1, <2>2, DocsKept DEF DocsWhole
<1>5. ASSUME NEW p \in Poster, DocAccepted(p) PROVE DocsWhole'
  BY <1>5, DocsAccepted DEF NothingExposed
<1> QED BY <1>1, <1>2, <1>3, <1>4, <1>5, DocsWork, DocsPostDay DEF Next, Work, FollowUp

(* Documents about one order, of one kind, are one.                          *)
LEMMA OnceMeansNoDouble ==
  ASSUME TypeInv, InvoicedOnce, NumbersInv, DocsWhole PROVE NoDoubleDocument
<1> SUFFICES ASSUME NEW d \in documents, NEW e \in documents, d.kind = e.kind, d # e,
                    NEW o \in d.orders, o \in e.orders
             PROVE  FALSE
  BY DEF NoDoubleDocument
<1>1. d \in Held /\ e \in Held
  BY DEF TypeInv, TypeOK
<1>2. d.orders \subseteq Order /\ o \in Order
  BY <1>1 DEF Held
<1>3. d.txn = e.txn
  BY <1>1, <1>2 DEF Held, DocsWhole, InvoicedOnce
<1>4. Proper(d) /\ Proper(e)
  BY DEF DocsWhole
<1>5. d.kind # "journal" => d.tender = e.tender
  BY <1>2, <1>4 DEF Proper
<1>6. RowKey(d, d.txn) = RowKey(e, e.txn)
  BY <1>3, <1>5 DEF RowKey
<1> QED BY <1>6 DEF NumbersInv, NumberedOnce

(* On a closed day of a sheltered system, whose answers about documents      *)
(* arrive, no receipt, application or journal is sent twice for an order, on *)
(* any number of re-runs: two tenders may even share a receipt number.  With *)
(* an order that lands late this fails: a run that rebuilds the documents of *)
(* the first invoice sums the orders of the second one too.                  *)
THEOREM ClosedDayDocumentsOnce ==
  ASSUME Sheltered, Closed, AnswersArrive PROVE Spec => []NoDoubleDocument
<1>1. Init => NumbersInv /\ DocsWhole
  BY Todos, NoRunSound DEF Init, NumbersInv, NumberedOnce, DocsWhole, SoundRun, NoRun
<1>2. TypeInv /\ TypeInv' /\ NothingExposed /\ WholeDay /\ NumbersInv /\ DocsWhole /\ [Next]_vars
        => (NumbersInv /\ DocsWhole)'
  BY NumbersNext, DocsNext DEF NothingExposed
<1>3. TypeInv /\ InvoicedOnce /\ NumbersInv /\ DocsWhole => NoDoubleDocument
  BY OnceMeansNoDouble
<1> QED
  BY <1>1, <1>2, <1>3, ShelteredInvariant, NeverInvoicedTwice, ClosedDayWhole, PTL DEF Spec
=============================================================================

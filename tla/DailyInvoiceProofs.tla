------------------------- MODULE DailyInvoiceProofs -------------------------
(***************************************************************************)
(* Theorems about DailyInvoice, for every value of its constants: type     *)
(* correctness; that an order is on two invoices only if it was exposed,   *)
(* whatever fails and however many processes post; and that a sheltered    *)
(* system, which exposes none, never invoices an order twice.              *)
(***************************************************************************)
EXTENDS DailyInvoice, TLAPS

(* The runs the type invariant allows: well-shaped, a transaction number     *)
(* where one is needed, a look left while settling.                          *)
SoundRun ==
  {r \in Run :
     /\ r.pc \in {"reply", "persist", "clear", "docs", "docreply"} => r.txn \in Txn
     /\ r.pc = "settle" => r.looks < Looks}

TypeInv == TypeOK /\ TxnKnown

(* The runs of a typed state are sound ones.                                 *)
LEMMA SoundRuns == TypeInv <=> TypeOK /\ run \in [Poster -> SoundRun]
  BY DEF TypeInv, TypeOK, TxnKnown, SoundRun, At

(* The documents of a run are documents of its orders.                       *)
LEMMA DocsTyped ==
  ASSUME NEW H \in SUBSET Order, NEW P \in SUBSET Order
  PROVE  Docs(H, P) \subseteq Document
  BY ConstantsOK DEF Docs, Document, RetailKinds, Tender, AllKinds

LEMMA RowKeyTyped ==
  ASSUME NEW d \in Document, NEW t \in Txn
  PROVE  RowKey(d, t) \in AllKinds \X (Method \cup {None}) \X Txn
  BY ConstantsOK DEF RowKey, Document, RetailKinds, AllKinds, Method

-----------------------------------------------------------------------------
(* What each change of a run makes of it.                                    *)
LEMMA NoRunSound == NoRun \in SoundRun /\ NoRun.pc = "idle" /\ NoRun.header = {}
  BY ConstantsOK DEF NoRun, SoundRun, Run, Points

LEMMA FreshRunSound ==
  ASSUME NEW S \in SUBSET Order
  PROVE  FreshRun(S) \in SoundRun /\ FreshRun(S).pc = "check" /\ FreshRun(S).header = S
<1>1. NoRun \in Run /\ Docs(S, S) \in SUBSET Document /\ "check" \in Points
  BY NoRunSound, DocsTyped DEF SoundRun, Points
<1>2. FreshRun(S) \in Run /\ FreshRun(S).pc = "check" /\ FreshRun(S).header = S
  BY <1>1 DEF FreshRun, Run
<1> QED BY <1>2 DEF SoundRun

LEMMA ReuseRunSound ==
  ASSUME NEW S \in SUBSET Order, NEW t \in Txn
  PROVE  ReuseRun(t, S) \in SoundRun /\ ReuseRun(t, S).pc = "docs" /\ ReuseRun(t, S).header = {}
<1>1. /\ NoRun \in Run /\ NoRun.header = {} /\ "docs" \in Points
      /\ Docs({}, S) \in SUBSET Document
  BY NoRunSound, DocsTyped DEF SoundRun, Points
<1>2. /\ ReuseRun(t, S) \in Run /\ ReuseRun(t, S).pc = "docs" /\ ReuseRun(t, S).txn = t
      /\ ReuseRun(t, S).header = {}
  BY <1>1 DEF ReuseRun, Run
<1> QED BY <1>2 DEF SoundRun

LEMMA AwaitingSound ==
  ASSUME NEW r \in SoundRun, NEW t \in Txn
  PROVE  /\ Awaiting(r, t) \in SoundRun
         /\ Awaiting(r, t).pc = "reply" /\ Awaiting(r, t).header = r.header
<1>1. /\ Awaiting(r, t) \in Run /\ Awaiting(r, t).txn = t
      /\ Awaiting(r, t).pc = "reply" /\ Awaiting(r, t).header = r.header
  BY DEF SoundRun, Run, Awaiting, Points
<1> QED BY <1>1 DEF SoundRun

LEMMA HoldingSound ==
  ASSUME NEW r \in SoundRun, NEW t \in Txn
  PROVE  /\ Holding(r, t) \in SoundRun
         /\ Holding(r, t).pc = "persist" /\ Holding(r, t).header = r.header
<1>1. /\ Holding(r, t) \in Run /\ Holding(r, t).txn = t
      /\ Holding(r, t).pc = "persist" /\ Holding(r, t).header = r.header
  BY DEF SoundRun, Run, Holding, Points
<1> QED BY <1>1 DEF SoundRun

LEMMA SettlingSound ==
  ASSUME NEW r \in SoundRun
  PROVE  /\ Settling(r) \in SoundRun
         /\ Settling(r).pc = "settle" /\ Settling(r).header = r.header
<1>1. 0 \in 0..Looks /\ 0 < Looks /\ "settle" \in Points /\ r \in Run
  BY ConstantsOK DEF Points, SoundRun
<1>2. /\ Settling(r) \in Run /\ Settling(r).looks = 0
      /\ Settling(r).pc = "settle" /\ Settling(r).header = r.header
  BY <1>1 DEF Run, Settling
<1> QED BY <1>1, <1>2 DEF SoundRun

LEMMA StillUnknownSound ==
  ASSUME NEW r \in SoundRun, r.pc = "settle"
  PROVE  /\ StillUnknown(r) \in SoundRun
         /\ StillUnknown(r).pc \in {"settle", "mark"} /\ StillUnknown(r).header = r.header
<1> DEFINE n == r.looks + 1
           x == IF n < Looks THEN "settle" ELSE "mark"
<1>1. n \in 0..Looks
  BY ConstantsOK DEF SoundRun, Run
<1>2. x \in Points /\ x \in {"settle", "mark"} /\ (x = "settle" => n < Looks) /\ r \in Run
  BY DEF Points, SoundRun
<1>3. StillUnknown(r) = [r EXCEPT !.pc = x, !.looks = n]
  BY DEF StillUnknown
<1> HIDE DEF n, x
<1>4. /\ StillUnknown(r) \in Run /\ StillUnknown(r).looks = n
      /\ StillUnknown(r).pc = x /\ StillUnknown(r).header = r.header
  BY <1>1, <1>2, <1>3 DEF Run
<1> QED BY <1>2, <1>4 DEF SoundRun

LEMMA AgainSound ==
  ASSUME NEW r \in SoundRun, r.tries < Attempts
  PROVE  Again(r) \in SoundRun /\ Again(r).pc = "create" /\ Again(r).header = r.header
<1>1. r.tries + 1 \in 1..Attempts
  BY ConstantsOK DEF SoundRun, Run
<1>2. Again(r) \in Run /\ Again(r).pc = "create" /\ Again(r).header = r.header
  BY <1>1 DEF Again, SoundRun, Run, Points
<1> QED BY <1>2 DEF SoundRun

LEMMA SentSound ==
  ASSUME NEW r \in SoundRun, r.pc = "docs", NEW d \in r.todo
  PROVE  /\ Sent(r, d) \in SoundRun
         /\ Sent(r, d).pc = "docreply" /\ Sent(r, d).header = r.header
<1> DEFINE T == r.todo \ {d}
           S == {d}
<1>1. /\ T \in SUBSET Document /\ S \in SUBSET Document /\ r.txn \in Txn
      /\ "docreply" \in Points /\ r \in Run
  BY DEF SoundRun, Run, Points
<1>2. Sent(r, d) = [r EXCEPT !.pc = "docreply", !.todo = T, !.sent = S]
  BY DEF Sent
<1> HIDE DEF T, S
<1>3. /\ Sent(r, d) \in Run /\ Sent(r, d).txn = r.txn
      /\ Sent(r, d).pc = "docreply" /\ Sent(r, d).header = r.header
  BY <1>1, <1>2 DEF Run
<1> QED BY <1>1, <1>3 DEF SoundRun

LEMMA AnsweredSound ==
  ASSUME NEW r \in SoundRun, r.pc = "docreply"
  PROVE  Answered(r) \in SoundRun /\ Answered(r).pc = "docs" /\ Answered(r).header = r.header
<1>1. {} \in SUBSET Document /\ r.txn \in Txn /\ "docs" \in Points /\ r \in Run
  BY DEF SoundRun, Points
<1>2. /\ Answered(r) \in Run /\ Answered(r).txn = r.txn
      /\ Answered(r).pc = "docs" /\ Answered(r).header = r.header
  BY <1>1 DEF Run, Answered
<1> QED BY <1>1, <1>2 DEF SoundRun

(* The changes of one field.                                                 *)
LEMMA MoveSound ==
  ASSUME NEW r \in SoundRun, NEW x \in Points,
         x # "settle", x \in {"reply", "persist", "clear", "docs", "docreply"} => r.txn \in Txn
  PROVE  LET s == [r EXCEPT !.pc = x] IN s \in SoundRun /\ s.pc = x /\ s.header = r.header
  BY DEF SoundRun, Run

LEMMA SwapSound ==
  ASSUME NEW r \in SoundRun
  PROVE  LET s == [r EXCEPT !.swapped = TRUE]
         IN  s \in SoundRun /\ s.tries = r.tries /\ s.header = r.header
  BY DEF SoundRun, Run

LEMMA TodoSound ==
  ASSUME NEW r \in SoundRun, NEW d
  PROVE  LET s == [r EXCEPT !.todo = r.todo \ {d}]
         IN  s \in SoundRun /\ s.pc = r.pc /\ s.header = r.header
  BY DEF SoundRun, Run

-----------------------------------------------------------------------------
(* A step that replaces one run by a sound one keeps all runs sound.         *)
LEMMA GoSound ==
  ASSUME NEW p \in Poster, NEW r \in SoundRun, run \in [Poster -> SoundRun], Go(p, r)
  PROVE  /\ run' \in [Poster -> SoundRun] /\ inFlight' = inFlight
         /\ run'[p] = r /\ \A q \in Poster \ {p} : run'[q] = run[q]
  BY DEF Go

(* So does the end of a run, which also gives the lock back.                 *)
LEMMA ExitSound ==
  ASSUME NEW p \in Poster, run \in [Poster -> SoundRun], inFlight \subseteq Host, Exit(p)
  PROVE  /\ run' \in [Poster -> SoundRun] /\ inFlight' \subseteq Host
         /\ run'[p] = NoRun /\ \A q \in Poster \ {p} : run'[q] = run[q]
         /\ inFlight' = inFlight \ {HostOf[p]}
  BY NoRunSound DEF Exit

(* A repeated create attempt either stays within Attempts or ends the run.   *)
LEMMA NextAttemptSound ==
  ASSUME NEW p \in Poster, NEW r \in SoundRun, run \in [Poster -> SoundRun],
         inFlight \subseteq Host, NextAttempt(p, r)
  PROVE  /\ run' \in [Poster -> SoundRun] /\ inFlight' \subseteq Host
         /\ \/ /\ run'[p].pc = "create" /\ run'[p].header = r.header /\ inFlight' = inFlight
               /\ \A q \in Poster \ {p} : run'[q] = run[q]
            \/ Exit(p)
<1>1. CASE r.tries < Attempts
  <2>1. Go(p, Again(r))
    BY <1>1 DEF NextAttempt
  <2> QED BY <1>1, <2>1, AgainSound, GoSound
<1>2. CASE ~ (r.tries < Attempts)
  <2>1. Exit(p)
    BY <1>2 DEF NextAttempt
  <2> QED BY <2>1, ExitSound
<1> QED BY <1>1, <1>2

(* PostDay begins a run over fresh orders or around a recorded invoice.      *)
LEMMA PostDayBegins ==
  ASSUME NEW p \in Poster, TypeInv, PostDay(p)
  PROVE  /\ run' \in [Poster -> SoundRun]
         /\ \A q \in Poster \ {p} : run'[q] = run[q]
         /\ inFlight' = inFlight \cup {HostOf[p]}
         /\ \/ /\ run'[p].pc = "check" /\ run'[p].header \cap Posted = {}
               /\ run'[p].header \subseteq landed
               /\ exposed' = exposed \cup (run'[p].header \cap Claimed)
            \/ run'[p].pc = "docs" /\ run'[p].header = {} /\ exposed' = exposed
<1>1. TypeOK /\ run \in [Poster -> SoundRun]
  BY SoundRuns
<1>2. PICK held \in SUBSET (Holdable \cap landed) :
        \/ /\ run' = [run EXCEPT ![p] = FreshRun((landed \ held) \ Posted)]
           /\ exposed' = exposed \cup (((landed \ held) \ Posted) \cap Claimed)
        \/ /\ \E r \in success : run' = [run EXCEPT ![p] = ReuseRun(r[2], landed)]
           /\ exposed' = exposed
  BY DEF PostDay
<1> DEFINE fresh == (landed \ held) \ Posted
<1>3. CASE /\ run' = [run EXCEPT ![p] = FreshRun(fresh)]
           /\ exposed' = exposed \cup (fresh \cap Claimed)
  <2>1. fresh \in SUBSET Order /\ fresh \cap Posted = {} /\ fresh \subseteq landed
    BY <1>1 DEF TypeOK
  <2> HIDE DEF fresh
  <2>2. /\ FreshRun(fresh) \in SoundRun /\ FreshRun(fresh).pc = "check"
        /\ FreshRun(fresh).header = fresh
    BY <2>1, FreshRunSound
  <2>3. inFlight' = inFlight \cup {HostOf[p]}
    BY DEF PostDay
  <2> QED BY <1>1, <1>3, <2>1, <2>2, <2>3
<1>4. CASE /\ \E r \in success : run' = [run EXCEPT ![p] = ReuseRun(r[2], landed)]
           /\ exposed' = exposed
  <2>1. PICK t \in Txn : run' = [run EXCEPT ![p] = ReuseRun(t, landed)]
    BY <1>1, <1>4 DEF TypeOK
  <2>2. /\ ReuseRun(t, landed) \in SoundRun /\ ReuseRun(t, landed).pc = "docs"
        /\ ReuseRun(t, landed).header = {}
    BY <1>1, ReuseRunSound DEF TypeOK
  <2>3. inFlight' = inFlight \cup {HostOf[p]}
    BY DEF PostDay
  <2> QED BY <1>1, <1>4, <2>1, <2>2, <2>3
<1> QED BY <1>2, <1>3, <1>4

-----------------------------------------------------------------------------
(* Type correctness.  Every action replaces at most one run; <1>b reduces    *)
(* the invariant to the runs, the tables and Oracle.                         *)
LEMMA TypeInit == Init => TypeInv
<1> SUFFICES ASSUME Init PROVE TypeInv
  OBVIOUS
<1>1. run \in [Poster -> SoundRun]
  BY NoRunSound DEF Init
<1>2. TypeOK
  <2>1. NoRun \in Run
    BY NoRunSound DEF SoundRun
  <2> QED BY <2>1, ConstantsOK DEF Init, TypeOK
<1> QED BY <1>1, <1>2, SoundRuns

LEMMA TypeStep == TypeInv /\ [Next]_vars => TypeInv'
<1> SUFFICES ASSUME TypeInv, [Next]_vars PROVE TypeInv'
  OBVIOUS
<1>a. TypeOK /\ run \in [Poster -> SoundRun] /\ inFlight \subseteq Host
  BY SoundRuns DEF TypeOK
<1>b. ASSUME run' \in [Poster -> SoundRun], inFlight' \subseteq Host,
             landed' \subseteq Order, recent' \in BOOLEAN,
             covered' \in BOOLEAN, success' \subseteq Order \X Txn,
             uncertain' \subseteq Order,
             docRows' \subseteq AllKinds \X (Method \cup {None}) \X Txn,
             queue' \in [Order -> Txn \cup {None}], invoices' \in [Txn -> SUBSET Order],
             documents' \subseteq Held, orphans' \subseteq SUBSET Order,
             exposed' \subseteq Order, budget' \in 0..MaxFaults
      PROVE  TypeInv'
  <2>1. run' \in [Poster -> Run]
    BY <1>b DEF SoundRun
  <2>2. TypeOK'
    BY <1>b, <2>1 DEF TypeOK
  <2> QED BY <1>b, <2>2 DEF TypeInv, TxnKnown, SoundRun, At
<1>c. Fault => budget' \in 0..MaxFaults
  BY <1>a, ConstantsOK DEF Fault, TypeOK
<1>d. ASSUME NEW p \in Poster, Forget(p) PROVE exposed' \subseteq Order
  <2>1. run[p].header \subseteq Order /\ exposed \subseteq Order
    BY <1>a DEF SoundRun, Run, TypeOK
  <2> QED BY <1>d, <2>1 DEF Forget, Unrecorded
<1>1. ASSUME NEW o \in Order, OrderLands(o) PROVE TypeInv'
  BY <1>1, <1>a, <1>b DEF OrderLands, TypeOK, repo, oracle
<1>2. CASE DayAges
  BY <1>2, <1>a, <1>b DEF DayAges, TypeOK, repo, oracle
<1>3. CASE LateCommit
  BY <1>3, <1>a, <1>b DEF LateCommit, TypeOK, source, repo
<1>4. ASSUME NEW p \in Poster, PostDay(p) PROVE TypeInv'
  <2>1. run' \in [Poster -> SoundRun] /\ inFlight' \subseteq Host
    BY <1>4, <1>a, PostDayBegins, ConstantsOK DEF Host
  <2>2. exposed' \subseteq Order
    BY <1>4, <1>a DEF PostDay, TypeOK
  <2> QED BY <1>4, <2>1, <2>2, <1>a, <1>b, <1>c DEF PostDay, TypeOK, source, repo
<1>5. ASSUME NEW p \in Poster, CheckUncertain(p) PROVE TypeInv'
  <2>1. [run[p] EXCEPT !.pc = IF uncertain \cap run[p].header # {} THEN "recheck" ELSE "create"]
         \in SoundRun
    BY <1>5, <1>a DEF SoundRun, Run, Points
  <2>2. run' \in [Poster -> SoundRun] /\ inFlight' = inFlight
    BY <1>5, <2>1, <1>a, GoSound DEF CheckUncertain
  <2> QED BY <1>5, <2>1, <2>2, <1>a, <1>b, <1>c DEF CheckUncertain, TypeOK, source, repo, oracle
<1>6. ASSUME NEW p \in Poster, Recheck(p) PROVE TypeInv'
  <2>1. \/ \E t \in Txn : Go(p, Holding(run[p], t))
       \/ Go(p, [run[p] EXCEPT !.pc = "create"])
       \/ Go(p, [run[p] EXCEPT !.pc = "mark"])
    BY <1>6, <1>a DEF Recheck, Matching
  <2>2. /\ [run[p] EXCEPT !.pc = "create"] \in SoundRun
       /\ [run[p] EXCEPT !.pc = "mark"] \in SoundRun
    BY <1>6, <1>a DEF SoundRun, Run, Points
  <2>3. run' \in [Poster -> SoundRun] /\ inFlight' = inFlight
    BY <1>6, <2>1, <2>2, <1>a, HoldingSound, GoSound
  <2> QED BY <1>6, <2>1, <2>2, <2>3, <1>a, <1>b, <1>c DEF Recheck, TypeOK, source, repo, oracle
<1>7. ASSUME NEW p \in Poster, CreateAccepted(p) PROVE TypeInv'
  <2>1. \E t \in Txn : /\ invoices' = [invoices EXCEPT ![t] = run[p].header]
                       /\ Go(p, Awaiting(run[p], t))
    BY <1>7, <1>a DEF CreateAccepted
  <2>2. run' \in [Poster -> SoundRun] /\ inFlight' = inFlight
    BY <1>7, <2>1, <1>a, AwaitingSound, GoSound
  <2>3. run[p].header \in SUBSET Order
    BY <1>7, <1>a DEF SoundRun, Run
  <2> QED BY <1>7, <2>1, <2>2, <2>3, <1>a, <1>b, <1>c DEF CreateAccepted, TypeOK, source, repo
<1>8. ASSUME NEW p \in Poster, CreateRefused(p) PROVE TypeInv'
  <2>1. run' \in [Poster -> SoundRun] /\ inFlight' \subseteq Host
    BY <1>8, <1>a, ExitSound DEF CreateRefused
  <2> QED BY <1>8, <2>1, <1>a, <1>b, <1>c DEF CreateRefused, TypeOK, source, repo, oracle
<1>9. ASSUME NEW p \in Poster, CreateItemRefused(p) PROVE TypeInv'
  <2>1. [run[p] EXCEPT !.swapped = TRUE] \in SoundRun
    BY <1>9, <1>a DEF SoundRun, Run
  <2>2. run' \in [Poster -> SoundRun] /\ inFlight' \subseteq Host
    BY <1>9, <2>1, <1>a, NextAttemptSound DEF CreateItemRefused
  <2> QED BY <1>9, <2>1, <2>2, <1>a, <1>b, <1>c DEF CreateItemRefused, TypeOK, source, repo, oracle
<1>10. ASSUME NEW p \in Poster, CreateTimedOut(p) PROVE TypeInv'
  <2>1. run' \in [Poster -> SoundRun] /\ inFlight' = inFlight
    BY <1>10, <1>a, SettlingSound, GoSound DEF CreateTimedOut
  <2>2. run[p].header \in SUBSET Order
    BY <1>10, <1>a DEF SoundRun, Run
  <2> QED BY <1>10, <2>1, <2>2, <1>a, <1>b, <1>c DEF CreateTimedOut, TypeOK, source, repo
<1>11. ASSUME NEW p \in Poster, ReplyArrives(p) PROVE TypeInv'
  <2>1. [run[p] EXCEPT !.pc = "persist"] \in SoundRun
    BY <1>11, <1>a DEF ReplyArrives, At, SoundRun, Run, Points
  <2>2. run' \in [Poster -> SoundRun] /\ inFlight' = inFlight
    BY <1>11, <2>1, <1>a, GoSound DEF ReplyArrives
  <2> QED BY <1>11, <2>1, <2>2, <1>a, <1>b, <1>c DEF ReplyArrives, TypeOK, source, repo, oracle
<1>12. ASSUME NEW p \in Poster, ReplyLost(p) PROVE TypeInv'
  <2>1. run' \in [Poster -> SoundRun] /\ inFlight' = inFlight
    BY <1>12, <1>a, SettlingSound, GoSound DEF ReplyLost
  <2> QED BY <1>12, <2>1, <1>a, <1>b, <1>c DEF ReplyLost, TypeOK, source, repo, oracle
<1>13. ASSUME NEW p \in Poster, ReplyBlank(p) PROVE TypeInv'
  <2>1. run' \in [Poster -> SoundRun] /\ inFlight' \subseteq Host
    BY <1>13, <1>a, ExitSound DEF ReplyBlank
  <2> QED BY <1>13, <2>1, <1>a, <1>b, <1>c, <1>d DEF ReplyBlank, TypeOK, source, repo
<1>14. ASSUME NEW p \in Poster, SettleFound(p) PROVE TypeInv'
  <2>1. \E t \in Txn : Go(p, Holding(run[p], t))
    BY <1>14, <1>a DEF SettleFound, Matching
  <2>2. run' \in [Poster -> SoundRun] /\ inFlight' = inFlight
    BY <1>14, <2>1, <1>a, HoldingSound, GoSound
  <2> QED BY <1>14, <2>1, <2>2, <1>a, <1>b, <1>c DEF SettleFound, TypeOK, source, repo, oracle
<1>15. ASSUME NEW p \in Poster, SettleAbsent(p) PROVE TypeInv'
  <2>1. run' \in [Poster -> SoundRun] /\ inFlight' \subseteq Host
    BY <1>15, <1>a, NextAttemptSound DEF SettleAbsent
  <2> QED BY <1>15, <2>1, <1>a, <1>b, <1>c DEF SettleAbsent, TypeOK, source, repo, oracle
<1>16. ASSUME NEW p \in Poster, SettleUnknown(p) PROVE TypeInv'
  <2>1. run' \in [Poster -> SoundRun] /\ inFlight' = inFlight
    BY <1>16, <1>a, StillUnknownSound, GoSound DEF SettleUnknown, At
  <2> QED BY <1>16, <2>1, <1>a, <1>b, <1>c DEF SettleUnknown, TypeOK, source, repo, oracle
<1>17. ASSUME NEW p \in Poster, MarkUncertain(p) PROVE TypeInv'
  <2>1. run' \in [Poster -> SoundRun] /\ inFlight' \subseteq Host
    BY <1>17, <1>a, ExitSound DEF MarkUncertain
  <2>2. run[p].header \in SUBSET Order
    BY <1>17, <1>a DEF SoundRun, Run
  <2> QED BY <1>17, <2>1, <2>2, <1>a, <1>b, <1>c, <1>d DEF MarkUncertain, TypeOK, source
<1>18. ASSUME NEW p \in Poster, Persist(p) PROVE TypeInv'
  <2>1. [run[p] EXCEPT !.pc = "clear"] \in SoundRun
    BY <1>18, <1>a DEF Persist, At, SoundRun, Run, Points
  <2>2. run' \in [Poster -> SoundRun] /\ inFlight' = inFlight
    BY <1>18, <2>1, <1>a, GoSound DEF Persist
  <2>3. run[p].header \X {run[p].txn} \subseteq Order \X Txn
    BY <1>18, <1>a DEF Persist, At, SoundRun, Run
  <2> QED BY <1>18, <2>1, <2>2, <2>3, <1>a, <1>b, <1>c DEF Persist, TypeOK, source, oracle
<1>19. ASSUME NEW p \in Poster, ClearUncertain(p) PROVE TypeInv'
  <2>1. [run[p] EXCEPT !.pc = "docs"] \in SoundRun
    BY <1>19, <1>a DEF ClearUncertain, At, SoundRun, Run, Points
  <2>2. run' \in [Poster -> SoundRun] /\ inFlight' = inFlight
    BY <1>19, <2>1, <1>a, GoSound DEF ClearUncertain
  <2> QED BY <1>19, <2>1, <2>2, <1>a, <1>b, <1>c DEF ClearUncertain, TypeOK, source, oracle
<1>20. ASSUME NEW p \in Poster, DocSkipped(p) PROVE TypeInv'
  <2>1. \E d : Go(p, [run[p] EXCEPT !.todo = run[p].todo \ {d}])
    BY <1>20, <1>a DEF DocSkipped
  <2>2. \A d : [run[p] EXCEPT !.todo = run[p].todo \ {d}] \in SoundRun
    BY <1>20, <1>a DEF SoundRun, Run
  <2>3. run' \in [Poster -> SoundRun] /\ inFlight' = inFlight
    BY <1>20, <2>1, <2>2, <1>a, GoSound
  <2> QED BY <1>20, <2>1, <2>2, <2>3, <1>a, <1>b, <1>c DEF DocSkipped, TypeOK, source, repo, oracle
<1>21. ASSUME NEW p \in Poster, DocAccepted(p) PROVE TypeInv'
  <2>1. \E d \in run[p].todo, n \in 1..2 :
         /\ documents' = documents \cup
              {[kind |-> d.kind, tender |-> d.tender, orders |-> d.orders,
                txn |-> run[p].txn, copy |-> n]}
         /\ Go(p, Sent(run[p], d))
    BY <1>21, <1>a DEF DocAccepted, NextDocs
  <2>2. run' \in [Poster -> SoundRun] /\ inFlight' = inFlight
    BY <1>21, <2>1, <1>a, SentSound, GoSound DEF DocAccepted, At
  <2>3. \A d \in run[p].todo, n \in 1..2 :
         [kind |-> d.kind, tender |-> d.tender, orders |-> d.orders,
          txn |-> run[p].txn, copy |-> n] \in Held
    BY <1>21, <1>a DEF DocAccepted, At, SoundRun, Run, Document, RetailKinds, AllKinds, Held
  <2>4. documents' \subseteq Held
    BY <1>21, <2>1, <2>3, <1>a DEF TypeOK
  <2> QED BY <1>21, <2>1, <2>2, <2>3, <2>4, <1>a, <1>b, <1>c DEF DocAccepted, TypeOK, source, repo
<1>22. ASSUME NEW p \in Poster, DocRefused(p) PROVE TypeInv'
  <2>1. \E d : Go(p, [run[p] EXCEPT !.todo = run[p].todo \ {d}])
    BY <1>22, <1>a DEF DocRefused
  <2>2. \A d : [run[p] EXCEPT !.todo = run[p].todo \ {d}] \in SoundRun
    BY <1>22, <1>a DEF SoundRun, Run
  <2>3. run' \in [Poster -> SoundRun] /\ inFlight' = inFlight
    BY <1>22, <2>1, <2>2, <1>a, GoSound
  <2>4. Fault \/ UNCHANGED budget
    BY <1>22, <1>a DEF DocRefused
  <2> QED BY <1>22, <2>1, <2>2, <2>3, <2>4, <1>a, <1>b, <1>c DEF DocRefused, TypeOK, source, repo, oracle
<1>23. ASSUME NEW p \in Poster, DocSaved(p) PROVE TypeInv'
  <2>1. run' \in [Poster -> SoundRun] /\ inFlight' = inFlight
    BY <1>23, <1>a, AnsweredSound, GoSound DEF DocSaved, At
  <2>2. run[p].sent \subseteq Document /\ run[p].txn \in Txn
    BY <1>23, <1>a DEF DocSaved, At, SoundRun, Run
  <2>3. docRows' \subseteq AllKinds \X (Method \cup {None}) \X Txn
    BY <1>23, <2>2, <1>a, RowKeyTyped DEF DocSaved, TypeOK
  <2> QED BY <1>23, <2>1, <2>2, <2>3, <1>a, <1>b, <1>c DEF DocSaved, TypeOK, source, oracle
<1>24. ASSUME NEW p \in Poster, DocReplyLost(p) PROVE TypeInv'
  <2>1. run' \in [Poster -> SoundRun] /\ inFlight' = inFlight
    BY <1>24, <1>a, AnsweredSound, GoSound DEF DocReplyLost, At
  <2> QED BY <1>24, <2>1, <1>a, <1>b, <1>c DEF DocReplyLost, TypeOK, source, repo, oracle
<1>25. ASSUME NEW p \in Poster, FinishRun(p) PROVE TypeInv'
  <2>1. run' \in [Poster -> SoundRun] /\ inFlight' \subseteq Host
    BY <1>25, <1>a, ExitSound DEF FinishRun
  <2>2. run[p].txn \in Txn \cup {None}
    BY <1>25, <1>a DEF SoundRun, Run
  <2>3. queue' \in [Order -> Txn \cup {None}]
    BY <1>25, <2>2, <1>a DEF FinishRun, TypeOK
  <2> QED BY <1>25, <2>1, <2>2, <2>3, <1>a, <1>b, <1>c DEF FinishRun, TypeOK, source, oracle
<1>26. ASSUME NEW p \in Poster, Abort(p) PROVE TypeInv'
  <2>1. run' \in [Poster -> SoundRun] /\ inFlight' \subseteq Host
    BY <1>26, <1>a, ExitSound DEF Abort
  <2> QED BY <1>26, <2>1, <1>a, <1>b, <1>c, <1>d DEF Abort, TypeOK, source, repo
<1>27. CASE UNCHANGED vars
  BY <1>27, <1>a, <1>b DEF vars, TypeOK, source, repo, oracle
<1> QED
  BY <1>1, <1>2, <1>3, <1>4, <1>5, <1>6, <1>7, <1>8, <1>9, <1>10, <1>11, <1>12, <1>13,
     <1>14, <1>15, <1>16, <1>17, <1>18, <1>19, <1>20, <1>21, <1>22, <1>23, <1>24, <1>25,
     <1>26,
     <1>27
     DEF Next, Work, Create, Reply, Settle, Record, FollowUp

(* Every row, run and Oracle record keeps its shape, under any fault, any    *)
(* number of processes and any bounds.                                       *)
THEOREM TypeCorrect == Spec => []TypeOK
<1>1. TypeInv => TypeOK
  BY DEF TypeInv
<1> QED BY <1>1, TypeInit, TypeStep, PTL DEF Spec

-----------------------------------------------------------------------------
(* An order is on two invoices only if it is exposed.  The invariant is      *)
(* BillingInv, the part that says so being DoublesAreExposed; the rest says  *)
(* where an order already on an invoice can be, so that a header that is     *)
(* sent holds one only if it is exposed.                                     *)
LEMMA BillingInit == Init => BillingInv
  BY NoRunSound
     DEF Init, BillingInv, HeaderFresh, Uncontested, Accounted, SendsOnlyUnbilled,
         DoublesAreExposed, At, BeforePersist, Unattended

(* What is accounted for in the old state, read order by order.              *)
LEMMA AccountedFor ==
  ASSUME BillingInv, NEW t \in Txn, NEW o \in invoices[t], o \notin exposed,
         o \notin Posted, o \notin uncertain
  PROVE  \E q \in Poster : run[q].pc \in Unattended /\ o \in run[q].header
  BY DEF BillingInv, Accounted

(* Accounted, stated the same way of the new state.                          *)
LEMMA AccountedAgain ==
  ASSUME \A t \in Txn : \A o \in invoices'[t] :
           \/ o \in exposed' \/ o \in Posted' \/ o \in uncertain'
           \/ \E q \in Poster : run'[q].pc \in Unattended /\ o \in run'[q].header
  PROVE  Accounted'
  BY DEF Accounted

(* A run goes on without touching Oracle's invoices or the SUCCESS rows.     *)
LEMMA RunGoesOn ==
  ASSUME TypeInv, BillingInv, NEW p \in Poster,
         \A q \in Poster \ {p} : run'[q] = run[q],
         run'[p].header = run[p].header,
         UNCHANGED <<landed, success, invoices, exposed>>,
         uncertain \subseteq uncertain' \cup Posted,
         run'[p].pc \in BeforePersist => run[p].pc \in BeforePersist,
         run'[p].pc \in Unattended \/ run[p].pc \notin Unattended
           \/ \A t \in Txn : invoices[t] \cap run[p].header \subseteq exposed,
         run'[p].pc = "create" => \A t \in Txn : invoices[t] \cap run[p].header \subseteq exposed,
         run'[p].pc = "clear" => run[p].header \subseteq Posted
  PROVE  BillingInv'
<1>a. Posted' = Posted
  BY DEF Posted
<1>1. HeaderFresh'
  BY <1>a DEF BillingInv, HeaderFresh, At
<1>2. Uncontested'
  BY DEF BillingInv, Uncontested
<1>3. Accounted'
  BY <1>a, AccountedFor, AccountedAgain
<1>4. SendsOnlyUnbilled'
  BY DEF BillingInv, SendsOnlyUnbilled, At
<1>5. DoublesAreExposed'
  BY DEF BillingInv, DoublesAreExposed
<1> QED BY <1>1, <1>2, <1>3, <1>4, <1>5 DEF BillingInv

(* A run ends, leaving nothing unaccounted for.                              *)
LEMMA RunEnds ==
  ASSUME TypeInv, BillingInv, NEW p \in Poster, Exit(p),
         UNCHANGED <<landed, success, invoices>>,
         uncertain \subseteq uncertain', exposed \subseteq exposed',
         \/ run[p].pc \notin Unattended
         \/ run[p].header \subseteq uncertain'
         \/ \A t \in Txn :
              invoices[t] \cap run[p].header \subseteq Posted \cup uncertain \cup exposed'
  PROVE  BillingInv'
<1>a. /\ run'[p] = NoRun /\ \A q \in Poster \ {p} : run'[q] = run[q]
      /\ run'[p].pc = "idle" /\ run'[p].header = {}
  BY SoundRuns, ExitSound, NoRunSound DEF TypeOK
<1>b. Posted' = Posted
  BY DEF Posted
<1>1. HeaderFresh'
  BY <1>a, <1>b DEF BillingInv, HeaderFresh, At, BeforePersist
<1>2. Uncontested'
  BY <1>a DEF BillingInv, Uncontested, BeforePersist
<1>3. Accounted'
  BY <1>a, <1>b, AccountedFor, AccountedAgain
<1>4. SendsOnlyUnbilled'
  BY <1>a DEF BillingInv, SendsOnlyUnbilled, At
<1>5. DoublesAreExposed'
  BY DEF BillingInv, DoublesAreExposed
<1> QED BY <1>1, <1>2, <1>3, <1>4, <1>5 DEF BillingInv

(* A run ends and takes with it what it knew.                                *)
LEMMA ForgottenBilling ==
  ASSUME TypeInv, BillingInv, NEW p \in Poster, Exit(p), Forget(p),
         UNCHANGED <<landed, success, uncertain, invoices>>
  PROVE  BillingInv'
<1>1. exposed' = exposed \cup Unrecorded(run[p].header)
  BY DEF Forget
<1>2. \A t \in Txn : invoices[t] \cap run[p].header \subseteq Posted \cup uncertain \cup exposed'
  BY <1>1 DEF Unrecorded
<1> QED BY <1>1, <1>2, RunEnds

(* A step outside the runs: only the backup or the calendar moves.           *)
LEMMA NoRunMoves ==
  ASSUME BillingInv, UNCHANGED <<success, uncertain, run, invoices, exposed>>,
         landed \subseteq landed'
  PROVE  BillingInv'
<1>1. SendsOnlyUnbilled' /\ DoublesAreExposed' /\ Uncontested'
  BY DEF BillingInv, SendsOnlyUnbilled, DoublesAreExposed, Uncontested, At
<1>2. HeaderFresh' /\ Accounted'
  BY DEF BillingInv, HeaderFresh, Accounted, Posted, At
<1> QED BY <1>1, <1>2 DEF BillingInv

(* Oracle processes a call long given up: an order of it that is billed, or  *)
(* about to be sent, or of which nobody thinks, is exposed.                  *)
LEMMA LateBilling ==
  ASSUME TypeInv, BillingInv, LateCommit PROVE BillingInv'
<1>a. PICK S \in orphans, t \in Txn :
        /\ invoices' = [invoices EXCEPT ![t] = S] /\ exposed' = exposed \cup (S \ Expected)
  BY DEF LateCommit
<1>b. invoices \in [Txn -> SUBSET Order] /\ S \subseteq Order
  BY DEF TypeInv, TypeOK
<1>c. \A u \in Txn : invoices'[u] = IF u = t THEN S ELSE invoices[u]
  BY <1>a, <1>b
<1>d. UNCHANGED <<landed, success, uncertain, run>> /\ Posted' = Posted
  BY DEF LateCommit, source, repo, Posted
<1>1. HeaderFresh' /\ Uncontested'
  BY <1>a, <1>d DEF BillingInv, HeaderFresh, Uncontested, At
<1>2. Accounted'
  <2> SUFFICES ASSUME NEW u \in Txn, NEW o \in invoices'[u], o \notin exposed',
                      o \notin Posted, o \notin uncertain
               PROVE  \E q \in Poster : run[q].pc \in Unattended /\ o \in run[q].header
    BY <1>d, AccountedAgain
  <2>1. CASE u = t
    BY <1>a, <1>c, <2>1 DEF Expected
  <2>2. CASE u # t
    BY <1>a, <1>c, <2>2, AccountedFor
  <2> QED BY <2>1, <2>2
<1>3. SendsOnlyUnbilled'
  <2> SUFFICES ASSUME NEW q \in Poster, At(q, "create"), NEW u \in Txn,
                      NEW o \in invoices'[u], o \in run[q].header
               PROVE  o \in exposed'
    BY <1>d DEF SendsOnlyUnbilled, At
  <2>1. o \notin Expected
    BY DEF Expected
  <2> QED BY <1>a, <1>c, <2>1 DEF BillingInv, SendsOnlyUnbilled
<1>4. DoublesAreExposed'
  <2>1. \A u \in Txn : invoices[u] \cap Expected = {}
    BY DEF Expected
  <2> QED BY <1>a, <1>c, <2>1 DEF BillingInv, DoublesAreExposed
<1> QED BY <1>1, <1>2, <1>3, <1>4 DEF BillingInv

(* A header about to be checked, with no marker, holds a billed order only   *)
(* if it is exposed: its rows would say so, or a run that knows of it, and   *)
(* two runs hold the same order only if it was claimed twice.                *)
LEMMA UnmarkedUnbilled ==
  ASSUME BillingInv, NEW p \in Poster, At(p, "check"), uncertain \cap run[p].header = {}
  PROVE  \A t \in Txn : invoices[t] \cap run[p].header \subseteq exposed
<1> SUFFICES ASSUME NEW t \in Txn, NEW o \in invoices[t], o \in run[p].header, o \notin exposed
             PROVE  FALSE
  OBVIOUS
<1>1. o \notin Posted
  BY DEF BillingInv, HeaderFresh, At, BeforePersist
<1>2. PICK q \in Poster : run[q].pc \in Unattended /\ o \in run[q].header
  BY <1>1, AccountedFor
<1>3. run[q].pc \in BeforePersist /\ run[p].pc \in BeforePersist /\ q # p
  BY <1>2 DEF At, Unattended, BeforePersist
<1> QED BY <1>2, <1>3 DEF BillingInv, Uncontested

(* Beginning a run: an order another run holds is claimed twice.             *)
LEMMA PostDayBilling ==
  ASSUME TypeInv, BillingInv, NEW p \in Poster, PostDay(p)
  PROVE  BillingInv'
<1>a. /\ \A q \in Poster \ {p} : run'[q] = run[q]
      /\ \/ /\ run'[p].pc = "check" /\ run'[p].header \cap Posted = {}
            /\ run'[p].header \subseteq landed
            /\ exposed' = exposed \cup (run'[p].header \cap Claimed)
         \/ run'[p].pc = "docs" /\ run'[p].header = {} /\ exposed' = exposed
  BY PostDayBegins
<1>b. UNCHANGED <<landed, success, uncertain, invoices>> /\ Posted' = Posted
  BY DEF PostDay, source, repo, Posted
<1>c. run[p].pc \notin Unattended /\ exposed \subseteq exposed'
  BY <1>a DEF PostDay, At, Unattended
<1>d. \A q \in Poster : run[q].header \subseteq Claimed
  BY DEF Claimed
<1>1. HeaderFresh'
  BY <1>a, <1>b, <1>c DEF BillingInv, HeaderFresh, At
<1>2. Uncontested'
  <2>1. ASSUME NEW q \in Poster, q # p, run'[p].pc \in BeforePersist
        PROVE  run'[p].header \cap run'[q].header \subseteq exposed'
    BY <1>a, <1>d, <2>1 DEF BeforePersist
  <2> QED BY <1>a, <1>c, <2>1 DEF BillingInv, Uncontested
<1>3. Accounted'
  BY <1>a, <1>b, <1>c, AccountedFor, AccountedAgain
<1>4. SendsOnlyUnbilled'
  BY <1>a, <1>b, <1>c DEF BillingInv, SendsOnlyUnbilled, At
<1>5. DoublesAreExposed'
  BY <1>b, <1>c DEF BillingInv, DoublesAreExposed
<1> QED BY <1>1, <1>2, <1>3, <1>4, <1>5 DEF BillingInv

(* Oracle accepts a header none of whose orders, but exposed ones, was on an *)
(* invoice.                                                                  *)
LEMMA CreateBilling ==
  ASSUME TypeInv, BillingInv, NEW p \in Poster, CreateAccepted(p)
  PROVE  BillingInv'
<1>a. PICK t \in Txn : /\ Unused(t)
                       /\ invoices' = [invoices EXCEPT ![t] = run[p].header]
                       /\ Go(p, Awaiting(run[p], t))
  BY DEF CreateAccepted
<1>b. /\ run[p].pc = "create" /\ run \in [Poster -> SoundRun]
      /\ invoices \in [Txn -> SUBSET Order]
  BY SoundRuns DEF CreateAccepted, At, TypeOK
<1>c. /\ run'[p].pc = "reply" /\ run'[p].header = run[p].header
      /\ \A q \in Poster \ {p} : run'[q] = run[q]
  BY <1>a, <1>b, AwaitingSound, GoSound
<1>d. UNCHANGED <<landed, success, uncertain, exposed>> /\ Posted' = Posted
  BY DEF CreateAccepted, source, repo, Posted
<1>e. \A u \in Txn : invoices[u] \cap run[p].header \subseteq exposed
  BY <1>b DEF BillingInv, SendsOnlyUnbilled, At
<1>f. \A u \in Txn : invoices'[u] = IF u = t THEN run[p].header ELSE invoices[u]
  BY <1>a, <1>b
<1>1. HeaderFresh'
  BY <1>b, <1>c, <1>d DEF BillingInv, HeaderFresh, At, BeforePersist
<1>2. Uncontested'
  BY <1>b, <1>c, <1>d DEF BillingInv, Uncontested, BeforePersist
<1>3. Accounted'
  <2> SUFFICES ASSUME NEW u \in Txn, NEW o \in invoices'[u], o \notin exposed,
                      o \notin Posted, o \notin uncertain
               PROVE  \E q \in Poster : run'[q].pc \in Unattended /\ o \in run'[q].header
    BY <1>d, AccountedAgain
  <2>1. CASE u = t
    BY <2>1, <1>c, <1>f DEF Unattended
  <2>2. CASE u # t
    <3>1. PICK q \in Poster : run[q].pc \in Unattended /\ o \in run[q].header
      BY <1>f, <2>2, AccountedFor
    <3>2. q # p
      BY <1>b, <3>1 DEF Unattended
    <3> QED BY <1>c, <3>1, <3>2
  <2> QED BY <2>1, <2>2
<1>4. SendsOnlyUnbilled'
  <2> SUFFICES ASSUME NEW q \in Poster, run'[q].pc = "create", NEW u \in Txn
               PROVE  invoices'[u] \cap run'[q].header \subseteq exposed
    BY <1>d DEF SendsOnlyUnbilled, At
  <2>1. q # p /\ run'[q] = run[q] /\ run[q].pc = "create"
    BY <1>c
  <2>2. invoices[u] \cap run[q].header \subseteq exposed
    BY <2>1 DEF BillingInv, SendsOnlyUnbilled, At
  <2>3. run[p].header \cap run[q].header \subseteq exposed
    BY <1>b, <2>1 DEF BillingInv, Uncontested, BeforePersist
  <2> QED BY <1>f, <2>1, <2>2, <2>3
<1>5. DoublesAreExposed'
  BY <1>d, <1>e, <1>f DEF BillingInv, DoublesAreExposed
<1> QED BY <1>1, <1>2, <1>3, <1>4, <1>5 DEF BillingInv

(* The rows of the header are saved.                                         *)
LEMMA PersistBilling ==
  ASSUME TypeInv, BillingInv, NEW p \in Poster, Persist(p)
  PROVE  BillingInv'
<1>a. run[p].pc = "persist" /\ run \in [Poster -> SoundRun] /\ run[p].txn \in Txn
  BY SoundRuns DEF Persist, At, SoundRun
<1>b. /\ run'[p].pc = "clear" /\ run'[p].header = run[p].header
      /\ \A q \in Poster \ {p} : run'[q] = run[q]
  <2>1. /\ [run[p] EXCEPT !.pc = "clear"] \in SoundRun
        /\ [run[p] EXCEPT !.pc = "clear"].pc = "clear"
        /\ [run[p] EXCEPT !.pc = "clear"].header = run[p].header
    BY <1>a, MoveSound DEF Points
  <2>2. Go(p, [run[p] EXCEPT !.pc = "clear"])
    BY DEF Persist
  <2> QED BY <1>a, <2>1, <2>2, GoSound
<1>c. UNCHANGED <<landed, uncertain, invoices, exposed>>
  BY DEF Persist, source, oracle
<1>d. Posted' = Posted \cup run[p].header
  <2>1. success' = success \cup (run[p].header \X {run[p].txn})
    BY DEF Persist
  <2>2. \A r \in run[p].header \X {run[p].txn} : r[1] \in run[p].header
    OBVIOUS
  <2>3. ASSUME NEW o \in run[p].header PROVE o \in Posted'
    <3>1. <<o, run[p].txn>> \in success' /\ <<o, run[p].txn>>[1] = o
      BY <2>1
    <3> QED BY <3>1 DEF Posted
  <2>4. Posted \subseteq Posted'
    BY <2>1 DEF Posted
  <2>5. Posted' \subseteq Posted \cup run[p].header
    BY <2>1, <2>2 DEF Posted
  <2> QED BY <2>3, <2>4, <2>5
<1>1. HeaderFresh'
  <2> SUFFICES ASSUME NEW q \in Poster
               PROVE  /\ run'[q].header \subseteq landed
                      /\ run'[q].pc \in BeforePersist => run'[q].header \cap Posted' \subseteq exposed
                      /\ run'[q].pc = "clear" => run'[q].header \subseteq Posted'
    BY <1>c DEF HeaderFresh, At
  <2>1. CASE q = p
    BY <1>a, <1>b, <1>d, <2>1 DEF BillingInv, HeaderFresh, At, BeforePersist
  <2>2. CASE q # p
    <3>1. run[q].pc \in BeforePersist => run[p].header \cap run[q].header \subseteq exposed
      BY <1>a, <2>2 DEF BillingInv, Uncontested, BeforePersist
    <3> QED BY <1>b, <1>d, <2>2, <3>1 DEF BillingInv, HeaderFresh, At
  <2> QED BY <2>1, <2>2
<1>2. Uncontested'
  BY <1>b, <1>c DEF BillingInv, Uncontested, BeforePersist
<1>3. Accounted'
  BY <1>b, <1>c, <1>d, AccountedFor, AccountedAgain
<1>4. SendsOnlyUnbilled' /\ DoublesAreExposed'
  BY <1>b, <1>c DEF BillingInv, SendsOnlyUnbilled, DoublesAreExposed, At
<1> QED BY <1>1, <1>2, <1>3, <1>4 DEF BillingInv

(* A repeated attempt after Oracle said that the header is not there.        *)
LEMMA AgainBilling ==
  ASSUME TypeInv, BillingInv, NEW p \in Poster,
         NEW r \in SoundRun, r.header = run[p].header, NextAttempt(p, r),
         run[p].pc \in BeforePersist,
         UNCHANGED <<landed, success, uncertain, invoices, exposed>>,
         \A t \in Txn : invoices[t] \cap run[p].header \subseteq exposed
  PROVE  BillingInv'
<1>1. \/ /\ run'[p].pc = "create" /\ run'[p].header = r.header
         /\ \A q \in Poster \ {p} : run'[q] = run[q]
      \/ Exit(p)
  BY SoundRuns, NextAttemptSound DEF TypeOK
<1>2. CASE Exit(p)
  BY <1>2, RunEnds
<1>3. CASE run'[p].pc = "create" /\ run'[p].header = r.header
             /\ \A q \in Poster \ {p} : run'[q] = run[q]
  BY <1>3, RunGoesOn
<1> QED BY <1>1, <1>2, <1>3

LEMMA BillingStep ==
  ASSUME TypeInv, BillingInv, [Next]_vars
  PROVE  BillingInv'
<1>a. run \in [Poster -> SoundRun] /\ inFlight \subseteq Host
  BY SoundRuns DEF TypeOK
<1>1. ASSUME NEW o \in Order, OrderLands(o) PROVE BillingInv'
  BY <1>1, NoRunMoves DEF OrderLands, repo, oracle
<1>2. CASE DayAges
  BY <1>2, NoRunMoves DEF DayAges, repo, oracle
<1>3. CASE LateCommit
  BY <1>3, LateBilling
<1>4. ASSUME NEW p \in Poster, PostDay(p) PROVE BillingInv'
  BY <1>4, PostDayBilling
<1>5. ASSUME NEW p \in Poster, CheckUncertain(p) PROVE BillingInv'
  <2> DEFINE M(x) == [run[p] EXCEPT !.pc = x]
  <2>a. run[p].pc = "check"
    BY <1>5 DEF CheckUncertain, At
  <2>b. UNCHANGED <<landed, success, uncertain, invoices, exposed>>
    BY <1>5 DEF CheckUncertain, source, repo, oracle
  <2>1. \E x \in {"recheck", "create"} :
          Go(p, M(x)) /\ (x = "create" => uncertain \cap run[p].header = {})
    BY <1>5 DEF CheckUncertain
  <2>2. ASSUME NEW x \in {"recheck", "create"}
        PROVE  M(x) \in SoundRun /\ M(x).pc = x /\ M(x).header = run[p].header
    <3>1. x \in Points /\ x # "settle" /\ run[p] \in SoundRun
          /\ x \notin {"reply", "persist", "clear", "docs", "docreply"}
      BY <1>a DEF Points
    <3> QED BY <3>1, MoveSound
  <2> HIDE DEF M
  <2>3. /\ run'[p].pc \in {"recheck", "create"} /\ run'[p].header = run[p].header
        /\ inFlight' = inFlight /\ \A q \in Poster \ {p} : run'[q] = run[q]
        /\ run'[p].pc = "create" => \A t \in Txn : invoices[t] \cap run[p].header \subseteq exposed
    BY <2>1, <2>2, <2>a, <1>a, GoSound, UnmarkedUnbilled DEF At
  <2> QED BY <2>a, <2>b, <2>3, RunGoesOn DEF At, BeforePersist, Unattended
<1>6. ASSUME NEW p \in Poster, Recheck(p) PROVE BillingInv'
  <2> DEFINE M(x) == [run[p] EXCEPT !.pc = x]
  <2>a. run[p].pc = "recheck"
    BY <1>6 DEF Recheck, At
  <2>b. UNCHANGED <<landed, success, uncertain, invoices, exposed>>
    BY <1>6 DEF Recheck, source, repo, oracle
  <2>1. \/ \E t \in Txn : Go(p, Holding(run[p], t))
        \/ Go(p, M("create")) /\ \A t \in Txn : invoices[t] \cap run[p].header \subseteq exposed
        \/ Go(p, M("mark"))
    BY <1>6 DEF Recheck, Matching
  <2>2. ASSUME NEW x \in {"mark", "create"}
        PROVE  M(x) \in SoundRun /\ M(x).pc = x /\ M(x).header = run[p].header
    <3>1. x \in Points /\ x # "settle" /\ run[p] \in SoundRun
          /\ x \notin {"reply", "persist", "clear", "docs", "docreply"}
      BY <1>a DEF Points
    <3> QED BY <3>1, MoveSound
  <2> HIDE DEF M
  <2>3. /\ run'[p].pc \in {"persist", "create", "mark"} /\ run'[p].header = run[p].header
        /\ inFlight' = inFlight /\ \A q \in Poster \ {p} : run'[q] = run[q]
        /\ run'[p].pc = "create" => \A t \in Txn : invoices[t] \cap run[p].header \subseteq exposed
    BY <2>1, <2>2, <2>a, <1>a, GoSound, HoldingSound
  <2> QED BY <2>a, <2>b, <2>3, RunGoesOn DEF At, BeforePersist, Unattended
<1>7. ASSUME NEW p \in Poster, CreateAccepted(p) PROVE BillingInv'
  BY <1>7, CreateBilling
<1>8. ASSUME NEW p \in Poster, CreateRefused(p) PROVE BillingInv'
  <2>1. UNCHANGED <<landed, success, uncertain, invoices, exposed>>
    BY <1>8, <1>a DEF CreateRefused, source, repo, oracle
  <2> QED BY <1>8, <2>1, RunEnds DEF CreateRefused, At, Unattended
<1>9. ASSUME NEW p \in Poster, CreateItemRefused(p) PROVE BillingInv'
  <2>1. LET s == [run[p] EXCEPT !.swapped = TRUE] IN s \in SoundRun /\ s.header = run[p].header
    BY <1>9, <1>a, SwapSound
  <2>2. \A t \in Txn : invoices[t] \cap run[p].header \subseteq exposed
    BY <1>9, <1>a DEF CreateItemRefused, BillingInv, SendsOnlyUnbilled
  <2>3. UNCHANGED <<landed, success, uncertain, invoices, exposed>>
    BY <1>9, <1>a DEF CreateItemRefused, source, repo, oracle
  <2> QED BY <1>9, <2>1, <2>2, <2>3, AgainBilling DEF CreateItemRefused, At, BeforePersist
<1>10. ASSUME NEW p \in Poster, CreateTimedOut(p) PROVE BillingInv'
  <2>1. /\ run'[p].pc = "settle" /\ run'[p].header = run[p].header /\ inFlight' = inFlight
       /\ \A q \in Poster \ {p} : run'[q] = run[q]
    BY <1>10, <1>a, SettlingSound, GoSound DEF CreateTimedOut
  <2>2. UNCHANGED <<landed, success, uncertain, invoices, exposed>>
    BY <1>10, <1>a DEF CreateTimedOut, source, repo
  <2> QED BY <1>10, <2>1, <2>2, RunGoesOn DEF CreateTimedOut, At, BeforePersist, Unattended
<1>11. ASSUME NEW p \in Poster, ReplyArrives(p) PROVE BillingInv'
  <2>1. /\ Go(p, [run[p] EXCEPT !.pc = "persist"])
       /\ [run[p] EXCEPT !.pc = "persist"] \in SoundRun
       /\ [run[p] EXCEPT !.pc = "persist"].pc = "persist"
       /\ [run[p] EXCEPT !.pc = "persist"].header = run[p].header
    BY <1>11, <1>a, MoveSound DEF ReplyArrives, At, SoundRun, Points
  <2>2. /\ run'[p].pc = "persist" /\ run'[p].header = run[p].header /\ inFlight' = inFlight
       /\ \A q \in Poster \ {p} : run'[q] = run[q]
    BY <1>11, <2>1, <1>a, GoSound
  <2>3. UNCHANGED <<landed, success, uncertain, invoices, exposed>>
    BY <1>11, <1>a DEF ReplyArrives, source, repo, oracle
  <2> QED BY <1>11, <2>1, <2>2, <2>3, RunGoesOn DEF ReplyArrives, At, BeforePersist, Unattended
<1>12. ASSUME NEW p \in Poster, ReplyLost(p) PROVE BillingInv'
  <2>1. /\ run'[p].pc = "settle" /\ run'[p].header = run[p].header /\ inFlight' = inFlight
       /\ \A q \in Poster \ {p} : run'[q] = run[q]
    BY <1>12, <1>a, SettlingSound, GoSound DEF ReplyLost
  <2>2. UNCHANGED <<landed, success, uncertain, invoices, exposed>>
    BY <1>12, <1>a DEF ReplyLost, source, repo, oracle
  <2> QED BY <1>12, <2>1, <2>2, RunGoesOn DEF ReplyLost, At, BeforePersist, Unattended
<1>13. ASSUME NEW p \in Poster, ReplyBlank(p) PROVE BillingInv'
  <2>1. UNCHANGED <<landed, success, uncertain, invoices>>
    BY <1>13 DEF ReplyBlank, source, repo
  <2> QED BY <1>13, <2>1, ForgottenBilling DEF ReplyBlank
<1>14. ASSUME NEW p \in Poster, SettleFound(p) PROVE BillingInv'
  <2>1. \E t \in Txn : Go(p, Holding(run[p], t))
    BY <1>14, <1>a DEF SettleFound, Matching
  <2>2. /\ run'[p].pc = "persist" /\ run'[p].header = run[p].header /\ inFlight' = inFlight
       /\ \A q \in Poster \ {p} : run'[q] = run[q]
    BY <1>14, <2>1, <1>a, HoldingSound, GoSound
  <2>3. UNCHANGED <<landed, success, uncertain, invoices, exposed>>
    BY <1>14, <1>a DEF SettleFound, source, repo, oracle
  <2> QED BY <1>14, <2>1, <2>2, <2>3, RunGoesOn DEF SettleFound, At, BeforePersist, Unattended
<1>15. ASSUME NEW p \in Poster, SettleAbsent(p) PROVE BillingInv'
  <2>1. \A t \in Txn : invoices[t] \cap run[p].header \subseteq exposed
    BY <1>15, <1>a DEF SettleAbsent, Matching
  <2>2. UNCHANGED <<landed, success, uncertain, invoices, exposed>>
    BY <1>15, <1>a DEF SettleAbsent, source, repo, oracle
  <2> QED BY <1>15, <2>1, <2>2, <1>a, AgainBilling DEF SettleAbsent, At, BeforePersist, Unattended
<1>16. ASSUME NEW p \in Poster, SettleUnknown(p) PROVE BillingInv'
  <2>1. /\ run'[p].pc \in {"settle", "mark"} /\ run'[p].header = run[p].header /\ inFlight' = inFlight
       /\ \A q \in Poster \ {p} : run'[q] = run[q]
    BY <1>16, <1>a, StillUnknownSound, GoSound DEF SettleUnknown, At
  <2>2. UNCHANGED <<landed, success, uncertain, invoices, exposed>>
    BY <1>16, <1>a DEF SettleUnknown, source, repo, oracle
  <2> QED BY <1>16, <2>1, <2>2, RunGoesOn DEF SettleUnknown, At, BeforePersist, Unattended
<1>17. ASSUME NEW p \in Poster, MarkUncertain(p) PROVE BillingInv'
  <2>1. UNCHANGED <<landed, success, invoices>> /\ Exit(p)
    BY <1>17 DEF MarkUncertain, source
  <2>2. CASE uncertain' = uncertain \cup run[p].header /\ exposed' = exposed
    BY <2>1, <2>2, RunEnds
  <2>3. CASE Forget(p) /\ UNCHANGED uncertain
    BY <2>1, <2>3, ForgottenBilling
  <2> QED BY <1>17, <2>2, <2>3 DEF MarkUncertain
<1>18. ASSUME NEW p \in Poster, Persist(p) PROVE BillingInv'
  BY <1>18, PersistBilling
<1>19. ASSUME NEW p \in Poster, ClearUncertain(p) PROVE BillingInv'
  <2>1. /\ Go(p, [run[p] EXCEPT !.pc = "docs"])
       /\ [run[p] EXCEPT !.pc = "docs"] \in SoundRun
       /\ [run[p] EXCEPT !.pc = "docs"].pc = "docs"
       /\ [run[p] EXCEPT !.pc = "docs"].header = run[p].header
    BY <1>19, <1>a, MoveSound DEF ClearUncertain, At, SoundRun, Points
  <2>2. /\ run'[p].pc = "docs" /\ run'[p].header = run[p].header /\ inFlight' = inFlight
       /\ \A q \in Poster \ {p} : run'[q] = run[q]
    BY <1>19, <2>1, <1>a, GoSound
  <2>3. UNCHANGED <<landed, success, invoices, exposed>>
    BY <1>19, <1>a DEF ClearUncertain, source, oracle
  <2>4. uncertain \subseteq uncertain' \cup Posted
    BY <1>19, <1>a DEF ClearUncertain, BillingInv, HeaderFresh
  <2> QED BY <1>19, <2>1, <2>2, <2>3, <2>4, RunGoesOn DEF ClearUncertain, At, BeforePersist, Unattended
<1>20. ASSUME NEW p \in Poster, DocSkipped(p) PROVE BillingInv'
  <2>1. \E d : Go(p, [run[p] EXCEPT !.todo = run[p].todo \ {d}])
    BY <1>20, <1>a DEF DocSkipped
  <2>2. \A d : LET s == [run[p] EXCEPT !.todo = run[p].todo \ {d}]
             IN  s \in SoundRun /\ s.pc = run[p].pc /\ s.header = run[p].header
    BY <1>20, <1>a, TodoSound
  <2>3. /\ run'[p].pc = "docs" /\ run'[p].header = run[p].header /\ inFlight' = inFlight
       /\ \A q \in Poster \ {p} : run'[q] = run[q]
    BY <1>20, <2>1, <2>2, <1>a, GoSound DEF DocSkipped, At
  <2>4. UNCHANGED <<landed, success, uncertain, invoices, exposed>>
    BY <1>20, <1>a DEF DocSkipped, source, repo, oracle
  <2> QED BY <1>20, <2>1, <2>2, <2>3, <2>4, RunGoesOn DEF DocSkipped, At, BeforePersist, Unattended
<1>21. ASSUME NEW p \in Poster, DocAccepted(p) PROVE BillingInv'
  <2>1. \E d \in run[p].todo : Go(p, Sent(run[p], d))
    BY <1>21, <1>a DEF DocAccepted, NextDocs
  <2>2. /\ run'[p].pc = "docreply" /\ run'[p].header = run[p].header /\ inFlight' = inFlight
       /\ \A q \in Poster \ {p} : run'[q] = run[q]
    BY <1>21, <2>1, <1>a, SentSound, GoSound DEF DocAccepted, At
  <2>3. UNCHANGED <<landed, success, uncertain, invoices, exposed>>
    BY <1>21, <1>a DEF DocAccepted, source, repo
  <2> QED BY <1>21, <2>1, <2>2, <2>3, RunGoesOn DEF DocAccepted, At, BeforePersist, Unattended
<1>22. ASSUME NEW p \in Poster, DocRefused(p) PROVE BillingInv'
  <2>1. \E d : Go(p, [run[p] EXCEPT !.todo = run[p].todo \ {d}])
    BY <1>22, <1>a DEF DocRefused
  <2>2. \A d : LET s == [run[p] EXCEPT !.todo = run[p].todo \ {d}]
             IN  s \in SoundRun /\ s.pc = run[p].pc /\ s.header = run[p].header
    BY <1>22, <1>a, TodoSound
  <2>3. /\ run'[p].pc = "docs" /\ run'[p].header = run[p].header /\ inFlight' = inFlight
       /\ \A q \in Poster \ {p} : run'[q] = run[q]
    BY <1>22, <2>1, <2>2, <1>a, GoSound DEF DocRefused, At
  <2>4. UNCHANGED <<landed, success, uncertain, invoices, exposed>>
    BY <1>22, <1>a DEF DocRefused, source, repo, oracle
  <2> QED BY <1>22, <2>1, <2>2, <2>3, <2>4, RunGoesOn DEF DocRefused, At, BeforePersist, Unattended
<1>23. ASSUME NEW p \in Poster, DocSaved(p) PROVE BillingInv'
  <2>1. /\ run'[p].pc = "docs" /\ run'[p].header = run[p].header /\ inFlight' = inFlight
       /\ \A q \in Poster \ {p} : run'[q] = run[q]
    BY <1>23, <1>a, AnsweredSound, GoSound DEF DocSaved, At
  <2>2. UNCHANGED <<landed, success, uncertain, invoices, exposed>>
    BY <1>23, <1>a DEF DocSaved, source, oracle
  <2> QED BY <1>23, <2>1, <2>2, RunGoesOn DEF DocSaved, At, BeforePersist, Unattended
<1>24. ASSUME NEW p \in Poster, DocReplyLost(p) PROVE BillingInv'
  <2>1. /\ run'[p].pc = "docs" /\ run'[p].header = run[p].header /\ inFlight' = inFlight
       /\ \A q \in Poster \ {p} : run'[q] = run[q]
    BY <1>24, <1>a, AnsweredSound, GoSound DEF DocReplyLost, At
  <2>2. UNCHANGED <<landed, success, uncertain, invoices, exposed>>
    BY <1>24, <1>a DEF DocReplyLost, source, repo, oracle
  <2> QED BY <1>24, <2>1, <2>2, RunGoesOn DEF DocReplyLost, At, BeforePersist, Unattended
<1>25. ASSUME NEW p \in Poster, FinishRun(p) PROVE BillingInv'
  <2>1. UNCHANGED <<landed, success, uncertain, invoices, exposed>>
    BY <1>25, <1>a DEF FinishRun, source, repo, oracle
  <2> QED BY <1>25, <2>1, RunEnds DEF FinishRun, At, Unattended
<1>26. ASSUME NEW p \in Poster, Abort(p) PROVE BillingInv'
  <2>1. UNCHANGED <<landed, success, uncertain, invoices>>
    BY <1>26 DEF Abort, source, repo
  <2> QED BY <1>26, <2>1, ForgottenBilling DEF Abort
<1>27. CASE UNCHANGED vars
  BY <1>27, NoRunMoves DEF vars, source, repo, oracle
<1> QED
  BY <1>1, <1>2, <1>3, <1>4, <1>5, <1>6, <1>7, <1>8, <1>9, <1>10, <1>11, <1>12, <1>13,
     <1>14, <1>15, <1>16, <1>17, <1>18, <1>19, <1>20, <1>21, <1>22, <1>23, <1>24, <1>25,
     <1>26, <1>27
     DEF Next, Work, Create, Reply, Settle, Record, FollowUp

(* Whatever fails, and however many processes post: the two answers to "is   *)
(* this order on an invoice?", Oracle's and the repository's, agree about    *)
(* every order that is not exposed, as far as the next create needs it.      *)
THEOREM BillingInvariant == Spec => [](TypeInv /\ BillingInv)
<1>1. Init => TypeInv /\ BillingInv
  BY TypeInit, BillingInit
<1>2. TypeInv /\ BillingInv /\ [Next]_vars => (TypeInv /\ BillingInv)'
  BY TypeStep, BillingStep
<1> QED BY <1>1, <1>2, PTL DEF Spec

(* Only exposed orders are ever on two invoices: those a run knew of alone   *)
(* when it died, was answered without a number or lost its markers; those of *)
(* a call Oracle processed when nobody expected it any more; those that two  *)
(* processes were at together.                                               *)
THEOREM OnlyExposedTwice == Spec => []DoublesAreExposed
<1>1. BillingInv => DoublesAreExposed
  BY DEF BillingInv
<1> QED BY <1>1, BillingInvariant, PTL

-----------------------------------------------------------------------------
(* The lock of one process leaves one run at a time.  The run goes on; or it *)
(* ends, which leaves none.                                                  *)
LEMMA OneRunGoesOn ==
  ASSUME OneRun, NEW p \in Poster, ~ At(p, "idle"),
         \A q \in Poster \ {p} : run'[q] = run[q], inFlight' = inFlight
  PROVE  OneRun'
  BY DEF OneRun, At

LEMMA OneRunEnds ==
  ASSUME TypeInv, OneRun, NEW p \in Poster, ~ At(p, "idle"), Exit(p)
  PROVE  OneRun'
<1>1. run'[p].pc = "idle" /\ \A q \in Poster \ {p} : run'[q] = run[q] /\ run[q].pc = "idle"
  BY SoundRuns, ExitSound, NoRunSound DEF TypeOK, OneRun, At
<1> QED BY <1>1 DEF OneRun, At

(* Every step of a run either ends it or leaves it somewhere else.           *)
LEMMA WorkGoesOnOrEnds ==
  ASSUME TypeInv, NEW p \in Poster, Work(p)
  PROVE  /\ ~ At(p, "idle")
         /\ \/ Exit(p)
            \/ \E r \in SoundRun : r.pc # "idle" /\ Go(p, r)
<1>a. run[p] \in SoundRun
  BY SoundRuns
<1>b. ASSUME NEW x \in Points \ {"idle"}, x # "settle",
             x \in {"reply", "persist", "clear", "docs", "docreply"} => run[p].txn \in Txn,
             Go(p, [run[p] EXCEPT !.pc = x])
      PROVE  \E r \in SoundRun : r.pc # "idle" /\ Go(p, r)
  <2>1. [run[p] EXCEPT !.pc = x] \in SoundRun /\ [run[p] EXCEPT !.pc = x].pc = x
    BY <1>a, <1>b, MoveSound
  <2> QED BY <1>b, <2>1
<1>c. ASSUME NEW r \in SoundRun, NextAttempt(p, r)
      PROVE  Exit(p) \/ \E s \in SoundRun : s.pc # "idle" /\ Go(p, s)
  BY <1>c, AgainSound DEF NextAttempt
<1>1. CASE CheckUncertain(p)
  <2>1. At(p, "check") /\ \E x \in {"recheck", "create"} : Go(p, [run[p] EXCEPT !.pc = x])
    BY <1>1 DEF CheckUncertain
  <2> QED BY <1>b, <2>1 DEF At, Points
<1>2. CASE Recheck(p)
  <2>1. /\ At(p, "recheck")
        /\ \/ \E x \in {"mark", "create"} : Go(p, [run[p] EXCEPT !.pc = x])
           \/ \E t \in Txn : Go(p, Holding(run[p], t))
    BY <1>2 DEF Recheck, Matching
  <2> QED BY <1>a, <1>b, <2>1, HoldingSound DEF At, Points
<1>3. CASE Create(p)
  <2>1. [run[p] EXCEPT !.swapped = TRUE] \in SoundRun
    BY <1>a, SwapSound
  <2>2. /\ At(p, "create")
        /\ \/ Exit(p) \/ NextAttempt(p, [run[p] EXCEPT !.swapped = TRUE])
           \/ Go(p, Settling(run[p])) \/ \E t \in Txn : Go(p, Awaiting(run[p], t))
    BY <1>3 DEF Create, CreateAccepted, CreateRefused, CreateItemRefused, CreateTimedOut
  <2> QED BY <1>a, <1>c, <2>1, <2>2, SettlingSound, AwaitingSound DEF At
<1>4. CASE Reply(p) \/ Settle(p)
  <2>1. /\ run[p].pc \in {"reply", "settle"}
        /\ \/ Exit(p) \/ NextAttempt(p, run[p]) \/ Go(p, Settling(run[p]))
           \/ run[p].pc = "reply" /\ Go(p, [run[p] EXCEPT !.pc = "persist"])
           \/ run[p].pc = "settle" /\ Go(p, StillUnknown(run[p]))
           \/ \E t \in Txn : Go(p, Holding(run[p], t))
    BY <1>4 DEF Reply, ReplyArrives, ReplyLost, ReplyBlank, Settle, SettleFound, SettleAbsent,
                SettleUnknown, Matching, At
  <2>2. run[p].pc = "reply" => run[p].txn \in Txn
    BY <1>a DEF SoundRun
  <2> QED BY <1>a, <1>b, <1>c, <2>1, <2>2, SettlingSound, StillUnknownSound, HoldingSound
          DEF At, Points
<1>5. CASE Record(p)
  <2>1. /\ run[p].pc \in {"mark", "persist", "clear"}
        /\ \/ Exit(p)
           \/ /\ run[p].pc \in {"persist", "clear"}
              /\ \E x \in {"clear", "docs"} : Go(p, [run[p] EXCEPT !.pc = x])
    BY <1>5 DEF Record, MarkUncertain, Persist, ClearUncertain, At
  <2>2. run[p].pc \in {"persist", "clear"} => run[p].txn \in Txn
    BY <1>a DEF SoundRun
  <2> QED BY <1>b, <2>1, <2>2 DEF At, Points
<1>6. CASE FollowUp(p) \/ FinishRun(p)
  <2>1. /\ run[p].pc \in {"docs", "docreply"}
        /\ \/ Exit(p)
           \/ run[p].pc = "docs" /\ \E d : Go(p, [run[p] EXCEPT !.todo = run[p].todo \ {d}])
           \/ run[p].pc = "docs" /\ \E d \in run[p].todo : Go(p, Sent(run[p], d))
           \/ run[p].pc = "docreply" /\ Go(p, Answered(run[p]))
    BY <1>6 DEF FollowUp, DocSkipped, DocAccepted, DocRefused, DocSaved, DocReplyLost, FinishRun,
                NextDocs, At
  <2>2. \A d : LET s == [run[p] EXCEPT !.todo = run[p].todo \ {d}]
               IN  s \in SoundRun /\ s.pc = run[p].pc
    BY <1>a, TodoSound
  <2> QED BY <1>a, <2>1, <2>2, SentSound, AnsweredSound DEF At
<1> QED BY <1>1, <1>2, <1>3, <1>4, <1>5, <1>6 DEF Work

LEMMA OneRunStep ==
  ASSUME SameHost, TypeInv, OneRun, [Next]_vars
  PROVE  OneRun'
<1>1. CASE (\E o \in Order : OrderLands(o)) \/ DayAges \/ LateCommit \/ UNCHANGED vars
  <2>1. UNCHANGED <<run, inFlight>>
    BY <1>1 DEF OrderLands, DayAges, LateCommit, vars
  <2> QED BY <2>1 DEF OneRun, At
<1>2. ASSUME NEW p \in Poster, PostDay(p) PROVE OneRun'
  <2>1. \A q \in Poster : run[q].pc = "idle"
    BY <1>2 DEF SameHost, PostDay, NotInFlight, OneRun, At
  <2>2. /\ \A q \in Poster \ {p} : run'[q] = run[q]
        /\ inFlight' = inFlight \cup {HostOf[p]}
    BY <1>2, PostDayBegins
  <2> QED BY <2>1, <2>2 DEF OneRun, At
<1>3. ASSUME NEW p \in Poster, Work(p) PROVE OneRun'
  BY <1>3, WorkGoesOnOrEnds, OneRunEnds, OneRunGoesOn, GoSound, SoundRuns
<1>4. ASSUME NEW p \in Poster, Abort(p) PROVE OneRun'
  BY <1>4, ConstantsOK, OneRunEnds DEF Abort, At
<1> QED BY <1>1, <1>2, <1>3, <1>4 DEF Next

LEMMA OneRunAlways == ASSUME SameHost PROVE Spec => [](TypeInv /\ OneRun)
<1>1. Init => TypeInv /\ OneRun
  BY TypeInit, NoRunSound DEF Init, OneRun, At
<1>2. TypeInv /\ OneRun /\ [Next]_vars => (TypeInv /\ OneRun)'
  BY TypeStep, OneRunStep
<1> QED BY <1>1, <1>2, PTL DEF Spec

-----------------------------------------------------------------------------
(* A sheltered system exposes no order: one run is at work at a time, and no *)
(* mishap of the kinds that expose can happen.                               *)
NothingExposed ==
  /\ OneRun
  /\ \A p \in Poster : At(p, "idle") => run[p].header = {}
  /\ orphans = {}
  /\ exposed = {}

LEMMA NothingExposedInit == Init => NothingExposed
  BY NoRunSound DEF Init, NothingExposed, OneRun, At

(* A run that ends has no header left.                                       *)
LEMMA NothingLeft ==
  ASSUME TypeInv, NothingExposed, UNCHANGED <<orphans, exposed>>, NEW p \in Poster,
         ~ At(p, "idle"), Exit(p), OneRun'
  PROVE  NothingExposed'
<1>1. run'[p].header = {} /\ \A q \in Poster \ {p} : run'[q] = run[q]
  BY SoundRuns, ExitSound, NoRunSound DEF TypeOK
<1> QED BY <1>1 DEF NothingExposed, At

(* A run that ends where it may, alone, knew nothing the rows do not tell.   *)
LEMMA NothingForgotten ==
  ASSUME BillingInv, NothingExposed, NEW p \in Poster, ~ At(p, "idle"),
         run[p].pc \notin Unattended, Forget(p)
  PROVE  exposed' = exposed
<1>1. \A q \in Poster : run[q].pc \notin Unattended
  BY DEF NothingExposed, OneRun, At, Unattended
<1>2. Unrecorded(run[p].header) = {}
  BY <1>1, AccountedFor DEF NothingExposed, Unrecorded
<1> QED BY <1>2 DEF Forget

LEMMA NothingExposedStep ==
  ASSUME Sheltered, TypeInv, BillingInv, NothingExposed, [Next]_vars
  PROVE  NothingExposed'
<1>0. OneRun'
  BY OneRunStep DEF Sheltered, NothingExposed
<1>1. CASE (\E o \in Order : OrderLands(o)) \/ DayAges \/ UNCHANGED vars
  <2>1. UNCHANGED <<run, orphans, exposed>>
    BY <1>1 DEF OrderLands, DayAges, vars, oracle
  <2> QED BY <1>0, <2>1 DEF NothingExposed, At
<1>2. CASE LateCommit
  BY <1>2 DEF LateCommit, NothingExposed
<1>3. ASSUME NEW p \in Poster, PostDay(p) PROVE NothingExposed'
  <2>1. \A q \in Poster : run[q].pc = "idle" /\ run[q].header = {}
    BY <1>3 DEF Sheltered, SameHost, PostDay, NotInFlight, NothingExposed, OneRun, At
  <2>2. Claimed = {}
    BY <2>1 DEF Claimed
  <2>3. /\ \A q \in Poster \ {p} : run'[q] = run[q]
        /\ run'[p].pc # "idle" /\ exposed' = exposed
    BY <1>3, <2>2, PostDayBegins
  <2>4. orphans' = orphans
    BY <1>3 DEF PostDay
  <2> QED BY <1>0, <2>1, <2>3, <2>4 DEF NothingExposed, At
<1>4. ASSUME NEW p \in Poster, Work(p) PROVE NothingExposed'
  <2>1. UNCHANGED <<orphans, exposed>>
    BY <1>4 DEF Sheltered, Work, CheckUncertain, Recheck, Create, CreateAccepted, CreateRefused,
                CreateItemRefused, CreateTimedOut, Reply, ReplyArrives, ReplyLost, ReplyBlank,
                Settle, SettleFound, SettleAbsent, SettleUnknown, Record, MarkUncertain, Persist,
                ClearUncertain, FollowUp, DocSkipped, DocAccepted, DocRefused, DocSaved,
                DocReplyLost, FinishRun, oracle
  <2>2. CASE Exit(p)
    BY <1>0, <1>4, <2>1, <2>2, WorkGoesOnOrEnds, NothingLeft
  <2>3. ASSUME NEW r \in SoundRun, r.pc # "idle", Go(p, r) PROVE NothingExposed'
    BY <1>0, <2>1, <2>3, GoSound, SoundRuns DEF NothingExposed, At
  <2> QED BY <1>4, <2>2, <2>3, WorkGoesOnOrEnds
<1>5. ASSUME NEW p \in Poster, Abort(p) PROVE NothingExposed'
  <2>1. run[p].pc \notin Unattended /\ ~ At(p, "idle")
    BY <1>5, ConstantsOK DEF Abort, Sheltered, At
  <2>2. UNCHANGED <<orphans, exposed>>
    BY <1>5, <2>1, NothingForgotten DEF Abort
  <2> QED BY <1>0, <1>5, <2>1, <2>2, NothingLeft DEF Abort
<1> QED BY <1>1, <1>2, <1>3, <1>4, <1>5 DEF Next

LEMMA ShelteredInvariant ==
  ASSUME Sheltered PROVE Spec => [](TypeInv /\ BillingInv /\ NothingExposed)
<1>1. Init => NothingExposed
  BY NothingExposedInit
<1>2. TypeInv /\ BillingInv /\ NothingExposed /\ [Next]_vars => NothingExposed'
  BY NothingExposedStep
<1> QED BY <1>1, <1>2, BillingInvariant, PTL DEF Spec

(* "Never invoiced twice", however often the day is re-run, whatever times   *)
(* out and however the look-ups answer: in one process, when nothing happens *)
(* between Oracle's commit and the rows that record it.                      *)
THEOREM NeverInvoicedTwice == ASSUME Sheltered PROVE Spec => []InvoicedOnce
<1>1. BillingInv /\ NothingExposed => InvoicedOnce
  BY DEF BillingInv, DoublesAreExposed, NothingExposed, InvoicedOnce
<1> QED BY <1>1, ShelteredInvariant, PTL

(* DailyInvoice implements DailyBilling: the initial states map to initial   *)
(* states, and each step to an order landing, one invoice over landed orders *)
(* that no other invoice carries, or a stutter.                              *)
THEOREM ImplementsBilling == ASSUME Sheltered PROVE Spec => BillingSpec
<1>1. Init => Billing!Init
  BY DEF Init, Billing!Init
<1>2. TypeInv /\ BillingInv /\ NothingExposed /\ [Next]_vars => [Billing!Next]_(Billing!vars)
  <2> SUFFICES ASSUME TypeInv, BillingInv, NothingExposed, [Next]_vars
               PROVE  Billing!Next \/ UNCHANGED <<landed, invoices>>
    BY DEF Billing!vars
  <2>1. ASSUME NEW o \in Order, OrderLands(o) PROVE Billing!Next
    BY <2>1 DEF OrderLands, oracle, Billing!Next, Billing!Land
  <2>2. ASSUME NEW p \in Poster, CreateAccepted(p) PROVE Billing!Next
    <3>1. PICK t \in Txn : invoices[t] = {} /\ invoices' = [invoices EXCEPT ![t] = run[p].header]
      BY <2>2 DEF CreateAccepted, Unused
    <3>2. run[p].header \subseteq landed /\ run[p].header \in SUBSET Order
      BY SoundRuns DEF BillingInv, HeaderFresh, SoundRun, Run
    <3>3. run[p].header \cap Billing!Billed = {}
      BY <2>2 DEF CreateAccepted, BillingInv, NothingExposed, SendsOnlyUnbilled, Billing!Billed
    <3>4. landed' = landed
      BY <2>2 DEF CreateAccepted, source
    <3> QED BY <3>1, <3>2, <3>3, <3>4 DEF Billing!Next, Billing!Bill
  <2>3. CASE LateCommit
    BY <2>3 DEF LateCommit, NothingExposed
  <2>4. CASE DayAges
    BY <2>4 DEF DayAges, oracle
  <2>5. ASSUME NEW p \in Poster, PostDay(p) \/ Abort(p) \/ Recheck(p) \/ CheckUncertain(p)
        PROVE  UNCHANGED <<landed, invoices>>
    BY <2>5 DEF PostDay, Abort, Recheck, CheckUncertain, source, oracle
  <2>6. ASSUME NEW p \in Poster,
               \/ CreateRefused(p) \/ CreateItemRefused(p) \/ CreateTimedOut(p)
               \/ Reply(p) \/ Settle(p) \/ Record(p)
        PROVE  UNCHANGED <<landed, invoices>>
    BY <2>6 DEF CreateRefused, CreateItemRefused, CreateTimedOut, Reply, ReplyArrives, ReplyLost,
                ReplyBlank, Settle, SettleFound, SettleAbsent, SettleUnknown, Record,
                MarkUncertain, Persist, ClearUncertain, source, oracle
  <2>7. ASSUME NEW p \in Poster, FollowUp(p) \/ FinishRun(p)
        PROVE  UNCHANGED <<landed, invoices>>
    BY <2>7 DEF FollowUp, DocSkipped, DocAccepted, DocRefused, DocSaved, DocReplyLost,
                FinishRun, source, oracle
  <2>8. CASE UNCHANGED vars
    BY <2>8 DEF vars, source, oracle
  <2> QED BY <2>1, <2>2, <2>3, <2>4, <2>5, <2>6, <2>7, <2>8 DEF Next, Work, Create
<1> QED BY <1>1, <1>2, ShelteredInvariant, PTL DEF Spec, BillingSpec, Billing!Spec
=============================================================================

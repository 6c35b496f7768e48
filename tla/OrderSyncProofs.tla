--------------------------- MODULE OrderSyncProofs ---------------------------
(***************************************************************************)
(* Proofs about OrderSync, for any number of workers, documents, tries,    *)
(* webhook events and lost workers, and any admitted fault.                *)
(***************************************************************************)
EXTENDS OrderSync, TLAPS

(* Documents 1 .. n are in Oracle, but for those whose refusal is passed     *)
(* over.                                                                     *)
Done(n) == \A i \in 1 .. n : Docs[i] \notin Silent => oracle[Docs[i]] > 0

(* How far a handler that posts has come.                                    *)
Reached(r) ==
  /\ r.pc \in {"post", "posted", "record", "mark"} => perOrder
  /\ r.pc = "post" => Done(r.at - 1)
  /\ r.pc = "posted" => Done(r.at) /\ oracle[Docs[r.at]] > 0
  /\ r.pc \in {"record", "mark"} => Done(Len(Docs))

(* What the handlers and the records say about Oracle is so.                 *)
Backed ==
  /\ \A d \in saved : oracle[d] > 0
  /\ audit => perOrder /\ Done(Len(Docs))
  /\ \A w \in Worker : Reached(run[w])

SyncedInv == TypeOK /\ Backed /\ SyncedIsPosted

(* A handler at work owns the active job, so there is one at most.           *)
Owned ==
  ~harm =>
    /\ \A w \in Worker : ~At(w, "idle") => run[w].owns /\ job.state = "active"
    /\ \A v, w \in Worker : ~At(v, "idle") /\ ~At(w, "idle") => v = w

(* A document in Oracle is recorded, or its only handler is about to.        *)
Accounted ==
  ~harm => \A d \in Checked : oracle[d] > 0 =>
             d \in saved \/ \E w \in Worker : At(w, "posted") /\ Cur(w) = d

OnceInv == TypeOK /\ Owned /\ Accounted /\ PostedOnce

-----------------------------------------------------------------------------
LEMMA CurIsDoc ==
  ASSUME TypeOK, NEW w \in Worker
  PROVE  Cur(w) \in Doc
<1>1. run[w].at \in 1 .. Len(Docs)
  BY DEF TypeOK, Run
<1>2. QED
  BY <1>1 DEF Cur, Doc

(* Replacing what one handler holds keeps the types.                         *)
LEMMA GoTyped ==
  ASSUME TypeOK, NEW w \in Worker, NEW r \in Run, Go(w, r)
  PROVE  run' \in [Worker -> Run]
BY DEF TypeOK, Go

LEMMA StepTyped ==
  ASSUME TypeOK, NEW w \in Worker,
         NEW pc \in {"idle", "check", "guard", "post", "posted", "record", "mark", "done",
                     "thrown"},
         Step(w, pc) \/ Forget(w, pc)
  PROVE  run' \in [Worker -> Run]
<1>1. run[w] \in Run /\ 1 \in 1 .. Len(Docs)
  BY ConstantsOK DEF TypeOK
<1>2. [run[w] EXCEPT !.pc = pc] \in Run
  BY <1>1 DEF Run
<1>3. [Idle EXCEPT !.pc = pc, !.owns = run[w].owns] \in Run
  BY <1>1 DEF Idle, Run, Kind
<1>4. QED
  BY <1>2, <1>3, GoTyped DEF Step, Forget

LEMMA OnwardTyped ==
  ASSUME TypeOK, NEW w \in Worker, Onward(w)
  PROVE  run' \in [Worker -> Run]
<1>1. CASE run[w].at < Len(Docs)
  <2>1. run[w] \in Run /\ Len(Docs) \in Nat
    BY ConstantsOK DEF TypeOK
  <2>2. run[w].at \in 1 .. Len(Docs)
    BY <2>1 DEF Run
  <2>3. run[w].at + 1 \in 1 .. Len(Docs)
    BY <1>1, <2>1, <2>2, SMT
  <2>4. [run[w] EXCEPT !.pc = "post", !.at = @ + 1] \in Run
    BY <2>1, <2>3 DEF Run
  <2>5. QED
    BY <1>1, <2>4, GoTyped DEF Onward
<1>2. CASE ~(run[w].at < Len(Docs))
  BY <1>2, StepTyped DEF Onward
<1>3. QED
  BY <1>1, <1>2

(* So does ending the handler.                                               *)
LEMMA EndsTyped ==
  ASSUME TypeOK, NEW w \in Worker
  PROVE  /\ \A s \in Status : Leave(w, s) => TypeOK'
         /\ \A h \in BOOLEAN : Throw(w, h) /\ (UNCHANGED oracle \/ Posted(w)) => TypeOK'
<1>1. ASSUME NEW s \in Status, Leave(w, s)
      PROVE  TypeOK'
  <2>1. run' \in [Worker -> Run]
    BY <1>1, StepTyped DEF Leave
  <2>2. QED
    BY <1>1, <2>1 DEF Leave, TypeOK
<1>2. ASSUME NEW h \in BOOLEAN, Throw(w, h), UNCHANGED oracle \/ Posted(w)
      PROVE  TypeOK'
  <2>1. run' \in [Worker -> Run]
    BY <1>2, StepTyped DEF Throw
  <2>2. oracle' \in [Doc -> 0 .. 2]
    BY <1>2, CurIsDoc DEF TypeOK, Posted
  <2>3. row' \in Status /\ harm' \in BOOLEAN
    BY <1>2 DEF Throw, TypeOK, Status
  <2>4. QED
    BY <1>2, <2>1, <2>2, <2>3 DEF Throw, TypeOK
<1>3. QED
  BY <1>1, <1>2

LEMMA InitTyped == Init => TypeOK
<1> SUFFICES ASSUME Init PROVE TypeOK
  OBVIOUS
<1>1. 1 \in 1 .. Len(Docs) /\ 0 \in 0 .. Attempts
  BY ConstantsOK
<1>2. Idle \in Run
  BY <1>1 DEF Idle, Run, Kind
<1>3. MaxLosses \in 0 .. MaxLosses
  BY ConstantsOK
<1>4. job \in [state : {"none", "waiting", "active", "finished"}, tries : 0 .. Attempts]
  BY <1>1 DEF Init
<1>5. run \in [Worker -> Run] /\ oracle \in [Doc -> 0 .. 2]
  BY <1>2 DEF Init
<1>6. kind \in Kind /\ row \in Status
  BY DEF Init, Kind, Status
<1>7. perOrder \in BOOLEAN /\ open \in BOOLEAN /\ held \in BOOLEAN /\ audit \in BOOLEAN
      /\ billed \in BOOLEAN /\ harm \in BOOLEAN /\ saved \subseteq Doc
  BY DEF Init
<1>8. QED
  BY <1>3, <1>4, <1>5, <1>6, <1>7 DEF Init, TypeOK

LEMMA OthersTyped == TypeOK /\ Others => TypeOK'
<1> SUFFICES ASSUME TypeOK, Others PROVE TypeOK'
  OBVIOUS
<1> USE DEF TypeOK, Status, Kind
<1>1. ASSUME NEW k \in Kind, Ingest(k) PROVE TypeOK'
  BY <1>1, ConstantsOK DEF Ingest
<1>2. CASE Enqueue
  BY <1>2, ConstantsOK DEF Enqueue
<1>3. CASE SkipVoid
  BY <1>3 DEF SkipVoid
<1>4. CASE Release
  BY <1>4 DEF Release
<1>5. CASE ListStale
  BY <1>5 DEF ListStale
<1>6. CASE CancelStale
  BY <1>6 DEF CancelStale
<1>7. CASE Bill
  BY <1>7 DEF Bill
<1>8. CASE Reset("PENDING") \/ Reset("QUEUED_FOR_RETRY")
  BY <1>8 DEF Reset
<1>9. CASE Cycle
  BY <1>9 DEF Cycle
<1>10. QED
  BY <1>1, <1>2, <1>3, <1>4, <1>5, <1>6, <1>7, <1>8, <1>9 DEF Others

LEMMA OverTyped == Over \in [state : {"none", "waiting", "active", "finished"},
                              tries : 0 .. Attempts]
BY ConstantsOK DEF Over

LEMMA HandleTyped ==
  ASSUME TypeOK, NEW w \in Worker, Handle(w)
  PROVE  TypeOK'
<1>1. row \in Status
  BY DEF TypeOK
<1>2. CASE Decline(w) \/ Duplicate(w) \/ HandOff(w) \/ HoldItems(w) \/ MarkSynced(w)
  BY <1>1, <1>2, EndsTyped
     DEF Decline, Duplicate, HandOff, HoldItems, MarkSynced, Status
<1>3. CASE Fail(w) \/ Refuse(w) \/ ReplyLost(w) \/ SaveLost(w) \/ MarkLost(w)
  BY <1>3, EndsTyped DEF Fail, Refuse, ReplyLost, SaveLost, MarkLost
<1>4. CASE MarkProcessing(w)
  BY <1>4, StepTyped DEF MarkProcessing, TypeOK, Status
<1>5. CASE Proceed(w)
  BY <1>5, StepTyped DEF Proceed, TypeOK
<1>6. CASE Reuse(w) \/ PassOver(w)
  BY <1>6, OnwardTyped DEF Reuse, PassOver, TypeOK
<1>7. CASE Post(w)
  <2>1. oracle' \in [Doc -> 0 .. 2]
    BY <1>7, CurIsDoc DEF Post, TypeOK, Posted
  <2>2. QED
    BY <1>7, <2>1, StepTyped DEF Post, TypeOK
<1>8. CASE TurnedAway(w)
  <2>1. row' \in Status /\ harm' \in BOOLEAN
    BY <1>8 DEF TurnedAway, TypeOK, Status
  <2>2. QED
    BY <1>8, <2>1, StepTyped DEF TurnedAway, TypeOK
<1>9. CASE Save(w)
  BY <1>9, OnwardTyped, CurIsDoc DEF Save, TypeOK
<1>10. CASE Record(w)
  BY <1>10, StepTyped DEF Record, TypeOK
<1>11. CASE End(w)
  <2>1. Idle \in Run
    BY ConstantsOK DEF Idle, Run, Kind
  <2>2. job' \in [state : {"none", "waiting", "active", "finished"}, tries : 0 .. Attempts]
    <3>1. CASE ~run[w].owns
      BY <1>11, <3>1 DEF End, TypeOK
    <3>2. CASE run[w].owns
      BY <1>11, <3>2, ConstantsOK, OverTyped DEF End, TypeOK
    <3>3. QED
      BY <3>1, <3>2
  <2>3. run' \in [Worker -> Run]
    BY <1>11, <2>1, GoTyped DEF End
  <2>4. QED
    BY <1>11, <2>2, <2>3 DEF End, TypeOK
<1>12. QED
  BY <1>2, <1>3, <1>4, <1>5, <1>6, <1>7, <1>8, <1>9, <1>10, <1>11 DEF Handle

LEMMA WorkerTyped ==
  ASSUME TypeOK, NEW w \in Worker, Start(w) \/ Stall(w) \/ Crash(w)
  PROVE  TypeOK'
<1>1. Idle \in Run /\ run[w] \in Run /\ 1 \in 1 .. Len(Docs)
  BY ConstantsOK DEF Idle, Run, Kind, TypeOK
<1>2. CASE Start(w)
  <2>1. [pc |-> "check", kind |-> kind, at |-> 1,
         covered |-> (~perOrder /\ row = "SYNCED"), owns |-> TRUE] \in Run
    BY <1>1 DEF Run, TypeOK
  <2>2. run' \in [Worker -> Run]
    BY <1>2, <2>1, GoTyped DEF Start
  <2>3. QED
    BY <1>2, <2>2 DEF Start, TypeOK
<1>3. CASE Stall(w)
  <2>1. [run[w] EXCEPT !.owns = FALSE] \in Run
    BY <1>1 DEF Run
  <2>2. run' \in [Worker -> Run]
    BY <1>3, <2>1, GoTyped DEF Stall
  <2>3. job' \in [state : {"none", "waiting", "active", "finished"}, tries : 0 .. Attempts]
    BY <1>3, OverTyped DEF Stall, Expire, TypeOK
  <2>4. losses' \in 0 .. MaxLosses
    BY <1>3, ConstantsOK DEF Stall, TypeOK
  <2>5. QED
    BY <1>3, <2>2, <2>3, <2>4 DEF Stall, TypeOK
<1>4. CASE Crash(w)
  <2>1. run' \in [Worker -> Run]
    BY <1>1, <1>4, GoTyped DEF Crash
  <2>2. job' \in [state : {"none", "waiting", "active", "finished"}, tries : 0 .. Attempts]
    BY <1>4, OverTyped DEF Crash, Expire, TypeOK
  <2>3. losses' \in 0 .. MaxLosses /\ harm' \in BOOLEAN
    BY <1>4, ConstantsOK DEF Crash, TypeOK, At
  <2>4. QED
    BY <1>4, <2>1, <2>2, <2>3 DEF Crash, TypeOK
<1>5. QED
  BY <1>2, <1>3, <1>4

LEMMA NextTyped == TypeOK /\ [Next]_vars => TypeOK'
<1>1. TypeOK /\ UNCHANGED vars => TypeOK'
  BY DEF TypeOK, vars
<1>2. QED
  BY <1>1, OthersTyped, HandleTyped, WorkerTyped DEF Next

(* The state keeps its types, whatever the constants.                        *)
THEOREM OrderTypeCorrect == Spec => []TypeOK
BY InitTyped, NextTyped, PTL DEF Spec

-----------------------------------------------------------------------------
(* SyncedIsPosted.                                                           *)

(* What Oracle has, it keeps.                                                *)
Grows == UNCHANGED perOrder /\ \A d \in Doc : oracle[d] > 0 => oracle'[d] > 0

LEMMA AllDone == Done(Len(Docs)) <=> \A d \in Doc \ Silent : oracle[d] > 0
BY DEF Done, Doc

LEMMA DoneKept ==
  ASSUME Grows, NEW n \in 0 .. Len(Docs), Done(n)
  PROVE  Done(n)'
<1>1. \A i \in 1 .. n : Docs[i] \in Doc
  BY ConstantsOK DEF Doc
<1>2. QED
  BY <1>1 DEF Grows, Done

LEMMA ReachedKept ==
  ASSUME Grows, NEW r \in Run, Reached(r)
  PROVE  Reached(r)'
<1>1. r.at \in 1 .. Len(Docs) /\ Len(Docs) \in Nat
  BY ConstantsOK DEF Run
<1>2. /\ r.at - 1 \in 0 .. Len(Docs) /\ r.at \in 0 .. Len(Docs)
      /\ Len(Docs) \in 0 .. Len(Docs)
  BY <1>1
<1>3. Docs[r.at] \in Doc
  BY <1>1 DEF Doc
<1>4. QED
  BY <1>2, <1>3, DoneKept DEF Reached, Grows

(* A handler that goes on with what Oracle has keeps Backed.                 *)
LEMMA BackedKept ==
  ASSUME TypeOK, Backed, NEW w \in Worker, NEW r \in Run, Go(w, r), Grows,
         UNCHANGED <<saved, audit>>, Reached(r)'
  PROVE  Backed'
<1>1. \A d \in saved' : oracle'[d] > 0
  BY DEF Backed, Grows, TypeOK
<1>2. audit' => perOrder' /\ Done(Len(Docs))'
  BY DoneKept, ConstantsOK DEF Backed, Grows
<1>3. ASSUME NEW v \in Worker
      PROVE  Reached(run[v])'
  <2>1. CASE v = w
    <3>1. run'[v] = r
      BY <2>1 DEF Go, TypeOK
    <3>2. QED
      BY <3>1 DEF Reached
  <2>2. CASE v # w
    <3>1. run'[v] = run[v]
      BY <2>2 DEF Go, TypeOK
    <3>2. PICK q \in Run : q = run[v]
      BY DEF TypeOK
    <3>3. Reached(q)
      BY <3>2 DEF Backed
    <3>4. Reached(q)'
      BY <3>3, ReachedKept
    <3>5. QED
      BY <3>1, <3>2, <3>4 DEF Reached
  <2>3. QED
    BY <2>1, <2>2
<1>4. QED
  BY <1>1, <1>2, <1>3 DEF Backed

LEMMA SyncedKept ==
  ASSUME SyncedIsPosted, Grows, billed => billed', row' = "SYNCED" => row = "SYNCED"
  PROVE  SyncedIsPosted'
BY DEF SyncedIsPosted, Grows, Doc

LEMMA LoneRun ==
  ASSUME TypeOK, NEW w \in Worker
  PROVE  /\ run[w] \in Run /\ Idle \in Run
         /\ run[w].at \in 1 .. Len(Docs) /\ Len(Docs) \in Nat \ {0}
         /\ oracle \in [Doc -> 0 .. 2]
BY ConstantsOK DEF TypeOK, Run, Idle, Kind

(* A handler that stops posting.                                             *)
LEMMA StopsBacked ==
  ASSUME TypeOK, Backed, NEW w \in Worker,
         NEW pc \in {"check", "guard", "done", "thrown"},
         Step(w, pc) \/ Forget(w, pc), Grows, UNCHANGED <<saved, audit>>
  PROVE  Backed'
<1>1. [run[w] EXCEPT !.pc = pc] \in Run
  BY LoneRun DEF Run
<1>2. [Idle EXCEPT !.pc = pc, !.owns = run[w].owns] \in Run
  BY LoneRun DEF Idle, Run
<1>3. ASSUME NEW r \in Run, r.pc = pc, Go(w, r) PROVE Backed'
  <2>1. Reached(r)'
    BY <1>3 DEF Reached
  <2>2. QED
    BY <1>3, <2>1, BackedKept
<1>4. [run[w] EXCEPT !.pc = pc].pc = pc
  BY LoneRun DEF Run
<1>5. [Idle EXCEPT !.pc = pc, !.owns = run[w].owns].pc = pc
  BY DEF Idle
<1>6. QED
  BY <1>1, <1>2, <1>3, <1>4, <1>5 DEF Step, Forget

LEMMA LeaveBacked ==
  ASSUME SyncedInv, NEW w \in Worker, NEW s, Leave(w, s),
         s = "SYNCED" => row = "SYNCED" \/ (perOrder /\ Done(Len(Docs)))
  PROVE  Backed' /\ SyncedIsPosted'
<1>1. Grows
  BY DEF Leave, Grows
<1>2. Backed'
  BY <1>1, StopsBacked DEF Leave, SyncedInv
<1>3. SyncedIsPosted'
  <2>1. CASE s = "SYNCED" => row = "SYNCED"
    BY <1>1, <2>1, SyncedKept DEF Leave, SyncedInv
  <2>2. CASE perOrder /\ Done(Len(Docs))
    <3>1. perOrder' /\ \A d \in Doc \ Silent : oracle'[d] > 0
      BY <2>2, AllDone DEF Leave
    <3>2. QED
      BY <3>1 DEF SyncedIsPosted
  <2>3. QED
    BY <2>1, <2>2
<1>4. QED
  BY <1>2, <1>3

LEMMA ThrowBacked ==
  ASSUME SyncedInv, NEW w \in Worker, NEW h, Throw(w, h), Grows
  PROVE  Backed' /\ SyncedIsPosted'
<1>1. Backed'
  BY StopsBacked DEF Throw, SyncedInv
<1>2. SyncedIsPosted'
  BY SyncedKept DEF Throw, SyncedInv
<1>3. QED
  BY <1>1, <1>2

LEMMA PostedGrows ==
  ASSUME TypeOK, NEW w \in Worker, Posted(w), UNCHANGED perOrder
  PROVE  Grows /\ oracle'[Cur(w)] > 0
BY CurIsDoc DEF Posted, TypeOK, Grows

(* Document at is in Oracle, or may be missing: on to the next.              *)
LEMMA OnwardBacked ==
  ASSUME SyncedInv, NEW w \in Worker, Onward(w), perOrder, UNCHANGED <<oracle, audit, perOrder>>,
         Done(run[w].at), UNCHANGED saved \/ (saved' = saved \cup {Cur(w)} /\ oracle[Cur(w)] > 0)
  PROVE  Backed'
<1> DEFINE next == [run[w] EXCEPT !.pc = "post", !.at = @ + 1]
           last == [run[w] EXCEPT !.pc = "record"]
<1>1. run[w] \in Run /\ run[w].at \in 1 .. Len(Docs) /\ Len(Docs) \in Nat
  BY LoneRun DEF SyncedInv
<1>2. \A d \in saved' : oracle'[d] > 0
  BY DEF Backed, SyncedInv
<1>3. audit' => perOrder' /\ Done(Len(Docs))'
  BY DEF SyncedInv, Backed, Done
<1>4. \A v \in Worker \ {w} : run'[v] = run[v]
  BY DEF Onward, Go, Step, SyncedInv, TypeOK
<1>5. ASSUME NEW v \in Worker \ {w} PROVE Reached(run[v])'
  <2>1. Reached(run[v])
    BY DEF SyncedInv, Backed
  <2>2. QED
    BY <1>4, <2>1 DEF Reached, Done
<1>6. Reached(run[w])'
  <2>1. CASE run[w].at < Len(Docs)
    <3>1. run'[w] = next
      BY <2>1 DEF Onward, Go, SyncedInv, TypeOK
    <3>2. next.pc = "post" /\ next.at - 1 = run[w].at
      BY <1>1 DEF Run
    <3>3. QED
      BY <3>1, <3>2 DEF Reached, Done
  <2>2. CASE ~(run[w].at < Len(Docs))
    <3>1. run'[w] = last
      BY <2>2 DEF Onward, Go, Step, SyncedInv, TypeOK
    <3>2. last.pc = "record" /\ run[w].at = Len(Docs)
      BY <1>1, <2>2 DEF Run
    <3>3. QED
      BY <3>1, <3>2 DEF Reached, Done
  <2>3. QED
    BY <2>1, <2>2
<1>7. QED
  BY <1>2, <1>3, <1>5, <1>6 DEF Backed

LEMMA SyncedInit == Init => Backed /\ SyncedIsPosted
<1> SUFFICES ASSUME Init PROVE Backed /\ SyncedIsPosted
  OBVIOUS
<1>1. \A w \in Worker : run[w] = Idle
  BY DEF Init
<1>2. \A w \in Worker : Reached(run[w])
  BY <1>1 DEF Reached, Idle
<1>3. saved = {} /\ audit = FALSE /\ row = "NONE"
  BY DEF Init
<1>4. QED
  BY <1>2, <1>3 DEF Backed, SyncedIsPosted

LEMMA OthersBacked ==
  ASSUME SyncedInv, Others
  PROVE  Backed' /\ SyncedIsPosted'
<1>1. UNCHANGED <<perOrder, run, oracle, saved, audit>>
  BY DEF Others, Ingest, Cycle, Enqueue, SkipVoid, Release, ListStale, CancelStale, Bill, Reset
<1>2. Grows
  BY <1>1 DEF Grows
<1>3. Backed'
  <2>1. \A w \in Worker : Reached(run[w])'
    BY <1>1 DEF SyncedInv, Backed, Reached, Done
  <2>2. QED
    BY <1>1, <2>1 DEF SyncedInv, Backed, Done
<1>4. CASE Bill
  <2>1. ~perOrder /\ perOrder' = perOrder /\ billed' = TRUE
    BY <1>4 DEF Bill
  <2>2. ~perOrder' /\ billed'
    BY <2>1, Zenon
  <2>3. SyncedIsPosted'
    BY <2>2, Zenon DEF SyncedIsPosted
  <2>4. QED
    BY <1>3, <2>3
<1>5. CASE ~Bill
  <2>1. billed' = billed
    BY <1>5 DEF Others, Ingest, Cycle, Enqueue, SkipVoid, Release, ListStale, CancelStale, Reset
  <2>2. row' = "SYNCED" => row = "SYNCED"
    BY <1>5 DEF Others, Ingest, Cycle, Enqueue, SkipVoid, Release, ListStale, CancelStale, Reset
  <2>3. billed => billed'
    BY <2>1, Zenon
  <2>4. SyncedIsPosted'
    BY <1>2, <2>2, <2>3, SyncedKept DEF SyncedInv
  <2>5. QED
    BY <1>3, <2>4
<1>6. QED
  BY <1>3, <1>4, <1>5

LEMMA HandleBacked ==
  ASSUME SyncedInv, NEW w \in Worker, Handle(w)
  PROVE  Backed' /\ SyncedIsPosted'
<1>1. /\ Reached(run[w]) /\ TypeOK /\ Backed /\ SyncedIsPosted
      /\ run[w] \in Run /\ run[w].at \in 1 .. Len(Docs) /\ Len(Docs) \in Nat \ {0}
  BY LoneRun DEF SyncedInv, Backed
<1>2. UNCHANGED <<perOrder, oracle>> => Grows
  BY DEF Grows
<1>3. ASSUME UNCHANGED <<perOrder, oracle, billed, row>> PROVE SyncedIsPosted'
  BY <1>3 DEF SyncedInv, SyncedIsPosted
<1>4. CASE Decline(w) \/ HoldItems(w)
  BY <1>4, LeaveBacked DEF Decline, HoldItems
<1>5. CASE HandOff(w)
  BY <1>5, LeaveBacked DEF HandOff
<1>6. CASE Duplicate(w)
  BY <1>1, <1>6, LeaveBacked DEF Duplicate, Backed
<1>7. CASE MarkSynced(w)
  BY <1>1, <1>7, LeaveBacked DEF MarkSynced, At, Reached
<1>8. CASE Fail(w) \/ Refuse(w) \/ SaveLost(w) \/ MarkLost(w)
  <2>1. Grows
    BY <1>2, <1>8 DEF Fail, Refuse, SaveLost, MarkLost, Throw
  <2>2. QED
    BY <1>8, <2>1, ThrowBacked DEF Fail, Refuse, SaveLost, MarkLost
<1>9. CASE ReplyLost(w)
  <2>1. Grows
    BY <1>1, <1>9, PostedGrows DEF ReplyLost, Throw
  <2>2. QED
    BY <1>9, <2>1, ThrowBacked DEF ReplyLost
<1>10. CASE MarkProcessing(w)
  <2>1. Grows
    BY <1>2, <1>10 DEF MarkProcessing
  <2>2. QED
    BY <1>1, <1>10, <2>1, StopsBacked, SyncedKept DEF MarkProcessing
<1>11. CASE TurnedAway(w)
  <2>1. Grows
    BY <1>2, <1>11 DEF TurnedAway
  <2>2. QED
    BY <1>1, <1>11, <2>1, StopsBacked, SyncedKept DEF TurnedAway
<1>12. CASE Proceed(w)
  <2> DEFINE r == [Idle EXCEPT !.pc = "post", !.owns = run[w].owns]
  <2>1. r \in Run /\ r.pc = "post" /\ r.at = 1
    BY <1>1, LoneRun DEF Idle, Run
  <2>2. PICK q \in Run : q = r
    BY <2>1
  <2>3. Go(w, q) /\ perOrder'
    BY <1>12, <2>2 DEF Proceed, Forget
  <2>4. Reached(q)'
    BY <2>1, <2>2, <2>3 DEF Reached, Done
  <2>5. QED
    <3>1. Grows /\ UNCHANGED <<saved, audit, oracle, billed, row, perOrder>>
      BY <1>2, <1>12 DEF Proceed
    <3>2. Backed'
      BY <1>1, <2>3, <2>4, <3>1, BackedKept
    <3>3. QED
      BY <1>3, <3>1, <3>2
<1>13. CASE Reuse(w) \/ PassOver(w)
  <2>1. /\ At(w, "post") /\ Onward(w)
        /\ UNCHANGED <<perOrder, oracle, audit, saved, billed, row>>
    BY <1>13 DEF Reuse, PassOver, MayPost
  <2>2. perOrder /\ Done(run[w].at - 1)
    BY <1>1, <2>1 DEF At, Reached
  <2>3. Cur(w) \in Silent \/ oracle[Cur(w)] > 0
    BY <1>1, <1>13 DEF Reuse, PassOver, Backed
  <2>4. Done(run[w].at)
    BY <1>1, <2>2, <2>3 DEF Done, Cur
  <2>5. QED
    BY <1>3, <2>1, <2>2, <2>4, OnwardBacked
<1>14. CASE Post(w)
  <2> DEFINE r == [run[w] EXCEPT !.pc = "posted"]
  <2>1. r \in Run /\ r.pc = "posted" /\ r.at = run[w].at
    BY <1>1 DEF Run
  <2>2. Go(w, r) /\ UNCHANGED <<saved, audit, perOrder, billed, row>>
    BY <1>14 DEF Post, Step
  <2>3. Grows /\ oracle'[Cur(w)] > 0
    BY <1>1, <1>14, <2>2, PostedGrows DEF Post
  <2>4. perOrder /\ Done(run[w].at - 1)
    BY <1>1, <1>14 DEF Post, MayPost, At, Reached
  <2>5. \A i \in 1 .. run[w].at : Docs[i] \notin Silent => oracle'[Docs[i]] > 0
    <3>1. \A i \in 1 .. run[w].at : Docs[i] \in Doc
      BY <1>1 DEF Doc
    <3>2. QED
      BY <1>1, <2>3, <2>4, <3>1 DEF Done, Grows, Cur
  <2>6. PICK q \in Run : q = r
    BY <2>1
  <2>7. Reached(q)'
    BY <2>1, <2>2, <2>3, <2>4, <2>5, <2>6 DEF Reached, Done, Cur
  <2>8. Backed'
    BY <1>1, <2>2, <2>3, <2>6, <2>7, BackedKept
  <2>9. QED
    BY <1>1, <2>2, <2>3, <2>8, SyncedKept
<1>15. CASE Save(w)
  <2>1. /\ At(w, "posted") /\ Onward(w) /\ saved' = saved \cup {Cur(w)}
        /\ UNCHANGED <<perOrder, oracle, audit, billed, row>>
    BY <1>15 DEF Save
  <2>2. perOrder /\ Done(run[w].at)
    BY <1>1, <2>1 DEF At, Reached
  <2>3. oracle[Cur(w)] > 0
    BY <1>1, <2>1 DEF At, Reached, Cur
  <2>4. QED
    BY <1>3, <2>1, <2>2, <2>3, OnwardBacked
<1>16. CASE Record(w)
  <2>1. perOrder /\ Done(Len(Docs))
    BY <1>1, <1>16 DEF Record, At, Reached
  <2>2. UNCHANGED <<perOrder, oracle, saved, billed, row>>
    BY <1>16 DEF Record
  <2>3. run' = [run EXCEPT ![w] = [run[w] EXCEPT !.pc = "mark"]]
    BY <1>16 DEF Record, Step, Go
  <2>4. \A v \in Worker : run'[v] = run[v] \/ run'[v].pc = "mark"
    BY <1>1, <2>3 DEF TypeOK, Run
  <2>5. \A v \in Worker : Reached(run[v])'
    BY <1>1, <2>1, <2>2, <2>4 DEF Backed, Reached, Done
  <2>6. Backed'
    BY <1>1, <2>1, <2>2, <2>5 DEF Backed, Done
  <2>7. QED
    BY <1>3, <2>2, <2>6
<1>17. CASE End(w)
  <2>1. UNCHANGED <<perOrder, oracle, saved, audit, billed, row>> /\ Go(w, Idle)
    BY <1>17 DEF End
  <2>2. Reached(Idle)'
    BY DEF Reached, Idle
  <2>3. QED
    BY <1>1, <1>2, <1>3, <2>1, <2>2, LoneRun, BackedKept
<1>18. QED
  BY <1>4, <1>5, <1>6, <1>7, <1>8, <1>9, <1>10, <1>11, <1>12, <1>13, <1>14, <1>15, <1>16,
     <1>17 DEF Handle

LEMMA SyncedStep == SyncedInv /\ [Next]_vars => SyncedInv'
<1> SUFFICES ASSUME SyncedInv, [Next]_vars PROVE SyncedInv'
  OBVIOUS
<1>1. TypeOK'
  BY NextTyped DEF SyncedInv
<1>2. ASSUME NEW w \in Worker, Start(w) \/ Stall(w) \/ Crash(w)
      PROVE  Backed' /\ SyncedIsPosted'
  <2>1. UNCHANGED <<perOrder, row, oracle, saved, audit, billed>>
    BY <1>2 DEF Start, Stall, Crash
  <2>2. \A v \in Worker \ {w} : run'[v] = run[v]
    BY <1>2 DEF Start, Stall, Crash, Go, SyncedInv, TypeOK
  <2>3. run'[w].pc \in {"check", "idle"} \/ (run'[w].pc = run[w].pc /\ run'[w].at = run[w].at)
    BY <1>2 DEF Start, Stall, Crash, Go, SyncedInv, TypeOK, Idle, Run
  <2>4. \A v \in Worker : Reached(run[v])
    BY DEF SyncedInv, Backed
  <2>5. \A v \in Worker : Reached(run[v])'
    BY <2>1, <2>2, <2>3, <2>4 DEF Reached, Done
  <2>6. Backed'
    BY <2>1, <2>5 DEF SyncedInv, Backed, Done
  <2>7. SyncedIsPosted'
    BY <2>1 DEF SyncedInv, SyncedIsPosted
  <2>8. QED
    BY <2>6, <2>7
<1>3. CASE UNCHANGED vars
  <2>1. UNCHANGED <<perOrder, row, run, oracle, saved, audit, billed>>
    BY <1>3 DEF vars
  <2>2. \A v \in Worker : Reached(run[v])'
    BY <2>1 DEF SyncedInv, Backed, Reached, Done
  <2>3. Backed'
    BY <2>1, <2>2 DEF SyncedInv, Backed, Done
  <2>4. SyncedIsPosted'
    BY <2>1 DEF SyncedInv, SyncedIsPosted
  <2>5. QED
    BY <1>1, <2>3, <2>4 DEF SyncedInv
<1>4. QED
  BY <1>1, <1>2, <1>3, OthersBacked, HandleBacked DEF Next, SyncedInv

(* An order shown as SYNCED is in Oracle: for any documents, tries, workers  *)
(* that overlap or die, lost answers, failed saves and operators' resets.    *)
THEOREM SyncedMeansPosted == Spec => []SyncedIsPosted
<1>1. Init => SyncedInv
  BY InitTyped, SyncedInit DEF SyncedInv
<1>2. SyncedInv => SyncedIsPosted
  BY DEF SyncedInv
<1>3. QED
  BY <1>1, <1>2, SyncedStep, PTL DEF Spec

-----------------------------------------------------------------------------
(* OneAtATime and PostedOnce.                                                *)

LEMMA OwnedInit == Init => Owned
BY DEF Init, Owned, At, Idle

LEMMA OthersOwned ==
  ASSUME TypeOK, Owned, Others
  PROVE  Owned'
<1>1. UNCHANGED <<run, harm>>
  BY DEF Others, Ingest, Cycle, Enqueue, SkipVoid, Release, ListStale, CancelStale, Bill, Reset
<1>2. job' = job \/ job.state \in {"none", "finished"}
  BY DEF Others, Ingest, Cycle, Enqueue, SkipVoid, Release, ListStale, CancelStale, Bill, Reset
<1>3. QED
  BY <1>1, <1>2 DEF Owned, At

(* Another point of the same handler.                                        *)
LEMMA SameOwner ==
  ASSUME TypeOK, Owned, NEW w \in Worker, ~At(w, "idle"), NEW r, Go(w, r),
         r.owns = run[w].owns, UNCHANGED job, harm => harm'
  PROVE  Owned'
<1>1. \A v \in Worker : run'[v] = IF v = w THEN r ELSE run[v]
  BY DEF Go, TypeOK
<1>2. QED
  BY <1>1 DEF Owned, At

(* The handler's steps but the last leave the job and its owner alone.       *)
LEMMA HandleKeepsJob ==
  ASSUME TypeOK, NEW w \in Worker, Handle(w), ~End(w)
  PROVE  /\ ~At(w, "idle") /\ UNCHANGED job /\ (harm => harm')
         /\ \E r : Go(w, r) /\ r.owns = run[w].owns
<1>1. run[w] \in Run /\ harm \in BOOLEAN
  BY DEF TypeOK
<1>2. \A pc : /\ [run[w] EXCEPT !.pc = pc].owns = run[w].owns
             /\ [run[w] EXCEPT !.pc = pc, !.at = @ + 1].owns = run[w].owns
             /\ [Idle EXCEPT !.pc = pc, !.owns = run[w].owns].owns = run[w].owns
  BY <1>1 DEF Run, Idle
<1>3. ASSUME NEW pc, Step(w, pc) \/ Forget(w, pc) \/ Onward(w)
      PROVE  \E r : Go(w, r) /\ r.owns = run[w].owns
  BY <1>2, <1>3 DEF Step, Forget, Onward
<1>4. ASSUME Decline(w) \/ Duplicate(w) \/ HandOff(w) \/ HoldItems(w) \/ MarkSynced(w)
      PROVE  /\ ~At(w, "idle") /\ UNCHANGED <<job, harm>> /\ Forget(w, "done")
  BY <1>4 DEF Decline, Duplicate, HandOff, HoldItems, MarkSynced, Leave, At
<1>5. ASSUME Fail(w) \/ Refuse(w) \/ ReplyLost(w) \/ SaveLost(w) \/ MarkLost(w)
      PROVE  /\ ~At(w, "idle") /\ UNCHANGED job /\ (harm => harm') /\ Forget(w, "thrown")
  BY <1>1, <1>5 DEF Fail, Refuse, ReplyLost, SaveLost, MarkLost, Throw, At, MayPost
<1>6. ASSUME MarkProcessing(w) \/ Post(w) \/ Record(w)
      PROVE  /\ ~At(w, "idle") /\ UNCHANGED <<job, harm>> /\ \E pc : Step(w, pc)
  BY <1>6 DEF MarkProcessing, Post, Record, At, MayPost
<1>7. ASSUME Reuse(w) \/ PassOver(w) \/ Save(w)
      PROVE  /\ ~At(w, "idle") /\ UNCHANGED <<job, harm>> /\ Onward(w)
  BY <1>7 DEF Reuse, PassOver, Save, At, MayPost
<1>8. ASSUME Proceed(w) \/ TurnedAway(w)
      PROVE  /\ ~At(w, "idle") /\ UNCHANGED job /\ (harm => harm') /\ \E pc : Forget(w, pc)
  BY <1>1, <1>8 DEF Proceed, TurnedAway, At, MayPost
<1>9. QED
  BY <1>3, <1>4, <1>5, <1>6, <1>7, <1>8 DEF Handle

LEMMA OwnedStep ==
  ASSUME TypeOK, Owned, [Next]_vars
  PROVE  Owned'
<1>1. ASSUME NEW w \in Worker, Handle(w), ~End(w)
      PROVE  Owned'
  BY <1>1, HandleKeepsJob, SameOwner
<1>2. ASSUME NEW w \in Worker, Crash(w) \/ End(w)
      PROVE  Owned'
  <2>1. ~At(w, "idle") /\ (harm => harm')
    BY <1>2 DEF Crash, End, At, TypeOK
  <2>2. \A v \in Worker : run'[v] = IF v = w THEN Idle ELSE run[v]
    BY <1>2 DEF Crash, End, Go, TypeOK
  <2>3. ~harm => \A v \in Worker : At(v, "idle")'
    BY <2>1, <2>2 DEF Owned, At, Idle
  <2>4. QED
    BY <2>1, <2>3 DEF Owned, At
<1>3. ASSUME NEW w \in Worker, Start(w)
      PROVE  Owned'
  <2>1. job.state = "waiting" /\ job'.state = "active" /\ UNCHANGED harm
    BY <1>3 DEF Start, TypeOK
  <2>2. ~harm => \A v \in Worker : At(v, "idle")
    BY <2>1 DEF Owned
  <2>3. \A v \in Worker \ {w} : run'[v] = run[v]
    BY <1>3 DEF Start, Go, TypeOK
  <2>4. run'[w].owns
    BY <1>3 DEF Start, Go, TypeOK
  <2>5. QED
    BY <2>1, <2>2, <2>3, <2>4 DEF Owned, At
<1>4. ASSUME NEW w \in Worker, Stall(w)
      PROVE  Owned'
  BY <1>4 DEF Stall, Owned
<1>5. CASE UNCHANGED vars
  BY <1>5 DEF vars, Owned, At
<1>6. QED
  BY <1>1, <1>2, <1>3, <1>4, <1>5, OthersOwned DEF Next

(* Two handlers never work on the order at once, unless something harmful    *)
(* happened.                                                                 *)
THEOREM NeverTwoAtOnce == Spec => []OneAtATime
<1>1. Init => TypeOK /\ Owned
  BY InitTyped, OwnedInit
<1>2. TypeOK /\ Owned /\ [Next]_vars => (TypeOK /\ Owned)'
  BY NextTyped, OwnedStep
<1>3. TypeOK /\ Owned => OneAtATime
  BY DEF Owned, OneAtATime
<1>4. QED
  BY <1>1, <1>2, <1>3, PTL DEF Spec

LEMMA OnceInit == Init => Accounted /\ PostedOnce
BY DEF Init, Accounted, PostedOnce, Checked

(* Nothing is posted, and a handler between an answer and its record stays   *)
(* where it is.                                                              *)
LEMMA OnceKept ==
  ASSUME OnceInv, UNCHANGED oracle, saved \subseteq saved', harm => harm',
         ~harm' => \A w \in Worker :
                     At(w, "posted") => run'[w] = run[w] \/ Cur(w) \in saved'
  PROVE  Accounted' /\ PostedOnce'
<1>1. PostedOnce'
  BY DEF OnceInv, PostedOnce
<1>2. SUFFICES ASSUME ~harm', NEW d \in Checked, oracle'[d] > 0
               PROVE  d \in saved' \/ \E w \in Worker : At(w, "posted")' /\ Cur(w)' = d
  BY <1>1 DEF Accounted
<1>3. d \in saved \/ \E w \in Worker : At(w, "posted") /\ Cur(w) = d
  BY <1>2 DEF OnceInv, Accounted
<1>4. CASE d \in saved
  BY <1>4
<1>5. ASSUME NEW w \in Worker, At(w, "posted"), Cur(w) = d
      PROVE  d \in saved' \/ (At(w, "posted")' /\ Cur(w)' = d)
  BY <1>2, <1>5 DEF At, Cur
<1>6. QED
  BY <1>3, <1>4, <1>5

LEMMA OnceStep ==
  ASSUME OnceInv, [Next]_vars
  PROVE  Accounted' /\ PostedOnce'
<1>1. TypeOK /\ Owned /\ Accounted /\ PostedOnce
  BY DEF OnceInv
<1>2. CASE Others \/ UNCHANGED vars
  <2>1. UNCHANGED <<run, oracle, saved, harm>>
    BY <1>2 DEF Others, Ingest, Cycle, Enqueue, SkipVoid, Release, ListStale, CancelStale, Bill,
                Reset, vars
  <2>2. QED
    BY <2>1, OnceKept
<1>3. ASSUME NEW w \in Worker,
             \/ Start(w) \/ Stall(w) \/ Crash(w) \/ End(w)
             \/ Handle(w) /\ ~Post(w) /\ ~ReplyLost(w) /\ ~Save(w)
      PROVE  Accounted' /\ PostedOnce'
  <2>1. UNCHANGED <<oracle, saved>>
    BY <1>3 DEF Start, Stall, Crash, End, Handle, Decline, MarkProcessing, Duplicate, HandOff,
                HoldItems, Proceed, Fail, Reuse, TurnedAway, PassOver, Refuse, SaveLost, Record,
                MarkSynced, MarkLost, Leave, Throw
  <2>2. harm => harm'
    BY <1>1, <1>3 DEF Start, Stall, Crash, End, Handle, Decline, MarkProcessing, Duplicate,
                HandOff, HoldItems, Proceed, Fail, Reuse, TurnedAway, PassOver, Refuse, SaveLost,
                Record, MarkSynced, MarkLost, Leave, Throw, TypeOK
  <2>3. \A v \in Worker \ {w} : run'[v] = run[v]
    BY <1>1, <1>3 DEF Start, Stall, Crash, End, Handle, Decline, MarkProcessing, Duplicate,
                HandOff, HoldItems, Proceed, Fail, Reuse, TurnedAway, PassOver, Refuse, SaveLost,
                Record, MarkSynced, MarkLost, Leave, Throw, TypeOK, Go, Step, Forget, Onward
  <2>4. At(w, "posted") => harm'
    BY <1>1, <1>3 DEF Start, Stall, Crash, End, Handle, Decline, MarkProcessing, Duplicate,
                HandOff, HoldItems, Proceed, Fail, Reuse, TurnedAway, PassOver, Refuse, SaveLost,
                Record, MarkSynced, MarkLost, Leave, Throw, At, MayPost
  <2>5. QED
    BY <2>1, <2>2, <2>3, <2>4, OnceKept DEF At
<1>4. ASSUME NEW w \in Worker, Save(w)
      PROVE  Accounted' /\ PostedOnce'
  <2>1. \A v \in Worker \ {w} : run'[v] = run[v]
    BY <1>1, <1>4 DEF Save, Onward, Step, Go, TypeOK
  <2>2. UNCHANGED <<oracle, harm>> /\ saved' = saved \cup {Cur(w)}
    BY <1>4 DEF Save
  <2>3. QED
    BY <2>1, <2>2, OnceKept
<1>5. ASSUME NEW w \in Worker, ReplyLost(w)
      PROVE  Accounted' /\ PostedOnce'
  <2>1. harm' = TRUE
    BY <1>5 DEF ReplyLost, Throw
  <2>2. QED
    BY <2>1 DEF Accounted, PostedOnce
<1>6. ASSUME NEW w \in Worker, Post(w)
      PROVE  Accounted' /\ PostedOnce'
  <2>1. CASE harm
    BY <1>6, <2>1 DEF Post, Accounted, PostedOnce
  <2>2. CASE ~harm
    <3>1. /\ run[w].pc = "post" /\ Cur(w) \notin saved \cap Checked
          /\ UNCHANGED <<saved, harm>>
      BY <1>6 DEF Post, MayPost, At
    <3>2. \A v \in Worker : ~At(v, "posted")
      BY <1>1, <2>2, <3>1 DEF Owned, At
    <3>3. Cur(w) \in Checked => oracle[Cur(w)] = 0
      <4>1. Cur(w) \in Checked => ~(oracle[Cur(w)] > 0)
        BY <1>1, <2>2, <3>1, <3>2 DEF Accounted
      <4>2. Cur(w) \in Doc /\ oracle[Cur(w)] \in 0 .. 2
        BY <1>1, CurIsDoc DEF TypeOK
      <4>3. QED
        BY <4>1, <4>2
    <3>4. \A d \in Doc : oracle'[d] = IF d = Cur(w) THEN IF oracle[d] = 0 \/ d \in Unchecked THEN 1
                                           ELSE 2
                                      ELSE oracle[d]
      BY <1>1, <1>6, CurIsDoc DEF Post, Posted, TypeOK
    <3>5. PostedOnce'
      BY <1>1, <2>2, <3>1, <3>3, <3>4 DEF PostedOnce, Checked
    <3>6. run'[w] = [run[w] EXCEPT !.pc = "posted"]
      BY <1>1, <1>6 DEF Post, Step, Go, TypeOK
    <3>7. At(w, "posted")' /\ Cur(w)' = Cur(w)
      BY <1>1, <3>6 DEF At, Cur, TypeOK, Run
    <3>8. Accounted'
      BY <1>1, <3>1, <2>2, <3>2, <3>4, <3>7 DEF Accounted, Checked
    <3>9. QED
      BY <3>5, <3>8
  <2>3. QED
    BY <2>1, <2>2
<1>7. QED
  BY <1>2, <1>3, <1>4, <1>5, <1>6 DEF Next, Handle

(* A checked document is posted at most once, unless something harmful       *)
(* happened.                                                                 *)
THEOREM NeverPostedTwice == Spec => []PostedOnce
<1>1. Init => OnceInv
  BY InitTyped, OwnedInit, OnceInit DEF OnceInv
<1>2. OnceInv /\ [Next]_vars => OnceInv'
  BY NextTyped, OwnedStep, OnceStep DEF OnceInv
<1>3. OnceInv => PostedOnce
  BY DEF OnceInv
<1>4. QED
  BY <1>1, <1>2, <1>3, PTL DEF Spec
==============================================================================

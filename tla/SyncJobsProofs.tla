---------------------------- MODULE SyncJobsProofs ----------------------------
(***************************************************************************)
(* Proofs about SyncJobs, for any number of jobs, orders, tries and        *)
(* mishaps.                                                                *)
(***************************************************************************)
EXTENDS SyncJobs, TLAPS, FiniteSetTheorems

Row   == [status : {"NONE", "PENDING", "COMPLETED", "PARTIAL", "FAILED", "CANCELLED"},
          total : 0 .. Enough, processed : 0 .. Enough,
          failed : BOOLEAN, progressed : BOOLEAN]
Maker == [pc : {"none", "list", "update", "made"},
          auto : BOOLEAN, enqueued : SUBSET Order, skipped : 0 .. Enough]
Entry == [state : {"none", "waiting", "active", "finished"},
          job : Job \cup {NoJob}, tries : 0 .. Attempts]
Hand  == [pc : {"idle", "work", "count", "outcome", "judge", "finalise", "end"},
          outcome : Outcome, throws : BOOLEAN,
          verdict : {"NONE", "COMPLETED", "PARTIAL", "FAILED"}]

CountsFor(o) == hand[o].pc \in {"count", "outcome", "judge", "finalise"}

(* A handler is at work on an active entry, and counts for a job.            *)
Linked ==
  \A o \in Order : /\ hand[o].pc # "idle" <=> queue[o].state = "active"
                   /\ CountsFor(o) => queue[o].job # NoJob

(* What a job is about to count fits among the orders.                       *)
Fits == \A j \in Job : maker[j].pc = "update" =>
          Cardinality(maker[j].enqueued) + maker[j].skipped <= Enough

TypeInv == TypeOK /\ Fits

-----------------------------------------------------------------------------
LEMMA Sizes ==
  /\ Enough \in Nat
  /\ \A S \in SUBSET Order : IsFiniteSet(S) /\ Cardinality(S) \in 0 .. Enough
<1>1. IsFiniteSet(Order) /\ Enough \in Nat
  BY JobsConstantsOK, FS_CardinalityType DEF Enough
<1>2. ASSUME NEW S \in SUBSET Order
      PROVE  IsFiniteSet(S) /\ Cardinality(S) \in 0 .. Enough
  <2>1. IsFiniteSet(S) /\ Cardinality(S) <= Enough
    BY <1>1, FS_Subset DEF Enough
  <2>2. Cardinality(S) \in Nat
    BY <2>1, FS_CardinalityType
  <2>3. QED
    BY <1>1, <2>1, <2>2
<1>3. QED
  BY <1>1, <1>2

LEMMA Apart ==
  ASSUME NEW S \in SUBSET Order, NEW T \in SUBSET Order, S \cap T = {}
  PROVE  Cardinality(S) + Cardinality(T) <= Enough
<1>1. IsFiniteSet(S) /\ IsFiniteSet(T) /\ Cardinality(S) \in Nat /\ Cardinality(T) \in Nat
  BY Sizes
<1>2. Cardinality(S \cup T) = Cardinality(S) + Cardinality(T) - Cardinality({})
  BY <1>1, FS_Union
<1>3. Cardinality({}) = 0
  BY FS_EmptySet
<1>4. S \cup T \in SUBSET Order
  OBVIOUS
<1>5. Cardinality(S \cup T) \in 0 .. Enough /\ Enough \in Nat
  BY <1>4, Sizes
<1>6. QED
  BY <1>1, <1>2, <1>3, <1>5

LEMMA TypeParts ==
  TypeOK <=> /\ sync \in [Job -> Row] /\ maker \in [Job -> Maker]
             /\ queue \in [Order -> Entry] /\ hand \in [Order -> Hand]
             /\ cron \in {"idle", "clear", "making"} /\ handled \in [Job -> SUBSET Order]
             /\ astray \subseteq Job /\ harm \in BOOLEAN /\ events \in 0 .. MaxEvents
             /\ Linked
BY DEF TypeOK, Row, Maker, Entry, Hand, Linked, CountsFor

LEMMA TypePartsNext ==
  TypeOK' <=> /\ sync' \in [Job -> Row] /\ maker' \in [Job -> Maker]
              /\ queue' \in [Order -> Entry] /\ hand' \in [Order -> Hand]
              /\ cron' \in {"idle", "clear", "making"} /\ handled' \in [Job -> SUBSET Order]
              /\ astray' \subseteq Job /\ harm' \in BOOLEAN /\ events' \in 0 .. MaxEvents
              /\ Linked'
BY DEF TypeOK, Row, Maker, Entry, Hand, Linked, CountsFor

(* The values jobs, makers, entries and handlers begin and end with.         *)
LEMMA BlankTyped ==
  /\ NoRow \in Row /\ \A j : Saved(j) \in Row
  /\ NoMaker \in Maker /\ NoHand \in Hand
  /\ [state |-> "none", job |-> NoJob, tries |-> 0] \in Entry
  /\ \A j \in Job \cup {NoJob} : [state |-> "waiting", job |-> j, tries |-> Attempts] \in Entry
<1>1. 0 \in 0 .. Enough /\ 0 \in 0 .. Attempts /\ Attempts \in 0 .. Attempts
  BY Sizes, JobsConstantsOK
<1>2. NoRow \in Row
  BY <1>1 DEF NoRow, Row
<1>3. \A j : Saved(j) \in Row
  BY <1>2 DEF Saved, Row
<1>4. NoMaker \in Maker
  BY <1>1 DEF NoMaker, Maker
<1>5. NoHand \in Hand
  BY DEF NoHand, Hand, Outcome
<1>6. QED
  BY <1>1, <1>2, <1>3, <1>4, <1>5 DEF Entry

LEMMA InitTyped == Init => TypeInv
<1> SUFFICES ASSUME Init PROVE TypeInv
  OBVIOUS
<1>1. sync \in [Job -> Row] /\ maker \in [Job -> Maker] /\ \A j \in Job : maker[j].pc = "none"
  BY BlankTyped DEF Init, NoMaker
<1>2. queue \in [Order -> Entry] /\ hand \in [Order -> Hand] /\ Linked
  BY BlankTyped DEF Init, Linked, CountsFor, NoHand
<1>3. cron \in {"idle", "clear", "making"} /\ handled \in [Job -> SUBSET Order]
  BY DEF Init
<1>4. astray \subseteq Job /\ harm \in BOOLEAN
  BY DEF Init
<1>5. events \in 0 .. MaxEvents
  BY JobsConstantsOK DEF Init
<1>6. QED
  BY <1>1, <1>2, <1>3, <1>4, <1>5, TypeParts DEF TypeInv, Fits

LEMMA EventTyped == ASSUME events \in 0 .. MaxEvents, Event PROVE events' \in 0 .. MaxEvents
BY JobsConstantsOK DEF Event

LEMMA LeaveTyped ==
  ASSUME TypeInv, NEW j \in Job, Leave(j)
  PROVE  /\ maker' \in [Job -> Maker] /\ Fits' /\ cron' \in {"idle", "clear", "making"}
         /\ maker'[j].pc = "made" /\ maker'[j].enqueued = maker[j].enqueued
         /\ \A i \in Job \ {j} : maker'[i] = maker[i]
<1> DEFINE made == [NoMaker EXCEPT !.pc = "made", !.enqueued = maker[j].enqueued]
<1>1. maker \in [Job -> Maker] /\ maker[j] \in Maker /\ cron \in {"idle", "clear", "making"}
  BY TypeParts DEF TypeInv
<1>2. made \in Maker /\ made.pc = "made" /\ made.enqueued = maker[j].enqueued
  BY <1>1, BlankTyped DEF Maker, NoMaker
<1>3. maker' = [maker EXCEPT ![j] = made] /\ cron' \in {"idle", "clear", "making"}
  BY <1>1 DEF Leave
<1>4. \A i \in Job : maker'[i] = IF i = j THEN made ELSE maker[i]
  BY <1>1, <1>3
<1> HIDE DEF made
<1>5. maker' \in [Job -> Maker]
  BY <1>1, <1>2, <1>3
<1>6. Fits'
  BY <1>2, <1>4 DEF TypeInv, Fits
<1>7. QED
  BY <1>2, <1>3, <1>4, <1>5, <1>6

LEMMA SaveTyped ==
  ASSUME TypeInv, NEW j \in Job, NEW auto \in BOOLEAN, Save(j, auto)
  PROVE  /\ maker' \in [Job -> Maker] /\ Fits' /\ maker'[j].pc = "list"
         /\ maker'[j].enqueued = maker[j].enqueued
         /\ \A i \in Job \ {j} : maker'[i] = maker[i]
<1> DEFINE m == [maker[j] EXCEPT !.pc = "list", !.auto = auto]
<1>1. maker \in [Job -> Maker] /\ maker[j] \in Maker
  BY TypeParts DEF TypeInv
<1>2. m \in Maker /\ m.pc = "list" /\ m.enqueued = maker[j].enqueued
  BY <1>1 DEF Maker
<1>3. maker' = [maker EXCEPT ![j] = m]
  BY <1>1 DEF Save
<1>4. \A i \in Job : maker'[i] = IF i = j THEN m ELSE maker[i]
  BY <1>1, <1>3
<1> HIDE DEF m
<1>5. maker' \in [Job -> Maker]
  BY <1>1, <1>2, <1>3
<1>6. Fits'
  BY <1>2, <1>4 DEF TypeInv, Fits
<1>7. QED
  BY <1>2, <1>4, <1>5, <1>6

LEMMA TotalsTyped ==
  ASSUME TypeInv, NEW j \in Job, maker[j].pc = "update"
  PROVE  /\ Totals(j) \in Row
         /\ Totals(j).total = Cardinality(maker[j].enqueued) + maker[j].skipped
         /\ Totals(j).processed = maker[j].skipped /\ Totals(j).failed = sync[j].failed
         /\ Totals(j).status = "PENDING" <=> maker[j].enqueued # {}
<1>1. sync[j] \in Row /\ maker[j].skipped \in 0 .. Enough /\ maker[j].enqueued \in SUBSET Order
  BY TypeParts DEF TypeInv, Maker
<1>2. Cardinality(maker[j].enqueued) + maker[j].skipped \in 0 .. Enough
  BY <1>1, Sizes DEF TypeInv, Fits
<1>3. (maker[j].skipped > 0) \in BOOLEAN
  OBVIOUS
<1>4. QED
  BY <1>1, <1>2, <1>3 DEF Totals, Row

(* What making, operators and the pipeline do.                               *)
LEMMA MakersTyped ==
  ASSUME TypeInv,
         \/ Tick \/ Pass
         \/ \E j \in Job :
              \/ \E adds, skips \in SUBSET Order : List(j, adds, skips)
              \/ Update(j) \/ MakerDies(j) \/ MakeForAll(j) \/ Make(j) \/ Cancel(j)
              \/ \E i \in Job : Retry(i, j)
  PROVE  TypeInv'
<1>1. /\ sync \in [Job -> Row] /\ maker \in [Job -> Maker] /\ queue \in [Order -> Entry]
      /\ hand \in [Order -> Hand] /\ cron \in {"idle", "clear", "making"}
      /\ handled \in [Job -> SUBSET Order] /\ astray \subseteq Job /\ harm \in BOOLEAN
      /\ events \in 0 .. MaxEvents /\ Linked
  BY TypeParts DEF TypeInv
<1>2. UNCHANGED <<hand, queue>> => Linked'
  BY <1>1 DEF Linked, CountsFor
<1>3. UNCHANGED maker => Fits'
  BY DEF TypeInv, Fits
<1>4. CASE Tick \/ Pass
  BY <1>1, <1>2, <1>3, <1>4, TypePartsNext DEF Tick, Pass, TypeInv
<1>5. ASSUME NEW j \in Job, NEW adds \in SUBSET Order, NEW skips \in SUBSET Order,
             List(j, adds, skips)
      PROVE  TypeInv'
  <2> DEFINE m == [maker[j] EXCEPT !.pc = "update", !.enqueued = adds,
                                   !.skipped = Cardinality(skips)]
  <2>1. m \in Maker /\ m.enqueued = adds /\ m.skipped = Cardinality(skips)
    BY <1>1, Sizes DEF Maker
  <2>2. maker' = [maker EXCEPT ![j] = m]
    BY <1>5 DEF List
  <2>3. \A i \in Job : maker'[i] = IF i = j THEN m ELSE maker[i]
    BY <1>1, <2>2
  <2> HIDE DEF m
  <2>4. maker' \in [Job -> Maker]
    BY <1>1, <2>1, <2>2
  <2>5. Cardinality(adds) + Cardinality(skips) <= Enough
    BY <1>5, Apart DEF List
  <2>6. Fits'
    BY <2>1, <2>3, <2>5 DEF Fits, TypeInv
  <2>7. queue' \in [Order -> Entry]
    BY <1>1, <1>5, BlankTyped DEF List
  <2>8. Linked'
    BY <1>1, <1>5 DEF List, Linked, CountsFor, Free
  <2>9. astray' \subseteq Job
    BY <1>1, <1>5 DEF List
  <2>10. QED
    BY <1>1, <1>5, <2>4, <2>6, <2>7, <2>8, <2>9, TypePartsNext DEF List, TypeInv
<1>6. ASSUME NEW j \in Job, Update(j)
      PROVE  TypeInv'
  <2>1. sync' \in [Job -> Row]
    BY <1>1, <1>6, TotalsTyped DEF Update
  <2>2. QED
    BY <1>1, <1>2, <1>6, <2>1, LeaveTyped, TypePartsNext DEF Update, TypeInv
<1>7. ASSUME NEW j \in Job, MakerDies(j)
      PROVE  TypeInv'
  <2>1. Leave(j) /\ Event /\ UNCHANGED <<sync, queue, hand, handled>>
        /\ astray' = astray \cup {j} /\ harm' = TRUE
    BY <1>7 DEF MakerDies
  <2>2. QED
    BY <1>1, <1>2, <2>1, LeaveTyped, EventTyped, TypePartsNext DEF TypeInv
<1>8. ASSUME NEW j \in Job, MakeForAll(j)
      PROVE  TypeInv'
  <2>1. sync' \in [Job -> Row]
    BY <1>1, <1>8, BlankTyped DEF MakeForAll
  <2>2. QED
    BY <1>1, <1>2, <1>8, <2>1, SaveTyped, TypePartsNext DEF MakeForAll, TypeInv
<1>9. ASSUME NEW j \in Job, Make(j)
      PROVE  TypeInv'
  <2>1. sync' \in [Job -> Row]
    BY <1>1, <1>9, BlankTyped DEF Make
  <2>2. QED
    BY <1>1, <1>2, <1>9, <2>1, SaveTyped, EventTyped, TypePartsNext DEF Make, TypeInv
<1>10. ASSUME NEW j \in Job, Cancel(j)
      PROVE  TypeInv'
  <2>1. sync' \in [Job -> Row]
    BY <1>1, <1>10 DEF Cancel, Row
  <2>2. QED
    BY <1>1, <1>2, <1>3, <1>10, <2>1, EventTyped, TypePartsNext DEF Cancel, TypeInv
<1>11. ASSUME NEW i \in Job, NEW j \in Job, Retry(i, j)
      PROVE  TypeInv'
  <2>1. sync' \in [Job -> Row]
    <3>1. [sync[i] EXCEPT !.status = "PENDING"] \in Row
      BY <1>1 DEF Row
    <3>2. sync' = [[sync EXCEPT ![i] = [sync[i] EXCEPT !.status = "PENDING"]] EXCEPT ![j] = Saved(j)]
      BY <1>1, <1>11 DEF Retry
    <3>3. QED
      BY <1>1, <3>1, <3>2, BlankTyped
  <2>2. QED
    BY <1>1, <1>2, <1>11, <2>1, SaveTyped, EventTyped, TypePartsNext DEF Retry, TypeInv
<1>12. QED
  BY <1>4, <1>5, <1>6, <1>7, <1>8, <1>9, <1>10, <1>11

(* A handler goes on to h, and its entry stays as it is.                     *)
LEMMA HandTyped ==
  ASSUME TypeInv, NEW o \in Order, NEW h \in Hand, hand' = [hand EXCEPT ![o] = h],
         UNCHANGED queue, h.pc # "idle" <=> queue[o].state = "active",
         h.pc \in {"count", "outcome", "judge", "finalise"} => queue[o].job # NoJob
  PROVE  /\ hand' \in [Order -> Hand] /\ Linked' /\ hand'[o] = h
         /\ \A q \in Order \ {o} : hand'[q] = hand[q]
<1>1. hand \in [Order -> Hand] /\ Linked
  BY TypeParts DEF TypeInv
<1>2. \A q \in Order : hand'[q] = IF q = o THEN h ELSE hand[q]
  BY <1>1
<1>3. QED
  BY <1>1, <1>2 DEF Linked, CountsFor

LEMMA BegunTyped ==
  ASSUME TypeInv, NEW o \in Order, NEW outcome \in Outcome, NEW throws \in BOOLEAN,
         Begun(o, outcome, throws), ~At(o, "idle"), UNCHANGED queue
  PROVE  /\ hand' \in [Order -> Hand] /\ Linked'
         /\ hand'[o] = [pc |-> IF Counted(o) = NoJob THEN "end" ELSE "count", outcome |-> outcome,
                       throws |-> throws, verdict |-> "NONE"]
         /\ \A q \in Order \ {o} : hand'[q] = hand[q]
<1> DEFINE h == [pc |-> IF Counted(o) = NoJob THEN "end" ELSE "count", outcome |-> outcome,
                 throws |-> throws, verdict |-> "NONE"]
<1>1. h \in Hand
  BY DEF Hand
<1>2. hand' = [hand EXCEPT ![o] = h]
  BY DEF Begun
<1>3. queue[o].state = "active"
  BY TypeParts DEF TypeInv, Linked, At
<1>4. /\ h.pc # "idle"
      /\ h.pc \in {"count", "outcome", "judge", "finalise"} => queue[o].job # NoJob
  BY DEF Counted
<1> HIDE DEF h
<1>5. QED
  BY <1>1, <1>2, <1>3, <1>4, HandTyped DEF h

LEMMA StepTyped ==
  ASSUME TypeInv, NEW o \in Order,
         NEW pc \in {"work", "count", "outcome", "judge", "finalise", "end"}, Step(o, pc),
         ~At(o, "idle"), UNCHANGED queue, pc = "end" \/ CountsFor(o)
  PROVE  /\ hand' \in [Order -> Hand] /\ Linked' /\ hand'[o] = [hand[o] EXCEPT !.pc = pc]
         /\ \A q \in Order \ {o} : hand'[q] = hand[q]
<1> DEFINE h == [hand[o] EXCEPT !.pc = pc]
<1>1. h \in Hand /\ h.pc = pc
  BY TypeParts DEF TypeInv, Hand
<1>2. hand' = [hand EXCEPT ![o] = h]
  BY DEF Step
<1>3. queue[o].state = "active" /\ (CountsFor(o) => queue[o].job # NoJob)
  BY TypeParts DEF TypeInv, Linked, At
<1> HIDE DEF h
<1>4. QED
  BY <1>1, <1>2, <1>3, HandTyped DEF h

LEMMA JobCounted ==
  ASSUME TypeInv, NEW o \in Order, CountsFor(o)
  PROVE  Counted(o) \in Job /\ sync[Counted(o)] \in Row
BY TypeParts DEF TypeInv, Linked, Counted, Entry

(* What a handler does.                                                      *)
LEMMA HandlersTyped ==
  ASSUME TypeInv, NEW o \in Order, EnqueueOne(o) \/ Handle(o) \/ CountLost(o) \/ Crash(o)
  PROVE  TypeInv'
<1>1. /\ sync \in [Job -> Row] /\ maker \in [Job -> Maker] /\ queue \in [Order -> Entry]
      /\ hand \in [Order -> Hand] /\ cron \in {"idle", "clear", "making"}
      /\ handled \in [Job -> SUBSET Order] /\ astray \subseteq Job /\ harm \in BOOLEAN
      /\ events \in 0 .. MaxEvents /\ Linked /\ hand[o] \in Hand /\ queue[o] \in Entry
  BY TypeParts DEF TypeInv
<1>2. UNCHANGED maker => Fits'
  BY DEF TypeInv, Fits
<1>3. CASE EnqueueOne(o)
  <2>1. queue' \in [Order -> Entry] /\ UNCHANGED hand
    BY <1>1, <1>3, BlankTyped DEF EnqueueOne
  <2>2. Linked'
    BY <1>1, <1>3 DEF EnqueueOne, Linked, CountsFor, Free
  <2>3. QED
    BY <1>1, <1>2, <1>3, <2>1, <2>2, EventTyped, TypePartsNext DEF EnqueueOne, TypeInv
<1>4. CASE Start(o)
  <2> DEFINE h == [NoHand EXCEPT !.pc = "work"]
             e == [queue[o] EXCEPT !.state = "active"]
  <2>1. h \in Hand /\ h.pc = "work" /\ e \in Entry /\ e.state = "active"
    BY <1>1, BlankTyped DEF Hand, Entry, NoHand
  <2>2. hand' = [hand EXCEPT ![o] = h] /\ queue' = [queue EXCEPT ![o] = e]
    BY <1>1, <1>4 DEF Start
  <2> HIDE DEF h, e
  <2>3. hand' \in [Order -> Hand] /\ queue' \in [Order -> Entry] /\ Linked'
    BY <1>1, <2>1, <2>2 DEF Linked, CountsFor
  <2>4. QED
    BY <1>1, <1>2, <1>4, <2>3, TypePartsNext DEF Start, TypeInv
<1>5. ASSUME NEW outcome \in Outcome, NEW throws \in BOOLEAN, Settle(o, outcome, throws)
      PROVE  TypeInv'
  <2>1. hand' \in [Order -> Hand] /\ Linked'
    BY <1>5, BegunTyped DEF Settle, At
  <2>2. QED
    BY <1>1, <1>2, <1>5, <2>1, TypePartsNext DEF Settle, TypeInv
<1>6. CASE CountProcessed(o)
  <2> DEFINE j == Counted(o)
             row == [sync[j] EXCEPT !.processed = IF @ < Enough THEN @ + 1 ELSE @]
  <2>1. j \in Job /\ sync[j] \in Row /\ CountsFor(o)
    BY <1>6, JobCounted DEF CountProcessed, At, CountsFor
  <2>2. (IF sync[j].processed < Enough THEN sync[j].processed + 1 ELSE sync[j].processed)
          \in 0 .. Enough
    BY <2>1, Sizes DEF Row
  <2>3. row \in Row
    BY <2>1, <2>2 DEF Row
  <2>4. sync' = [sync EXCEPT ![j] = row]
    BY <1>1, <1>6 DEF CountProcessed
  <2> HIDE DEF row
  <2>5. sync' \in [Job -> Row]
    BY <1>1, <2>1, <2>3, <2>4
  <2>6. hand' \in [Order -> Hand] /\ Linked'
    BY <1>6, <2>1, StepTyped DEF CountProcessed, At
  <2>7. astray' \subseteq Job
    BY <1>1, <1>6, <2>1 DEF CountProcessed
  <2>8. QED
    BY <1>1, <1>2, <1>6, <2>5, <2>6, <2>7, TypePartsNext DEF CountProcessed, TypeInv
<1>7. CASE CountOutcome(o)
  <2> DEFINE j == Counted(o)
             row == [sync[j] EXCEPT !.failed     = @ \/ hand[o].outcome = "failed",
                                    !.progressed = @ \/ hand[o].outcome = "progress"]
             h == [hand[o] EXCEPT !.pc = "judge", !.outcome = "progress"]
  <2>1. j \in Job /\ sync[j] \in Row /\ CountsFor(o)
    BY <1>7, JobCounted DEF CountOutcome, At, CountsFor
  <2>2. /\ (sync[j].failed \/ hand[o].outcome = "failed") \in BOOLEAN
        /\ (sync[j].progressed \/ hand[o].outcome = "progress") \in BOOLEAN
    OBVIOUS
  <2>3. row \in Row
    BY <2>1, <2>2 DEF Row
  <2>4. h \in Hand /\ h.pc = "judge"
    BY <1>1 DEF Hand, Outcome
  <2>5. sync' = [sync EXCEPT ![j] = row] /\ hand' = [hand EXCEPT ![o] = h]
    BY <1>1, <1>7 DEF CountOutcome
  <2>6. queue[o].state = "active" /\ queue[o].job # NoJob
    BY <1>1, <1>7, <2>1 DEF Linked, CountOutcome, At
  <2> HIDE DEF row, h
  <2>7. sync' \in [Job -> Row] /\ hand' \in [Order -> Hand] /\ Linked'
    <3>1. sync' \in [Job -> Row]
      BY <1>1, <2>1, <2>3, <2>5
    <3>2. UNCHANGED queue
      BY <1>7 DEF CountOutcome
    <3>3. hand' \in [Order -> Hand] /\ Linked'
      BY <2>4, <2>5, <2>6, <3>2, HandTyped
    <3>4. QED
      BY <3>1, <3>3
  <2>8. QED
    BY <1>1, <1>2, <1>7, <2>7, TypePartsNext DEF CountOutcome, TypeInv
<1>8. CASE Judge(o)
  <2> DEFINE row == sync[Counted(o)]
             h == IF row.processed >= row.total /\ row.total > 0
                  THEN [hand[o] EXCEPT !.pc = "finalise", !.verdict = Verdict(row)]
                  ELSE [hand[o] EXCEPT !.pc = "end"]
  <2>1. CountsFor(o) /\ queue[o].state = "active" /\ queue[o].job # NoJob
    BY <1>1, <1>8 DEF Judge, At, CountsFor, Linked
  <2>2. h \in Hand /\ h.pc \in {"finalise", "end"}
    BY <1>1 DEF Hand, Verdict
  <2>3. hand' = [hand EXCEPT ![o] = h]
    BY <1>1, <1>8 DEF Judge
  <2> HIDE DEF h
  <2>4. hand' \in [Order -> Hand] /\ Linked'
    BY <1>8, <2>1, <2>2, <2>3, HandTyped DEF Judge
  <2>5. QED
    BY <1>1, <1>2, <1>8, <2>4, TypePartsNext DEF Judge, TypeInv
<1>9. CASE Finalise(o)
  <2> DEFINE row == [sync[Counted(o)] EXCEPT !.status = hand[o].verdict]
             h == [hand[o] EXCEPT !.pc = "end", !.verdict = "NONE"]
  <2>1. Counted(o) \in Job /\ sync[Counted(o)] \in Row /\ queue[o].state = "active"
    BY <1>1, <1>9, JobCounted DEF Finalise, At, CountsFor, Linked
  <2>2. row \in Row /\ h \in Hand /\ h.pc = "end"
    BY <1>1, <2>1 DEF Row, Hand
  <2>3. sync' = [sync EXCEPT ![Counted(o)] = row] /\ hand' = [hand EXCEPT ![o] = h]
    BY <1>1, <1>9 DEF Finalise
  <2> HIDE DEF row, h
  <2>4. sync' \in [Job -> Row] /\ hand' \in [Order -> Hand] /\ Linked'
    <3>1. sync' \in [Job -> Row]
      BY <1>1, <2>1, <2>2, <2>3
    <3>2. UNCHANGED queue
      BY <1>9 DEF Finalise
    <3>3. QED
      BY <2>1, <2>2, <2>3, <3>1, <3>2, HandTyped
  <2>5. QED
    BY <1>1, <1>2, <1>9, <2>4, TypePartsNext DEF Finalise, TypeInv
<1>10. CASE End(o) \/ Crash(o)
  <2>1. hand' = [hand EXCEPT ![o] = NoHand] /\ NoHand \in Hand /\ NoHand.pc = "idle"
    BY <1>10, BlankTyped DEF End, Crash, NoHand
  <2> DEFINE again == [queue[o] EXCEPT !.state = "waiting"]
             later == [queue[o] EXCEPT !.state = "waiting", !.tries = queue[o].tries - 1]
             done  == [queue[o] EXCEPT !.state = "finished"]
  <2>2. /\ again \in Entry /\ again.state # "active"
        /\ done \in Entry /\ done.state # "active" /\ later.state # "active"
        /\ queue[o].tries > 1 => later \in Entry
    <3>1. queue[o].tries > 1 => queue[o].tries - 1 \in 0 .. Attempts
      BY <1>1, JobsConstantsOK DEF Entry
    <3>2. again \in Entry /\ again.state # "active"
      BY <1>1 DEF Entry
    <3>3. done \in Entry /\ done.state # "active"
      BY <1>1 DEF Entry
    <3>4. later.state # "active" /\ (queue[o].tries > 1 => later \in Entry)
      BY <1>1, <3>1 DEF Entry
    <3>5. QED
      BY <3>2, <3>3, <3>4
  <2>3. \/ queue' = [queue EXCEPT ![o] = again]
        \/ queue[o].tries > 1 /\ queue' = [queue EXCEPT ![o] = later]
        \/ queue' = [queue EXCEPT ![o] = done]
    <3>1. CASE Crash(o)
      BY <1>1, <3>1 DEF Crash
    <3>2. CASE End(o)
      BY <1>1, <3>2 DEF End
    <3>3. QED
      BY <1>10, <3>1, <3>2
  <2> HIDE DEF again, later, done
  <2>4. PICK e \in Entry : queue' = [queue EXCEPT ![o] = e] /\ e.state # "active"
    BY <2>2, <2>3
  <2>5. hand' \in [Order -> Hand] /\ queue' \in [Order -> Entry] /\ Linked'
    BY <1>1, <2>1, <2>4 DEF Linked, CountsFor
  <2>6. CASE End(o)
    <3>1. handled' \in [Job -> SUBSET Order]
      BY <1>1, <2>6 DEF End
    <3>2. QED
      BY <1>1, <1>2, <2>5, <2>6, <3>1, TypePartsNext DEF End, TypeInv
  <2>7. CASE Crash(o)
    <3>1. astray' \subseteq Job
      BY <1>1, <2>7 DEF Crash, Counted, Entry
    <3>2. harm' \in BOOLEAN
      BY <2>7 DEF Crash
    <3>3. QED
      BY <1>1, <1>2, <2>5, <2>7, <3>1, <3>2, EventTyped, TypePartsNext DEF Crash, TypeInv
  <2>8. QED
    BY <1>10, <2>6, <2>7
<1>11. CASE CountLost(o)
  <2>1. CountsFor(o) /\ Counted(o) \in Job /\ ~At(o, "idle")
    BY <1>11, JobCounted DEF CountLost, At, CountsFor
  <2>2. hand' \in [Order -> Hand] /\ Linked'
    <3>1. "failed" \in Outcome
      BY DEF Outcome
    <3>2. QED
      BY <1>11, <2>1, <3>1, StepTyped, BegunTyped DEF CountLost
  <2>3. astray' \subseteq Job /\ harm' \in BOOLEAN
    BY <1>1, <1>11, <2>1 DEF CountLost
  <2>4. QED
    BY <1>1, <1>2, <1>11, <2>2, <2>3, EventTyped, TypePartsNext DEF CountLost, TypeInv
<1>12. QED
  BY <1>3, <1>4, <1>5, <1>6, <1>7, <1>8, <1>9, <1>10, <1>11 DEF Handle

LEMMA NextTyped == TypeInv /\ [Next]_vars => TypeInv'
<1> SUFFICES ASSUME TypeInv, [Next]_vars PROVE TypeInv'
  OBVIOUS
<1>1. CASE UNCHANGED vars
  BY <1>1 DEF vars, TypeInv, TypeOK, Fits
<1>2. QED
  BY <1>1, MakersTyped, HandlersTyped DEF Next

(* The state keeps its types, and the counters their bounds, whatever the    *)
(* constants.                                                                *)
THEOREM JobsTypeCorrect == Spec => []TypeOK
<1>1. TypeInv => TypeOK
  BY DEF TypeInv
<1>2. QED
  BY <1>1, InitTyped, NextTyped, PTL DEF Spec

-----------------------------------------------------------------------------
(* The orders a handler has finished with for j, or has begun to count.      *)
Tallied(j) == handled[j] \cup Counting(j)
Left(j)    == maker[j].enqueued \ Tallied(j)

(* A job's entries are orders it listed, and it lists once; until its totals *)
(* are written it counts to none.                                            *)
Listed(j) ==
  /\ sync[j].status = "NONE" <=> maker[j].pc = "none"
  /\ maker[j].pc \in {"none", "list"} =>
       maker[j].enqueued = {} /\ sync[j].status # "COMPLETED"
  /\ maker[j].pc # "made" => sync[j].total = 0
  /\ handled[j] \subseteq maker[j].enqueued
  /\ \A o \in Order : Counted(o) = j => o \in maker[j].enqueued

(* A handler about to finalise has a verdict.                                *)
Voiced(o) == hand[o].pc = "finalise" => hand[o].verdict # "NONE"

Shape == TypeInv /\ (\A j \in Job : Listed(j)) /\ (\A o \in Order : Voiced(o))

(* What a step on one order leaves alone.                                    *)
LEMMA HandlerSteps ==
  ASSUME TypeInv, NEW o \in Order, Handle(o) \/ CountLost(o) \/ Crash(o)
  PROVE  /\ UNCHANGED maker
         /\ \A q \in Order : Counted(q)' = Counted(q)
         /\ \A q \in Order \ {o} : hand'[q] = hand[q] /\ queue'[q] = queue[q]
         /\ \A j \in Job : j # Counted(o) => sync'[j] = sync[j] /\ handled'[j] = handled[j]
         /\ astray \subseteq astray' /\ (harm => harm')
<1>1. /\ sync \in [Job -> Row] /\ queue \in [Order -> Entry] /\ hand \in [Order -> Hand]
      /\ handled \in [Job -> SUBSET Order] /\ queue[o] \in Entry
  BY TypeParts DEF TypeInv
<1>2. CASE Start(o)
  BY <1>1, <1>2 DEF Start, Counted, Entry
<1>3. ASSUME NEW outcome \in Outcome, NEW throws \in BOOLEAN, Settle(o, outcome, throws)
      PROVE  UNCHANGED <<sync, maker, queue, handled, astray, harm>>
             /\ \A q \in Order \ {o} : hand'[q] = hand[q]
  BY <1>1, <1>3 DEF Settle, Begun
<1>4. CASE CountProcessed(o) \/ CountOutcome(o) \/ Judge(o) \/ Finalise(o)
  <2>1. UNCHANGED <<maker, queue, handled, harm>> /\ astray \subseteq astray'
    BY <1>4 DEF CountProcessed, CountOutcome, Judge, Finalise
  <2>2. \A q \in Order \ {o} : hand'[q] = hand[q]
    BY <1>1, <1>4 DEF CountProcessed, CountOutcome, Judge, Finalise, Step
  <2>3. \A j \in Job : j # Counted(o) => sync'[j] = sync[j]
    BY <1>1, <1>4 DEF CountProcessed, CountOutcome, Judge, Finalise
  <2>4. QED
    BY <2>1, <2>2, <2>3 DEF Counted
<1>5. CASE End(o)
  <2>1. \A q \in Order : Counted(q)' = Counted(q)
    BY <1>1, <1>5 DEF End, Counted, Entry
  <2>2. \A q \in Order \ {o} : hand'[q] = hand[q] /\ queue'[q] = queue[q]
    BY <1>1, <1>5 DEF End
  <2>3. \A j \in Job : j # Counted(o) => handled'[j] = handled[j]
    BY <1>1, <1>5 DEF End
  <2>4. QED
    BY <1>5, <2>1, <2>2, <2>3 DEF End
<1>6. CASE CountLost(o)
  <2>1. \A q \in Order \ {o} : hand'[q] = hand[q]
    BY <1>1, <1>6 DEF CountLost, Step, Begun
  <2>2. QED
    BY <1>6, <2>1 DEF CountLost, Counted
<1>7. CASE Crash(o)
  <2>1. \A q \in Order : Counted(q)' = Counted(q)
    BY <1>1, <1>7 DEF Crash, Counted, Entry
  <2>2. QED
    BY <1>1, <1>7, <2>1 DEF Crash
<1>8. QED
  BY <1>2, <1>3, <1>4, <1>5, <1>6, <1>7 DEF Handle, Counted

(* The step that begins a job finds none of its kind.                        *)
LEMMA SaveSteps ==
  ASSUME TypeInv, NEW j \in Job, NEW auto \in BOOLEAN, Save(j, auto)
  PROVE  /\ sync[j].status = "NONE" /\ maker'[j].pc = "list"
         /\ maker'[j].enqueued = maker[j].enqueued
         /\ \A i \in Job \ {j} : maker'[i] = maker[i]
         /\ Saved(j).status = "PENDING" /\ Saved(j).total = 0
BY SaveTyped DEF Save, Saved, NoRow

(* Making, operators and the pipeline.                                       *)
MakerStep ==
  \/ Tick \/ Pass
  \/ \E j \in Job :
       \/ \E adds, skips \in SUBSET Order : List(j, adds, skips)
       \/ Update(j) \/ MakerDies(j) \/ MakeForAll(j) \/ Make(j) \/ Cancel(j)
       \/ \E i \in Job : Retry(i, j)
  \/ \E o \in Order : EnqueueOne(o)

(* What such a step does to one job's row and maker.                         *)
Untouched(j) == sync'[j] = sync[j] /\ maker'[j] = maker[j]
Cancelled(j) == sync'[j] = [sync[j] EXCEPT !.status = "CANCELLED"] /\ maker'[j] = maker[j]
                /\ sync[j].status = "PENDING"
Retried(j)   == sync'[j] = [sync[j] EXCEPT !.status = "PENDING"] /\ maker'[j] = maker[j]
                /\ sync[j].status # "NONE" /\ j \in astray'
Made(j)      == /\ sync[j].status = "NONE" /\ sync'[j] = Saved(j)
                /\ maker'[j].pc = "list" /\ maker'[j].enqueued = maker[j].enqueued
Lists(j)     == /\ \E adds, skips \in SUBSET Order : List(j, adds, skips)
                /\ sync'[j] = sync[j] /\ maker'[j].pc = "update"
Died(j)      == /\ maker[j].pc \in {"list", "update"} /\ maker'[j].pc = "made"
                /\ maker'[j].enqueued = maker[j].enqueued
                /\ sync'[j] = sync[j] /\ harm' /\ j \in astray'

LEMMA MakerSteps ==
  ASSUME TypeInv, MakerStep, NEW i \in Job
  PROVE  /\ UNCHANGED <<hand, handled>> /\ astray \subseteq astray' /\ (harm => harm')
         /\ Untouched(i) \/ Cancelled(i) \/ Retried(i) \/ Made(i) \/ Lists(i) \/ Update(i) \/ Died(i)
<1>1. sync \in [Job -> Row] /\ maker \in [Job -> Maker]
  BY TypeParts DEF TypeInv
<1>2. CASE Tick \/ Pass \/ \E o \in Order : EnqueueOne(o)
  BY <1>2 DEF Tick, Pass, EnqueueOne, Untouched
<1>3. ASSUME NEW j \in Job, NEW adds \in SUBSET Order, NEW skips \in SUBSET Order,
             List(j, adds, skips)
      PROVE  /\ UNCHANGED <<hand, handled>> /\ astray \subseteq astray' /\ (harm => harm')
             /\ Untouched(i) \/ Lists(i)
  <2>1. UNCHANGED <<sync, hand, handled, harm>> /\ astray \subseteq astray'
    BY <1>3 DEF List
  <2>2. i # j => maker'[i] = maker[i]
    BY <1>1, <1>3 DEF List
  <2>3. maker'[j].pc = "update"
    BY <1>1, <1>3 DEF List, Maker
  <2>4. QED
    BY <1>3, <2>1, <2>2, <2>3 DEF Untouched, Lists
<1>4. ASSUME NEW j \in Job, Update(j)
      PROVE  /\ UNCHANGED <<hand, handled>> /\ astray \subseteq astray' /\ (harm => harm')
             /\ Untouched(i) \/ Update(i)
  BY <1>1, <1>4, LeaveTyped DEF Update, Untouched
<1>5. ASSUME NEW j \in Job, MakerDies(j)
      PROVE  /\ UNCHANGED <<hand, handled>> /\ astray \subseteq astray' /\ (harm => harm')
             /\ Untouched(i) \/ Died(i)
  BY <1>5, LeaveTyped DEF MakerDies, Untouched, Died
<1>6. ASSUME NEW j \in Job, MakeForAll(j) \/ Make(j)
      PROVE  /\ UNCHANGED <<hand, handled>> /\ astray \subseteq astray' /\ (harm => harm')
             /\ Untouched(i) \/ Made(i)
  <2>1. PICK auto \in BOOLEAN :
          Save(j, auto) /\ sync' = [sync EXCEPT ![j] = Saved(j)]
          /\ UNCHANGED <<hand, handled, astray, harm>>
    BY <1>6 DEF MakeForAll, Make
  <2>2. /\ sync[j].status = "NONE" /\ maker'[j].pc = "list"
        /\ maker'[j].enqueued = maker[j].enqueued
        /\ \A n \in Job \ {j} : maker'[n] = maker[n]
    BY <2>1, SaveSteps
  <2>3. QED
    BY <1>1, <2>1, <2>2 DEF Untouched, Made
<1>7. ASSUME NEW j \in Job, Cancel(j)
      PROVE  /\ UNCHANGED <<hand, handled>> /\ astray \subseteq astray' /\ (harm => harm')
             /\ Untouched(i) \/ Cancelled(i)
  BY <1>1, <1>7 DEF Cancel, Untouched, Cancelled
<1>8. ASSUME NEW j \in Job, NEW k \in Job, Retry(k, j)
      PROVE  /\ UNCHANGED <<hand, handled>> /\ astray \subseteq astray' /\ (harm => harm')
             /\ Untouched(i) \/ Retried(i) \/ Made(i)
  <2>1. /\ sync' = [sync EXCEPT ![k].status = "PENDING", ![j] = Saved(j)]
        /\ sync[k].status # "NONE" /\ Save(j, FALSE) /\ astray' = astray \cup {k}
        /\ UNCHANGED <<queue, hand, cron, handled, harm>>
    BY <1>8 DEF Retry
  <2>2. /\ sync[j].status = "NONE" /\ maker'[j].pc = "list"
        /\ maker'[j].enqueued = maker[j].enqueued
        /\ \A n \in Job \ {j} : maker'[n] = maker[n]
    BY <2>1, SaveSteps
  <2>3. k # j /\ sync'[j] = Saved(j) /\ sync'[k] = [sync[k] EXCEPT !.status = "PENDING"]
        /\ \A n \in Job \ {j, k} : sync'[n] = sync[n]
    BY <1>1, <2>1, <2>2
  <2>4. CASE i = j
    BY <2>1, <2>2, <2>3, <2>4 DEF Made
  <2>5. CASE i = k
    BY <2>1, <2>2, <2>3, <2>5 DEF Retried
  <2>6. CASE i \notin {j, k}
    BY <2>1, <2>2, <2>3, <2>6 DEF Untouched
  <2>7. QED
    BY <2>4, <2>5, <2>6
<1>9. QED
  BY <1>2, <1>3, <1>4, <1>5, <1>6, <1>7, <1>8 DEF MakerStep

LEMMA MakerHands == MakerStep => UNCHANGED <<hand, handled>>
BY DEF MakerStep, Tick, Pass, EnqueueOne, List, Update, MakerDies, MakeForAll, Make, Cancel, Retry

(* Such a step changes only entries nobody works on.                         *)
LEMMA EntrySteps ==
  ASSUME TypeInv, MakerStep, NEW q \in Order
  PROVE  \/ queue'[q] = queue[q]
         \/ Free(q) /\ ~Free(q)' /\ hand[q].pc = "idle" /\
              \/ Counted(q)' = NoJob
              \/ \E j \in Job, adds, skips \in SUBSET Order :
                   List(j, adds, skips) /\ q \in adds /\ Counted(q)' = j
<1>1. queue \in [Order -> Entry] /\ (Free(q) => hand[q].pc = "idle")
  BY TypeParts DEF TypeInv, Linked, Free
<1>2. CASE UNCHANGED queue
  BY <1>2
<1>3. ASSUME NEW o \in Order, EnqueueOne(o)
      PROVE  \/ queue'[q] = queue[q]
             \/ Free(q) /\ ~Free(q)' /\ Counted(q)' = NoJob
  BY <1>1, <1>3 DEF EnqueueOne, Counted, Free
<1>4. ASSUME NEW j \in Job, NEW adds \in SUBSET Order, NEW skips \in SUBSET Order,
             List(j, adds, skips)
      PROVE  \/ queue'[q] = queue[q]
             \/ Free(q) /\ ~Free(q)' /\ q \in adds /\ Counted(q)' = j
  BY <1>1, <1>4 DEF List, Counted, Free
<1>5. QED
  BY <1>1, <1>2, <1>3, <1>4
     DEF MakerStep, Tick, Pass, Update, MakerDies, MakeForAll, Make, Cancel, Retry

LEMMA NextParts ==
  [Next]_vars => \/ MakerStep \/ UNCHANGED vars
                 \/ \E o \in Order : Handle(o) \/ CountLost(o) \/ Crash(o)
BY DEF Next, MakerStep

(* Making a job tallies nothing.                                             *)
LEMMA MakerTallies ==
  ASSUME TypeInv, MakerStep, NEW j \in Job
  PROVE  Tallied(j)' = Tallied(j)
<1>1. UNCHANGED <<hand, handled>>
  BY MakerHands
<1>2. ASSUME NEW q \in Order
      PROVE  (Counted(q)' = j /\ HasCounted(q)') <=> (Counted(q) = j /\ HasCounted(q))
  BY <1>1, EntrySteps DEF HasCounted, Counted
<1>3. Counting(j)' = Counting(j)
  BY <1>2 DEF Counting
<1>4. QED
  BY <1>1, <1>3 DEF Tallied

(* What a handler does to a job's tally.                                     *)
LEMMA HandlerTallies ==
  ASSUME TypeInv, NEW o \in Order, Handle(o) \/ CountLost(o) \/ Crash(o), NEW j \in Job
  PROVE  \/ Tallied(j)' = Tallied(j)
         \/ CountProcessed(o) /\ Counted(o) = j /\ Tallied(j)' = Tallied(j) \cup {o}
         \/ harm' /\ j \in astray'
<1>1. /\ queue \in [Order -> Entry] /\ hand \in [Order -> Hand]
      /\ handled \in [Job -> SUBSET Order] /\ Linked
  BY TypeParts DEF TypeInv
<1>2. /\ \A q \in Order : Counted(q)' = Counted(q)
      /\ \A q \in Order \ {o} : HasCounted(q)' = HasCounted(q)
      /\ j # Counted(o) => handled'[j] = handled[j]
  BY HandlerSteps DEF HasCounted
<1>3. CASE j # Counted(o)
  <2>1. Counting(j)' = Counting(j)
    BY <1>2, <1>3 DEF Counting
  <2>2. QED
    BY <1>2, <1>3, <2>1 DEF Tallied
<1>4. ASSUME j = Counted(o), handled'[j] = handled[j], HasCounted(o)' <=> HasCounted(o)
      PROVE  Tallied(j)' = Tallied(j)
  <2>1. Counting(j)' = Counting(j)
    BY <1>2, <1>4 DEF Counting
  <2>2. QED
    BY <1>4, <2>1 DEF Tallied
<1>5. CASE j = Counted(o)
  <2>1. j # NoJob
    BY DEF Job, NoJob
  <2>2. CASE Start(o)
    <3>1. ~HasCounted(o) /\ ~HasCounted(o)'
      BY <1>1, <2>2 DEF Start, HasCounted, NoHand, Linked
    <3>2. QED
      BY <1>4, <1>5, <2>2, <3>1 DEF Start
  <2>3. ASSUME NEW outcome \in Outcome, NEW throws \in BOOLEAN, Settle(o, outcome, throws)
        PROVE  Tallied(j)' = Tallied(j)
    <3>1. ~HasCounted(o) /\ ~HasCounted(o)'
      BY <1>1, <1>5, <2>1, <2>3 DEF Settle, At, HasCounted, Begun
    <3>2. QED
      BY <1>4, <1>5, <2>3, <3>1 DEF Settle
  <2>4. CASE CountProcessed(o)
    <3>1. HasCounted(o)' /\ handled' = handled
      BY <1>1, <2>4 DEF CountProcessed, HasCounted, Step
    <3>2. Counting(j)' = Counting(j) \cup {o}
      BY <1>2, <1>5, <3>1 DEF Counting
    <3>3. QED
      BY <1>5, <2>4, <3>1, <3>2 DEF Tallied
  <2>5. CASE CountOutcome(o) \/ Judge(o) \/ Finalise(o)
    <3>1. HasCounted(o) /\ handled' = handled
      BY <2>5 DEF CountOutcome, Judge, Finalise, HasCounted, At
    <3>2. hand'[o].pc \in {"judge", "finalise", "end"}
      BY <1>1, <2>5 DEF CountOutcome, Judge, Finalise, Hand
    <3>3. HasCounted(o)'
      BY <3>2 DEF HasCounted
    <3>4. QED
      BY <1>4, <1>5, <3>1, <3>3
  <2>6. CASE End(o)
    <3>1. HasCounted(o) /\ ~HasCounted(o)' /\ handled'[j] = handled[j] \cup {o}
      BY <1>1, <1>5, <2>1, <2>6 DEF End, HasCounted, At, NoHand
    <3>2. Counting(j)' = Counting(j) \ {o} /\ o \in Counting(j)
      BY <1>2, <1>5, <3>1 DEF Counting
    <3>3. QED
      BY <3>1, <3>2 DEF Tallied
  <2>7. CASE CountLost(o)
    BY <1>5, <2>7 DEF CountLost
  <2>8. CASE Crash(o)
    <3>1. CASE HasCounted(o)
      BY <1>5, <2>1, <2>8, <3>1 DEF Crash
    <3>2. CASE ~HasCounted(o)
      <4>1. ~HasCounted(o)' /\ handled' = handled
        BY <1>1, <2>8 DEF Crash, HasCounted, NoHand
      <4>2. QED
        BY <1>4, <1>5, <3>2, <4>1
    <3>3. QED
      BY <3>1, <3>2
  <2>9. QED
    BY <2>2, <2>3, <2>4, <2>5, <2>6, <2>7, <2>8 DEF Handle
<1>6. QED
  BY <1>3, <1>5

-----------------------------------------------------------------------------
LEMMA InitShape == Init => Shape
<1> SUFFICES ASSUME Init PROVE Shape
  OBVIOUS
<1>1. \A j \in Job : Listed(j)
  BY DEF Init, Listed, NoRow, NoMaker, Counted, Job, NoJob
<1>2. \A o \in Order : Voiced(o)
  BY DEF Init, Voiced, NoHand
<1>3. QED
  BY <1>1, <1>2, InitTyped DEF Shape

(* A handler finalises what it has judged.                                   *)
LEMMA OnlyJudged ==
  ASSUME hand \in [Order -> Hand], NEW q \in Order, Handle(q) \/ CountLost(q) \/ Crash(q),
         ~Judge(q)
  PROVE  hand'[q].pc # "finalise"
<1>1. CASE Start(q)
  BY <1>1 DEF Start, NoHand
<1>2. CASE End(q) \/ Crash(q)
  BY <1>2 DEF End, Crash, NoHand
<1>3. CASE CountProcessed(q)
  BY <1>3 DEF CountProcessed, Step, Hand
<1>4. CASE CountOutcome(q) \/ Finalise(q)
  BY <1>4 DEF CountOutcome, Finalise, Hand
<1>5. ASSUME NEW outcome, NEW throws, Begun(q, outcome, throws)
      PROVE  hand'[q].pc # "finalise"
  BY <1>5 DEF Begun
<1>6. CASE CountLost(q)
  <2>1. CASE Step(q, "end")
    BY <2>1 DEF Step, Hand
  <2>2. QED
    BY <1>5, <1>6, <2>1 DEF CountLost
<1>7. CASE \E outcome \in Outcome, throws \in BOOLEAN : Settle(q, outcome, throws)
  BY <1>5, <1>7 DEF Settle
<1>8. QED
  BY <1>1, <1>2, <1>3, <1>4, <1>6, <1>7 DEF Handle

(* A verdict is a verdict, and finalising is for a job that listed.          *)
LEMMA VoicedStep ==
  ASSUME Shape, [Next]_vars, NEW q \in Order
  PROVE  Voiced(q)'
<1>1. hand \in [Order -> Hand]
  BY TypeParts DEF Shape, TypeInv
<1>2. CASE UNCHANGED hand
  BY <1>2 DEF Shape, Voiced
<1>3. CASE MakerStep
  BY <1>2, <1>3, MakerHands
<1>4. ASSUME NEW o \in Order, Handle(o) \/ CountLost(o) \/ Crash(o)
      PROVE  Voiced(q)'
  <2>1. CASE q # o
    BY <1>4, <2>1, HandlerSteps DEF Shape, Voiced
  <2>2. CASE q = o /\ Judge(o)
    BY <1>1, <2>2 DEF Judge, Voiced, Verdict
  <2>3. CASE q = o /\ ~Judge(o)
    <3>1. hand'[q].pc # "finalise"
      BY <1>1, <1>4, <2>3, OnlyJudged
    <3>2. QED
      BY <3>1 DEF Voiced
  <2>4. QED
    BY <2>1, <2>2, <2>3
<1>5. QED
  BY <1>2, <1>3, <1>4, NextParts DEF vars

(* What a step on one order does to a job's row.                             *)
LEMMA HandlerRows ==
  ASSUME TypeInv, NEW o \in Order, Handle(o) \/ CountLost(o) \/ Crash(o), NEW j \in Job
  PROVE  /\ sync'[j].total = sync[j].total
         /\ sync[j].failed => sync'[j].failed
         /\ \/ sync'[j].processed = sync[j].processed
            \/ CountProcessed(o) /\ j = Counted(o)
         /\ \/ sync'[j].status = sync[j].status
            \/ Finalise(o) /\ j = Counted(o) /\ sync'[j].status = hand[o].verdict
         /\ handled'[j] \subseteq handled[j] \cup {q \in Order : Counted(q) = j}
<1>1. sync \in [Job -> Row] /\ handled \in [Job -> SUBSET Order] /\ sync[j] \in Row
  BY TypeParts DEF TypeInv
<1>2. CASE j # Counted(o)
  BY <1>2, HandlerSteps
<1>3. CASE j = Counted(o)
  <2>1. CASE CountProcessed(o)
    <3>1. sync'[j] = [sync[j] EXCEPT !.processed = IF @ < Enough THEN @ + 1 ELSE @]
          /\ handled' = handled
      BY <1>1, <1>3, <2>1 DEF CountProcessed
    <3>2. QED
      BY <1>1, <1>3, <2>1, <3>1 DEF Row
  <2>2. CASE CountOutcome(o)
    <3>1. sync'[j] = [sync[j] EXCEPT !.failed     = @ \/ hand[o].outcome = "failed",
                                     !.progressed = @ \/ hand[o].outcome = "progress"]
          /\ handled' = handled
      BY <1>1, <1>3, <2>2 DEF CountOutcome
    <3>2. QED
      BY <1>1, <3>1 DEF Row
  <2>3. CASE Finalise(o)
    <3>1. sync'[j] = [sync[j] EXCEPT !.status = hand[o].verdict] /\ handled' = handled
      BY <1>1, <1>3, <2>3 DEF Finalise
    <3>2. QED
      BY <1>1, <1>3, <2>3, <3>1 DEF Row
  <2>4. CASE End(o)
    <3>1. sync' = sync /\ handled'[j] \subseteq handled[j] \cup {o}
      BY <1>1, <1>3, <2>4 DEF End
    <3>2. QED
      BY <1>3, <3>1
  <2>5. ASSUME UNCHANGED <<sync, handled>>
        PROVE  sync'[j] = sync[j] /\ handled'[j] = handled[j]
    BY <2>5
  <2>6. QED
    BY <1>3, <2>1, <2>2, <2>3, <2>4, <2>5
       DEF Handle, Start, Settle, Judge, CountLost, Crash
<1>5. QED
  BY <1>2, <1>3

(* A handler that counts for a job found it listed.                          *)
LEMMA CountedListed ==
  ASSUME Shape, NEW o \in Order, NEW j \in Job, Counted(o) = j
  PROVE  o \in maker[j].enqueued /\ maker[j].pc \in {"update", "made"}
BY TypeParts DEF Shape, Listed, TypeInv, Maker

LEMMA ListedStep ==
  ASSUME Shape, [Next]_vars, NEW j \in Job
  PROVE  Listed(j)'
<1>1. /\ TypeInv /\ Listed(j) /\ sync[j] \in Row /\ maker[j] \in Maker /\ maker'[j] \in Maker
      /\ sync'[j] \in Row
  BY TypeParts, TypePartsNext, NextTyped DEF Shape, TypeInv
<1>2. CASE UNCHANGED vars
  BY <1>1, <1>2 DEF vars, Listed, Counted
<1>3. CASE MakerStep
  <2>1. UNCHANGED <<hand, handled>>
    BY <1>3, MakerHands
  <2>2. CASE ~Lists(j)
    <3>1. \A q \in Order : Counted(q)' = j => Counted(q) = j
      <4>1. ASSUME NEW q \in Order, Counted(q)' = j
            PROVE  Counted(q) = j
        <5>1. j # NoJob
          BY DEF Job, NoJob
        <5>2. ASSUME NEW adds \in SUBSET Order, NEW skips \in SUBSET Order, List(j, adds, skips)
              PROVE  FALSE
          <6>1. sync'[j] = sync[j] /\ maker'[j].pc = "update"
            BY <1>1, <5>2, TypeParts DEF List, TypeInv, Maker
          <6>2. QED
            BY <2>2, <5>2, <6>1 DEF Lists
        <5>3. QED
          BY <1>1, <1>3, <4>1, <5>1, <5>2, EntrySteps DEF Counted
      <4>2. QED
        BY <4>1
    <3>2. maker'[j].enqueued = maker[j].enqueued
      BY <1>1, <1>3, <2>2, MakerSteps, LeaveTyped
         DEF Untouched, Cancelled, Retried, Made, Update, Died
    <3>3. /\ sync'[j].status = "NONE" <=> maker'[j].pc = "none"
          /\ maker'[j].pc \in {"none", "list"} =>
               maker'[j].enqueued = {} /\ sync'[j].status # "COMPLETED"
          /\ maker'[j].pc # "made" => sync'[j].total = 0
      <4>1. CASE Untouched(j)
        BY <1>1, <4>1 DEF Untouched, Listed
      <4>2. CASE Cancelled(j) \/ Retried(j)
        BY <1>1, <4>2 DEF Cancelled, Retried, Listed, Row
      <4>3. CASE Made(j)
        BY <1>1, <4>3 DEF Made, Listed, Saved, NoRow
      <4>4. CASE Update(j)
        <5>1. maker'[j].pc = "made" /\ sync'[j] = Totals(j) /\ Totals(j).status # "NONE"
          <6>1. sync \in [Job -> Row]
            BY <1>1, TypeParts DEF TypeInv
          <6>2. QED
            BY <1>1, <4>4, <6>1, LeaveTyped DEF Update, Totals, Row
        <5>2. QED
          BY <5>1
      <4>5. CASE Died(j)
        BY <1>1, <4>5 DEF Died, Listed
      <4>6. QED
        BY <1>1, <1>3, <2>2, <4>1, <4>2, <4>3, <4>4, <4>5, MakerSteps
    <3>4. QED
      BY <1>1, <2>1, <3>1, <3>2, <3>3 DEF Listed
  <2>3. CASE Lists(j)
    <3>1. PICK adds \in SUBSET Order, skips \in SUBSET Order : List(j, adds, skips)
      BY <2>3 DEF Lists
    <3>2. maker'[j].enqueued = adds /\ maker'[j].pc = "update" /\ sync'[j] = sync[j]
          /\ maker[j].pc = "list"
      BY <1>1, <2>3, <3>1, TypeParts DEF List, Lists, TypeInv, Maker
    <3>3. \A q \in Order : Counted(q) # j
      BY <1>1, <3>2 DEF Listed
    <3>4. \A q \in Order : Counted(q)' = j => q \in adds
      BY <3>1, <3>3 DEF List, Counted
    <3>5. handled'[j] = {}
      BY <1>1, <2>1, <3>2 DEF Listed
    <3>6. QED
      BY <1>1, <3>2, <3>4, <3>5 DEF Listed
  <2>4. QED
    BY <2>2, <2>3
<1>4. ASSUME NEW o \in Order, Handle(o) \/ CountLost(o) \/ Crash(o)
      PROVE  Listed(j)'
  <2>1. UNCHANGED maker /\ \A q \in Order : Counted(q)' = Counted(q)
    BY <1>1, <1>4, HandlerSteps
  <2>2. /\ sync'[j].total = sync[j].total
        /\ \/ sync'[j].status = sync[j].status
           \/ Finalise(o) /\ j = Counted(o) /\ sync'[j].status = hand[o].verdict
        /\ handled'[j] \subseteq handled[j] \cup {q \in Order : Counted(q) = j}
    BY <1>1, <1>4, HandlerRows
  <2>3. CASE sync'[j].status = sync[j].status
    BY <1>1, <2>1, <2>2, <2>3 DEF Listed
  <2>4. CASE Finalise(o) /\ j = Counted(o) /\ sync'[j].status = hand[o].verdict
    <3>1. maker[j].pc \in {"update", "made"}
      BY <2>4, CountedListed
    <3>2. hand[o].verdict # "NONE"
      BY <2>4 DEF Finalise, At, Shape, Voiced
    <3>3. QED
      BY <1>1, <2>1, <2>2, <2>4, <3>1, <3>2 DEF Listed
  <2>5. QED
    BY <2>2, <2>3, <2>4
<1>5. QED
  BY <1>2, <1>3, <1>4, NextParts

LEMMA ShapeStep == Shape /\ [Next]_vars => Shape'
BY NextTyped, ListedStep, VoicedStep DEF Shape

-----------------------------------------------------------------------------
(* What a step is to one job: its row keeps its counts, it is being made,    *)
(* its totals are written, an order is counted, or something went wrong.     *)
Same(j) ==
  /\ maker'[j].pc = maker[j].pc /\ maker'[j].enqueued = maker[j].enqueued
  /\ Tallied(j)' = Tallied(j)
  /\ sync'[j].total = sync[j].total /\ sync'[j].processed = sync[j].processed
  /\ sync[j].failed => sync'[j].failed
  /\ \/ sync'[j].status = sync[j].status
     \/ sync'[j].status = "CANCELLED"
     \/ sync'[j].status = "PENDING" /\ j \in astray'
     \/ \E o \in Order : Finalise(o) /\ Counted(o) = j /\ sync'[j].status = hand[o].verdict

Making(j) ==
  /\ maker[j].pc \in {"none", "list"} /\ maker'[j].pc \in {"list", "update"}
  /\ Tallied(j)' = {}

Totalled(j) ==
  /\ maker[j].pc = "update" /\ maker'[j].pc = "made" /\ maker'[j].enqueued = maker[j].enqueued
  /\ Tallied(j)' = Tallied(j) /\ sync'[j] = Totals(j)

TakenUp(j) ==
  /\ maker'[j].pc = maker[j].pc /\ maker'[j].enqueued = maker[j].enqueued
  /\ \E o \in Order : CountProcessed(o) /\ Counted(o) = j /\ Tallied(j)' = Tallied(j) \cup {o}
  /\ sync'[j] = [sync[j] EXCEPT !.processed = IF @ < Enough THEN @ + 1 ELSE @]

GoesWrong(j) == harm' /\ j \in astray'

LEMMA JobSteps ==
  ASSUME Shape, [Next]_vars, NEW j \in Job
  PROVE  Same(j) \/ Making(j) \/ Totalled(j) \/ TakenUp(j) \/ GoesWrong(j)
<1>1. /\ TypeInv /\ Listed(j) /\ sync[j] \in Row /\ sync \in [Job -> Row]
      /\ maker[j] \in Maker
  BY TypeParts DEF Shape, TypeInv
<1>2. CASE UNCHANGED vars
  BY <1>2, <1>1 DEF vars, Same, Tallied, Counting, Counted, HasCounted
<1>3. CASE MakerStep
  <2>1. Tallied(j)' = Tallied(j)
    BY <1>1, <1>3, MakerTallies
  <2>2. maker[j].pc \in {"none", "list"} => Tallied(j) = {}
    BY <1>1, CountedListed DEF Listed, Tallied, Counting
  <2>3. CASE Untouched(j)
    BY <2>1, <2>3 DEF Untouched, Same
  <2>4. CASE Cancelled(j)
    BY <1>1, <2>1, <2>4 DEF Cancelled, Same, Row
  <2>5. CASE Retried(j)
    BY <1>1, <2>1, <2>5 DEF Retried, Same, Row
  <2>6. CASE Made(j)
    BY <1>1, <2>1, <2>2, <2>6 DEF Made, Making, Listed
  <2>7. CASE Lists(j)
    <3>1. maker[j].pc = "list"
      BY <2>7 DEF Lists, List
    <3>2. QED
      BY <2>1, <2>2, <2>7, <3>1 DEF Lists, Making
  <2>8. CASE Update(j)
    BY <1>1, <2>1, <2>8, LeaveTyped DEF Update, Totalled
  <2>9. CASE Died(j)
    BY <2>9 DEF Died, GoesWrong
  <2>10. QED
    BY <1>1, <1>3, <2>3, <2>4, <2>5, <2>6, <2>7, <2>8, <2>9, MakerSteps
<1>4. ASSUME NEW o \in Order, Handle(o) \/ CountLost(o) \/ Crash(o)
      PROVE  Same(j) \/ TakenUp(j) \/ GoesWrong(j)
  <2>1. UNCHANGED maker
    BY <1>1, <1>4, HandlerSteps
  <2>2. CASE CountProcessed(o) /\ Counted(o) = j
    <3>1. sync'[j] = [sync[j] EXCEPT !.processed = IF @ < Enough THEN @ + 1 ELSE @]
      BY <1>1, <2>2 DEF CountProcessed
    <3>3. Tallied(j)' = Tallied(j) \cup {o}
      <4>1. hand'[o].pc = "outcome" /\ UNCHANGED <<queue, handled>>
        BY <1>1, <2>2, TypeParts DEF CountProcessed, Step, TypeInv, Hand
      <4>2. \A q \in Order \ {o} : hand'[q] = hand[q]
        BY <1>1, <1>4, HandlerSteps
      <4>3. Counting(j)' = Counting(j) \cup {o}
        BY <2>2, <4>1, <4>2 DEF Counting, Counted, HasCounted
      <4>4. QED
        BY <4>1, <4>3 DEF Tallied
    <3>4. QED
      BY <2>1, <2>2, <3>1, <3>3 DEF TakenUp
  <2>3. CASE ~(CountProcessed(o) /\ Counted(o) = j)
    <3>1. sync'[j].total = sync[j].total /\ sync'[j].processed = sync[j].processed
          /\ (sync[j].failed => sync'[j].failed)
          /\ \/ sync'[j].status = sync[j].status
             \/ Finalise(o) /\ j = Counted(o) /\ sync'[j].status = hand[o].verdict
      BY <1>1, <1>4, <2>3, HandlerRows
    <3>2. Tallied(j)' = Tallied(j) \/ GoesWrong(j)
      BY <1>1, <1>4, <2>3, HandlerTallies DEF GoesWrong
    <3>3. QED
      BY <2>1, <3>1, <3>2 DEF Same
  <2>4. QED
    BY <2>2, <2>3
<1>5. QED
  BY <1>2, <1>3, <1>4, NextParts

-----------------------------------------------------------------------------
(* An order that is tried again for a job has counted as a failure.          *)
Thrown(o) ==
  Counted(o) # NoJob =>
    /\ hand[o].throws /\ hand[o].pc \in {"count", "outcome"} => hand[o].outcome = "failed"
    /\ hand[o].throws /\ hand[o].pc \in {"judge", "finalise", "end"} => sync[Counted(o)].failed
    /\ o \in handled[Counted(o)] /\ ~Free(o) => sync[Counted(o)].failed

(* Without failures a job's count runs no further than its orders.           *)
Upper(j) ==
  maker[j].pc = "made" /\ ~sync[j].failed =>
    sync[j].processed + Cardinality(Left(j)) <= sync[j].total

(* A verdict of COMPLETED, reached or shown, leaves no order.                *)
Judged(o)   == hand[o].pc = "finalise" /\ hand[o].verdict = "COMPLETED" => Left(Counted(o)) = {}
Finished(j) == sync[j].status = "COMPLETED" => Left(j) = {}

(* The invariant behind CompletedIsHandled.                                  *)
Sound ==
  /\ Shape
  /\ harm \/ /\ \A j \in Job : Upper(j) /\ Finished(j)
             /\ \A o \in Order : Thrown(o) /\ Judged(o)

LEMMA LeftSizes ==
  ASSUME TypeInv, NEW j \in Job
  PROVE  /\ IsFiniteSet(Left(j)) /\ Cardinality(Left(j)) \in Nat
         /\ Cardinality(Left(j)) <= Cardinality(maker[j].enqueued)
         /\ Cardinality(maker[j].enqueued) \in Nat
         /\ Cardinality(Left(j)) = 0 <=> Left(j) = {}
         /\ \A o \in Left(j) : Cardinality(Left(j) \ {o}) = Cardinality(Left(j)) - 1
<1>1. maker[j].enqueued \in SUBSET Order /\ Left(j) \in SUBSET Order
      /\ Left(j) \subseteq maker[j].enqueued
  BY TypeParts DEF TypeInv, Maker, Left
<1>2. IsFiniteSet(maker[j].enqueued) /\ IsFiniteSet(Left(j))
  BY <1>1, Sizes
<1>3. QED
  BY <1>1, <1>2, FS_CardinalityType, FS_Subset, FS_EmptySet, FS_RemoveElement

(* What is left only shrinks, unless the job is being made.                  *)
LEMMA LeftSteps ==
  ASSUME NEW j \in Job
  PROVE  /\ Same(j) \/ Totalled(j) => Left(j)' = Left(j)
         /\ TakenUp(j) => Left(j)' \subseteq Left(j)
BY DEF Same, Totalled, TakenUp, Left

LEMMA HarmStays == ASSUME TypeInv, [Next]_vars, ~harm' PROVE ~harm
<1>1. CASE MakerStep
  BY <1>1 DEF MakerStep, Tick, Pass, EnqueueOne, List, Update, MakerDies, MakeForAll, Make,
              Cancel, Retry
<1>2. QED
  BY <1>1, NextParts, HandlerSteps DEF vars

(* An order counted for a job that has not failed is counted once.           *)
LEMMA TakenUpOnce ==
  ASSUME Shape, NEW o \in Order, NEW j \in Job, Counted(o) = j, Thrown(o), At(o, "count"),
         ~sync[j].failed
  PROVE  o \in Left(j)
<1>1. o \in maker[j].enqueued
  BY CountedListed
<1>2. j # NoJob /\ ~Free(o)
  BY TypeParts DEF Job, NoJob, Shape, TypeInv, Linked, Free, At
<1>3. o \notin handled[j]
  BY <1>2 DEF Thrown
<1>4. o \notin Counting(j)
  BY DEF Counting, HasCounted, At
<1>5. QED
  BY <1>1, <1>3, <1>4 DEF Left, Tallied

LEMMA UpperStep ==
  ASSUME Sound, [Next]_vars, ~harm', NEW j \in Job
  PROVE  Upper(j)'
<1>1. /\ Shape /\ TypeInv /\ TypeInv' /\ ~harm /\ Upper(j) /\ Listed(j)
      /\ sync[j] \in Row /\ sync'[j] \in Row /\ maker[j] \in Maker
  BY NextTyped, HarmStays, TypeParts, TypePartsNext DEF Sound, Shape, TypeInv
<1>2. CASE Same(j)
  BY <1>1, <1>2, LeftSteps DEF Same, Upper
<1>3. CASE Making(j)
  BY <1>3 DEF Making, Upper
<1>4. CASE Totalled(j)
  <2>1. /\ sync'[j].total = Cardinality(maker[j].enqueued) + maker[j].skipped
        /\ sync'[j].processed = maker[j].skipped
    BY <1>1, <1>4, TotalsTyped DEF Totalled
  <2>2. Left(j)' = Left(j) /\ maker[j].skipped \in Nat
    BY <1>1, <1>4, LeftSteps, Sizes DEF Maker
  <2>3. QED
    BY <1>1, <2>1, <2>2, LeftSizes DEF Upper
<1>5. CASE TakenUp(j)
  <2>1. PICK o \in Order : CountProcessed(o) /\ Counted(o) = j
                           /\ Tallied(j)' = Tallied(j) \cup {o}
    BY <1>5 DEF TakenUp
  <2>2. /\ maker'[j].pc = maker[j].pc /\ maker'[j].enqueued = maker[j].enqueued
        /\ sync'[j].total = sync[j].total /\ sync'[j].failed = sync[j].failed
        /\ sync'[j].processed <= sync[j].processed + 1
    BY <1>1, <1>5, Sizes DEF TakenUp, Row
  <2>3. SUFFICES ASSUME maker[j].pc = "made", ~sync[j].failed
                 PROVE  sync'[j].processed + Cardinality(Left(j)') <= sync'[j].total
    BY <2>2 DEF Upper
  <2>4. o \in Left(j)
    BY <1>1, <2>1, <2>3, TakenUpOnce DEF Sound, CountProcessed
  <2>5. Left(j)' = Left(j) \ {o}
    BY <2>1, <2>2 DEF Left
  <2>6. Cardinality(Left(j)') = Cardinality(Left(j)) - 1 /\ Cardinality(Left(j)) \in Nat
    BY <1>1, <2>4, <2>5, LeftSizes
  <2>7. sync[j].processed + Cardinality(Left(j)) <= sync[j].total
    BY <1>1, <2>3 DEF Upper
  <2>8. sync[j].processed \in Nat /\ sync'[j].processed \in Nat /\ sync[j].total \in Nat
    BY <1>1, Sizes DEF Row
  <2>9. QED
    BY <2>2, <2>6, <2>7, <2>8
<1>6. QED
  BY <1>1, <1>2, <1>3, <1>4, <1>5, JobSteps DEF GoesWrong

LEMMA FinishedStep ==
  ASSUME Sound, [Next]_vars, ~harm', NEW j \in Job
  PROVE  Finished(j)'
<1>1. /\ Shape /\ Shape' /\ TypeInv /\ ~harm /\ Finished(j) /\ Listed(j)'
      /\ sync[j] \in Row /\ maker[j] \in Maker
  BY ShapeStep, HarmStays, TypeParts DEF Sound, Shape, TypeInv
<1>2. CASE Same(j)
  <2>1. \A o \in Order : Finalise(o) /\ Counted(o) = j /\ hand[o].verdict = "COMPLETED" =>
          Left(j) = {}
    BY <1>1 DEF Sound, Judged, Finalise, At
  <2>2. QED
    BY <1>1, <1>2, <2>1, LeftSteps DEF Same, Finished
<1>3. CASE Making(j)
  <2>1. CASE maker'[j].pc = "list"
    BY <1>1, <2>1 DEF Listed, Finished
  <2>2. CASE maker'[j].pc = "update"
    <3>1. sync'[j].status = "COMPLETED" => sync[j].status = "COMPLETED"
      <4>1. CASE MakerStep
        <5>1. ~Made(j) /\ ~Update(j) /\ ~Died(j)
          BY <2>2, <1>1, LeaveTyped DEF Made, Update, Died
        <5>2. QED
          BY <1>1, <4>1, <5>1, MakerSteps DEF Untouched, Cancelled, Retried, Lists, Row
      <4>2. ASSUME NEW o \in Order, Handle(o) \/ CountLost(o) \/ Crash(o)
            PROVE  FALSE
        BY <1>1, <1>3, <2>2, <4>2, HandlerSteps DEF Making
      <4>3. QED
        BY <4>1, <4>2, NextParts DEF vars
    <3>2. sync[j].status # "COMPLETED"
      BY <1>1, <1>3 DEF Making, Shape, Listed
    <3>3. QED
      BY <3>1, <3>2 DEF Finished
  <2>3. QED
    BY <1>3, <2>1, <2>2 DEF Making
<1>4. CASE Totalled(j)
  <2>1. Totals(j).status = "COMPLETED" => maker[j].enqueued = {}
    BY <1>1, TypeParts DEF Totals, TypeInv, Row
  <2>2. QED
    BY <1>4, <2>1 DEF Totalled, Finished, Left
<1>5. CASE TakenUp(j)
  <2>1. sync'[j].status = sync[j].status
    BY <1>1, <1>5 DEF TakenUp, Row
  <2>2. QED
    BY <1>1, <1>5, <2>1, LeftSteps DEF Finished
<1>6. QED
  BY <1>1, <1>2, <1>3, <1>4, <1>5, JobSteps DEF GoesWrong

(* A job some entry names keeps its failures.                                *)
LEMMA FailedStays ==
  ASSUME Shape, [Next]_vars, ~harm', NEW j \in Job, maker[j].pc \in {"update", "made"},
         sync[j].failed
  PROVE  sync'[j].failed
<1>1. TypeInv /\ sync[j] \in Row
  BY TypeParts DEF Shape, TypeInv
<1>2. CASE Totalled(j)
  BY <1>1, <1>2, TotalsTyped DEF Totalled
<1>3. QED
  BY <1>1, <1>2, JobSteps DEF Same, Making, TakenUp, GoesWrong, Row

(* Thrown, when the handler of another order steps, or none does.            *)
LEMMA ThrownElsewhere ==
  ASSUME Shape, [Next]_vars, ~harm', NEW o \in Order, Thrown(o),
         hand'[o] = hand[o], queue'[o] = queue[o],
         \A j \in Job : j = Counted(o) => (o \in handled'[j] => o \in handled[j])
  PROVE  Thrown(o)'
<1>1. Counted(o)' = Counted(o) /\ Free(o)' = Free(o)
  BY DEF Counted, Free
<1>2. CASE Counted(o) = NoJob
  BY <1>1, <1>2 DEF Thrown
<1>3. CASE Counted(o) # NoJob
  <2>1. Counted(o) \in Job
    BY <1>3, TypeParts DEF Shape, TypeInv, Entry, Counted
  <2>2. sync[Counted(o)].failed => sync'[Counted(o)].failed
    BY <2>1, CountedListed, FailedStays
  <2>3. QED
    BY <1>1, <1>3, <2>1, <2>2 DEF Thrown
<1>4. QED
  BY <1>2, <1>3

LEMMA ThrownStep ==
  ASSUME Sound, [Next]_vars, ~harm', NEW q \in Order
  PROVE  Thrown(q)'
<1>1. /\ Shape /\ TypeInv /\ ~harm /\ Thrown(q) /\ hand \in [Order -> Hand] /\ hand[q] \in Hand
      /\ queue \in [Order -> Entry] /\ queue[q] \in Entry
      /\ handled \in [Job -> SUBSET Order] /\ sync \in [Job -> Row] /\ Linked
  BY HarmStays, TypeParts DEF Sound, Shape, TypeInv
<1>2. CASE UNCHANGED vars
  BY <1>1, <1>2, ThrownElsewhere DEF vars
<1>3. CASE MakerStep
  <2>1. UNCHANGED <<hand, handled>>
    BY <1>3, MakerHands
  <2>2. CASE queue'[q] = queue[q]
    BY <1>1, <2>1, <2>2, ThrownElsewhere
  <2>3. CASE hand[q].pc = "idle" /\ Counted(q)' = NoJob
    BY <2>3 DEF Thrown
  <2>4. ASSUME NEW j \in Job, NEW adds \in SUBSET Order, NEW skips \in SUBSET Order,
               List(j, adds, skips), hand[q].pc = "idle", Counted(q)' = j
        PROVE  Thrown(q)'
    <3>1. handled'[j] = {}
      BY <1>1, <2>1, <2>4 DEF List, Shape, Listed
    <3>2. QED
      BY <2>1, <2>4, <3>1 DEF Thrown
  <2>5. QED
    BY <1>1, <1>3, <2>2, <2>3, <2>4, EntrySteps
<1>4. ASSUME NEW o \in Order, Handle(o) \/ CountLost(o) \/ Crash(o)
      PROVE  Thrown(q)'
  <2>1. CASE q # o
    <3>1. \A j \in Job : q \in handled'[j] => q \in handled[j]
      <4>1. CASE End(o)
        BY <1>1, <2>1, <4>1 DEF End
      <4>2. CASE ~End(o)
        BY <1>4, <4>2 DEF Handle, Start, Settle, CountProcessed, CountOutcome, Judge, Finalise,
                          CountLost, Crash
      <4>3. QED
        BY <4>1, <4>2
    <3>2. QED
      BY <1>1, <1>4, <2>1, <3>1, HandlerSteps, ThrownElsewhere
  <2>2. CASE q = o /\ Counted(q) = NoJob
    BY <1>1, <1>4, <2>2, HandlerSteps DEF Thrown
  <2>3. CASE q = o /\ Counted(q) # NoJob
    <3> DEFINE j == Counted(q)
    <3>1. j \in Job /\ Counted(q)' = j
      BY <1>1, <1>4, <2>3, HandlerSteps DEF Counted, Entry
    <3>2. sync[j].failed => sync'[j].failed
      BY <1>1, <3>1, CountedListed, FailedStays
    <3> HIDE DEF j
    <3>3. hand[q].pc # "idle" => ~Free(q)
      BY <1>1 DEF Linked, Free
    <3>4. CASE Start(q)
      <4>1. hand'[q].pc = "work" /\ ~Free(q) /\ handled' = handled
        BY <1>1, <3>4 DEF Start, NoHand, Free
      <4>2. QED
        BY <1>1, <2>3, <3>1, <3>2, <4>1 DEF Thrown, j
    <3>5. ASSUME NEW outcome \in Outcome, NEW throws \in BOOLEAN, Settle(q, outcome, throws)
          PROVE  Thrown(q)'
      <4>1. /\ hand'[q] = [pc |-> "count", outcome |-> outcome, throws |-> throws,
                          verdict |-> "NONE"]
            /\ throws => outcome = "failed"
            /\ hand[q].pc = "work" /\ UNCHANGED <<queue, handled>>
        BY <1>1, <2>3, <3>5 DEF Settle, Begun, At
      <4>2. QED
        BY <1>1, <2>3, <3>1, <3>2, <3>3, <4>1 DEF Thrown, j
    <3>6. CASE CountProcessed(q)
      <4>1. /\ hand'[q] = [hand[q] EXCEPT !.pc = "outcome"]
            /\ hand[q].pc = "count" /\ UNCHANGED <<queue, handled>>
        BY <1>1, <3>6 DEF CountProcessed, Step, At
      <4>2. hand'[q].throws = hand[q].throws /\ hand'[q].outcome = hand[q].outcome
            /\ hand'[q].pc = "outcome"
        BY <1>1, <4>1 DEF Hand
      <4>3. QED
        BY <1>1, <2>3, <3>1, <3>2, <3>3, <4>1, <4>2 DEF Thrown, j
    <3>7. CASE CountOutcome(q)
      <4>1. hand[q].throws => sync'[j].failed
        <5>1. sync'[j] = [sync[j] EXCEPT !.failed     = @ \/ hand[q].outcome = "failed",
                                         !.progressed = @ \/ hand[q].outcome = "progress"]
          BY <1>1, <3>1, <3>7 DEF CountOutcome, j
        <5>2. hand[q].throws => hand[q].outcome = "failed"
          BY <1>1, <2>3, <3>7 DEF Thrown, CountOutcome, At
        <5>3. sync[j] \in Row
          BY <1>1, <3>1
        <5>4. QED
          BY <5>1, <5>2, <5>3 DEF Row
      <4>2. /\ hand'[q] = [hand[q] EXCEPT !.pc = "judge", !.outcome = "progress"]
            /\ hand[q].pc = "outcome" /\ UNCHANGED <<queue, handled>>
        BY <1>1, <3>7 DEF CountOutcome, At
      <4>3. hand'[q].throws = hand[q].throws /\ hand'[q].pc = "judge"
        BY <1>1, <4>2 DEF Hand
      <4>4. QED
        BY <1>1, <2>3, <3>1, <3>2, <3>3, <4>1, <4>2, <4>3 DEF Thrown, j
    <3>8. CASE Judge(q) \/ Finalise(q)
      <4>1. /\ hand[q].pc \in {"judge", "finalise"} /\ UNCHANGED <<queue, handled>>
            /\ hand'[q].throws = hand[q].throws /\ hand'[q].pc \in {"finalise", "end"}
        BY <1>1, <3>8 DEF Judge, Finalise, At, Hand
      <4>2. QED
        BY <1>1, <2>3, <3>1, <3>2, <3>3, <4>1 DEF Thrown, j
    <3>9. CASE End(q)
      <4>1. hand'[q] = NoHand /\ hand[q].pc = "end"
        BY <1>1, <3>9 DEF End, At
      <4>2. ~Free(q)' => hand[q].throws
        BY <1>1, <3>9 DEF End, Free, Entry
      <4>3. QED
        BY <1>1, <2>3, <3>1, <3>2, <4>1, <4>2 DEF Thrown, NoHand, j
    <3>10. CASE Crash(q)
      <4>1. hand'[q] = NoHand /\ hand[q].pc # "idle" /\ UNCHANGED handled
        BY <1>1, <3>10 DEF Crash, At
      <4>2. QED
        BY <1>1, <2>3, <3>1, <3>2, <3>3, <4>1 DEF Thrown, NoHand, j
    <3>11. CASE CountLost(q)
      BY <3>11 DEF CountLost
    <3>12. QED
      BY <1>4, <2>3, <3>4, <3>5, <3>6, <3>7, <3>8, <3>9, <3>10, <3>11 DEF Handle
  <2>4. QED
    BY <2>1, <2>2, <2>3
<1>5. QED
  BY <1>2, <1>3, <1>4, NextParts

(* Once nothing is left of a job, nothing comes back.                        *)
LEMMA NoneLeft ==
  ASSUME Shape, [Next]_vars, ~harm', NEW j \in Job, maker[j].pc \in {"update", "made"},
         Left(j) = {}
  PROVE  Left(j)' = {}
BY JobSteps, LeftSteps DEF Making, GoesWrong

LEMMA JudgedStep ==
  ASSUME Sound, [Next]_vars, ~harm', NEW q \in Order
  PROVE  Judged(q)'
<1>1. /\ Shape /\ TypeInv /\ TypeInv' /\ ~harm /\ hand \in [Order -> Hand]
      /\ sync \in [Job -> Row]
  BY ShapeStep, HarmStays, TypeParts DEF Sound, Shape, TypeInv
<1>2. SUFFICES ASSUME NEW j \in Job, Counted(q)' = j, hand'[q].pc = "finalise",
                      hand'[q].verdict = "COMPLETED"
               PROVE  Left(j)' = {}
  <2>1. hand'[q].pc = "finalise" => Counted(q)' \in Job
    BY <1>1, TypePartsNext DEF TypeInv, Linked, CountsFor, Counted, Entry
  <2>2. QED
    BY <1>2, <2>1 DEF Judged, Left, Tallied, Counting
<1>3. ASSUME hand'[q] = hand[q], Counted(q) = j
      PROVE  Left(j)' = {}
  <2>1. Left(j) = {}
    BY <1>1, <1>2, <1>3 DEF Sound, Judged
  <2>2. QED
    BY <1>1, <1>3, <2>1, CountedListed, NoneLeft
<1>4. ASSUME Judge(q), Counted(q) = j
      PROVE  Left(j)' = {}
  <2>1. sync[j].processed >= sync[j].total /\ sync[j].total > 0 /\ ~sync[j].failed
    BY <1>1, <1>2, <1>4 DEF Judge, Verdict
  <2>2. maker[j].pc = "made"
    BY <1>1, <1>4, <2>1, CountedListed DEF Shape, Listed
  <2>3. sync[j].processed + Cardinality(Left(j)) <= sync[j].total
    BY <1>1, <2>1, <2>2 DEF Sound, Upper
  <2>4. sync[j].processed \in Nat /\ sync[j].total \in Nat
    BY <1>1, Sizes DEF Row
  <2>5. Left(j) = {}
    BY <1>1, <2>1, <2>3, <2>4, LeftSizes
  <2>6. QED
    BY <1>1, <2>2, <2>5, NoneLeft
<1>5. CASE UNCHANGED vars
  BY <1>2, <1>3, <1>5 DEF vars, Counted
<1>6. CASE MakerStep
  BY <1>1, <1>2, <1>3, <1>6, MakerHands, EntrySteps DEF Counted
<1>7. ASSUME NEW o \in Order, Handle(o) \/ CountLost(o) \/ Crash(o)
      PROVE  Left(j)' = {}
  BY <1>1, <1>2, <1>3, <1>4, <1>7, HandlerSteps, OnlyJudged
<1>8. QED
  BY <1>5, <1>6, <1>7, NextParts

LEMMA InitSound == Init => Sound
<1> SUFFICES ASSUME Init PROVE Sound
  OBVIOUS
<1>1. \A j \in Job : Upper(j) /\ Finished(j)
  BY DEF Init, Upper, Finished, NoMaker, NoRow
<1>2. \A o \in Order : Thrown(o) /\ Judged(o)
  BY DEF Init, Thrown, Judged, NoHand, Counted
<1>3. QED
  BY <1>1, <1>2, InitShape DEF Sound

LEMMA SoundStep == Sound /\ [Next]_vars => Sound'
<1> SUFFICES ASSUME Sound, [Next]_vars PROVE Sound'
  OBVIOUS
<1>1. Shape'
  BY ShapeStep DEF Sound
<1>2. ASSUME ~harm'
      PROVE  /\ \A j \in Job : Upper(j)' /\ Finished(j)'
             /\ \A o \in Order : Thrown(o)' /\ Judged(o)'
  BY <1>2, UpperStep, FinishedStep, ThrownStep, JudgedStep
<1>3. QED
  BY <1>1, <1>2 DEF Sound

(* CompletedIsHandled for any number of jobs and orders: a job that          *)
(* finaliseSyncJobIfDone shows as COMPLETED had every order it counts taken  *)
(* up by a handler, unless a process died or a counter could not be written. *)
THEOREM CompletedJobsAreHandled == Spec => []CompletedIsHandled
<1>1. Sound => CompletedIsHandled
  BY DEF Sound, Finished, Left, Tallied, CompletedIsHandled
<1>2. QED
  BY <1>1, InitSound, SoundStep, PTL DEF Spec

-----------------------------------------------------------------------------
(* A handler that has counted and will see whether its job is over.          *)
Onto(o) == hand[o].pc \in {"outcome", "judge", "finalise"}

(* A job nothing led astray counts every order, and whoever counts last will *)
(* see that it is over.                                                      *)
Lower(j) ==
  /\ maker[j].pc = "update" => Tallied(j) = {}
  /\ maker[j].pc = "made" =>
       /\ Cardinality(maker[j].enqueued) <= sync[j].total
       /\ sync[j].total <= sync[j].processed + Cardinality(Left(j))
       /\ \/ sync[j].status # "PENDING" \/ Left(j) # {}
          \/ \E o \in Order : Counted(o) = j /\ Onto(o)

(* The invariant behind CountedIsFinished.                                   *)
Reaching == Shape /\ \A j \in Job : j \in astray \/ Lower(j)

LEMMA AstrayStays == ASSUME TypeInv, [Next]_vars PROVE astray \subseteq astray'
<1>1. ASSUME MakerStep
      PROVE  astray \subseteq astray'
  BY <1>1 DEF MakerStep, Tick, Pass, EnqueueOne, List, Update, MakerDies, MakeForAll, Make,
              Cancel, Retry
<1>2. QED
  BY <1>1, NextParts, HandlerSteps DEF vars

(* A handler that will see whether its job is over goes on to, until it has. *)
LEMMA OntoSteps ==
  ASSUME Shape, [Next]_vars, NEW j \in Job, j \notin astray', NEW o \in Order,
         Counted(o) = j, Onto(o)
  PROVE  \/ Counted(o)' = j /\ Onto(o)'
         \/ Finalise(o)
         \/ Judge(o) /\ ~(sync[j].processed >= sync[j].total /\ sync[j].total > 0)
<1>1. TypeInv /\ hand \in [Order -> Hand] /\ hand[o].pc # "idle" /\ j # NoJob
  BY TypeParts DEF Shape, TypeInv, Onto, Job, NoJob
<1>2. ASSUME hand'[o] = hand[o], Counted(o)' = Counted(o)
      PROVE  Counted(o)' = j /\ Onto(o)'
  BY <1>2 DEF Onto
<1>3. CASE UNCHANGED vars
  BY <1>2, <1>3 DEF vars, Counted
<1>4. CASE MakerStep
  BY <1>1, <1>2, <1>4, MakerHands, EntrySteps DEF Counted
<1>5. ASSUME NEW q \in Order, Handle(q) \/ CountLost(q) \/ Crash(q), q # o
      PROVE  Counted(o)' = j /\ Onto(o)'
  BY <1>1, <1>2, <1>5, HandlerSteps
<1>6. ASSUME Handle(o) \/ CountLost(o) \/ Crash(o)
      PROVE  \/ Counted(o)' = j /\ Onto(o)'
             \/ Finalise(o)
             \/ Judge(o) /\ ~(sync[j].processed >= sync[j].total /\ sync[j].total > 0)
  <2>1. Counted(o)' = j
    BY <1>1, <1>6, HandlerSteps
  <2>2. CASE CountOutcome(o)
    <3>1. hand'[o].pc = "judge"
      BY <1>1, <2>2 DEF CountOutcome, Hand
    <3>2. QED
      BY <2>1, <3>1 DEF Onto
  <2>3. CASE Judge(o) /\ sync[j].processed >= sync[j].total /\ sync[j].total > 0
    <3>1. hand'[o].pc = "finalise"
      BY <1>1, <2>3 DEF Judge, Hand
    <3>2. QED
      BY <2>1, <3>1 DEF Onto
  <2>4. CASE CountLost(o)
    BY <2>4 DEF CountLost
  <2>5. CASE Crash(o)
    BY <1>1, <2>5 DEF Crash, HasCounted, Onto
  <2>6. ~Start(o)
    BY <1>1 DEF Start, Shape, TypeInv, TypeOK
  <2>7. QED
    BY <1>6, <2>2, <2>3, <2>4, <2>5, <2>6 DEF Handle, Settle, CountProcessed, End, At, Onto
<1>7. QED
  BY <1>3, <1>4, <1>5, <1>6, NextParts

LEMMA LowerStep ==
  ASSUME Reaching, [Next]_vars, NEW j \in Job, j \notin astray'
  PROVE  Lower(j)'
<1>1. /\ Shape /\ TypeInv /\ Lower(j) /\ sync[j] \in Row /\ maker[j] \in Maker
      /\ hand \in [Order -> Hand] /\ sync \in [Job -> Row]
  BY AstrayStays, TypeParts DEF Reaching, Shape, TypeInv
<1>2. CASE Same(j)
  <2>1. Left(j)' = Left(j)
    BY <1>2, LeftSteps
  <2>2. SUFFICES ASSUME maker[j].pc = "made", sync'[j].status = "PENDING", Left(j) = {}
                 PROVE  \E o \in Order : Counted(o)' = j /\ Onto(o)'
    BY <1>1, <1>2, <2>1 DEF Lower, Same
  <2>3. \A o \in Order : Finalise(o) /\ Counted(o) = j => sync'[j].status # "PENDING"
    BY <1>1 DEF Finalise, Hand, Row
  <2>4. sync[j].status = "PENDING"
    BY <1>1, <1>2, <2>2 DEF Same, Hand
  <2>5. PICK o \in Order : Counted(o) = j /\ Onto(o)
    BY <1>1, <2>2, <2>4 DEF Lower
  <2>6. sync[j].processed >= sync[j].total /\ sync[j].total > 0
    <3>1. o \in maker[j].enqueued
      BY <1>1, <2>5, CountedListed
    <3>2. maker[j].enqueued \in SUBSET Order /\ Cardinality(maker[j].enqueued) # 0
          /\ Cardinality(maker[j].enqueued) \in Nat
      BY <1>1, <3>1, Sizes, FS_EmptySet DEF Maker
    <3>3. Cardinality(Left(j)) = 0
      BY <1>1, <2>2, LeftSizes
    <3>4. sync[j].processed \in Nat /\ sync[j].total \in Nat
      BY <1>1, Sizes DEF Row
    <3>5. QED
      BY <1>1, <2>2, <3>2, <3>3, <3>4 DEF Lower
  <2>7. QED
    BY <1>1, <2>2, <2>3, <2>5, <2>6, OntoSteps
<1>3. CASE Making(j)
  BY <1>3 DEF Making, Lower
<1>4. CASE Totalled(j)
  <2>1. /\ sync'[j].total = Cardinality(maker[j].enqueued) + maker[j].skipped
        /\ sync'[j].processed = maker[j].skipped
        /\ sync'[j].status = "PENDING" <=> maker[j].enqueued # {}
    BY <1>1, <1>4, TotalsTyped DEF Totalled
  <2>2. Left(j)' = maker[j].enqueued
    BY <1>1, <1>4 DEF Totalled, Lower, Left
  <2>3. Cardinality(maker[j].enqueued) \in Nat /\ maker[j].skipped \in Nat
    BY <1>1, LeftSizes, Sizes DEF Maker
  <2>4. QED
    BY <1>4, <2>1, <2>2, <2>3 DEF Totalled, Lower
<1>5. CASE TakenUp(j)
  <2>1. PICK o \in Order : CountProcessed(o) /\ Counted(o) = j
                           /\ Tallied(j)' = Tallied(j) \cup {o}
    BY <1>5 DEF TakenUp
  <2>2. maker[j].pc # "update" /\ UNCHANGED <<maker, queue>>
    BY <2>1 DEF CountProcessed
  <2>3. Counted(o)' = j /\ Onto(o)'
    <3>1. hand'[o].pc = "outcome"
      BY <1>1, <2>1 DEF CountProcessed, Step, Hand
    <3>2. QED
      BY <2>1, <2>2, <3>1 DEF Onto, Counted
  <2>4. SUFFICES ASSUME maker[j].pc = "made"
                 PROVE  sync'[j].total <= sync'[j].processed + Cardinality(Left(j)')
                        /\ sync'[j].total = sync[j].total
    BY <1>1, <2>2, <2>3 DEF Lower
  <2>5. /\ sync'[j].total = sync[j].total /\ sync[j].total \in Nat /\ sync[j].total <= Enough
        /\ sync[j].processed \in Nat /\ Enough \in Nat /\ sync[j].processed <= Enough
        /\ sync'[j].processed = IF sync[j].processed < Enough THEN sync[j].processed + 1
                                ELSE sync[j].processed
    BY <1>1, <1>5, Sizes DEF TakenUp, Row
  <2>6. Left(j)' = Left(j) \ {o}
    BY <2>1, <2>2 DEF Left
  <2>7. /\ Cardinality(Left(j)) \in Nat /\ Cardinality(Left(j)') \in Nat
        /\ Cardinality(Left(j)) - 1 <= Cardinality(Left(j)')
    BY <1>1, <2>6, LeftSizes, FS_RemoveElement, FS_CardinalityType
  <2>8. sync[j].total <= sync[j].processed + Cardinality(Left(j))
    BY <1>1, <2>4 DEF Lower
  <2>9. QED
    BY <2>5, <2>7, <2>8
<1>6. QED
  BY <1>1, <1>2, <1>3, <1>4, <1>5, JobSteps DEF GoesWrong

LEMMA ReachingStep == Reaching /\ [Next]_vars => Reaching'
BY ShapeStep, LowerStep DEF Reaching

LEMMA InitReaching == Init => Reaching
<1>1. Init => \A j \in Job : Lower(j)
  BY DEF Init, Lower, NoMaker
<1>2. QED
  BY <1>1, InitShape DEF Reaching

LEMMA ReachingCounted == Reaching => CountedIsFinished
<1> SUFFICES ASSUME Reaching, NEW j \in Job, j \notin astray, Over(j)
             PROVE  sync[j].status # "PENDING"
  BY DEF CountedIsFinished
<1>1. Lower(j) /\ Linked
  BY TypeParts DEF Reaching, Shape, TypeInv
<1>2. Left(j) = {}
  BY DEF Over, Left, Tallied
<1>3. \A o \in Order : Counted(o) = j => ~Onto(o)
  BY <1>1 DEF Over, Linked, Onto
<1>4. QED
  BY <1>1, <1>2, <1>3 DEF Over, Lower

(* CountedIsFinished for any number of jobs and orders: the last order that  *)
(* incrementSyncJobCounters counts for a job whose count nothing led astray  *)
(* sees the total reached, so the job does not stay PENDING once it is over. *)
THEOREM CountedJobsFinish == Spec => []CountedIsFinished
<1>1. QED
  BY InitReaching, ReachingStep, ReachingCounted, PTL DEF Spec
===============================================================================

------------------------ MODULE InventoryUploadProofs ------------------------
(***************************************************************************)
(* Proofs about InventoryUpload, for any number of processes,              *)
(* administrators, lines, units of measure and records.                    *)
(***************************************************************************)
EXTENDS InventoryUpload, TLAPS

(* A POST that Oracle accepted moved its lines.                              *)
AcceptedMoved ==
  \A w \in Worker : \A c \in job[w].open :
    c.phase = "accepted" => \A n \in c.lines : moves[n] > 0

(* A PENDING row is one the earlier upload left, and as it left it.          *)
AsLeft ==
  \A i \in Id : Status(i) = "PENDING" => i \in LegacyId /\ table[i].lines = {LegacyOf[i]}

(* What Oracle processed for a leftover moved.                               *)
LeftMoved == \A i \in LegacyId : staged[i] = "processed" => moves[LegacyOf[i]] > 0

(* What every step preserves: a SUCCESS row is written from an accepted POST *)
(* or a verdict on a PENDING row only (any other sets misjudged), so the     *)
(* second part follows from the last three.                                  *)
IInv == TypeOK /\ RecordedMeansMoved /\ AcceptedMoved /\ AsLeft /\ LeftMoved

-----------------------------------------------------------------------------
(* Replacing what one call holds keeps the types.                            *)
LEMMA JobTyped ==
  ASSUME TypeOK, NEW w \in Worker, NEW j \in Job, w \in Clerk => j.older = {}, Go(w, j)
  PROVE  /\ job' \in [Worker -> Job]
         /\ (\A k \in Clerk : job[k].older = {})'
<1>1. job \in [Worker -> Job] /\ \A k \in Clerk : job[k].older = {}
  BY DEF TypeOK
<1>2. job' = [job EXCEPT ![w] = j]
  BY DEF Go
<1>3. job' \in [Worker -> Job]
  BY <1>1, <1>2
<1>4. ASSUME NEW k \in Clerk
      PROVE  job'[k].older = {}
  BY <1>1, <1>2 DEF Worker
<1>5. QED
  BY <1>3, <1>4

(* The idle call is well typed.                                              *)
LEMMA NoJobTyped == NoJob \in Job /\ NoJob.older = {} /\ NoJob.open = {}
BY DEF NoJob, Job

(* Advancing a sent row keeps the call well typed.                           *)
LEMMA AdvanceTyped ==
  ASSUME TypeOK, NEW w \in Worker, NEW c \in job[w].open,
         NEW phase \in {"sent", "unsent", "accepted", "refused", "saved"}, Advance(w, c, phase)
  PROVE  /\ job' \in [Worker -> Job]
         /\ (\A k \in Clerk : job[k].older = {})'
<1> DEFINE j == [job[w] EXCEPT !.open = (@ \ {c}) \cup {[c EXCEPT !.phase = phase]}]
<1>1. job[w] \in Job /\ (w \in Clerk => job[w].older = {})
  BY DEF TypeOK
<1>2. c \in Open
  BY <1>1 DEF Job
<1>3. [c EXCEPT !.phase = phase] \in Open
  BY <1>2 DEF Open
<1>4. j \in Job /\ j.older = job[w].older
  BY <1>1, <1>3 DEF Job
<1>5. Go(w, j)
  BY DEF Advance
<1>6. QED
  BY <1>1, <1>4, <1>5, JobTyped

(* So does returning a row's outcome.                                        *)
LEMMA OutcomeTyped ==
  ASSUME TypeOK, NEW w \in Worker, NEW c \in job[w].open,
         NEW success \in BOOLEAN, Outcome(w, c, success)
  PROVE  /\ job' \in [Worker -> Job]
         /\ (\A k \in Clerk : job[k].older = {})'
<1> DEFINE kept == (job[w].open \ {c}) \cup
                   (IF job[w].older = {} THEN {} ELSE {[c EXCEPT !.phase = "saved"]})
           j == [job[w] EXCEPT !.posted = @ \/ (success /\ w \in Clerk), !.open = kept]
<1>1. job[w] \in Job /\ (w \in Clerk => job[w].older = {})
  BY DEF TypeOK
<1>2. c \in Open /\ job[w].open \subseteq Open
  BY <1>1 DEF Job
<1>3. [c EXCEPT !.phase = "saved"] \in Open
  BY <1>2 DEF Open
<1>4. kept \subseteq Open
  BY <1>2, <1>3
<1>5. (job[w].posted \/ (success /\ w \in Clerk)) \in BOOLEAN
  OBVIOUS
<1>6. j \in Job /\ j.older = job[w].older
  BY <1>1, <1>4, <1>5 DEF Job
<1>7. Go(w, j)
  BY DEF Outcome
<1>8. QED
  BY <1>1, <1>6, <1>7, JobTyped

(* Updating rows by id keeps the table well typed.                           *)
LEMMA MarkedTyped ==
  ASSUME TypeOK, NEW ids, NEW status \in Live \cup {"SUPERSEDED"}
  PROVE  Marked(ids, status) \in [Id -> [lines : SUBSET Line, status : Live \cup {"SUPERSEDED"}]
                                         \cup {None}]
<1>1. ASSUME NEW i \in Id, table[i] # None
      PROVE  [table[i] EXCEPT !.status = status]
               \in [lines : SUBSET Line, status : Live \cup {"SUPERSEDED"}]
  BY <1>1 DEF TypeOK
<1>2. QED
  BY <1>1 DEF Marked, TypeOK

(* So does retiring them.                                                    *)
LEMMA SupersededTyped ==
  ASSUME TypeOK, NEW ids
  PROVE  Superseded(ids) \in [Id -> [lines : SUBSET Line, status : Live \cup {"SUPERSEDED"}]
                                      \cup {None}]
BY MarkedTyped DEF Superseded

(* A mishap spends from the budget.                                          *)
LEMMA MishapTyped ==
  ASSUME TypeOK, NEW f, Mishap(f)
  PROVE  budget' \in 0 .. MaxFaults
BY ConstantsOK DEF TypeOK, Mishap

(* A row a caller sends is in hand and well typed.                           *)
LEMMA RowTyped ==
  ASSUME TypeOK, NEW w \in Worker, NEW x \in job[w].todo
  PROVE  x \in Row
BY DEF TypeOK, Job

(* The record a row goes to exists.                                          *)
LEMMA TargetTyped ==
  ASSUME TypeOK, NEW w \in Worker, NEW x \in job[w].todo
  PROVE  Target(w, x) \subseteq Id
<1>1. x.id \in Id \cup {None} /\ job[w].reuse \in Id \cup {None}
  BY RowTyped DEF Row, TypeOK, Job
<1>2. QED
  BY <1>1 DEF Target

-----------------------------------------------------------------------------
(* The types: initially, and after every action.                             *)
LEMMA InitTyped == Init => TypeOK
<1> SUFFICES ASSUME Init PROVE TypeOK
  OBVIOUS
<1>1. table \in [Id -> [lines : SUBSET Line, status : Live \cup {"SUPERSEDED"}] \cup {None}]
  <2>1. [lines : {{n} : n \in Line}, status : Legacy]
          \subseteq [lines : SUBSET Line, status : Live \cup {"SUPERSEDED"}]
    BY ConstantsOK
  <2>2. QED
    BY <2>1 DEF Init
<1>2. moves \in [Line -> 0 .. 2]
  BY DEF Init
<1>3. job \in [Worker -> Job] /\ \A k \in Clerk : job[k].older = {}
  BY NoJobTyped DEF Init, Worker
<1>4. budget \in 0 .. MaxFaults /\ landed \subseteq Line
  BY ConstantsOK DEF Init
<1>5. QED
  BY <1>1, <1>2, <1>3, <1>4 DEF Init, TypeOK

(* A call begins with rows of the right kind.                                *)
LEMMA BeginTyped ==
  ASSUME TypeOK, NEW w \in Worker, NEW rows \in SUBSET Row, Begin(w, rows)
  PROVE  TypeOK'
<1> DEFINE j == [NoJob EXCEPT !.pc = "read", !.todo = rows]
<1>1. j \in Job /\ j.older = {}
  BY DEF NoJob, Job
<1>2. Go(w, j)
  BY DEF Begin
<1>3. job' \in [Worker -> Job] /\ (\A k \in Clerk : job[k].older = {})'
  BY <1>1, <1>2, JobTyped
<1>4. harm' \in BOOLEAN /\ budget' \in 0 .. MaxFaults
  <2>1. CASE UNCHANGED <<budget, harm>>
    BY <2>1 DEF TypeOK
  <2>2. CASE Mishap("overlap") /\ harm' = TRUE
    BY <2>2, MishapTyped
  <2>3. QED
    BY <2>1, <2>2 DEF Begin
<1>5. UNCHANGED <<landed, recent, table, moves, leftovers>>
  BY DEF Begin
<1>6. QED
  BY <1>3, <1>4, <1>5 DEF TypeOK, leftovers

LEMMA UploadDayTyped ==
  ASSUME TypeOK, NEW h \in Host, UploadDay(h)
  PROVE  TypeOK'
<1>1. {[lines |-> ns, id |-> None] : ns \in Rows} \in SUBSET Row
  BY DEF Rows, Row, TypeOK
<1>2. h \in Worker
  BY DEF Worker
<1>3. QED
  BY <1>1, <1>2, BeginTyped DEF UploadDay

LEMMA ReprocessTyped ==
  ASSUME TypeOK, NEW k \in Clerk, Reprocess(k)
  PROVE  TypeOK'
<1>1. PICK ids \in SUBSET {i \in Id : Status(i) = "HELD"} :
        Begin(k, {[lines |-> table[i].lines, id |-> i] : i \in ids})
  BY DEF Reprocess
<1>2. ASSUME NEW i \in ids
      PROVE  [lines |-> table[i].lines, id |-> i] \in Row
  <2>1. i \in Id /\ table[i] # None
    BY <1>2 DEF Status
  <2>2. table[i].lines \in SUBSET Line
    BY <2>1 DEF TypeOK
  <2>3. QED
    BY <2>1, <2>2 DEF Row
<1>3. {[lines |-> table[i].lines, id |-> i] : i \in ids} \in SUBSET Row
  BY <1>2
<1>4. k \in Worker
  BY DEF Worker
<1>5. QED
  BY <1>1, <1>3, <1>4, BeginTyped

(* Only an upload comes out of the search with records to reuse and retire.  *)
LEMMA ReadExistingTyped ==
  ASSUME TypeOK, NEW w \in Worker, ReadExisting(w)
  PROVE  TypeOK'
<1>1. job[w] \in Job /\ (w \in Clerk => job[w].older = {})
  BY DEF TypeOK
<1>2. Posted \in BOOLEAN /\ LiveIds \subseteq Id
  BY DEF Posted, LiveIds
<1>3. job' \in [Worker -> Job] /\ (\A k \in Clerk : job[k].older = {})'
  <2>1. CASE w \in Clerk \/ LiveIds = {}
    <3> DEFINE j == [job[w] EXCEPT !.pc = "work", !.posted = Posted]
    <3>1. j \in Job /\ j.older = job[w].older
      BY <1>1, <1>2 DEF Job
    <3>2. Go(w, j)
      BY <2>1 DEF ReadExisting
    <3>3. QED
      BY <1>1, <3>1, <3>2, JobTyped
  <2>2. CASE ~(w \in Clerk \/ LiveIds = {})
    <3>1. PICK i \in LiveIds :
            Go(w, [job[w] EXCEPT !.pc = "work", !.posted = Posted, !.reuse = i,
                                 !.older = LiveIds \ {i}])
      BY <2>2 DEF ReadExisting
    <3> DEFINE j == [job[w] EXCEPT !.pc = "work", !.posted = Posted, !.reuse = i,
                                   !.older = LiveIds \ {i}]
    <3>2. j \in Job
      BY <1>1, <1>2 DEF Job
    <3>3. QED
      BY <2>2, <3>1, <3>2, JobTyped
  <2>3. QED
    BY <2>1, <2>2
<1>4. QED
  BY <1>3 DEF TypeOK, ReadExisting, leftovers

LEMMA SkipPostedTyped ==
  ASSUME TypeOK, NEW w \in Worker, NEW x \in job[w].todo, SkipPosted(w, x)
  PROVE  TypeOK'
<1> DEFINE j == [job[w] EXCEPT !.todo = @ \ {x}]
<1>1. job[w] \in Job /\ (w \in Clerk => job[w].older = {})
  BY DEF TypeOK
<1>2. j \in Job /\ j.older = job[w].older
  BY <1>1 DEF Job
<1>3. job' \in [Worker -> Job] /\ (\A k \in Clerk : job[k].older = {})'
  BY <1>1, <1>2, JobTyped DEF SkipPosted
<1>4. table' \in [Id -> [lines : SUBSET Line, status : Live \cup {"SUPERSEDED"}] \cup {None}]
  BY SupersededTyped DEF SkipPosted, TypeOK
<1>5. QED
  BY <1>3, <1>4 DEF TypeOK, SkipPosted, leftovers

LEMMA TakeRowTyped ==
  ASSUME TypeOK, NEW w \in Worker, NEW x \in job[w].todo,
         NEW phase \in {"sent", "unsent"}, TakeRow(w, x, phase)
  PROVE  TypeOK'
<1>1. PICK i \in Target(w, x) :
        Go(w, [job[w] EXCEPT !.todo = @ \ {x}, !.open = @ \cup
                               {[lines |-> x.lines, id |-> i, phase |-> phase]}])
  BY DEF TakeRow, Take
<1> DEFINE c == [lines |-> x.lines, id |-> i, phase |-> phase]
           j == [job[w] EXCEPT !.todo = @ \ {x}, !.open = @ \cup {c}]
<1>2. job[w] \in Job /\ (w \in Clerk => job[w].older = {})
  BY DEF TypeOK
<1>3. x.lines \in SUBSET Line /\ i \in Id
  BY RowTyped, TargetTyped DEF Row
<1>4. c \in Open
  BY <1>3 DEF Open
<1>5. j \in Job /\ j.older = job[w].older
  BY <1>2, <1>4 DEF Job
<1>6. job' \in [Worker -> Job] /\ (\A k \in Clerk : job[k].older = {})'
  BY <1>1, <1>2, <1>5, JobTyped
<1>7. UNCHANGED <<landed, recent, table, moves, budget, leftovers>> /\ harm' \in BOOLEAN
  BY DEF TakeRow, Take
<1>8. QED
  BY <1>6, <1>7 DEF TypeOK, leftovers

(* The steps of a row that was taken.                                        *)
LEMMA CallTyped ==
  ASSUME TypeOK, NEW w \in Worker, NEW c \in job[w].open,
         \/ Accept(w, c) \/ Refuse(w, c) \/ ReplyLost(w, c)
         \/ SaveSuccess(w, c) \/ SaveFailure(w, c) \/ SaveUnsent(w, c)
         \/ SaveLost(w, c) \/ Retire(w, c) \/ RetireLost(w, c)
  PROVE  TypeOK'
<1>1. c \in Open /\ job[w] \in Job /\ (w \in Clerk => job[w].older = {})
  BY DEF TypeOK, Job
<1>2. c.id \in Id /\ c.lines \in SUBSET Line
  BY <1>1 DEF Open
<1>3. CASE Accept(w, c)
  <2>1. moves' \in [Line -> 0 .. 2]
    BY <1>3 DEF Accept, Move, TypeOK
  <2>2. QED
    BY <1>3, <2>1, AdvanceTyped DEF Accept, TypeOK, leftovers
<1>4. CASE Refuse(w, c)
  BY <1>4, AdvanceTyped DEF Refuse, TypeOK, leftovers
<1>5. CASE ReplyLost(w, c)
  BY <1>5, AdvanceTyped, MishapTyped DEF ReplyLost, TypeOK, leftovers
<1>6. ASSUME NEW status \in Live, Write(c.id, c.lines, status)
      PROVE  table' \in [Id -> [lines : SUBSET Line, status : Live \cup {"SUPERSEDED"}]
                                 \cup {None}]
  BY <1>2, <1>6 DEF Write, TypeOK
<1>7. CASE SaveSuccess(w, c)
  <2>1. "SUCCESS" \in Live
    BY DEF Live
  <2>2. QED
    BY <1>6, <1>7, <2>1, OutcomeTyped DEF SaveSuccess, TypeOK, leftovers
<1>8. CASE SaveFailure(w, c)
  <2>1. "HELD" \in Live
    BY DEF Live
  <2>2. QED
    BY <1>6, <1>8, <2>1, OutcomeTyped DEF SaveFailure, TypeOK, leftovers
<1>14. CASE SaveUnsent(w, c)
  <2>1. "HELD" \in Live
    BY DEF Live
  <2>2. table' \in [Id -> [lines : SUBSET Line, status : Live \cup {"SUPERSEDED"}] \cup {None}]
    <3>1. CASE Write(c.id, c.lines, "HELD")
      BY <1>6, <2>1, <3>1
    <3>2. CASE Status(c.id) \in Live /\ Write(c.id, table[c.id].lines, "HELD")
      <4>1. table[c.id] # None
        BY <3>2 DEF Status, Live
      <4>2. table[c.id].lines \in SUBSET Line
        BY <1>2, <4>1 DEF TypeOK
      <4>3. QED
        BY <1>2, <2>1, <3>2, <4>2 DEF Write, TypeOK
    <3>3. QED
      BY <1>14, <3>1, <3>2 DEF SaveUnsent
  <2>3. QED
    BY <1>14, <2>2, OutcomeTyped DEF SaveUnsent, TypeOK, leftovers
<1>9. CASE SaveLost(w, c)
  <2>1. (c.phase = "accepted") \in BOOLEAN
    OBVIOUS
  <2>2. QED
    BY <1>9, <2>1, OutcomeTyped, MishapTyped DEF SaveLost, TypeOK, leftovers
<1> DEFINE j == [job[w] EXCEPT !.open = @ \ {c}]
<1>10. j \in Job /\ j.older = job[w].older
  BY <1>1 DEF Job
<1>11. CASE Retire(w, c)
  <2>1. table' \in [Id -> [lines : SUBSET Line, status : Live \cup {"SUPERSEDED"}] \cup {None}]
    BY <1>11, SupersededTyped DEF Retire
  <2>2. job' \in [Worker -> Job] /\ (\A k \in Clerk : job[k].older = {})'
    BY <1>1, <1>10, <1>11, JobTyped DEF Retire
  <2>3. QED
    BY <1>11, <2>1, <2>2 DEF Retire, TypeOK, leftovers
<1>12. CASE RetireLost(w, c)
  <2>1. job' \in [Worker -> Job] /\ (\A k \in Clerk : job[k].older = {})'
    BY <1>1, <1>10, <1>12, JobTyped DEF RetireLost
  <2>2. QED
    BY <1>12, <2>1, MishapTyped DEF RetireLost, TypeOK, leftovers
<1>13. QED
  BY <1>3, <1>4, <1>5, <1>7, <1>8, <1>9, <1>11, <1>12, <1>14

(* A run ends, or dies.                                                      *)
LEMMA EndTyped ==
  ASSUME TypeOK, NEW w \in Worker, Finish(w) \/ Crash(w)
  PROVE  TypeOK'
<1>1. job' \in [Worker -> Job] /\ (\A k \in Clerk : job[k].older = {})'
  BY NoJobTyped, JobTyped DEF Finish, Crash
<1>2. CASE Finish(w)
  BY <1>1, <1>2 DEF Finish, TypeOK, leftovers
<1>3. CASE Crash(w)
  <2>1. budget' \in 0 .. MaxFaults
    BY <1>3, MishapTyped DEF Crash
  <2>2. harm' \in BOOLEAN
    BY <1>3 DEF Crash
  <2>3. QED
    BY <1>1, <1>3, <2>1, <2>2 DEF Crash, TypeOK, leftovers
<1>4. QED
  BY <1>2, <1>3

(* Oracle works off its queue, and verifiers pass their verdicts.            *)
LEMMA LeftoverTyped ==
  ASSUME TypeOK, NEW i \in LegacyId, Leftover(i)
  PROVE  TypeOK'
<1>1. CASE OracleProcesses(i)
  <2>1. moves' \in [Line -> 0 .. 2]
    BY <1>1 DEF OracleProcesses, Move, TypeOK
  <2>2. staged' \in [LegacyId -> {"refused", "queued", "processed"}]
    BY <1>1 DEF OracleProcesses, TypeOK
  <2>3. QED
    BY <1>1, <2>1, <2>2 DEF OracleProcesses, TypeOK
<1>2. CASE OracleRejects(i)
  <2>1. staged' \in [LegacyId -> {"refused", "queued", "processed"}]
    BY <1>2 DEF OracleRejects, TypeOK
  <2>2. QED
    BY <1>2, <2>1 DEF OracleRejects, TypeOK
<1>3. CASE Check(i) \/ LetGo(i)
  BY <1>3 DEF Check, LetGo, TypeOK
<1>4. ASSUME NEW status \in {"SUCCESS", "HELD"}, Settle(i, status), misjudged' \in BOOLEAN
      PROVE  TypeOK'
  <2>1. harm' \in BOOLEAN /\ budget' \in 0 .. MaxFaults
    <3>1. CASE UNCHANGED <<budget, harm>>
      BY <3>1 DEF TypeOK
    <3>2. CASE Mishap("overlap") /\ harm' = TRUE
      BY <3>2, MishapTyped
    <3>3. QED
      BY <1>4, <3>1, <3>2 DEF Settle
  <2>2. status \in Live
    BY DEF Live
  <2>3. QED
    BY <1>4, <2>1, <2>2, MarkedTyped DEF Settle, TypeOK
<1>5. CASE Confirm(i)
  BY <1>4, <1>5 DEF Confirm
<1>6. CASE Condemn(i)
  BY <1>4, <1>6 DEF Condemn, TypeOK
<1>7. QED
  BY <1>1, <1>2, <1>3, <1>5, <1>6 DEF Leftover

LEMMA StepTyped ==
  ASSUME TypeOK, [Next]_vars
  PROVE  TypeOK'
<1>1. CASE RowLands
  BY <1>1, ConstantsOK DEF RowLands, TypeOK, leftovers
<1>2. CASE DayAges
  BY <1>2 DEF DayAges, TypeOK, leftovers
<1>3. CASE \E h \in Host : UploadDay(h)
  BY <1>3, UploadDayTyped
<1>4. CASE \E k \in Clerk : Reprocess(k)
  BY <1>4, ReprocessTyped
<1>5. ASSUME NEW w \in Worker, Upload(w)
      PROVE  TypeOK'
  <2>1. CASE ReadExisting(w)
    BY <2>1, ReadExistingTyped
  <2>2. CASE \E x \in job[w].todo : SkipPosted(w, x) \/ Send(w, x) \/ Unmapped(w, x)
    BY <2>2, SkipPostedTyped, TakeRowTyped DEF Send, Unmapped
  <2>3. CASE \E c \in job[w].open :
               \/ Accept(w, c) \/ Refuse(w, c) \/ ReplyLost(w, c)
               \/ SaveSuccess(w, c) \/ SaveFailure(w, c) \/ SaveUnsent(w, c)
               \/ SaveLost(w, c) \/ Retire(w, c) \/ RetireLost(w, c)
    BY <2>3, CallTyped
  <2>4. CASE Finish(w)
    BY <2>4, EndTyped
  <2>5. QED
    BY <1>5, <2>1, <2>2, <2>3, <2>4 DEF Upload
<1>6. ASSUME NEW w \in Worker, Crash(w)
      PROVE  TypeOK'
  BY <1>6, EndTyped
<1>7. CASE UNCHANGED vars
  BY <1>7 DEF vars, leftovers, TypeOK
<1>8. QED
  BY <1>1, <1>2, <1>3, <1>4, <1>5, <1>6, <1>7, LeftoverTyped DEF Next

(* Types are kept by every behaviour of the upload, however many callers     *)
(* run it and however many rows they write.                                  *)
THEOREM UploadTypeCorrect == Spec => []TypeOK
<1>1. Init => TypeOK
  BY InitTyped
<1>2. TypeOK /\ [Next]_vars => TypeOK'
  BY StepTyped
<1>3. QED
  BY <1>1, <1>2, PTL DEF Spec

-----------------------------------------------------------------------------
(* Stock never moves back.                                                   *)
Onward == \A n \in Line : moves[n] > 0 => moves'[n] > 0

(* AcceptedMoved survives a change of one call whose accepted rows moved.    *)
LEMMA AcceptedKept ==
  ASSUME IInv, NEW w \in Worker, NEW j, Go(w, j), Onward,
         \A c \in j.open : c.phase = "accepted" => \A n \in c.lines : moves'[n] > 0
  PROVE  AcceptedMoved'
<1>1. job \in [Worker -> Job] /\ job' = [job EXCEPT ![w] = j]
  BY DEF IInv, TypeOK, Go
<1>2. SUFFICES ASSUME NEW v \in Worker, NEW c \in job'[v].open, c.phase = "accepted",
                      NEW n \in c.lines
               PROVE  moves'[n] > 0
  BY DEF AcceptedMoved
<1>3. CASE v = w
  BY <1>1, <1>2, <1>3
<1>4. CASE v # w
  <2>1. c \in job[v].open
    BY <1>1, <1>4
  <2>2. n \in Line
    BY <1>1, <2>1 DEF Job, Open
  <2>3. moves[n] > 0
    BY <1>2, <2>1 DEF IInv, AcceptedMoved
  <2>4. QED
    BY <2>2, <2>3 DEF Onward
<1>5. QED
  BY <1>3, <1>4

(* The usual case: nothing moves and no row becomes accepted.                *)
LEMMA AcceptedKeptStill ==
  ASSUME IInv, NEW w \in Worker, NEW j, Go(w, j), UNCHANGED moves,
         \A c \in j.open : c.phase = "accepted" => c \in job[w].open
  PROVE  AcceptedMoved'
<1>1. Onward
  BY DEF Onward
<1>2. ASSUME NEW c \in j.open, c.phase = "accepted", NEW n \in c.lines
      PROVE  moves'[n] > 0
  <2>1. c \in job[w].open
    BY <1>2
  <2>2. QED
    BY <1>2, <2>1 DEF IInv, AcceptedMoved
<1>3. QED
  BY <1>1, <1>2, AcceptedKept

(* Updating rows by id leaves the others alone, and the lines of all.        *)
LEMMA MarkedRows ==
  ASSUME TypeOK, NEW ids, NEW status \in Live \cup {"SUPERSEDED"}, table' = Marked(ids, status)
  PROVE  \A i \in Id :
           \/ table'[i] = table[i] /\ Status(i)' = Status(i)
           \/ /\ i \in ids /\ table[i] # None /\ table'[i] # None
              /\ Status(i)' = status /\ table'[i].lines = table[i].lines
<1> SUFFICES ASSUME NEW i \in Id
             PROVE  \/ table'[i] = table[i] /\ Status(i)' = Status(i)
                    \/ /\ i \in ids /\ table[i] # None /\ table'[i] # None
                       /\ Status(i)' = status /\ table'[i].lines = table[i].lines
  OBVIOUS
<1>1. CASE i \in ids /\ table[i] # None
  <2>1. table[i] \in [lines : SUBSET Line, status : Live \cup {"SUPERSEDED"}]
    BY <1>1 DEF TypeOK
  <2>2. table'[i] = [table[i] EXCEPT !.status = status]
    BY <1>1 DEF Marked
  <2>3. table'[i] = [lines |-> table[i].lines, status |-> status] /\ table[i].lines \in SUBSET Line
    BY <2>1, <2>2
  <2>4. table'[i] \in [lines : SUBSET Line, status : Live \cup {"SUPERSEDED"}]
    BY <2>3
  <2>5. table'[i] # None
    BY <2>4, ConstantsOK
  <2>6. QED
    BY <1>1, <2>3, <2>5 DEF Status
<1>2. CASE ~(i \in ids /\ table[i] # None)
  BY <1>2 DEF Marked, Status
<1>3. QED
  BY <1>1, <1>2

(* RecordedMeansMoved survives when no row becomes SUCCESS and nothing is    *)
(* misjudged anew.                                                           *)
LEMMA RecordedKept ==
  ASSUME IInv, Onward, UNCHANGED misjudged,
         table' = table \/ \E ids : table' = Superseded(ids)
  PROVE  RecordedMeansMoved'
<1>1. SUFFICES ASSUME ~misjudged, NEW i \in Id, (Status(i) = "SUCCESS")', NEW n \in table'[i].lines
               PROVE  moves'[n] > 0
  BY DEF RecordedMeansMoved
<1>2. Status(i) = "SUCCESS" /\ table'[i] = table[i]
  <2>1. CASE table' = table
    BY <1>1, <2>1 DEF Status
  <2>2. ASSUME NEW ids, table' = Superseded(ids)
        PROVE  Status(i) = "SUCCESS" /\ table'[i] = table[i]
    BY <1>1, <2>2, MarkedRows DEF IInv, Superseded
  <2>3. QED
    BY <2>1, <2>2
<1>3. n \in Line /\ moves[n] > 0
  <2>1. table[i] # None
    BY <1>2 DEF Status
  <2>2. n \in Line
    BY <1>1, <1>2, <2>1 DEF IInv, TypeOK
  <2>3. QED
    BY <1>1, <1>2, <2>2 DEF IInv, RecordedMeansMoved
<1>4. QED
  BY <1>3 DEF Onward

(* Oracle accepting a row moves its lines and no other backwards.            *)
LEMMA AcceptMoves ==
  ASSUME TypeOK, NEW w \in Worker, NEW c \in job[w].open, Accept(w, c)
  PROVE  Onward /\ \A n \in c.lines : moves'[n] > 0
<1>1. c.lines \subseteq Line
  BY DEF TypeOK, Job, Open
<1>2. moves \in [Line -> 0 .. 2]
  BY DEF TypeOK
<1>3. QED
  BY <1>1, <1>2 DEF Accept, Move, Onward

(* Moving a row to a phase other than "accepted".                            *)
LEMMA AdvanceKeeps ==
  ASSUME IInv, NEW w \in Worker, NEW c \in job[w].open, UNCHANGED moves,
         NEW phase \in {"sent", "refused", "saved"}, Advance(w, c, phase)
  PROVE  AcceptedMoved'
<1> DEFINE j == [job[w] EXCEPT !.open = (@ \ {c}) \cup {[c EXCEPT !.phase = phase]}]
<1>1. job[w] \in Job /\ c \in Open
  BY DEF IInv, TypeOK, Job
<1>2. j.open = (job[w].open \ {c}) \cup {[c EXCEPT !.phase = phase]}
  BY <1>1 DEF Job
<1>3. [c EXCEPT !.phase = phase].phase = phase
  BY <1>1 DEF Open
<1>4. Go(w, j)
  BY DEF Advance
<1>5. QED
  BY <1>2, <1>3, <1>4, AcceptedKeptStill

(* Returning a row's outcome.                                                *)
LEMMA OutcomeKeeps ==
  ASSUME IInv, NEW w \in Worker, NEW c \in job[w].open, UNCHANGED moves,
         NEW success \in BOOLEAN, Outcome(w, c, success)
  PROVE  AcceptedMoved'
<1> DEFINE kept == (job[w].open \ {c}) \cup
                   (IF job[w].older = {} THEN {} ELSE {[c EXCEPT !.phase = "saved"]})
           j == [job[w] EXCEPT !.posted = @ \/ (success /\ w \in Clerk), !.open = kept]
<1>1. job[w] \in Job /\ c \in Open
  BY DEF IInv, TypeOK, Job
<1>2. j.open = kept
  BY <1>1 DEF Job
<1>3. [c EXCEPT !.phase = "saved"].phase = "saved"
  BY <1>1 DEF Open
<1>4. Go(w, j)
  BY DEF Outcome
<1>5. \A d \in j.open : d.phase = "accepted" => d \in job[w].open
  BY <1>2, <1>3
<1>6. QED
  BY <1>4, <1>5, AcceptedKeptStill

-----------------------------------------------------------------------------
LEMMA RecordedInit == Init => IInv
<1> SUFFICES ASSUME Init PROVE IInv
  OBVIOUS
<1>1. TypeOK
  BY InitTyped
<1>2. LeftMoved
  BY ConstantsOK DEF Init, LeftMoved
<1>3. \A i \in Id : table[i] # None => i \in LegacyId /\ table[i].lines = {LegacyOf[i]}
  BY DEF Init
<1>4. AsLeft
  BY <1>3 DEF AsLeft, Status
<1>5. RecordedMeansMoved
  <2>1. SUFFICES ASSUME ~misjudged, NEW i \in Id, Status(i) = "SUCCESS", NEW n \in table[i].lines
                 PROVE  moves[n] > 0
    BY DEF RecordedMeansMoved
  <2>2. i \in LegacyId /\ n = LegacyOf[i]
    BY <1>3, <2>1 DEF Status
  <2>3. staged[i] = "processed"
    BY <2>1, <2>2 DEF Init
  <2>4. QED
    BY <1>2, <2>2, <2>3 DEF LeftMoved
<1>6. AcceptedMoved
  BY NoJobTyped DEF Init, AcceptedMoved
<1>7. QED
  BY <1>1, <1>2, <1>4, <1>5, <1>6 DEF IInv

(* Before a row is taken, and when the call ends.                            *)
LEMMA CallerKeeps ==
  ASSUME IInv, NEW w \in Worker,
         \/ \E rows : Begin(w, rows)
         \/ ReadExisting(w) \/ Finish(w) \/ Crash(w)
  PROVE  RecordedMeansMoved' /\ AcceptedMoved'
<1>1. UNCHANGED <<table, moves, misjudged>>
  BY DEF Begin, ReadExisting, Finish, Crash, leftovers
<1>2. RecordedMeansMoved'
  BY <1>1, RecordedKept DEF Onward
<1>3. job[w] \in Job
  BY DEF IInv, TypeOK
<1>4. CASE \E rows : Begin(w, rows)
  <2>1. PICK rows : Begin(w, rows)
    BY <1>4
  <2>2. [NoJob EXCEPT !.pc = "read", !.todo = rows].open = {}
    BY DEF NoJob
  <2>3. QED
    BY <1>1, <1>2, <2>1, <2>2, AcceptedKeptStill DEF Begin
<1>5. CASE ReadExisting(w)
  <2>1. CASE w \in Clerk \/ LiveIds = {}
    <3>1. [job[w] EXCEPT !.pc = "work", !.posted = Posted].open = job[w].open
      BY <1>3 DEF Job
    <3>2. Go(w, [job[w] EXCEPT !.pc = "work", !.posted = Posted])
      BY <1>5, <2>1 DEF ReadExisting
    <3>3. QED
      BY <1>1, <1>2, <3>1, <3>2, AcceptedKeptStill
  <2>2. CASE ~(w \in Clerk \/ LiveIds = {})
    <3>1. PICK i \in LiveIds :
            Go(w, [job[w] EXCEPT !.pc = "work", !.posted = Posted, !.reuse = i,
                                 !.older = LiveIds \ {i}])
      BY <1>5, <2>2 DEF ReadExisting
    <3>2. [job[w] EXCEPT !.pc = "work", !.posted = Posted, !.reuse = i,
                         !.older = LiveIds \ {i}].open = job[w].open
      BY <1>3 DEF Job
    <3>3. QED
      BY <1>1, <1>2, <3>1, <3>2, AcceptedKeptStill
  <2>3. QED
    BY <2>1, <2>2
<1>6. CASE Finish(w) \/ Crash(w)
  <2>1. Go(w, NoJob)
    BY <1>6 DEF Finish, Crash
  <2>2. QED
    BY <1>1, <1>2, <2>1, NoJobTyped, AcceptedKeptStill
<1>7. QED
  BY <1>4, <1>5, <1>6

(* A row is skipped or taken.                                                *)
LEMMA RowKeeps ==
  ASSUME IInv, NEW w \in Worker, NEW x \in job[w].todo,
         SkipPosted(w, x) \/ Send(w, x) \/ Unmapped(w, x)
  PROVE  RecordedMeansMoved' /\ AcceptedMoved'
<1>1. job[w] \in Job /\ UNCHANGED <<moves, misjudged>>
  BY DEF IInv, TypeOK, SkipPosted, Send, Unmapped, TakeRow, Take, leftovers
<1>2. CASE SkipPosted(w, x)
  <2>1. [job[w] EXCEPT !.todo = @ \ {x}].open = job[w].open
    BY <1>1 DEF Job
  <2>2. AcceptedMoved'
    BY <1>1, <1>2, <2>1, AcceptedKeptStill DEF SkipPosted
  <2>3. table' = table \/ \E ids : table' = Superseded(ids)
    BY <1>2 DEF SkipPosted
  <2>4. QED
    BY <1>1, <2>2, <2>3, RecordedKept DEF Onward
<1>3. ASSUME NEW phase \in {"sent", "unsent"}, TakeRow(w, x, phase)
      PROVE  RecordedMeansMoved' /\ AcceptedMoved'
  <2>1. PICK i \in Target(w, x) :
          Go(w, [job[w] EXCEPT !.todo = @ \ {x}, !.open = @ \cup
                                 {[lines |-> x.lines, id |-> i, phase |-> phase]}])
    BY <1>3 DEF TakeRow, Take
  <2> DEFINE c == [lines |-> x.lines, id |-> i, phase |-> phase]
             j == [job[w] EXCEPT !.todo = @ \ {x}, !.open = @ \cup {c}]
  <2>2. j.open = job[w].open \cup {c} /\ c.phase # "accepted"
    BY <1>1 DEF Job
  <2>3. AcceptedMoved'
    <3>1. Go(w, j)
      BY <2>1
    <3>2. \A d \in j.open : d.phase = "accepted" => d \in job[w].open
      BY <2>2
    <3> HIDE DEF j
    <3>3. QED
      BY <1>1, <3>1, <3>2, AcceptedKeptStill
  <2>4. RecordedMeansMoved'
    BY <1>1, <1>3, RecordedKept DEF Onward, TakeRow, Take
  <2>5. QED
    BY <2>3, <2>4
<1>4. QED
  BY <1>2, <1>3 DEF Send, Unmapped

(* A row that was taken is answered and recorded.                            *)
LEMMA CallKeeps ==
  ASSUME IInv, NEW w \in Worker, NEW c \in job[w].open,
         \/ Accept(w, c) \/ Refuse(w, c) \/ ReplyLost(w, c)
         \/ SaveSuccess(w, c) \/ SaveFailure(w, c) \/ SaveUnsent(w, c)
         \/ SaveLost(w, c) \/ Retire(w, c) \/ RetireLost(w, c)
  PROVE  RecordedMeansMoved' /\ AcceptedMoved'
<1>1. job[w] \in Job /\ c \in Open
  BY DEF IInv, TypeOK, Job
<1>2. c.id \in Id /\ UNCHANGED misjudged
  BY <1>1 DEF Open, Accept, Refuse, ReplyLost, SaveSuccess, SaveFailure, SaveUnsent, SaveLost,
              Retire, RetireLost, leftovers
<1>3. CASE Accept(w, c)
  <2>1. Onward /\ \A n \in c.lines : moves'[n] > 0
    BY <1>3, AcceptMoves DEF IInv
  <2>2. RecordedMeansMoved'
    BY <1>2, <1>3, <2>1, RecordedKept DEF Accept
  <2> DEFINE d == [c EXCEPT !.phase = "accepted"]
             j == [job[w] EXCEPT !.open = (@ \ {c}) \cup {d}]
  <2>3. j.open = (job[w].open \ {c}) \cup {d} /\ d.lines = c.lines
    BY <1>1 DEF Job, Open
  <2>4. ASSUME NEW e \in j.open, e.phase = "accepted", NEW n \in e.lines
        PROVE  moves'[n] > 0
    <3>1. CASE e = d
      BY <2>1, <2>3, <2>4, <3>1
    <3>2. CASE e \in job[w].open
      <4>1. moves[n] > 0
        BY <2>4, <3>2 DEF IInv, AcceptedMoved
      <4>2. n \in Line
        BY <1>1, <2>4, <3>2 DEF Job, Open
      <4>3. QED
        BY <2>1, <4>1, <4>2 DEF Onward
    <3>3. QED
      BY <2>3, <3>1, <3>2
  <2>5. Go(w, j)
    BY <1>3 DEF Accept, Advance
  <2>6. AcceptedMoved'
    BY <2>1, <2>4, <2>5, AcceptedKept
  <2>7. QED
    BY <2>2, <2>6
<1>4. CASE Refuse(w, c)
  BY <1>2, <1>4, AdvanceKeeps, RecordedKept DEF Refuse, Onward
<1>5. CASE ReplyLost(w, c)
  BY <1>2, <1>5, AdvanceKeeps, RecordedKept DEF ReplyLost, Onward
<1>6. CASE SaveSuccess(w, c)
  <2>1. AcceptedMoved'
    BY <1>6, OutcomeKeeps DEF SaveSuccess
  <2>2. \A n \in c.lines : moves[n] > 0
    BY <1>6 DEF SaveSuccess, IInv, AcceptedMoved
  <2>3. table' = [table EXCEPT ![c.id] = [lines |-> c.lines, status |-> "SUCCESS"]]
        /\ UNCHANGED moves
    BY <1>6 DEF SaveSuccess, Write
  <2>4. ASSUME ~misjudged, NEW i \in Id, (Status(i) = "SUCCESS")', NEW n \in table'[i].lines
        PROVE  moves'[n] > 0
    <3>1. CASE i = c.id
      BY <1>2, <2>2, <2>3, <2>4, <3>1 DEF IInv, TypeOK
    <3>2. CASE i # c.id
      <4>1. table'[i] = table[i]
        BY <2>3, <3>2 DEF IInv, TypeOK
      <4>2. Status(i) = "SUCCESS"
        BY <2>4, <4>1 DEF Status
      <4>3. QED
        BY <2>3, <2>4, <4>1, <4>2 DEF IInv, RecordedMeansMoved
    <3>3. QED
      BY <3>1, <3>2
  <2>5. QED
    BY <1>2, <2>1, <2>4 DEF RecordedMeansMoved
<1>7. ASSUME NEW ns, Write(c.id, ns, "HELD"), UNCHANGED moves
      PROVE  RecordedMeansMoved'
  <2>1. table' = [table EXCEPT ![c.id] = [lines |-> ns, status |-> "HELD"]]
    BY <1>7 DEF Write
  <2>2. ASSUME NEW i \in Id, (Status(i) = "SUCCESS")'
        PROVE  table'[i] = table[i] /\ Status(i) = "SUCCESS"
    <3>1. i # c.id
      BY <1>2, <2>1, <2>2 DEF Status, IInv, TypeOK
    <3>2. table'[i] = table[i]
      BY <2>1, <3>1 DEF IInv, TypeOK
    <3>3. QED
      BY <2>2, <3>2 DEF Status
  <2>3. QED
    BY <1>2, <1>7, <2>2 DEF IInv, RecordedMeansMoved
<1>11. CASE SaveFailure(w, c)
  BY <1>7, <1>11, OutcomeKeeps DEF SaveFailure
<1>12. CASE SaveUnsent(w, c)
  BY <1>7, <1>12, OutcomeKeeps DEF SaveUnsent
<1>8. CASE SaveLost(w, c)
  <2>1. (c.phase = "accepted") \in BOOLEAN
    OBVIOUS
  <2>2. QED
    BY <1>2, <1>8, <2>1, OutcomeKeeps, RecordedKept DEF SaveLost, Onward
<1>9. CASE Retire(w, c) \/ RetireLost(w, c)
  <2>1. Go(w, [job[w] EXCEPT !.open = @ \ {c}]) /\ UNCHANGED moves
    BY <1>9 DEF Retire, RetireLost
  <2>2. [job[w] EXCEPT !.open = @ \ {c}].open = job[w].open \ {c}
    BY <1>1 DEF Job
  <2>3. AcceptedMoved'
    BY <2>1, <2>2, AcceptedKeptStill
  <2>4. table' = table \/ \E ids : table' = Superseded(ids)
    BY <1>9 DEF Retire, RetireLost
  <2>5. QED
    BY <1>2, <2>1, <2>3, <2>4, RecordedKept DEF Onward
<1>10. QED
  BY <1>3, <1>4, <1>5, <1>6, <1>8, <1>9, <1>11, <1>12

(* What befalls the leftovers: a verdict on a row that is PENDING still is   *)
(* right, and any other sets misjudged.                                      *)
LEMMA LeftoverKeeps ==
  ASSUME IInv, NEW i \in LegacyId, Leftover(i)
  PROVE  RecordedMeansMoved' /\ AcceptedMoved'
<1>1. Onward /\ UNCHANGED job
  <2>1. moves \in [Line -> 0 .. 2]
    BY DEF IInv, TypeOK
  <2>2. QED
    BY <2>1 DEF Leftover, OracleProcesses, OracleRejects, Check, LetGo, Confirm, Condemn, Settle,
                Move, Onward
<1>2. AcceptedMoved'
  <2>1. ASSUME NEW w \in Worker, NEW c \in job[w].open, NEW n \in c.lines
        PROVE  n \in Line
    BY DEF IInv, TypeOK, Job, Open
  <2>2. QED
    BY <1>1, <2>1 DEF IInv, AcceptedMoved, Onward
<1>3. CASE OracleProcesses(i) \/ OracleRejects(i) \/ Check(i) \/ LetGo(i)
  BY <1>1, <1>2, <1>3, RecordedKept DEF OracleProcesses, OracleRejects, Check, LetGo
<1>4. ASSUME NEW status \in {"SUCCESS", "HELD"}, Settle(i, status), ~misjudged,
             status = "SUCCESS" => staged[i] = "processed" /\ Status(i) = "PENDING"
      PROVE  RecordedMeansMoved'
  <2>1. UNCHANGED moves /\ table' = Marked({i}, status) /\ status \in Live
    BY <1>4 DEF Settle, Live
  <2>2. ASSUME NEW k \in Id, (Status(k) = "SUCCESS")', NEW n \in table'[k].lines
        PROVE  moves'[n] > 0
    <3>1. CASE table'[k] = table[k] /\ Status(k)' = Status(k)
      BY <1>4, <2>1, <2>2, <3>1 DEF IInv, RecordedMeansMoved
    <3>2. CASE k = i /\ Status(i)' = status /\ table'[i].lines = table[i].lines
      <4>2. staged[i] = "processed" /\ Status(i) = "PENDING"
        BY <1>4, <2>2, <3>2
      <4>3. n = LegacyOf[i]
        BY <2>2, <3>2, <4>2 DEF IInv, AsLeft
      <4>4. QED
        BY <2>1, <4>2, <4>3 DEF IInv, LeftMoved
    <3>3. QED
      BY <2>1, <3>1, <3>2, MarkedRows DEF IInv
  <2>3. QED
    BY <2>2 DEF RecordedMeansMoved
<1>5. CASE Confirm(i)
  <2>1. Settle(i, "SUCCESS") /\ staged[i] = "processed"
    BY <1>5 DEF Confirm
  <2>2. CASE misjudged \/ Status(i) # "PENDING"
    BY <1>2, <1>5, <2>2 DEF Confirm, RecordedMeansMoved
  <2>3. CASE ~misjudged /\ Status(i) = "PENDING"
    BY <1>2, <1>4, <2>1, <2>3
  <2>4. QED
    BY <2>2, <2>3
<1>6. CASE Condemn(i)
  <2>1. Settle(i, "HELD") /\ misjudged' = misjudged
    BY <1>6 DEF Condemn
  <2>2. CASE misjudged
    BY <1>2, <2>1, <2>2 DEF RecordedMeansMoved
  <2>3. CASE ~misjudged
    BY <1>2, <1>4, <2>1, <2>3
  <2>4. QED
    BY <2>2, <2>3
<1>7. QED
  BY <1>2, <1>3, <1>5, <1>6 DEF Leftover

LEMMA RecordedStep ==
  ASSUME IInv, [Next]_vars
  PROVE  RecordedMeansMoved' /\ AcceptedMoved'
<1>1. CASE RowLands \/ DayAges \/ UNCHANGED vars
  <2>1. UNCHANGED <<table, moves, job, misjudged>>
    BY <1>1 DEF RowLands, DayAges, vars, leftovers
  <2>2. QED
    BY <2>1 DEF IInv, RecordedMeansMoved, AcceptedMoved, Status
<1>2. CASE \E h \in Host : UploadDay(h)
  BY <1>2, CallerKeeps DEF UploadDay, Worker
<1>3. CASE \E k \in Clerk : Reprocess(k)
  BY <1>3, CallerKeeps DEF Reprocess, Worker
<1>4. ASSUME NEW w \in Worker, Upload(w)
      PROVE  RecordedMeansMoved' /\ AcceptedMoved'
  BY <1>4, CallerKeeps, RowKeeps, CallKeeps DEF Upload
<1>5. ASSUME NEW w \in Worker, Crash(w)
      PROVE  RecordedMeansMoved' /\ AcceptedMoved'
  BY <1>5, CallerKeeps
<1>6. QED
  BY <1>1, <1>2, <1>3, <1>4, <1>5, LeftoverKeeps DEF Next

(* What a row in hand does to the records: one is written, none as PENDING,  *)
(* or some are retired.                                                      *)
LEMMA RowsWritten ==
  ASSUME IInv, NEW w \in Worker, Upload(w)
  PROVE  \A i \in Id : (Status(i) = "PENDING")' => table'[i] = table[i] /\ Status(i) = "PENDING"
<1>1. CASE UNCHANGED table
  BY <1>1 DEF Status
<1>2. ASSUME NEW ids, table' = Superseded(ids)
      PROVE  \A i \in Id : (Status(i) = "PENDING")' => table'[i] = table[i] /\ Status(i) = "PENDING"
  BY <1>2, MarkedRows DEF IInv, Superseded
<1>3. ASSUME NEW i \in Id, NEW ns, NEW status \in {"SUCCESS", "HELD"}, Write(i, ns, status)
      PROVE  \A k \in Id : (Status(k) = "PENDING")' => table'[k] = table[k] /\ Status(k) = "PENDING"
  <2>1. \A k \in Id \ {i} : table'[k] = table[k]
    BY <1>3 DEF Write, IInv, TypeOK
  <2>2. Status(i)' # "PENDING"
    BY <1>3 DEF Write, IInv, TypeOK, Status
  <2>3. QED
    BY <2>1, <2>2 DEF Status
<1>4. ASSUME NEW x \in job[w].todo, SkipPosted(w, x) \/ Send(w, x) \/ Unmapped(w, x)
      PROVE  UNCHANGED table \/ \E ids : table' = Superseded(ids)
  BY <1>4 DEF SkipPosted, Send, Unmapped, TakeRow, Take
<1>5. ASSUME NEW c \in job[w].open,
             \/ Accept(w, c) \/ Refuse(w, c) \/ ReplyLost(w, c) \/ SaveLost(w, c)
             \/ Retire(w, c) \/ RetireLost(w, c)
      PROVE  UNCHANGED table \/ \E ids : table' = Superseded(ids)
  BY <1>5 DEF Accept, Refuse, ReplyLost, SaveLost, Retire, RetireLost
<1>6. ASSUME NEW c \in job[w].open, SaveSuccess(w, c) \/ SaveFailure(w, c) \/ SaveUnsent(w, c)
      PROVE  \E ns : Write(c.id, ns, "SUCCESS") \/ Write(c.id, ns, "HELD")
  <2>1. CASE SaveSuccess(w, c)
    BY <2>1 DEF SaveSuccess
  <2>2. CASE SaveFailure(w, c)
    BY <2>2 DEF SaveFailure
  <2>3. CASE SaveUnsent(w, c)
    BY <2>3 DEF SaveUnsent
  <2>4. QED
    BY <1>6, <2>1, <2>2, <2>3
<1>7. \A c \in job[w].open : c.id \in Id
  BY DEF IInv, TypeOK, Job, Open
<1>8. CASE ReadExisting(w) \/ Finish(w)
  BY <1>1, <1>8 DEF ReadExisting, Finish
<1>9. QED
  BY <1>1, <1>2, <1>3, <1>4, <1>5, <1>6, <1>7, <1>8 DEF Upload

(* The leftovers that are PENDING still are as they were left, and moved if  *)
(* Oracle processed them.                                                    *)
LEMMA LeftStep ==
  ASSUME IInv, [Next]_vars
  PROVE  AsLeft' /\ LeftMoved'
<1>1. ASSUME \A i \in Id : (Status(i) = "PENDING")' => table'[i] = table[i] /\ Status(i) = "PENDING"
      PROVE  AsLeft'
  BY <1>1 DEF IInv, AsLeft
<1>2. ASSUME Onward, \A i \in LegacyId : staged'[i] = "processed" =>
                       staged[i] = "processed" \/ moves'[LegacyOf[i]] > 0
      PROVE  LeftMoved'
  BY <1>2, ConstantsOK DEF IInv, LeftMoved, Onward
<1>3. CASE RowLands \/ DayAges \/ UNCHANGED vars
  BY <1>1, <1>2, <1>3 DEF RowLands, DayAges, vars, leftovers, Onward, Status
<1>4. ASSUME NEW w, NEW rows, Begin(w, rows)
      PROVE  AsLeft' /\ LeftMoved'
  BY <1>1, <1>2, <1>4 DEF Begin, leftovers, Onward, Status
<1>5. ASSUME NEW w \in Worker, Upload(w) \/ Crash(w)
      PROVE  AsLeft' /\ LeftMoved'
  <2>1. UNCHANGED staged
    BY <1>5 DEF Upload, ReadExisting, SkipPosted, Send, Unmapped, TakeRow, Take, Accept, Refuse,
                ReplyLost, SaveSuccess, SaveFailure, SaveUnsent, SaveLost, Retire, RetireLost,
                Finish, Crash, leftovers
  <2>2. Onward
    <3>1. CASE UNCHANGED moves
      BY <3>1 DEF Onward
    <3>2. CASE \E c \in job[w].open : Accept(w, c)
      BY <3>2, AcceptMoves DEF IInv
    <3>3. QED
      BY <1>5, <3>1, <3>2 DEF Upload, ReadExisting, SkipPosted, Send, Unmapped, TakeRow, Take,
                Refuse, ReplyLost, SaveSuccess, SaveFailure, SaveUnsent, SaveLost, Retire,
                RetireLost, Finish, Crash
  <2>3. AsLeft'
    <3>1. CASE Upload(w)
      BY <1>1, <3>1, RowsWritten
    <3>2. CASE Crash(w)
      BY <1>1, <3>2 DEF Crash, Status
    <3>3. QED
      BY <1>5, <3>1, <3>2
  <2>4. QED
    BY <1>2, <2>1, <2>2, <2>3
<1>6. ASSUME NEW i \in LegacyId, Leftover(i)
      PROVE  AsLeft' /\ LeftMoved'
  <2>1. moves \in [Line -> 0 .. 2] /\ staged \in [LegacyId -> {"refused", "queued", "processed"}]
        /\ LegacyOf[i] \in Line
    BY ConstantsOK DEF IInv, TypeOK
  <2>2. CASE OracleProcesses(i)
    BY <1>1, <1>2, <2>1, <2>2 DEF OracleProcesses, Move, Onward, Status
  <2>3. CASE OracleRejects(i) \/ Check(i) \/ LetGo(i)
    BY <1>1, <1>2, <2>1, <2>3 DEF OracleRejects, Check, LetGo, Onward, Status
  <2>4. ASSUME NEW status \in {"SUCCESS", "HELD"}, Settle(i, status)
        PROVE  AsLeft' /\ LeftMoved'
    <3>1. status \in Live /\ table' = Marked({i}, status) /\ UNCHANGED <<moves, staged>>
      BY <2>4 DEF Settle, Live
    <3>2. \A k \in Id : (Status(k) = "PENDING")' => table'[k] = table[k] /\ Status(k) = "PENDING"
      BY <3>1, MarkedRows DEF IInv
    <3>3. QED
      BY <1>1, <1>2, <3>1, <3>2 DEF Onward
  <2>5. QED
    BY <1>6, <2>2, <2>3, <2>4 DEF Leftover, Confirm, Condemn
<1>7. QED
  BY <1>3, <1>4, <1>5, <1>6 DEF Next, UploadDay, Reprocess

LEMMA IInvAlways == Spec => []IInv
<1>1. Init => IInv
  BY RecordedInit
<1>2. IInv /\ [Next]_vars => IInv'
  BY StepTyped, RecordedStep, LeftStep DEF IInv
<1>3. QED
  BY <1>1, <1>2, PTL DEF Spec

(* A SUCCESS row always stands for stock that moved: for any number of       *)
(* overlapping processes and administrators, any units of measure, lost      *)
(* answers, failed saves and runs that die, until a verifier passes a        *)
(* verdict on a row that is PENDING no longer.                               *)
THEOREM RecordedIsMoved == Spec => []RecordedMeansMoved
<1>1. IInv => RecordedMeansMoved
  BY DEF IInv
<1>2. QED
  BY <1>1, IInvAlways, PTL
==============================================================================

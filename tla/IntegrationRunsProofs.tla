------------------------ MODULE IntegrationRunsProofs ------------------------
(***************************************************************************)
(* Proofs about IntegrationRuns, for any number of processes, job rows,    *)
(* days and mishaps.                                                       *)
(***************************************************************************)
EXTENDS IntegrationRuns, TLAPS

-----------------------------------------------------------------------------
LEMMA Days ==
  /\ 1 \in LocalDay /\ LocalDay \subseteq Int
  /\ 0 \in LastDay /\ 0 \in Day
  /\ NoStart \in Starter /\ NoRun \in Runner
<1>1. 1 \in LocalDay /\ LocalDay \subseteq Int /\ 0 \in LastDay /\ 0 \in Day
  BY RunsConstantsOK DEF LocalDay, LastDay, Day
<1>2. QED
  BY <1>1 DEF NoStart, NoRun, Starter, Runner, NoJob

(* A window never reaches past the days the model has.                       *)
LEMMA Windows ==
  ASSUME NEW last \in LastDay
  PROVE  First(last) \in Day /\ \A d \in Day : d <= last => d + 1 \in Day
BY RunsConstantsOK DEF First, Day, LastDay

LEMMA Closed ==
  ASSUME today \in LocalDay
  PROVE  LatestClosed \in LastDay
BY RunsConstantsOK DEF LatestClosed, LocalDay, LastDay

-----------------------------------------------------------------------------
LEMMA Mishap ==
  ASSUME TypeOK, Event
  PROVE  events' \in 0 .. MaxEvents
BY RunsConstantsOK DEF TypeOK, Event

LEMMA TypeInit == Init => TypeOK
<1>1. SUFFICES ASSUME Init PROVE TypeOK
  OBVIOUS
<1>2. today \in LocalDay /\ events \in 0 .. MaxEvents
  BY <1>1, Days, RunsConstantsOK DEF Init
<1>3. start \in [Caller -> Starter] /\ run \in [Job -> Runner]
  BY <1>1, Days DEF Init
<1>4. row \in Report
  BY <1>1 DEF Init, Report, NoJob
<1>5. up \in [Proc -> BOOLEAN] /\ busy \in [Proc -> BOOLEAN] /\ live \in [Job -> BOOLEAN]
  BY <1>1 DEF Init
<1>6. stranded \in [Proc -> SUBSET Job] /\ hour \in Hours
  BY <1>1 DEF Init, Hours
<1>7. on \in BOOLEAN /\ raced \in BOOLEAN /\ unreported \in BOOLEAN
  BY <1>1 DEF Init
<1>8. taken \subseteq Day /\ bad \subseteq LocalDay /\ unwritten \subseteq Job
  BY <1>1 DEF Init
<1>9. QED
  BY <1>1, <1>2, <1>3, <1>4, <1>5, <1>6, <1>7, <1>8 DEF Init, TypeOK

LEMMA Moves ==
  ASSUME TypeOK, NEW c \in Caller
  PROVE  /\ EndStart(c) => start' \in [Caller -> Starter]
         /\ GoStart(c, "ready") \/ GoStart(c, "refused") => start' \in [Caller -> Starter]
BY Days DEF TypeOK, EndStart, GoStart, Starter

(* Asking for a run: the scheduler's tick, an operator.                      *)
LEMMA TypeAsk ==
  ASSUME TypeOK, NEW p \in Proc,
         Tick(p) \/ Stamp(p) \/ RunNow(p, TRUE) \/ RunNow(p, FALSE)
  PROVE  TypeOK'
<1> USE DEF TypeOK
<1>1. <<p, "tick">> \in Caller /\ <<p, "admin">> \in Caller /\ 1 \in LocalDay
  BY Days DEF Caller
<1>2. LatestClosed \in LastDay
  BY Closed
<1>3. CASE Tick(p)
  BY <1>1, <1>2, <1>3 DEF Tick, Starter, NoJob, AtStart
<1>4. CASE Stamp(p)
  <2>2. start' \in [Caller -> Starter]
    BY <1>4, <1>1, Moves DEF Stamp
  <2>3. row' \in Report
    BY <1>4, <1>1 DEF Stamp, Starter, Report
  <2>4. QED
    BY <1>4, <2>2, <2>3, Mishap DEF Stamp
<1>5. ASSUME NEW auto \in BOOLEAN, RunNow(p, auto) PROVE TypeOK'
  <2>1. start' \in [Caller -> Starter]
    BY <1>1, <1>2, <1>5 DEF RunNow, Starter, NoJob
  <2>2. QED
    BY <1>5, <2>1, Mishap DEF RunNow
<1>6. QED
  BY <1>3, <1>4, <1>5

(* startAutomatic and startRun.                                              *)
LEMMA TypeStart ==
  ASSUME TypeOK, NEW c \in Caller,
         \/ Check(c) \/ TurnAway(c) \/ Started(c) \/ StartedLost(c) \/ NotStarted(c)
  PROVE  TypeOK'
<1> USE DEF TypeOK
<1>6. CASE Check(c)
  BY <1>6 DEF Check, Starter, GoStart
<1>7. CASE TurnAway(c)
  <2>1. start' \in [Caller -> Starter]
    BY <1>7, Days DEF TurnAway, Starter, GoStart, EndStart
  <2>2. bad' \subseteq LocalDay
    BY <1>7 DEF TurnAway, Spoil, Starter
  <2>3. events' \in 0 .. MaxEvents
    BY <1>7, Mishap DEF TurnAway
  <2>4. QED
    BY <1>7, <2>1, <2>2, <2>3 DEF TurnAway
<1>8. CASE Started(c)
  BY <1>8, Days DEF Started, EndStart, Starter, Report
<1>9. CASE StartedLost(c)
  <2>1. start' \in [Caller -> Starter]
    BY <1>9, Moves DEF StartedLost
  <2>2. QED
    BY <1>9, <2>1, Mishap DEF StartedLost
<1>10. CASE NotStarted(c)
  BY <1>10, Days, Mishap DEF NotStarted, EndStart, Report
<1>11. QED
  BY <1>6, <1>7, <1>8, <1>9, <1>10

LEMMA TypeLaunch ==
  ASSUME TypeOK, NEW c \in Caller, NEW j \in Job, Launch(c, j)
  PROVE  TypeOK'
<1> USE DEF TypeOK
<1>1. start' \in [Caller -> Starter]
  BY Days DEF Launch, EndStart, Starter
<1>2. run' \in [Job -> Runner]
  <2>1. start[c].day \in LocalDay /\ start[c].last \in LastDay /\ start[c].auto \in BOOLEAN
    BY DEF Starter
  <2>2. First(start[c].last) \in Day
    BY <2>1, Windows
  <2>3. run'[j] \in Runner /\ run' = [run EXCEPT ![j] = run'[j]]
    BY <2>1, <2>2 DEF Launch, NoRun, Runner
  <2>4. QED
    BY <2>3
<1>3. QED
  BY <1>1, <1>2 DEF Launch

LEMMA OverRun ==
  ASSUME TypeOK, NEW j \in Job, Over(j)
  PROVE  busy' \in [Proc -> BOOLEAN] /\ run' \in [Job -> Runner]
<1>1. run[j] \in Runner
  BY DEF TypeOK
<1>2. NoRun \in Runner /\ [NoRun EXCEPT !.pc = "report", !.by = run[j].by] \in Runner
  BY <1>1, Days DEF Runner
<1>3. QED
  BY <1>2 DEF TypeOK, Over

(* Executing it.                                                             *)
LEMMA TypeExecute ==
  ASSUME TypeOK, NEW j \in Job, Execute(j)
  PROVE  TypeOK'
<1> USE DEF TypeOK
<1>0. run[j] \in Runner /\ run[j].by \in Caller \cup {<<"none", "none">>}
  BY DEF Runner
<1>1. CASE Pull(j)
  BY <1>1 DEF Pull, Runner
<1>2. CASE PostDay(j)
  <2>1. run[j].next \in Day /\ run[j].last \in LastDay /\ run[j].next <= run[j].last
    BY <1>2 DEF PostDay, Runner
  <2>2. run[j].next + 1 \in Day
    BY <2>1, Windows
  <2>3. run' \in [Job -> Runner]
    BY <1>2, <2>2 DEF PostDay, Runner
  <2>4. QED
    BY <1>2, <2>1, <2>3 DEF PostDay
<1>3. CASE Finish(j)
  BY <1>3, OverRun DEF Finish
<1>4. CASE Abort(j)
  <2>1. bad' \subseteq LocalDay
    BY <1>4, <1>0 DEF Abort, Runner
  <2>2. events' \in 0 .. MaxEvents
    BY <1>4, Mishap DEF Abort
  <2>3. live' \in [Job -> BOOLEAN] /\ unwritten' \subseteq Job /\ unreported' \in BOOLEAN
    BY <1>4 DEF Abort
  <2>4. QED
    BY <1>4, <2>1, <2>2, <2>3, OverRun DEF Abort
<1>5. CASE ReadBack(j)
  <2>1. run' \in [Job -> Runner]
    BY <1>5, Days DEF ReadBack, Runner
  <2>2. QED
    BY <1>5, <2>1 DEF ReadBack
<1>6. CASE Record(j)
  BY <1>6, Days DEF Record, Report
<1>7. CASE RecordLost(j)
  BY <1>7, Days, Mishap DEF RecordLost
<1>8. QED
  BY <1>1, <1>2, <1>3, <1>4, <1>5, <1>6, <1>7 DEF Execute

(* The switch and the clock.                                                 *)
LEMMA TypeClock ==
  ASSUME TypeOK, Toggle \/ NextHour \/ NextDay
  PROVE  TypeOK'
<1> USE DEF TypeOK
<1>1. CASE Toggle
  BY <1>1, Mishap DEF Toggle
<1>2. CASE NextHour
  BY <1>2 DEF NextHour, Hours
<1>3. CASE NextDay
  <2>1. today' \in LocalDay /\ hour' \in Hours
    BY <1>3, RunsConstantsOK DEF NextDay, LocalDay, Hours
  <2>2. AtWork \subseteq LocalDay
    BY DEF AtWork, Runner
  <2>3. QED
    BY <1>3, <2>1, <2>2 DEF NextDay
<1>4. QED
  BY <1>1, <1>2, <1>3

(* A process goes and comes.                                                 *)
LEMMA TypeWorld ==
  ASSUME TypeOK, NEW p \in Proc,
         Crash(p) \/ Restart(p) \/ \E j \in Job : MarkStranded(p, j)
  PROVE  TypeOK'
<1> USE DEF TypeOK
<1>4. CASE Crash(p)
  <2>1. bad' \subseteq LocalDay
    BY <1>4 DEF Crash, Runner, Starter
  <2>2. start' \in [Caller -> Starter] /\ run' \in [Job -> Runner]
    BY <1>4, Days DEF Crash
  <2>3. QED
    BY <1>4, <2>1, <2>2, Mishap DEF Crash
<1>5. CASE Restart(p)
  <2>1. {i \in Job : live[i]} \subseteq Job
    OBVIOUS
  <2>2. stranded' \in [Proc -> SUBSET Job] /\ unwritten' \subseteq Job
    BY <1>5, <2>1 DEF Restart
  <2>3. up' \in [Proc -> BOOLEAN]
    BY <1>5 DEF Restart
  <2>4. events' \in 0 .. MaxEvents
    BY <1>5, Mishap DEF Restart
  <2>5. QED
    BY <1>5, <2>2, <2>3, <2>4 DEF Restart
<1>6. ASSUME NEW j \in Job, MarkStranded(p, j) PROVE TypeOK'
  <2>1. stranded' \in [Proc -> SUBSET Job] /\ live' \in [Job -> BOOLEAN]
    BY <1>6 DEF MarkStranded
  <2>2. unwritten' \subseteq Job /\ events' \in 0 .. MaxEvents
    BY <1>6, Mishap DEF MarkStranded
  <2>3. QED
    BY <1>6, <2>1, <2>2 DEF MarkStranded
<1>7. QED
  BY <1>4, <1>5, <1>6

LEMMA TypeNext == TypeOK /\ [Next]_vars => TypeOK'
<1>1. SUFFICES ASSUME TypeOK, [Next]_vars PROVE TypeOK'
  OBVIOUS
<1>2. CASE Next
  <2>1. CASE NextHour \/ NextDay \/ Toggle
    BY <1>1, <2>1, TypeClock
  <2>2. ASSUME NEW p \in Proc,
               \/ Tick(p) \/ Stamp(p) \/ RunNow(p, TRUE) \/ RunNow(p, FALSE)
               \/ Crash(p) \/ Restart(p) \/ \E j \in Job : MarkStranded(p, j)
        PROVE  TypeOK'
    BY <1>1, <2>2, TypeAsk, TypeWorld
  <2>3. ASSUME NEW c \in Caller, Starting(c) PROVE TypeOK'
    BY <1>1, <2>3, TypeStart, TypeLaunch DEF Starting
  <2>4. ASSUME NEW j \in Job, Execute(j) PROVE TypeOK'
    BY <1>1, <2>4, TypeExecute
  <2>5. QED
    BY <1>2, <2>1, <2>2, <2>3, <2>4 DEF Next
<1>3. CASE UNCHANGED vars
  BY <1>1, <1>3 DEF TypeOK, vars
<1>4. QED
  BY <1>1, <1>2, <1>3

(* In every reachable state the variables have their types, and no run looks *)
(* at a business day outside the windows of the calendar.                    *)
THEOREM RunsTypeCorrect == Spec => []TypeOK
BY TypeInit, TypeNext, PTL DEF Spec

-----------------------------------------------------------------------------
(* A run at work keeps its process busy, and a start that is about to        *)
(* register its run is alone in a process that is not, as long as no two     *)
(* starts met.                                                               *)
Registered ==
  /\ \A j \in Job : Working(j) => run[j].by \in Caller
  /\ \/ raced
     \/ /\ \A j \in Job : Working(j) => busy[run[j].by[1]]
        /\ \A c \in Caller : AtStart(c, "save") =>
             /\ ~busy[c[1]]
             /\ \A d \in Caller : AtStart(d, "save") /\ d[1] = c[1] => d = c

RunInv == TypeOK /\ Registered /\ OneRun

LEMMA RunInit == Init => Registered /\ OneRun
BY DEF Init, Registered, OneRun, Working, AtStart, NoRun, NoStart

LEMMA RunStart ==
  ASSUME RunInv, NEW c \in Caller, Starting(c)
  PROVE  Registered' /\ OneRun'
<1> USE DEF RunInv, TypeOK, Registered, OneRun, Working, AtStart
<1>0. \A d \in Caller : start[d] \in Starter
  OBVIOUS
<1>1. CASE Check(c)
  <2>1. \A d \in Caller : AtStart(d, "save")' <=> d = c \/ AtStart(d, "save")
    BY <1>0, <1>1 DEF Check, GoStart, Starter
  <2>2. ~busy[c[1]] /\ busy' = busy /\ run' = run
    BY <1>1 DEF Check
  <2>3. raced' = (raced \/ \E d \in Caller : d[1] = c[1] /\ AtStart(d, "save"))
    BY <1>1 DEF Check
  <2>4. CASE raced \/ \E d \in Caller : d[1] = c[1] /\ AtStart(d, "save")
    <3>1. raced' = TRUE
      BY <2>3, <2>4
    <3>2. QED
      BY <2>2, <3>1
  <2>5. CASE ~(raced \/ \E d \in Caller : d[1] = c[1] /\ AtStart(d, "save"))
    <3>1. \A d \in Caller : AtStart(d, "save")' =>
            /\ ~busy'[d[1]]
            /\ \A e \in Caller : AtStart(e, "save")' /\ e[1] = d[1] => e = d
      BY <2>1, <2>2, <2>5
    <3>2. QED
      BY <2>2, <2>5, <3>1
  <2>6. QED
    BY <2>4, <2>5
<1>2. CASE TurnAway(c)
  <2>1. \A d \in Caller : AtStart(d, "save")' => AtStart(d, "save")
    <3>1. CASE GoStart(c, "refused")
      BY <1>0, <3>1 DEF GoStart, Starter
    <3>2. CASE EndStart(c)
      BY <1>0, <3>2 DEF EndStart, NoStart, Starter
    <3>3. QED
      BY <1>2, <3>1, <3>2 DEF TurnAway
  <2>2. busy' = busy /\ run' = run /\ raced' = raced
    BY <1>2 DEF TurnAway
  <2>3. QED
    BY <2>1, <2>2
<1>3. ASSUME NEW j \in Job, Launch(c, j) PROVE Registered' /\ OneRun'
  <2>1. /\ run' = [run EXCEPT ![j] = run'[j]] /\ run'[j].by = c /\ c[1] \in Proc
        /\ run'[j].pc = "pull" /\ ~Working(j) /\ raced' = raced
    BY <1>3 DEF Launch, NoRun, Unused, Caller
  <2>2. \A d \in Caller : start'[d].pc = "save" => start[d].pc = "save" /\ d # c
    BY <1>0, <1>3 DEF Launch, EndStart, NoStart, Starter
  <2>3. busy' = [busy EXCEPT ![c[1]] = TRUE]
    BY <1>3 DEF Launch
  <2>4. start[c].pc = "save"
    BY <1>3 DEF Launch
  <2>5. \A i \in Job : run[i].by \in Caller => run[i].by[1] \in Proc
    BY DEF Caller
  <2>6. \A d \in Caller : d[1] \in Proc
    BY DEF Caller
  <2>7. Registered'
    BY <2>1, <2>2, <2>3, <2>4, <2>5, <2>6
  <2>8. OneRun'
    BY <2>1, <2>2, <2>3, <2>4, <2>5, <2>6
  <2>9. QED
    BY <2>7, <2>8
<1>4. CASE Started(c)
  BY <1>0, <1>4 DEF Started, EndStart, NoStart, Starter
<1>5. CASE StartedLost(c)
  BY <1>0, <1>5 DEF StartedLost, GoStart, Starter
<1>6. CASE NotStarted(c)
  BY <1>0, <1>6 DEF NotStarted, EndStart, NoStart, Starter
<1>7. QED
  BY <1>1, <1>2, <1>3, <1>4, <1>5, <1>6 DEF Starting

(* A run that ends was the only one its process had.                         *)
LEMMA RunOver ==
  ASSUME RunInv, NEW j \in Job, Working(j), Over(j), start' = start, raced' = raced
  PROVE  Registered' /\ OneRun'
<1> USE DEF RunInv, Registered, OneRun, Working, AtStart
<1>1. run[j].by \in Caller /\ run[j].by[1] \in Proc
  BY DEF Caller
<1>2. /\ run' = [run EXCEPT ![j] = run'[j]] /\ run'[j].pc \notin {"pull", "post"}
      /\ busy' = [busy EXCEPT ![run[j].by[1]] = FALSE]
  BY DEF Over, NoRun, TypeOK
<1>4. run \in [Job -> Runner] /\ busy \in [Proc -> BOOLEAN]
  BY DEF TypeOK
<1>5. \A i \in Job : run'[i].pc \in {"pull", "post"} =>
         i # j /\ run'[i] = run[i]
  BY <1>2, <1>4
<1>6. \A p \in Proc : busy'[p] => busy[p]
  BY <1>2, <1>4
<1>7. \A i \in Job : i # j /\ Working(i) /\ ~raced /\ run[i].by[1] \in Proc =>
         busy'[run[i].by[1]] = busy[run[i].by[1]]
  BY <1>2, <1>4
<1>8. \A c \in Caller : c[1] \in Proc
  BY DEF Caller
<1>9. QED
  BY <1>1, <1>5, <1>6, <1>7, <1>8

LEMMA RunExecute ==
  ASSUME RunInv, NEW j \in Job, Execute(j)
  PROVE  Registered' /\ OneRun'
<1> USE DEF RunInv
<1>0. run \in [Job -> Runner]
  BY DEF TypeOK
<1>1. CASE Finish(j) \/ Abort(j)
  BY <1>1, RunOver DEF Finish, Abort, Working, AtRun
<1>2. CASE Pull(j) \/ PostDay(j)
  <2>1. \A i \in Job : run'[i].by = run[i].by /\ (Working(i)' <=> Working(i))
    BY <1>0, <1>2 DEF Pull, PostDay, Working, AtRun, Runner
  <2>2. QED
    BY <1>2, <2>1 DEF Pull, PostDay, Registered, OneRun, AtStart
<1>3. CASE ReadBack(j) \/ Record(j) \/ RecordLost(j)
  <2>1. \A i \in Job : Working(i)' => Working(i) /\ run'[i].by = run[i].by
    BY <1>0, <1>3 DEF ReadBack, Record, RecordLost, Working, NoRun, AtRun, Runner
  <2>2. QED
    BY <1>3, <2>1 DEF ReadBack, Record, RecordLost, Registered, OneRun, AtStart
<1>4. QED
  BY <1>1, <1>2, <1>3 DEF Execute

LEMMA RunAsk ==
  ASSUME RunInv, NEW p \in Proc,
         Tick(p) \/ Stamp(p) \/ RunNow(p, TRUE) \/ RunNow(p, FALSE)
  PROVE  Registered' /\ OneRun'
<1>1. <<p, "tick">> \in Caller /\ <<p, "admin">> \in Caller
  BY DEF Caller
<1>2. start \in [Caller -> Starter]
  BY DEF RunInv, TypeOK
<1>3. \A c \in Caller : AtStart(c, "save")' => AtStart(c, "save")
  <2>1. CASE Tick(p)
    BY <1>1, <1>2, <2>1 DEF Tick, AtStart
  <2>2. CASE Stamp(p)
    <3>1. CASE GoStart(<<p, "tick">>, "ready")
      BY <1>1, <1>2, <3>1 DEF GoStart, AtStart, Starter
    <3>2. CASE EndStart(<<p, "tick">>)
      BY <1>1, <1>2, <3>2 DEF EndStart, NoStart, AtStart
    <3>3. QED
      BY <2>2, <3>1, <3>2 DEF Stamp
  <2>3. ASSUME NEW auto \in BOOLEAN, RunNow(p, auto)
        PROVE  \A c \in Caller : AtStart(c, "save")' => AtStart(c, "save")
    BY <1>1, <1>2, <2>3 DEF RunNow, AtStart
  <2>4. QED
    BY <2>1, <2>2, <2>3
<1>4. run' = run /\ busy' = busy /\ raced' = raced
  BY DEF Tick, Stamp, RunNow
<1>5. QED
  BY <1>3, <1>4 DEF RunInv, Registered, OneRun, Working

LEMMA RunWorld ==
  ASSUME RunInv, NEW p \in Proc,
         Crash(p) \/ Restart(p) \/ \E j \in Job : MarkStranded(p, j)
  PROVE  Registered' /\ OneRun'
<1>1. CASE Crash(p)
  <2>1. \A j \in Job : Working(j)' => /\ Working(j) /\ run'[j].by = run[j].by
                                      /\ run[j].by[1] # p
    BY <1>1 DEF Crash, Working, NoRun
  <2>2. \A c \in Caller : AtStart(c, "save")' => AtStart(c, "save") /\ c[1] # p
    BY <1>1 DEF Crash, AtStart, NoStart
  <2>3. busy' = [busy EXCEPT ![p] = FALSE] /\ busy \in [Proc -> BOOLEAN] /\ raced' = raced
    BY <1>1 DEF Crash, RunInv, TypeOK
  <2>4. \A c \in Caller : c[1] \in Proc
    BY DEF Caller
  <2>5. QED
    BY <2>1, <2>2, <2>3, <2>4 DEF RunInv, Registered, OneRun
<1>2. CASE Restart(p) \/ \E j \in Job : MarkStranded(p, j)
  BY <1>2 DEF Restart, MarkStranded, RunInv, Registered, OneRun, Working, AtStart
<1>3. QED
  BY <1>1, <1>2

LEMMA RunNext == RunInv /\ TypeOK' /\ [Next]_vars => RunInv'
<1>1. SUFFICES ASSUME RunInv, [Next]_vars PROVE Registered' /\ OneRun'
  BY DEF RunInv
<1>2. CASE UNCHANGED <<start, run, busy, raced>>
  BY <1>1, <1>2 DEF RunInv, Registered, OneRun, Working, AtStart
<1>3. CASE NextHour \/ NextDay \/ Toggle \/ UNCHANGED vars
  BY <1>2, <1>3 DEF NextHour, NextDay, Toggle, vars
<1>4. QED
  BY <1>1, <1>3, RunStart, RunExecute, RunAsk, RunWorld DEF Next

(* "The SAME region must never race itself": a process has one run of the    *)
(* region at work, unless two starts met between look-up and registration.   *)
THEOREM RegionRunsOnce == Spec => []OneRun
<1>1. Init => RunInv
  BY TypeInit, RunInit DEF RunInv
<1>2. RunInv /\ [Next]_vars => RunInv'
  BY RunNext, TypeNext DEF RunInv
<1>3. RunInv => OneRun
  BY DEF RunInv
<1>4. QED
  BY <1>1, <1>2, <1>3, PTL DEF Spec

-----------------------------------------------------------------------------
(* A row is live because somebody works on it, or a process that is down     *)
(* will find it or has found it, or its last write was lost.                 *)
LEMMA OrphanStart ==
  ASSUME TypeOK, NoOrphan, NEW c \in Caller, Starting(c)
  PROVE  NoOrphan'
<1> USE DEF NoOrphan, Working
<1>1. CASE Check(c) \/ TurnAway(c) \/ Started(c) \/ StartedLost(c) \/ NotStarted(c)
  BY <1>1 DEF Check, TurnAway, Started, StartedLost, NotStarted
<1>2. ASSUME NEW j \in Job, Launch(c, j) PROVE NoOrphan'
  <2>1. /\ run' = [run EXCEPT ![j] = run'[j]] /\ run'[j].pc = "pull"
        /\ live' = [live EXCEPT ![j] = TRUE] /\ unwritten' = unwritten \ {j}
        /\ up' = up /\ stranded' = stranded
    BY <1>2 DEF Launch, NoRun, TypeOK
  <2>2. QED
    BY <2>1 DEF TypeOK
<1>3. QED
  BY <1>1, <1>2 DEF Starting

LEMMA OrphanExecute ==
  ASSUME TypeOK, NoOrphan, NEW j \in Job, Execute(j)
  PROVE  NoOrphan'
<1> USE DEF NoOrphan
<1>0. run \in [Job -> Runner] /\ live \in [Job -> BOOLEAN] /\ up' = up /\ stranded' = stranded
  BY DEF TypeOK, Execute, Pull, PostDay, Finish, Abort, ReadBack, Record, RecordLost
<1>1. CASE Finish(j) \/ Abort(j)
  <2>1. \A i \in Job : i # j => run'[i] = run[i] /\ live'[i] = live[i]
    BY <1>0, <1>1 DEF Finish, Abort, Over
  <2>2. unwritten \subseteq unwritten' /\ (live'[j] => j \in unwritten')
    BY <1>0, <1>1 DEF Finish, Abort
  <2>3. QED
    BY <1>0, <2>1, <2>2 DEF Working
<1>2. CASE Pull(j) \/ PostDay(j) \/ ReadBack(j) \/ Record(j) \/ RecordLost(j)
  <2>1. \A i \in Job : Working(i) => Working(i)'
    BY <1>0, <1>2 DEF Pull, PostDay, ReadBack, Record, RecordLost, Working, AtRun, Runner
  <2>2. live' = live /\ unwritten' = unwritten
    BY <1>2 DEF Pull, PostDay, ReadBack, Record, RecordLost
  <2>3. QED
    BY <1>0, <2>1, <2>2
<1>3. QED
  BY <1>1, <1>2 DEF Execute

LEMMA OrphanWorld ==
  ASSUME TypeOK, NoOrphan, NEW p \in Proc,
         Crash(p) \/ Restart(p) \/ \E j \in Job : MarkStranded(p, j)
  PROVE  NoOrphan'
<1> USE DEF NoOrphan
<1>1. CASE Crash(p)
  BY <1>1 DEF Crash, TypeOK
<1>2. CASE Restart(p)
  <2>1. run' = run /\ live' = live /\ unwritten \subseteq unwritten'
    BY <1>2 DEF Restart
  <2>2. \A j \in Job : live[j] => j \in stranded'[p] \/ j \in unwritten'
    BY <1>2 DEF Restart, TypeOK
  <2>3. QED
    BY <2>1, <2>2
<1>3. ASSUME NEW j \in Job, MarkStranded(p, j) PROVE NoOrphan'
  <2>1. run' = run /\ up' = up /\ unwritten \subseteq unwritten'
    BY <1>3 DEF MarkStranded
  <2>2. live'[j] => j \in unwritten'
    BY <1>3 DEF MarkStranded, TypeOK
  <2>3. \A i \in Job : i # j => /\ live'[i] = live[i]
                              /\ \A q \in Proc : i \in stranded[q] => i \in stranded'[q]
    BY <1>3 DEF MarkStranded, TypeOK
  <2>4. QED
    BY <2>1, <2>2, <2>3 DEF Working
<1>4. QED
  BY <1>1, <1>2, <1>3

LEMMA OrphanNext == TypeOK /\ NoOrphan /\ [Next]_vars => NoOrphan'
<1>1. SUFFICES ASSUME TypeOK, NoOrphan, [Next]_vars PROVE NoOrphan'
  OBVIOUS
<1>2. CASE UNCHANGED <<run, live, up, stranded, unwritten>>
  BY <1>1, <1>2 DEF NoOrphan, Working
<1>3. CASE NextHour \/ NextDay \/ Toggle \/ UNCHANGED vars
  BY <1>2, <1>3 DEF NextHour, NextDay, Toggle, vars
<1>4. ASSUME NEW p \in Proc, Tick(p) \/ Stamp(p) \/ RunNow(p, TRUE) \/ RunNow(p, FALSE)
      PROVE  NoOrphan'
  BY <1>2, <1>4 DEF Tick, Stamp, RunNow
<1>5. QED
  BY <1>1, <1>3, <1>4, OrphanStart, OrphanExecute, OrphanWorld DEF Next

(* A job row whose last write was not lost is never live for ever: a run     *)
(* works on it, or a process that comes up marks it.                         *)
THEOREM NoRowIsOrphaned == Spec => []NoOrphan
<1>1. Init => NoOrphan
  BY DEF Init, NoOrphan
<1>2. QED
  BY <1>1, TypeInit, TypeNext, OrphanNext, PTL DEF Spec

-----------------------------------------------------------------------------
(* What a local day owes: the business days whose catch-up covers it.        *)
Done(t) == \A d \in Day : t \in LooksBackTo(d) => d \in taken

(* The window of a run of day t ends where it must.                          *)
Right(t, last) ==
  /\ (IF settings.runTime >= settings.cutoff THEN t - 1 ELSE t - 2) <= last
  /\ last <= t - 1

(* A tick at work is today's.                                                *)
Pledged ==
  \A c \in Caller : ByTick(c) /\ start[c].pc # "none" =>
    start[c].day = today /\ start[c].auto /\ Right(today, start[c].last)

(* A scheduled run has got through its window up to the day it is at.        *)
Sound(r) ==
  /\ r.day <= today /\ r.auto /\ Right(r.day, r.last)
  /\ \A d \in Day : First(r.last) <= d /\ d < r.next => d \in taken
Progress ==
  \A j \in Job : Working(j) /\ ByTick(run[j].by) => Sound(run[j])

(* A day that was fired, and is not spoilt, is through or on its way.        *)
OnItsWay ==
  \/ \E c \in Caller : ByTick(c) /\ start[c].pc \in {"ready", "save"}
  \/ \E j \in Job : Working(j) /\ ByTick(run[j].by) /\ run[j].day = today
Owed ==
  row.fired <= today /\ (row.fired = today => today \in bad \/ Done(today) \/ OnItsWay)

CatchInv == TypeOK /\ CaughtUp /\ Pledged /\ Progress /\ Owed

(* A window that ends where it must holds every day owed.                    *)
LEMMA WindowHoldsOwed ==
  ASSUME TypeOK, NEW t \in LocalDay, NEW last \in LastDay, Right(t, last),
         \A d \in Day : First(last) <= d /\ d <= last => d \in taken
  PROVE  Done(t)
<1>1. SUFFICES ASSUME NEW d \in Day, t \in LooksBackTo(d)
               PROVE  First(last) <= d /\ d <= last
  BY DEF Done
<1>2. t \in Int /\ last \in Int /\ d \in Int /\ Lookback \in Nat
  BY RunsConstantsOK DEF LocalDay, LastDay, Day
<1>3. QED
  BY <1>1, <1>2 DEF LooksBackTo, First, Right

LEMMA CatchFrame ==
  ASSUME CatchInv, TypeOK', today' = today, settings' = settings,
         taken \subseteq taken', bad \subseteq bad'
  PROVE  CaughtUp' /\ (Done(today) => Done(today)')
<1>1. \A t : Done(t) => Done(t)'
  BY DEF Done, LooksBackTo
<1>2. CaughtUp'
  BY DEF CatchInv, CaughtUp, LooksBackTo
<1>3. QED
  BY <1>1, <1>2

LEMMA CatchInit == Init => CaughtUp /\ Pledged /\ Progress /\ Owed
<1>1. SUFFICES ASSUME Init PROVE CaughtUp /\ Pledged /\ Progress /\ Owed
  OBVIOUS
<1>2. CaughtUp
  <2>1. SUFFICES ASSUME NEW d \in Day, NEW t \in LooksBackTo(d), 1 <= t, t < today
                 PROVE  FALSE
    BY DEF CaughtUp
  <2>2. t \in Int /\ today = 1
    BY <1>1 DEF LooksBackTo, Init
  <2>3. QED
    BY <2>1, <2>2
<1>3. QED
  BY <1>1, <1>2 DEF Init, Pledged, Progress, Owed, Working, NoStart, NoRun

(* Asking for a run, and starting it.                                        *)
LEMMA CatchAsk ==
  ASSUME CatchInv, TypeOK', NEW p \in Proc,
         Tick(p) \/ Stamp(p) \/ RunNow(p, TRUE) \/ RunNow(p, FALSE)
  PROVE  CatchInv'
<1> USE DEF CatchInv
<1> DEFINE c == <<p, "tick">>
           a == <<p, "admin">>
<1>1. c \in Caller /\ a \in Caller /\ ByTick(c) /\ ~ByTick(a)
  BY DEF Caller, ByTick
<1>2. start \in [Caller -> Starter] /\ today \in Int /\ row.fired \in Int
  BY DEF TypeOK, LocalDay, Report
<1>3. /\ today' = today /\ settings' = settings /\ taken' = taken /\ bad' = bad /\ run' = run
  BY DEF Tick, Stamp, RunNow
<1>4. CaughtUp' /\ (Done(today) => Done(today)')
  BY <1>3, CatchFrame
<1>5. Progress'
  BY <1>3 DEF Progress, Sound, Right, Working
<1>6. CASE Tick(p)
  <2>1. Right(today, LatestClosed)
    BY <1>6, <1>2 DEF Tick, Right, LatestClosed, TypeOK, Hours
  <2>2. /\ start[c].pc = "none" /\ start'[c].pc = "due" /\ start'[c].day = today
        /\ start'[c].auto /\ start'[c].last = LatestClosed
        /\ \A d \in Caller : d # c => start'[d] = start[d]
        /\ row' = row
    BY <1>1, <1>2, <1>6 DEF Tick, AtStart
  <2>3. Pledged'
    BY <1>3, <2>1, <2>2 DEF Pledged, Right
  <2>4. OnItsWay => OnItsWay'
    BY <1>3, <2>2 DEF OnItsWay, Working
  <2>5. QED
    BY <1>3, <1>4, <1>5, <2>2, <2>3, <2>4 DEF Owed
<1>7. CASE Stamp(p)
  <2>1. CASE row' = row /\ EndStart(c)
    <3>1. start'[c].pc = "none" /\ start[c].pc = "due"
      BY <1>1, <1>2, <1>7, <2>1 DEF Stamp, EndStart, NoStart, AtStart
    <3>2. \A d \in Caller : d # c => start'[d] = start[d]
      BY <1>2, <2>1 DEF EndStart
    <3>3. OnItsWay => OnItsWay'
      BY <1>3, <3>1, <3>2 DEF OnItsWay, Working
    <3>4. Pledged'
      BY <1>3, <3>1, <3>2 DEF Pledged, Right
    <3>5. QED
      BY <1>3, <1>4, <1>5, <2>1, <3>3, <3>4 DEF Owed
  <2>2. CASE row' = [row EXCEPT !.fired = start[c].day] /\ GoStart(c, "ready")
    <3>1. /\ start[c].pc = "due" /\ start[c].day = today /\ start[c] \in Starter
      BY <1>1, <1>2, <1>7 DEF Stamp, AtStart, Pledged
    <3>2. /\ start'[c].pc = "ready" /\ start'[c].day = start[c].day
          /\ start'[c].auto = start[c].auto /\ start'[c].last = start[c].last
          /\ \A d \in Caller : d # c => start'[d] = start[d]
      BY <1>1, <1>2, <2>2 DEF GoStart, Starter
    <3>3. row'.fired = today
      BY <2>2, <3>1 DEF TypeOK, Report
    <3>4. OnItsWay'
      BY <1>1, <3>2 DEF OnItsWay
    <3>5. Pledged'
      BY <1>1, <1>3, <3>1, <3>2 DEF Pledged, Right
    <3>6. QED
      BY <1>2, <1>3, <1>4, <1>5, <3>3, <3>4, <3>5 DEF Owed
  <2>3. QED
    BY <1>7, <2>1, <2>2 DEF Stamp
<1>8. ASSUME NEW auto \in BOOLEAN, RunNow(p, auto) PROVE CatchInv'
  <2>1. \A d \in Caller : ByTick(d) => start'[d] = start[d]
    BY <1>1, <1>2, <1>8 DEF RunNow
  <2>2. row' = row
    BY <1>8 DEF RunNow
  <2>3. Pledged' /\ (OnItsWay => OnItsWay')
    BY <1>3, <2>1 DEF Pledged, Right, OnItsWay, Working
  <2>4. QED
    BY <1>3, <1>4, <1>5, <2>2, <2>3 DEF Owed
<1>9. QED
  BY <1>6, <1>7, <1>8

LEMMA CatchStart ==
  ASSUME CatchInv, TypeOK', NEW c \in Caller, Starting(c)
  PROVE  CatchInv'
<1> USE DEF CatchInv
<1>1. /\ start \in [Caller -> Starter] /\ today \in Int /\ row.fired \in Int
      /\ start[c] \in Starter
  BY DEF TypeOK, LocalDay, Report
<1>2. today' = today /\ settings' = settings /\ taken' = taken /\ bad \subseteq bad'
  BY DEF Starting, Check, TurnAway, Spoil, Launch, Started, StartedLost, NotStarted
<1>3. CaughtUp' /\ (Done(today) => Done(today)')
  BY <1>2, CatchFrame
<1>4. row'.fired = row.fired
  BY DEF Starting, Check, TurnAway, Launch, Started, StartedLost, NotStarted, TypeOK, Report
<1>5. \A d \in Caller : d # c => start'[d] = start[d]
  BY <1>1 DEF Starting, Check, TurnAway, Launch, Started, StartedLost, NotStarted,
              GoStart, EndStart
<1>6. \/ start'[c].pc = "none"
      \/ /\ start[c].pc # "none" /\ start'[c].day = start[c].day
         /\ start'[c].auto = start[c].auto /\ start'[c].last = start[c].last
  BY <1>1 DEF Starting, Check, TurnAway, Launch, Started, StartedLost, NotStarted,
              GoStart, EndStart, NoStart, AtStart, Starter
<1>7. Pledged'
  BY <1>2, <1>5, <1>6 DEF Pledged, Right
<1>8. CASE \E j \in Job : Launch(c, j)
  <2>1. PICK j \in Job : Launch(c, j)
    BY <1>8
  <2>2. /\ ~Working(j) /\ run'[j].pc = "pull" /\ run'[j].by = c
        /\ run'[j].day = start[c].day /\ run'[j].auto = start[c].auto
        /\ run'[j].last = start[c].last /\ run'[j].next = First(start[c].last)
        /\ \A i \in Job : i # j => run'[i] = run[i]
    BY <2>1 DEF Launch, Unused, Working, NoRun, TypeOK
  <2>3. start[c].pc = "save"
    BY <2>1 DEF Launch, AtStart
  <2>4. ByTick(c) => start[c].day = today /\ start[c].auto /\ Right(today, start[c].last)
    BY <2>3 DEF Pledged
  <2>5. ByTick(c) => Sound(run[j])'
    <3>1. First(start[c].last) \in Int
      BY <1>1, Windows DEF Starter, Day
    <3>2. \A d \in Day : ~(First(start[c].last) <= d /\ d < First(start[c].last))
      BY <3>1 DEF Day
    <3>3. QED
      BY <1>1, <1>2, <2>2, <2>4, <3>2 DEF Sound, Right, First
  <2>6. Progress'
    BY <1>2, <2>2, <2>5 DEF Progress, Sound, Right, Working
  <2>7. OnItsWay => OnItsWay'
    BY <1>2, <1>5, <2>2, <2>4 DEF OnItsWay, Working
  <2>8. QED
    BY <1>2, <1>3, <1>4, <1>7, <2>6, <2>7 DEF Owed
<1>9. CASE ~\E j \in Job : Launch(c, j)
  <2>1. run' = run
    BY <1>9 DEF Starting, Check, TurnAway, Started, StartedLost, NotStarted
  <2>2. Progress'
    BY <1>2, <2>1 DEF Progress, Sound, Right, Working
  <2>3. OnItsWay => OnItsWay' \/ today \in bad'
    <3>1. CASE Check(c)
      BY <1>1, <1>2, <1>5, <2>1, <3>1 DEF Check, GoStart, OnItsWay, Working
    <3>2. CASE TurnAway(c)
      <4>1. ByTick(c) => today \in bad'
        BY <3>2 DEF TurnAway, Spoil, AtStart, Pledged
      <4>2. QED
        BY <1>2, <1>5, <2>1, <4>1 DEF OnItsWay, Working
    <3>3. CASE Started(c) \/ StartedLost(c) \/ NotStarted(c)
      <4>1. start[c].pc \notin {"ready", "save"}
        BY <3>3 DEF Started, StartedLost, NotStarted, AtStart
      <4>2. QED
        BY <1>2, <1>5, <2>1, <4>1 DEF OnItsWay, Working
    <3>4. QED
      BY <1>9, <3>1, <3>2, <3>3 DEF Starting
  <2>4. QED
    BY <1>2, <1>3, <1>4, <1>7, <2>2, <2>3 DEF Owed
<1>10. QED
  BY <1>8, <1>9

(* Executing it.                                                             *)
LEMMA CatchExecute ==
  ASSUME CatchInv, TypeOK', NEW j \in Job, Execute(j)
  PROVE  CatchInv'
<1> USE DEF CatchInv
<1>1. run \in [Job -> Runner] /\ run[j] \in Runner /\ today \in Int /\ row.fired \in Int
  BY DEF TypeOK, LocalDay, Report
<1>2. /\ today' = today /\ settings' = settings /\ start' = start
      /\ taken \subseteq taken' /\ bad \subseteq bad'
  BY DEF Execute, Pull, PostDay, Finish, Abort, ReadBack, Record, RecordLost
<1>3. CaughtUp' /\ (Done(today) => Done(today)')
  BY <1>2, CatchFrame
<1>4. row'.fired = row.fired
  BY DEF Execute, Pull, PostDay, Finish, Abort, ReadBack, Record, RecordLost, TypeOK, Report
<1>5. Pledged'
  BY <1>2 DEF Pledged, Right
<1>6. \A i \in Job : i # j => run'[i] = run[i]
  BY <1>1 DEF Execute, Pull, PostDay, Finish, Abort, Over, ReadBack, Record, RecordLost
<1>7. \A r : Sound(r) => Sound(r)'
  BY <1>2 DEF Sound, Right
<1>8. SUFFICES /\ Working(j)' /\ ByTick(run'[j].by) => Sound(run[j])'
               /\ OnItsWay => OnItsWay' \/ today \in bad' \/ Done(today)'
  <2>1. Progress'
    BY <1>6, <1>7, <1>8 DEF Progress, Working
  <2>2. QED
    BY <1>2, <1>3, <1>4, <1>5, <1>8, <2>1 DEF Owed
<1>9. CASE Pull(j) \/ PostDay(j)
  <2>1. /\ Working(j) /\ Working(j)' /\ run'[j].by = run[j].by /\ run'[j].day = run[j].day
        /\ run'[j].auto = run[j].auto /\ run'[j].last = run[j].last
    BY <1>1, <1>9 DEF Pull, PostDay, Working, AtRun, Runner
  <2>2. OnItsWay => OnItsWay'
    BY <1>2, <1>6, <2>1 DEF OnItsWay, Working
  <2>3. CASE ByTick(run[j].by)
    <3>1. Sound(run[j])
      BY <2>1, <2>3 DEF Progress
    <3>2. \A d \in Day : First(run[j].last) <= d /\ d < run'[j].next => d \in taken'
      <4>1. CASE Pull(j)
        BY <1>1, <3>1, <4>1 DEF Pull, Sound
      <4>2. CASE PostDay(j)
        <5>1. run'[j].next = run[j].next + 1 /\ run[j].next \in Int
          BY <1>1, <4>2 DEF PostDay, Runner, Day
        <5>2. taken' = taken \cup {run[j].next}
          BY <3>1, <4>2 DEF PostDay, Sound
        <5>3. QED
          BY <3>1, <5>1, <5>2 DEF Sound, Day
      <4>3. QED
        BY <1>9, <4>1, <4>2
    <3>3. QED
      BY <1>2, <2>1, <2>2, <3>1, <3>2 DEF Sound, Right
  <2>4. QED
    BY <2>1, <2>2, <2>3
<1>10. CASE Finish(j)
  <2>1. ~Working(j)' /\ Working(j) /\ run[j].next > run[j].last
    BY <1>1, <1>10 DEF Finish, Over, Working, AtRun, NoRun
  <2>2. ByTick(run[j].by) /\ run[j].day = today => Done(today)
    <3>1. SUFFICES ASSUME ByTick(run[j].by), run[j].day = today PROVE Done(today)
      OBVIOUS
    <3>2. Sound(run[j])
      BY <2>1, <3>1 DEF Progress
    <3>3. run[j].last \in LastDay /\ run[j].last \in Int /\ run[j].next \in Int
      BY <1>1 DEF Runner, LastDay, Day
    <3>4. \A d \in Day : First(run[j].last) <= d /\ d <= run[j].last => d \in taken
      BY <2>1, <3>2, <3>3 DEF Sound, Day
    <3>5. Right(today, run[j].last) /\ today \in LocalDay
      BY <3>1, <3>2 DEF Sound, TypeOK
    <3>6. QED
      BY <3>3, <3>4, <3>5, WindowHoldsOwed
  <2>3. QED
    BY <1>2, <1>3, <1>6, <2>1, <2>2 DEF OnItsWay, Working
<1>11. CASE Abort(j)
  <2>1. ~Working(j)' /\ (ByTick(run[j].by) => run[j].day \in bad')
    BY <1>1, <1>11 DEF Abort, Over, Working, NoRun
  <2>2. QED
    BY <1>2, <1>6, <2>1 DEF OnItsWay, Working
<1>12. CASE ReadBack(j) \/ Record(j) \/ RecordLost(j)
  <2>1. ~Working(j)' /\ ~Working(j)
    BY <1>1, <1>12 DEF ReadBack, Record, RecordLost, Working, AtRun, NoRun, Runner
  <2>2. QED
    BY <1>2, <1>6, <2>1 DEF OnItsWay, Working
<1>13. QED
  BY <1>9, <1>10, <1>11, <1>12 DEF Execute

(* Processes, the switch and the clock.                                      *)
LEMMA CatchWorld ==
  ASSUME CatchInv, TypeOK', NEW p \in Proc,
         Crash(p) \/ Restart(p) \/ \E j \in Job : MarkStranded(p, j)
  PROVE  CatchInv'
<1> USE DEF CatchInv
<1>1. /\ today' = today /\ settings' = settings /\ taken' = taken /\ row' = row
      /\ bad \subseteq bad'
  BY DEF Crash, Restart, MarkStranded
<1>2. CaughtUp' /\ (Done(today) => Done(today)')
  BY <1>1, CatchFrame
<1>3. \A r : Sound(r) => Sound(r)'
  BY <1>1 DEF Sound, Right
<1>4. CASE Crash(p)
  <2>1. \A j \in Job : run'[j] = run[j] \/ ~Working(j)'
    BY <1>4 DEF Crash, Working, NoRun
  <2>2. \A c \in Caller : start'[c] = start[c] \/ start'[c].pc = "none"
    BY <1>4 DEF Crash, NoStart
  <2>3. Pledged' /\ Progress'
    BY <1>1, <1>3, <2>1, <2>2 DEF Pledged, Progress, Right, Working
  <2>4. ASSUME NEW c \in Caller, ByTick(c), start[c].pc \in {"ready", "save"}
        PROVE  OnItsWay' \/ today \in bad'
    <3>1. CASE c[1] = p
      <4>1. c = <<p, "tick">> /\ start[c].day = today
        BY <2>4, <3>1 DEF Caller, ByTick, Pledged
      <4>2. QED
        BY <1>4, <2>4, <4>1 DEF Crash
    <3>2. CASE c[1] # p
      BY <1>4, <2>4, <3>2 DEF Crash, OnItsWay
    <3>3. QED
      BY <3>1, <3>2
  <2>5. ASSUME NEW j \in Job, Working(j), ByTick(run[j].by), run[j].day = today
        PROVE  OnItsWay' \/ today \in bad'
    <3>1. run[j].by \in Caller
      BY <2>5 DEF TypeOK, Runner, ByTick
    <3>2. CASE run[j].by[1] = p
      <4>1. run[j].by = <<p, "tick">>
        BY <2>5, <3>1, <3>2 DEF Caller, ByTick
      <4>2. QED
        BY <1>4, <2>5, <4>1 DEF Crash
    <3>3. CASE run[j].by[1] # p
      BY <1>1, <1>4, <2>5, <3>3 DEF Crash, OnItsWay, Working
    <3>4. QED
      BY <3>2, <3>3
  <2>6. QED
    BY <1>1, <1>2, <2>3, <2>4, <2>5 DEF Owed, OnItsWay
<1>5. CASE Restart(p) \/ \E j \in Job : MarkStranded(p, j)
  <2>1. start' = start /\ run' = run /\ bad' = bad
    BY <1>5 DEF Restart, MarkStranded
  <2>2. QED
    BY <1>1, <1>2, <1>3, <2>1 DEF Pledged, Progress, Right, Working, Owed, OnItsWay
<1>6. QED
  BY <1>4, <1>5

(* A day ends: what it owed is done, or the day is spoilt.                   *)
LEMMA CatchNextDay ==
  ASSUME CatchInv, TypeOK', NextDay
  PROVE  CatchInv'
<1> USE DEF CatchInv
<1>1. /\ today' = today + 1 /\ settings' = settings /\ taken' = taken /\ row' = row
      /\ start' = start /\ run' = run /\ bad \subseteq bad' /\ AtWork \subseteq bad'
      /\ (row.fired # today => today \in bad') /\ \A p \in Proc : ~Ticking(p)
  BY DEF NextDay
<1>2. today \in Int /\ row.fired \in Int
  BY DEF TypeOK, LocalDay, Report
<1>3. \A c \in Caller : ByTick(c) => start[c].pc = "none"
  <2>1. \A c \in Caller : ByTick(c) => c = <<c[1], "tick">> /\ c[1] \in Proc
    BY DEF Caller, ByTick
  <2>2. QED
    BY <1>1, <2>1 DEF Ticking
<1>4. today \in bad' \/ Done(today)
  BY <1>1, <1>3 DEF Owed, OnItsWay, AtWork
<1>5. CaughtUp'
  <2>1. SUFFICES ASSUME NEW d \in Day, d \notin taken', NEW t \in LooksBackTo(d)', 1 <= t,
                        t < today'
                 PROVE  t \in bad'
    BY DEF CaughtUp
  <2>2. t \in LooksBackTo(d) /\ t \in Int
    BY <1>1 DEF LooksBackTo
  <2>3. CASE t = today
    BY <1>1, <1>4, <2>1, <2>2, <2>3 DEF Done
  <2>4. CASE t < today
    BY <1>1, <2>1, <2>2, <2>4 DEF CaughtUp
  <2>5. QED
    BY <1>1, <1>2, <2>1, <2>2, <2>3, <2>4
<1>6. Pledged'
  BY <1>1, <1>3 DEF Pledged
<1>7. Progress'
  <2>1. \A j \in Job : run[j].day \in Int
    BY DEF TypeOK, Runner, LocalDay
  <2>2. QED
    BY <1>1, <1>2, <2>1 DEF Progress, Sound, Right, Working
<1>8. Owed'
  BY <1>1, <1>2 DEF Owed
<1>9. QED
  BY <1>5, <1>6, <1>7, <1>8

LEMMA CatchNext == CatchInv /\ TypeOK' /\ [Next]_vars => CatchInv'
<1>1. SUFFICES ASSUME CatchInv, TypeOK', [Next]_vars PROVE CatchInv'
  OBVIOUS
<1>2. CASE NextHour \/ Toggle \/ UNCHANGED vars
  <2>1. UNCHANGED <<today, settings, taken, row, start, run, bad>>
    BY <1>2 DEF NextHour, Toggle, vars
  <2>2. CaughtUp' /\ (Done(today) => Done(today)')
    BY <1>1, <2>1, CatchFrame
  <2>3. QED
    BY <1>1, <2>1, <2>2 DEF CatchInv, Pledged, Progress, Sound, Right, Working, Owed, OnItsWay
<1>3. QED
  BY <1>1, <1>2, CatchAsk, CatchStart, CatchExecute, CatchWorld, CatchNextDay DEF Next

(* A closed business day is posted on the first good day of those that look  *)
(* back to it, whatever happened on the others.                              *)
THEOREM MissedDaysCatchUp == Spec => []CaughtUp
<1>1. Init => CatchInv
  BY TypeInit, CatchInit DEF CatchInv
<1>2. CatchInv /\ [Next]_vars => CatchInv'
  BY CatchNext, TypeNext DEF CatchInv
<1>3. CatchInv => CaughtUp
  BY DEF CatchInv
<1>4. QED
  BY <1>1, <1>2, <1>3, PTL DEF Spec

-----------------------------------------------------------------------------
(* A run that will report, or is about to.                                   *)
Reporting(j) == run[j].pc \in {"report", "record"} \/ (Working(j) /\ run[j].auto)

(* Unless a report was lost, a schedule that says RUNNING names a job that   *)
(* will report, and a start that is about to say so has one that has not     *)
(* read the schedule yet.                                                    *)
Expected ==
  /\ row.running => row.job \in Job /\ Reporting(row.job)
  /\ \A c \in Caller : start[c].pc = "started" =>
       start[c].job \in Job /\ Reporting(start[c].job) /\ run[start[c].job].pc # "record"

ReportInv == unreported = TRUE \/ Expected

LEMMA ReportStart ==
  ASSUME TypeOK, ReportInv, NEW c \in Caller, Starting(c)
  PROVE  ReportInv'
<1> USE DEF ReportInv
<1>1. /\ start \in [Caller -> Starter] /\ start[c] \in Starter /\ row \in Report
      /\ run \in [Job -> Runner]
  BY DEF TypeOK
<1>2. unreported = TRUE => unreported' = TRUE
  BY DEF Starting, Check, TurnAway, Launch, Started, StartedLost, NotStarted
<1>3. \A d \in Caller : d # c => start'[d] = start[d]
  BY <1>1 DEF Starting, Check, TurnAway, Launch, Started, StartedLost, NotStarted,
              GoStart, EndStart
<1>4. SUFFICES ASSUME Expected, unreported' # TRUE PROVE Expected'
  BY <1>2
<1>5. CASE Check(c) \/ TurnAway(c) \/ NotStarted(c)
  <2>1. start'[c].pc # "started" /\ run' = run /\ row'.job = row.job
        /\ (row'.running => row.running)
    BY <1>1, <1>5 DEF Check, TurnAway, NotStarted, GoStart, EndStart, NoStart, Starter, Report
  <2>2. QED
    BY <1>3, <1>4, <2>1 DEF Expected, Reporting, Working
<1>6. ASSUME NEW j \in Job, Launch(c, j) PROVE Expected'
  <2>1. /\ \A i \in Job : i # j => run'[i] = run[i]
        /\ run'[j].pc = "pull" /\ run'[j].auto = start[c].auto /\ row' = row
    BY <1>1, <1>6 DEF Launch, NoRun
  <2>2. row.job # j /\ \A d \in Caller : start[d].job # j
    BY <1>6 DEF Launch, Unused
  <2>3. \/ start'[c].pc # "started"
        \/ start'[c].job = j /\ run'[j].auto
    BY <1>1, <1>6, <2>1 DEF Launch, EndStart, NoStart, Starter
  <2>4. QED
    BY <1>3, <1>4, <2>1, <2>2, <2>3 DEF Expected, Reporting, Working
<1>7. CASE Started(c)
  <2>1. /\ start[c].pc = "started" /\ start'[c].pc # "started" /\ run' = run
        /\ row'.job = start[c].job
    BY <1>1, <1>7 DEF Started, EndStart, NoStart, AtStart, Report
  <2>2. QED
    BY <1>3, <1>4, <2>1 DEF Expected, Reporting, Working
<1>8. CASE StartedLost(c)
  BY <1>4, <1>8 DEF StartedLost
<1>9. QED
  BY <1>5, <1>6, <1>7, <1>8 DEF Starting

LEMMA ReportExecute ==
  ASSUME TypeOK, ReportInv, NEW j \in Job, Execute(j)
  PROVE  ReportInv'
<1> USE DEF ReportInv
<1>1. run \in [Job -> Runner] /\ run[j] \in Runner /\ row \in Report /\ start' = start
  BY DEF TypeOK, Execute, Pull, PostDay, Finish, Abort, ReadBack, Record, RecordLost
<1>2. \A i \in Job : i # j => run'[i] = run[i]
  BY <1>1 DEF Execute, Pull, PostDay, Finish, Abort, Over, ReadBack, Record, RecordLost
<1>3. unreported = TRUE => unreported' = TRUE
  BY DEF Execute, Pull, PostDay, Finish, Abort, ReadBack, Record, RecordLost
<1>4. SUFFICES ASSUME Expected, unreported' # TRUE PROVE Expected'
  BY <1>3
<1>5. CASE Pull(j) \/ PostDay(j) \/ Finish(j) \/ Abort(j)
  <2>1. row' = row
    BY <1>5 DEF Pull, PostDay, Finish, Abort
  <2>2. Working(j)
    BY <1>5 DEF Pull, PostDay, Finish, Abort, Working, AtRun
  <2>3. CASE Pull(j) \/ PostDay(j)
    <3>1. run'[j].auto = run[j].auto /\ run'[j].pc = "post"
      BY <1>1, <2>3 DEF Pull, PostDay, AtRun, Runner
    <3>2. QED
      BY <1>1, <1>2, <1>4, <2>1, <2>2, <3>1 DEF Expected, Reporting, Working
  <2>4. CASE Over(j)
    <3>1. run[j].auto => run'[j].pc = "report"
      BY <1>1, <2>4 DEF Over, NoRun
    <3>2. QED
      BY <1>1, <1>2, <1>4, <2>1, <2>2, <3>1 DEF Expected, Reporting, Working
  <2>5. QED
    BY <1>5, <2>3, <2>4 DEF Finish, Abort
<1>6. CASE ReadBack(j)
  <2>1. row' = row /\ \A c \in Caller : start[c].job # j
    BY <1>4, <1>6 DEF ReadBack
  <2>2. row.job = j => run'[j].pc = "record"
    BY <1>1, <1>6 DEF ReadBack, Runner
  <2>3. QED
    BY <1>1, <1>2, <1>4, <2>1, <2>2 DEF Expected, Reporting, Working
<1>7. CASE Record(j)
  <2>1. ~row'.running /\ run[j].pc = "record"
    BY <1>1, <1>7 DEF Record, AtRun, Report
  <2>2. QED
    BY <1>1, <1>2, <1>4, <2>1 DEF Expected, Reporting, Working
<1>8. CASE RecordLost(j)
  BY <1>4, <1>8 DEF RecordLost
<1>9. QED
  BY <1>5, <1>6, <1>7, <1>8 DEF Execute

LEMMA ReportOthers ==
  ASSUME TypeOK, ReportInv, NEW p \in Proc,
         \/ Tick(p) \/ Stamp(p) \/ RunNow(p, TRUE) \/ RunNow(p, FALSE)
         \/ Crash(p) \/ Restart(p) \/ \E j \in Job : MarkStranded(p, j)
  PROVE  ReportInv'
<1>1. CASE Crash(p)
  BY <1>1 DEF Crash, ReportInv
<1>2. CASE ~Crash(p)
  <2>1. <<p, "tick">> \in Caller /\ <<p, "admin">> \in Caller
    BY DEF Caller
  <2>2. start \in [Caller -> Starter] /\ row \in Report
    BY DEF TypeOK
  <2>3. run' = run /\ unreported' = unreported
    BY <1>2 DEF Tick, Stamp, RunNow, Restart, MarkStranded
  <2>4. row'.job = row.job /\ row'.running = row.running
    BY <1>2, <2>2 DEF Tick, Stamp, RunNow, Restart, MarkStranded, Report
  <2>5. \A c \in Caller : start'[c].pc = "started" => start'[c] = start[c]
    <3>1. CASE Tick(p)
      BY <2>1, <2>2, <3>1 DEF Tick
    <3>2. CASE Stamp(p)
      <4>1. CASE GoStart(<<p, "tick">>, "ready")
        BY <2>1, <2>2, <4>1 DEF GoStart, Starter
      <4>2. CASE EndStart(<<p, "tick">>)
        BY <2>1, <2>2, <4>2 DEF EndStart, NoStart
      <4>3. QED
        BY <3>2, <4>1, <4>2 DEF Stamp
    <3>3. ASSUME NEW auto \in BOOLEAN, RunNow(p, auto)
          PROVE  \A c \in Caller : start'[c].pc = "started" => start'[c] = start[c]
      BY <2>1, <2>2, <3>3 DEF RunNow
    <3>4. CASE Restart(p) \/ \E j \in Job : MarkStranded(p, j)
      BY <3>4 DEF Restart, MarkStranded
    <3>5. QED
      BY <1>2, <3>1, <3>2, <3>3, <3>4
  <2>6. QED
    BY <2>3, <2>4, <2>5 DEF ReportInv, Expected, Reporting, Working
<1>3. QED
  BY <1>1, <1>2

LEMMA ReportNext == TypeOK /\ ReportInv /\ [Next]_vars => ReportInv'
<1>1. SUFFICES ASSUME TypeOK, ReportInv, [Next]_vars PROVE ReportInv'
  OBVIOUS
<1>2. CASE NextHour \/ NextDay \/ Toggle \/ UNCHANGED vars
  <2>1. UNCHANGED <<run, row, start, unreported>>
    BY <1>2 DEF NextHour, NextDay, Toggle, vars
  <2>2. QED
    BY <1>1, <2>1 DEF ReportInv, Expected, Reporting, Working
<1>3. QED
  BY <1>1, <1>2, ReportStart, ReportExecute, ReportOthers DEF Next

(* A schedule does not say RUNNING when nothing runs, unless a process died, *)
(* a write was lost or a run was over before its start was written down.     *)
THEOREM FinishedIsReported == Spec => []Reported
<1>1. Init => ReportInv
  BY DEF Init, ReportInv, Expected, NoStart
<1>2. TypeOK /\ ReportInv => Reported
  <2>1. SUFFICES ASSUME TypeOK, ReportInv, Quiet, row.running, unreported # TRUE PROVE FALSE
    BY DEF Reported, TypeOK
  <2>2. QED
    BY <2>1 DEF ReportInv, Expected, Quiet, Reporting, Working
<1>3. QED
  BY <1>1, <1>2, TypeInit, TypeNext, ReportNext, PTL DEF Spec
==============================================================================

--------------------------- MODULE IntegrationRuns ---------------------------
(***************************************************************************)
(* The automatic integration of ONE region: the scheduler's tick, which    *)
(* starts a run once per local day, the runs themselves (pull, then post   *)
(* the closed days one by one), and the rows that report on them.          *)
(*                                                                         *)
(* A business day is what DailyInvoice posts; here it is `taken` once a    *)
(* run has got through it.  The local day has two parts, so that the       *)
(* cut-off and the run time come first, last or together.  The tick comes  *)
(* every minute: a day does not pass without one while a process is up.    *)
(* What only reports show (counters, events, alerts, the ways a run ends)  *)
(* is left out.                                                            *)
(*                                                                         *)
(* The rest is history.  bad: local days whose scheduled run did not get   *)
(* through, for a reason outside the scheduler.  raced: two starts were    *)
(* between look-up and registration at once.  unreported: a process died,  *)
(* a write was lost, or a run ended before its start was written down.     *)
(* unwritten: live rows whose last status could not be read or saved.      *)
(***************************************************************************)
EXTENDS Integers, FiniteSets

CONSTANTS
  Proc,       \* back-end processes
  MaxJobs,    \* job rows in use at once
  MaxDay,     \* the local day on which nothing is fired any more
  Lookback,   \* lookbackDays
  MaxEvents   \* bound on operators' actions and mishaps

ASSUME RunsConstantsOK ==
  /\ MaxJobs \in Nat \ {0} /\ MaxDay \in Nat \ {0}
  /\ Lookback \in Nat \ {0} /\ MaxEvents \in Nat

Job      == 1 .. MaxJobs
NoJob    == 0
Hours    == 0 .. 1
LocalDay == 1 .. MaxDay
Day      == -Lookback .. MaxDay       \* business days a window may reach
LastDay  == -1 .. MaxDay - 1          \* and those that may be its last
Caller   == Proc \X {"tick", "admin"} \* who may be starting a run


VARIABLES
  today, hour,  \* the region's clock
  settings,     \* runTime and cutoffTime of the IntegrationSchedule row
  on,           \* the switches of Sync Control, the master's and the region's
  row,          \* the rest of that row: day last fired, last job, is it RUNNING
  up,           \* processes that run
  busy,         \* runningRegions of each process has the region
  start,        \* [Caller -> startAutomatic at work]
  live,         \* [Job -> the SyncJob row is PENDING or PROCESSING]
  run,          \* [Job -> the run in memory]
  stranded,     \* rows a process found live when it came up
  taken,        \* business days a scheduled or automatic run got through
  bad, raced, unreported, unwritten, events

vars == <<today, hour, settings, on, row, up, busy, start, live, run, stranded,
          taken, bad, raced, unreported, unwritten, events>>

NoStart == [pc |-> "none", day |-> 1, last |-> 0, auto |-> FALSE, job |-> NoJob]
NoRun   == [pc |-> "none", by |-> <<"none", "none">>, day |-> 1, next |-> 0, last |-> 0,
            auto |-> FALSE]

Init ==
  /\ today = 1 /\ hour = 0
  /\ settings \in [runTime : Hours, cutoff : Hours]
  /\ on = TRUE
  /\ row = [fired |-> 0, job |-> NoJob, running |-> FALSE]
  /\ up = [p \in Proc |-> TRUE]
  /\ busy = [p \in Proc |-> FALSE]
  /\ start = [c \in Caller |-> NoStart]
  /\ live = [j \in Job |-> FALSE]
  /\ run = [j \in Job |-> NoRun]
  /\ stranded = [p \in Proc |-> {}]
  /\ taken = {} /\ bad = {} /\ raced = FALSE /\ unreported = FALSE
  /\ unwritten = {}
  /\ events = MaxEvents

Event == events > 0 /\ events' = events - 1

AtStart(c, pc) == start[c].pc = pc
GoStart(c, pc) == start' = [start EXCEPT ![c].pc = pc]
EndStart(c)    == start' = [start EXCEPT ![c] = NoStart]
ByTick(c)      == c[2] = "tick"

-----------------------------------------------------------------------------
(* The plan: only closed days are posted, looking back Lookback days.        *)

(* Mutant: a day too early.                                                  *)
LatestClosedEarly == IF hour >= settings.cutoff THEN today - 2 ELSE today - 3

LatestClosed == IF hour >= settings.cutoff THEN today - 1 ELSE today - 2

(* Mutant: one day too many.                                                 *)
FirstWide(last) == last - Lookback

First(last) == last - (Lookback - 1)

(* A tick that finds the day's run due, and the switches on; any other       *)
(* changes nothing here.                                                     *)
Tick(p) ==
  LET c == <<p, "tick">>
  IN /\ up[p] /\ AtStart(c, "none") /\ on
     /\ today < MaxDay /\ row.fired # today /\ hour >= settings.runTime
     /\ start' = [start EXCEPT ![c] =
          [pc |-> "due", day |-> today, last |-> LatestClosed, auto |-> TRUE, job |-> NoJob]]
     /\ UNCHANGED <<today, hour, settings, on, row, up, busy, live, run,
                    stranded, taken, bad, raced, unreported, events, unwritten>>

(* The day is stamped before the run is started; a tick that fails here is   *)
(* followed by another.                                                      *)
Stamp(p) ==
  LET c == <<p, "tick">>
  IN /\ AtStart(c, "due")
     /\ \/ /\ row' = [row EXCEPT !.fired = start[c].day]
           /\ GoStart(c, "ready")
           /\ events' = events
        \/ row' = row /\ EndStart(c) /\ Event
     /\ UNCHANGED <<today, hour, settings, on, up, busy, live, run, stranded,
                    taken, bad, raced, unreported, unwritten>>

(* "Run now" starts what the scheduler would; a run of the operator's own    *)
(* choice of days reports to nobody.                                         *)
RunNow(p, auto) ==
  LET c == <<p, "admin">>
  IN /\ up[p] /\ AtStart(c, "none")
     /\ Event
     /\ start' = [start EXCEPT ![c] =
          [pc |-> "ready", day |-> today, last |-> LatestClosed, auto |-> auto,
           job |-> NoJob]]
     /\ UNCHANGED <<today, hour, settings, on, row, up, busy, live, run,
                    stranded, taken, bad, raced, unreported, unwritten>>

Toggle ==
  /\ Event
  /\ on' = ~on
  /\ UNCHANGED <<today, hour, settings, row, up, busy, start, live, run,
                 stranded, taken, bad, raced, unreported, unwritten>>

-----------------------------------------------------------------------------
(* startAutomatic and startRun.                                              *)

(* The local day of a scheduled run that will not get through.               *)
Spoil(c) == bad' = IF ByTick(c) THEN bad \cup {start[c].day} ELSE bad

(* Mutant: a region that is busy is not turned away.                         *)
CheckAlways(c) ==
  /\ AtStart(c, "ready")
  /\ raced' = (raced \/ \E d \in Caller : d[1] = c[1] /\ AtStart(d, "save"))
  /\ GoStart(c, "save")
  /\ UNCHANGED <<today, hour, settings, on, row, up, busy, live, run,
                 stranded, taken, bad, unreported, events, unwritten>>

(* The process has no run of the region: the row is about to be saved, and   *)
(* the region to be registered after that.                                   *)
Check(c) ==
  /\ AtStart(c, "ready")
  /\ ~busy[c[1]]
  /\ raced' = (raced \/ \E d \in Caller : d[1] = c[1] /\ AtStart(d, "save"))
  /\ GoStart(c, "save")
  /\ UNCHANGED <<today, hour, settings, on, row, up, busy, live, run,
                 stranded, taken, bad, unreported, events, unwritten>>

(* It has one, or the start fails on a read or a write.                      *)
TurnAway(c) ==
  /\ \/ AtStart(c, "ready") /\ busy[c[1]] /\ events' = events
     \/ (AtStart(c, "ready") \/ AtStart(c, "save")) /\ Event
  /\ Spoil(c)
  /\ IF start[c].auto THEN GoStart(c, "refused") ELSE EndStart(c)
  /\ UNCHANGED <<today, hour, settings, on, row, up, busy, live, run,
                 stranded, taken, raced, unreported, unwritten>>

(* A row that is not needed any more serves again for another run.           *)
Unused(j) ==
  /\ ~live[j] /\ run[j].pc = "none" /\ row.job # j
  /\ \A c \in Caller : start[c].job # j
  /\ \A p \in Proc : j \notin stranded[p]

Launch(c, j) ==
  /\ AtStart(c, "save")
  /\ Unused(j) /\ \A i \in 1 .. j - 1 : ~Unused(i)
  /\ live' = [live EXCEPT ![j] = TRUE]
  /\ unwritten' = unwritten \ {j}
  /\ busy' = [busy EXCEPT ![c[1]] = TRUE]
  /\ run' = [run EXCEPT ![j] =
       [NoRun EXCEPT !.pc = "pull", !.by = c, !.day = start[c].day,
                     !.next = First(start[c].last), !.last = start[c].last,
                     !.auto = start[c].auto]]
  /\ IF start[c].auto
     THEN start' = [start EXCEPT ![c].pc = "started", ![c].job = j]
     ELSE EndStart(c)
  /\ UNCHANGED <<today, hour, settings, on, row, up, stranded, taken, bad,
                 raced, unreported, events>>

Started(c) ==
  /\ AtStart(c, "started")
  /\ row' = [row EXCEPT !.job = start[c].job, !.running = TRUE]
  /\ EndStart(c)
  /\ UNCHANGED <<today, hour, settings, on, up, busy, live, run, stranded,
                 taken, bad, raced, unreported, events, unwritten>>

(* The update throws: the run is reported as not started.                    *)
StartedLost(c) ==
  /\ AtStart(c, "started")
  /\ Event
  /\ GoStart(c, "refused")
  /\ unreported' = TRUE
  /\ UNCHANGED <<today, hour, settings, on, row, up, busy, live, run,
                 stranded, taken, bad, raced, unwritten>>

NotStarted(c) ==
  /\ AtStart(c, "refused")
  /\ \/ row' = [row EXCEPT !.running = FALSE] /\ events' = events
     \/ row' = row /\ Event
  /\ EndStart(c)
  /\ UNCHANGED <<today, hour, settings, on, up, busy, live, run, stranded,
                 taken, bad, raced, unreported, unwritten>>

-----------------------------------------------------------------------------
(* execute.                                                                  *)
AtRun(j, pc) == run[j].pc = pc
Working(j)   == run[j].pc \in {"pull", "post"}

(* Every credential is pulled, or one fails and the policy is to post from   *)
(* what the backup has.                                                      *)
Pull(j) ==
  /\ AtRun(j, "pull")
  /\ run' = [run EXCEPT ![j].pc = "post"]
  /\ UNCHANGED <<today, hour, settings, on, row, up, busy, start, live,
                 stranded, taken, bad, raced, unreported, events, unwritten>>

(* The next day of the window; something in it may fail without a throw, as  *)
(* the status will say at the end.                                           *)
PostDay(j) ==
  /\ AtRun(j, "post") /\ run[j].next <= run[j].last
  /\ taken' = IF run[j].auto THEN taken \cup {run[j].next} ELSE taken
  /\ run' = [run EXCEPT ![j].next = @ + 1]
  /\ UNCHANGED <<today, hour, settings, on, row, up, busy, start, live,
                 stranded, bad, raced, unreported, events, unwritten>>

(* The run ends: the region is free, and a run of startAutomatic reports.    *)
Over(j) ==
  /\ busy' = [busy EXCEPT ![run[j].by[1]] = FALSE]
  /\ run' = [run EXCEPT ![j] =
       IF @.auto THEN [NoRun EXCEPT !.pc = "report", !.by = run[j].by] ELSE NoRun]

(* Mutant: a run that gets through tells nobody.                             *)
FinishSilent(j) ==
  /\ AtRun(j, "post") /\ run[j].next > run[j].last
  /\ live' = [live EXCEPT ![j] = FALSE]
  /\ busy' = [busy EXCEPT ![run[j].by[1]] = FALSE]
  /\ run' = [run EXCEPT ![j] = NoRun]
  /\ UNCHANGED <<today, hour, settings, on, row, up, start, stranded, taken,
                 bad, raced, unreported, events, unwritten>>

Finish(j) ==
  /\ AtRun(j, "post") /\ run[j].next > run[j].last
  /\ live' = [live EXCEPT ![j] = FALSE]
  /\ Over(j)
  /\ UNCHANGED <<today, hour, settings, on, row, up, start, stranded, taken,
                 bad, raced, unreported, events, unwritten>>

(* Mutant: the row of a run that is aborted is left as it was.               *)
AbortUnmarked(j) ==
  /\ Working(j)
  /\ Event
  /\ bad' = IF ByTick(run[j].by) THEN bad \cup {run[j].day} ELSE bad
  /\ live' = live /\ unreported' = unreported
  /\ Over(j)
  /\ UNCHANGED <<today, hour, settings, on, row, up, start, stranded, taken,
                 raced, unwritten>>

(* The pull fails and the policy is to stop, or something throws: FAILED, if *)
(* the row can be written.                                                   *)
Abort(j) ==
  /\ Working(j)
  /\ Event
  /\ bad' = IF ByTick(run[j].by) THEN bad \cup {run[j].day} ELSE bad
  /\ \/ live' = [live EXCEPT ![j] = FALSE] /\ UNCHANGED <<unreported, unwritten>>
     \/ live' = live /\ unreported' = TRUE /\ unwritten' = unwritten \cup {j}
  /\ Over(j)
  /\ UNCHANGED <<today, hour, settings, on, row, up, start, stranded, taken,
                 raced>>

(* recordFinished: the row is read, and left alone when it is about another  *)
(* job.                                                                      *)
ReadBack(j) ==
  /\ AtRun(j, "report")
  /\ run' = [run EXCEPT ![j] =
       IF row.job \notin {NoJob, j} THEN NoRun
       ELSE [@ EXCEPT !.pc = "record"]]
  /\ unreported' = (unreported \/ \E c \in Caller : start[c].job = j)
  /\ UNCHANGED <<today, hour, settings, on, row, up, busy, start, live,
                 stranded, taken, bad, raced, events, unwritten>>

Record(j) ==
  /\ AtRun(j, "record")
  /\ row' = [row EXCEPT !.running = FALSE]
  /\ run' = [run EXCEPT ![j] = NoRun]
  /\ UNCHANGED <<today, hour, settings, on, up, busy, start, live, stranded,
                 taken, bad, raced, unreported, events, unwritten>>

(* A read or the write fails: the run is over, and nobody is told.           *)
RecordLost(j) ==
  /\ AtRun(j, "report") \/ AtRun(j, "record")
  /\ Event
  /\ run' = [run EXCEPT ![j] = NoRun]
  /\ unreported' = TRUE
  /\ UNCHANGED <<today, hour, settings, on, row, up, busy, start, live,
                 stranded, taken, bad, raced, unwritten>>

-----------------------------------------------------------------------------
(* Processes and the clock.                                                  *)

(* A process dies, and everything it was doing with it.                      *)
Crash(p) ==
  /\ up[p]
  /\ Event
  /\ up' = [up EXCEPT ![p] = FALSE]
  /\ busy' = [busy EXCEPT ![p] = FALSE]
  /\ bad' = bad \cup {run[j].day : j \in {i \in Job : Working(i) /\ run[i].by = <<p, "tick">>}}
                \cup {start[c].day : c \in {d \in Caller :
                        d = <<p, "tick">> /\ start[d].pc \in {"ready", "save"}}}
  /\ unreported' = TRUE
  /\ start' = [c \in Caller |-> IF c[1] = p THEN NoStart ELSE start[c]]
  /\ run' = [j \in Job |-> IF run[j].by[1] = p THEN NoRun ELSE run[j]]
  /\ stranded' = [stranded EXCEPT ![p] = {}]
  /\ UNCHANGED <<today, hour, settings, on, row, live, taken, raced, unwritten>>

(* onApplicationBootstrap lists the rows that are still live, and marks them *)
(* FAILED one by one; no failure of either keeps the process from coming up. *)
Restart(p) ==
  LET found == {j \in Job : live[j]}
  IN /\ ~up[p]
     /\ up' = [up EXCEPT ![p] = TRUE]
     /\ \/ /\ stranded' = [stranded EXCEPT ![p] = found]
           /\ UNCHANGED <<unwritten, events>>
        \/ Event /\ stranded' = stranded /\ unwritten' = unwritten \cup found
     /\ UNCHANGED <<today, hour, settings, on, row, busy, start, live, run,
                    taken, bad, raced, unreported>>

MarkStranded(p, j) ==
  /\ j \in stranded[p]
  /\ stranded' = [stranded EXCEPT ![p] = @ \ {j}]
  /\ \/ live' = [live EXCEPT ![j] = FALSE] /\ UNCHANGED <<unwritten, events>>
     \/ Event /\ live' = live /\ unwritten' = unwritten \cup {j}
  /\ UNCHANGED <<today, hour, settings, on, row, up, busy, start, run, taken,
                 bad, raced, unreported>>

NextHour ==
  /\ hour = 0
  /\ hour' = 1
  /\ UNCHANGED <<today, settings, on, row, up, busy, start, live, run,
                 stranded, taken, bad, raced, unreported, events, unwritten>>

(* A scheduled run that is still at work at midnight has not got through on  *)
(* its day; a day without a tick that fires it has no run at all.            *)
Ticking(p) == start[<<p, "tick">>].pc # "none"
AtWork     == {run[j].day : j \in {i \in Job : Working(i) /\ ByTick(run[i].by)}}

NextDay ==
  /\ today < MaxDay /\ hour = 1
  /\ \A p \in Proc : ~Ticking(p)
  /\ row.fired = today \/ ~on \/ \A p \in Proc : ~up[p]
  /\ today' = today + 1 /\ hour' = 0
  /\ bad' = bad \cup AtWork \cup (IF row.fired = today THEN {} ELSE {today})
  /\ UNCHANGED <<settings, on, row, up, busy, start, live, run, stranded,
                 taken, raced, unreported, events, unwritten>>

-----------------------------------------------------------------------------
Starting(c) ==
  \/ Check(c) \/ TurnAway(c) \/ (\E j \in Job : Launch(c, j))
  \/ Started(c) \/ StartedLost(c) \/ NotStarted(c)

Execute(j) ==
  \/ Pull(j) \/ PostDay(j) \/ Finish(j) \/ Abort(j)
  \/ ReadBack(j) \/ Record(j) \/ RecordLost(j)

Next ==
  \/ NextHour \/ NextDay \/ Toggle
  \/ \E p \in Proc : \/ Tick(p) \/ Stamp(p) \/ RunNow(p, TRUE) \/ RunNow(p, FALSE)
                     \/ Crash(p) \/ Restart(p)
                     \/ \E j \in Job : MarkStranded(p, j)
  \/ \E c \in Caller : Starting(c)
  \/ \E j \in Job : Execute(j)

Spec == Init /\ [][Next]_vars

-----------------------------------------------------------------------------
Starter == [pc : {"none", "due", "ready", "save", "started", "refused"},
            day : LocalDay, last : LastDay, auto : BOOLEAN, job : Job \cup {NoJob}]
Runner  == [pc : {"none", "pull", "post", "report", "record"},
            by : Caller \cup {<<"none", "none">>}, day : LocalDay,
            next : Day, last : LastDay, auto : BOOLEAN]
Report  == [fired : LocalDay \cup {0}, job : Job \cup {NoJob}, running : BOOLEAN]

(* The types of the state; no run reaches past the days a window may hold.   *)
TypeOK ==
  /\ today \in LocalDay /\ hour \in Hours /\ on \in BOOLEAN
  /\ settings \in [runTime : Hours, cutoff : Hours] /\ row \in Report
  /\ up \in [Proc -> BOOLEAN] /\ busy \in [Proc -> BOOLEAN]
  /\ start \in [Caller -> Starter] /\ run \in [Job -> Runner]
  /\ live \in [Job -> BOOLEAN] /\ stranded \in [Proc -> SUBSET Job]
  /\ taken \subseteq Day /\ bad \subseteq LocalDay /\ unwritten \subseteq Job
  /\ raced \in BOOLEAN /\ unreported \in BOOLEAN /\ events \in 0 .. MaxEvents

(* "The SAME region must never race itself" (integration-run.service.ts:92): *)
(* a process has one run of the region at work, whoever starts it and        *)
(* however runs end, unless two starts met between the look-up of the        *)
(* region and its registration, with the saving of the row in between.       *)
OneRun ==
  raced \/ \A i, j \in Job :
             Working(i) /\ Working(j) /\ run[i].by[1] = run[j].by[1] => i = j

(* A closed business day is posted on the first good day of those that look  *)
(* back to it: processes may die and come back, the switch may be off, runs  *)
(* fail or be refused on the other days, and the cut-off may come before or  *)
(* after the run time ("a server that was down at exactly runTime still runs *)
(* on recovery instead of skipping the day",                                 *)
(* integration-scheduler.service.ts:17-19).                                  *)
LooksBackTo(d) ==
  (IF settings.runTime >= settings.cutoff THEN d + 1 ELSE d + 2) .. d + Lookback
CaughtUp ==
  \A d \in Day \ taken : \A t \in LooksBackTo(d) : 1 <= t /\ t < today => t \in bad

(* A schedule does not say RUNNING when nothing runs, unless a process died, *)
(* a write was lost or the run was over before its start was written down:   *)
(* "every run records its job, window, status and summary"                   *)
(* (integration-scheduler.service.ts:22).                                    *)
Quiet == (\A c \in Caller : start[c] = NoStart) /\ (\A j \in Job : run[j].pc = "none")
Reported == Quiet /\ row.running => unreported

(* No row is live for ever ("the dashboard polls it forever showing stuck",  *)
(* integration-run.service.ts:111-112): somebody works on the job, or a      *)
(* process that is down will find the row when it comes up, or has found it, *)
(* unless the job's last write was lost.                                     *)
NoOrphan ==
  \A j \in Job : live[j] =>
    \/ Working(j) \/ j \in unwritten
    \/ \E p \in Proc : ~up[p] \/ j \in stranded[p]
==============================================================================

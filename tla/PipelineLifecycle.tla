-------------------------- MODULE PipelineLifecycle --------------------------
(***************************************************************************)
(* The life of the runs of one `kind: pipeline` job, from the cron         *)
(* occurrence or request that starts one to the terminal record that       *)
(* closes it.  Three processes share the history file, the run's           *)
(* state.json and its terminal report:                                     *)
(*                                                                         *)
(*   - the tick (tick.py), a timer unit that holds the tick lock: it       *)
(*     reconciles the open run, or decides whether an occurrence is due    *)
(*     and launches it (`herdr-routines run` takes the same lock);         *)
(*   - the watchdog (pipeline_watchdog.py), a timer unit that takes no     *)
(*     lock: it resumes or reaps the runs that died without a report;      *)
(*   - one systemd unit per run: pipeline-launch.sh, pipeline-prepare and  *)
(*     pipeline-run, which write state.json and the report.                *)
(*                                                                         *)
(* Time is abstract.  age[r] places the clock against run r's recorded     *)
(* deadline: 0 until the watchdog's 30 min grace is over, 1 after it, 2    *)
(* once tick's own backstop (deadline + 1 h + 5 min) is over too.          *)
(***************************************************************************)
EXTENDS Naturals, FiniteSets

CONSTANTS
  Runs,        \* the run ids the job can use, one per occurrence or request
  NoRun,       \* stands for "no run"
  MaxResumes,  \* MAX_PIPELINE_RESUMES: automatic resumes of one run
  ResumeBound, \* bound: resumes of one run once state.json cannot be written
  Faults       \* what may go wrong, a subset of FaultKinds

(* The failures the code meets.  "late": the watchdog timer does not get   *)
(* to a dead run before tick's backstop, or the tick reached the job so    *)
(* late that the unit outlives the watchdog's grace.  The others name the  *)
(* step that fails.                                                        *)
FaultKinds ==
  {"reboot", "late", "tickCrash", "wdCrash", "launch", "launchTimeout",
   "sync", "stateWrite", "reportWrite", "query", "agentLive"}

(* The faults after which tick and watchdog may disagree about a run: they *)
(* separate a unit from its record, or the clock from the timers.          *)
Disruptive == {"reboot", "late", "tickCrash", "launchTimeout"}

ASSUME PipelineAssumption ==
  /\ NoRun \notin Runs
  /\ MaxResumes \in Nat
  /\ ResumeBound \in Nat
  /\ Faults \subseteq FaultKinds

VARIABLES
  (* the history file *)
  latest,     \* run_id of the job's latest `running` record
  recorded,   \* runs with a `running` record
  resumedRec, \* runs whose latest `running` record is the watchdog's
  verdict,    \* the terminal record of each run
  unrun,      \* occurrences recorded as missed or skipped, without a run_id
  due,        \* the cron occurrence no scheduled terminal record covers yet
  trigger,    \* what a run id was created for
  (* the worktree and the reports directory *)
  hasState,   \* runs whose worktree holds a state.json
  resumeCount,\* its resume_count
  rebooted,   \* runs whose state.json is older than the host's boot
  report,     \* the outcome of the terminal report
  (* systemd and the clock *)
  unit,       \* the run's transient unit
  resumes,    \* resume units registered, counted for ResumesAreCapped
  age,        \* the clock against the recorded deadline
  quiet,      \* runs with no heartbeat line in the last 20 min
  (* the two processes *)
  tickPc, tickRun, tickVerdict,
  wdPc, wdRun, wdTodo

historyVars == <<latest, recorded, resumedRec, verdict, unrun, due, trigger>>
fileVars == <<hasState, resumeCount, rebooted, report>>
unitVars == <<unit, resumes, age, quiet>>
tickVars == <<tickPc, tickRun, tickVerdict>>
wdVars == <<wdPc, wdRun, wdTodo>>
vars == <<historyVars, fileVars, unitVars, tickVars, wdVars>>

Outcomes == {"none", "ok", "skipped", "failed"}
Verdicts == {"none", "done", "skipped", "failed"}
UnitPhases == {"off", "preparing", "running", "exiting"}
TickPcs == {"idle", "reconcile", "judge", "close", "decide", "launch", "record"}
WdPcs == {"idle", "scan", "append", "rewrite", "launch", "reap"}

TypeOK ==
  /\ latest \in Runs \cup {NoRun}
  /\ recorded \in SUBSET Runs
  /\ resumedRec \in SUBSET Runs
  /\ verdict \in [Runs -> Verdicts]
  /\ unrun \in SUBSET Runs
  /\ due \in Runs \cup {NoRun}
  /\ trigger \in [Runs -> {"none", "cron", "request"}]
  /\ hasState \in SUBSET Runs
  /\ resumeCount \in [Runs -> Nat]
  /\ rebooted \in SUBSET Runs
  /\ report \in [Runs -> Outcomes]
  /\ unit \in [Runs -> UnitPhases]
  /\ resumes \in [Runs -> Nat]
  /\ age \in [Runs -> 0..2]
  /\ quiet \in SUBSET Runs
  /\ tickPc \in TickPcs
  /\ tickRun \in Runs \cup {NoRun}
  /\ tickVerdict \in Verdicts
  /\ (tickPc \in {"reconcile", "judge", "close", "launch", "record"} => tickRun \in Runs)
  /\ (tickPc = "close" => tickVerdict # "none")
  /\ wdPc \in WdPcs
  /\ wdRun \in Runs \cup {NoRun}
  /\ (wdPc \in {"append", "rewrite", "launch", "reap"} => wdRun \in Runs)
  /\ wdTodo \in SUBSET Runs

Init ==
  /\ latest = NoRun
  /\ recorded = {}
  /\ resumedRec = {}
  /\ verdict = [r \in Runs |-> "none"]
  /\ unrun = {}
  /\ due = NoRun
  /\ trigger = [r \in Runs |-> "none"]
  /\ hasState = {}
  /\ resumeCount = [r \in Runs |-> 0]
  /\ rebooted = {}
  /\ report = [r \in Runs |-> "none"]
  /\ unit = [r \in Runs |-> "off"]
  /\ resumes = [r \in Runs |-> 0]
  /\ age = [r \in Runs |-> 0]
  /\ quiet = Runs
  /\ tickPc = "idle" /\ tickRun = NoRun /\ tickVerdict = "none"
  /\ wdPc = "idle" /\ wdRun = NoRun /\ wdTodo = {}

-----------------------------------------------------------------------------
(* What the two processes read.                                            *)

(* The run of the latest `running` record, unless it has a terminal        *)
(* record: tick looks at no other run.                                     *)
OpenRun == IF latest \in Runs /\ verdict[latest] = "none" THEN latest ELSE NoRun

(* state.json and no report yet. *)
InFlight == {r \in hasState : report[r] = "none"}

(* The host rebooted since the last state write, or the deadline and its   *)
(* grace are over and the heartbeat is quiet.                              *)
IsStalled(r) == r \in rebooted \/ (age[r] >= 1 /\ r \in quiet)

(* Mutants of BackstopIsOver: no margin over the watchdog's grace; only    *)
(* runs that got as far as a state.json.                                   *)
BackstopIsOver_Early == \E r \in Runs : OpenRun = r /\ age[r] >= 1
BackstopIsOver_WithState == \E r \in hasState : OpenRun = r /\ age[r] = 2

(* find_stale_running: the latest run is open and past tick's backstop.    *)
BackstopIsOver == \E r \in Runs : OpenRun = r /\ age[r] = 2

UnitActive(r) == unit[r] # "off"

(* The overlap guard: some run in flight that is not provably dead.        *)
RunIsLive == \E r \in InFlight : ~IsStalled(r) \/ UnitActive(r)

(* Whether a terminal record appended now for run r counts as a scheduled  *)
(* one: the latest `running` record of the run carries no off-schedule     *)
(* trigger.                                                                *)
CountsAsScheduled(r) == trigger[r] = "cron" \/ r \in resumedRec

(* The verdict tick may reach on a report; an `ok` one is downgraded when  *)
(* the run's stage sessions do not verify.                                 *)
Classify(outcome) ==
  CASE outcome = "ok" -> {"done", "failed"}
    [] outcome = "skipped" -> {"skipped"}
    [] outcome = "failed" -> {"failed"}
    [] OTHER -> {}

(* systemd's RuntimeMaxSec (deadline + 10 min) ends a unit before the      *)
(* watchdog's grace does, and the watchdog's timer (15 min) comes round    *)
(* before tick's backstop: only a "late" host breaks either.               *)
OnTime(r) ==
  \/ "late" \in Faults
  \/ age[r] = 0 /\ unit[r] = "off"
  \/ age[r] = 1 /\ r \notin InFlight

-----------------------------------------------------------------------------
(* What starts a run.                                                      *)

Fresh(r) == trigger[r] = "none"

(* A cron occurrence falls due; at most one is outstanding (bound).        *)
CronFires(r) ==
  /\ due = NoRun
  /\ Fresh(r)
  /\ due' = r
  /\ trigger' = [trigger EXCEPT ![r] = "cron"]
  /\ UNCHANGED <<latest, recorded, resumedRec, verdict, unrun>>
  /\ UNCHANGED <<fileVars, unitVars, tickVars, wdVars>>

(* Mutant of Request: an open run is not asked about.                      *)
Request_Unguarded(r) ==
  /\ tickPc = "idle"
  /\ Fresh(r)
  /\ trigger' = [trigger EXCEPT ![r] = "request"]
  /\ tickPc' = "launch"
  /\ tickRun' = r
  /\ UNCHANGED <<latest, recorded, resumedRec, verdict, unrun, due>>
  /\ UNCHANGED <<tickVerdict, fileVars, unitVars, wdVars>>

(* `herdr-routines run` or a `/job` message, once it has the tick lock: it *)
(* skips the schedule and the live checks and refuses only an open run.    *)
Request(r) ==
  /\ tickPc = "idle"
  /\ Fresh(r)
  /\ OpenRun = NoRun
  /\ trigger' = [trigger EXCEPT ![r] = "request"]
  /\ tickPc' = "launch"
  /\ tickRun' = r
  /\ UNCHANGED <<latest, recorded, resumedRec, verdict, unrun, due>>
  /\ UNCHANGED <<tickVerdict, fileVars, unitVars, wdVars>>

-----------------------------------------------------------------------------
(* The tick.                                                               *)

(* The tick is over: the lock is released. *)
TickRests == tickPc' = "idle" /\ tickRun' = NoRun /\ tickVerdict' = "none"

(* Takes the lock and looks for an open run in the history. *)
TickStarts ==
  /\ tickPc = "idle"
  /\ IF OpenRun # NoRun
     THEN tickPc' = "reconcile" /\ tickRun' = OpenRun
     ELSE tickPc' = "decide" /\ tickRun' = NoRun
  /\ tickVerdict' = "none"
  /\ UNCHANGED <<historyVars, fileVars, unitVars, wdVars>>

(* A live run is left alone.  A live rt-<job> agent counts as one; so does *)
(* a stalled run whose unit cannot be queried, and a failed enumeration    *)
(* counts as none.                                                         *)
TickChecksLive ==
  /\ tickPc = "reconcile"
  /\ \/ TickRests /\ (RunIsLive \/ "agentLive" \in Faults)
     \/ TickRests /\ InFlight # {} /\ "query" \in Faults
     \/ /\ ~RunIsLive \/ "query" \in Faults
        /\ tickPc' = "judge"
        /\ UNCHANGED <<tickRun, tickVerdict>>
  /\ UNCHANGED <<historyVars, fileVars, unitVars, wdVars>>

(* The report first; without one, only a reboot or the backstop may close  *)
(* the run.                                                                *)
TickJudges ==
  /\ tickPc = "judge"
  /\ \/ \E v \in Classify(report[tickRun]) :
          tickPc' = "close" /\ tickVerdict' = v /\ UNCHANGED tickRun
     \/ /\ report[tickRun] = "none"
        /\ tickRun \in rebooted \/ BackstopIsOver
        /\ tickPc' = "close" /\ tickVerdict' = "failed" /\ UNCHANGED tickRun
     \/ /\ report[tickRun] = "none"
        /\ tickRun \notin rebooted /\ ~BackstopIsOver
        /\ TickRests
  /\ UNCHANGED <<historyVars, fileVars, unitVars, wdVars>>

(* Appends the terminal record, which makes the cron clock start over      *)
(* unless the run is off-schedule.                                         *)
TickCloses ==
  /\ tickPc = "close"
  /\ verdict' = [verdict EXCEPT ![tickRun] = tickVerdict]
  /\ due' = IF CountsAsScheduled(tickRun) THEN NoRun ELSE due
  /\ TickRests
  /\ UNCHANGED <<latest, recorded, resumedRec, unrun, trigger>>
  /\ UNCHANGED <<fileVars, unitVars, wdVars>>

(* Mutant of TickDecides: forgets to record what it missed.                *)
TickDecides_Forgets ==
  /\ tickPc = "decide"
  /\ due' = NoRun
  /\ TickRests
  /\ UNCHANGED <<latest, recorded, resumedRec, verdict, unrun, trigger>>
  /\ UNCHANGED <<fileVars, unitVars, wdVars>>

(* No open run: the occurrence that is due is launched, or recorded as     *)
(* missed when the catch-up window is over, or as skipped when an agent    *)
(* with the job's name is live.                                            *)
TickDecides ==
  /\ tickPc = "decide"
  /\ \/ due = NoRun /\ TickRests /\ UNCHANGED <<due, unrun>>
     \/ /\ due # NoRun
        /\ tickPc' = "launch" /\ tickRun' = due
        /\ UNCHANGED <<tickVerdict, due, unrun>>
     \/ /\ due # NoRun
        /\ unrun' = unrun \cup {due} /\ due' = NoRun
        /\ TickRests
  /\ UNCHANGED <<latest, recorded, resumedRec, verdict, trigger>>
  /\ UNCHANGED <<fileVars, unitVars, wdVars>>

(* An agent named rt-<job> is live: a `skipped` record with no run_id and  *)
(* no trigger, which counts as scheduled.                                  *)
TickFindsAgent ==
  /\ "agentLive" \in Faults
  /\ tickPc = "decide"
  /\ unrun' = IF due = NoRun THEN unrun ELSE unrun \cup {due}
  /\ due' = NoRun
  /\ TickRests
  /\ UNCHANGED <<latest, recorded, resumedRec, verdict, trigger>>
  /\ UNCHANGED <<fileVars, unitVars, wdVars>>

(* A `failed` record of a launch that did not happen, as far as tick knows *)
(* (repo_sync_failed, launch_failed); it carries the launch's own trigger. *)
TickRecordsFailure ==
  /\ verdict' = [verdict EXCEPT ![tickRun] = "failed"]
  /\ due' = IF trigger[tickRun] = "cron" THEN NoRun ELSE due
  /\ TickRests
  /\ UNCHANGED <<latest, recorded, resumedRec, unrun, trigger>>

(* systemd registers the unit: launch first, record second. *)
TickLaunches ==
  /\ tickPc = "launch"
  /\ unit[tickRun] = "off"
  /\ unit' = [unit EXCEPT ![tickRun] = "preparing"]
  /\ age' = [age EXCEPT ![tickRun] = 0]
  /\ tickPc' = "record"
  /\ UNCHANGED <<resumes, quiet, tickRun, tickVerdict>>
  /\ UNCHANGED <<historyVars, fileVars, wdVars>>

(* The clone does not sync, or systemd-run fails; a unit of the same name  *)
(* that is still registered makes it fail.                                 *)
TickCannotLaunch ==
  /\ tickPc = "launch"
  /\ unit[tickRun] # "off" \/ {"sync", "launch"} \cap Faults # {}
  /\ TickRecordsFailure
  /\ UNCHANGED <<fileVars, unitVars, wdVars>>

(* systemd-run outlives its 30 s timeout: the unit is registered and tick  *)
(* records a failed launch.                                                *)
TickLaunchTimesOut ==
  /\ "launchTimeout" \in Faults
  /\ tickPc = "launch"
  /\ unit[tickRun] = "off"
  /\ unit' = [unit EXCEPT ![tickRun] = "preparing"]
  /\ age' = [age EXCEPT ![tickRun] = 0]
  /\ TickRecordsFailure
  /\ UNCHANGED <<resumes, quiet, fileVars, wdVars>>

(* Appends the `running` record. *)
TickRecords ==
  /\ tickPc = "record"
  /\ latest' = tickRun
  /\ recorded' = recorded \cup {tickRun}
  /\ resumedRec' = resumedRec \ {tickRun}
  /\ TickRests
  /\ UNCHANGED <<verdict, unrun, due, trigger>>
  /\ UNCHANGED <<fileVars, unitVars, wdVars>>

(* The tick process dies; the lock goes with it. *)
TickCrashes ==
  /\ "tickCrash" \in Faults
  /\ tickPc # "idle"
  /\ TickRests
  /\ UNCHANGED <<historyVars, fileVars, unitVars, wdVars>>

-----------------------------------------------------------------------------
(* The watchdog.                                                           *)

(* Back to the rest of the sweep. *)
WdMovesOn == wdPc' = "scan" /\ wdRun' = NoRun /\ UNCHANGED wdTodo

(* Mutant of WdStarts: reports are not looked for.                         *)
WdStarts_Reported ==
  /\ wdPc = "idle"
  /\ hasState # {}
  /\ wdPc' = "scan"
  /\ wdTodo' = hasState
  /\ UNCHANGED <<wdRun, historyVars, fileVars, unitVars, tickVars>>

(* A sweep lists the runs in flight once, up front. *)
WdStarts ==
  /\ wdPc = "idle"
  /\ InFlight # {}
  /\ wdPc' = "scan"
  /\ wdTodo' = InFlight
  /\ UNCHANGED <<wdRun, historyVars, fileVars, unitVars, tickVars>>

(* Healthy, or stalled with a live unit, or systemd could not be asked. *)
WdSpares(r) ==
  /\ wdPc = "scan"
  /\ r \in wdTodo
  /\ ~IsStalled(r) \/ UnitActive(r) \/ "query" \in Faults
  /\ wdTodo' = wdTodo \ {r}
  /\ UNCHANGED <<wdPc, wdRun, historyVars, fileVars, unitVars, tickVars>>

(* Mutant of Resumable: one resume too many.                               *)
Resumable_OffByOne(r) == resumeCount[r] <= MaxResumes /\ r \in recorded

(* What _resume_plan asks of a run, as far as a run launched by this       *)
(* version can differ.                                                     *)
Resumable(r) == resumeCount[r] < MaxResumes /\ r \in recorded

(* A stalled run with no unit is resumed if it may be, and reaped if not.  *)
WdPicks(r) ==
  /\ wdPc = "scan"
  /\ r \in wdTodo
  /\ IsStalled(r)
  /\ ~UnitActive(r)
  /\ wdPc' = IF Resumable(r) THEN "append" ELSE "reap"
  /\ wdRun' = r
  /\ wdTodo' = wdTodo \ {r}
  /\ UNCHANGED <<historyVars, fileVars, unitVars, tickVars>>

(* Mutant of WdAppends: state.json is not rewritten.                       *)
WdAppends_NoRewrite ==
  /\ wdPc = "append"
  /\ latest' = wdRun
  /\ recorded' = recorded \cup {wdRun}
  /\ resumedRec' = resumedRec \cup {wdRun}
  /\ age' = [age EXCEPT ![wdRun] = 0]
  /\ wdPc' = "launch"
  /\ UNCHANGED <<verdict, unrun, due, trigger, unit, resumes, quiet>>
  /\ UNCHANGED <<wdRun, wdTodo, fileVars, tickVars>>

(* The resume's `running` record, with a new deadline and no trigger. *)
WdAppends ==
  /\ wdPc = "append"
  /\ latest' = wdRun
  /\ recorded' = recorded \cup {wdRun}
  /\ resumedRec' = resumedRec \cup {wdRun}
  /\ age' = [age EXCEPT ![wdRun] = 0]
  /\ wdPc' = "rewrite"
  /\ UNCHANGED <<verdict, unrun, due, trigger, unit, resumes, quiet>>
  /\ UNCHANGED <<wdRun, wdTodo, fileVars, tickVars>>

(* state.json with resume_count + 1; a failed write is only logged. *)
WdRewrites ==
  /\ wdPc = "rewrite"
  /\ \/ /\ resumeCount' = [resumeCount EXCEPT ![wdRun] = @ + 1]
        /\ rebooted' = rebooted \ {wdRun}
     \/ /\ "stateWrite" \in Faults
        /\ resumes[wdRun] < ResumeBound
        /\ UNCHANGED <<resumeCount, rebooted>>
  /\ wdPc' = "launch"
  /\ UNCHANGED <<hasState, report, wdRun, wdTodo>>
  /\ UNCHANGED <<historyVars, unitVars, tickVars>>

(* Registers the resume unit, under a name of its own. *)
WdLaunches ==
  /\ wdPc = "launch"
  /\ unit' = [unit EXCEPT ![wdRun] = "running"]
  /\ resumes' = [resumes EXCEPT ![wdRun] = @ + 1]
  /\ WdMovesOn
  /\ UNCHANGED <<age, quiet, historyVars, fileVars, tickVars>>

(* Registering it fails, or only seems to: either way the report says so.  *)
WdCannotLaunch ==
  /\ wdPc = "launch"
  /\ \/ "launch" \in Faults /\ UNCHANGED <<unit, resumes>>
     \/ /\ "launchTimeout" \in Faults
        /\ unit' = [unit EXCEPT ![wdRun] = "running"]
        /\ resumes' = [resumes EXCEPT ![wdRun] = @ + 1]
  /\ report' = [report EXCEPT ![wdRun] = "failed"]
  /\ WdMovesOn
  /\ UNCHANGED <<hasState, resumeCount, rebooted, age, quiet>>
  /\ UNCHANGED <<historyVars, tickVars>>

(* Mutant of WdReaps: kills without a report.                              *)
WdReaps_Silently ==
  /\ wdPc = "reap"
  /\ WdMovesOn
  /\ UNCHANGED <<fileVars, historyVars, unitVars, tickVars>>

(* Kill and report: the run will not be looked at again. *)
WdReaps ==
  /\ wdPc = "reap"
  /\ report' = [report EXCEPT ![wdRun] = "failed"]
  /\ WdMovesOn
  /\ UNCHANGED <<hasState, resumeCount, rebooted>>
  /\ UNCHANGED <<historyVars, unitVars, tickVars>>

WdEnds ==
  /\ wdPc = "scan"
  /\ wdTodo = {}
  /\ wdPc' = "idle"
  /\ UNCHANGED <<wdRun, wdTodo, historyVars, fileVars, unitVars, tickVars>>

WdCrashes ==
  /\ "wdCrash" \in Faults
  /\ wdPc # "idle"
  /\ wdPc' = "idle" /\ wdRun' = NoRun /\ wdTodo' = {}
  /\ UNCHANGED <<historyVars, fileVars, unitVars, tickVars>>

-----------------------------------------------------------------------------
(* A run's unit.                                                           *)

(* pipeline-prepare claims an issue, makes the worktree and writes the     *)
(* first state.json.  herdr makes no second worktree on the same branch.   *)
Prepares(r) ==
  /\ unit[r] = "preparing"
  /\ r \notin hasState
  /\ unit' = [unit EXCEPT ![r] = "running"]
  /\ hasState' = hasState \cup {r}
  /\ resumeCount' = [resumeCount EXCEPT ![r] = 0]
  /\ rebooted' = rebooted \ {r}
  /\ UNCHANGED <<report, resumes, age, quiet, historyVars, tickVars, wdVars>>

(* Nothing to build, or a failed step: prepare writes the report (best     *)
(* effort) and the launcher exits at once.                                 *)
PrepareEnds(r) ==
  /\ unit[r] = "preparing"
  /\ unit' = [unit EXCEPT ![r] = "off"]
  /\ \/ \E o \in {"skipped", "failed"} : report' = [report EXCEPT ![r] = o]
     \/ "reportWrite" \in Faults /\ UNCHANGED report
  /\ UNCHANGED <<hasState, resumeCount, rebooted, resumes, age, quiet>>
  /\ UNCHANGED <<historyVars, tickVars, wdVars>>

Beats(r) ==
  /\ unit[r] = "running"
  /\ r \in quiet
  /\ quiet' = quiet \ {r}
  /\ UNCHANGED <<unit, resumes, age, historyVars, fileVars, tickVars, wdVars>>

(* 20 min without a heartbeat line. *)
FallsQuiet(r) ==
  /\ r \notin quiet
  /\ quiet' = quiet \cup {r}
  /\ UNCHANGED <<unit, resumes, age, historyVars, fileVars, tickVars, wdVars>>

(* A stage commits state.json: it is newer than the boot again. *)
StageCommits(r) ==
  /\ unit[r] = "running"
  /\ r \in rebooted
  /\ rebooted' = rebooted \ {r}
  /\ UNCHANGED <<hasState, resumeCount, report>>
  /\ UNCHANGED <<historyVars, unitVars, tickVars, wdVars>>

(* pipeline-run returns: with its report, or killed or crashed without. *)
RunEnds(r) ==
  /\ unit[r] = "running"
  /\ unit' = [unit EXCEPT ![r] = "exiting"]
  /\ \/ \E o \in {"ok", "failed"} : report' = [report EXCEPT ![r] = o]
     \/ UNCHANGED report
  /\ UNCHANGED <<hasState, resumeCount, rebooted, resumes, age, quiet>>
  /\ UNCHANGED <<historyVars, tickVars, wdVars>>

(* Mutant of LauncherExits: the stub report, whatever is there.            *)
LauncherExits_Stub(r) ==
  /\ unit[r] = "exiting"
  /\ unit' = [unit EXCEPT ![r] = "off"]
  /\ report' = [report EXCEPT ![r] = "failed"]
  /\ UNCHANGED <<hasState, resumeCount, rebooted, resumes, age, quiet>>
  /\ UNCHANGED <<historyVars, tickVars, wdVars>>

(* The launcher's backstop: a stub report if there is none. *)
LauncherExits(r) ==
  /\ unit[r] = "exiting"
  /\ unit' = [unit EXCEPT ![r] = "off"]
  /\ report' = [report EXCEPT ![r] = IF @ = "none" THEN "failed" ELSE @]
  /\ UNCHANGED <<hasState, resumeCount, rebooted, resumes, age, quiet>>
  /\ UNCHANGED <<historyVars, tickVars, wdVars>>

(* RuntimeMaxSec or the OOM killer takes the whole unit, launcher too. *)
UnitKilled(r) ==
  /\ UnitActive(r)
  /\ unit' = [unit EXCEPT ![r] = "off"]
  /\ UNCHANGED <<resumes, age, quiet, historyVars, fileVars, tickVars, wdVars>>

-----------------------------------------------------------------------------
(* The host.                                                               *)

(* Time passes for a run something may still be waited for.  A run does    *)
(* not spend its deadline in prepare, and a sweep, over in seconds, judges *)
(* every run by the clock it read when it began.                           *)
Ages(r) ==
  /\ age[r] < 2
  /\ r \notin wdTodo
  /\ wdPc \in {"idle", "scan"} \/ wdRun # r
  /\ unit[r] # "preparing"
  /\ r \in InFlight \/ (r \in recorded /\ verdict[r] = "none")
  /\ OnTime(r)
  /\ age' = [age EXCEPT ![r] = @ + 1]
  /\ UNCHANGED <<unit, resumes, quiet, historyVars, fileVars, tickVars, wdVars>>

(* Every process dies and the heartbeats in /tmp are gone.  A state.json   *)
(* written within BOOT_SLOP_SECONDS of the boot does not show it.          *)
Reboots ==
  /\ "reboot" \in Faults
  /\ unit' = [r \in Runs |-> "off"]
  /\ \E seen \in SUBSET hasState : rebooted' = rebooted \cup seen
  /\ quiet' = Runs
  /\ TickRests
  /\ wdPc' = "idle" /\ wdRun' = NoRun /\ wdTodo' = {}
  /\ UNCHANGED <<historyVars, hasState, resumeCount, report, resumes, age>>

Tick ==
  \/ TickStarts \/ TickChecksLive \/ TickJudges \/ TickCloses \/ TickDecides
  \/ TickFindsAgent \/ TickLaunches \/ TickCannotLaunch \/ TickLaunchTimesOut
  \/ TickRecords

Watchdog ==
  \/ WdStarts \/ WdAppends \/ WdRewrites \/ WdLaunches \/ WdCannotLaunch
  \/ WdReaps \/ WdEnds
  \/ \E r \in Runs : WdSpares(r) \/ WdPicks(r)

Unit(r) ==
  \/ Prepares(r) \/ PrepareEnds(r) \/ Beats(r) \/ FallsQuiet(r)
  \/ StageCommits(r) \/ RunEnds(r) \/ LauncherExits(r) \/ UnitKilled(r)

Work ==
  \/ Tick
  \/ Watchdog
  \/ \E r \in Runs : CronFires(r) \/ Request(r) \/ Unit(r) \/ Ages(r)

Breakdown == TickCrashes \/ WdCrashes \/ Reboots

Next == Work \/ Breakdown

Spec == Init /\ [][Next]_vars

-----------------------------------------------------------------------------
(* Properties.                                                             *)

Working(r) == unit[r] \in {"preparing", "running"}

(* At most one pipeline run works at a time: no launch, on schedule or on  *)
(* request, and no resume lands on top of another live run.                *)
OneRunAtATime == \A r, q \in Runs : Working(r) /\ Working(q) => r = q

(* A unit at work is the history's open run (or is about to be recorded),  *)
(* so tick's guards see it and its outcome will be reconciled.             *)
WorkIsOpen ==
  \A r \in Runs : Working(r) => OpenRun = r \/ (tickPc = "record" /\ tickRun = r)

(* No open run is shadowed by a later `running` record: tick reconciles    *)
(* only the latest.                                                        *)
NoneShadowed == \A r \in recorded : verdict[r] = "none" => r = latest

(* "At most MAX_PIPELINE_RESUMES automatic resumes total"                  *)
(* (pipeline_watchdog.py:43) of one run.                                   *)
ResumesAreCapped == \A r \in Runs : resumes[r] <= MaxResumes

(* While the watchdog acts on what it read of a run, the run stays dead    *)
(* and unreported: no unit is resumed twice, no report overwritten.        *)
WatchdogTargetIsDead ==
  wdPc \in {"append", "rewrite", "launch", "reap"} =>
    unit[wdRun] = "off" /\ report[wdRun] = "none"

(* The terminal record agrees with the terminal report left on disk.       *)
VerdictMatchesReport ==
  \A r \in Runs :
    /\ verdict[r] = "done" => report[r] = "ok"
    /\ verdict[r] = "skipped" => report[r] = "skipped"

(* A terminal record is appended for r.                                    *)
AppendsVerdict(r) ==
  tickRun = r /\ (TickCloses \/ TickCannotLaunch \/ TickLaunchTimesOut)

(* A run gets at most one terminal record, whatever crashes: one is        *)
(* appended, even with the same outcome, only for a run that has none.     *)
OneVerdictEach ==
  [][\A r \in Runs : AppendsVerdict(r) \/ verdict'[r] # verdict[r] => verdict[r] = "none"]_vars

(* A run that did not come from the schedule "never consumes the next cron *)
(* occurrence" (history.py:381): what closes one leaves the occurrence     *)
(* that is due alone.                                                      *)
RequestsConsumeNothing ==
  [][TickCloses /\ due # NoRun /\ due' = NoRun => trigger[tickRun] = "cron"]_vars

(* A closed run is never reopened: no `running` record follows a terminal  *)
(* record of the same run.                                                 *)
ClosedIsFinal ==
  [][\A r \in Runs : verdict[r] # "none" /\ r \in resumedRec' => r \in resumedRec]_vars

(* The watchdog never resumes a run that has its report.                   *)
ReportedIsNotResumed ==
  [][\A r \in Runs : resumes'[r] # resumes[r] => report[r] = "none"]_vars

Records ==
  INSTANCE RunRecords WITH open <- OpenRun, closed <- verdict, lives <- resumes

(* However ticks and sweeps interleave or die, the history reads as that   *)
(* of a job with one run at a time: no run is opened on top of another,    *)
(* reopened, closed twice, or resumed when it is not the open one.         *)
KeepsRecords == Records!RecordsSpec
=============================================================================

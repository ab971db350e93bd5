---------------------- MODULE PipelineLifecycle_proofs ----------------------
(***************************************************************************)
(* Theorems of PipelineLifecycle, for any number of runs, any cap and any  *)
(* faults.                                                                 *)
(***************************************************************************)
EXTENDS PipelineLifecycle, TLAPS

(* Types.                                                                  *)

LEMMA TickKeepsTypes == ASSUME TypeOK, Tick PROVE TypeOK'
<1> USE PipelineAssumption DEF TypeOK, Outcomes, Verdicts, UnitPhases, TickPcs, WdPcs,
      historyVars, fileVars, unitVars, tickVars, wdVars
<1>1. CASE TickStarts
  BY <1>1 DEF TickStarts, OpenRun
<1>2. CASE TickChecksLive
  BY <1>2 DEF TickChecksLive, TickRests
<1>3. CASE TickJudges
  BY <1>3 DEF TickJudges, TickRests, Classify
<1>4. CASE TickCloses
  BY <1>4 DEF TickCloses, TickRests
<1>5. CASE TickDecides
  BY <1>5 DEF TickDecides, TickRests
<1>6. CASE TickFindsAgent
  BY <1>6 DEF TickFindsAgent, TickRests
<1>7. CASE TickLaunches
  BY <1>7 DEF TickLaunches
<1>8. CASE TickCannotLaunch
  BY <1>8 DEF TickCannotLaunch, TickRecordsFailure, TickRests
<1>9. CASE TickLaunchTimesOut
  BY <1>9 DEF TickLaunchTimesOut, TickRecordsFailure, TickRests
<1>10. CASE TickRecords
  BY <1>10 DEF TickRecords, TickRests
<1> QED
  BY <1>1, <1>2, <1>3, <1>4, <1>5, <1>6, <1>7, <1>8, <1>9, <1>10 DEF Tick

LEMMA WatchdogKeepsTypes == ASSUME TypeOK, Watchdog PROVE TypeOK'
<1> USE PipelineAssumption DEF TypeOK, Outcomes, Verdicts, UnitPhases, TickPcs, WdPcs,
      historyVars, fileVars, unitVars, tickVars, wdVars
<1>1. CASE WdStarts
  BY <1>1 DEF WdStarts, InFlight
<1>2. CASE WdAppends
  BY <1>2 DEF WdAppends
<1>3. CASE WdRewrites
  BY <1>3 DEF WdRewrites
<1>4. CASE WdLaunches
  BY <1>4 DEF WdLaunches, WdMovesOn
<1>5. CASE WdCannotLaunch
  BY <1>5 DEF WdCannotLaunch, WdMovesOn
<1>6. CASE WdReaps
  BY <1>6 DEF WdReaps, WdMovesOn
<1>7. CASE WdEnds
  BY <1>7 DEF WdEnds
<1>8. ASSUME NEW r \in Runs, WdSpares(r) PROVE TypeOK'
  BY <1>8 DEF WdSpares
<1>9. ASSUME NEW r \in Runs, WdPicks(r) PROVE TypeOK'
  BY <1>9 DEF WdPicks
<1> QED
  BY <1>1, <1>2, <1>3, <1>4, <1>5, <1>6, <1>7, <1>8, <1>9 DEF Watchdog

LEMMA UnitKeepsTypes == ASSUME TypeOK, NEW r \in Runs, Unit(r) PROVE TypeOK'
<1> USE PipelineAssumption DEF TypeOK, Outcomes, Verdicts, UnitPhases, TickPcs, WdPcs,
      historyVars, fileVars, unitVars, tickVars, wdVars
<1>1. CASE Prepares(r)
  BY <1>1 DEF Prepares
<1>2. CASE PrepareEnds(r)
  BY <1>2 DEF PrepareEnds
<1>3. CASE Beats(r)
  BY <1>3 DEF Beats
<1>4. CASE FallsQuiet(r)
  BY <1>4 DEF FallsQuiet
<1>5. CASE StageCommits(r)
  BY <1>5 DEF StageCommits
<1>6. CASE RunEnds(r)
  BY <1>6 DEF RunEnds
<1>7. CASE LauncherExits(r)
  BY <1>7 DEF LauncherExits
<1>8. CASE UnitKilled(r)
  BY <1>8 DEF UnitKilled
<1> QED
  BY <1>1, <1>2, <1>3, <1>4, <1>5, <1>6, <1>7, <1>8 DEF Unit

(* Every variable keeps its type: no failure, and no order of the steps of *)
(* tick, watchdog and units, takes a variable out of its range.            *)
THEOREM TypeCorrect == Spec => []TypeOK
<1>1. Init => TypeOK
  BY PipelineAssumption DEF Init, TypeOK, Outcomes, Verdicts, UnitPhases, TickPcs, WdPcs
<1>2. TypeOK /\ [Next]_vars => TypeOK'
  <2> SUFFICES ASSUME TypeOK, [Next]_vars PROVE TypeOK'
    OBVIOUS
  <2> USE PipelineAssumption DEF TypeOK, Outcomes, Verdicts, UnitPhases, TickPcs, WdPcs,
        historyVars, fileVars, unitVars, tickVars, wdVars
  <2>1. CASE Tick
    BY <2>1, TickKeepsTypes
  <2>2. CASE Watchdog
    BY <2>2, WatchdogKeepsTypes
  <2>3. ASSUME NEW r \in Runs, CronFires(r) PROVE TypeOK'
    BY <2>3 DEF CronFires
  <2>4. ASSUME NEW r \in Runs, Request(r) PROVE TypeOK'
    BY <2>4 DEF Request
  <2>5. ASSUME NEW r \in Runs, Unit(r) PROVE TypeOK'
    BY <2>5, UnitKeepsTypes
  <2>6. ASSUME NEW r \in Runs, Ages(r) PROVE TypeOK'
    BY <2>6 DEF Ages
  <2>7. CASE TickCrashes
    BY <2>7 DEF TickCrashes, TickRests
  <2>8. CASE WdCrashes
    BY <2>8 DEF WdCrashes
  <2>9. CASE Reboots
    BY <2>9 DEF Reboots, TickRests
  <2>10. CASE UNCHANGED vars
    BY <2>10 DEF vars
  <2> QED
    BY <2>1, <2>2, <2>3, <2>4, <2>5, <2>6, <2>7, <2>8, <2>9, <2>10
    DEF Next, Work, Breakdown
<1> QED
  BY <1>1, <1>2, PTL DEF Spec

-----------------------------------------------------------------------------
(* The cap on automatic resumes.  resume_count in state.json is raised     *)
(* before the resume unit is registered, so it bounds the resumes as long  *)
(* as that write does not fail; nothing but the watchdog raises it, and    *)
(* prepare, which resets it, never finds a state.json to reset.            *)

CapInv ==
  /\ wdTodo \subseteq hasState
  /\ wdPc \in {"append", "rewrite", "launch", "reap"} => wdRun \in hasState
  /\ \A r \in Runs : resumes[r] <= resumeCount[r] /\ resumeCount[r] <= MaxResumes
  /\ \A r \in Runs : r \notin hasState => resumeCount[r] = 0
  /\ wdPc \in {"append", "rewrite"} => resumeCount[wdRun] < MaxResumes
  /\ wdPc = "launch" => resumes[wdRun] < resumeCount[wdRun]

(* The tick touches nothing that CapInv speaks of.                         *)
LEMMA TickLeavesTheCap ==
  Tick => UNCHANGED <<hasState, resumeCount, resumes, wdVars>>
BY DEF Tick, TickStarts, TickChecksLive, TickJudges, TickCloses, TickDecides, TickFindsAgent,
       TickLaunches, TickCannotLaunch, TickLaunchTimesOut, TickRecords, TickRecordsFailure,
       fileVars, unitVars, wdVars

LEMMA WatchdogKeepsTheCap ==
  ASSUME TypeOK, CapInv, "stateWrite" \notin Faults, Watchdog PROVE CapInv'
<1> USE PipelineAssumption DEF TypeOK, CapInv, historyVars, fileVars, unitVars, tickVars, wdVars
<1>1. CASE WdStarts
  BY <1>1 DEF WdStarts, InFlight
<1>2. CASE WdAppends
  BY <1>2 DEF WdAppends
<1>3. CASE WdRewrites
  BY <1>3 DEF WdRewrites
<1>4. CASE WdLaunches
  BY <1>4 DEF WdLaunches, WdMovesOn
<1>5. CASE WdCannotLaunch
  BY <1>5 DEF WdCannotLaunch, WdMovesOn
<1>6. CASE WdReaps
  BY <1>6 DEF WdReaps, WdMovesOn
<1>7. CASE WdEnds
  BY <1>7 DEF WdEnds
<1>8. ASSUME NEW r \in Runs, WdSpares(r) PROVE CapInv'
  BY <1>8 DEF WdSpares
<1>9. ASSUME NEW r \in Runs, WdPicks(r) PROVE CapInv'
  BY <1>9 DEF WdPicks, Resumable
<1> QED
  BY <1>1, <1>2, <1>3, <1>4, <1>5, <1>6, <1>7, <1>8, <1>9 DEF Watchdog

LEMMA UnitKeepsTheCap ==
  ASSUME TypeOK, CapInv, NEW r \in Runs, Unit(r) PROVE CapInv'
<1> USE PipelineAssumption DEF TypeOK, CapInv, historyVars, fileVars, unitVars, tickVars, wdVars
<1>1. CASE Prepares(r)
  BY <1>1 DEF Prepares
<1>2. CASE PrepareEnds(r) \/ RunEnds(r) \/ LauncherExits(r) \/ UnitKilled(r)
  BY <1>2 DEF PrepareEnds, RunEnds, LauncherExits, UnitKilled
<1>3. CASE Beats(r) \/ FallsQuiet(r) \/ StageCommits(r)
  BY <1>3 DEF Beats, FallsQuiet, StageCommits
<1> QED
  BY <1>1, <1>2, <1>3 DEF Unit

LEMMA CapInvHolds == "stateWrite" \notin Faults => (Spec => []CapInv)
<1> SUFFICES ASSUME "stateWrite" \notin Faults PROVE Spec => []CapInv
  OBVIOUS
<1>1. Init => CapInv
  BY PipelineAssumption DEF Init, CapInv
<1>2. TypeOK /\ CapInv /\ [Next]_vars => CapInv'
  <2> SUFFICES ASSUME TypeOK, CapInv, [Next]_vars PROVE CapInv'
    OBVIOUS
  <2> USE DEF CapInv
  <2>1. CASE Tick
    BY <2>1, TickLeavesTheCap DEF wdVars
  <2>2. CASE Watchdog
    BY <2>2, WatchdogKeepsTheCap
  <2>3. ASSUME NEW r \in Runs, Unit(r) PROVE CapInv'
    BY <2>3, UnitKeepsTheCap
  <2>4. ASSUME NEW r \in Runs, CronFires(r) \/ Request(r) \/ Ages(r) PROVE CapInv'
    BY <2>4 DEF CronFires, Request, Ages, fileVars, unitVars, wdVars
  <2>5. CASE Breakdown
    BY <2>5 DEF Breakdown, TickCrashes, WdCrashes, Reboots, fileVars, unitVars, wdVars
  <2>6. CASE UNCHANGED vars
    BY <2>6 DEF vars, fileVars, unitVars, wdVars
  <2> QED
    BY <2>1, <2>2, <2>3, <2>4, <2>5, <2>6 DEF Next, Work
<1> QED
  BY <1>1, <1>2, TypeCorrect, PTL DEF Spec

(* MAX_PIPELINE_RESUMES holds for every run, whatever crashes, reboots or  *)
(* arrives late, as long as the watchdog can write state.json.             *)
THEOREM CapHolds == "stateWrite" \notin Faults => (Spec => []ResumesAreCapped)
<1>1. TypeOK /\ CapInv => ResumesAreCapped
  BY PipelineAssumption DEF TypeOK, CapInv, ResumesAreCapped
<1> QED
  BY <1>1, CapInvHolds, TypeCorrect, PTL

-----------------------------------------------------------------------------
(* One terminal record per run.  Only tick writes terminal records, under  *)
(* its lock, for the run it found open or for a run id that has none: what *)
(* it read of `verdict` cannot change before it writes, although the       *)
(* watchdog writes the same history file without the lock.                 *)

OnceInv ==
  /\ \A r \in recorded : trigger[r] # "none"
  /\ latest \in recorded \cup {NoRun}
  /\ \A r \in Runs : trigger[r] = "none" => verdict[r] = "none"
  /\ due \in Runs => trigger[due] = "cron" /\ verdict[due] = "none"
  /\ tickPc \in {"reconcile", "judge", "close", "launch", "record"} => trigger[tickRun] # "none"
  /\ tickPc \in {"reconcile", "judge", "close", "launch"} => verdict[tickRun] = "none"
  /\ wdPc = "append" => wdRun \in recorded

LEMMA TickRecordsOnce ==
  ASSUME TypeOK, OnceInv, Tick
  PROVE  OnceInv' /\ \A r \in Runs : verdict[r] # "none" => verdict'[r] = verdict[r]
<1> DEFINE Once == OnceInv' /\ \A r \in Runs : verdict[r] # "none" => verdict'[r] = verdict[r]
<1> USE PipelineAssumption DEF TypeOK, OnceInv, historyVars, fileVars, unitVars, tickVars, wdVars
<1>1. CASE TickStarts
  BY <1>1 DEF TickStarts, OpenRun
<1>2. CASE TickChecksLive \/ TickJudges
  BY <1>2 DEF TickChecksLive, TickJudges, TickRests
<1>3. CASE TickCloses
  BY <1>3 DEF TickCloses, TickRests, CountsAsScheduled
<1>4. CASE TickDecides \/ TickFindsAgent
  BY <1>4 DEF TickDecides, TickFindsAgent, TickRests
<1>5. CASE TickLaunches
  BY <1>5 DEF TickLaunches
<1>6. CASE TickCannotLaunch \/ TickLaunchTimesOut
  <2>1. TickRecordsFailure /\ UNCHANGED wdVars /\ tickPc = "launch"
    BY <1>6 DEF TickCannotLaunch, TickLaunchTimesOut
  <2> QED
    BY <2>1 DEF TickRecordsFailure, TickRests
<1>7. CASE TickRecords
  BY <1>7 DEF TickRecords, TickRests
<1> QED
  BY <1>1, <1>2, <1>3, <1>4, <1>5, <1>6, <1>7 DEF Tick

LEMMA WatchdogRecordsOnce ==
  ASSUME TypeOK, OnceInv, Watchdog PROVE OnceInv' /\ verdict' = verdict
<1> USE PipelineAssumption DEF TypeOK, OnceInv, historyVars, fileVars, unitVars, tickVars, wdVars
<1>1. CASE WdAppends
  BY <1>1 DEF WdAppends
<1>2. CASE WdStarts \/ WdRewrites \/ WdLaunches \/ WdCannotLaunch \/ WdReaps \/ WdEnds
  BY <1>2 DEF WdStarts, WdRewrites, WdLaunches, WdCannotLaunch, WdReaps, WdEnds, WdMovesOn
<1>3. ASSUME NEW r \in Runs, WdSpares(r) \/ WdPicks(r) PROVE OnceInv' /\ verdict' = verdict
  BY <1>3 DEF WdSpares, WdPicks, Resumable
<1> QED
  BY <1>1, <1>2, <1>3 DEF Watchdog

LEMMA OnceInvHolds == Spec => []OnceInv
<1>1. Init => OnceInv
  BY PipelineAssumption DEF Init, OnceInv
<1>2. TypeOK /\ OnceInv /\ [Next]_vars => OnceInv'
  <2> SUFFICES ASSUME TypeOK, OnceInv, [Next]_vars PROVE OnceInv'
    OBVIOUS
  <2> USE PipelineAssumption DEF TypeOK, OnceInv, historyVars, tickVars, wdVars
  <2>1. CASE Tick
    BY <2>1, TickRecordsOnce
  <2>2. CASE Watchdog
    BY <2>2, WatchdogRecordsOnce
  <2>3. ASSUME NEW r \in Runs, CronFires(r) PROVE OnceInv'
    BY <2>3 DEF CronFires, Fresh
  <2>4. ASSUME NEW r \in Runs, Request(r) PROVE OnceInv'
    BY <2>4 DEF Request, Fresh
  <2>5. ASSUME NEW r \in Runs, Unit(r) \/ Ages(r) PROVE OnceInv'
    BY <2>5 DEF Unit, Prepares, PrepareEnds, Beats, FallsQuiet, StageCommits, RunEnds,
                LauncherExits, UnitKilled, Ages
  <2>6. CASE Breakdown
    BY <2>6 DEF Breakdown, TickCrashes, WdCrashes, Reboots, TickRests
  <2>7. CASE UNCHANGED vars
    BY <2>7 DEF vars
  <2> QED
    BY <2>1, <2>2, <2>3, <2>4, <2>5, <2>6, <2>7 DEF Next, Work
<1> QED
  BY <1>1, <1>2, TypeCorrect, PTL DEF Spec

(* A run gets at most one terminal record, and no later step changes it:   *)
(* for every set of faults, a lost lock and a reboot included.             *)
THEOREM VerdictsAreFinal == Spec => OneVerdictEach
<1> DEFINE Once ==
      \A r \in Runs : AppendsVerdict(r) \/ verdict'[r] # verdict[r] => verdict[r] = "none"
<1>1. TypeOK /\ OnceInv /\ [Next]_vars => [Once]_vars
  <2> SUFFICES ASSUME TypeOK, OnceInv, Next PROVE Once
    OBVIOUS
  <2>1. ASSUME NEW r \in Runs, AppendsVerdict(r) PROVE verdict[r] = "none"
    BY <2>1 DEF AppendsVerdict, TickCloses, TickCannotLaunch, TickLaunchTimesOut, OnceInv
  <2>2. ASSUME NEW r \in Runs, verdict'[r] # verdict[r] PROVE verdict[r] = "none"
    <3>1. CASE Tick
      BY <2>2, <3>1, TickRecordsOnce
    <3>2. CASE Watchdog
      BY <2>2, <3>2, WatchdogRecordsOnce
    <3>3. ASSUME NEW q \in Runs, CronFires(q) \/ Request(q) \/ Unit(q) \/ Ages(q)
          PROVE verdict' = verdict
      BY <3>3 DEF CronFires, Request, Unit, Prepares, PrepareEnds, Beats, FallsQuiet,
                  StageCommits, RunEnds, LauncherExits, UnitKilled, Ages, historyVars
    <3>4. CASE Breakdown
      BY <2>2, <3>4 DEF Breakdown, TickCrashes, WdCrashes, Reboots, historyVars
    <3> QED
      BY <2>2, <3>1, <3>2, <3>3, <3>4 DEF Next, Work
  <2> QED
    BY <2>1, <2>2
<1> QED
  BY <1>1, TypeCorrect, OnceInvHolds, PTL DEF Spec, OneVerdictEach

-----------------------------------------------------------------------------
(* While the host stays up and the timers are on time.  Tick and watchdog  *)
(* may die between any two steps and launches may time out: units may then *)
(* be at work without a record, and two of them at once, but the history   *)
(* still has one open run at most, and only an open run is resumed.        *)

Clocked == "reboot" \notin Faults /\ "late" \notin Faults

Acting == wdPc \in {"append", "rewrite", "launch", "reap"}
Resuming == wdPc \in {"append", "rewrite", "launch"}

(* What the clock says of a run.                                           *)
ClockInv ==
  /\ rebooted = {}
  /\ \A r \in Runs : age[r] # 0 => unit[r] = "off"
  /\ \A r \in Runs : age[r] = 2 => r \notin InFlight
  /\ wdPc \in {"rewrite", "launch"} => age[wdRun] = 0

(* A run that has its terminal record has its report, or never got as far  *)
(* as a state.json and is off: the watchdog does not resume it.            *)
ClosedInv ==
  \A r \in recorded :
    verdict[r] # "none" => report[r] # "none" \/ (r \notin hasState /\ unit[r] = "off")

(* What tick read of the history stays true until it writes.               *)
ReadInv ==
  /\ tickPc \in {"reconcile", "judge", "close"} => OpenRun = tickRun
  /\ tickPc = "close" =>
       report[tickRun] # "none" \/ (tickRun \notin hasState /\ unit[tickRun] = "off")
  /\ tickPc \in {"decide", "launch", "record"} => OpenRun = NoRun
  /\ tickPc = "record" => verdict[tickRun] = "none"

(* A run the watchdog is about to resume is dead, unreported and recorded, *)
(* so that it is the open run.                                             *)
ResumeInv ==
  /\ Resuming => wdRun \in recorded /\ report[wdRun] = "none" /\ unit[wdRun] = "off"
  /\ wdPc = "append" => age[wdRun] # 0
  /\ Acting => wdRun \in hasState /\ wdRun \notin wdTodo
  /\ wdTodo \subseteq hasState
  /\ \A r \in wdTodo : age[r] # 0 => report[r] = "none"

ShadowInv == ClockInv /\ NoneShadowed /\ ClosedInv /\ ReadInv /\ ResumeInv

LEMMA TickShadowsNone ==
  ASSUME TypeOK, OnceInv, ShadowInv, Clocked, Tick
  PROVE  ShadowInv'
<1> USE PipelineAssumption DEF TypeOK, OnceInv, ShadowInv, ClockInv, NoneShadowed, ClosedInv,
      ReadInv, ResumeInv, Acting, Resuming, InFlight, OpenRun, historyVars, fileVars,
      unitVars, tickVars, wdVars
<1>1. CASE TickStarts
  BY <1>1 DEF TickStarts
<1>2. CASE TickChecksLive
  BY <1>2 DEF TickChecksLive, TickRests
<1>3. CASE TickJudges
  <2>1. CASE \E v \in Classify(report[tickRun]) : tickVerdict' = v /\ tickPc' = "close"
    <3>1. report[tickRun] # "none"
      BY <2>1 DEF Classify, Outcomes
    <3> QED BY <1>3, <2>1, <3>1 DEF TickJudges, TickRests
  <2>2. CASE report[tickRun] = "none" /\ BackstopIsOver
    <3>1. age[tickRun] = 2
      BY <1>3, <2>2 DEF TickJudges, BackstopIsOver
    <3> QED BY <1>3, <2>2, <3>1 DEF TickJudges, TickRests, Classify
  <2>3. CASE TickRests
    BY <1>3, <2>3 DEF TickJudges, TickRests
  <2> QED BY <1>3, <2>1, <2>2, <2>3 DEF TickJudges
<1>4. CASE TickCloses
  BY <1>4 DEF TickCloses, TickRests
<1>5. CASE TickDecides \/ TickFindsAgent
  BY <1>5 DEF TickDecides, TickFindsAgent, TickRests
<1>6. CASE TickLaunches
  <2>1. tickRun \notin recorded /\ (Resuming => wdRun # tickRun)
    BY <1>6 DEF TickLaunches
  <2> QED BY <1>6, <2>1 DEF TickLaunches
<1>7. CASE TickCannotLaunch
  <2>1. tickRun \notin recorded
    BY <1>7 DEF TickCannotLaunch
  <2> QED BY <1>7, <2>1 DEF TickCannotLaunch, TickRecordsFailure, TickRests
<1>8. CASE TickLaunchTimesOut
  <2>1. tickRun \notin recorded
    BY <1>8 DEF TickLaunchTimesOut
  <2> QED BY <1>8, <2>1 DEF TickLaunchTimesOut, TickRecordsFailure, TickRests
<1>9. CASE TickRecords
  <2>1. \A r \in recorded : verdict[r] # "none"
    BY <1>9 DEF TickRecords
  <2> QED BY <1>9, <2>1 DEF TickRecords, TickRests
<1> QED BY <1>1, <1>2, <1>3, <1>4, <1>5, <1>6, <1>7, <1>8, <1>9 DEF Tick

LEMMA WatchdogShadowsNone ==
  ASSUME TypeOK, OnceInv, ShadowInv, Clocked, Watchdog
  PROVE  ShadowInv'
<1> USE PipelineAssumption DEF TypeOK, OnceInv, ShadowInv, ClockInv, NoneShadowed, ClosedInv,
      ReadInv, ResumeInv, Acting, Resuming, InFlight, OpenRun, historyVars, fileVars,
      unitVars, tickVars, wdVars
<1>1. CASE WdStarts
  BY <1>1 DEF WdStarts
<1>2. CASE WdAppends
  (* The run it is about to resume is the one the history has open.        *)
  <2>1. verdict[wdRun] = "none" /\ latest = wdRun
    BY <1>2 DEF WdAppends
  <2> QED BY <1>2, <2>1 DEF WdAppends
<1>3. CASE WdRewrites
  BY <1>3 DEF WdRewrites
<1>4. CASE WdLaunches
  BY <1>4 DEF WdLaunches, WdMovesOn
<1>5. CASE WdCannotLaunch
  BY <1>5 DEF WdCannotLaunch, WdMovesOn
<1>6. CASE WdReaps
  BY <1>6 DEF WdReaps, WdMovesOn
<1>7. CASE WdEnds
  BY <1>7 DEF WdEnds
<1>8. ASSUME NEW r \in Runs, WdSpares(r) PROVE ShadowInv'
  BY <1>8 DEF WdSpares
<1>9. ASSUME NEW r \in Runs, WdPicks(r) PROVE ShadowInv'
  <2>1. age[r] # 0 /\ unit[r] = "off"
    BY <1>9 DEF WdPicks, IsStalled, UnitActive
  <2> QED BY <1>9, <2>1 DEF WdPicks, Resumable
<1> QED BY <1>1, <1>2, <1>3, <1>4, <1>5, <1>6, <1>7, <1>8, <1>9 DEF Watchdog

LEMMA UnitShadowsNone ==
  ASSUME TypeOK, OnceInv, ShadowInv, NEW r \in Runs, Unit(r)
  PROVE  ShadowInv'
<1> USE PipelineAssumption DEF TypeOK, OnceInv, ShadowInv, ClockInv, NoneShadowed, ClosedInv,
      ReadInv, ResumeInv, Acting, Resuming, InFlight, OpenRun, historyVars, fileVars,
      unitVars, tickVars, wdVars
<1>1. CASE Prepares(r)
  BY <1>1 DEF Prepares
<1>2. CASE PrepareEnds(r)
  BY <1>2 DEF PrepareEnds
<1>3. CASE Beats(r) \/ FallsQuiet(r) \/ StageCommits(r)
  BY <1>3 DEF Beats, FallsQuiet, StageCommits
<1>4. CASE RunEnds(r)
  BY <1>4 DEF RunEnds
<1>5. CASE LauncherExits(r)
  BY <1>5 DEF LauncherExits
<1>6. CASE UnitKilled(r)
  BY <1>6 DEF UnitKilled, UnitActive
<1> QED BY <1>1, <1>2, <1>3, <1>4, <1>5, <1>6 DEF Unit

LEMMA StartShadowsNone ==
  ASSUME TypeOK, OnceInv, ShadowInv, Clocked,
         NEW r \in Runs, CronFires(r) \/ Request(r) \/ Ages(r)
  PROVE  ShadowInv'
<1> USE PipelineAssumption DEF TypeOK, OnceInv, ShadowInv, ClockInv, NoneShadowed, ClosedInv,
      ReadInv, ResumeInv, Acting, Resuming, InFlight, OpenRun, historyVars, fileVars,
      unitVars, tickVars, wdVars
<1>1. CASE CronFires(r)
  BY <1>1 DEF CronFires, Fresh
<1>2. CASE Request(r)
  BY <1>2 DEF Request, Fresh
<1>3. CASE Ages(r)
  <2>1. \/ age[r] = 0 /\ unit[r] = "off" /\ age' = [age EXCEPT ![r] = 1]
        \/ age[r] = 1 /\ r \notin InFlight /\ age' = [age EXCEPT ![r] = 2]
    <3>1. age[r] \in {0, 1} /\ age' = [age EXCEPT ![r] = age[r] + 1]
      BY <1>3 DEF Ages
    <3>2. \/ age[r] = 0 /\ unit[r] = "off"
          \/ age[r] = 1 /\ r \notin InFlight
      BY <1>3 DEF Ages, OnTime, Clocked
    <3>3. 0 + 1 = 1 /\ 1 + 1 = 2
      OBVIOUS
    <3> QED BY <3>1, <3>2, <3>3
  <2> QED BY <1>3, <2>1 DEF Ages
<1> QED BY <1>1, <1>2, <1>3

LEMMA ShadowInvHolds == Clocked => (Spec => []ShadowInv)
<1> SUFFICES ASSUME Clocked PROVE Spec => []ShadowInv
  OBVIOUS
<1>1. Init => ShadowInv
  BY PipelineAssumption DEF Init, ShadowInv, ClockInv, NoneShadowed, ClosedInv, ReadInv,
     ResumeInv, Acting, Resuming, InFlight, OpenRun
<1>2. TypeOK /\ OnceInv /\ ShadowInv /\ [Next]_vars => ShadowInv'
  <2> SUFFICES ASSUME TypeOK, OnceInv, ShadowInv, [Next]_vars PROVE ShadowInv'
    OBVIOUS
  <2>1. CASE Tick
    BY <2>1, TickShadowsNone
  <2>2. CASE Watchdog
    BY <2>2, WatchdogShadowsNone
  <2>3. ASSUME NEW r \in Runs, Unit(r) PROVE ShadowInv'
    BY <2>3, UnitShadowsNone
  <2>4. ASSUME NEW r \in Runs, CronFires(r) \/ Request(r) \/ Ages(r) PROVE ShadowInv'
    BY <2>4, StartShadowsNone
  <2>5. CASE Reboots
    BY <2>5 DEF Reboots, Clocked
  <2>6. CASE TickCrashes \/ WdCrashes \/ UNCHANGED vars
    BY <2>6, PipelineAssumption DEF TickCrashes, WdCrashes, TickRests, vars, TypeOK, ShadowInv,
       ClockInv, NoneShadowed, ClosedInv, ReadInv, ResumeInv, Acting, Resuming, InFlight,
       OpenRun, historyVars, fileVars, unitVars, tickVars, wdVars
  <2> QED BY <2>1, <2>2, <2>3, <2>4, <2>5, <2>6 DEF Next, Work, Breakdown
<1> QED BY <1>1, <1>2, TypeCorrect, OnceInvHolds, PTL DEF Spec

(* Ticks and sweeps may die between any two steps: still no open run is    *)
(* shadowed by a later one, and tick will find it, while the host stays up *)
(* and the timers are on time.                                             *)
THEOREM NoRunIsShadowed == Clocked => (Spec => []NoneShadowed)
<1>1. ShadowInv => NoneShadowed
  BY DEF ShadowInv
<1> QED BY <1>1, ShadowInvHolds, PTL

(* The run the watchdog resumes is the one the history has open.           *)
LEMMA ResumedIsOpen ==
  ASSUME TypeOK, OnceInv, ShadowInv, Resuming PROVE OpenRun = wdRun /\ wdRun \in Runs
<1>1. wdRun \in recorded /\ wdRun \in hasState /\ report[wdRun] = "none" /\ wdRun \in Runs
  BY DEF TypeOK, ShadowInv, ResumeInv, Resuming, Acting
<1>2. verdict[wdRun] = "none"
  BY <1>1 DEF ShadowInv, ClosedInv
<1>3. latest = wdRun
  BY <1>1, <1>2 DEF ShadowInv, NoneShadowed
<1> QED BY <1>1, <1>2, <1>3 DEF OpenRun

(* A closed run is never reopened, even by a watchdog that does not look   *)
(* at terminal records: it finds a report, or no state.json, wherever      *)
(* there is one.  Ticks may die and launches time out.                     *)
THEOREM ClosedStaysClosed == Clocked => (Spec => ClosedIsFinal)
<1> SUFFICES ASSUME Clocked PROVE Spec => ClosedIsFinal
  OBVIOUS
<1> DEFINE Kept == \A r \in Runs : verdict[r] # "none" /\ r \in resumedRec' => r \in resumedRec
<1>1. TypeOK /\ OnceInv /\ ShadowInv /\ [Next]_vars => [Kept]_vars
  <2> SUFFICES ASSUME TypeOK, OnceInv, ShadowInv, Next PROVE Kept
    OBVIOUS
  <2>1. CASE WdAppends
    <3>1. OpenRun = wdRun /\ wdRun \in Runs
      BY <2>1, ResumedIsOpen DEF WdAppends, Resuming
    <3>2. verdict[wdRun] = "none"
      BY <3>1, PipelineAssumption DEF OpenRun
    <3> QED BY <2>1, <3>2 DEF WdAppends
  <2>2. CASE TickRecords
    BY <2>2 DEF TickRecords
  <2>3. CASE ~WdAppends /\ ~TickRecords
    BY <2>3 DEF Next, Work, Breakdown, Tick, TickStarts, TickChecksLive, TickJudges, TickCloses,
       TickDecides, TickFindsAgent, TickLaunches, TickCannotLaunch, TickLaunchTimesOut,
       TickRecordsFailure, TickCrashes, Watchdog, WdStarts, WdSpares, WdPicks, WdRewrites,
       WdLaunches, WdCannotLaunch, WdReaps, WdEnds, WdCrashes, Unit, Prepares, PrepareEnds,
       Beats, FallsQuiet, StageCommits, RunEnds, LauncherExits, UnitKilled, Reboots, CronFires,
       Request, Ages, historyVars
  <2> QED
    BY <2>1, <2>2, <2>3
<1> QED
  BY <1>1, TypeCorrect, OnceInvHolds, ShadowInvHolds, PTL DEF Spec, ClosedIsFinal

(* The watchdog resumes no run that has its report, although it read the   *)
(* report three steps before, without the lock, and may have died since.   *)
THEOREM ReportedStaysEnded == Clocked => (Spec => ReportedIsNotResumed)
<1> SUFFICES ASSUME Clocked PROVE Spec => ReportedIsNotResumed
  OBVIOUS
<1> DEFINE Kept == \A r \in Runs : resumes'[r] # resumes[r] => report[r] = "none"
<1>1. TypeOK /\ ShadowInv /\ [Next]_vars => [Kept]_vars
  <2> SUFFICES ASSUME TypeOK, ShadowInv, Next PROVE Kept
    OBVIOUS
  <2>1. CASE WdLaunches \/ WdCannotLaunch
    BY <2>1 DEF WdLaunches, WdCannotLaunch, ShadowInv, ResumeInv, Resuming, TypeOK
  <2>2. CASE ~WdLaunches /\ ~WdCannotLaunch
    BY <2>2 DEF Next, Work, Breakdown, Tick, TickStarts, TickChecksLive, TickJudges, TickCloses,
       TickDecides, TickFindsAgent, TickLaunches, TickCannotLaunch, TickLaunchTimesOut,
       TickRecords, TickCrashes, Watchdog, WdStarts, WdSpares, WdPicks, WdAppends,
       WdRewrites, WdReaps, WdEnds, WdCrashes, Unit, Prepares, PrepareEnds,
       Beats, FallsQuiet, StageCommits, RunEnds, LauncherExits, UnitKilled, Reboots, CronFires,
       Request, Ages, unitVars
  <2> QED
    BY <2>1, <2>2
<1> QED
  BY <1>1, TypeCorrect, ShadowInvHolds, PTL DEF Spec, ReportedIsNotResumed

-----------------------------------------------------------------------------
(* The history implements RunRecords.                                      *)

RecordsSteps == [Records!RecordsNext]_(Records!recordsVars)

LEMMA TickKeepsRecords ==
  ASSUME TypeOK, OnceInv, ShadowInv, Tick PROVE RecordsSteps
<1> USE PipelineAssumption DEF RecordsSteps, Records!recordsVars, OpenRun, historyVars, fileVars,
      unitVars, tickVars, wdVars
<1>1. CASE TickCloses
  <2>1. OpenRun = tickRun /\ tickVerdict \in {"done", "skipped", "failed"} /\ tickRun \in Runs
    BY <1>1 DEF TickCloses, ShadowInv, ReadInv, TypeOK, Verdicts
  <2>2. verdict' = [verdict EXCEPT ![OpenRun] = tickVerdict] /\ OpenRun' = NoRun
    BY <1>1, <2>1 DEF TickCloses, TypeOK
  <2>3. Records!Closes(tickVerdict)
    BY <1>1, <2>1, <2>2 DEF TickCloses, Records!Closes
  <2> QED BY <2>1, <2>3 DEF Records!RecordsNext
<1>2. CASE TickCannotLaunch \/ TickLaunchTimesOut
  <2>1. /\ tickRun \in Runs /\ OpenRun = NoRun /\ verdict[tickRun] = "none"
        /\ verdict' = [verdict EXCEPT ![tickRun] = "failed"]
        /\ UNCHANGED <<latest, resumes>>
    BY <1>2 DEF TickCannotLaunch, TickLaunchTimesOut, TickRecordsFailure, ShadowInv, ReadInv,
       OnceInv, TypeOK
  <2>2. OpenRun' = NoRun
    BY <2>1 DEF TypeOK
  <2>3. Records!Refuses(tickRun)
    BY <2>1, <2>2 DEF Records!Refuses
  <2> QED BY <2>1, <2>3 DEF Records!RecordsNext
<1>3. CASE TickRecords
  <2>1. /\ tickRun \in Runs /\ OpenRun = NoRun /\ verdict[tickRun] = "none"
        /\ latest' = tickRun /\ UNCHANGED <<verdict, resumes>>
    BY <1>3 DEF TickRecords, ShadowInv, ReadInv, TypeOK
  <2>2. Records!Opens(tickRun)
    BY <2>1 DEF Records!Opens
  <2> QED BY <2>1, <2>2 DEF Records!RecordsNext
<1>4. CASE TickStarts \/ TickChecksLive \/ TickJudges
  BY <1>4 DEF TickStarts, TickChecksLive, TickJudges
<1>5. CASE TickDecides \/ TickFindsAgent \/ TickLaunches
  BY <1>5 DEF TickDecides, TickFindsAgent, TickLaunches
<1> QED BY <1>1, <1>2, <1>3, <1>4, <1>5 DEF Tick

LEMMA WatchdogKeepsRecords ==
  ASSUME TypeOK, CapInv, OnceInv, ShadowInv, Watchdog PROVE RecordsSteps
<1> USE PipelineAssumption DEF RecordsSteps, Records!recordsVars, historyVars, fileVars,
      unitVars, tickVars, wdVars
<1>1. CASE WdAppends
  (* It repeats the `running` record of the run that is open.              *)
  <2>1. OpenRun = wdRun /\ wdRun \in Runs
    BY <1>1, ResumedIsOpen DEF WdAppends, Resuming
  <2> QED BY <1>1, <2>1 DEF WdAppends, OpenRun
<1>2. CASE WdLaunches \/ WdCannotLaunch
  <2>1. OpenRun = wdRun /\ wdRun \in Runs
    BY <1>2, ResumedIsOpen DEF WdLaunches, WdCannotLaunch, Resuming
  <2>2. resumes[wdRun] < MaxResumes
    BY <1>2, <2>1 DEF WdLaunches, WdCannotLaunch, CapInv, TypeOK
  <2>3. CASE UNCHANGED resumes
    BY <1>2, <2>3 DEF WdLaunches, WdCannotLaunch, OpenRun
  <2>4. CASE resumes' = [resumes EXCEPT ![wdRun] = @ + 1]
    <3>1. Records!Resumes
      BY <1>2, <2>1, <2>2, <2>4 DEF WdLaunches, WdCannotLaunch, OpenRun, Records!Resumes
    <3> QED BY <3>1 DEF Records!RecordsNext
  <2> QED BY <1>2, <2>3, <2>4 DEF WdLaunches, WdCannotLaunch
<1>3. CASE WdStarts \/ WdRewrites \/ WdReaps \/ WdEnds
  BY <1>3 DEF WdStarts, WdRewrites, WdReaps, WdEnds, OpenRun
<1>4. ASSUME NEW r \in Runs, WdSpares(r) \/ WdPicks(r) PROVE RecordsSteps
  BY <1>4 DEF WdSpares, WdPicks, OpenRun
<1> QED BY <1>1, <1>2, <1>3, <1>4 DEF Watchdog

(* However ticks and sweeps interleave, die or time out, the history reads *)
(* as that of a job with one run at a time: opened on top of no other,     *)
(* resumed only while it is the open one and at most MaxResumes times,     *)
(* closed once.                                                            *)
THEOREM ImplementsRecords ==
  Clocked /\ "stateWrite" \notin Faults => (Spec => KeepsRecords)
<1> SUFFICES ASSUME Clocked, "stateWrite" \notin Faults PROVE Spec => KeepsRecords
  OBVIOUS
<1>1. Init => Records!RecordsInit
  BY PipelineAssumption DEF Init, Records!RecordsInit, OpenRun
<1>2. TypeOK /\ CapInv /\ OnceInv /\ ShadowInv /\ [Next]_vars => RecordsSteps
  <2> SUFFICES ASSUME TypeOK, CapInv, OnceInv, ShadowInv, [Next]_vars PROVE RecordsSteps
    OBVIOUS
  <2>1. CASE Tick
    BY <2>1, TickKeepsRecords
  <2>2. CASE Watchdog
    BY <2>2, WatchdogKeepsRecords
  <2>3. ASSUME NEW r \in Runs, CronFires(r) \/ Request(r) \/ Unit(r) \/ Ages(r)
        PROVE UNCHANGED <<latest, verdict, resumes>>
    BY <2>3 DEF CronFires, Request, Unit, Prepares, PrepareEnds, Beats, FallsQuiet,
       StageCommits, RunEnds, LauncherExits, UnitKilled, Ages, historyVars, unitVars
  <2>4. CASE Breakdown \/ UNCHANGED vars
    <3>1. UNCHANGED <<latest, verdict, resumes>>
      BY <2>4 DEF Breakdown, TickCrashes, WdCrashes, Reboots, vars, historyVars, unitVars
    <3> QED BY <3>1 DEF RecordsSteps, Records!recordsVars, OpenRun
  <2>5. (UNCHANGED <<latest, verdict, resumes>>) => RecordsSteps
    BY DEF RecordsSteps, Records!recordsVars, OpenRun
  <2> QED BY <2>1, <2>2, <2>3, <2>4, <2>5 DEF Next, Work
<1> QED
  BY <1>1, <1>2, TypeCorrect, CapInvHolds, OnceInvHolds, ShadowInvHolds, PTL
  DEF Spec, KeepsRecords, Records!RecordsSpec, RecordsSteps

-----------------------------------------------------------------------------
(* While no tick dies between a launch and its record either.  Launches    *)
(* may still time out, and leave a unit at work whose run is closed.       *)

Attended == Clocked /\ "tickCrash" \notin Faults

(* A run id with no record at all has no worktree, no unit and no report.  *)
UnlaunchedInv ==
  \A r \in Runs :
    r \notin recorded /\ verdict[r] = "none" /\ ~(tickPc = "record" /\ tickRun = r)
      => r \notin hasState /\ unit[r] = "off" /\ report[r] = "none"

(* A report other than `failed` is the run's last word, and what tick read *)
(* of it is still there when tick writes.                                  *)
ReportInv ==
  /\ \A r \in Runs : report[r] \in {"ok", "skipped"} => ~Working(r)
  /\ tickPc = "close" /\ tickVerdict = "done" => report[tickRun] = "ok"
  /\ tickPc = "close" /\ tickVerdict = "skipped" => report[tickRun] = "skipped"

DeadInv == UnlaunchedInv /\ ReportInv /\ WatchdogTargetIsDead /\ VerdictMatchesReport

LEMMA TickKeepsDead ==
  ASSUME TypeOK, OnceInv, ShadowInv, DeadInv, Tick
  PROVE  DeadInv'
<1> USE PipelineAssumption DEF TypeOK, DeadInv, UnlaunchedInv, ReportInv, VerdictMatchesReport,
      WatchdogTargetIsDead, Working, historyVars, fileVars, unitVars, tickVars, wdVars
<1>1. CASE TickStarts \/ TickChecksLive
  BY <1>1 DEF TickStarts, TickChecksLive, TickRests
<1>2. CASE TickJudges
  BY <1>2 DEF TickJudges, TickRests, Classify
<1>3. CASE TickCloses
  BY <1>3 DEF TickCloses, TickRests
<1>4. CASE TickDecides \/ TickFindsAgent
  BY <1>4 DEF TickDecides, TickFindsAgent, TickRests
<1>5. CASE TickLaunches \/ TickLaunchTimesOut
  (* The run it launches has nothing yet, so the watchdog is not at it.    *)
  <2>1. tickPc = "launch" /\ tickRun \in Runs /\ verdict[tickRun] = "none" /\ OpenRun = NoRun
    BY <1>5 DEF TickLaunches, TickLaunchTimesOut, OnceInv, ShadowInv, ReadInv
  <2>2. tickRun \notin recorded
    BY <2>1 DEF ShadowInv, NoneShadowed, OpenRun
  <2>3. tickRun \notin hasState /\ report[tickRun] = "none"
    BY <2>1, <2>2
  <2>4. Acting => wdRun # tickRun
    BY <2>3 DEF ShadowInv, ResumeInv
  <2>5. CASE TickLaunches
    BY <2>1, <2>3, <2>4, <2>5 DEF TickLaunches, Acting
  <2>6. CASE TickLaunchTimesOut
    BY <2>1, <2>3, <2>4, <2>6 DEF TickLaunchTimesOut, TickRecordsFailure, TickRests, Acting
  <2> QED BY <1>5, <2>5, <2>6
<1>6. CASE TickCannotLaunch
  BY <1>6 DEF TickCannotLaunch, TickRecordsFailure, TickRests
<1>7. CASE TickRecords
  BY <1>7 DEF TickRecords, TickRests
<1> QED BY <1>1, <1>2, <1>3, <1>4, <1>5, <1>6, <1>7 DEF Tick

LEMMA WatchdogKeepsDead ==
  ASSUME TypeOK, OnceInv, ShadowInv, DeadInv, Watchdog
  PROVE  DeadInv'
<1> USE PipelineAssumption DEF TypeOK, DeadInv, UnlaunchedInv, ReportInv, VerdictMatchesReport,
      WatchdogTargetIsDead, Working, historyVars, fileVars, unitVars, tickVars, wdVars
<1>1. CASE WdStarts \/ WdRewrites \/ WdEnds
  BY <1>1 DEF WdStarts, WdRewrites, WdEnds
<1>2. CASE WdAppends
  BY <1>2 DEF WdAppends
<1>3. CASE WdLaunches \/ WdCannotLaunch
  <2>1. wdRun \in recorded /\ report[wdRun] = "none" /\ unit[wdRun] = "off" /\ wdRun \in Runs
    BY <1>3 DEF WdLaunches, WdCannotLaunch, ShadowInv, ResumeInv, Resuming
  <2>2. tickPc = "close" => tickVerdict = "failed" \/ tickRun # wdRun
    BY <2>1 DEF Verdicts
  <2>3. CASE WdLaunches
    BY <2>1, <2>2, <2>3 DEF WdLaunches, WdMovesOn
  <2>4. CASE WdCannotLaunch
    BY <2>1, <2>2, <2>4 DEF WdCannotLaunch, WdMovesOn
  <2> QED BY <1>3, <2>3, <2>4
<1>4. CASE WdReaps
  (* Of a run that is not recorded and has a state.json, the launch was    *)
  (* recorded as a failure.                                                *)
  <2>1. wdRun \in Runs /\ wdRun \in hasState /\ report[wdRun] = "none"
    BY <1>4 DEF WdReaps, ShadowInv, ResumeInv, Acting
  <2>2. wdRun \in recorded \/ verdict[wdRun] # "none" \/ (tickPc = "record" /\ tickRun = wdRun)
    BY <2>1
  <2> QED BY <1>4, <2>1, <2>2 DEF WdReaps, WdMovesOn
<1>5. ASSUME NEW r \in Runs, WdSpares(r) PROVE DeadInv'
  BY <1>5 DEF WdSpares
<1>6. ASSUME NEW r \in Runs, WdPicks(r) PROVE DeadInv'
  (* The list is old, but a run that is past its grace now was dead when   *)
  (* the sweep listed it, and a dead run writes no report.                 *)
  <2>1. age[r] # 0 /\ unit[r] = "off" /\ report[r] = "none"
    BY <1>6 DEF WdPicks, IsStalled, UnitActive, ShadowInv, ClockInv, ResumeInv
  <2> QED BY <1>6, <2>1 DEF WdPicks
<1> QED BY <1>1, <1>2, <1>3, <1>4, <1>5, <1>6 DEF Watchdog

LEMMA UnitKeepsDead ==
  ASSUME TypeOK, OnceInv, ShadowInv, DeadInv, NEW r \in Runs, Unit(r)
  PROVE  DeadInv'
<1> USE PipelineAssumption DEF TypeOK, DeadInv, UnlaunchedInv, ReportInv, VerdictMatchesReport,
      WatchdogTargetIsDead, Working, historyVars, fileVars, unitVars, tickVars, wdVars
<1>1. CASE Prepares(r)
  BY <1>1 DEF Prepares
<1>2. CASE PrepareEnds(r)
  BY <1>2 DEF PrepareEnds
<1>3. CASE Beats(r) \/ FallsQuiet(r) \/ StageCommits(r)
  BY <1>3 DEF Beats, FallsQuiet, StageCommits
<1>4. CASE RunEnds(r)
  BY <1>4 DEF RunEnds
<1>5. CASE LauncherExits(r)
  BY <1>5 DEF LauncherExits
<1>6. CASE UnitKilled(r)
  BY <1>6 DEF UnitKilled, UnitActive
<1> QED BY <1>1, <1>2, <1>3, <1>4, <1>5, <1>6 DEF Unit

LEMMA DeadInvHolds == Attended => (Spec => []DeadInv)
<1> SUFFICES ASSUME Attended PROVE Spec => []DeadInv
  OBVIOUS
<1>0. Clocked /\ "tickCrash" \notin Faults /\ "reboot" \notin Faults
  BY DEF Attended, Clocked
<1>1. Init => DeadInv
  BY PipelineAssumption DEF Init, DeadInv, UnlaunchedInv, ReportInv, VerdictMatchesReport,
     WatchdogTargetIsDead, Working
<1>2. TypeOK /\ OnceInv /\ ShadowInv /\ DeadInv /\ [Next]_vars => DeadInv'
  <2> SUFFICES ASSUME TypeOK, OnceInv, ShadowInv, DeadInv, [Next]_vars PROVE DeadInv'
    OBVIOUS
  <2> USE DEF DeadInv, UnlaunchedInv, ReportInv, VerdictMatchesReport, WatchdogTargetIsDead,
        Working, historyVars, fileVars, unitVars, tickVars, wdVars
  <2>1. CASE Tick
    BY <2>1, TickKeepsDead
  <2>2. CASE Watchdog
    BY <2>2, WatchdogKeepsDead
  <2>3. ASSUME NEW r \in Runs, Unit(r) PROVE DeadInv'
    BY <2>3, UnitKeepsDead
  <2>4. ASSUME NEW r \in Runs, CronFires(r) \/ Ages(r) PROVE DeadInv'
    BY <2>4 DEF CronFires, Ages
  <2>5. ASSUME NEW r \in Runs, Request(r) PROVE DeadInv'
    BY <2>5 DEF Request
  <2>6. CASE TickCrashes \/ Reboots
    BY <1>0, <2>6 DEF TickCrashes, Reboots
  <2>7. CASE WdCrashes \/ UNCHANGED vars
    BY <2>7 DEF WdCrashes, vars
  <2> QED BY <2>1, <2>2, <2>3, <2>4, <2>5, <2>6, <2>7 DEF Next, Work, Breakdown
<1> QED BY <1>0, <1>1, <1>2, TypeCorrect, OnceInvHolds, ShadowInvHolds, PTL DEF Spec

(* The watchdog acts on a list it read earlier and takes no lock, yet the  *)
(* run it resumes or reaps is still dead and unreported when it does, even *)
(* when launches time out and leave units behind.                          *)
THEOREM WatchdogActsOnTheDead == Attended => (Spec => []WatchdogTargetIsDead)
<1>1. DeadInv => WatchdogTargetIsDead
  BY DEF DeadInv
<1> QED BY <1>1, DeadInvHolds, PTL

(* The history's verdict is the report's, and stays so: no later writer of *)
(* the report, stub, reap or late stage, takes an outcome back.            *)
THEOREM VerdictsMatchReports == Attended => (Spec => []VerdictMatchesReport)
<1>1. DeadInv => VerdictMatchesReport
  BY DEF DeadInv
<1> QED BY <1>1, DeadInvHolds, PTL

-----------------------------------------------------------------------------
(* One run at a time, as long as no disruptive fault strikes: what works   *)
(* is what the history has open.                                           *)

FlightInv ==
  /\ WorkIsOpen
  /\ \A r \in InFlight : verdict[r] = "none"
  /\ \A r \in Runs : report[r] # "none" => ~Working(r)
  /\ \A r \in Runs : r \notin recorded /\ ~(tickPc = "record" /\ tickRun = r)
       => r \notin hasState /\ unit[r] = "off" /\ report[r] = "none"
  /\ tickPc = "close" => tickRun \notin InFlight /\ ~Working(tickRun)

LEMMA TickKeepsFlight ==
  ASSUME TypeOK, OnceInv, ShadowInv, FlightInv, Faults \cap Disruptive = {}, Tick
  PROVE  FlightInv'
<1> USE PipelineAssumption DEF TypeOK, FlightInv, ShadowInv, ReadInv, WorkIsOpen, Working,
      InFlight, OpenRun, historyVars, fileVars, unitVars, tickVars, wdVars
<1>1. CASE TickStarts \/ TickChecksLive
  BY <1>1 DEF TickStarts, TickChecksLive, TickRests
<1>2. CASE TickJudges
  (* A report is written when the work is over, and past the backstop the  *)
  (* unit is gone and nothing is in flight: the run may be closed.         *)
  <2>1. CASE \E v \in Classify(report[tickRun]) : tickVerdict' = v /\ tickPc' = "close"
    <3>1. report[tickRun] # "none"
      BY <2>1 DEF Classify, Outcomes
    <3> QED BY <1>2, <2>1, <3>1 DEF TickJudges
  <2>2. CASE report[tickRun] = "none" /\ tickPc' = "close"
    <3>1. age[tickRun] = 2
      BY <1>2, <2>2 DEF TickJudges, BackstopIsOver, ClockInv, Classify, TickRests
    <3> QED BY <1>2, <2>2, <3>1 DEF TickJudges, ClockInv, Classify, TickRests
  <2>3. CASE TickRests
    BY <1>2, <2>3 DEF TickJudges, TickRests
  <2> QED BY <1>2, <2>1, <2>2, <2>3 DEF TickJudges
<1>3. CASE TickCloses
  BY <1>3 DEF TickCloses, TickRests
<1>4. CASE TickDecides \/ TickFindsAgent
  BY <1>4 DEF TickDecides, TickFindsAgent, TickRests
<1>5. CASE TickLaunches \/ TickCannotLaunch \/ TickLaunchTimesOut
  <2>1. tickRun \in Runs /\ verdict[tickRun] = "none" /\ tickPc = "launch"
    BY <1>5 DEF TickLaunches, TickCannotLaunch, TickLaunchTimesOut, OnceInv
  <2>2. tickRun \notin recorded
    BY <2>1 DEF NoneShadowed
  <2>3. CASE TickLaunches
    BY <2>1, <2>2, <2>3 DEF TickLaunches
  <2>4. CASE TickCannotLaunch
    BY <2>1, <2>2, <2>4 DEF TickCannotLaunch, TickRecordsFailure, TickRests
  <2>5. CASE TickLaunchTimesOut
    BY <2>5 DEF TickLaunchTimesOut, Disruptive
  <2> QED BY <1>5, <2>3, <2>4, <2>5
<1>6. CASE TickRecords
  <2>1. \A r \in recorded : verdict[r] # "none"
    BY <1>6 DEF TickRecords, NoneShadowed
  <2> QED BY <1>6, <2>1 DEF TickRecords, TickRests
<1> QED BY <1>1, <1>2, <1>3, <1>4, <1>5, <1>6 DEF Tick

LEMMA WatchdogKeepsFlight ==
  ASSUME TypeOK, OnceInv, ShadowInv, DeadInv, FlightInv, Faults \cap Disruptive = {}, Watchdog
  PROVE  FlightInv'
<1> USE PipelineAssumption DEF TypeOK, FlightInv, WorkIsOpen, Working,
      InFlight, OpenRun, historyVars, fileVars, unitVars, tickVars, wdVars
<1>1. CASE WdStarts \/ WdRewrites \/ WdEnds
  BY <1>1 DEF WdStarts, WdRewrites, WdEnds
<1>2. CASE WdAppends
  <2>1. OpenRun = wdRun /\ wdRun \in Runs
    BY <1>2, ResumedIsOpen DEF WdAppends, Resuming
  <2> QED BY <1>2, <2>1 DEF WdAppends
<1>3. CASE WdLaunches
  <2>1. OpenRun = wdRun /\ wdRun \in Runs
    BY <1>3, ResumedIsOpen DEF WdLaunches, Resuming
  <2>2. wdRun \in recorded /\ report[wdRun] = "none" /\ wdRun \in hasState
    BY <1>3 DEF WdLaunches, ShadowInv, ResumeInv, Resuming, Acting
  <2> QED BY <1>3, <2>1, <2>2 DEF WdLaunches, WdMovesOn
<1>4. CASE WdCannotLaunch
  <2>1. wdRun \in recorded /\ unit[wdRun] = "off" /\ wdRun \in Runs
    BY <1>4 DEF WdCannotLaunch, ShadowInv, ResumeInv, Resuming
  <2>2. unit' = unit
    BY <1>4 DEF WdCannotLaunch, Disruptive
  <2> QED BY <1>4, <2>1, <2>2 DEF WdCannotLaunch, WdMovesOn
<1>5. CASE WdReaps
  <2>1. wdRun \in hasState /\ unit[wdRun] = "off" /\ wdRun \in Runs
    BY <1>5 DEF WdReaps, ShadowInv, ResumeInv, Acting, DeadInv, WatchdogTargetIsDead
  <2> QED BY <1>5, <2>1 DEF WdReaps, WdMovesOn
<1>6. ASSUME NEW r \in Runs, WdSpares(r) \/ WdPicks(r) PROVE FlightInv'
  BY <1>6 DEF WdSpares, WdPicks
<1> QED BY <1>1, <1>2, <1>3, <1>4, <1>5, <1>6 DEF Watchdog

LEMMA UnitKeepsFlight ==
  ASSUME TypeOK, OnceInv, ShadowInv, FlightInv, NEW r \in Runs, Unit(r)
  PROVE  FlightInv'
<1> USE PipelineAssumption DEF TypeOK, FlightInv, WorkIsOpen, Working,
      InFlight, OpenRun, historyVars, fileVars, unitVars, tickVars, wdVars
<1>1. CASE Prepares(r)
  BY <1>1 DEF Prepares, ShadowInv, ReadInv
<1>2. CASE PrepareEnds(r)
  BY <1>2 DEF PrepareEnds
<1>3. CASE Beats(r) \/ FallsQuiet(r) \/ StageCommits(r)
  BY <1>3 DEF Beats, FallsQuiet, StageCommits
<1>4. CASE RunEnds(r)
  BY <1>4 DEF RunEnds
<1>5. CASE LauncherExits(r)
  BY <1>5 DEF LauncherExits
<1>6. CASE UnitKilled(r)
  BY <1>6 DEF UnitKilled, UnitActive
<1> QED BY <1>1, <1>2, <1>3, <1>4, <1>5, <1>6 DEF Unit

LEMMA FlightInvHolds == Faults \cap Disruptive = {} => (Spec => []FlightInv)
<1> SUFFICES ASSUME Faults \cap Disruptive = {} PROVE Spec => []FlightInv
  OBVIOUS
<1>0. Attended /\ Clocked
  BY DEF Attended, Clocked, Disruptive
<1>1. Init => FlightInv
  BY PipelineAssumption DEF Init, FlightInv, WorkIsOpen, Working, InFlight, OpenRun
<1>2. TypeOK /\ OnceInv /\ ShadowInv /\ DeadInv /\ FlightInv /\ [Next]_vars => FlightInv'
  <2> SUFFICES ASSUME TypeOK, OnceInv, ShadowInv, DeadInv, FlightInv, [Next]_vars
               PROVE FlightInv'
    OBVIOUS
  <2> USE DEF FlightInv, WorkIsOpen, Working, InFlight, OpenRun, historyVars, fileVars,
        unitVars, tickVars, wdVars
  <2>1. CASE Tick
    BY <2>1, TickKeepsFlight
  <2>2. CASE Watchdog
    BY <2>2, WatchdogKeepsFlight
  <2>3. ASSUME NEW r \in Runs, Unit(r) PROVE FlightInv'
    BY <2>3, UnitKeepsFlight
  <2>4. ASSUME NEW r \in Runs, CronFires(r) \/ Request(r) \/ Ages(r) PROVE FlightInv'
    BY <2>4 DEF CronFires, Request, Ages, TypeOK
  <2>5. CASE TickCrashes \/ Reboots
    BY <2>5 DEF TickCrashes, Reboots, Disruptive
  <2>6. CASE WdCrashes \/ UNCHANGED vars
    BY <2>6 DEF WdCrashes, vars
  <2> QED BY <2>1, <2>2, <2>3, <2>4, <2>5, <2>6 DEF Next, Work, Breakdown
<1> QED
  BY <1>0, <1>1, <1>2, TypeCorrect, OnceInvHolds, ShadowInvHolds, DeadInvHolds, PTL DEF Spec

(* Single flight: at most one run of the job is at work, although the      *)
(* watchdog, which takes no lock, and tick both start units.               *)
THEOREM SingleFlight == Faults \cap Disruptive = {} => (Spec => []OneRunAtATime)
<1> SUFFICES ASSUME Faults \cap Disruptive = {} PROVE Spec => []OneRunAtATime
  OBVIOUS
<1>0. Clocked
  BY DEF Clocked, Disruptive
<1>1. TypeOK /\ ShadowInv /\ FlightInv => OneRunAtATime
  BY PipelineAssumption DEF FlightInv, ShadowInv, ReadInv, WorkIsOpen, OneRunAtATime
<1> QED
  BY <1>0, <1>1, TypeCorrect, ShadowInvHolds, FlightInvHolds, PTL

(* What works is what tick reconciles: a unit at work is the open run.     *)
THEOREM WorkIsReconciled == Faults \cap Disruptive = {} => (Spec => []WorkIsOpen)
<1>1. FlightInv => WorkIsOpen
  BY DEF FlightInv
<1> QED
  BY <1>1, FlightInvHolds, PTL
=============================================================================

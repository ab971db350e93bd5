# herdr-routines in TLA+

Specifications of the parts of herdr-routines where several processes share
files without a common lock, or where a decision taken tonight rests on what a
process that is long dead wrote. The modules are written from the source; every
definition's lines are in `PROJECT.json` under `map`.

## The system

herdr-routines has no daemon. systemd timers start short-lived processes that
meet in files: an append-only history (JSONL), a `state.json` per pipeline run,
terminal reports, a findings ledger per audit job, a claims store. The agents
they start live in herdr, a separate server, and outlive the process that
started them.

| part | state it keeps | operations |
|---|---|---|
| `tick.py`, the tick | history records, the tick lock | reconcile or launch pipeline runs; run routine, gated, PR, event and audit jobs |
| `schedule.py` | none | which occurrence is due, missed, collapsed |
| `history.py` | the history file | append, queries (open run, stale run, last scheduled terminal), rotation |
| `pipeline_watchdog.py` | history, `state.json`, reports | sweep: resume or kill-and-report runs that died |
| `pipeline-launch.sh`, `pipeline_prepare.py` | worktree, first `state.json`, report | claim an issue, prepare, run, stub report |
| `pipeline_run.py` | `state.json`, heartbeat, report | seven stages, gates, CI fix rounds |
| `claims.py`, `pick_feature.py` | the claims store | reclaim, select, claim |
| `findings.py` and the audit half of `tick.py` | the findings ledger | diff, dispatch, hand off, prune |
| `auto_fix.py`, `review_scan.py`, `target_selectors.py` | none (GitHub, history) | eligible PRs, attempt budgets, events |
| `runner.py`, `wait_loop.py`, `herdr.py` | none | start an agent, prompt it, wait for it to settle |
| `self_update.py` | the checkout, rejected commits | fast-forward, validate, roll back |
| `gc.py`, `reports_prune.py`, `tmp_hygiene.py` | none | delete what is old |
| `cli.py`, `telegram_spawn.py` | none | `run`, `/job`, reports |

What makes it hard:

* **Two writers, one run.** The tick holds a lock the watchdog does not take.
  Both read the history, `state.json`, the report and systemd, and both write.
* **Records that lag behind.** A launch is recorded after it happened, a resume
  before; a process may die in between. A recorded deadline, a heartbeat and a
  unit query are three opinions about whether a run is alive.
* **Reboots** kill everything, empty `/tmp`, and leave the files.
* **Agents outlive ticks**, and the live-agent guard fails open.
* **Budgets over many nights**: attempts, resumes, dispatch caps, where a
  finding or an occurrence that is forgotten once is forgotten for good.

## Modules

| module | models |
|---|---|
| `PipelineLifecycle` | the runs of one `kind: pipeline` job: tick, watchdog, the units, the host |
| `PipelineLiveness` | fairness for the above and what must eventually happen |
| `AuditLedger` | one `kind: audit` job: the cycle, the ledger, the agents left behind |
| `PipelineStages` | one pipeline run from the inside: the stage loop, the gates, the PR |
| `RunRecords` | what the history of a pipeline job promises: one open run, capped resumes, one outcome |
| `PipelinePromise` | what a run promises: one gate at a time, one PR, one outcome |
| `FeatureClaims` | which issue a run builds: the locked pick, leases, reclaim, `gc --delete` |
| `RoutineSchedule` | when a routine job runs: guards, triggers, `decide`, fallback, retries |
| `WorkerDispatch` | the jobs that give workers to targets, in five modes |
| `AgentSession` | one job's agent over herdr: name, pane, prompt, wait, report |
| `SelfUpdate` | the nightly update of the checkout, between ticks and runs |
| `HostCode` | what the update promises the host: its code moves forward, in one step, to green commits |
| `*_proofs` | the theorems of the module they are named after |
| `MC*` | the fault sets, schedules and symmetry of the runs |

How they fit: `RoutineSchedule` decides that a routine runs, `AgentSession` is
what one run does to herdr, `WorkerDispatch` what a pass does that has several
targets. `PipelineLifecycle` sees a pipeline run from outside, `PipelineStages`
from inside (and refines `PipelinePromise`), `FeatureClaims` what several runs
and nights do to the claims and branches they share. `SelfUpdate` and all ticks
share the lock. Where one module is inside an action of another, the action is
as free as the module shows it to be: `RunEnds` of `RoutineSchedule` may have
any outcome of `AgentSession`, `Resumes` of `PipelineStages` stands for the
watchdog of `PipelineLifecycle`.

### PipelineLifecycle

One job, a set `Runs` of run ids; each id is used by a cron occurrence
(`CronFires`) or a request (`Request`: `herdr-routines run` and `/job`, which
take the tick lock and skip the schedule).

*History.* The code scans the whole file; the model keeps what the scans return.
`latest` is the run of the last `running` record, `verdict[r]` the terminal
record of `r`, so `OpenRun` is `_open_pipeline_run`. `resumedRec` holds the runs
whose last `running` record is the watchdog's, which carries no `trigger`:
`CountsAsScheduled` is the test of `last_scheduled_terminal_run`.

*The tick.* `TickStarts` finds the open run; `TickChecksLive` is
`_pipeline_run_is_live`; `TickJudges` looks for a report, a reboot, the backstop,
in that order; `TickCloses` appends the terminal record; `TickDecides` is
`decide`, reduced to run, miss or wait; `TickLaunches` and `TickRecords` are the
two halves of launch-first, record-second. Each is a step because the watchdog,
the unit or a crash may come between.

*The watchdog.* `WdStarts` takes the sweep's snapshot; `WdPicks` judges one
run; `WdAppends`, `WdRewrites`, `WdLaunches` are the resume's three writes;
`WdReaps` kills and reports. Pane closing and notifications are left out:
nothing here reads them.

*The unit.* `Prepares` is `prepare_run` up to the first `state.json`;
`RunEnds` is `run_pipeline` seen from outside; `LauncherExits` the stub report
of `pipeline-launch.sh`; `UnitKilled` systemd or the OOM killer.

*Time.* `age[r]` has three values: before the watchdog's grace, after it, after
tick's backstop. `OnTime` states the one assumption about durations: systemd
ends a unit (deadline + 10 min) before the grace (30 min) is over, and the
watchdog's timer comes round before the backstop (deadline + 1 h + 5 min). The
fault `late` drops it. A reset deadline puts `age` back to 0.

*Faults.* Everything that may fail is a member of `FaultKinds`, allowed when it
is in `Faults`, so that each property is checked under the faults it is meant
for. Four are `Disruptive`: `reboot`, `late`, `tickCrash`, `launchTimeout` each
separate a unit from its record, or the clock from the timers.

*What it refines.* `RunRecords` has the open run, the outcomes and a count of
lives; tick opens, closes and refuses, the watchdog resumes. `open` is mapped to
`OpenRun`, so the watchdog's `running` record must be a stutter: it repeats the
run that is open already. `KeepsRecords` holds although units and files go their
own way, because it speaks of the history alone, which is all that tick, the
digest and the schedule read.

### AuditLedger

The whole cycle runs inside one tick, so `pc` is a program counter and the other
actors are what interrupts it. The ledger's entries keep `state`, `severity`,
`attempts`, `queued`; `manifest` maps a finding to the severity it is reported
at, 0 for "not reported". `New`, `Regressed`, `Unchanged`, `Resolved` are
`diff_findings`; `Pool` is `dispatch_pool`; `Batch` the capped selection of
`_diff_and_fix`; `Applied` is `apply_diff`. `DiffSaves` is the diff, the pruning
and the first save; `HandsOff` is `mark_handed_off` and the second. `prune_ledger`
goes by age, so the model lets any subset of the prunable entries go. `orphans`
counts live agents no tick waits for. All findings belong to one check, as the
findings of a job do.

`owed`, `given` and `arrivals` are history variables: what some worker still has
to settle with, how often a worker was started, how often a finding came.

### PipelineStages

`PipelineLifecycle` sees a run from outside; this module is `run_pipeline` with
what it calls. `disk` is `state.json` and `mem` the process's own `state`: they
are two variables because the stage's session is committed from a copy the loop
does not see (`RecordsSession`) and read back after the sweep (`SweepsStage`).
`pc` is where the process is. A stage with an agent goes `begin`, `base` (stages
3 and 4), `start`, `work`, `record`, `sweep`, `gate`; stage 5 goes `check`, `fix`
and back, `books`, `compare`, `flip`, `commitFlip`, `create`, `recordPr`, `gate`.
Each step ends where state.json, the branch, GitHub or an agent has changed, so
that `Dies` can come between any two such changes.

*Files.* `tree` is the worktree, `head` its last commit, `origin` the pushed
branch, `pr` the branch and the body's word on edits as the PR was opened. Each
is a record of what the gates tell apart. The named test is `named` where only
its name occurs under tests/: gate 3 looks for the text, `_named_test_defs` for
the function, so a test that was never written is never missed, and `PrIsHonest`
speaks of the tests whose author wrote them.

*Agents.* `AgentWorks` does the stage's job or one of the slips the gates look
for, commits it or leaves it in the tree, and goes on after its process died
until `Resumes` closes its pane. Which files a real agent touches is not
modelled further: nobody edits the spec after stage 2 or the issue but
`_flip_issue`.

*The watchdog* is one step here, `Resumes` or `Reaps`; how it decides is
`PipelineLifecycle`. `Aborts` stands for every failure `run_pipeline` turns into
a report. `gh pr create` on a branch that has a PR either returns it, as
`run_gate5` says, or fails (`Aborts`). Gates 6, 7 and CI read GitHub and pass
or fail freely, the CI gate without consequence.

*What it refines.* `PipelinePromise` has a ladder of seven rungs; a rung is
climbed when its gate passed (`disk.stage`), the fifth only with an open PR, and
"ok" is said at the top.

Left out: pane closing that fails, the re-signing of commits (same content),
prompts and review feedback. Stage 7 edits and pushes after the PR was opened
and no gate looks at the tests again; `PrIsHonest` is about the opening.

### FeatureClaims

`Runs` are names: `NextNight` gives a finished run's name to a later night, so
that claims outlive the runs that took them. `claims`, `torn` are the store on
disk, `draft` what the process that holds the flock (`holder`) loaded and
mutates in place, `answer` what its last `gh pr list` said. `at[r]` is where the
process is: `Sync` before the lock (the open issues are read there, and used
after it), `Lock` with the quarantine of a store that does not parse,
`AskOpenPrs`/`GhSilent`, `Release` (the runs in flight are read here, later than
the pull requests), `AskPipelinePrs`, `Claim`/`NoFeature`, then `CreateWorktree`
and `WriteState` outside the lock. A claim is "fresh" or "stale" by its lease;
nothing ties it to a process.

The run itself is what a later pick or `gc` can tell of it: edits, a commit, a
pull request, a report. `Merge` and `Close` are people. `gc --delete` is
`GcList`, one reading of the worktrees, merge states and runs in flight, and
`GcDelete`, one row at a time, so that anything may come between. `LeaseRunsOut`
is timed by one assumption: twelve hours of lease outlast the minutes between
claim and `state.json`, whose unit systemd stops. `forgotten` are the issues
whose claim a torn store lost.

### RoutineSchedule

Time is a small clock; `Cron` are the moments the schedule names and `Wall`
their local wall-clock times. `Since` is `decide`'s starting point, `Due` the
occurrences after it, one per wall-clock time, `TickRuns`, `TickMisses` and
`TickNotDue` its three answers. History is what the queries read off it: the
latest `running` record and whether its run has a terminal one (`IsOpen`,
`Stale`), the last scheduled terminal record (`Counts`), the ids whose last
`running` record has a trigger (`offIds`), the watermark. A tick is `TickStarts`
(lock and `now`), the guards (`TickRecovers`, `TickFindsRun`, `TickFindsAgent`),
the cron, the poll, and `_run_routine`: `RunBegins`, `FallsBack`, `RetryIsDue`,
`RunEnds`, each with the terminal record it appends. `Request` is
`herdr-routines run`, and with it `/job`: the lock, and no other guard.

`Raises` is `_record_unexpected_failure`: it closes the run this tick opened or
leaves a `failed` record that consumes what was due, and the tick goes on. That
its own write may fail as well is `Crashes`.

`told`, `blocked`, `fires`, `adopted`, `answers` are history variables: the
wall-clock times with a record or run of their own, those a dead run, a live
agent or an error kept from firing, and how often an occurrence or an event was run.

### WorkerDispatch

One module with a `mode`, because the code has one shape five times: select
targets, dispatch each, wait, record, write an aggregate record. The modes differ
where the code differs, and `Init` picks one of them.

| mode | code | selection | what counts as an attempt |
|---|---|---|---|
| event | `_process_event_target`, PR events | unseen, in budget, then cap | every record of a worker |
| issue | the same, `issues:opened` | as above; the first poll only adopts | the same |
| pr | `_process_pr_target` | cap, then live guard and budget in the loop | the same |
| base | `_process_base_target` | the gate fails and the budget lasts | records since the gate last passed |
| review | `_run_routine_targets`, `classify_review_candidates` | budget, marker guard on a window, cap | agents that ran, but for quota kills |

`attempts`, `marked`, `baselined`, `runOpen` are what the history queries
return; `queue`, `cur`, `handled` are the pass's own and are lost when it dies
(`Crash`), while its agent may live on (`orphan`) and leave work nobody committed
in a checkout (`dirty`). `handled` reaches the watermark in one place, the
aggregate record (`PassEnds`). `starts`, `left`, `posts`, `unread`, `owed` are
history variables.

### AgentSession

`execute_run` with `prompt_with_watchdog` and the herdr adapter under it. herdr
knows an agent by name, and a job has one name: `holder` is the status of who
holds it, `mine` whether that is the latest run's. `pc` follows the code: reap a
settled pane, open one, start, close a sticky (blocked or unknown) agent that
holds the name and start once more, wait until ready, prompt with retries, poll
the screen for a failure marker, settle, look for the report, nudge, close,
judge. A check of the status and the close that follows it are two steps, for a
human may answer in between (`HumanRevives`). A prompt that fails is "rejected"
(an error code of the server, and only then is it sent again), "timeout" or
"unclear"; after the last two the agent may have got it. `own` is `owns_pane`: a
job in the root workspace shares its pane and closes it on failure only. `got`
counts deliveries, `left` says why the agent that holds the name is still there,
and `began` how much had interfered when the run began: `trouble = began` is a run
that herdr, the host and people left alone.

### SelfUpdate

Commits are the numbers of main. An update is `Acquires`, `Fetches`,
`StopsAtGate` or `PassesGate`, `Baseline`, `Merges`, `Rereads`, `Updates` or
`Rejects`, `Resets`, `Records`, all under the tick lock, and may die between any
two. A tick loads its code (`TickLoads`) before it asks for the lock
(`TickLocks`). `dirty` and `ahead` are what people leave in the checkout: edited
files, and commits of their own on top. The checkout stays on main, and the code
of a tick is named by the commit of main it is on. `green`, `broken` and `fewer`
are what CI, validate on this host, and the job count say of a commit.

`_git` turns a call that times out into rc 124 with nothing on stdout, which says
nothing of what git did. The fault "git" is such a call, at each of the update's:
a status that looks clean (`Fetches`), a merge that moved HEAD and counts as
failed (`Merges`) or did not (`MergesNothing`, by `Stalls`), a HEAD that is not
told (`Rereads`), a reset that did nothing (`Resets`). A git killed half-way may
leave files or an index.lock behind, which for the update is the same as edited
files: `dirty`. `git reset --keep` takes commits made on top along. A human takes
back commits of his own only while no update runs (`HumanCommits`).

`proven`, `abandoned`, `unjudged`, `doubted`, `tries` and `deaths` are history
variables: the commits that were validated, those an update could not undo, died
on or found somebody's commits on top of, those it returned on without git's
answer, those rejected because a validate timed out.

*What it refines.* `HostCode` knows no HEAD, only the code of the host: `Base`,
which is HEAD but while an update tries a commit out, when it is what HEAD goes
back to. A night that ends in a rollback must therefore be a stutter, and one that
keeps its commit a single step, to a commit whose checks passed, with no
run open; whether it validated (`Advances`), could not be left (`SticksTo`) or
was never judged (`SlipsTo`) is the step's name.

## Runs

| run | instance | checks | result |
|---|---|---|---|
| `pipeline_core` | 2 runs, 1 resume, all faults but the disruptive ones, symmetry | `OneRunAtATime`, `WorkIsOpen`, `WatchdogTargetIsDead`, `VerdictMatchesReport` | 1.7 M states |
| `pipeline_crash` | 2 runs, tick and watchdog die anywhere | `KeepsRecords` | 1.1 M states |
| `pipeline_liveness` | 1 run, breakdowns that stop in the end | `EveryRunCloses`, `EveryRunIsReported`, `EveryOccurrenceSettles` | 14 k states |
| `audit_ledger` | 2 findings, 2 severities, 2 attempts, 1 per dispatch, all faults but `query` | `AttemptsAreWrittenAhead`, `NothingOwedIsForgotten`, `FlappingEarnsOne`, `OneAgent` | 348 k states |
| `audit_liveness` | as above, runs by hand, no tick dies | `OnlyTheOwedIsDispatched`, `OwedIsServed` | 211 k states |
| `stages` | 1 resume and 2 fix rounds as in the code, 1 model failure, death at any step | `BaseIsTheWorkBefore`, `CheckpointsAreEarned`, `PrIsHonest`, `PassedStagesAreFrozen`, `KeepsPromise`, `EveryNightIsReported` | 1.1 M states |
| `claims` | 2 runs after 1 issue, night after night, deaths, silence, a torn store | `OneBuilder`, `NoRivalPr`, `WorkSurvives`, `StaleClaimIsReleased` | 60 k states |
| `routine` | 3 occurrences, the last at a wall-clock time that comes twice, a catch-up of 1, 6 moments, 1 event, a fallback, 1 retry, ticks that die or raise | `NothingVanishes`, `FiresOnce`, `EventsFireOnce`, `OccurrencesSettle` | 541 k states |
| `dispatch` | 2 targets, cap 1, 2 attempts, every mode, every fault, 2 interferences | `AttemptsAreBounded`, `ReviewsAreBounded`, `WatermarkIsEarned`, `Served` | 143 k states |
| `session` | both kinds of workspace, 2 prompt retries, 5 interferences | `PromptedOnce`, `NoAgentLeftBehind`, `UndisturbedIsPrompted`, `NameIsFreed` | 42 k states |
| `selfupdate` | 2 new commits of any worth, 1 interference, deaths, validates and git calls that time out | `OnlyProvenCodeRuns`, `RejectedOnce`, `KeepsHostCode`, `GoodCodeArrives` | 124 k states |
| `pipeline_reboot` | the reboot alone | `OneRunAtATime` | violated, see below |

Type correctness is in no run: it is a theorem of each module with proofs, and
checking it as well would say nothing more. For the same reason seven properties
with a theorem (`ResumesAreCapped`, `OneVerdictEach`, `ClosedIsFinal`,
`ReportedIsNotResumed`, `NoneShadowed`, `RunsKeepTheirCode`,
`OnlyJudgedCodeRuns`) are not run either; nor are the bounds and the choices of
the section on what runs out, which the proof modules define.

Bounds, and why they do. Two runs are what exclusion and shadowing are about: a
third adds no step that two do not have, since the history's open run and the
watchdog's sweep relate a run to one other at a time. One resume reaches "resume,
die again, reap". `ResumeBound` only caps the resumes of a run whose `state.json`
cannot be written. At most one cron occurrence is outstanding. Two findings
compete for a dispatch of one; two attempts reach "spent one", "spent all" and,
with `ArrivalBound` 2, "came back with all spent". `OrphanBound` 2 lets `OneAgent`
fail by one agent more than it may. `MaxResumes` and
`MaxFixRounds` of `stages` are the code's own values; `MaxFallbacks` 1 puts the
one model failure in any stage or fix round.

`claims` has one issue since a second one only gives a pick somewhere else to
go: rivals want the same one. Two runs are a rival and the holder, and each is
many nights. `routine` has occurrences at 2, 4 and 5, and the wall clock shows
the same at 4 and 5, as on fall-back day: with a catch-up of one, an occurrence
can be run, collapsed into the next or missed, a run of the one can be in the
way of the next, and the hour that comes twice can be run once, twice or not at
all. `Trouble` 3 lets a pass die on each, with a request besides;
`OccurrencesSettle` needs the rest of the horizon. Two targets and a cap of one
make a target wait for another; two attempts reach the budget. `session` needs
five interferences for its longest story: a run dies, its agent is revived, the
next guard fails open, a prompt is lost, a close fails. All bounds are guards,
so liveness is checked without state constraints, and every theorem holds
without them.

### Fairness

`PipelineLiveness`: systemd's timers keep starting both processes and each
finishes the pass it began, so every tick and watchdog step is weakly fair; a
unit ends because of `RuntimeMaxSec`; no heartbeat outlives its unit. Strong
fairness of `Ages(r)`: a sweep takes seconds of its 15 min period, so the clock
moves between sweeps although each of them disables it. The properties assume
`Calm`: crashes and reboots stop in the end; the runs, their failures and every
other fault go on. `AuditLedger`: weak fairness of the cycle's steps, and strong
fairness of `AuditReports`, as a night whose audit fails serves nobody.
`PipelineStages`: weak fairness of the process as a whole, since every prompt
and check has a timeout and a failure ends the run, and of the watchdog, whose
timer finds a dead unit. An agent, a death and the deadline are owed nothing.

`FeatureClaims`: each run's process moves on or dies, is reported, and gives way
to another night (`Moves`); a gc goes through its list. The strong fairness of
`Sync`, `Lock`, the two questions to GitHub, `Release` and `Saves` says that this
does not fail every night: some night syncs, some process gets the flock, GitHub
answers it, and it lives to save. `RoutineSchedule`: the clock, the timer's tick
and a pass's next step are weakly fair, and an agent left alone stops;
`OrphanSettles` is needed since a live agent keeps the job from firing.
`WorkerDispatch`: the timer fires and a pass goes on, nothing of agents, people
or GitHub. `AgentSession`: the schedule fires when no agent is at work, a run goes
on, a working agent stops some day. `SelfUpdate`: the nightly timer fires at
times when the lock is free, and some night the update gets it (`SF` of
`TimerFires` and `Acquires`, for ticks take and release it in between); not
every update is a dry run (`SF` of `PassesGate`); ticks end.

### Where the code says otherwise

`PROJECT.json` quotes the line for each of these under `findings`. The first
is a run of the project; where another names a property, TLC finds it violated
under the configuration it gives.

* `pipeline_reboot`: after a reboot tick closes the run without a report; the
  watchdog, which goes by the report, resumes it under the closed run id; a
  request is then not refused, and two runs work at once.
* The resume goes ahead when the count that caps it cannot be written:
    `ResumesAreCapped` fails in `pipeline_crash` with `Faults = {"stateWrite"}`.
* A resume drops the run's `trigger`, so a requested run that was resumed
  consumes a cron occurrence: `RequestsConsumeNothing` fails in `pipeline_crash`
  with `Faults = {}`; `CountsAsScheduled` is where it happens.
* A merge that is killed at its timeout after it moved HEAD, or a re-read of HEAD
  that times out, makes self-update return `refused` on a commit nobody
  validated, without a rollback, and later ticks run it: `OnlyJudgedCodeRuns`
  fails in `selfupdate`, with `Faults = {"git"}` already.
* Before a run closes an agent that holds its name, it looks at the agent's
  status, in another call to herdr: one that a human answers in between is closed
  at its work. `WorkersAreSpared` fails in `session`, with `MaxTries = 0` and
  `Trouble = 2` already.
* A tick that dies between the collapsed `missed` record and the `running` one of
  the same decision loses the occurrence it was about to run: `NothingVanishes`
  fails in `routine` with
  `Cron = {2, 3, 5}` and `Faults = {"crash", "torn"}`: 2 and 3 fall due together.
* A finding at its budget that resolves and comes back is dispatched again, once
  per return. `FlappingEarnsOne` is what does hold.
* A run by hand of an audit job passes none of its guards but the tick lock, so
  it can start an agent beside an orphan: `OneAgent` fails with
  `Faults = {"tickCrash"}` and `ByHand = TRUE`.
* A run that dies after its push is resumed, replays stage 5, finds the check red
  past the new deadline and reports "nothing was pushed" (`StopsFixing`).
* A wall-clock time that comes twice on fall-back day is deduplicated within one
  call of `_occurrences_between` only: the tick after the first records its run,
  and the second fires too. `FiresOnce` speaks of an occurrence, not of a
  wall-clock time; `routine` has such a day, and both are run.
* `classify_review_candidates`: when the marker guard drops a candidate, the
  first one past the window moves up unread. `unread` in `ReviewsAreBounded`
  stands for that.
* `gc --delete`: GitHub's silence reads as "no open pull request", so a branch
  with a merged and an open one may go. `WorkSurvives` speaks of work on no
  branch GitHub has merged.

Behaviour the models have that no document rules out, and that the properties
are stated around: `herdr-routines run` over a dead run's open record hides it from
recovery (the fault "shadow"); a fallback's run id is made of the pass's `now`,
so two attempts of one pass share it; `interrupted_unknown` and
`agent_name_live` records take due occurrences with them (`blocked`); a `pr`
pass caps before it looks at budgets, so an exhausted PR starves a younger one
(`Served` leaves that mode out); a review killed for its quota is free even if
it posted, and one that died has no record of its target (`left`); an update
that dies between the fast-forward and its verdict leaves a commit that the next
night calls up to date (`abandoned`); a tick may have loaded a commit that is
rolled back before it gets the lock (`raced`); a job in the root workspace
leaves an idle agent that holds its name until someone closes it (`own` in
`NameIsFreed`). That a rejection with an error
code means "not delivered" is herdr's promise, and an assumption here.

## Proofs

`tlapm` checks every theorem to the leaves; none rests on an assumption beyond
the `ASSUME` of its module, which says what kind of values the constants are.

`PipelineLifecycle_proofs`. `TypeCorrect` comes first. `CapHolds` and
`VerdictsAreFinal` need small invariants and hold under every fault (the cap as
long as `state.json` can be written): resume units never outnumber
`resumeCount`, plus the one being registered; and between judging a run and
closing it nobody else appends its terminal record. The others need that tick
and watchdog agree about a run, and each excludes exactly the faults that break
it; TLC finds the counterexample for every cross on two runs:

| theorem | `reboot` | `late` | `tickCrash` | `launchTimeout` | every other fault |
|---|---|---|---|---|---|
| `NoRunIsShadowed`, `ClosedStaysClosed`, `ReportedStaysEnded`, `ImplementsRecords` | ✗ | ✗ | holds | holds | holds |
| `WatchdogActsOnTheDead`, `VerdictsMatchReports` | ✗ | ✗ | ✗ | holds | holds |
| `SingleFlight`, `WorkIsReconciled` | ✗ | ✗ | ✗ | ✗ | holds |

(`ImplementsRecords` also needs `stateWrite` to be absent, for the cap.) There is
one invariant for each row, and each rests on the one above. `ShadowInv`: a
closed run has its report or never got a `state.json`; a run the watchdog is
about to resume is recorded, dead and unreported, hence the open one
(`ResumedIsOpen`), because tick closes only what has a report or is past the
backstop, where `OnTime` leaves nothing in flight; and what tick read of the
history stays true until it writes. The refinement maps each step from it:
`TickRecords` to `Opens`, `TickCloses` to `Closes`, a launch that is not recorded
to `Refuses`, `WdLaunches` and a resume that seems to fail to `Resumes`, all
others to a stutter. `DeadInv`: a run id with no record has nothing on disk or at
work, which is what a tick that dies between a launch and its record breaks, and
a report of success is the last word of its run. `FlightInv`: a unit at work
belongs to the open run or to one about to be recorded.

`VerdictsAreFinal` speaks of the appends themselves (`AppendsVerdict`), so that a
second record with the same outcome, which leaves `verdict` as it is, would count.

`AuditLedger_proofs`. `LedgerInv` ties the batch of a running cycle to the
entries just saved, which is what `AttemptsAreWrittenAhead`,
`NothingOwedIsForgotten` and `FlappingEarnsOne` rest on; they hold under every
fault. `OneAgentAtWork` assumes that herdr answers and that nothing is started
by hand: each assumption is needed.
`HandedOffStaysOff` assumes that no tick dies, no host reboots and no save fails
between a settled worker and the second save.

`PipelineStages_proofs`. `IInv` says that between its steps the process knows
what `state.json` says, but for the session just recorded, that `pc` fits the
stage, and that a PR is recorded only when there is one. `TypeCorrect`,
`PassedStagesStay` and `Implements` follow from it; the refinement maps the
initial state and then each step: `PassesGate` to `Climb`, `CreatesPr` to `Open`
or a stutter, the steps with a report to `End`. `WorkInv` adds the worktree:
which stage the agent at work belongs to, that it cannot work between the sweep
and the next base, and what each step of the bookkeeping has made sure of;
`BaseHolds` and `PrHolds` rest on it, and so does `EarnedInv`, which carries what
the gates have seen, the reviewed spec, the commit that added tests alone, the
pull request, through every later commit, sweep and fallback: `CheckpointsHold`.
They hold for any number of resumes, fix rounds and fallbacks.

`FeatureClaims_proofs`. `IInv` is `LockInv`, that only the holder of the lock is
inside the transaction, and `ClaimInv`: a claim stands for every run at work, in
the store and in any draft that was loaded from it, and is not past its lease
while the run has no `state.json` to speak for it; a claim lost to a torn store
is the exception it names. So a `Release` cannot free the issue of a run at work,
and a `Claim` cannot take it: `OneBuilderHolds`. `Quiet` names the steps, most of
them, that disturb none of this.
`RivalInv` says of a process past the last question to GitHub that each open
pull request is in the answer, or was opened since by a run whose claim stands in
the draft: `NoRivalHolds`. `WorkIsKept` needs `DoomInv`, that what gc has listed
stays dead and merged until gc comes to it.

`AgentSession_proofs`. `IInv` is `MineIsThere`, that a run's agent holds the
name; `Undelivered`, that the prompt is only sent again when no delivery
happened; and `LeftForAReason`. `PromptedOnce` and `NoAgentLeftBehind` follow,
for any number of retries. `Undisturbed` says of a run nothing interferes with
what may hold the name at each of its steps: past the guard nobody at work, past
the reap nobody settled, past the close of a sticky agent nobody. So its start
succeeds, first or second, and its prompt arrives, whatever earlier runs left
behind: `RunsDeliver`.

`RoutineSchedule_proofs`. `OccInv` says that an occurrence that was run is behind
the schedule or its run's record is still open, so that the tick that finds it
closes it first; `OccurrencesFireOnce` follows where no request writes over such
a record (the fault "shadow"). `VanishInv` says what each stage of a pass knows
of the occurrences that fell due: before a decision has left a record the old
ones are accounted for, after it the run about to start stands for the rest.
`decide` keeps the first occurrence of a wall-clock time, hence a least instant
with that time is picked by well-founded induction's minimum (`LeastExists`).
`OccurrencesAreAccountedFor` and `EventsHaveOneRun` need that no tick dies
or raises between two records (the fault "torn"). All hold for any schedule, `Wall`,
retries and horizon.

`WorkerDispatch_proofs`. `SpendInv`: whoever waits in the queue still has an
attempt, and each agent started is recorded, left behind or waited for.
`ReviewInv`: a target queued after its marker was looked at had none then, and
what it has since came from an agent left behind. `MarkInv`: what a pass is about
to mark is not owed. `BudgetsHold`, `ReviewsHold` and `WatermarkHolds` hold in
every mode, under every fault.

`SelfUpdate_proofs`. `HostInv` says that HEAD leaves the commits known to be good
only while an update holds the lock and tries one out, and goes back where it
was, unless the commit is one of `abandoned` or `unjudged`; and that no pipeline
run is opened meanwhile, which is `CodeIsKept`. `ProvenCodeRuns` holds with every
fault; `JudgedCodeRuns` adds that without the fault "git" nothing is `unjudged`.
`TryInv` orders HEAD, the last rejected commit and main: what was merged lies
behind one of them unless its verdict is still to come, so `RejectedStays`.
`ImplementsHostCode` needs of each step of an update what the earlier ones made
sure of: `GreenInv`, that the commit to merge passed its checks, and `StepInv`,
that no run is open and that it lies ahead of `old`, which is `Base` while it is
tried out. `Merges` is a stutter, `Updates` an `Advances`, a `Resets` that is
refused and a `Crash` in between a `SticksTo`, a merge or a re-read that times out
a `SlipsTo`.

### What runs out, and who is passed over

Fairness is out of the prover's reach, but what bounds a pass, a run or a wait is
safety, and for five of the liveness properties it is proved. It has two forms.

*A measure.* `StepsLeft` is a natural number with a bound, and each step of the
process makes it smaller: the process ends if it goes on, for any value of the
constants.

| theorem | bound | what it rules out |
|---|---|---|
| `NightRunsOut` (`PipelineStages`) | (`MaxResumes` + 1) * `LifeSteps` + 1, with `LifeSteps` = 16 * (3 * `MaxFixRounds` + 18) + 2 | fix rounds, fallbacks and resumes that feed each other; all but `AgentWorks` counts, deaths included |
| `PassesRunOut` (`RoutineSchedule`) | 4 * `RetryAttempts` + 7 steps, 2 * (`RetryAttempts` + 1) agents | a model out of quota every time under a retry that falls back every time |
| `PassesEnd` (`WorkerDispatch`) | 2 * `Cap` + 1, so `Cap` agents | a pass that refills its queue |
| `RunsEnd` (`AgentSession`) | 2 * `MaxTries` + 13, the polls of the wait aside | a prompt that is sent again for ever, a run that goes on fighting for its name |

The measures count down the places of a `pc` and, where the code goes back, the
budget it pays with: a fix round, a life, an attempt, a retry. `NightRunsOut`
needs that `pc` fits the stage and the round (`SpentInv`); the dead run a tick
recovers counts as one step because what was `Stale` is closed then
(`RecoveryIsFinal`).

*A choice.* Where the queue is longer than the cap, somebody waits; the theorem
says for whom. `OutrankedByAFullBatch`: an owed finding that a cycle does not
dispatch was passed over for a batch of `MaxPerDispatch` findings, each of which
comes before it in the order of the code and spends one of its own attempts.
`FlapsEarnOne` bounds how often each of those can do so, and so how long it waits,
which is `OwedIsServed`. `OlderOnesFirst`: the same of an event, issue or review
pass, where the older targets come first, and `BudgetsHold` bounds their attempts:
`Served`. (A `pr` pass caps before it looks at budgets; it is left out of both.)
Both theorems are for finite sets of findings and targets, for "the first `Cap`" of an infinite set
need not exist; that a batch is full rests on the least rank at which it would be
(`LeastNumber`, derived from the well-foundedness of strict inclusion, since the
library's induction takes an operator).

Only model-checked: the liveness properties (`EveryRunCloses`, `EveryRunIsReported`,
`EveryOccurrenceSettles`, `OwedIsServed`, `EveryNightIsReported`,
`StaleClaimIsReleased`, `OccurrencesSettle`, `Served`, `NameIsFreed`,
`GoodCodeArrives`), since fairness is out of the prover's reach; the last section
proves the bounds that five of them rest on.

## Not modelled

Configuration parsing (`config.py`: YAML in, dataclasses out, no state),
listings, digests and host checks (they read), the parsing of specs, of GitHub's
answers and of cron expressions, and the text of prompts, reports and
notifications. Tmp hygiene deletes leftovers under /tmp that nothing here reads.
Retention is `herdr-routines prune`, which only a person starts. It spares the
files of a run in flight, but it may delete the terminal report of a finished
one (`reports_prune.py:86`), by which the watchdog, the pick and `gc` know that
the run is over: if the run's worktree and `state.json` are still there, they
take it for one in flight again. No model has that step; they all assume that a
report outlasts its worktree, which the age limit makes likely and nothing
enforces. Of `gc`, the pipeline branches are modelled, other `auto/*` branches
and orphan directories are not, as no run comes back to them. Telegram
long-polls a chat and spawns `herdr-routines run`, the action `Request`.
Rotation of the history is left out because it renames whole files under the
tick lock; the watchdog reads without that lock and may see the history between
the rename and the new file, which `read_all` bridges by reading rolls in order.
`_record_unexpected_failure`, the last resort of a tick when a job raises, is
`Raises` of `RoutineSchedule`; the other kinds share it, and a pipeline's open
record it leaves to the watchdog, as a dead tick does. In the models of those
kinds only the failures the code expects are actions.

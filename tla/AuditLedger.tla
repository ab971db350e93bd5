----------------------------- MODULE AuditLedger -----------------------------
(***************************************************************************)
(* A `kind: audit` job: each cycle runs the audit, folds its manifest into *)
(* the findings ledger, and hands at most MaxPerDispatch findings to one   *)
(* fix worker (tick.py and findings.py).  The ledger is written before the *)
(* worker starts and once more when it settles; the cycle runs under the   *)
(* tick lock, but the agents it starts live in herdr and outlive a tick    *)
(* that dies.                                                              *)
(*                                                                         *)
(* A reboot closes no loop of its own here: herdr restores the agents as   *)
(* `blocked`, which no guard counts as live.                               *)
(***************************************************************************)
EXTENDS Naturals, FiniteSets

CONSTANTS
  Findings,       \* finding ids; their order breaks ties between severities
  MaxSeverity,    \* severities are 1..MaxSeverity
  MaxAttempts,    \* max_attempts_per_target
  MaxPerDispatch, \* max_findings_per_dispatch
  AdoptBaseline,  \* adopt_baseline
  ByHand,         \* whether `herdr-routines run` is used
  ArrivalBound,   \* bound: how often one finding may be reported as new
  OrphanBound,    \* bound: agents left behind by dead ticks
  Faults          \* what may go wrong, a subset of FaultKinds

(* "paneClose": the pane of an agent that failed cannot be closed;         *)
(* "corrupt": the ledger file is damaged.                                  *)
FaultKinds == {"tickCrash", "reboot", "query", "paneClose", "ledgerWrite", "corrupt"}

ASSUME AuditAssumption ==
  /\ Findings \subseteq Nat
  /\ MaxSeverity \in Nat
  /\ MaxAttempts \in Nat \ {0}
  /\ MaxPerDispatch \in Nat \ {0}
  /\ AdoptBaseline \in BOOLEAN
  /\ ByHand \in BOOLEAN
  /\ ArrivalBound \in Nat
  /\ OrphanBound \in Nat
  /\ Faults \subseteq FaultKinds

VARIABLES
  ledgerFile, \* the ledger file, as load_ledger finds it
  entry,      \* its entries: for a corrupt file, the last ones saved
  manifest,   \* the severity each finding is reported at, 0 if it is not
  batch,      \* dispatched_ids: the findings for this cycle's worker
  pc,         \* where the cycle is
  runOpen,    \* the latest `running` record has no terminal record
  runStale,   \* ... and is older than the timeouts of audit and worker
  orphans,    \* live agents that no tick waits for
  (* history of the properties *)
  owed,       \* findings that came (back) or regressed, not yet handed off
  given,      \* workers started for a finding, since its entry was made
  arrivals    \* how often a finding was reported as new

ledgerVars == <<ledgerFile, entry>>
runVars == <<runOpen, runStale>>
ghostVars == <<owed, given, arrivals>>
vars == <<ledgerVars, manifest, batch, pc, runVars, orphans, ghostVars>>

Severities == 1..MaxSeverity

Entries == [state : {"absent", "open", "resolved"}, severity : 0..MaxSeverity,
            attempts : Nat, queued : BOOLEAN]

NoEntry == [state |-> "absent", severity |-> 0, attempts |-> 0, queued |-> FALSE]

TypeOK ==
  /\ ledgerFile \in {"absent", "good", "corrupt"}
  /\ entry \in [Findings -> Entries]
  /\ manifest \in [Findings -> 0..MaxSeverity]
  /\ batch \in SUBSET Findings
  /\ pc \in {"idle", "audit", "diff", "dispatch", "fix", "handoff", "close"}
  /\ runOpen \in BOOLEAN
  /\ runStale \in BOOLEAN
  /\ orphans \in Nat
  /\ owed \in SUBSET Findings
  /\ given \in [Findings -> Nat]
  /\ arrivals \in [Findings -> Nat]

Init ==
  /\ ledgerFile = "absent"
  /\ entry = [f \in Findings |-> NoEntry]
  /\ manifest = [f \in Findings |-> 0]
  /\ batch = {}
  /\ pc = "idle"
  /\ runOpen = FALSE
  /\ runStale = FALSE
  /\ orphans = 0
  /\ owed = {}
  /\ given = [f \in Findings |-> 0]
  /\ arrivals = [f \in Findings |-> 0]

-----------------------------------------------------------------------------
(* The diff of a manifest against the ledger.                              *)

Reported(f) == manifest[f] > 0
Open(f) == entry[f].state = "open"

New == {f \in Findings : Reported(f) /\ ~Open(f)}
Regressed == {f \in Findings : Open(f) /\ manifest[f] > entry[f].severity}
Unchanged == {f \in Findings : Open(f) /\ Reported(f) /\ manifest[f] <= entry[f].severity}
Resolved == {f \in Findings : Open(f) /\ ~Reported(f)}

(* Mutant of Pool: what is still queued from an earlier cycle is left out. *)
Pool_FreshOnly == New \cup Regressed

(* dispatch_pool: everything owed a fix. *)
Pool == New \cup Regressed \cup {f \in Unchanged : entry[f].queued}

(* Mutant of Suppressed: one attempt too many.                             *)
Suppressed_OffByOne == {f \in Findings : Reported(f) /\ Open(f) /\ entry[f].attempts > MaxAttempts}

(* The open findings that have spent their budget. *)
Suppressed == {f \in Findings : Reported(f) /\ Open(f) /\ entry[f].attempts >= MaxAttempts}

(* _order_key: most severe first, then a fixed order. *)
Before(f, g) == manifest[f] > manifest[g] \/ (manifest[f] = manifest[g] /\ f < g)

(* The first MaxPerDispatch of a set of findings. *)
Capped(S) == {f \in S : Cardinality({g \in S : Before(g, f)}) < MaxPerDispatch}

Cold == ledgerFile = "absent"

(* Mutant of Batch: the cap is applied before the suppression.             *)
Batch_CapFirst == IF Cold /\ AdoptBaseline THEN {} ELSE Capped(Pool) \ Suppressed

Batch == IF Cold /\ AdoptBaseline THEN {} ELSE Capped(Pool \ Suppressed)

(* Mutant of Queued: only what this cycle dispatches is kept in the queue. *)
Queued_Dispatched == Batch

(* What the diff puts in the queue: nothing when it adopts a baseline. *)
Queued == IF Cold /\ AdoptBaseline THEN {} ELSE New \cup Regressed

(* apply_diff: the entry of f afterwards.  The dispatched ones have spent  *)
(* an attempt, a finding that comes back keeps the ones it had spent, and  *)
(* what is resolved is no longer queued.                                   *)
Applied(f) ==
  [state    |-> IF Reported(f) THEN "open" ELSE IF Open(f) THEN "resolved" ELSE entry[f].state,
   severity |-> IF Reported(f) THEN manifest[f] ELSE entry[f].severity,
   attempts |-> entry[f].attempts + (IF f \in Batch THEN 1 ELSE 0),
   queued   |-> Reported(f) /\ (f \in Queued \/ (Open(f) /\ entry[f].queued))]

(* prune_ledger may drop entries that were resolved before this cycle and  *)
(* have not come back.                                                     *)
Prunable == {f \in Findings : entry[f].state = "resolved" /\ ~Reported(f)}

-----------------------------------------------------------------------------
(* The cycle.                                                              *)

(* The run gets its terminal record and the tick moves on. *)
CycleEnds ==
  /\ pc' = "idle"
  /\ runOpen' = FALSE /\ runStale' = FALSE
  /\ manifest' = [f \in Findings |-> 0] /\ batch' = {}

(* The agent that failed is closed, or not. *)
ClosesPane ==
  \/ UNCHANGED orphans
  \/ "paneClose" \in Faults /\ orphans < OrphanBound /\ orphans' = orphans + 1

(* Appends the `running` record. *)
RunBegins ==
  /\ pc' = "audit"
  /\ runOpen' = TRUE /\ runStale' = FALSE
  /\ UNCHANGED <<ledgerVars, manifest, batch, orphans, ghostVars>>

(* Mutant of CycleStarts: live agents are not asked about.                 *)
CycleStarts_Blind ==
  /\ pc = "idle"
  /\ runOpen => runStale
  /\ RunBegins

(* The cron fires, past the guards: no run in progress (a stale one is     *)
(* recorded as interrupted first) and no live agent of the job, as far as  *)
(* herdr can be asked.                                                     *)
CycleStarts ==
  /\ pc = "idle"
  /\ runOpen => runStale
  /\ orphans = 0 \/ "query" \in Faults
  /\ RunBegins

(* A stale run is recorded as interrupted, and nothing starts: the cron is *)
(* not due or an agent is live.                                            *)
TickRecovers ==
  /\ pc = "idle"
  /\ runOpen /\ runStale
  /\ runOpen' = FALSE /\ runStale' = FALSE
  /\ UNCHANGED <<ledgerVars, manifest, batch, pc, orphans, ghostVars>>

(* `herdr-routines run` dispatches behind the schedule and the guards.     *)
Request ==
  /\ ByHand
  /\ pc = "idle"
  /\ RunBegins

(* No clone, no worktree, no agent, no verifiable manifest: the ledger is  *)
(* not looked at.                                                          *)
AuditFails ==
  /\ pc = "audit"
  /\ CycleEnds
  /\ ClosesPane
  /\ UNCHANGED <<ledgerVars, ghostVars>>

(* A valid manifest: any findings, at any severity. *)
AuditReports ==
  /\ pc = "audit"
  /\ manifest' \in [Findings -> 0..MaxSeverity]
  /\ \A f \in Findings : manifest'[f] > 0 /\ ~Open(f) => arrivals[f] < ArrivalBound
  /\ pc' = "diff"
  /\ UNCHANGED <<ledgerVars, batch, runVars, orphans, ghostVars>>

(* A corrupt ledger is never taken for a cold start. *)
DiffRefuses ==
  /\ pc = "diff"
  /\ ledgerFile = "corrupt"
  /\ CycleEnds
  /\ UNCHANGED <<ledgerVars, orphans, ghostVars>>

(* The diff is folded in, pruned and saved, before anything is dispatched. *)
DiffSaves ==
  /\ pc = "diff"
  /\ ledgerFile # "corrupt"
  /\ \E pruned \in SUBSET Prunable :
       /\ entry' = [f \in Findings |-> IF f \in pruned THEN NoEntry ELSE Applied(f)]
       /\ given' = [f \in Findings |-> IF f \in pruned THEN 0 ELSE given[f]]
  /\ ledgerFile' = "good"
  /\ batch' = Batch
  /\ pc' = "dispatch"
  /\ owed' = IF Cold /\ AdoptBaseline THEN {} ELSE (owed \cup New \cup Regressed) \ Resolved
  /\ arrivals' = [f \in Findings |-> arrivals[f] + (IF f \in New THEN 1 ELSE 0)]
  /\ UNCHANGED <<manifest, runVars, orphans>>

(* baseline, passed or suppressed: the run is done. *)
NothingToFix ==
  /\ pc = "dispatch"
  /\ batch = {}
  /\ CycleEnds
  /\ UNCHANGED <<ledgerVars, orphans, ghostVars>>

WorkerStarts ==
  /\ pc = "dispatch"
  /\ batch # {}
  /\ given' = [f \in Findings |-> given[f] + (IF f \in batch THEN 1 ELSE 0)]
  /\ pc' = "fix"
  /\ UNCHANGED <<ledgerVars, manifest, batch, runVars, orphans, owed, arrivals>>

(* No worktree or no agent, or the worker does not settle: the findings    *)
(* stay queued, their attempt is spent.                                    *)
WorkerFails ==
  /\ pc = "fix" \/ (pc = "dispatch" /\ batch # {})
  /\ CycleEnds
  /\ ClosesPane
  /\ UNCHANGED <<ledgerVars, ghostVars>>

WorkerSettles ==
  /\ pc = "fix"
  /\ pc' = "handoff"
  /\ owed' = owed \ batch
  /\ UNCHANGED <<ledgerVars, manifest, batch, runVars, orphans, given, arrivals>>

(* mark_handed_off: no longer owed a dispatch. *)
Unqueued(e) == [state |-> e.state, severity |-> e.severity, attempts |-> e.attempts,
                queued |-> FALSE]

(* Mutant of HandsOff: the ledger is left as it was.                       *)
HandsOff_Keeps ==
  /\ pc = "handoff"
  /\ pc' = "close"
  /\ UNCHANGED <<ledgerVars, manifest, batch, runVars, orphans, ghostVars>>

(* mark_handed_off, on the ledger in memory, and the second save. *)
HandsOff ==
  /\ pc = "handoff"
  /\ entry' = [f \in Findings |->
                 IF f \in batch THEN Unqueued(entry[f]) ELSE entry[f]]
  /\ ledgerFile' = "good"
  /\ pc' = "close"
  /\ UNCHANGED <<manifest, batch, runVars, orphans, ghostVars>>

Closes ==
  /\ pc = "close"
  /\ CycleEnds
  /\ UNCHANGED <<ledgerVars, orphans, ghostVars>>

(* Mutant of SaveFails: the diff's save is tried, and the worker starts    *)
(* all the same.                                                           *)
SaveFails_GoesOn ==
  /\ "ledgerWrite" \in Faults
  /\ pc = "diff" /\ ledgerFile # "corrupt"
  /\ batch' = Batch
  /\ pc' = "dispatch"
  /\ UNCHANGED <<ledgerVars, manifest, runVars, orphans, ghostVars>>

(* A save that raises leaves the file as it was, and the run is recorded   *)
(* as failed unexpectedly.                                                 *)
SaveFails ==
  /\ "ledgerWrite" \in Faults
  /\ pc \in {"diff", "handoff"}
  /\ CycleEnds
  /\ UNCHANGED <<ledgerVars, orphans, ghostVars>>

-----------------------------------------------------------------------------
(* Around the cycle.                                                       *)

Halts == pc' = "idle" /\ manifest' = [f \in Findings |-> 0] /\ batch' = {}

(* An agent the cycle is waiting for. *)
Waiting == pc \in {"audit", "fix"}

(* The tick dies: its agent works on, its `running` record stays open. *)
TickCrashes ==
  /\ "tickCrash" \in Faults
  /\ pc # "idle"
  /\ Halts
  /\ IF Waiting THEN orphans < OrphanBound /\ orphans' = orphans + 1
                ELSE UNCHANGED orphans
  /\ UNCHANGED <<ledgerVars, runVars, ghostVars>>

(* The agents come back `blocked`, which is not live. *)
Reboots ==
  /\ "reboot" \in Faults
  /\ Halts
  /\ orphans' = 0
  /\ UNCHANGED <<ledgerVars, runVars, ghostVars>>

(* The timeouts of audit and worker and the margin go by. *)
RunAges ==
  /\ pc = "idle"
  /\ runOpen /\ ~runStale
  /\ runStale' = TRUE
  /\ UNCHANGED <<ledgerVars, manifest, batch, pc, runOpen, orphans, ghostVars>>

OrphanEnds ==
  /\ orphans > 0
  /\ orphans' = orphans - 1
  /\ UNCHANGED <<ledgerVars, manifest, batch, pc, runVars, ghostVars>>

FileDamaged ==
  /\ "corrupt" \in Faults
  /\ ledgerFile = "good"
  /\ ledgerFile' = "corrupt"
  /\ UNCHANGED <<entry, manifest, batch, pc, runVars, orphans, ghostVars>>

(* A person restores the file, or removes it and starts cold. *)
FileRepaired ==
  /\ pc = "idle"
  /\ ledgerFile = "corrupt"
  /\ \/ ledgerFile' = "good" /\ UNCHANGED <<entry, owed, given>>
     \/ /\ ledgerFile' = "absent"
        /\ entry' = [f \in Findings |-> NoEntry]
        /\ owed' = {}
        /\ given' = [f \in Findings |-> 0]
  /\ UNCHANGED <<manifest, batch, pc, runVars, orphans, arrivals>>

Cycle ==
  \/ CycleStarts \/ TickRecovers \/ Request \/ AuditFails \/ AuditReports
  \/ DiffRefuses \/ DiffSaves \/ NothingToFix \/ WorkerStarts \/ WorkerFails
  \/ WorkerSettles \/ HandsOff \/ Closes \/ SaveFails

Next ==
  \/ Cycle
  \/ TickCrashes \/ Reboots \/ RunAges \/ OrphanEnds \/ FileDamaged \/ FileRepaired

Spec == Init /\ [][Next]_vars

(* The timer keeps starting ticks and a tick finishes what it does; the    *)
(* audit does not fail every night; an agent left behind ends some day.    *)
Fairness ==
  /\ WF_vars(CycleStarts) /\ SF_vars(AuditReports) /\ WF_vars(DiffSaves)
  /\ WF_vars(NothingToFix) /\ WF_vars(WorkerStarts)
  /\ WF_vars(WorkerFails \/ WorkerSettles) /\ WF_vars(HandsOff) /\ WF_vars(Closes)
  /\ WF_vars(AuditFails \/ AuditReports) /\ WF_vars(OrphanEnds) /\ WF_vars(RunAges)

FairSpec == Spec /\ Fairness

-----------------------------------------------------------------------------
(* Properties.                                                             *)

(* Write-ahead: no worker is started for a finding whose attempt is not in *)
(* the ledger already, so no crash hands out an attempt twice.             *)
AttemptsAreWrittenAhead == \A f \in Findings : given[f] <= entry[f].attempts

(* What came (back) or regressed and no worker has settled with stays open *)
(* and queued in the ledger: capped out, failed or interrupted, it never   *)
(* sinks into the backlog.                                                 *)
NothingOwedIsForgotten ==
  \A f \in owed : entry[f].state = "open" /\ entry[f].queued

(* The budget, across everything: a finding is dispatched at most          *)
(* MaxAttempts times, plus once for every time it comes back.              *)
FlappingEarnsOne ==
  \A f \in Findings : arrivals[f] > 0 => entry[f].attempts < MaxAttempts + arrivals[f]

(* The job's agents: never two at work. *)
OneAgent == orphans + (IF Waiting THEN 1 ELSE 0) <= 1

(* A finding some worker settled with is not dispatched again unless it    *)
(* regressed or came back: an unmerged fix is not redone every cycle.      *)
OnlyTheOwedIsDispatched ==
  [][\A f \in Findings : given'[f] > given[f] => f \in owed]_vars

(* A finding that is owed a fix is handed off, resolves, or has spent its  *)
(* budget in the end, however many others outrank it.                      *)
OwedIsServed ==
  \A f \in Findings :
    f \in owed ~> (f \notin owed \/ entry[f].attempts >= MaxAttempts)
=============================================================================

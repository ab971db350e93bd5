--------------------------- MODULE RoutineSchedule ---------------------------
(***************************************************************************)
(* One plain routine job (tick.py, schedule.py, history.py): the guards of *)
(* a tick, the cron decision with its catch-up window, the event poll, and *)
(* a run with its fallback model and retries.  Everything the next tick    *)
(* decides is read from history.jsonl, so the model keeps of that file     *)
(* what its queries return.                                                *)
(*                                                                         *)
(* Ticks and `herdr-routines run` hold the tick lock: one pass at a time,  *)
(* each with a `now` of its own.  A pass may die anywhere; the agent it    *)
(* waited for may live on.                                                 *)
(***************************************************************************)
EXTENDS Naturals, FiniteSets

CONSTANTS
  Cron,          \* the instants the cron expression matches
  Wall,          \* the local wall-clock time of each: repeated on fall-back day
  CatchUp,       \* catch_up_minutes
  StaleAfter,    \* timeout_ms and STALE_MARGIN
  Events,        \* the events of the `issues:opened` trigger
  HasFallback,   \* fallback_model is set, and is not the model
  RetryOn,       \* retry_on, a subset of Reasons
  RetryAttempts, \* retry_attempts
  Faults,        \* what may go wrong, a subset of FaultKinds
  Trouble,       \* bound: the world acts and ticks die only until then
  Horizon        \* bound: the clock stops here

Reasons == {"quota_exhausted", "other"}

(* "torn": a tick dies or raises after a record of its decision and before *)
(* the `running` record; "shadow": `herdr-routines run` while the record of a  *)
(* dead run is still open; "raise": a step of a tick raises what nothing   *)
(* expected, and the tick goes on with the next job.                       *)
FaultKinds == {"crash", "torn", "shadow", "raise", "query", "poll"}

Times == 0..Horizon

ASSUME RoutineAssumption ==
  /\ Horizon \in Nat \ {0}
  /\ Trouble \in Nat
  /\ Cron \subseteq 1..Horizon
  /\ Wall \in [Cron -> Nat]
  /\ CatchUp \in Nat
  /\ StaleAfter \in Nat
  /\ "none" \notin Events
  /\ HasFallback \in BOOLEAN
  /\ RetryOn \subseteq Reasons
  /\ RetryAttempts \in Nat
  /\ Faults \subseteq FaultKinds

(* A run id is what it is made from: the occurrence, or the pass' `now`.   *)
RunIds == [of : {"cron", "now", "fallback"}, at : Times, retry : 0..RetryAttempts]

VARIABLES
  clock,     \* the time
  now,       \* the `now` of the latest pass
  pc,        \* where the pass is
  (* what the queries on history.jsonl return *)
  firstSeen, \* first_seen_at, 0 if the job was never seen
  lastRun,   \* the time of last_scheduled_terminal_run, 0 if there is none
  latest,    \* the id of the latest `running` record, or none
  latestAt,  \* ... and its time
  closed,    \* the run ids with a terminal record
  offIds,    \* the run ids whose latest `running` record is off-schedule
  watermark, \* _last_seen_event_ids
  baselined, \* whether any poll has succeeded
  pollDown,  \* _last_event_poll_failed
  (* the pass, and the world *)
  run,       \* the run being dispatched
  orphan,    \* a live agent that no tick waits for
  open,      \* the events GitHub would return
  (* history of the properties *)
  told,      \* wall-clock times a record of the history stands for
  blocked,   \* ... and those a dead run, a live agent or an error kept from firing
  fires,     \* how often each occurrence was run
  adopted,   \* events taken into the watermark as the baseline
  answers    \* runs fired for an event since it entered the watermark

historyVars == <<firstSeen, lastRun, latest, latestAt, closed, offIds>>
eventVars == <<watermark, baselined, pollDown, adopted>>
ghostVars == <<told, blocked, fires>>
vars == <<clock, now, pc, historyVars, eventVars, run, orphan, open, ghostVars, answers>>

NoId == [of |-> "none", at |-> 0, retry |-> 0]
NoEvent == "none"

(* `base`: the run id of its first attempt; `off`: its trigger is not the  *)
(* cron; `wrote`: its decision already left a record.                      *)
Runs == [base : RunIds \cup {NoId}, id : RunIds \cup {NoId}, off : {TRUE, FALSE}, event : Events \cup {NoEvent},
         wrote : {TRUE, FALSE}, fellBack : {TRUE, FALSE}, attempt : 0..RetryAttempts]

NoRun == [base |-> NoId, id |-> NoId, off |-> FALSE, event |-> NoEvent, wrote |-> FALSE,
          fellBack |-> FALSE, attempt |-> 0]

ClockTypeOK ==
  /\ clock \in Times
  /\ now \in Times
  /\ pc \in {"idle", "guards", "poll", "dispatch", "running", "fallback", "retry"}
  /\ firstSeen \in Times
  /\ lastRun \in Times
  /\ latestAt \in Times
  /\ baselined \in BOOLEAN
  /\ pollDown \in BOOLEAN
  /\ orphan \in BOOLEAN

RunTypeOK ==
  /\ latest \in RunIds \cup {NoId}
  /\ closed \subseteq RunIds
  /\ offIds \subseteq RunIds
  /\ run \in Runs
  /\ pc \in {"dispatch", "running", "fallback", "retry"} => {run.base, run.id} \subseteq RunIds
  /\ pc = "dispatch" /\ run.id.of = "cron" => run.id.at \in Cron
  /\ pc = "retry" => run.attempt < RetryAttempts

EventTypeOK ==
  /\ watermark \subseteq Events
  /\ open \subseteq Events
  /\ told \subseteq Nat
  /\ blocked \subseteq Nat
  /\ fires \in [Cron -> Nat]
  /\ adopted \subseteq Events
  /\ answers \in [Events -> Nat]

(* Every variable stays in its set, and a run under way has an id.         *)
TypeOK == ClockTypeOK /\ RunTypeOK /\ EventTypeOK

Init ==
  /\ clock = 1
  /\ now = 0
  /\ pc = "idle"
  /\ firstSeen = 0
  /\ lastRun = 0
  /\ latest = NoId
  /\ latestAt = 0
  /\ closed = {}
  /\ offIds = {}
  /\ watermark = {}
  /\ baselined = FALSE
  /\ pollDown = FALSE
  /\ run = NoRun
  /\ orphan = FALSE
  /\ open \in SUBSET Events
  /\ told = {}
  /\ blocked = {}
  /\ fires = [o \in Cron |-> 0]
  /\ adopted = {}
  /\ answers = [e \in Events |-> 0]

-----------------------------------------------------------------------------
(* schedule.py *)

(* The clock's starting point: the last scheduled run, else first sight.   *)
Since == IF lastRun > 0 THEN lastRun ELSE firstSeen

(* The occurrences in (s, now], one for each local wall-clock time.        *)
OccurrencesSince(s) ==
  {o \in Cron : /\ s < o
                /\ o <= now
                /\ \A p \in Cron : s < p /\ p < o => Wall[p] # Wall[o]}

Due == OccurrencesSince(Since)

IsLatest(o) == o \in Due /\ \A p \in Due : p <= o

Earlier(o) == Due \ {o}

InTime(o) == now <= o + CatchUp

WallsOf(S) == {Wall[o] : o \in S}

-----------------------------------------------------------------------------
(* history.py *)

IsOpen == latest # NoId /\ latest \notin closed

(* Mutant of PastDeadline: a dead run's record never gets old. *)
PastDeadline_Never == FALSE

PastDeadline == now > latestAt + StaleAfter

Stale == IsOpen /\ PastDeadline

(* Mutant of CurrentlyRunning: the overlap guard is gone. *)
CurrentlyRunning_Never == FALSE

CurrentlyRunning == IsOpen /\ ~PastDeadline

(* Mutant of Counts: every terminal record feeds the schedule. *)
Counts_All(id, off) == TRUE

(* Whether a terminal record counts as the last scheduled run. *)
Counts(id, off) == ~off /\ id \notin offIds

(* A terminal record of a run is appended. *)
Closes(id, off) ==
  /\ closed' = closed \cup {id}
  /\ lastRun' = IF Counts(id, off) THEN now ELSE lastRun
  /\ UNCHANGED <<firstSeen, latest, latestAt, offIds>>

(* A terminal record without a run id and without a trigger is appended.   *)
Notes ==
  /\ lastRun' = now
  /\ UNCHANGED <<firstSeen, latest, latestAt, closed, offIds>>

(* A `running` record is appended. *)
Opens(id, off) ==
  /\ latest' = id
  /\ latestAt' = now
  /\ offIds' = IF off THEN offIds \cup {id} ELSE offIds \ {id}
  /\ UNCHANGED <<firstSeen, lastRun, closed>>

-----------------------------------------------------------------------------
(* The guards of a tick.                                                   *)

(* A pass reads its `now` only: time that passes in it matters once it is  *)
(* over, and is let pass while its agent works.                            *)
Elapses ==
  /\ clock < Horizon
  /\ pc \in {"idle", "running"}
  /\ clock' = clock + 1
  /\ UNCHANGED <<now, pc, historyVars, eventVars, run, orphan, open, ghostVars, answers>>

(* Every pass that takes the lock has a moment of its own. *)
TakesLock ==
  /\ pc = "idle"
  /\ clock > now
  /\ now' = clock
  /\ UNCHANGED clock

TickRegisters ==
  /\ TakesLock
  /\ firstSeen = 0
  /\ firstSeen' = clock
  /\ UNCHANGED <<pc, lastRun, latest, latestAt, closed, offIds, eventVars, run, orphan,
                 open, ghostVars, answers>>

TickStarts ==
  /\ TakesLock
  /\ firstSeen > 0
  /\ pc' = "guards"
  /\ UNCHANGED <<historyVars, eventVars, run, orphan, open, ghostVars, answers>>

(* The walls a record that starts no run takes out of the schedule.        *)
Blocks == blocked' = blocked \cup WallsOf(OccurrencesSince(Since))

(* interrupted_unknown, under the id of the dead run. *)
TickRecovers ==
  /\ pc = "guards"
  /\ Stale
  /\ Closes(latest, FALSE)
  /\ IF Counts(latest, FALSE) THEN Blocks ELSE UNCHANGED blocked
  /\ UNCHANGED <<clock, now, pc, eventVars, run, orphan, open, told, fires, answers>>

TickFindsRun ==
  /\ pc = "guards"
  /\ CurrentlyRunning
  /\ pc' = "idle"
  /\ UNCHANGED <<clock, now, historyVars, eventVars, run, orphan, open, ghostVars, answers>>

(* skipped (agent_name_live) *)
TickFindsAgent ==
  /\ pc = "guards"
  /\ ~Stale
  /\ ~CurrentlyRunning
  /\ orphan
  /\ Notes
  /\ Blocks
  /\ pc' = "idle"
  /\ UNCHANGED <<clock, now, eventVars, run, orphan, open, told, fires, answers>>

(* The guards are passed. A live-agent query herdr fails reads as no agent. *)
Passed ==
  /\ pc = "guards"
  /\ ~Stale
  /\ ~CurrentlyRunning
  /\ orphan => "query" \in Faults

-----------------------------------------------------------------------------
(* The triggers: the cron first, the event poll if no run is due.          *)

CronRun(o, wrote) ==
  LET id == [of |-> "cron", at |-> o, retry |-> 0]
  IN  [NoRun EXCEPT !.base = id, !.id = id, !.wrote = wrote]

OffRun(at, event) ==
  LET id == [of |-> "now", at |-> at, retry |-> 0]
  IN  [NoRun EXCEPT !.base = id, !.id = id, !.off = TRUE, !.event = event,
                    !.wrote = event # NoEvent]

(* Mutant of TickRuns: what is collapsed is not recorded. *)
TickRuns_Silent ==
  /\ Passed
  /\ \E o \in Cron :
       /\ IsLatest(o)
       /\ InTime(o)
       /\ run' = CronRun(o, FALSE)
  /\ pc' = "dispatch"
  /\ UNCHANGED <<clock, now, historyVars, eventVars, orphan, open, ghostVars, answers>>

(* The earlier occurrences are collapsed into one `missed` record, which   *)
(* is a scheduled terminal record of its own.                              *)
TickRuns ==
  /\ Passed
  /\ \E o \in Cron :
       /\ IsLatest(o)
       /\ InTime(o)
       /\ run' = CronRun(o, Earlier(o) # {})
       /\ IF Earlier(o) # {}
            THEN Notes /\ told' = told \cup WallsOf(Earlier(o))
            ELSE UNCHANGED <<historyVars, told>>
  /\ pc' = "dispatch"
  /\ UNCHANGED <<clock, now, eventVars, orphan, open, blocked, fires, answers>>

(* outside_catch_up_window *)
TickMisses ==
  /\ Passed
  /\ \E o \in Cron : IsLatest(o) /\ ~InTime(o)
  /\ Notes
  /\ told' = told \cup WallsOf(Due)
  /\ pc' = "poll"
  /\ UNCHANGED <<clock, now, eventVars, run, orphan, open, blocked, fires, answers>>

TickNotDue ==
  /\ Passed
  /\ Due = {}
  /\ pc' = "poll"
  /\ UNCHANGED <<clock, now, historyVars, eventVars, run, orphan, open, ghostVars, answers>>

Polls ==
  /\ pc = "poll"
  /\ UNCHANGED <<clock, now, historyVars, orphan, open, ghostVars>>

(* ensure_repo, the owner lookup or the query fails: nobody saw no events. *)
PollFails ==
  /\ Polls
  /\ "poll" \in Faults
  /\ pollDown' = TRUE
  /\ pc' = "idle"
  /\ UNCHANGED <<watermark, baselined, adopted, run, answers>>

(* event_baseline *)
PollAdopts ==
  /\ Polls
  /\ ~baselined
  /\ baselined' = TRUE
  /\ watermark' = open
  /\ adopted' = open
  /\ pollDown' = FALSE
  /\ pc' = "idle"
  /\ UNCHANGED <<run, answers>>

(* The watermark after a poll that fires F: events that cleared drop out.  *)
Marks(F) ==
  /\ watermark' = open \cap (watermark \cup F)
  /\ pollDown' = FALSE
  /\ adopted' = adopted \cap open
  /\ answers' = [e \in Events |-> IF e \in open THEN answers[e] ELSE 0]
  /\ UNCHANGED baselined

PollIsQuiet ==
  /\ Polls
  /\ baselined
  /\ open \subseteq watermark
  /\ Marks({})
  /\ pc' = "idle"
  /\ UNCHANGED run

(* Mutant of PollFires: the watermark is left to the end of the run. *)
PollFires_MarksLater ==
  /\ Polls
  /\ baselined
  /\ \E e \in open \ watermark : run' = OffRun(now, e)
  /\ Marks({})
  /\ pc' = "dispatch"

(* The first new event fires, and the watermark is written before its run. *)
PollFires ==
  /\ Polls
  /\ baselined
  /\ \E e \in open \ watermark :
       /\ Marks({e})
       /\ run' = OffRun(now, e)
  /\ pc' = "dispatch"

(* `herdr-routines run`: the lock, and no other guard. *)
Request ==
  /\ TakesLock
  /\ clock <= Trouble
  /\ IsOpen => "shadow" \in Faults
  /\ run' = OffRun(clock, NoEvent)
  /\ pc' = "dispatch"
  /\ UNCHANGED <<historyVars, eventVars, orphan, open, ghostVars, answers>>

-----------------------------------------------------------------------------
(* _run_routine: one occurrence, its fallback and its retries.             *)

runVars == <<clock, now, eventVars, open, blocked>>

(* The occurrence or the event counts as run. *)
Fires ==
  /\ fires' = IF run.id.of = "cron" THEN [fires EXCEPT ![run.id.at] = @ + 1] ELSE fires
  /\ told' = IF run.id.of = "cron" THEN told \cup {Wall[run.id.at]} ELSE told
  /\ answers' = IF run.event # NoEvent THEN [answers EXCEPT ![run.event] = @ + 1] ELSE answers

(* The selector fails or finds no target: a terminal record and no agent.  *)
PickSettles ==
  /\ pc = "dispatch"
  /\ Closes(run.id, run.off)
  /\ Fires
  /\ run' = NoRun
  /\ pc' = "idle"
  /\ UNCHANGED <<runVars, orphan>>

RunBegins ==
  /\ pc = "dispatch"
  /\ Opens(run.id, run.off)
  /\ Fires
  /\ pc' = "running"
  /\ UNCHANGED <<runVars, run, orphan>>

Outcomes == {"done"} \cup Reasons

UsesFallback(outcome) == outcome = "quota_exhausted" /\ HasFallback /\ ~run.fellBack

(* _retry_eligible, and attempts are left. *)
Retries(outcome) == outcome \in RetryOn /\ run.attempt < RetryAttempts

(* The terminal record of whatever the agent came to. *)
Settles == Closes(run.id, run.off)

FallsBack ==
  /\ pc = "running"
  /\ UsesFallback("quota_exhausted")
  /\ Settles
  /\ pc' = "fallback"
  /\ UNCHANGED <<runVars, run, orphan, told, fires, answers>>

(* The fallback's run id is made of the pass' `now`, whatever the attempt. *)
FallbackBegins ==
  /\ pc = "fallback"
  /\ run' = [run EXCEPT !.id = [of |-> "fallback", at |-> now, retry |-> 0], !.fellBack = TRUE]
  /\ Opens(run'.id, run.off)
  /\ pc' = "running"
  /\ UNCHANGED <<runVars, orphan, told, fires, answers>>

RetryIsDue ==
  /\ pc = "running"
  /\ \E outcome \in Outcomes : ~UsesFallback(outcome) /\ Retries(outcome)
  /\ Settles
  /\ pc' = "retry"
  /\ UNCHANGED <<runVars, run, orphan, told, fires, answers>>

(* A retry takes the base run id, and may fall back again. *)
RetryBegins ==
  /\ pc = "retry"
  /\ run' = [run EXCEPT !.id = [run.base EXCEPT !.retry = run.attempt + 1],
                        !.attempt = @ + 1, !.fellBack = FALSE]
  /\ Opens(run'.id, run.off)
  /\ pc' = "running"
  /\ UNCHANGED <<runVars, orphan, told, fires, answers>>

RunEnds ==
  /\ pc = "running"
  /\ \E outcome \in Outcomes : ~UsesFallback(outcome) /\ ~Retries(outcome)
  /\ Settles
  /\ run' = NoRun
  /\ pc' = "idle"
  /\ UNCHANGED <<runVars, orphan, told, fires, answers>>

-----------------------------------------------------------------------------
(* Faults and the world.                                                   *)

(* The pass dies; the agent it waited for may live on. *)
Crashes ==
  /\ "crash" \in Faults
  /\ pc # "idle"
  /\ clock <= Trouble
  /\ pc = "dispatch" /\ run.wrote => "torn" \in Faults
  /\ pc' = "idle"
  /\ run' = NoRun
  /\ orphan' \in IF pc = "running" THEN {TRUE, FALSE} ELSE {orphan}
  /\ UNCHANGED <<clock, now, historyVars, eventVars, open, ghostVars, answers>>

(* The walls of what is due, or was about to be run.                       *)
Consumed ==
  WallsOf({o \in Cron : o \in Due \/ (pc = "dispatch" /\ run.id.of = "cron" /\ run.id.at = o)})

(* _record_unexpected_failure: the tick closes the run it had opened, or   *)
(* leaves a `failed` record that consumes what was due.                    *)
Raises ==
  /\ "raise" \in Faults
  /\ pc # "idle"
  /\ pc \in {"guards", "poll"} \/ ~run.off \/ run.event # NoEvent
  /\ clock <= Trouble
  /\ pc = "dispatch" /\ run.event # NoEvent => "torn" \in Faults
  /\ \/ IsOpen /\ latestAt = now /\ Closes(latest, FALSE)
     \/ ~(IsOpen /\ latestAt = now) /\ Notes
  /\ blocked' = blocked \cup Consumed
  /\ pc' = "idle"
  /\ run' = NoRun
  /\ orphan' \in IF pc = "running" THEN {TRUE, FALSE} ELSE {orphan}
  /\ UNCHANGED <<clock, now, eventVars, open, told, fires, answers>>

OrphanSettles ==
  /\ orphan
  /\ orphan' = FALSE
  /\ UNCHANGED <<clock, now, pc, historyVars, eventVars, run, open, ghostVars, answers>>

EventComes ==
  /\ clock <= Trouble
  /\ \E e \in Events \ open : open' = open \cup {e}
  /\ UNCHANGED <<clock, now, pc, historyVars, eventVars, run, orphan, ghostVars, answers>>

EventClears ==
  /\ clock <= Trouble
  /\ \E e \in open : open' = open \ {e}
  /\ UNCHANGED <<clock, now, pc, historyVars, eventVars, run, orphan, ghostVars, answers>>

Tick ==
  \/ TickRegisters \/ TickStarts \/ TickRecovers \/ TickFindsRun \/ TickFindsAgent
  \/ TickRuns \/ TickMisses \/ TickNotDue
  \/ PollFails \/ PollAdopts \/ PollIsQuiet \/ PollFires

Dispatch ==
  \/ PickSettles \/ RunBegins \/ FallsBack \/ FallbackBegins
  \/ RetryIsDue \/ RetryBegins \/ RunEnds

World == Crashes \/ Raises \/ OrphanSettles \/ EventComes \/ EventClears \/ Request

Next == Elapses \/ Tick \/ Dispatch \/ World

Spec == Init /\ [][Next]_vars

(* The timer fires, a pass goes on, an agent left alone comes to rest.     *)
FairSpec == Spec /\ WF_vars(Elapses) /\ WF_vars(Tick) /\ WF_vars(Dispatch) /\ WF_vars(OrphanSettles)

-----------------------------------------------------------------------------
(* Properties                                                              *)

(* No occurrence the schedule has moved past is unaccounted for: it was    *)
(* run, it is in a `missed` record (collapsed or too late), or a dead run, *)
(* a live agent or an unexpected error kept the job from firing when it *)
(* fell due.  Runs the cron did not start never take an occurrence with    *)
(* them (last_scheduled_terminal_run).  docs/plan-v1.md:347 says of the    *)
(* latest occurrence "run it. Otherwise write one `missed` record for it". *)
NothingVanishes ==
  \A o \in Cron :
    firstSeen < o /\ o <= Since /\ firstSeen > 0
      => \/ Wall[o] \in told \cup blocked
         \/ pc = "dispatch" /\ run.id.of = "cron" /\ Wall[run.id.at] = Wall[o]

(* An occurrence is run at most once, however ticks die, whatever else     *)
(* starts the job in between, and however often the run is retried.        *)
FiresOnce == \A o \in Cron : fires[o] <= 1

(* An event in the watermark was adopted or has had its one run, or is     *)
(* about to; one that is not has had none since it last cleared.           *)
EventsFireOnce ==
  \A e \in Events :
    IF e \in watermark \ adopted
    THEN answers[e] = (IF pc = "dispatch" /\ run.event = e THEN 0 ELSE 1)
    ELSE answers[e] = 0

(* Every occurrence that falls due is settled in the end: run, missed, or  *)
(* passed over; a dead run's record does not wedge the job.                *)
OccurrencesSettle ==
  \A o \in Cron : (firstSeen > 0 /\ firstSeen < o /\ o <= clock) ~> (o <= Since)
=============================================================================

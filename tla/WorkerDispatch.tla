--------------------------- MODULE WorkerDispatch ---------------------------
(***************************************************************************)
(* One job that works through several targets, one agent each (tick.py,    *)
(* auto_fix.py, review_scan.py).  Its `mode` is fixed by the job file:     *)
(*   "event"   a github_event trigger on PRs (prs:labels, ci:failed)       *)
(*   "issue"   a github_event trigger on issues (issues:opened)            *)
(*   "pr"      a gated job that repairs the repository's open PRs          *)
(*   "base"    a gated job that repairs the base branch; its one target    *)
(*             is open while the gate fails                                *)
(*   "review"  a routine that reviews the user's open PRs                  *)
(*                                                                         *)
(* A pass selects its targets, then dispatches them in turn and waits for  *)
(* each agent.  It holds the tick lock and may die anywhere; an agent it   *)
(* waited for may live on.  History is kept as what the queries read off   *)
(* it: the attempts of each target, the watermark, and whether the latest  *)
(* `running` record is still open.                                         *)
(***************************************************************************)
EXTENDS Naturals, FiniteSets

CONSTANTS
  Modes,        \* the kinds of job checked
  Targets,      \* numbers: lower ones are older, and dispatched first
  MaxAttempts,  \* max_attempts_per_target
  Cap,          \* max_workers_per_tick, max_targets_per_run
  Faults,       \* what may go wrong, a subset of FaultKinds
  Trouble       \* bound: how often the world or a fault interferes

EventModes == {"event", "issue"}

AllModes == EventModes \cup {"pr", "base", "review"}

(* "crash": a pass dies; "gh": a GitHub read fails; "herdr": the agent     *)
(* list cannot be read; "infra": an agent cannot be started; "quota": an   *)
(* agent is killed for its quota, after it posted or before.               *)
FaultKinds == {"crash", "gh", "herdr", "infra", "quota"}

ASSUME DispatchAssumption ==
  /\ Modes \subseteq AllModes
  /\ Targets \subseteq Nat \ {0}
  /\ MaxAttempts \in Nat \ {0}
  /\ Cap \in Nat \ {0}
  /\ Faults \subseteq FaultKinds
  /\ Trouble \in Nat

VARIABLES
  mode,
  (* the world *)
  open,      \* the eligible targets, the open events; a failing gate
  dirty,     \* the targets whose checkout holds work nobody committed
  orphan,    \* an agent no pass waits for: "none", "working" or "blocked"
  posted,    \* the targets whose review carries the job's marker
  badRef,    \* the events whose head ref is no branch name
  (* history.jsonl *)
  attempts,  \* the attempts counted against each target's budget
  marked,    \* last_seen_event_ids
  baselined, \* whether a poll ever succeeded
  runOpen,   \* whether the latest `running` record has no terminal one
  (* the pass *)
  pc,
  polled,    \* the events its poll returned
  queue,     \* the targets it still has to dispatch
  cur,       \* the target its agent works on
  handled,   \* the events it may add to the watermark
  blind,     \* the targets it queued without having seen their marker
  (* history of the properties *)
  trouble,   \* how often the world or a fault interfered
  starts,    \* the agents started on each target (base: since the gate passed)
  left,      \* the agents of each target a pass did not see to the end
  posts,     \* the reviews posted on each target
  unread,    \* how often each target was dispatched with its marker unread
  owed       \* events a poll returned as new, and nothing has handled since

worldVars == <<open, dirty, orphan, posted>>
historyVars == <<attempts, marked, baselined, runOpen>>
passVars == <<pc, polled, queue, cur, handled, blind>>
countVars == <<starts, left, posts, unread, owed>>
vars == <<mode, badRef, worldVars, historyVars, passVars, trouble, countVars>>

NoTarget == 0

WorldTypeOK ==
  /\ mode \in Modes
  /\ open \subseteq Targets
  /\ dirty \subseteq Targets
  /\ orphan \in [Targets -> {"none", "working", "blocked"}]
  /\ posted \subseteq Targets
  /\ badRef \subseteq Targets
  /\ trouble \in 0..Trouble

PassTypeOK ==
  /\ marked \subseteq Targets
  /\ baselined \in BOOLEAN
  /\ runOpen \in BOOLEAN
  /\ pc \in {"idle", "loop", "working"}
  /\ polled \subseteq Targets
  /\ queue \subseteq Targets
  /\ cur \in Targets \cup {NoTarget}
  /\ pc = "working" <=> cur # NoTarget
  /\ handled \subseteq Targets
  /\ blind \subseteq Targets

CountTypeOK ==
  /\ attempts \in [Targets -> Nat]
  /\ starts \in [Targets -> Nat]
  /\ left \in [Targets -> Nat]
  /\ posts \in [Targets -> Nat]
  /\ unread \in [Targets -> Nat]
  /\ owed \subseteq Targets

(* Every variable stays in its set; an agent is waited for while it works. *)
TypeOK == WorldTypeOK /\ PassTypeOK /\ CountTypeOK

None == [t \in Targets |-> 0]

Init ==
  /\ mode \in Modes
  /\ open \in SUBSET Targets
  /\ mode = "base" => Cardinality(open) <= 1
  /\ badRef \in SUBSET Targets
  /\ Cardinality(badRef) <= (IF mode = "event" THEN 1 ELSE 0)
  /\ dirty = {}
  /\ orphan = [t \in Targets |-> "none"]
  /\ posted = {}
  /\ attempts = None
  /\ marked = {}
  /\ baselined = FALSE
  /\ runOpen = FALSE
  /\ pc = "idle"
  /\ polled = {}
  /\ queue = {}
  /\ cur = NoTarget
  /\ handled = {}
  /\ blind = {}
  /\ trouble = 0
  /\ starts = None
  /\ left = None
  /\ posts = None
  /\ unread = None
  /\ owed = {}

-----------------------------------------------------------------------------
(* The oldest n of a set of targets.                                       *)
Oldest(n, S) == {t \in S : Cardinality({u \in S : u < t}) < n}

Inc(f, t) == [f EXCEPT ![t] = @ + 1]

(* Something goes wrong, or somebody interferes.                           *)
Interferes == trouble < Trouble /\ trouble' = trouble + 1

Fault(kind) == kind \in Faults /\ Interferes

(* Mutant: one attempt too many.                                           *)
Exhausted_Late(t) == attempts[t] > MaxAttempts

(* attempt_count_for_event, _for_pr and _for_target, and for the base      *)
(* branch consecutive_base_gate_failures.                                  *)
Exhausted(t) == attempts[t] >= MaxAttempts

Counted(t) == attempts' = Inc(attempts, t)

(* _pr_worker_is_live, _live_review_agent_exists: the agents that work;    *)
(* event and base workers have no such guard.                              *)
SeenLive(t) == mode \in {"pr", "review"} /\ orphan[t] = "working"

-----------------------------------------------------------------------------
(* Selection *)

(* Mutant: the cap is applied before the budgets.                          *)
EventCandidates_CapFirst(events) == {t \in Oldest(Cap, events \ marked) : ~Exhausted(t)}

(* The events that get a worker: unseen, with a budget left, and only then *)
(* the cap, so that an exhausted event takes no slot.                      *)
EventCandidates(events) == Oldest(Cap, {t \in events \ marked : ~Exhausted(t)})

(* _process_event_target up to the dispatch.  The first poll of            *)
(* issues:opened adopts what is open.                                      *)
EventBegins ==
  /\ mode \in EventModes /\ pc = "idle"
  /\ baselined' = TRUE
  /\ polled' = open
  /\ handled' = {}
  /\ IF mode = "issue" /\ ~baselined
     THEN /\ marked' = open
          /\ pc' = "idle"
          /\ UNCHANGED <<queue, owed>>
     ELSE /\ queue' = EventCandidates(open)
          /\ owed' = (owed \cup (open \ marked)) \cap open
          /\ pc' = "loop"
          /\ UNCHANGED marked
  /\ UNCHANGED <<mode, badRef, worldVars, attempts, runOpen, cur, blind, trouble, starts, left, posts, unread>>

(* A pass that appends a `running` record first: _gated_cycle and          *)
(* _run_routine_targets.  It needs a job that is not running.              *)
Begins(S) ==
  /\ pc = "idle"
  /\ ~runOpen
  /\ runOpen' = TRUE
  /\ queue' = S
  /\ pc' = "loop"
  /\ UNCHANGED <<mode, badRef, worldVars, marked, baselined, polled, cur, handled, posts, unread, owed>>

(* _process_pr_target: the cap comes before the budgets.                   *)
PrCandidates(eligible) == Oldest(Cap, eligible)

(* A PR whose checks or threads cannot be read is not eligible: `gh` reads *)
(* fail open here.                                                         *)
PrBegins ==
  /\ mode = "pr"
  /\ \E unseen \in SUBSET open :
       /\ Begins(PrCandidates(open \ unseen))
       /\ IF unseen = {} THEN UNCHANGED trouble ELSE Fault("gh")
  /\ UNCHANGED <<attempts, blind, starts, left>>

(* _process_base_target up to the fix agent: the gate runs first, and one  *)
(* that passes resets the budget.                                          *)
BaseBegins ==
  /\ mode = "base"
  /\ Begins({t \in open : ~Exhausted(t)})
  /\ IF open = {}
     THEN /\ attempts' = None
          /\ starts' = None
          /\ left' = None
     ELSE UNCHANGED <<attempts, starts, left>>
  /\ UNCHANGED <<blind, trouble>>

(* classify_review_candidates: budgets, then the marker guard on the first *)
(* Cap of them, then the cap over those the guard passed and all the rest. *)
ReviewWindow == Oldest(Cap, {t \in open : ~Exhausted(t)})

(* Mutant: the marker guard is left to the budget.                         *)
ReviewCandidates_NoGuard(unreadable) == Oldest(Cap, {t \in open : ~Exhausted(t)})

ReviewCandidates(unreadable) ==
  LET kept == {t \in ReviewWindow : t \in unreadable \/ t \notin posted}
      rest == {t \in open : ~Exhausted(t)} \ ReviewWindow
  IN  Oldest(Cap, kept \cup rest)

ReviewBegins ==
  /\ mode = "review"
  /\ \E unreadable \in SUBSET ReviewWindow :
       /\ Begins(ReviewCandidates(unreadable))
       /\ blind' = ReviewCandidates(unreadable) \ (ReviewWindow \ unreadable)
       /\ IF unreadable = {} THEN UNCHANGED trouble ELSE Fault("gh")
  /\ UNCHANGED <<attempts, starts, left>>

(* The selection fails: no checkout, no login, a poll or search that       *)
(* failed.  A terminal record without a watermark; nothing is dispatched.  *)
BeginFails ==
  /\ pc = "idle"
  /\ mode \in EventModes \/ ~runOpen
  /\ Fault("gh")
  /\ UNCHANGED <<mode, badRef, worldVars, historyVars, passVars, countVars>>

(* A `running` record turned stale: the next tick closes it.               *)
Reconciles ==
  /\ pc = "idle"
  /\ runOpen
  /\ runOpen' = FALSE
  /\ UNCHANGED <<mode, badRef, worldVars, attempts, marked, baselined, passVars, trouble, countVars>>

-----------------------------------------------------------------------------
(* Dispatch: the oldest target of the queue is next *)

IsNext(t) == pc = "loop" /\ t \in queue /\ \A u \in queue : t <= u

(* The next target is passed over.                                         *)
Skips(t) ==
  /\ IsNext(t)
  /\ queue' = queue \ {t}
  /\ UNCHANGED <<mode, badRef, worldVars, historyVars, pc, polled, cur, blind, starts, left, posts, unread>>

SkipsExhausted(t) ==
  /\ mode = "pr" /\ Exhausted(t)
  /\ Skips(t)
  /\ UNCHANGED <<handled, trouble, owed>>

SkipsLive(t) ==
  /\ SeenLive(t)
  /\ mode = "pr" => ~Exhausted(t)
  /\ Skips(t)
  /\ UNCHANGED <<handled, trouble, owed>>

(* A PR whose head commit is unknown.                                      *)
SkipsHeadless(t) ==
  /\ mode = "pr" /\ ~Exhausted(t) /\ ~SeenLive(t)
  /\ Fault("gh")
  /\ Skips(t)
  /\ UNCHANGED <<handled, owed>>

(* A head ref that is no branch name will not become one: marked seen.     *)
SkipsBadRef(t) ==
  /\ t \in badRef
  /\ Skips(t)
  /\ handled' = handled \cup {t}
  /\ owed' = owed \ {t}
  /\ UNCHANGED trouble

(* A worker on a branch is started in the checkout that has the branch,    *)
(* unless that holds uncommitted work.                                     *)
Refused(t) == mode \in {"pr", "event"} /\ t \in dirty

(* Nothing stands in the way of a worker; a guard that cannot ask herdr    *)
(* lets it pass.                                                           *)
MayStart(t) ==
  /\ IsNext(t)
  /\ t \notin badRef
  /\ mode = "pr" => ~Exhausted(t)
  /\ IF SeenLive(t) THEN Fault("herdr") ELSE UNCHANGED trouble

(* No agent ran: no attempt is spent, and an event stays unseen.           *)
SkipsDirty(t) ==
  /\ Refused(t)
  /\ t \notin badRef
  /\ mode = "pr" => ~Exhausted(t)
  /\ ~SeenLive(t)
  /\ Skips(t)
  /\ UNCHANGED <<handled, trouble, owed>>

(* The checkout or the agent cannot be made: a failed record, which counts *)
(* for all but reviews.  The first record of a target closes the run.      *)
DispatchFails(t) ==
  /\ IsNext(t)
  /\ t \notin badRef /\ ~SeenLive(t)
  /\ mode = "pr" => ~Exhausted(t)
  /\ Fault("infra")
  /\ queue' = queue \ {t}
  /\ runOpen' = FALSE
  /\ IF mode = "review" THEN UNCHANGED attempts ELSE Counted(t)
  /\ UNCHANGED dirty \/ (mode = "issue" /\ dirty' = dirty \ {t})
  /\ UNCHANGED <<mode, badRef, open, orphan, posted, marked, baselined, pc, polled, cur, handled, blind, countVars>>

(* The agent starts and is prompted.  The detached checkout of an issue is *)
(* removed and made anew.                                                  *)
WorkerStarts(t) ==
  /\ MayStart(t)
  /\ ~Refused(t)
  /\ queue' = queue \ {t}
  /\ cur' = t
  /\ pc' = "working"
  /\ dirty' = dirty \ (IF mode = "issue" THEN {t} ELSE {})
  /\ starts' = Inc(starts, t)
  /\ unread' = (IF t \in blind THEN Inc(unread, t) ELSE unread)
  /\ UNCHANGED <<mode, badRef, open, orphan, posted, historyVars, polled, handled, blind, left, posts, owed>>

-----------------------------------------------------------------------------
(* The agent is through: a record of the target *)

Records ==
  /\ pc = "working"
  /\ pc' = "loop"
  /\ cur' = NoTarget
  /\ runOpen' = FALSE
  /\ UNCHANGED <<mode, badRef, marked, baselined, polled, queue, blind, starts, unread>>

(* The agent settled and the gates agree (a base worker has none): the     *)
(* checks may turn green now or later.                                     *)
WorkerDone ==
  /\ mode # "review"
  /\ Records
  /\ Counted(cur)
  /\ open' \in {open, open \ {cur}}
  /\ mode = "base" => open' = open
  /\ handled' = (IF mode \in EventModes THEN handled \cup {cur} ELSE handled)
  /\ owed' = owed \ {cur}
  /\ UNCHANGED <<dirty, orphan, posted, trouble, left, posts>>

(* It did not settle, or a gate says that nothing was shipped.             *)
WorkerFails ==
  /\ mode # "review"
  /\ Records
  /\ Counted(cur)
  /\ \/ UNCHANGED dirty
     \/ mode # "base" /\ dirty' = dirty \cup {cur}
  /\ UNCHANGED <<open, orphan, posted, handled, trouble, left, posts, owed>>

Posts(t) == posted' = posted \cup {t} /\ posts' = Inc(posts, t)

(* The review is there: done.                                              *)
ReviewDone ==
  /\ mode = "review"
  /\ Records
  /\ Counted(cur)
  /\ Posts(cur)
  /\ UNCHANGED <<open, dirty, orphan, handled, trouble, left, owed>>

(* The agent ran, and what it did is unknown: no report, a gate that could *)
(* not see the review, a state that never settled.  It counts.             *)
ReviewUnclear ==
  /\ mode = "review"
  /\ Records
  /\ Counted(cur)
  /\ Posts(cur) \/ UNCHANGED <<posted, posts>>
  /\ UNCHANGED <<open, dirty, orphan, handled, trouble, left, owed>>

(* A blocked agent keeps its pane, for a human to answer.                  *)
ReviewBlocks ==
  /\ mode = "review"
  /\ Records
  /\ Counted(cur)
  /\ orphan' = [orphan EXCEPT ![cur] = IF @ = "none" THEN "blocked" ELSE @]
  /\ left' = Inc(left, cur)
  /\ UNCHANGED <<open, dirty, posted, handled, trouble, posts, owed>>

(* Killed for its quota: it does not count, though it may have posted.     *)
ReviewKilled ==
  /\ mode = "review"
  /\ Records
  /\ Fault("quota")
  /\ Posts(cur) \/ UNCHANGED <<posted, posts>>
  /\ UNCHANGED <<open, dirty, orphan, attempts, handled, left, owed>>

(* Mutant: whatever was polled is seen.                                    *)
Watermark_All == polled

(* The aggregate record.  The watermark is what the poll returned and      *)
(* needs no more work; it is written here only.                            *)
Watermark == {t \in polled : t \in marked \cup handled}

PassEnds ==
  /\ pc = "loop"
  /\ queue = {}
  /\ pc' = "idle"
  /\ runOpen' = FALSE
  /\ marked' = (IF mode \in EventModes THEN Watermark ELSE marked)
  /\ polled' = {}
  /\ handled' = {}
  /\ blind' = {}
  /\ UNCHANGED <<mode, badRef, worldVars, attempts, baselined, queue, cur, trouble, countVars>>

-----------------------------------------------------------------------------
(* Crashes, and the world *)

(* The pass dies: what it had not written is lost.  Its agent lives on, or *)
(* dies with whatever it had in the checkout.                              *)
Crash ==
  /\ Fault("crash")
  /\ pc # "idle"
  /\ pc' = "idle"
  /\ queue' = {}
  /\ polled' = {}
  /\ handled' = {}
  /\ blind' = {}
  /\ cur' = NoTarget
  /\ IF pc = "working"
     THEN /\ left' = Inc(left, cur)
          /\ \E s \in {orphan[cur], "working"} : orphan' = [orphan EXCEPT ![cur] = s]
          /\ dirty' \in {dirty} \cup (IF mode \in {"base", "review"} THEN {} ELSE {dirty \cup {cur}})
     ELSE UNCHANGED <<left, orphan, dirty>>
  /\ UNCHANGED <<mode, badRef, open, posted, historyVars, starts, posts, unread, owed>>

(* An agent nobody waits for ends; a reviewer may post before it does.     *)
OrphanEnds(t) ==
  /\ orphan[t] = "working"
  /\ orphan' = [orphan EXCEPT ![t] = "none"]
  /\ IF mode = "review" THEN Posts(t) \/ UNCHANGED <<posted, posts>> ELSE UNCHANGED <<posted, posts>>
  /\ UNCHANGED <<mode, badRef, open, dirty, historyVars, passVars, trouble, starts, left, unread, owed>>

(* A human answers a blocked agent.                                        *)
Unblocks(t) ==
  /\ orphan[t] = "blocked"
  /\ orphan' = [orphan EXCEPT ![t] = "working"]
  /\ UNCHANGED <<mode, badRef, open, dirty, posted, historyVars, passVars, trouble, countVars>>

(* A human rescues or discards what a worker left in its checkout.         *)
Rescues(t) ==
  /\ t \in dirty
  /\ dirty' = dirty \ {t}
  /\ UNCHANGED <<mode, badRef, open, orphan, posted, historyVars, passVars, trouble, countVars>>

(* A target appears or goes: opened, labelled, red again, merged, closed.  *)
Opens(t) ==
  /\ t \notin open
  /\ mode = "base" => open = {}
  /\ Interferes
  /\ open' = open \cup {t}
  /\ UNCHANGED <<mode, badRef, dirty, orphan, posted, historyVars, passVars, countVars>>

Closes(t) ==
  /\ t \in open
  /\ Interferes
  /\ open' = open \ {t}
  /\ UNCHANGED <<mode, badRef, dirty, orphan, posted, historyVars, passVars, countVars>>

Tick == EventBegins \/ PrBegins \/ BaseBegins \/ ReviewBegins \/ Reconciles

Works == WorkerDone \/ WorkerFails \/ ReviewDone \/ ReviewUnclear \/ ReviewBlocks \/ ReviewKilled

Dispatches ==
  \E t \in Targets : SkipsExhausted(t) \/ SkipsLive(t) \/ SkipsBadRef(t) \/ SkipsDirty(t) \/ WorkerStarts(t)

Next ==
  \/ EventBegins \/ PrBegins \/ BaseBegins \/ ReviewBegins \/ Reconciles
  \/ BeginFails
  \/ \E t \in Targets :
       \/ SkipsExhausted(t) \/ SkipsLive(t) \/ SkipsHeadless(t) \/ SkipsBadRef(t) \/ SkipsDirty(t)
       \/ DispatchFails(t) \/ WorkerStarts(t)
  \/ WorkerDone \/ WorkerFails
  \/ ReviewDone \/ ReviewUnclear \/ ReviewBlocks \/ ReviewKilled
  \/ PassEnds
  \/ Crash
  \/ \E t \in Targets : OrphanEnds(t) \/ Unblocks(t) \/ Rescues(t) \/ Opens(t) \/ Closes(t)

Spec == Init /\ [][Next]_vars

(* The timer fires every few minutes and each wait has a timeout, so a     *)
(* pass goes on; nothing is assumed of agents, people or GitHub.           *)
FairSpec == Spec /\ WF_vars(Tick) /\ WF_vars(Dispatches) /\ WF_vars(Works) /\ WF_vars(PassEnds)

-----------------------------------------------------------------------------
(* A target never gets more agents than its budget and the agents that     *)
(* dead passes started without a record; for the base branch, since its    *)
(* gate last passed.  (A review killed for its quota is free: see          *)
(* ReviewsAreBounded.)                                                     *)
AttemptsAreBounded ==
  mode # "review" => \A t \in Targets : starts[t] <= MaxAttempts + left[t]

(* A PR is reviewed a second time only if an agent was left behind on it   *)
(* or its marker was not looked at: the budget and the marker guard cover  *)
(* for one another.                                                        *)
ReviewsAreBounded ==
  \A t \in Targets : posts[t] <= 1 + left[t] + unread[t]

(* The watermark holds no event that a poll returned as new and that was   *)
(* not worked on successfully since: a failed worker, a full queue, a      *)
(* failed poll or a crash never writes an event off.                       *)
WatermarkIsEarned == marked \cap owed = {}

(* What is open is seen to in the end: marked, reviewed, out of budget, or *)
(* its checkout, or one ahead of it, waits for a human.  PR jobs are left  *)
(* out: there an exhausted PR keeps its slot.                              *)
Served ==
  \A t \in Targets :
    (t \in open /\ mode # "pr")
      ~> (t \notin open \/ t \in marked \/ t \in posted \/ Exhausted(t) \/ dirty # {} \/ \E u \in Targets : orphan[u] = "working")
=============================================================================

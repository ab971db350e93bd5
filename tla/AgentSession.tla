---------------------------- MODULE AgentSession ----------------------------
(***************************************************************************)
(* One job's agent, run after run: runner.execute_run and the wait loop it *)
(* shares with every other worker (wait_loop.py), over the herdr server    *)
(* (herdr.py).  herdr knows an agent by its name, which a job uses for all *)
(* of its runs and which stays taken until the agent's pane is closed: an  *)
(* agent that is left behind is in the way of the next run.                *)
(***************************************************************************)
EXTENDS Naturals

CONSTANTS
  MaxTries,  \* len(PROMPT_RETRY_DELAYS_S): how often a prompt is sent again
  Trouble    \* bound: how often herdr, the host and people interfere

ASSUME SessionAssumption == MaxTries \in Nat /\ Trouble \in Nat

VARIABLES
  own,      \* owns_pane: the job has a pane to itself (workspace is not root)
  (* the herdr server *)
  holder,   \* the status of the agent that holds the job's name, or "none"
  mine,     \* it sits in the pane of the latest run
  screen,   \* a failure marker is on its visible screen
  (* the run *)
  pc,
  tries,    \* how often the prompt was sent again
  hit,      \* previous_hit: the last poll saw the marker
  report,   \* the report file: "none", "empty" or "written"
  counted,  \* a written report was there when execute_run looked
  outcome,  \* RunOutcome.state of the latest run, or "none"
  (* history of the properties *)
  got,      \* how often the latest run's agent received the job's prompt
  left,     \* why the agent that holds the name was left there
  began,    \* the trouble there had been when the latest run began
  trouble

worldVars == <<holder, mine, screen, left>>
runVars == <<tries, hit, counted, outcome, got>>
vars == <<own, worldVars, pc, runVars, report, began, trouble>>

(* SETTLED_AGENT_STATUSES, STICKY_AGENT_STATUSES and LIVE_AGENT_STATUSES    *)
Settled == {"idle"}

(* Mutant: an agent nobody can tell about keeps the name.                   *)
Sticky_Blocked == {"blocked"}

Sticky == {"blocked", "unknown"}

Live == {"working"}

(* What herdr may say of an agent that does not work.                       *)
Stopped == {"idle", "blocked", "unknown"}

HerdrTypeOK ==
  /\ own \in BOOLEAN
  /\ holder \in Stopped \cup Live \cup {"none"}
  /\ mine \in BOOLEAN
  /\ screen \in BOOLEAN
  /\ left \in {"none", "parked", "crash", "stuck"}

RunTypeOK ==
  /\ pc \in {"idle", "reap", "reapclose", "pane", "start", "stickyclose", "restart", "ready",
             "prompt", "wait", "settled", "nudge", "close", "judge", "failclose"}
  /\ hit \in BOOLEAN
  /\ report \in {"none", "empty", "written"}
  /\ counted \in BOOLEAN
  /\ outcome \in {"none", "done", "failed", "interrupted_unknown"}

CountTypeOK ==
  /\ tries \in 0..MaxTries
  /\ got \in Nat
  /\ trouble \in 0..Trouble
  /\ began \in 0..Trouble

TypeOK == HerdrTypeOK /\ RunTypeOK /\ CountTypeOK

Init ==
  /\ own \in BOOLEAN
  /\ holder = "none"
  /\ mine = FALSE
  /\ screen = FALSE
  /\ pc = "idle"
  /\ tries = 0
  /\ hit = FALSE
  /\ report = "none"
  /\ counted = FALSE
  /\ outcome = "none"
  /\ got = 0
  /\ left = "none"
  /\ began = 0
  /\ trouble = 0

Interferes ==
  /\ trouble < Trouble
  /\ trouble' = trouble + 1

(* pane_close of the pane the named agent sits in: the name is free.        *)
PaneGone ==
  /\ holder' = "none"
  /\ mine' = FALSE
  /\ screen' = FALSE
  /\ left' = "none"

(* execute_run returns.                                                     *)
Ends(state) ==
  /\ pc' = "idle"
  /\ outcome' = state

-----------------------------------------------------------------------------
(* Before the prompt                                                       *)

(* A tick runs the job unless its agent is live; when herdr does not answer *)
(* the guard fails open.                                                    *)
RunBegins ==
  /\ pc = "idle"
  /\ \/ holder \notin Live /\ UNCHANGED trouble
     \/ holder \in Live /\ Interferes
  /\ pc' = IF own THEN "reap" ELSE "pane"
  /\ mine' = FALSE
  /\ tries' = 0
  /\ hit' = FALSE
  /\ report' = "none"
  /\ counted' = FALSE
  /\ outcome' = "none"
  /\ got' = 0
  /\ began' = trouble
  /\ UNCHANGED <<own, holder, screen, left>>

(* Mutant: panes that were closed eagerly need no reap before the run.      *)
LooksForStale_Never ==
  /\ pc = "reap"
  /\ pc' = "pane"
  /\ UNCHANGED <<own, worldVars, runVars, report, began, trouble>>

(* settled_agent_pane: the agent of an earlier run that ended is closed; a  *)
(* working, blocked or unknown one is not, nor if herdr does not answer.    *)
LooksForStale ==
  /\ pc = "reap"
  /\ \/ pc' = (IF holder \in Settled THEN "reapclose" ELSE "pane") /\ UNCHANGED trouble
     \/ pc' = "pane" /\ Interferes
  /\ UNCHANGED <<own, worldVars, runVars, report, began>>

ClosesStale ==
  /\ pc = "reapclose"
  /\ pc' = "pane"
  /\ \/ PaneGone /\ UNCHANGED trouble
     \/ UNCHANGED worldVars /\ Interferes
  /\ UNCHANGED <<own, runVars, report, began>>

(* clone_failed, repo_sync_failed, report_dir_creation_failed or            *)
(* pane_creation_failed: no pane is there yet.                              *)
FailsBeforeThePane ==
  /\ pc \in {"reap", "pane"}
  /\ Ends("failed")
  /\ Interferes
  /\ UNCHANGED <<own, worldVars, tries, hit, counted, got, report, began>>

OpensPane ==
  /\ pc = "pane"
  /\ pc' = "start"
  /\ UNCHANGED <<own, worldVars, runVars, report, began, trouble>>

(* agent start, the first or the second time.  It registers the name; when  *)
(* it fails otherwise than on the name, it may have registered it all the   *)
(* same (a timeout), and the pane is closed.                                *)
Starts ==
  /\ pc \in {"start", "restart"}
  /\ holder = "none"
  /\ \/ /\ pc' = "ready"
        /\ holder' = "idle"
        /\ mine' = TRUE
        /\ UNCHANGED trouble
     \/ /\ pc' = "failclose"
        /\ \/ holder' = "idle" /\ mine' = TRUE
           \/ UNCHANGED <<holder, mine>>
        /\ Interferes
  /\ UNCHANGED <<own, screen, left, runVars, report, began>>

(* agent_name_taken: only a blocked or unknown agent is in a pane that may  *)
(* be closed for it (sticky_agent_pane), and only once.                     *)
StartCollides ==
  /\ pc \in {"start", "restart"}
  /\ holder # "none"
  /\ \/ pc' = (IF pc = "start" /\ holder \in Sticky THEN "stickyclose" ELSE "failclose")
        /\ UNCHANGED trouble
     \/ pc' = "failclose" /\ Interferes
  /\ UNCHANGED <<own, worldVars, runVars, report, began>>

ClosesSticky ==
  /\ pc = "stickyclose"
  /\ \/ pc' = "restart" /\ PaneGone /\ UNCHANGED trouble
     \/ pc' = "failclose" /\ UNCHANGED worldVars /\ Interferes
  /\ UNCHANGED <<own, runVars, report, began>>

(* _wait_for_agent_ready: interactive, or not within start_timeout_ms.      *)
BecomesReady ==
  /\ pc = "ready"
  /\ \/ pc' = "prompt" /\ UNCHANGED trouble
     \/ pc' = "failclose" /\ Interferes
  /\ UNCHANGED <<own, worldVars, runVars, report, began>>

-----------------------------------------------------------------------------
(* The prompt and the wait: prompt_with_watchdog                           *)

(* How an `agent prompt --wait` may fail: the server turned it down with an *)
(* error code; the agent did not settle in time; or nobody can tell (the    *)
(* subprocess timed out, the body has no code, the answer has no shape).    *)
PromptErrors == {"rejected", "timeout", "unclear"}

(* Mutant: whatever is not the settle timeout is sent again.                *)
IsRetryable_Unclear(error) == error # "timeout"

IsRetryable(error) == error = "rejected"

(* The answer to a failed attempt: another one, or the end of the run.      *)
Retries(error) ==
  IF IsRetryable(error) /\ tries < MaxTries
    THEN pc' = "prompt" /\ tries' = tries + 1
    ELSE pc' = "failclose" /\ UNCHANGED tries

(* The prompt reaches the agent, and the wait begins.                       *)
IsPrompted ==
  /\ pc = "prompt"
  /\ mine
  /\ holder' = "working"
  /\ got' = got + 1
  /\ pc' = "wait"
  /\ UNCHANGED <<own, mine, screen, left, tries, hit, counted, outcome, report, began, trouble>>

(* The session is not ready, or the agent is gone.                          *)
IsRejected ==
  /\ pc = "prompt"
  /\ Retries("rejected")
  /\ IF mine THEN Interferes ELSE UNCHANGED trouble
  /\ UNCHANGED <<own, worldVars, hit, counted, outcome, got, report, began>>

(* An error that leaves open whether the prompt went through.               *)
IsUnclear ==
  /\ pc = "prompt"
  /\ Interferes
  /\ Retries("unclear")
  /\ \/ mine /\ holder' = "working" /\ got' = got + 1
     \/ UNCHANGED <<holder, got>>
  /\ UNCHANGED <<own, mine, screen, left, hit, counted, outcome, report, began>>

(* The watchdog's poll of the screen: a marker it sees twice in a row ends  *)
(* the wait; a read that fails sees nothing.                                *)
Polls ==
  /\ pc = "wait"
  /\ IF mine /\ screen
       THEN pc' = (IF hit THEN "failclose" ELSE "wait") /\ hit' = TRUE
       ELSE hit' = FALSE /\ UNCHANGED pc
  /\ UNCHANGED <<own, worldVars, tries, counted, outcome, got, report, began, trouble>>

(* The wait ends with an error: the settle timeout, an unclear error, or a  *)
(* code because the agent is no longer there.                               *)
WaitFails ==
  /\ pc = "wait"
  /\ \/ \E error \in PromptErrors \ {"rejected"} : Interferes /\ Retries(error)
     \/ ~mine /\ Retries("rejected") /\ UNCHANGED trouble
  /\ UNCHANGED <<own, worldVars, hit, counted, outcome, got, report, began>>

(* The agent has stopped, and a blocked or unknown one is left for a human  *)
(* to see.                                                                  *)
Settles ==
  /\ pc = "wait"
  /\ mine
  /\ \/ /\ holder \in Settled
        /\ pc' = "settled"
        /\ UNCHANGED <<left, outcome>>
     \/ /\ holder = "blocked"
        /\ Ends("failed")
        /\ left' = "parked"
     \/ /\ holder = "unknown"
        /\ Ends("interrupted_unknown")
        /\ left' = "parked"
  /\ UNCHANGED <<own, holder, mine, screen, tries, hit, counted, got, report, began, trouble>>

(* Mutant: the pane stays open.                                             *)
SettlesOddly_Leaves ==
  /\ pc = "wait"
  /\ mine
  /\ Interferes
  /\ Ends("failed")
  /\ UNCHANGED <<own, worldVars, tries, hit, counted, got, report, began>>

(* The wait ends on "working", or on a status outside herdr's schema.       *)
SettlesOddly ==
  /\ pc = "wait"
  /\ mine
  /\ Interferes
  /\ pc' = "failclose"
  /\ UNCHANGED <<own, worldVars, runVars, report, began>>

(* The failure paths close the run's own pane, whatever `own` says, and     *)
(* with it the agent, if it got as far as that pane.                        *)
FailsAndCloses ==
  /\ pc = "failclose"
  /\ Ends("failed")
  /\ \/ /\ IF mine THEN PaneGone ELSE UNCHANGED worldVars
        /\ UNCHANGED trouble
     \/ /\ left' = IF mine THEN "stuck" ELSE left
        /\ Interferes
        /\ UNCHANGED <<holder, mine, screen>>
  /\ UNCHANGED <<own, tries, hit, counted, got, report, began>>

-----------------------------------------------------------------------------
(* After a settle                                                          *)

LooksForReport ==
  /\ pc = "settled"
  /\ counted' = (report = "written")
  /\ pc' = IF report = "written" THEN "close" ELSE "nudge"
  /\ UNCHANGED <<own, worldVars, tries, hit, outcome, got, report, began, trouble>>

(* _attempt_report_nudge: one more prompt, for the report alone.  It may be *)
(* answered, ignored, or leave the agent in any state.                      *)
Nudges ==
  /\ pc = "nudge"
  /\ pc' = "close"
  /\ report' \in {report} \cup (IF mine THEN {"written"} ELSE {})
  /\ counted' = (report' = "written")
  /\ IF mine
       THEN \/ holder' \in Settled /\ UNCHANGED trouble
            \/ holder' \in Live \cup Sticky /\ Interferes
       ELSE UNCHANGED <<holder, trouble>>
  /\ UNCHANGED <<own, mine, screen, left, tries, hit, outcome, got, began>>

ClosesPane ==
  /\ pc = "close"
  /\ pc' = "judge"
  /\ \/ /\ IF own /\ mine THEN PaneGone ELSE UNCHANGED worldVars
        /\ UNCHANGED trouble
     \/ /\ own /\ mine
        /\ left' = "stuck"
        /\ Interferes
        /\ UNCHANGED <<holder, mine, screen>>
  /\ UNCHANGED <<own, runVars, report, began>>

(* no_report; a verify gate that fails; or done.                            *)
Judges ==
  /\ pc = "judge"
  /\ \/ Ends("failed")
     \/ counted /\ Ends("done")
  /\ UNCHANGED <<own, worldVars, tries, hit, counted, got, report, began, trouble>>

-----------------------------------------------------------------------------
(* Agents, people and the host                                             *)

(* A working agent writes its report, if it is this run's, shows or loses a *)
(* marker, and stops.                                                       *)
AgentWorks ==
  /\ holder \in Live
  /\ \/ /\ mine
        /\ report' \in {"empty", "written"}
        /\ UNCHANGED screen
     \/ /\ screen' \in BOOLEAN
        /\ UNCHANGED report
  /\ UNCHANGED <<own, holder, mine, left, pc, runVars, began, trouble>>

AgentStops ==
  /\ holder \in Live
  /\ holder' \in Stopped
  /\ screen' = FALSE
  /\ UNCHANGED <<own, mine, left, pc, runVars, report, began, trouble>>

(* A human answers the prompt of a stopped agent, or gives it more to do.   *)
HumanRevives ==
  /\ holder \in Stopped
  /\ Interferes
  /\ holder' = "working"
  /\ UNCHANGED <<own, mine, screen, left, pc, runVars, report, began>>

HumanCloses ==
  /\ holder # "none"
  /\ Interferes
  /\ PaneGone
  /\ UNCHANGED <<own, pc, runVars, report, began>>

(* The tick dies; herdr and the agent do not.                               *)
Crash ==
  /\ pc # "idle"
  /\ Interferes
  /\ pc' = "idle"
  /\ left' = IF mine /\ left = "none" THEN "crash" ELSE left
  /\ UNCHANGED <<own, holder, mine, screen, runVars, report, began>>

-----------------------------------------------------------------------------
RunSteps ==
  \/ LooksForStale \/ ClosesStale \/ OpensPane \/ Starts \/ StartCollides \/ ClosesSticky
  \/ BecomesReady \/ IsPrompted \/ IsRejected \/ Settles \/ WaitFails \/ FailsAndCloses
  \/ LooksForReport \/ Nudges \/ ClosesPane \/ Judges

Next ==
  \/ RunBegins \/ FailsBeforeThePane \/ IsUnclear \/ Polls \/ SettlesOddly
  \/ RunSteps
  \/ AgentWorks \/ AgentStops
  \/ HumanRevives \/ HumanCloses \/ Crash

Spec == Init /\ [][Next]_vars

(* The schedule fires again and again, a run goes on, and an agent that is  *)
(* at work stops some day.                                                  *)
FairSpec ==
  /\ Spec
  /\ WF_vars(RunBegins /\ holder \notin Live)
  /\ WF_vars(RunSteps)
  /\ WF_vars(AgentStops)

-----------------------------------------------------------------------------
(* No run gives its agent the job's prompt twice, however often it is sent  *)
(* again: a second delivery would repeat what the first one did.            *)
PromptedOnce == got <= 1

(* Between runs, a job that has its pane to itself leaves an agent only if  *)
(* it is blocked or unknown and kept for a human, its pane would not close, *)
(* or the tick died over it.                                                *)
NoAgentLeftBehind ==
  own /\ pc = "idle" /\ holder # "none" => left # "none"

(* Whatever an earlier run left under the name, of a job that has its pane *)
(* to itself: a run that herdr, the host and people leave alone gets an    *)
(* agent and delivers its prompt to it.                                    *)
UndisturbedIsPrompted ==
  own /\ pc = "idle" /\ outcome # "none" /\ trouble = began => got = 1

(* A run leaves the pane of an agent that is at work alone: "a collision    *)
(* with a genuinely `working` agent is left alone", says                    *)
(* docs/process/issues/051-blocked-agent-name-wedges-recurring-job.md:69.   *)
(* Not so if a human answers the agent between the check and the close.     *)
WorkersAreSpared ==
  [][(pc \in {"reapclose", "stickyclose"} /\ holder \in Live)
       => holder' # "none" \/ pc' = pc]_vars

(* An agent of an earlier run that stopped does not keep the name from a    *)
(* job that has its pane to itself: some later run gets an agent.           *)
NameIsFreed ==
  (own /\ ~mine /\ holder \in Stopped) ~> (mine \/ holder \notin Stopped)
=============================================================================

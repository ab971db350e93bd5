---------------------------- MODULE PipelineStages ----------------------------
(***************************************************************************)
(* One pipeline run from the inside: pipeline_run.py takes the feature     *)
(* through the STAGES table, one agent or one bookkeeping stage at a time, *)
(* each followed by its gate, and checkpoints state.json after the gate.   *)
(* The process may die at any step; the watchdog then resumes it from      *)
(* state.json or writes its report.  The agent at work keeps working until *)
(* its pane is closed, also while nobody supervises it.                    *)
(*                                                                         *)
(* A file is abstracted to what the gates tell apart: the spec's version,  *)
(* whether the named acceptance test is there and whose it is, and whether *)
(* the code passes scripts/ci-check.sh.  A session id is the stage, life   *)
(* and model that opened it.                                               *)
(***************************************************************************)
EXTENDS Naturals

CONSTANTS
  MaxResumes,    \* MAX_PIPELINE_RESUMES: automatic resumes of one run
  MaxFixRounds,  \* MAX_CI_FIX_ROUNDS
  MaxFallbacks   \* bound: model failures (provider error, quota) in a run

ASSUME StagesAssumption ==
  MaxResumes \in Nat /\ MaxFixRounds \in Nat /\ MaxFallbacks \in Nat

(* The STAGES table: seven stages, of which stage 5 has no agent and       *)
(* stage 7 resumes stage 4's session.                                      *)
SPEC_REVIEW_STAGE == 2
TEST_AUTHOR_STAGE == 3
IMPLEMENT_STAGE == 4
PR_STAGE == 5
ADDRESS_COMMENTS_STAGE == 7
Stages == 1..7
BasedStages == {TEST_AUTHOR_STAGE, IMPLEMENT_STAGE}
SweptStages == BasedStages \cup {SPEC_REVIEW_STAGE}
IndependentStages == Stages \ {PR_STAGE, ADDRESS_COMMENTS_STAGE}

(* What a commit, or the worktree, holds.  The test the spec names is      *)
(* "authored" as the test author wrote it, "edited" once the implementer   *)
(* wrote on it, and "named" where tests/ has its name but no such function. *)
Contents ==
  [spec : 0..2, test : {"absent", "named", "authored", "edited"},
   code : {"old", "red", "green"}, issue : {"open", "done"}]
NoContent ==
  [spec |-> 0, test |-> "absent", code |-> "old", issue |-> "nowhere"]

Sessions == Stages \X (0..MaxResumes) \X {"first", "fallback"}
NoSession == <<0, 0, "none">>

NoPr == [content |-> NoContent, edited |-> FALSE]

VARIABLES
  disk,      \* state.json: current_stage, stage_sessions, stage_bases, pr_number
  mem,       \* the process's own `state`
  pc,        \* where the process is; "off" when no unit runs it
  round,     \* the CI fix round
  kind,      \* the model of the stage's agent: its first or its fallback
  edited,    \* the implementer changed a named test (_bookkeeping's result)
  agent,     \* the stage whose agent is at work, 0 when none
  life,      \* resume_count
  late,      \* the clock is past deadline_epoch
  tree,      \* the worktree
  head,      \* its HEAD commit
  origin,    \* the pushed branch
  pr,        \* the pull request as it was opened
  report,    \* the terminal report: outcome, and what it says of the push
  before,    \* history: the worktree when a based stage was first begun
  fallbacks  \* model failures so far, counted for MaxFallbacks

procVars == <<mem, pc, round, kind, edited>>
treeVars == <<tree, head>>
ghostVars == <<before, fallbacks>>
vars == <<disk, procVars, agent, life, late, treeVars, origin, pr, report,
          ghostVars>>

EmptyState ==
  [stage |-> 0, sess |-> [s \in Stages |-> NoSession],
   base |-> [s \in BasedStages |-> NoContent], pr |-> FALSE]
EmptyReport == [outcome |-> "none", unpushed |-> FALSE]

Init ==
  /\ disk = EmptyState /\ mem = EmptyState
  /\ pc = "begin" /\ round = 0 /\ kind = "first" /\ edited = FALSE
  /\ agent = 0 /\ life = 0 /\ late = FALSE
  /\ tree = [spec |-> 0, test |-> "absent", code |-> "old", issue |-> "open"]
  /\ head = tree /\ origin = NoContent /\ pr = NoPr /\ report = EmptyReport
  /\ before = EmptyState.base /\ fallbacks = 0

-----------------------------------------------------------------------------
(* The worktree                                                            *)

Stage == mem.stage + 1

Diff(a, b) == {f \in {"spec", "test", "code", "issue"} : a[f] # b[f]}

(* _sweep: whatever the worktree holds uncommitted becomes a commit.       *)
Sweep == head' = tree /\ UNCHANGED tree

(* Mutant of TestRemoved: nothing is compared with the base.               *)
TestRemoved_Never(base) == FALSE

(* _named_test_defs and _named_test_changes against the implementer's base: *)
(* functions are compared.                                                 *)
HasTest(c) == c.test \in {"authored", "edited"}
TestRemoved(base) == HasTest(base) /\ ~HasTest(head)
TestEdited(base) == HasTest(base) /\ HasTest(head) /\ head.test # base.test

(* gate3_test_names_present: the spec names tests, and tests/ has the names. *)
NamedTestsPresent == tree.spec = 2 /\ tree.test # "absent"

IssueCommittedDone == tree.issue = head.issue /\ head.issue = "done"

(* What the agent of stage s may make of the worktree: its job done, or    *)
(* one of the slips the gates look for.                                    *)
Work(s, t) ==
  \/ s = 1 /\ t = [tree EXCEPT !.spec = 1]
  \/ s = SPEC_REVIEW_STAGE /\ t = [tree EXCEPT !.spec = 2]
  \/ /\ s = TEST_AUTHOR_STAGE
     /\ \E c \in {tree.code, "red"}, u \in {"authored", "named"} :
          t = [tree EXCEPT !.test = u, !.code = c]
  \/ /\ s \in {IMPLEMENT_STAGE, ADDRESS_COMMENTS_STAGE}
     /\ \E c \in {"red", "green"}, u \in {tree.test, "edited", "absent"} :
          t = [tree EXCEPT !.test = u, !.code = c]

(* A stage agent edits and commits, also after its process has died;       *)
(* stage 7's pushes as well.                                               *)
AgentWorks ==
  /\ agent # 0
  /\ \E t \in Contents :
       /\ Work(agent, t) /\ t # tree
       /\ tree' = t
       /\ head' \in {head, t}
       /\ origin' \in IF agent = ADDRESS_COMMENTS_STAGE THEN {origin, head'} ELSE {origin}
  /\ UNCHANGED <<disk, procVars, agent, life, late, pr, report, ghostVars>>

-----------------------------------------------------------------------------
(* state.json and the report                                               *)

(* _State.commit: the process's document, changed, replaces the file.      *)
Commit(doc) == disk' = doc /\ mem' = doc

(* finish: the report is written and the process ends.  A report of the    *)
(* fix loop says that nothing was pushed.                                  *)
Finish(outcome, unpushed) ==
  /\ report' = [outcome |-> outcome, unpushed |-> unpushed]
  /\ pc' = "off" /\ agent' = 0

(* run_pipeline's `for spec in STAGES`, down to the stage's first step.    *)
Begins ==
  /\ pc = "begin" /\ Stage \in Stages /\ ~late
  /\ pc' = CASE Stage \in BasedStages -> "base"
             [] Stage = PR_STAGE -> "check"
             [] OTHER -> "start"
  /\ kind' = "first" /\ round' = 0
  /\ before' = IF Stage \in BasedStages /\ before[Stage] = NoContent
                 THEN [before EXCEPT ![Stage] = tree] ELSE before
  /\ UNCHANGED <<disk, mem, edited, agent, life, late, treeVars, origin, pr,
                 report, fallbacks>>

(* The deadline is checked between stages, never inside one.               *)
StopsAtDeadline ==
  /\ pc = "begin" /\ Stage \in Stages /\ late
  /\ Finish("partial", FALSE)
  /\ UNCHANGED <<disk, mem, round, kind, edited, life, late, treeVars, origin, pr, ghostVars>>

(* Mutant of Completes: the last stage is skipped.                         *)
Completes_Early ==
  /\ pc = "begin" /\ Stage \notin 1..6
  /\ Finish("ok", FALSE)
  /\ UNCHANGED <<disk, mem, round, kind, edited, life, late, treeVars, origin, pr, ghostVars>>

Completes ==
  /\ pc = "begin" /\ Stage \notin Stages
  /\ Finish("ok", FALSE)
  /\ UNCHANGED <<disk, mem, round, kind, edited, life, late, treeVars, origin, pr, ghostVars>>

(* _Abort, and the other failures run_pipeline turns into a report: git,   *)
(* gh, herdr or a file does not answer, an agent settles badly.            *)
Aborts ==
  /\ pc # "off"
  /\ Finish("failed", FALSE)
  /\ UNCHANGED <<disk, mem, round, kind, edited, life, late, treeVars, origin, pr, ghostVars>>

-----------------------------------------------------------------------------
(* A stage with an agent                                                   *)

(* Mutant of RecordBase: each life takes the base anew.                    *)
RecordBase_Anew(s) == Commit([mem EXCEPT !.base[s] = head])

(* _record_base: HEAD before stages 3 and 4, written once.                 *)
RecordBase(s) ==
  IF mem.base[s] = NoContent
    THEN Commit([mem EXCEPT !.base[s] = head])
    ELSE UNCHANGED <<disk, mem>>

RecordsBase ==
  /\ pc = "base"
  /\ RecordBase(Stage)
  /\ pc' = "start"
  /\ UNCHANGED <<round, kind, edited, agent, life, late, treeVars, origin, pr,
                 report, ghostVars>>

(* _run_agent_stage: the pane is opened and the agent prompted.  Stage 7   *)
(* has nothing to resume without stage 4's session.                        *)
Prompts ==
  /\ pc = "start"
  /\ Stage = ADDRESS_COMMENTS_STAGE => mem.sess[IMPLEMENT_STAGE] # NoSession
  /\ pc' = "work" /\ agent' = Stage
  /\ UNCHANGED <<disk, mem, round, kind, edited, life, late, treeVars, origin, pr,
                 report, ghostVars>>

(* prompt_with_watchdog returns: the agent has settled.                    *)
Settles ==
  /\ pc = "work"
  /\ pc' = "record" /\ agent' = 0
  /\ UNCHANGED <<disk, mem, round, kind, edited, life, late, treeVars, origin, pr,
                 report, ghostVars>>

(* _prompt_with_fallback: the model failed mid-call, so the pane is closed *)
(* and a fresh session on the fallback model gets the prompt, once.        *)
FallsBack ==
  /\ pc \in {"work", "fix"} /\ kind = "first" /\ fallbacks < MaxFallbacks
  /\ kind' = "fallback" /\ fallbacks' = fallbacks + 1
  /\ UNCHANGED <<disk, mem, pc, round, edited, agent, life, late, treeVars,
                 origin, pr, report, before>>

(* The session the settled agent reports: stage 7 resumed stage 4's, any   *)
(* other agent and any fallback opened its own.                            *)
AgentSession ==
  IF Stage = ADDRESS_COMMENTS_STAGE /\ kind = "first"
    THEN mem.sess[IMPLEMENT_STAGE]
    ELSE <<Stage, life, kind>>

(* Mutant of RecordsSession: the stage is checkpointed with its session    *)
(* (the bug of issue 068).                                                 *)
RecordsSession_WithStage ==
  /\ pc = "record"
  /\ disk' = [mem EXCEPT !.sess[Stage] = AgentSession, !.stage = Stage]
  /\ pc' = "sweep"
  /\ UNCHANGED <<mem, round, kind, edited, agent, life, late, treeVars, origin,
                 pr, report, ghostVars>>

(* The id is committed alone, and from a copy the caller does not see.     *)
RecordsSession ==
  /\ pc = "record"
  /\ disk' = [mem EXCEPT !.sess[Stage] = AgentSession]
  /\ pc' = "sweep"
  /\ UNCHANGED <<mem, round, kind, edited, agent, life, late, treeVars, origin,
                 pr, report, ghostVars>>

(* The leftovers of stages 2, 3 and 4 are committed, and state.json read   *)
(* again, before the gate looks.                                           *)
ReRead == mem' = disk

SweepsStage ==
  /\ pc = "sweep"
  /\ IF Stage \in SweptStages THEN Sweep ELSE UNCHANGED treeVars
  /\ ReRead
  /\ pc' = "gate"
  /\ UNCHANGED <<disk, round, kind, edited, agent, life, late, origin, pr, report,
                 ghostVars>>

-----------------------------------------------------------------------------
(* The gates                                                               *)

GateTestAuthor ==
  /\ mem.base[TEST_AUTHOR_STAGE] # NoContent
  /\ Diff(mem.base[TEST_AUTHOR_STAGE], head) = {"test"}
  /\ NamedTestsPresent

GateImplementer ==
  /\ mem.base[IMPLEMENT_STAGE] # NoContent
  /\ ~TestRemoved(mem.base[IMPLEMENT_STAGE])
  /\ NamedTestsPresent

(* What gates 6 and 7 read is on GitHub: they may pass or fail.            *)
GatePasses ==
  /\ Stage = 1 => tree.spec > 0 /\ head.spec > 0
  /\ Stage = SPEC_REVIEW_STAGE => tree.spec = 2
  /\ Stage = TEST_AUTHOR_STAGE => GateTestAuthor
  /\ Stage = IMPLEMENT_STAGE => GateImplementer
  /\ Stage = PR_STAGE => mem.pr /\ IssueCommittedDone

(* validate_stage_sessions: ids of independent stages differ, and every    *)
(* stage up to current_stage that needs one has one.                       *)
SessionsAreValid(doc) ==
  /\ \E s \in Stages : doc.sess[s] # NoSession
  /\ \A s, t \in Stages :
       s < t /\ doc.sess[s] # NoSession /\ doc.sess[s] = doc.sess[t]
         => s = IMPLEMENT_STAGE /\ t = ADDRESS_COMMENTS_STAGE
  /\ \A s \in IndependentStages : s <= doc.stage => doc.sess[s] # NoSession

PassesGate ==
  /\ pc = "gate" /\ GatePasses /\ SessionsAreValid(mem)
  /\ Commit([mem EXCEPT !.stage = Stage])
  /\ pc' = "begin"
  /\ UNCHANGED <<round, kind, edited, agent, life, late, treeVars, origin, pr,
                 report, ghostVars>>

FailsGate ==
  /\ pc = "gate" /\ ~(GatePasses /\ SessionsAreValid(mem))
  /\ Finish("failed", FALSE)
  /\ UNCHANGED <<disk, mem, round, kind, edited, life, late, treeVars, origin, pr, ghostVars>>

-----------------------------------------------------------------------------
(* Stage 5: the CI check with its fix rounds, the issue flip, the PR       *)

(* A check of good code is green, or red for a timeout of the check or a   *)
(* flaky test; of any other code it is red.                                *)
ChecksGreen ==
  /\ pc = "check" /\ tree.code = "green"
  /\ pc' = "books"
  /\ UNCHANGED <<disk, mem, round, kind, edited, agent, life, late, treeVars,
                 origin, pr, report, ghostVars>>

(* _ci_fix_loop resumes the implementer's session with the failure.        *)
StartsFix ==
  /\ pc = "check" /\ round < MaxFixRounds /\ ~late
  /\ mem.sess[IMPLEMENT_STAGE] # NoSession
  /\ pc' = "fix" /\ agent' = IMPLEMENT_STAGE /\ kind' = "first"
  /\ UNCHANGED <<disk, mem, round, edited, life, late, treeVars, origin, pr, report,
                 ghostVars>>

(* Out of rounds: ci_check_failed.                                         *)
GivesUpFixing ==
  /\ pc = "check" /\ round = MaxFixRounds
  /\ Finish("failed", FALSE)
  /\ UNCHANGED <<disk, mem, round, kind, edited, life, late, treeVars, origin, pr, ghostVars>>

(* A round would start past the deadline: the report says "nothing was     *)
(* pushed".                                                                *)
StopsFixing ==
  /\ pc = "check" /\ round < MaxFixRounds /\ late
  /\ Finish("partial", TRUE)
  /\ UNCHANGED <<disk, mem, round, kind, edited, life, late, treeVars, origin, pr, ghostVars>>

(* Mutants of EndsFix: the round is not counted; the session of the round  *)
(* is recorded as stage 4's.                                               *)
EndsFix_Uncounted ==
  /\ pc = "fix"
  /\ Sweep
  /\ pc' = "check" /\ agent' = 0 /\ round' = round
  /\ UNCHANGED <<disk, mem, kind, edited, life, late, origin, pr, report, ghostVars>>
EndsFix_Recording ==
  /\ pc = "fix"
  /\ Sweep
  /\ Commit([mem EXCEPT !.sess[IMPLEMENT_STAGE] = <<IMPLEMENT_STAGE, life, kind>>])
  /\ pc' = "check" /\ agent' = 0 /\ round' = round + 1
  /\ UNCHANGED <<kind, edited, life, late, origin, pr, report, ghostVars>>

(* The fix settled; its leftovers are committed and the check runs again.  *)
EndsFix ==
  /\ pc = "fix"
  /\ Sweep
  /\ pc' = "check" /\ agent' = 0 /\ round' = round + 1
  /\ UNCHANGED <<disk, mem, kind, edited, life, late, origin, pr, report, ghostVars>>

(* _bookkeeping after a green check: what the check rewrote is committed   *)
(* and the named tests are compared again, on the HEAD of the last round.  *)
ComparesTests ==
  /\ pc = "books"
  /\ Sweep
  /\ pc' = "compare"
  /\ UNCHANGED <<disk, mem, round, kind, edited, agent, life, late, origin, pr,
                 report, ghostVars>>

KeepsTests ==
  /\ pc = "compare" /\ ~TestRemoved(mem.base[IMPLEMENT_STAGE])
  /\ edited' = TestEdited(mem.base[IMPLEMENT_STAGE])
  /\ pc' = "flip"
  /\ UNCHANGED <<disk, mem, round, kind, agent, life, late, treeVars, origin, pr,
                 report, ghostVars>>

LosesTests ==
  /\ pc = "compare" /\ TestRemoved(mem.base[IMPLEMENT_STAGE])
  /\ Finish("failed", FALSE)
  /\ UNCHANGED <<disk, mem, round, kind, edited, life, late, treeVars, origin, pr, ghostVars>>

(* _flip_issue: the frontmatter is rewritten, then that file committed; an *)
(* issue already committed as done is left alone.                          *)
WritesFlip ==
  /\ pc = "flip" /\ ~IssueCommittedDone /\ tree.issue = "open"
  /\ tree' = [tree EXCEPT !.issue = "done"]
  /\ UNCHANGED head
  /\ pc' = "commitFlip"
  /\ UNCHANGED <<disk, mem, round, kind, edited, agent, life, late, origin, pr,
                 report, ghostVars>>

CommitsFlip ==
  /\ pc = "commitFlip"
  /\ head' = [head EXCEPT !.issue = tree.issue]
  /\ UNCHANGED tree
  /\ pc' = "flip"
  /\ UNCHANGED <<disk, mem, round, kind, edited, agent, life, late, origin, pr,
                 report, ghostVars>>

(* _open_pr: push, refused for an issue not committed as done ...          *)
Pushes ==
  /\ pc = "flip" /\ IssueCommittedDone
  /\ origin' = head
  /\ pc' = "create"
  /\ UNCHANGED <<disk, mem, round, kind, edited, agent, life, late, treeVars, pr,
                 report, ghostVars>>

(* ... then `gh pr create`, which for a branch that has its PR returns     *)
(* that one or refuses (Aborts).                                           *)
CreatesPr ==
  /\ pc = "create"
  /\ pr' = IF pr = NoPr THEN [content |-> origin, edited |-> edited] ELSE pr
  /\ pc' = "recordPr"
  /\ UNCHANGED <<disk, mem, round, kind, edited, agent, life, late, treeVars,
                 origin, report, ghostVars>>

RecordsPr ==
  /\ pc = "recordPr"
  /\ Commit([mem EXCEPT !.pr = TRUE])
  /\ pc' = "gate"
  /\ UNCHANGED <<round, kind, edited, agent, life, late, treeVars, origin, pr,
                 report, ghostVars>>

-----------------------------------------------------------------------------
(* The clock, death and the watchdog                                       *)

DeadlinePasses ==
  /\ ~late /\ late' = TRUE
  /\ UNCHANGED <<disk, procVars, agent, life, treeVars, origin, pr, report, ghostVars>>

(* The unit dies; the agent, which herdr runs, does not.  The process's    *)
(* variables are gone.                                                     *)
Dies ==
  /\ pc # "off"
  /\ pc' = "off" /\ mem' = EmptyState
  /\ round' = 0 /\ kind' = "first" /\ edited' = FALSE
  /\ UNCHANGED <<disk, agent, life, late, treeVars, origin, pr, report, ghostVars>>

(* The watchdog's _resume_run: the run's panes are closed, state.json gets *)
(* a fresh deadline, and a new unit reads it.                              *)
Resumes ==
  /\ pc = "off" /\ report = EmptyReport /\ life < MaxResumes
  /\ agent' = 0 /\ life' = life + 1 /\ late' = FALSE
  /\ mem' = disk /\ pc' = "begin"
  /\ UNCHANGED <<disk, round, kind, edited, treeVars, origin, pr, report, ghostVars>>

(* The launcher's stub or the watchdog's report closes a run left dead.    *)
Reaps ==
  /\ pc = "off" /\ report = EmptyReport
  /\ Finish("failed", FALSE)
  /\ UNCHANGED <<disk, mem, round, kind, edited, life, late, treeVars, origin, pr, ghostVars>>

AgentSteps ==
  \/ Prompts \/ Settles \/ FallsBack \/ RecordsSession \/ SweepsStage
PrSteps ==
  \/ ChecksGreen \/ StartsFix \/ GivesUpFixing \/ StopsFixing \/ EndsFix
  \/ ComparesTests \/ KeepsTests \/ LosesTests \/ WritesFlip \/ CommitsFlip
  \/ Pushes \/ CreatesPr \/ RecordsPr
LoopSteps ==
  \/ Begins \/ StopsAtDeadline \/ Completes \/ RecordsBase
  \/ PassesGate \/ FailsGate \/ Aborts
Watchdog == Resumes \/ Reaps

Next ==
  \/ LoopSteps \/ AgentSteps \/ PrSteps \/ Watchdog
  \/ AgentWorks \/ DeadlinePasses \/ Dies

Spec == Init /\ [][Next]_vars

(* A unit keeps going (a stage prompt and a check have timeouts), and the  *)
(* watchdog's timer gets to a dead one.                                    *)
FairSpec ==
  Spec /\ WF_vars(LoopSteps \/ AgentSteps \/ PrSteps) /\ WF_vars(Watchdog)

-----------------------------------------------------------------------------
(* Properties                                                              *)

States ==
  [stage : 0..7, sess : [Stages -> Sessions \cup {NoSession}],
   base : [BasedStages -> Contents \cup {NoContent}], pr : BOOLEAN]

(* Types: where the process is, what the files, the branch and the report  *)
(* may hold.                                                               *)
TypeOK ==
  /\ disk \in States /\ mem \in States
  /\ pc \in {"off", "begin", "base", "start", "work", "record", "sweep", "gate",
             "check", "fix", "books", "compare", "flip", "commitFlip", "create",
             "recordPr"}
  /\ round \in 0..MaxFixRounds /\ kind \in {"first", "fallback"}
  /\ edited \in BOOLEAN /\ late \in BOOLEAN
  /\ agent \in {0} \cup Stages /\ life \in 0..MaxResumes
  /\ tree \in Contents /\ head \in Contents
  /\ origin \in Contents \cup {NoContent}
  /\ pr \in [content : Contents \cup {NoContent}, edited : BOOLEAN]
  /\ report \in [outcome : {"none", "ok", "partial", "failed"}, unpushed : BOOLEAN]
  /\ before \in [BasedStages -> Contents \cup {NoContent}]
  /\ fallbacks \in 0..MaxFallbacks

(* The base a stage is diffed against is everything the worktree held when *)
(* that stage first began, whoever died since and whatever was left        *)
(* uncommitted: no work escapes the gate and none is blamed on the wrong   *)
(* stage (_record_base, and the sweep of stage 2).                         *)
BaseIsTheWorkBefore ==
  \A s \in BasedStages : disk.base[s] # NoContent => disk.base[s] = before[s]

(* What a checkpoint stands for is on the branch: a committed spec after   *)
(* stage 1, the named tests and nothing else between the starts of stages  *)
(* 3 and 4, the pull request and the closed issue after stage 5.  A        *)
(* resumed run can rely on the stages it skips (issue 068).                *)
CheckpointsAreEarned ==
  /\ disk.stage >= 1 => head.spec > 0
  /\ disk.stage >= SPEC_REVIEW_STAGE => tree.spec = 2
  /\ disk.base[IMPLEMENT_STAGE] # NoContent =>
       Diff(before[TEST_AUTHOR_STAGE], disk.base[IMPLEMENT_STAGE]) = {"test"}
  /\ disk.stage >= PR_STAGE => pr # NoPr /\ head.issue = "done"

(* The pull request is opened on a branch that passes the CI check and     *)
(* commits the issue as done.  A test the author wrote is still there, and *)
(* the body says exactly whether the implementer touched it, also when the *)
(* life that edited it died before stage 5 (_bookkeeping, _pr_body).       *)
PrIsHonest ==
  pr # NoPr =>
    /\ pr.content.code = "green" /\ pr.content.issue = "done"
    /\ HasTest(before[IMPLEMENT_STAGE]) =>
         /\ HasTest(pr.content)
         /\ pr.edited <=> pr.content.test = "edited"

(* What a passed stage put on record stays: its session, which stage 7     *)
(* resumes, and its base.  No replay, fix round or stale copy of           *)
(* state.json takes it back (_State.commit, _ci_fix_loop).                 *)
PassedStagesAreFrozen ==
  [][ \A s \in Stages : s <= disk.stage =>
        /\ disk'.sess[s] = disk.sess[s]
        /\ s \in BasedStages => disk'.base[s] = disk.base[s] ]_vars

Promise ==
  INSTANCE PipelinePromise WITH
    Top <- 7, PrStage <- PR_STAGE,
    rung <- disk.stage, opened <- pr # NoPr, outcome <- report.outcome

(* The run implements what it promises: one gate at a time, one PR, one    *)
(* outcome, and "ok" only at the top (run_pipeline).                       *)
KeepsPromise == Promise!PromiseSpec

(* However the night goes, it ends with a report.                          *)
EveryNightIsReported == <>(report # EmptyReport)
=============================================================================

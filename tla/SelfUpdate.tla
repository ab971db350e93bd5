----------------------------- MODULE SelfUpdate -----------------------------
(***************************************************************************)
(* `herdr-routines self-update` (self_update.py): the nightly fast-forward *)
(* of the checkout the host runs from, between the ticks that run from it. *)
(* An update holds the tick lock for all of its steps; a tick loads its    *)
(* code first and asks for the lock afterwards.  Commits are the numbers   *)
(* of main, oldest first; what a human does to the checkout is `dirty`     *)
(* (uncommitted edits) and `ahead` (commits of his own on top).  It stays  *)
(* on main, and the code of a tick is named by the commit of main it is    *)
(* on.  A git call that times out has failed for _git, whether or not it   *)
(* had its effect: Fault("git").                                           *)
(***************************************************************************)
EXTENDS Naturals

CONSTANTS
  Tip,      \* bound: the last commit main will have
  Faults,   \* a subset of {"crash", "flaky", "git"}
  Trouble   \* bound: how often people, pipelines and faults interfere

Commits == 0..Tip

NoCommit == Tip + 1

ASSUME UpdateAssumption ==
  /\ Tip \in Nat
  /\ Faults \subseteq {"crash", "flaky", "git"}
  /\ Trouble \in Nat

VARIABLES
  (* GitHub, and what the commits are worth *)
  origin,    \* the tip of main
  green,     \* the commits whose checks passed
  broken,    \* the commits that do not validate on this host
  fewer,     \* the commits under which the host's config loads fewer jobs
  (* the host *)
  head,      \* the commit of main the checkout is on
  ahead,     \* ... with commits of somebody's own on top
  dirty,     \* tracked files are edited, or a killed git left them half done
  rejected,  \* last_rejected_sha
  lock,      \* the tick lock: "free", "tick" or "update"
  runIsOpen, \* a pipeline run is open in the history
  (* the update *)
  pc,
  old,       \* HEAD when it began
  new,       \* origin/main when it fetched
  counted,   \* whether the baseline validate told the number of jobs
  (* a tick *)
  tickCode,  \* the commit a starting or running tick loaded, or NoCommit
  raced,     \* it started while an update was under way
  (* history of the properties *)
  proven,    \* the commits that were green and then validated in place
  abandoned, \* unproven commits an update could not undo, died on, or left to whoever had committed on top
  unjudged,  \* unproven commits an update returned on, as git had not answered
  doubted,   \* commits rejected only because a validate timed out
  tries,     \* how often each commit was merged
  deaths,    \* how often an update died between the merge and its verdict
  trouble

hostVars == <<head, ahead, dirty>>
readVars == <<old, new, counted>>
tickVars == <<tickCode, raced>>
worldVars == <<origin, green, broken, fewer>>
ghostVars == <<proven, abandoned, unjudged, doubted, tries, deaths>>
vars == <<worldVars, hostVars, rejected, lock, runIsOpen, pc, readVars, tickVars, ghostVars, trouble>>

WorldTypeOK ==
  /\ origin \in Commits
  /\ green \subseteq Commits
  /\ broken \subseteq Commits
  /\ fewer \subseteq Commits
  /\ head \in Commits
  /\ ahead \in BOOLEAN
  /\ dirty \in BOOLEAN
  /\ runIsOpen \in BOOLEAN

UpdateTypeOK ==
  /\ rejected \in Commits \cup {NoCommit}
  /\ lock \in {"free", "tick", "update"}
  /\ pc \in {"idle", "wait", "check", "gate", "baseline", "merge", "reread", "post", "reset", "record"}
  /\ old \in Commits
  /\ new \in Commits
  /\ counted \in BOOLEAN
  /\ tickCode \in Commits \cup {NoCommit}
  /\ raced \in BOOLEAN

GhostTypeOK ==
  /\ proven \subseteq Commits
  /\ abandoned \subseteq Commits
  /\ unjudged \subseteq Commits
  /\ doubted \subseteq Commits

CountTypeOK ==
  /\ tries \in [Commits -> Nat]
  /\ deaths \in [Commits -> Nat]
  /\ trouble \in 0..Trouble

TypeOK == WorldTypeOK /\ UpdateTypeOK /\ GhostTypeOK /\ CountTypeOK

Init ==
  /\ origin = 0
  /\ green = {0}
  /\ broken \in SUBSET Commits
  /\ fewer \in SUBSET (Commits \ (broken \cup {0}))
  /\ head = 0
  /\ ahead = FALSE
  /\ dirty = FALSE
  /\ rejected = NoCommit
  /\ lock = "free"
  /\ runIsOpen = FALSE
  /\ pc = "idle"
  /\ old = 0
  /\ new = 0
  /\ counted = FALSE
  /\ tickCode = NoCommit
  /\ raced = FALSE
  /\ proven = {0}
  /\ abandoned = {}
  /\ unjudged = {}
  /\ doubted = {}
  /\ tries = [c \in Commits |-> 0]
  /\ deaths = [c \in Commits |-> 0]
  /\ trouble = 0

-----------------------------------------------------------------------------
Interferes == trouble < Trouble /\ trouble' = trouble + 1

Fault(kind) == kind \in Faults /\ Interferes

(* HEAD is the commit the fetch resolved.                                  *)
AtNew == head = new /\ ~ahead

(* The update returns, and the lock with it.                               *)
Returns == pc' = "idle" /\ lock' = "free"

(* git is killed before it moved HEAD, maybe half way through the files.   *)
Stalls == Fault("git") /\ dirty' \in {dirty, TRUE}

(* validate_subprocess: a child that times out has failed.                 *)
Validates == head \notin broken /\ UNCHANGED trouble

ValidateFails == (head \in broken /\ UNCHANGED trouble) \/ Fault("flaky")

-----------------------------------------------------------------------------
(* run_self_update, in the order of its steps *)

(* _wait_for_tick_lock: polls until it has the lock, or gives up for the   *)
(* night.                                                                  *)
TimerFires ==
  /\ pc = "idle"
  /\ pc' = "wait"
  /\ UNCHANGED <<worldVars, hostVars, rejected, lock, runIsOpen, readVars, tickVars, ghostVars, trouble>>

GivesUp ==
  /\ pc = "wait" /\ lock # "free"
  /\ pc' = "idle"
  /\ UNCHANGED <<worldVars, hostVars, rejected, lock, runIsOpen, readVars, tickVars, ghostVars, trouble>>

Acquires ==
  /\ pc = "wait" /\ lock = "free"
  /\ pc' = "check"
  /\ lock' = "update"
  /\ UNCHANGED <<worldVars, hostVars, rejected, runIsOpen, readVars, tickVars, ghostVars, trouble>>

(* Mutant: open pipeline runs are not looked at.                           *)
MayUpdate_AnyTime == ~dirty

(* No pipeline run is open, and the checkout is clean.                     *)
MayUpdate == ~runIsOpen /\ ~dirty

(* An open run, edited files, or a git that does not tell HEAD or fetch.   *)
DefersOrRefuses ==
  /\ pc = "check"
  /\ (~MayUpdate /\ UNCHANGED trouble) \/ Fault("git")
  /\ Returns
  /\ UNCHANGED <<worldVars, hostVars, rejected, runIsOpen, readVars, tickVars, ghostVars>>

(* repo_state, and the one fetch.  A status that times out prints nothing, *)
(* as over a clean checkout.                                               *)
Fetches ==
  /\ pc = "check"
  /\ (MayUpdate /\ UNCHANGED trouble) \/ (~runIsOpen /\ Fault("git"))
  /\ old' = head
  /\ new' = origin
  /\ pc' = "gate"
  /\ UNCHANGED <<worldVars, hostVars, rejected, lock, runIsOpen, counted, tickVars, ghostVars>>

(* Mutant: what was rolled back is forgotten.                              *)
Wanted_Forgetful == ~AtNew /\ new \in green

(* Mutant: a rejection is not tied to its commit.                          *)
Wanted_Sticky == ~AtNew /\ rejected = NoCommit /\ new \in green

(* There is something to merge, it was not rolled back before, and its     *)
(* checks passed.                                                          *)
Wanted == ~AtNew /\ new # rejected /\ new \in green

(* up_to_date, refused (HEAD is the rejected commit), deferred; and a dry  *)
(* run stops here whatever the gate says.                                  *)
StopsAtGate ==
  /\ pc = "gate"
  /\ Returns
  /\ UNCHANGED <<worldVars, hostVars, rejected, runIsOpen, readVars, tickVars, ghostVars, trouble>>

PassesGate ==
  /\ pc = "gate" /\ Wanted
  /\ pc' = "baseline"
  /\ UNCHANGED <<worldVars, hostVars, rejected, lock, runIsOpen, readVars, tickVars, ghostVars, trouble>>

(* The old code's own validate is best effort.                             *)
Baseline ==
  /\ pc = "baseline"
  /\ \/ Validates /\ counted' = TRUE
     \/ ValidateFails /\ counted' = FALSE
  /\ pc' = "merge"
  /\ UNCHANGED <<worldVars, hostVars, rejected, lock, runIsOpen, old, new, tickVars, ghostVars>>

(* fast_forward_to the gated commit.  A merge that is killed once HEAD has *)
(* moved has failed for the update, which refuses and looks no further.    *)
Merges ==
  /\ pc = "merge"
  /\ ~ahead /\ head < new
  /\ head' = new
  /\ tries' = [tries EXCEPT ![new] = @ + 1]
  /\ \/ pc' = "reread" /\ UNCHANGED <<lock, unjudged, trouble>>
     \/ Fault("git") /\ unjudged' = unjudged \cup {new} /\ Returns
  /\ UNCHANGED <<worldVars, ahead, dirty, rejected, runIsOpen, readVars, tickVars, proven, abandoned, doubted, deaths>>

(* The fast-forward fails (diverged, edits in the way, or killed before it *)
(* moved HEAD) or moves nothing (HEAD contains the commit already).        *)
MergesNothing ==
  /\ pc = "merge"
  /\ \/ (ahead \/ dirty \/ head >= new) /\ UNCHANGED <<dirty, trouble>>
     \/ Stalls
  /\ Returns
  /\ UNCHANGED <<worldVars, head, ahead, rejected, runIsOpen, readVars, tickVars, ghostVars>>

(* HEAD is read again: if it is neither commit, or git does not tell, the  *)
(* update refuses and leaves it there.                                     *)
Rereads ==
  /\ pc = "reread"
  /\ \/ AtNew /\ pc' = "post" /\ UNCHANGED <<lock, abandoned, unjudged, trouble>>
     \/ /\ ~AtNew /\ abandoned' = abandoned \cup {head}
        /\ Returns
        /\ UNCHANGED <<unjudged, trouble>>
     \/ /\ Fault("git") /\ unjudged' = unjudged \cup {head}
        /\ Returns
        /\ UNCHANGED abandoned
  /\ UNCHANGED <<worldVars, hostVars, rejected, runIsOpen, readVars, tickVars, proven, doubted, tries, deaths>>

(* A config migration that silently drops a job; without a baseline nobody *)
(* can tell.                                                               *)
JobsDropped == counted /\ new \in fewer

Updates ==
  /\ pc = "post"
  /\ Validates /\ ~JobsDropped
  /\ proven' = proven \cup {new}
  /\ Returns
  /\ UNCHANGED <<worldVars, hostVars, rejected, runIsOpen, readVars, tickVars, abandoned, unjudged, doubted, tries, deaths>>

Rejects ==
  /\ pc = "post"
  /\ \/ ValidateFails /\ doubted' = (IF head \in broken THEN doubted ELSE doubted \cup {new})
     \/ Validates /\ JobsDropped /\ UNCHANGED doubted
  /\ pc' = "reset"
  /\ UNCHANGED <<worldVars, hostVars, rejected, lock, runIsOpen, readVars, tickVars, proven, abandoned, unjudged, tries, deaths>>

(* Mutant: it resets to the commit it merged.                              *)
Resets_InPlace ==
  /\ pc = "reset"
  /\ head' = new /\ ahead' = FALSE
  /\ pc' = "record"
  /\ UNCHANGED <<worldVars, dirty, rejected, lock, runIsOpen, readVars, tickVars, ghostVars, trouble>>

(* reset_keep: takes commits made on top along, refuses over an edited     *)
(* file; killed, it leaves HEAD where it is.                               *)
Resets ==
  /\ pc = "reset"
  /\ \/ head' = old /\ ahead' = FALSE /\ UNCHANGED <<dirty, abandoned, trouble>>
     \/ /\ (dirty /\ UNCHANGED <<dirty, trouble>>) \/ Stalls
        /\ abandoned' = abandoned \cup {head}
        /\ UNCHANGED <<head, ahead>>
  /\ pc' = "record"
  /\ UNCHANGED <<worldVars, rejected, lock, runIsOpen, readVars, tickVars, proven, unjudged, doubted, tries, deaths>>

(* record_rejected: after the reset.                                       *)
Records ==
  /\ pc = "record"
  /\ rejected' = new
  /\ Returns
  /\ UNCHANGED <<worldVars, hostVars, runIsOpen, readVars, tickVars, ghostVars, trouble>>

(* It has merged, and not judged or undone it yet.                         *)
OnTrial == pc \in {"reread", "post", "reset"}

(* The update dies, a git it was running half way; the lock goes with its  *)
(* process.                                                                *)
Crash ==
  /\ pc \notin {"idle", "wait"}
  /\ Fault("crash")
  /\ Returns
  /\ dirty' \in (IF pc \in {"merge", "reset"} THEN {dirty, TRUE} ELSE {dirty})
  /\ abandoned' = (IF OnTrial THEN abandoned \cup {head} ELSE abandoned)
  /\ deaths' = (IF OnTrial \/ pc = "record" THEN [deaths EXCEPT ![new] = @ + 1] ELSE deaths)
  /\ UNCHANGED <<worldVars, head, ahead, rejected, runIsOpen, readVars, tickVars, proven, unjudged, doubted, tries>>

-----------------------------------------------------------------------------
(* The ticks *)

TickLoads ==
  /\ tickCode = NoCommit
  /\ tickCode' = head
  /\ raced' = (lock = "update")
  /\ UNCHANGED <<worldVars, hostVars, rejected, lock, runIsOpen, pc, readVars, ghostVars, trouble>>

TickLocks ==
  /\ tickCode # NoCommit /\ lock = "free"
  /\ lock' = "tick"
  /\ UNCHANGED <<worldVars, hostVars, rejected, runIsOpen, pc, readVars, tickVars, ghostVars, trouble>>

(* It has run, or found the lock held.                                     *)
TickEnds ==
  /\ tickCode # NoCommit /\ lock # "free"
  /\ tickCode' = NoCommit
  /\ raced' = FALSE
  /\ lock' = (IF lock = "tick" THEN "free" ELSE lock)
  /\ UNCHANGED <<worldVars, hostVars, rejected, runIsOpen, pc, readVars, ghostVars, trouble>>

(* A tick launches a pipeline run, and one closes it.                      *)
TickLaunches ==
  /\ lock = "tick" /\ ~runIsOpen
  /\ Interferes
  /\ runIsOpen' = TRUE
  /\ UNCHANGED <<worldVars, hostVars, rejected, lock, pc, readVars, tickVars, ghostVars>>

TickCloses ==
  /\ lock = "tick" /\ runIsOpen
  /\ runIsOpen' = FALSE
  /\ UNCHANGED <<worldVars, hostVars, rejected, lock, pc, readVars, tickVars, ghostVars, trouble>>

-----------------------------------------------------------------------------
(* The world *)

Pushes ==
  /\ origin < Tip
  /\ origin' = origin + 1
  /\ UNCHANGED <<green, broken, fewer, hostVars, rejected, lock, runIsOpen, pc, readVars, tickVars, ghostVars, trouble>>

ChecksPass ==
  /\ \E c \in 0..origin : c \notin green /\ green' = green \cup {c}
  /\ UNCHANGED <<origin, broken, fewer, hostVars, rejected, lock, runIsOpen, pc, readVars, tickVars, ghostVars, trouble>>

(* A human edits tracked files, commits on top, or undoes either (his      *)
(* commits not under an update).                                           *)
HumanEdits ==
  /\ \/ Interferes /\ dirty' = TRUE
     \/ dirty /\ dirty' = FALSE /\ UNCHANGED trouble
  /\ UNCHANGED <<worldVars, head, ahead, rejected, lock, runIsOpen, pc, readVars, tickVars, ghostVars>>

HumanCommits ==
  /\ \/ Interferes /\ ahead' = TRUE
     \/ ahead /\ lock # "update" /\ ahead' = FALSE /\ UNCHANGED trouble
  /\ UNCHANGED <<worldVars, head, dirty, rejected, lock, runIsOpen, pc, readVars, tickVars, ghostVars>>

UpdateSteps ==
  \/ DefersOrRefuses \/ Fetches \/ PassesGate \/ Baseline
  \/ Merges \/ MergesNothing \/ Rereads \/ Updates \/ Rejects \/ Resets \/ Records

Next ==
  \/ TimerFires \/ GivesUp \/ Acquires
  \/ DefersOrRefuses \/ Fetches \/ StopsAtGate \/ PassesGate \/ Baseline
  \/ Merges \/ MergesNothing \/ Rereads \/ Updates \/ Rejects \/ Resets \/ Records
  \/ Crash
  \/ TickLoads \/ TickLocks \/ TickEnds \/ TickLaunches \/ TickCloses
  \/ Pushes \/ ChecksPass \/ HumanEdits \/ HumanCommits

Spec == Init /\ [][Next]_vars

(* Its timer fires every night, and if the lock is free again and again,   *)
(* some night it gets it.  Dry runs do not go on for ever, and ticks end.  *)
FairSpec ==
  /\ Spec
  /\ SF_vars(TimerFires /\ lock = "free") /\ SF_vars(Acquires)
  /\ WF_vars(UpdateSteps) /\ SF_vars(PassesGate)
  /\ WF_vars(StopsAtGate /\ ~Wanted)
  /\ WF_vars(TickEnds)

-----------------------------------------------------------------------------
(* A tick works with code that was green and validated on this host, with  *)
(* one an update died on, could not undo or left to whoever had committed  *)
(* on top, or with one it loaded while an update was trying it out; and    *)
(* with one an update returned on for want of git's answer.                *)
OnlyProvenCodeRuns ==
  lock = "tick" => tickCode \in proven \cup abandoned \cup unjudged \/ raced

(* ... and with none of the last kind: a refused update leaves HEAD where  *)
(* it was, unless the rollback was refused (self_update.py:275).           *)
OnlyJudgedCodeRuns ==
  lock = "tick" => tickCode \in proven \cup abandoned \/ raced

(* A commit is merged again only if an update died before it had said what *)
(* became of it: a rejected commit is never tried twice.                   *)
RejectedOnce ==
  \A c \in Commits : tries[c] <= 1 + deaths[c]

(* The code does not change under an open pipeline run.                    *)
RunsKeepTheirCode ==
  [][runIsOpen => head' = head]_vars

(* What the host runs from, seen from between two updates: where HEAD      *)
(* stays, whatever becomes of the commit that is tried out.                *)
Base == IF OnTrial THEN old ELSE head

Host ==
  INSTANCE HostCode
    WITH code <- Base, passed <- green, sound <- proven, stuck <- abandoned,
         slipped <- unjudged, busy <- runIsOpen

(* An update is one step of the host's code, with no pipeline run open:    *)
(* forward, to a commit that is green, and validated here or known as one  *)
(* it could not take back or got no answer about.  What it tries out and   *)
(* takes back never was the host's code.                                   *)
KeepsHostCode == Host!CodeSpec

(* A commit that is good arrives for good, unless main moves on, a         *)
(* pipeline run is open, somebody is at work in the checkout (or git left  *)
(* it half done), or it was rejected for a validate that timed out.        *)
GoodCodeArrives ==
  \A c \in Commits :
    (origin = c /\ c \in green \ (broken \cup fewer))
      ~> (Base = c \/ origin # c \/ runIsOpen \/ dirty \/ ahead \/ c \in doubted)
=============================================================================

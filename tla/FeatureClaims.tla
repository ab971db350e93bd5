---------------------------- MODULE FeatureClaims ----------------------------
(***************************************************************************)
(* Which issue a pipeline run builds, and what keeps two runs from         *)
(* building the same one: the claims store (claims.py), the locked pick    *)
(* (pick_feature.py), what prepare does around it (pipeline_prepare.py),   *)
(* and `gc --delete` (gc.py), which removes the worktrees the pick reads.  *)
(*                                                                         *)
(* Nothing ties a claim to a process.  It is released by age alone, unless *)
(* an open pull request or a state.json without a report speaks for it.    *)
(* The three are read one after the other, while runs come, go and die.    *)
(***************************************************************************)
EXTENDS FiniteSets, Naturals

CONSTANTS
  Issues,   \* the issue files, numbered in the order of their sort_key
  Runs,     \* pipeline runs that may be on at a time
  NoRun,
  NoIssue

ASSUME ClaimsAssumption ==
  /\ Issues \subseteq Nat
  /\ NoRun \notin Runs
  /\ NoIssue \notin Issues

VARIABLES
  status,     \* of each issue on main
  claims,     \* the store: each issue's claim, "stale" past its lease
  torn,       \* the store does not parse
  holder,     \* who holds the store's lock
  draft,      \* the claims the holder loaded, and mutates in place
  answer,     \* what the holder's last `gh pr list` said
  at,         \* where each run's process is; "off" when it is gone
  saw,        \* the open issues it loaded, before it took the lock
  pick,       \* the issue it claimed
  wt,         \* its worktree: "bare" before state.json, "run" after
  dirty,      \* the runs with uncommitted changes in their worktree
  tip,        \* its branch: at "base", with commits of its own ("ahead"),
              \* or with commits a merged pull request covers ("merged")
  pr,         \* its pull request
  reported,   \* those whose terminal report is written
  aged,       \* those whose branch is older than the age gate
  doomed,     \* the branches `gc --delete` listed and has not come to yet
  forgotten   \* history: issues whose claim a torn store lost

storeVars == <<claims, torn, forgotten>>
lockVars == <<holder, draft, answer>>
runVars == <<at, saw, pick, reported>>
branchVars == <<wt, dirty, tip, pr, aged>>
vars == <<status, storeVars, lockVars, runVars, branchVars, doomed>>

NoClaims == [i \in Issues |-> "none"]
Unknown == [known |-> FALSE, ids |-> {}]
Known(ids) == [known |-> TRUE, ids |-> ids]

Held(c) == {i \in Issues : c[i] # "none"}
Stale(c) == {i \in Issues : c[i] = "stale"}

(* The issues an open pull request names: its body says `Closes issue <id>` *)
(* and state.json names its feature, so prose and structure agree.         *)
OpenPrIssues == {pick[r] : r \in {x \in Runs : pr[x] = "open"}}

(* A state.json and no report: so is a run that died and was not found.    *)
InFlight(r) == wt[r] = "run" /\ r \notin reported
InFlightIssues == {pick[r] : r \in {x \in Runs : InFlight(x)}}

Init ==
  /\ status = [i \in Issues |-> "open"]
  /\ claims = NoClaims /\ torn = FALSE /\ forgotten = {}
  /\ holder = NoRun /\ draft = NoClaims /\ answer = Unknown
  /\ at = [r \in Runs |-> "idle"]
  /\ saw = [r \in Runs |-> {}]
  /\ pick = [r \in Runs |-> NoIssue]
  /\ wt = [r \in Runs |-> "none"]
  /\ dirty = {}
  /\ tip = [r \in Runs |-> "base"]
  /\ pr = [r \in Runs |-> "none"]
  /\ reported = {}
  /\ aged = {}
  /\ doomed = {}

Goto(r, l) == at' = [at EXCEPT ![r] = l]
GiveUp(r) ==
  /\ Goto(r, "off")
  /\ reported' = reported \cup {r}

----------------------------------------------------------------------------
(* Prepare, and the locked transaction of the pick.                        *)

LoadIssues == {i \in Issues : status[i] = "open"}

(* The parent clone is fast-forwarded, the stage models are all listed and *)
(* the issues are parsed, all before the lock is asked for.                *)
Sync(r) ==
  /\ at[r] = "idle"
  /\ saw' = [saw EXCEPT ![r] = LoadIssues]
  /\ Goto(r, "synced")
  /\ UNCHANGED <<status, storeVars, lockVars, pick, reported, branchVars,
                 doomed>>

(* Any of the three fails: a report, and no claim.                         *)
SyncFails(r) ==
  /\ at[r] = "idle"
  /\ GiveUp(r)
  /\ UNCHANGED <<status, storeVars, lockVars, saw, pick, branchVars, doomed>>

(* locked_claims: the lock, then the store.  A store that does not parse   *)
(* is moved aside and read as empty.  With no stale claim there is nothing *)
(* to ask GitHub about.                                                    *)
Loaded == IF torn THEN NoClaims ELSE claims

Lock(r) ==
  /\ at[r] = "synced" /\ holder = NoRun
  /\ holder' = r
  /\ draft' = Loaded
  /\ claims' = Loaded /\ torn' = FALSE
  /\ forgotten' = IF torn THEN forgotten \cup Held(claims) ELSE forgotten
  /\ Goto(r, IF Stale(draft') = {} THEN "released" ELSE "stale")
  /\ UNCHANGED <<status, answer, saw, pick, reported, branchVars, doomed>>

(* reclaim_stale_claims asks for the open pull requests first ...          *)
AskOpenPrs(r) ==
  /\ at[r] = "stale"
  /\ answer' = Known(OpenPrIssues)
  /\ Goto(r, "asked")
  /\ UNCHANGED <<status, storeVars, holder, draft, saw, pick, reported,
                 branchVars, doomed>>

(* ... and releases nothing when GitHub does not answer.                   *)
GhSilent(r) ==
  /\ at[r] = "stale"
  /\ Goto(r, "released")
  /\ UNCHANGED <<status, storeVars, lockVars, saw, pick, reported, branchVars,
                 doomed>>

(* ... and then scans the worktrees for runs in flight.                    *)
Guarded_ByPrOnly == answer.ids

Guarded == answer.ids \cup InFlightIssues

Release(r) ==
  /\ at[r] = "asked"
  /\ draft' = [i \in Issues |->
                 IF i \in Stale(draft) \ Guarded THEN "none" ELSE draft[i]]
  /\ Goto(r, "released")
  /\ UNCHANGED <<status, storeVars, holder, answer, saw, pick, reported,
                 branchVars, doomed>>

(* pipeline_open_pr_issue_ids, which fails open.                           *)
AskPipelinePrs(r) ==
  /\ at[r] = "released"
  /\ answer' \in {Known(OpenPrIssues), Unknown}
  /\ Goto(r, "screened")
  /\ UNCHANGED <<status, storeVars, holder, draft, saw, pick, reported,
                 branchVars, doomed>>

(* select_next: the first open issue nobody claimed and no open pipeline   *)
(* pull request names.                                                     *)
Pickable_ByClaimOnly(r) == saw[r] \ Held(draft)

Pickable(r) == (saw[r] \ Held(draft)) \ answer.ids
SelectNext(r, i) == i \in Pickable(r) /\ \A j \in Pickable(r) : i <= j

(* The claim is saved, with the releases, and the lock let go.             *)
Unlock(c) ==
  /\ claims' = c
  /\ holder' = NoRun /\ draft' = NoClaims /\ answer' = Unknown
  /\ UNCHANGED <<torn, forgotten>>

Claim(r, i) ==
  /\ at[r] = "screened" /\ SelectNext(r, i)
  /\ Unlock([draft EXCEPT ![i] = "fresh"])
  /\ pick' = [pick EXCEPT ![r] = i]
  /\ Goto(r, "claimed")
  /\ UNCHANGED <<status, saw, reported, branchVars, doomed>>

NoFeature_DropsReleases(r) ==
  /\ at[r] = "screened" /\ Pickable(r) = {}
  /\ Unlock(claims)
  /\ GiveUp(r)
  /\ UNCHANGED <<status, saw, pick, branchVars, doomed>>

NoFeature(r) ==
  /\ at[r] = "screened" /\ Pickable(r) = {}
  /\ Unlock(draft)
  /\ GiveUp(r)
  /\ UNCHANGED <<status, saw, pick, branchVars, doomed>>

CreateWorktree(r) ==
  /\ at[r] = "claimed"
  /\ wt' = [wt EXCEPT ![r] = "bare"]
  /\ Goto(r, "cut")
  /\ UNCHANGED <<status, storeVars, lockVars, saw, pick, reported, dirty,
                 tip, pr, aged, doomed>>

WriteState(r) ==
  /\ at[r] = "cut" /\ wt[r] = "bare"
  /\ wt' = [wt EXCEPT ![r] = "run"]
  /\ Goto(r, "building")
  /\ UNCHANGED <<status, storeVars, lockVars, saw, pick, reported, dirty,
                 tip, pr, aged, doomed>>

(* A prepare that fails after the claim reports, and keeps the claim.      *)
PrepareFails(r) ==
  /\ at[r] \in {"claimed", "cut"}
  /\ GiveUp(r)
  /\ UNCHANGED <<status, storeVars, lockVars, saw, pick, branchVars, doomed>>

----------------------------------------------------------------------------
(* The run, as far as a later pick or gc can tell, and the people.         *)

Edit(r) ==
  /\ at[r] = "building" /\ wt[r] = "run"
  /\ dirty' = dirty \cup {r}
  /\ UNCHANGED <<status, storeVars, lockVars, runVars, wt, tip, pr, aged,
                 doomed>>

Commit(r) ==
  /\ at[r] = "building" /\ r \in dirty
  /\ dirty' = dirty \ {r}
  /\ tip' = [tip EXCEPT ![r] = "ahead"]
  /\ UNCHANGED <<status, storeVars, lockVars, runVars, wt, pr, aged, doomed>>

OpenPr(r) ==
  /\ at[r] = "building" /\ tip[r] = "ahead" /\ pr[r] = "none"
  /\ pr' = [pr EXCEPT ![r] = "open"]
  /\ UNCHANGED <<status, storeVars, lockVars, runVars, wt, dirty, tip, aged,
                 doomed>>

Finish(r) ==
  /\ at[r] = "building"
  /\ GiveUp(r)
  /\ UNCHANGED <<status, storeVars, lockVars, saw, pick, branchVars, doomed>>

(* A process dies anywhere; the lock goes with it, the draft is lost.  A   *)
(* pick by hand is a run that dies as soon as it has its claim.            *)
Die(r) ==
  /\ at[r] \notin {"idle", "off"}
  /\ Goto(r, "off")
  /\ IF holder = r
     THEN holder' = NoRun /\ draft' = NoClaims /\ answer' = Unknown
     ELSE UNCHANGED lockVars
  /\ UNCHANGED <<status, storeVars, saw, pick, reported, branchVars, doomed>>

(* The launcher's stub report, or the watchdog's: it resumes the run, or   *)
(* reports it.                                                             *)
Report(r) ==
  /\ at[r] = "off" /\ r \notin reported
  /\ GiveUp(r)
  /\ UNCHANGED <<status, storeVars, lockVars, saw, pick, branchVars, doomed>>

Resume(r) ==
  /\ at[r] = "off" /\ InFlight(r)
  /\ Goto(r, "building")
  /\ UNCHANGED <<status, storeVars, lockVars, saw, pick, reported, branchVars,
                 doomed>>

(* The pull request carries the `status: done` flip to main.               *)
Merge(r) ==
  /\ pr[r] = "open"
  /\ pr' = [pr EXCEPT ![r] = "merged"]
  /\ tip' = [tip EXCEPT ![r] = "merged"]
  /\ status' = [status EXCEPT ![pick[r]] = "done"]
  /\ UNCHANGED <<storeVars, lockVars, runVars, wt, dirty, aged, doomed>>

Close(r) ==
  /\ pr[r] = "open"
  /\ pr' = [pr EXCEPT ![r] = "closed"]
  /\ UNCHANGED <<status, storeVars, lockVars, runVars, wt, dirty, tip, aged,
                 doomed>>

(* The lease is twelve hours, prepare a few minutes of a unit that systemd *)
(* stops after seven: it cannot run out between a claim and its state.json, *)
(* and `now` is one reading for the whole of a transaction.                *)
BeingPrepared(i) ==
  \E r \in Runs : at[r] \in {"claimed", "cut"} /\ pick[r] = i

LeaseRunsOut(i) ==
  /\ claims[i] = "fresh" /\ holder = NoRun /\ ~BeingPrepared(i)
  /\ claims' = [claims EXCEPT ![i] = "stale"]
  /\ UNCHANGED <<status, torn, forgotten, lockVars, runVars, branchVars,
                 doomed>>

(* A hand edit or a full disk leaves a store that does not parse.          *)
Tear ==
  /\ ~torn /\ forgotten = {} /\ holder = NoRun
  /\ torn' = TRUE
  /\ UNCHANGED <<status, claims, forgotten, lockVars, runVars, branchVars,
                 doomed>>

(* A later night has the name r; the old branch is not looked at again.    *)
NextNight(r) ==
  /\ at[r] = "off"
  /\ r \in reported /\ pr[r] # "open"
  /\ Goto(r, "idle")
  /\ saw' = [saw EXCEPT ![r] = {}]
  /\ pick' = [pick EXCEPT ![r] = NoIssue]
  /\ reported' = reported \ {r}
  /\ wt' = [wt EXCEPT ![r] = "none"]
  /\ dirty' = dirty \ {r}
  /\ tip' = [tip EXCEPT ![r] = "base"]
  /\ pr' = [pr EXCEPT ![r] = "none"]
  /\ aged' = aged \ {r}
  /\ doomed' = doomed \ {r}
  /\ UNCHANGED <<status, storeVars, lockVars>>

----------------------------------------------------------------------------
(* gc --delete.                                                            *)

(* branch_age_days reads the merge date or the stamp in the branch's name, *)
(* so that two weeks are two weeks of this run: it is long off by then.    *)
Ages(r) ==
  /\ at[r] = "off" /\ wt[r] # "none" /\ r \notin aged
  /\ aged' = aged \cup {r}
  /\ UNCHANGED <<status, storeVars, lockVars, runVars, wt, dirty, tip, pr,
                 doomed>>

BranchWorktrees == {r \in Runs : wt[r] # "none"}

(* What GitHub may say: nothing at all, then nothing reads as squashed and *)
(* each open pull request it does not answer for reads as not open.        *)
MergedPrs == {{r \in Runs : tip[r] = "merged"}, {}}
OpenPrs == SUBSET {r \in Runs : pr[r] = "open"}

(* By ancestry, as for a branch without a commit of its own, or by a merged *)
(* pull request that covers the tip.                                       *)
IsMerged(r, merged) == r \in merged \/ tip[r] = "base"

PipelineBranchRetained(r, merged, open) ==
  ~IsMerged(r, merged) \/ r \in open \/ InFlight(r)

Collectible_AgedByTip(r, merged) == IsMerged(r, merged)

Collectible(r, merged) == IsMerged(r, merged) /\ r \in aged

(* The worktrees, the merge states and the runs in flight are read once ... *)
GcList ==
  /\ doomed = {}
  /\ \E merged \in MergedPrs, open \in OpenPrs :
       doomed' = {r \in BranchWorktrees :
                    ~PipelineBranchRetained(r, merged, open)
                      /\ Collectible(r, merged)}
  /\ doomed' # {}
  /\ UNCHANGED <<status, storeVars, lockVars, runVars, branchVars>>

(* ... and each row is removed, worktree and branch, unless it is dirty.   *)
WorktreeDirty(r) == r \in dirty

GcDelete(r) ==
  /\ r \in doomed
  /\ doomed' = doomed \ {r}
  /\ IF WorktreeDirty(r)
     THEN UNCHANGED branchVars
     ELSE /\ wt' = [wt EXCEPT ![r] = "none"]
          /\ tip' = [tip EXCEPT ![r] = "base"]
          /\ UNCHANGED <<dirty, pr, aged>>
  /\ UNCHANGED <<status, storeVars, lockVars, runVars>>

----------------------------------------------------------------------------
Picking(r) ==
  \/ Sync(r) \/ SyncFails(r) \/ Lock(r) \/ AskOpenPrs(r) \/ GhSilent(r)
  \/ Release(r) \/ AskPipelinePrs(r) \/ NoFeature(r)
  \/ \E i \in Issues : Claim(r, i)

Preparing(r) == CreateWorktree(r) \/ WriteState(r) \/ PrepareFails(r)

Building(r) ==
  \/ Edit(r) \/ Commit(r) \/ OpenPr(r) \/ Finish(r)
  \/ Die(r) \/ Report(r) \/ Resume(r) \/ NextNight(r)

Next ==
  \/ \E r \in Runs : Picking(r) \/ Preparing(r)
  \/ \E r \in Runs : Building(r)
  \/ \E r \in Runs : Merge(r) \/ Close(r)
  \/ \E i \in Issues : LeaseRunsOut(i)
  \/ Tear
  \/ GcList
  \/ \E r \in Runs : Ages(r) \/ GcDelete(r)

(* No process stands still for good: every question it asks has a timeout, *)
(* a run that died is reported, a gc goes through its list, and nights     *)
(* keep coming.  Again and again one of them syncs, gets the lock and an   *)
(* answer from GitHub, and lives to save the release.                      *)
Moves(r) ==
  Picking(r) \/ Preparing(r) \/ Die(r) \/ Report(r) \/ NextNight(r)

Saves == \E r \in Runs : NoFeature(r) \/ \E i \in Issues : Claim(r, i)

Fairness ==
  /\ \A r \in Runs : WF_vars(Moves(r))
  /\ WF_vars(\E r \in Runs : GcDelete(r))
  /\ SF_vars(\E r \in Runs : Sync(r))
  /\ SF_vars(\E r \in Runs : Lock(r))
  /\ SF_vars(\E r \in Runs : AskOpenPrs(r))
  /\ SF_vars(\E r \in Runs : Release(r))
  /\ SF_vars(draft # claims /\ \E r \in Runs : AskPipelinePrs(r))
  /\ SF_vars(draft # claims /\ Saves)

Spec == Init /\ [][Next]_vars
FairSpec == Spec /\ Fairness

----------------------------------------------------------------------------
Answers == [known : BOOLEAN, ids : SUBSET (Issues \cup {NoIssue})]
Claims == [Issues -> {"none", "fresh", "stale"}]
Locked == {"stale", "asked", "released", "screened"}

StoreTypeOK ==
  /\ status \in [Issues -> {"open", "done"}]
  /\ claims \in Claims /\ draft \in Claims
  /\ torn \in BOOLEAN /\ forgotten \subseteq Issues
  /\ holder \in Runs \cup {NoRun} /\ answer \in Answers

RunTypeOK ==
  /\ at \in [Runs -> {"idle", "synced", "claimed", "cut", "building", "off"}
                        \cup Locked]
  /\ saw \in [Runs -> SUBSET Issues]
  /\ pick \in [Runs -> Issues \cup {NoIssue}]
  /\ reported \subseteq Runs

BranchTypeOK ==
  /\ wt \in [Runs -> {"none", "bare", "run"}]
  /\ tip \in [Runs -> {"base", "ahead", "merged"}]
  /\ pr \in [Runs -> {"none", "open", "merged", "closed"}]
  /\ dirty \subseteq Runs /\ aged \subseteq Runs /\ doomed \subseteq Runs

(* Every variable stays in its set.                                        *)
TypeOK == StoreTypeOK /\ RunTypeOK /\ BranchTypeOK

----------------------------------------------------------------------------
AtWork(r) == at[r] \in {"claimed", "cut"} \/ InFlight(r)

(* Two runs never build one issue: a claim is not given up under a run that *)
(* is being prepared, works, or died and may still be resumed.  A store    *)
(* that was torn has forgotten its claims; nothing else excuses it.        *)
OneBuilder ==
  \A r, s \in Runs :
    r # s /\ AtWork(r) /\ AtWork(s) /\ pick[r] = pick[s]
      => pick[r] \in forgotten

(* A pick never takes an issue whose pull request waits for review, unless *)
(* GitHub would not say which do: select_next's exclusion is asked after   *)
(* the claims were released, and so covers the release that raced a run.   *)
NoRivalPr ==
  [][\A r \in Runs, i \in Issues :
       Claim(r, i) => \/ i \notin OpenPrIssues
                      \/ ~answer.known \/ i \in forgotten]_vars

(* gc --delete removes nothing that exists only there, nor a worktree that *)
(* a run works in or may be resumed in, although it decides on a listing   *)
(* and the runs go on meanwhile.                                           *)
WorkSurvives ==
  [][\A r \in Runs :
       GcDelete(r) /\ wt'[r] # wt[r]
         => at[r] = "off" /\ ~InFlight(r) /\ r \notin dirty /\ tip[r] # "ahead"]_vars

(* A claim whose run came to nothing is released again, without any help   *)
(* from the run that took it.                                              *)
StaleClaimIsReleased ==
  \A i \in Issues :
    claims[i] = "stale"
      ~> \/ claims[i] # "stale"
         \/ \E r \in Runs : pick[r] = i /\ (pr[r] = "open" \/ InFlight(r))
=============================================================================

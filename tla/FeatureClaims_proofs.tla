------------------------- MODULE FeatureClaims_proofs -------------------------
(***************************************************************************)
(* OneBuilder for any number of issues and runs.  It is not inductive: a   *)
(* pick may free a claim only in its draft, so the claim of a run at work  *)
(* has to be followed from the store into the draft and back, and an       *)
(* unexpired one has to be told from one that is merely held.              *)
(***************************************************************************)
EXTENDS FeatureClaims, TLAPS

----------------------------------------------------------------------------
(* The type invariant.                                                     *)

USE ClaimsAssumption DEF Goto, GiveUp, Unlock, NoClaims, Unknown, Known, Claims, Answers,
        Locked, storeVars, lockVars, runVars, branchVars

(* Every variable stays in its set, whoever moves and whatever fails.      *)
THEOREM TypeCorrect == Spec => []TypeOK
<1>1. Init => TypeOK
  <2> SUFFICES ASSUME Init PROVE TypeOK
    OBVIOUS
  <2>1. StoreTypeOK
    BY DEF Init, StoreTypeOK
  <2>2. RunTypeOK
    BY DEF Init, RunTypeOK
  <2>3. BranchTypeOK
    BY DEF Init, BranchTypeOK
  <2> QED BY <2>1, <2>2, <2>3 DEF TypeOK
<1>2. TypeOK /\ [Next]_vars => TypeOK'
  <2> SUFFICES ASSUME StoreTypeOK, RunTypeOK, BranchTypeOK, [Next]_vars
               PROVE  TypeOK'
    BY DEF TypeOK
  <2>1. ASSUME NEW r \in Runs, Picking(r) PROVE TypeOK'
    <3>1. CASE Sync(r)
      <4>1. StoreTypeOK'
        BY <3>1 DEF Sync, LoadIssues, StoreTypeOK, RunTypeOK
      <4>2. RunTypeOK'
        BY <3>1 DEF Sync, LoadIssues, RunTypeOK
      <4>3. BranchTypeOK'
        BY <3>1 DEF Sync, LoadIssues, BranchTypeOK
      <4> QED BY <4>1, <4>2, <4>3 DEF TypeOK
    <3>2. CASE SyncFails(r)
      <4>1. StoreTypeOK'
        BY <3>2 DEF SyncFails, StoreTypeOK, RunTypeOK
      <4>2. RunTypeOK'
        BY <3>2 DEF SyncFails, RunTypeOK
      <4>3. BranchTypeOK'
        BY <3>2 DEF SyncFails, BranchTypeOK
      <4> QED BY <4>1, <4>2, <4>3 DEF TypeOK
    <3>3. CASE Lock(r)
      <4>0. Loaded \in Claims
        BY DEF Loaded, StoreTypeOK
      <4>1. StoreTypeOK'
        BY <3>3, <4>0 DEF Lock, Held, StoreTypeOK, RunTypeOK
      <4>2. RunTypeOK'
        BY <3>3, <4>0 DEF Lock, Held, RunTypeOK
      <4>3. BranchTypeOK'
        BY <3>3, <4>0 DEF Lock, Held, BranchTypeOK
      <4> QED BY <4>1, <4>2, <4>3 DEF TypeOK
    <3>4. CASE AskOpenPrs(r)
      <4>1. StoreTypeOK'
        BY <3>4 DEF AskOpenPrs, OpenPrIssues, StoreTypeOK, RunTypeOK
      <4>2. RunTypeOK'
        BY <3>4 DEF AskOpenPrs, OpenPrIssues, RunTypeOK
      <4>3. BranchTypeOK'
        BY <3>4 DEF AskOpenPrs, OpenPrIssues, BranchTypeOK
      <4> QED BY <4>1, <4>2, <4>3 DEF TypeOK
    <3>5. CASE GhSilent(r)
      <4>1. StoreTypeOK'
        BY <3>5 DEF GhSilent, StoreTypeOK, RunTypeOK
      <4>2. RunTypeOK'
        BY <3>5 DEF GhSilent, RunTypeOK
      <4>3. BranchTypeOK'
        BY <3>5 DEF GhSilent, BranchTypeOK
      <4> QED BY <4>1, <4>2, <4>3 DEF TypeOK
    <3>6. CASE Release(r)
      <4>1. StoreTypeOK'
        BY <3>6 DEF Release, StoreTypeOK, RunTypeOK
      <4>2. RunTypeOK'
        BY <3>6 DEF Release, RunTypeOK
      <4>3. BranchTypeOK'
        BY <3>6 DEF Release, BranchTypeOK
      <4> QED BY <4>1, <4>2, <4>3 DEF TypeOK
    <3>7. CASE AskPipelinePrs(r)
      <4>0. Known(OpenPrIssues) \in Answers /\ Unknown \in Answers
        BY DEF OpenPrIssues, RunTypeOK
      <4>1. StoreTypeOK'
        BY <3>7, <4>0 DEF AskPipelinePrs, StoreTypeOK
      <4>2. RunTypeOK'
        BY <3>7 DEF AskPipelinePrs, OpenPrIssues, RunTypeOK
      <4>3. BranchTypeOK'
        BY <3>7 DEF AskPipelinePrs, OpenPrIssues, BranchTypeOK
      <4> QED BY <4>1, <4>2, <4>3 DEF TypeOK
    <3>8. CASE NoFeature(r)
      <4>1. StoreTypeOK'
        BY <3>8 DEF NoFeature, StoreTypeOK, RunTypeOK
      <4>2. RunTypeOK'
        BY <3>8 DEF NoFeature, RunTypeOK
      <4>3. BranchTypeOK'
        BY <3>8 DEF NoFeature, BranchTypeOK
      <4> QED BY <4>1, <4>2, <4>3 DEF TypeOK
    <3>9. ASSUME NEW i \in Issues, Claim(r, i) PROVE TypeOK'
      <4>1. StoreTypeOK'
        BY <3>9 DEF Claim, StoreTypeOK, RunTypeOK
      <4>2. RunTypeOK'
        BY <3>9 DEF Claim, RunTypeOK
      <4>3. BranchTypeOK'
        BY <3>9 DEF Claim, BranchTypeOK
      <4> QED BY <4>1, <4>2, <4>3 DEF TypeOK
    <3> QED BY <2>1, <3>1, <3>2, <3>3, <3>4, <3>5, <3>6, <3>7, <3>8, <3>9
            DEF Picking
  <2>2. ASSUME NEW r \in Runs, Preparing(r) PROVE TypeOK'
    <3>1. StoreTypeOK'
      BY <2>2 DEF Preparing, CreateWorktree, WriteState, PrepareFails, StoreTypeOK, RunTypeOK
    <3>2. RunTypeOK'
      BY <2>2 DEF Preparing, CreateWorktree, WriteState, PrepareFails, RunTypeOK
    <3>3. BranchTypeOK'
      BY <2>2 DEF Preparing, CreateWorktree, WriteState, PrepareFails, BranchTypeOK
    <3> QED BY <3>1, <3>2, <3>3 DEF TypeOK
  <2>3. ASSUME NEW r \in Runs, Building(r) PROVE TypeOK'
    <3>1. CASE Edit(r) \/ Commit(r) \/ OpenPr(r) \/ Finish(r)
      <4>1. StoreTypeOK'
        BY <3>1 DEF Edit, Commit, OpenPr, Finish, StoreTypeOK, RunTypeOK
      <4>2. RunTypeOK'
        BY <3>1 DEF Edit, Commit, OpenPr, Finish, RunTypeOK
      <4>3. BranchTypeOK'
        BY <3>1 DEF Edit, Commit, OpenPr, Finish, BranchTypeOK
      <4> QED BY <4>1, <4>2, <4>3 DEF TypeOK
    <3>2. CASE Die(r)
      <4>1. StoreTypeOK'
        <5>0. NoClaims \in Claims /\ Unknown \in Answers
          OBVIOUS
        <5>1. CASE holder = r
          <6>1. /\ holder' = NoRun /\ draft' = NoClaims /\ answer' = Unknown
                /\ UNCHANGED <<status, storeVars>>
            BY <3>2, <5>1 DEF Die
          <6> QED BY <5>0, <6>1 DEF StoreTypeOK
        <5>2. CASE holder # r BY <3>2, <5>2 DEF Die, StoreTypeOK
        <5> QED BY <5>1, <5>2
      <4>2. RunTypeOK'
        BY <3>2 DEF Die, RunTypeOK
      <4>3. BranchTypeOK'
        BY <3>2 DEF Die, BranchTypeOK
      <4> QED BY <4>1, <4>2, <4>3 DEF TypeOK
    <3>3. CASE Report(r) \/ Resume(r)
      <4>1. StoreTypeOK'
        BY <3>3 DEF Report, Resume, StoreTypeOK, RunTypeOK
      <4>2. RunTypeOK'
        BY <3>3 DEF Report, Resume, RunTypeOK
      <4>3. BranchTypeOK'
        BY <3>3 DEF Report, Resume, BranchTypeOK
      <4> QED BY <4>1, <4>2, <4>3 DEF TypeOK
    <3>4. CASE NextNight(r)
      <4>1. StoreTypeOK'
        BY <3>4 DEF NextNight, StoreTypeOK, RunTypeOK
      <4>2. RunTypeOK'
        BY <3>4 DEF NextNight, RunTypeOK
      <4>3. BranchTypeOK'
        BY <3>4 DEF NextNight, BranchTypeOK
      <4> QED BY <4>1, <4>2, <4>3 DEF TypeOK
    <3> QED BY <2>3, <3>1, <3>2, <3>3, <3>4 DEF Building
  <2>4. ASSUME NEW r \in Runs, Merge(r) \/ Close(r) PROVE TypeOK'
    <3>1. StoreTypeOK'
      BY <2>4 DEF Merge, Close, StoreTypeOK, RunTypeOK
    <3>2. RunTypeOK'
      BY <2>4 DEF Merge, Close, RunTypeOK
    <3>3. BranchTypeOK'
      BY <2>4 DEF Merge, Close, BranchTypeOK
    <3> QED BY <3>1, <3>2, <3>3 DEF TypeOK
  <2>5. ASSUME NEW i \in Issues, LeaseRunsOut(i) PROVE TypeOK'
    <3>1. StoreTypeOK'
      BY <2>5 DEF LeaseRunsOut, StoreTypeOK, RunTypeOK
    <3>2. RunTypeOK'
      BY <2>5 DEF LeaseRunsOut, RunTypeOK
    <3>3. BranchTypeOK'
      BY <2>5 DEF LeaseRunsOut, BranchTypeOK
    <3> QED BY <3>1, <3>2, <3>3 DEF TypeOK
  <2>6. CASE Tear
    <3>1. StoreTypeOK'
      BY <2>6 DEF Tear, StoreTypeOK, RunTypeOK
    <3>2. RunTypeOK'
      BY <2>6 DEF Tear, RunTypeOK
    <3>3. BranchTypeOK'
      BY <2>6 DEF Tear, BranchTypeOK
    <3> QED BY <3>1, <3>2, <3>3 DEF TypeOK
  <2>7. CASE GcList
    <3>1. StoreTypeOK'
      BY <2>7 DEF GcList, BranchWorktrees, StoreTypeOK, RunTypeOK
    <3>2. RunTypeOK'
      BY <2>7 DEF GcList, BranchWorktrees, RunTypeOK
    <3>3. BranchTypeOK'
      BY <2>7 DEF GcList, BranchWorktrees, BranchTypeOK
    <3> QED BY <3>1, <3>2, <3>3 DEF TypeOK
  <2>8. ASSUME NEW r \in Runs, Ages(r) \/ GcDelete(r) PROVE TypeOK'
    <3>1. StoreTypeOK'
      BY <2>8 DEF Ages, GcDelete, StoreTypeOK, RunTypeOK
    <3>2. RunTypeOK'
      BY <2>8 DEF Ages, GcDelete, RunTypeOK
    <3>3. BranchTypeOK'
      BY <2>8 DEF Ages, GcDelete, BranchTypeOK
    <3> QED BY <3>1, <3>2, <3>3 DEF TypeOK
  <2>9. CASE UNCHANGED vars
    <3>1. StoreTypeOK'
      BY <2>9 DEF vars, StoreTypeOK, RunTypeOK
    <3>2. RunTypeOK'
      BY <2>9 DEF vars, RunTypeOK
    <3>3. BranchTypeOK'
      BY <2>9 DEF vars, BranchTypeOK
    <3> QED BY <3>1, <3>2, <3>3 DEF TypeOK
  <2> QED BY <2>1, <2>2, <2>3, <2>4, <2>5, <2>6, <2>7, <2>8, <2>9 DEF Next
<1> QED BY <1>1, <1>2, PTL DEF Spec

----------------------------------------------------------------------------
(* The claim of a run at work.                                             *)

(* Only the holder of the lock is inside the transaction.                  *)
LockInv == \A r \in Runs : at[r] \in Locked <=> holder = r

Fresh(r) == at[r] \in {"claimed", "cut"}

(* Some claim stands for r in c, and one that is not past its lease while  *)
(* r has no state.json to speak for it.                                    *)
StandsIn(r, c) ==
  /\ c[pick[r]] # "none" \/ pick[r] \in forgotten
  /\ Fresh(r) => c[pick[r]] # "stale"

ClaimInv ==
  \A r \in Runs :
    AtWork(r) => /\ pick[r] \in Issues
                 /\ StandsIn(r, claims)
                 /\ holder # NoRun => StandsIn(r, draft)

IInv == LockInv /\ ClaimInv /\ OneBuilder

(* A step of a run's own, or of the people around it, that takes no claim  *)
(* and puts nobody to work disturbs none of this.                          *)
Quiet ==
  /\ UNCHANGED <<claims, forgotten, holder, draft, pick>>
  /\ \A r \in Runs : /\ AtWork(r)' => AtWork(r)
                     /\ Fresh(r)' => Fresh(r)
                     /\ at'[r] \in Locked <=> at[r] \in Locked

LEMMA QuietStep == ASSUME IInv, Quiet PROVE IInv'
<1>1. LockInv'
  BY DEF IInv, LockInv, Quiet
<1>2. ClaimInv'
  BY DEF IInv, ClaimInv, Quiet, StandsIn
<1>3. OneBuilder'
  BY DEF IInv, OneBuilder, Quiet
<1> QED BY <1>1, <1>2, <1>3 DEF IInv

LEMMA InitIInv == Init => IInv
BY DEF Init, IInv, LockInv, ClaimInv, OneBuilder, AtWork, InFlight

LEMMA QuietRuns ==
  ASSUME TypeOK, NEW r \in Runs,
         \/ Sync(r) \/ SyncFails(r) \/ AskOpenPrs(r) \/ GhSilent(r)
         \/ AskPipelinePrs(r) \/ Preparing(r)
         \/ Edit(r) \/ Commit(r) \/ OpenPr(r) \/ Finish(r) \/ Report(r)
         \/ Resume(r) \/ Merge(r) \/ Close(r) \/ Ages(r) \/ GcDelete(r)
  PROVE  Quiet
<1> USE DEF TypeOK, RunTypeOK, BranchTypeOK, Quiet, AtWork, Fresh, InFlight
<1>1. CASE Sync(r) BY <1>1 DEF Sync
<1>2. CASE SyncFails(r) BY <1>2 DEF SyncFails
<1>3. CASE AskOpenPrs(r) BY <1>3 DEF AskOpenPrs
<1>4. CASE GhSilent(r) BY <1>4 DEF GhSilent
<1>5. CASE AskPipelinePrs(r) BY <1>5 DEF AskPipelinePrs
<1>6. CASE CreateWorktree(r) BY <1>6 DEF CreateWorktree
<1>7. CASE WriteState(r) BY <1>7 DEF WriteState
<1>8. CASE PrepareFails(r) BY <1>8 DEF PrepareFails
<1>9. CASE Edit(r) BY <1>9 DEF Edit
<1>10. CASE Commit(r) BY <1>10 DEF Commit
<1>11. CASE OpenPr(r) BY <1>11 DEF OpenPr
<1>12. CASE Finish(r) BY <1>12 DEF Finish
<1>13. CASE Report(r) BY <1>13 DEF Report
<1>14. CASE Resume(r) BY <1>14 DEF Resume
<1>15. CASE Merge(r) BY <1>15 DEF Merge
<1>16. CASE Close(r) BY <1>16 DEF Close
<1>17. CASE Ages(r) BY <1>17 DEF Ages
<1>18. CASE GcDelete(r) BY <1>18 DEF GcDelete
<1> QED BY <1>1, <1>2, <1>3, <1>4, <1>5, <1>6, <1>7, <1>8, <1>9, <1>10,
           <1>11, <1>12, <1>13, <1>14, <1>15, <1>16, <1>17, <1>18 DEF Preparing

(* The steps that take the lock, release claims, save them, or lose them.  *)
LEMMA LockStep ==
  ASSUME TypeOK, IInv, NEW r \in Runs, Lock(r)
  PROVE  IInv'
<1> USE DEF TypeOK, StoreTypeOK, RunTypeOK
<1>1. /\ at[r] = "synced" /\ holder = NoRun /\ holder' = r
      /\ at'[r] \in Locked /\ \A s \in Runs \ {r} : at'[s] = at[s]
      /\ UNCHANGED <<pick, wt, reported>>
      /\ claims' = Loaded /\ draft' = Loaded
      /\ forgotten' = IF torn THEN forgotten \cup Held(claims) ELSE forgotten
  BY DEF Lock
<1>2. \A s \in Runs : (AtWork(s)' <=> AtWork(s)) /\ (Fresh(s)' <=> Fresh(s))
  BY <1>1 DEF AtWork, Fresh, InFlight
<1>3. LockInv'
  BY <1>1 DEF IInv, LockInv
<1>4. ASSUME NEW s \in Runs, AtWork(s)
      PROVE  pick[s] \in Issues /\ StandsIn(s, claims)' /\ StandsIn(s, draft)'
  <2>1. pick[s] \in Issues /\ StandsIn(s, claims)
    BY <1>4 DEF IInv, ClaimInv
  <2>2. CASE torn
    <3>1. pick[s] \in forgotten' /\ Loaded[pick[s]] = "none"
      BY <1>1, <2>1, <2>2 DEF StandsIn, Held, Loaded
    <3> QED BY <1>1, <2>1, <3>1 DEF StandsIn
  <2>3. CASE ~torn
    BY <1>1, <1>2, <2>1, <2>3 DEF StandsIn, Loaded
  <2> QED BY <2>2, <2>3
<1>5. ClaimInv'
  BY <1>1, <1>2, <1>4 DEF ClaimInv
<1>6. OneBuilder'
  BY <1>1, <1>2 DEF IInv, OneBuilder
<1> QED BY <1>3, <1>5, <1>6 DEF IInv

(* What is released has neither a state.json without a report nor a lease  *)
(* that still runs.                                                        *)
LEMMA ReleaseStep ==
  ASSUME TypeOK, IInv, NEW r \in Runs, Release(r)
  PROVE  IInv'
<1> USE DEF TypeOK, StoreTypeOK, RunTypeOK
<1>1. /\ at[r] = "asked" /\ at'[r] = "released"
      /\ \A s \in Runs \ {r} : at'[s] = at[s]
      /\ UNCHANGED <<claims, forgotten, holder, pick, wt, reported>>
      /\ draft' = [i \in Issues |->
                     IF i \in Stale(draft) \ Guarded THEN "none" ELSE draft[i]]
  BY DEF Release
<1>2. \A s \in Runs : (AtWork(s)' <=> AtWork(s)) /\ (Fresh(s)' <=> Fresh(s))
  BY <1>1 DEF AtWork, Fresh, InFlight
<1>3. holder = r
  BY <1>1 DEF IInv, LockInv
<1>4. LockInv'
  BY <1>1 DEF IInv, LockInv
<1>5. ASSUME NEW s \in Runs, AtWork(s) PROVE StandsIn(s, draft)'
  <2>1. pick[s] \in Issues /\ StandsIn(s, draft)
    BY <1>3, <1>5, ClaimsAssumption DEF IInv, ClaimInv
  <2>2. pick[s] \notin Stale(draft) \ Guarded
    BY <1>5, <2>1 DEF AtWork, Fresh, StandsIn, Stale, Guarded, InFlightIssues
  <2>3. draft'[pick[s]] = draft[pick[s]]
    BY <1>1, <2>1, <2>2
  <2> QED BY <1>1, <1>2, <2>1, <2>3 DEF StandsIn
<1>6. ClaimInv'
  BY <1>1, <1>2, <1>5 DEF IInv, ClaimInv, StandsIn
<1>7. OneBuilder'
  BY <1>1, <1>2 DEF IInv, OneBuilder
<1> QED BY <1>4, <1>6, <1>7 DEF IInv

(* The issue taken is one that no run at work stands for.                  *)
LEMMA ClaimStep ==
  ASSUME TypeOK, IInv, NEW r \in Runs, NEW i \in Issues, Claim(r, i)
  PROVE  IInv'
<1> USE DEF TypeOK, StoreTypeOK, RunTypeOK
<1>1. /\ at[r] = "screened" /\ at'[r] = "claimed" /\ draft[i] = "none"
      /\ pick'[r] = i /\ holder' = NoRun
      /\ \A s \in Runs \ {r} : at'[s] = at[s] /\ pick'[s] = pick[s]
      /\ UNCHANGED <<forgotten, wt, reported>>
      /\ claims' = [draft EXCEPT ![i] = "fresh"]
  BY DEF Claim, SelectNext, Pickable, Held
<1>2. \A s \in Runs \ {r} :
        (AtWork(s)' <=> AtWork(s)) /\ (Fresh(s)' <=> Fresh(s))
  BY <1>1 DEF AtWork, Fresh, InFlight
<1>3. holder = r
  BY <1>1 DEF IInv, LockInv
<1>4. LockInv'
  BY <1>1, <1>3, ClaimsAssumption DEF IInv, LockInv
<1>5. ASSUME NEW s \in Runs \ {r}, AtWork(s)
      PROVE  /\ pick[s] \in Issues /\ StandsIn(s, claims)'
             /\ pick[s] = i => i \in forgotten
  <2>1. pick[s] \in Issues /\ StandsIn(s, draft)
    BY <1>3, <1>5, ClaimsAssumption DEF IInv, ClaimInv
  <2> QED BY <1>1, <1>2, <2>1 DEF StandsIn
<1>6. StandsIn(r, claims)'
  BY <1>1 DEF StandsIn
<1>7. ClaimInv'
  BY <1>1, <1>2, <1>5, <1>6 DEF ClaimInv
<1>8. OneBuilder'
  BY <1>1, <1>2, <1>5 DEF IInv, OneBuilder
<1> QED BY <1>4, <1>7, <1>8 DEF IInv

LEMMA NoFeatureStep ==
  ASSUME TypeOK, IInv, NEW r \in Runs, NoFeature(r)
  PROVE  IInv'
<1> USE DEF TypeOK, StoreTypeOK, RunTypeOK
<1>1. /\ at[r] = "screened" /\ at'[r] = "off" /\ holder' = NoRun
      /\ \A s \in Runs \ {r} : at'[s] = at[s]
      /\ UNCHANGED <<forgotten, wt, pick>> /\ reported' = reported \cup {r}
      /\ claims' = draft
  BY DEF NoFeature
<1>2. \A s \in Runs : (AtWork(s)' => AtWork(s)) /\ (Fresh(s)' <=> Fresh(s))
  BY <1>1 DEF AtWork, Fresh, InFlight
<1>3. holder = r
  BY <1>1 DEF IInv, LockInv
<1>4. LockInv'
  BY <1>1, <1>3, ClaimsAssumption DEF IInv, LockInv
<1>5. ClaimInv'
  BY <1>1, <1>2, <1>3, ClaimsAssumption DEF IInv, ClaimInv, StandsIn
<1>6. OneBuilder'
  BY <1>1, <1>2 DEF IInv, OneBuilder
<1> QED BY <1>4, <1>5, <1>6 DEF IInv

LEMMA DieStep ==
  ASSUME TypeOK, IInv, NEW r \in Runs, Die(r)
  PROVE  IInv'
<1> USE DEF TypeOK, StoreTypeOK, RunTypeOK
<1>1. /\ at'[r] = "off" /\ \A s \in Runs \ {r} : at'[s] = at[s]
      /\ UNCHANGED <<claims, forgotten, wt, pick, reported>>
      /\ holder = r => holder' = NoRun
      /\ holder # r => UNCHANGED <<holder, draft>>
  BY DEF Die
<1>2. \A s \in Runs : (AtWork(s)' => AtWork(s)) /\ (Fresh(s)' => Fresh(s))
  BY <1>1 DEF AtWork, Fresh, InFlight
<1>3. LockInv'
  BY <1>1, ClaimsAssumption DEF IInv, LockInv
<1>4. ClaimInv'
  BY <1>1, <1>2, ClaimsAssumption DEF IInv, ClaimInv, StandsIn
<1>5. OneBuilder'
  BY <1>1, <1>2 DEF IInv, OneBuilder
<1> QED BY <1>3, <1>4, <1>5 DEF IInv

LEMMA NextNightStep ==
  ASSUME TypeOK, IInv, NEW r \in Runs, NextNight(r)
  PROVE  IInv'
<1> USE DEF TypeOK, RunTypeOK, BranchTypeOK
<1>1. /\ at[r] = "off" /\ at'[r] = "idle" /\ wt'[r] = "none"
      /\ \A s \in Runs \ {r} : /\ at'[s] = at[s] /\ wt'[s] = wt[s]
                               /\ pick'[s] = pick[s]
                               /\ s \in reported' <=> s \in reported
      /\ UNCHANGED <<claims, forgotten, holder, draft>>
  BY DEF NextNight
<1>2. ~AtWork(r)' /\ ~Fresh(r)'
  BY <1>1 DEF AtWork, Fresh, InFlight
<1>3. \A s \in Runs \ {r} :
        (AtWork(s)' <=> AtWork(s)) /\ (Fresh(s)' <=> Fresh(s))
  BY <1>1 DEF AtWork, Fresh, InFlight
<1>4. LockInv'
  BY <1>1 DEF IInv, LockInv
<1>5. ClaimInv'
  BY <1>1, <1>2, <1>3 DEF IInv, ClaimInv, StandsIn
<1>6. OneBuilder'
  BY <1>1, <1>2, <1>3 DEF IInv, OneBuilder
<1> QED BY <1>4, <1>5, <1>6 DEF IInv

LEMMA LeaseStep ==
  ASSUME TypeOK, IInv, NEW i \in Issues, LeaseRunsOut(i)
  PROVE  IInv'
<1>1. /\ holder = NoRun /\ ~BeingPrepared(i)
      /\ claims' = [claims EXCEPT ![i] = "stale"]
      /\ UNCHANGED <<forgotten, holder, draft, at, wt, pick, reported>>
  BY DEF LeaseRunsOut
<1>2. LockInv'
  BY <1>1 DEF IInv, LockInv
<1>3. ASSUME NEW s \in Runs, AtWork(s)
      PROVE  pick[s] \in Issues /\ StandsIn(s, claims)'
  <2>1. pick[s] \in Issues /\ StandsIn(s, claims)
    BY <1>3 DEF IInv, ClaimInv
  <2>2. Fresh(s) => pick[s] # i
    BY <1>1 DEF BeingPrepared, Fresh
  <2> QED
    BY <1>1, <2>1, <2>2 DEF StandsIn, Fresh, TypeOK, StoreTypeOK
<1>4. ClaimInv'
  BY <1>1, <1>3 DEF ClaimInv, AtWork, InFlight
<1>5. OneBuilder'
  BY <1>1 DEF IInv, OneBuilder, AtWork, InFlight
<1> QED BY <1>2, <1>4, <1>5 DEF IInv

LEMMA StepIInv == TypeOK /\ IInv /\ [Next]_vars => IInv'
<1> SUFFICES ASSUME TypeOK, IInv, [Next]_vars PROVE IInv'
  OBVIOUS
<1>1. ASSUME NEW r \in Runs, Picking(r) \/ Preparing(r) PROVE IInv'
  BY <1>1, QuietRuns, QuietStep, LockStep, ReleaseStep, ClaimStep,
     NoFeatureStep DEF Picking
<1>2. ASSUME NEW r \in Runs, Building(r) PROVE IInv'
  BY <1>2, QuietRuns, QuietStep, DieStep, NextNightStep DEF Building
<1>3. ASSUME NEW r \in Runs, Merge(r) \/ Close(r) PROVE IInv'
  BY <1>3, QuietRuns, QuietStep
<1>4. ASSUME NEW i \in Issues, LeaseRunsOut(i) PROVE IInv'
  BY <1>4, LeaseStep
<1>5. CASE Tear
  BY <1>5, QuietStep DEF Tear, Quiet, AtWork, Fresh, InFlight
<1>6. CASE GcList
  BY <1>6, QuietStep DEF GcList, Quiet, AtWork, Fresh, InFlight
<1>7. ASSUME NEW r \in Runs, Ages(r) \/ GcDelete(r) PROVE IInv'
  BY <1>7, QuietRuns, QuietStep
<1>8. CASE UNCHANGED vars
  BY <1>8, QuietStep DEF vars, Quiet, AtWork, Fresh, InFlight
<1> QED BY <1>1, <1>2, <1>3, <1>4, <1>5, <1>6, <1>7, <1>8 DEF Next

(* No two runs build one issue, unless a torn store forgot its claim: for  *)
(* any number of runs and issues, whenever leases run out, whatever GitHub *)
(* answers and whoever dies.                                               *)
THEOREM OneBuilderHolds == Spec => []OneBuilder
<1>1. IInv => OneBuilder
  BY DEF IInv
<1> QED BY InitIInv, StepIInv, TypeCorrect, <1>1, PTL DEF Spec

----------------------------------------------------------------------------
(* The pull requests.                                                      *)

(* Where a process stands tells what there is of its run.  A branch that   *)
(* is old enough for gc belongs to a run that is off, or was resumed.      *)
StandInv ==
  \A r \in Runs :
    /\ r \in reported => at[r] = "off"
    /\ at[r] = "building" => wt[r] = "run"
    /\ r \in aged => at[r] \in {"off", "building"}

(* What gc has listed stays dead and merged until gc comes to it.          *)
DoomInv ==
  \A r \in doomed : at[r] = "off" /\ ~InFlight(r) /\ tip[r] # "ahead"

LEMMA NextStand ==
  ASSUME TypeOK, StandInv, DoomInv, [Next]_vars
  PROVE  StandInv'
<1> USE DEF TypeOK, StoreTypeOK, RunTypeOK, BranchTypeOK, StandInv, DoomInv, InFlight
<1>1. ASSUME NEW r \in Runs, Sync(r) PROVE StandInv'
  BY <1>1 DEF Sync
<1>2. ASSUME NEW r \in Runs, SyncFails(r) PROVE StandInv'
  BY <1>2 DEF SyncFails
<1>3. ASSUME NEW r \in Runs, Lock(r) PROVE StandInv'
  BY <1>3 DEF Lock
<1>4. ASSUME NEW r \in Runs, AskOpenPrs(r) PROVE StandInv'
  BY <1>4 DEF AskOpenPrs
<1>5. ASSUME NEW r \in Runs, GhSilent(r) PROVE StandInv'
  BY <1>5 DEF GhSilent
<1>6. ASSUME NEW r \in Runs, Release(r) PROVE StandInv'
  BY <1>6 DEF Release
<1>7. ASSUME NEW r \in Runs, AskPipelinePrs(r) PROVE StandInv'
  BY <1>7 DEF AskPipelinePrs
<1>8. ASSUME NEW r \in Runs, NoFeature(r) PROVE StandInv'
  BY <1>8 DEF NoFeature
<1>9. ASSUME NEW r \in Runs, NEW i \in Issues, Claim(r, i) PROVE StandInv'
  BY <1>9 DEF Claim
<1>10. ASSUME NEW r \in Runs, CreateWorktree(r) PROVE StandInv'
  BY <1>10 DEF CreateWorktree
<1>11. ASSUME NEW r \in Runs, WriteState(r) PROVE StandInv'
  BY <1>11 DEF WriteState
<1>12. ASSUME NEW r \in Runs, PrepareFails(r) PROVE StandInv'
  BY <1>12 DEF PrepareFails
<1>13. ASSUME NEW r \in Runs, Edit(r) PROVE StandInv'
  BY <1>13 DEF Edit
<1>14. ASSUME NEW r \in Runs, Commit(r) PROVE StandInv'
  BY <1>14 DEF Commit
<1>15. ASSUME NEW r \in Runs, OpenPr(r) PROVE StandInv'
  BY <1>15 DEF OpenPr
<1>16. ASSUME NEW r \in Runs, Finish(r) PROVE StandInv'
  BY <1>16 DEF Finish
<1>17. ASSUME NEW r \in Runs, Die(r) PROVE StandInv'
  BY <1>17 DEF Die
<1>18. ASSUME NEW r \in Runs, Report(r) PROVE StandInv'
  BY <1>18 DEF Report
<1>19. ASSUME NEW r \in Runs, Resume(r) PROVE StandInv'
  BY <1>19 DEF Resume
<1>20. ASSUME NEW r \in Runs, NextNight(r) PROVE StandInv'
  BY <1>20 DEF NextNight
<1>21. ASSUME NEW r \in Runs, Merge(r) PROVE StandInv'
  BY <1>21 DEF Merge
<1>22. ASSUME NEW r \in Runs, Close(r) PROVE StandInv'
  BY <1>22 DEF Close
<1>23. ASSUME NEW r \in Runs, Ages(r) PROVE StandInv'
  BY <1>23 DEF Ages
<1>24. ASSUME NEW r \in Runs, GcDelete(r) PROVE StandInv'
  BY <1>24 DEF GcDelete
<1>25. ASSUME NEW i \in Issues, LeaseRunsOut(i) PROVE StandInv'
  BY <1>25 DEF LeaseRunsOut
<1>26. CASE Tear
  BY <1>26 DEF Tear
<1>27. CASE GcList
  BY <1>27 DEF GcList
<1>28. CASE UNCHANGED vars
  BY <1>28 DEF vars
<1> QED BY <1>1, <1>2, <1>3, <1>4, <1>5, <1>6, <1>7, <1>8, <1>9, <1>10, <1>11, <1>12, <1>13,
           <1>14, <1>15, <1>16, <1>17, <1>18, <1>19, <1>20, <1>21, <1>22, <1>23, <1>24, <1>25,
           <1>26, <1>27, <1>28
         DEF Next, Picking, Preparing, Building

LEMMA NextDoom ==
  ASSUME TypeOK, StandInv, DoomInv, [Next]_vars
  PROVE  DoomInv'
<1> USE DEF TypeOK, StoreTypeOK, RunTypeOK, BranchTypeOK, StandInv, DoomInv, InFlight
<1>1. ASSUME NEW r \in Runs, Sync(r) PROVE DoomInv'
  BY <1>1 DEF Sync
<1>2. ASSUME NEW r \in Runs, SyncFails(r) PROVE DoomInv'
  BY <1>2 DEF SyncFails
<1>3. ASSUME NEW r \in Runs, Lock(r) PROVE DoomInv'
  BY <1>3 DEF Lock
<1>4. ASSUME NEW r \in Runs, AskOpenPrs(r) PROVE DoomInv'
  BY <1>4 DEF AskOpenPrs
<1>5. ASSUME NEW r \in Runs, GhSilent(r) PROVE DoomInv'
  BY <1>5 DEF GhSilent
<1>6. ASSUME NEW r \in Runs, Release(r) PROVE DoomInv'
  BY <1>6 DEF Release
<1>7. ASSUME NEW r \in Runs, AskPipelinePrs(r) PROVE DoomInv'
  BY <1>7 DEF AskPipelinePrs
<1>8. ASSUME NEW r \in Runs, NoFeature(r) PROVE DoomInv'
  BY <1>8 DEF NoFeature
<1>9. ASSUME NEW r \in Runs, NEW i \in Issues, Claim(r, i) PROVE DoomInv'
  BY <1>9 DEF Claim
<1>10. ASSUME NEW r \in Runs, CreateWorktree(r) PROVE DoomInv'
  BY <1>10 DEF CreateWorktree
<1>11. ASSUME NEW r \in Runs, WriteState(r) PROVE DoomInv'
  BY <1>11 DEF WriteState
<1>12. ASSUME NEW r \in Runs, PrepareFails(r) PROVE DoomInv'
  BY <1>12 DEF PrepareFails
<1>13. ASSUME NEW r \in Runs, Edit(r) PROVE DoomInv'
  BY <1>13 DEF Edit
<1>14. ASSUME NEW r \in Runs, Commit(r) PROVE DoomInv'
  BY <1>14 DEF Commit
<1>15. ASSUME NEW r \in Runs, OpenPr(r) PROVE DoomInv'
  BY <1>15 DEF OpenPr
<1>16. ASSUME NEW r \in Runs, Finish(r) PROVE DoomInv'
  BY <1>16 DEF Finish
<1>17. ASSUME NEW r \in Runs, Die(r) PROVE DoomInv'
  BY <1>17 DEF Die
<1>18. ASSUME NEW r \in Runs, Report(r) PROVE DoomInv'
  BY <1>18 DEF Report
<1>19. ASSUME NEW r \in Runs, Resume(r) PROVE DoomInv'
  BY <1>19 DEF Resume
<1>20. ASSUME NEW r \in Runs, NextNight(r) PROVE DoomInv'
  BY <1>20 DEF NextNight
<1>21. ASSUME NEW r \in Runs, Merge(r) PROVE DoomInv'
  BY <1>21 DEF Merge
<1>22. ASSUME NEW r \in Runs, Close(r) PROVE DoomInv'
  BY <1>22 DEF Close
<1>23. ASSUME NEW r \in Runs, Ages(r) PROVE DoomInv'
  BY <1>23 DEF Ages
<1>24. ASSUME NEW r \in Runs, GcDelete(r) PROVE DoomInv'
  BY <1>24 DEF GcDelete
<1>25. ASSUME NEW i \in Issues, LeaseRunsOut(i) PROVE DoomInv'
  BY <1>25 DEF LeaseRunsOut
<1>26. CASE Tear
  BY <1>26 DEF Tear
<1>27. CASE GcList
  BY <1>27 DEF GcList, PipelineBranchRetained, Collectible, IsMerged, BranchWorktrees, MergedPrs
<1>28. CASE UNCHANGED vars
  BY <1>28 DEF vars
<1> QED BY <1>1, <1>2, <1>3, <1>4, <1>5, <1>6, <1>7, <1>8, <1>9, <1>10, <1>11, <1>12, <1>13,
           <1>14, <1>15, <1>16, <1>17, <1>18, <1>19, <1>20, <1>21, <1>22, <1>23, <1>24, <1>25,
           <1>26, <1>27, <1>28
         DEF Next, Picking, Preparing, Building

LEMMA StandHolds == Spec => [](StandInv /\ DoomInv)
<1>1. Init => StandInv /\ DoomInv
  BY DEF Init, StandInv, DoomInv
<1> QED BY <1>1, NextStand, NextDoom, TypeCorrect, PTL DEF Spec

(* gc deletes no work that is only there, and no worktree a run is in or   *)
(* may be resumed in, although runs go on between its list and its delete. *)
THEOREM WorkIsKept == Spec => WorkSurvives
<1>1. DoomInv /\ [Next]_vars
        => [\A r \in Runs :
              GcDelete(r) /\ wt'[r] # wt[r]
                => at[r] = "off" /\ ~InFlight(r) /\ r \notin dirty /\ tip[r] # "ahead"]_vars
  BY DEF DoomInv, GcDelete, WorktreeDirty
<1> QED BY <1>1, StandHolds, PTL DEF Spec, WorkSurvives

(* Past the last question to GitHub, each open pull request is in the      *)
(* answer, or its run was still at work when the answer came, and its      *)
(* claim stands in the draft.                                              *)
RivalInv ==
  \A s \in Runs :
    holder # NoRun /\ at[holder] = "screened" /\ answer.known /\ pr[s] = "open"
      => \/ pick[s] \in answer.ids \/ pick[s] \in forgotten
         \/ pick[s] \in Issues /\ draft[pick[s]] # "none"

LEMMA NextRival ==
  ASSUME TypeOK, IInv, StandInv, RivalInv, [Next]_vars
  PROVE  RivalInv'
<1> USE DEF TypeOK, StoreTypeOK, RunTypeOK, BranchTypeOK, IInv, LockInv, RivalInv,
      OpenPrIssues, Held
<1>1. ASSUME NEW r \in Runs, Sync(r) PROVE RivalInv'
  BY <1>1 DEF Sync
<1>2. ASSUME NEW r \in Runs, SyncFails(r) PROVE RivalInv'
  BY <1>2 DEF SyncFails
<1>3. ASSUME NEW r \in Runs, Lock(r) PROVE RivalInv'
  BY <1>3 DEF Lock
<1>4. ASSUME NEW r \in Runs, AskOpenPrs(r) PROVE RivalInv'
  BY <1>4 DEF AskOpenPrs
<1>5. ASSUME NEW r \in Runs, GhSilent(r) PROVE RivalInv'
  BY <1>5 DEF GhSilent
<1>6. ASSUME NEW r \in Runs, Release(r) PROVE RivalInv'
  BY <1>6 DEF Release
<1>7. ASSUME NEW r \in Runs, AskPipelinePrs(r) PROVE RivalInv'
  BY <1>7 DEF AskPipelinePrs
<1>8. ASSUME NEW r \in Runs, NoFeature(r) PROVE RivalInv'
  BY <1>8 DEF NoFeature
<1>9. ASSUME NEW r \in Runs, NEW i \in Issues, Claim(r, i) PROVE RivalInv'
  BY <1>9 DEF Claim
<1>10. ASSUME NEW r \in Runs, CreateWorktree(r) PROVE RivalInv'
  BY <1>10 DEF CreateWorktree
<1>11. ASSUME NEW r \in Runs, WriteState(r) PROVE RivalInv'
  BY <1>11 DEF WriteState
<1>12. ASSUME NEW r \in Runs, PrepareFails(r) PROVE RivalInv'
  BY <1>12 DEF PrepareFails
<1>13. ASSUME NEW r \in Runs, Edit(r) PROVE RivalInv'
  BY <1>13 DEF Edit
<1>14. ASSUME NEW r \in Runs, Commit(r) PROVE RivalInv'
  BY <1>14 DEF Commit
<1>15. ASSUME NEW r \in Runs, OpenPr(r) PROVE RivalInv'
  <2>1. AtWork(r)
    BY <1>15 DEF OpenPr, StandInv, AtWork, InFlight
  <2>2. holder # NoRun =>
          pick[r] \in Issues /\ (draft[pick[r]] # "none" \/ pick[r] \in forgotten)
    BY <2>1 DEF ClaimInv, StandsIn
  <2> QED BY <1>15, <2>2 DEF OpenPr
<1>16. ASSUME NEW r \in Runs, Finish(r) PROVE RivalInv'
  BY <1>16 DEF Finish
<1>17. ASSUME NEW r \in Runs, Die(r) PROVE RivalInv'
  BY <1>17 DEF Die
<1>18. ASSUME NEW r \in Runs, Report(r) PROVE RivalInv'
  BY <1>18 DEF Report
<1>19. ASSUME NEW r \in Runs, Resume(r) PROVE RivalInv'
  BY <1>19 DEF Resume
<1>20. ASSUME NEW r \in Runs, NextNight(r) PROVE RivalInv'
  BY <1>20 DEF NextNight
<1>21. ASSUME NEW r \in Runs, Merge(r) PROVE RivalInv'
  BY <1>21 DEF Merge
<1>22. ASSUME NEW r \in Runs, Close(r) PROVE RivalInv'
  BY <1>22 DEF Close
<1>23. ASSUME NEW r \in Runs, Ages(r) PROVE RivalInv'
  BY <1>23 DEF Ages
<1>24. ASSUME NEW r \in Runs, GcDelete(r) PROVE RivalInv'
  BY <1>24 DEF GcDelete
<1>25. ASSUME NEW i \in Issues, LeaseRunsOut(i) PROVE RivalInv'
  BY <1>25 DEF LeaseRunsOut
<1>26. CASE Tear
  BY <1>26 DEF Tear
<1>27. CASE GcList
  BY <1>27 DEF GcList
<1>28. CASE UNCHANGED vars
  BY <1>28 DEF vars
<1> QED BY <1>1, <1>2, <1>3, <1>4, <1>5, <1>6, <1>7, <1>8, <1>9, <1>10, <1>11, <1>12, <1>13,
           <1>14, <1>15, <1>16, <1>17, <1>18, <1>19, <1>20, <1>21, <1>22, <1>23, <1>24, <1>25,
           <1>26, <1>27, <1>28
         DEF Next, Picking, Preparing, Building

(* No pick takes an issue whose pull request waits for review, unless      *)
(* GitHub would not say, or a torn store forgot the claim.                 *)
THEOREM NoRivalHolds == Spec => NoRivalPr
<1>1. TypeOK /\ IInv /\ RivalInv /\ [Next]_vars
        => [\A r \in Runs, i \in Issues :
              Claim(r, i) => \/ i \notin OpenPrIssues
                             \/ ~answer.known \/ i \in forgotten]_vars
  <2> SUFFICES ASSUME TypeOK, IInv, RivalInv, NEW r \in Runs, NEW i \in Issues, Claim(r, i),
                      i \in OpenPrIssues, answer.known
               PROVE  i \in forgotten
    OBVIOUS
  <2>1. PICK s \in Runs : pr[s] = "open" /\ pick[s] = i
    BY DEF OpenPrIssues
  <2>2. holder = r /\ at[r] = "screened"
    BY DEF Claim, IInv, LockInv
  <2>3. i \notin answer.ids /\ draft[i] = "none"
    BY DEF Claim, SelectNext, Pickable, Held, TypeOK, StoreTypeOK
  <2> QED BY <2>1, <2>2, <2>3 DEF RivalInv
<1>2. Init => RivalInv
  BY DEF Init, RivalInv
<1> QED BY <1>1, <1>2, InitIInv, StepIInv, NextRival, StandHolds, TypeCorrect, PTL
           DEF Spec, NoRivalPr
=============================================================================

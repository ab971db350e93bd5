-------------------------- MODULE SelfUpdate_proofs --------------------------
(***************************************************************************)
(* Theorems about SelfUpdate, for any number of commits, any verdict on    *)
(* them, and any amount of trouble.                                        *)
(***************************************************************************)
EXTENDS SelfUpdate, TLAPS

USE DEF worldVars, hostVars, readVars, tickVars, ghostVars

----------------------------------------------------------------------------
(* The type invariant.                                                     *)

LEMMA Troubles ==
  ASSUME trouble \in 0..Trouble, Interferes \/ UNCHANGED trouble
  PROVE  trouble' \in 0..Trouble
BY UpdateAssumption DEF Interferes

LEMMA NextType ==
  ASSUME TypeOK, [Next]_vars
  PROVE  TypeOK'
<1> USE UpdateAssumption DEF TypeOK, Commits, NoCommit
<1>1. CASE TimerFires
  <2>1. WorldTypeOK'
    BY <1>1 DEF TimerFires, WorldTypeOK, UpdateTypeOK
  <2>2. UpdateTypeOK'
    BY <1>1 DEF TimerFires, WorldTypeOK, UpdateTypeOK
  <2>3. GhostTypeOK'
    BY <1>1 DEF TimerFires, WorldTypeOK, UpdateTypeOK, GhostTypeOK
  <2>4. CountTypeOK'
    BY <1>1 DEF TimerFires, UpdateTypeOK, CountTypeOK
  <2> QED BY <2>1, <2>2, <2>3, <2>4
<1>2. CASE GivesUp
  <2>1. WorldTypeOK'
    BY <1>2 DEF GivesUp, WorldTypeOK, UpdateTypeOK
  <2>2. UpdateTypeOK'
    BY <1>2 DEF GivesUp, WorldTypeOK, UpdateTypeOK
  <2>3. GhostTypeOK'
    BY <1>2 DEF GivesUp, WorldTypeOK, UpdateTypeOK, GhostTypeOK
  <2>4. CountTypeOK'
    BY <1>2 DEF GivesUp, UpdateTypeOK, CountTypeOK
  <2> QED BY <2>1, <2>2, <2>3, <2>4
<1>3. CASE Acquires
  <2>1. WorldTypeOK'
    BY <1>3 DEF Acquires, WorldTypeOK, UpdateTypeOK
  <2>2. UpdateTypeOK'
    BY <1>3 DEF Acquires, WorldTypeOK, UpdateTypeOK
  <2>3. GhostTypeOK'
    BY <1>3 DEF Acquires, WorldTypeOK, UpdateTypeOK, GhostTypeOK
  <2>4. CountTypeOK'
    BY <1>3 DEF Acquires, UpdateTypeOK, CountTypeOK
  <2> QED BY <2>1, <2>2, <2>3, <2>4
<1>4. CASE DefersOrRefuses
  <2>1. WorldTypeOK'
    BY <1>4 DEF DefersOrRefuses, Returns, MayUpdate, Fault, Interferes, WorldTypeOK,
         UpdateTypeOK
  <2>2. UpdateTypeOK'
    BY <1>4 DEF DefersOrRefuses, Returns, MayUpdate, Fault, Interferes, WorldTypeOK,
         UpdateTypeOK
  <2>3. GhostTypeOK'
    BY <1>4 DEF DefersOrRefuses, Returns, MayUpdate, Fault, Interferes, WorldTypeOK,
         UpdateTypeOK, GhostTypeOK
  <2>4. CountTypeOK'
    BY <1>4 DEF DefersOrRefuses, Returns, MayUpdate, Fault, Interferes, UpdateTypeOK,
         CountTypeOK
  <2> QED BY <2>1, <2>2, <2>3, <2>4
<1>5. CASE Fetches
  <2>1. WorldTypeOK'
    BY <1>5 DEF Fetches, MayUpdate, Fault, Interferes, WorldTypeOK, UpdateTypeOK
  <2>2. UpdateTypeOK'
    BY <1>5 DEF Fetches, MayUpdate, Fault, Interferes, WorldTypeOK, UpdateTypeOK
  <2>3. GhostTypeOK'
    BY <1>5 DEF Fetches, MayUpdate, Fault, Interferes, WorldTypeOK, UpdateTypeOK, GhostTypeOK
  <2>4. CountTypeOK'
    BY <1>5 DEF Fetches, MayUpdate, Fault, Interferes, UpdateTypeOK, CountTypeOK
  <2> QED BY <2>1, <2>2, <2>3, <2>4
<1>6. CASE StopsAtGate
  <2>1. WorldTypeOK'
    BY <1>6 DEF StopsAtGate, Returns, WorldTypeOK, UpdateTypeOK
  <2>2. UpdateTypeOK'
    BY <1>6 DEF StopsAtGate, Returns, WorldTypeOK, UpdateTypeOK
  <2>3. GhostTypeOK'
    BY <1>6 DEF StopsAtGate, Returns, WorldTypeOK, UpdateTypeOK, GhostTypeOK
  <2>4. CountTypeOK'
    BY <1>6 DEF StopsAtGate, Returns, UpdateTypeOK, CountTypeOK
  <2> QED BY <2>1, <2>2, <2>3, <2>4
<1>7. CASE PassesGate
  <2>1. WorldTypeOK'
    BY <1>7 DEF PassesGate, Wanted, AtNew, WorldTypeOK, UpdateTypeOK
  <2>2. UpdateTypeOK'
    BY <1>7 DEF PassesGate, Wanted, AtNew, WorldTypeOK, UpdateTypeOK
  <2>3. GhostTypeOK'
    BY <1>7 DEF PassesGate, Wanted, AtNew, WorldTypeOK, UpdateTypeOK, GhostTypeOK
  <2>4. CountTypeOK'
    BY <1>7 DEF PassesGate, Wanted, AtNew, UpdateTypeOK, CountTypeOK
  <2> QED BY <2>1, <2>2, <2>3, <2>4
<1>8. CASE Baseline
  <2>1. WorldTypeOK'
    BY <1>8 DEF Baseline, Validates, ValidateFails, Fault, Interferes, WorldTypeOK, UpdateTypeOK
  <2>2. UpdateTypeOK'
    BY <1>8 DEF Baseline, Validates, ValidateFails, Fault, Interferes, WorldTypeOK, UpdateTypeOK
  <2>3. GhostTypeOK'
    BY <1>8 DEF Baseline, Validates, ValidateFails, Fault, Interferes, WorldTypeOK,
         UpdateTypeOK, GhostTypeOK
  <2>4. CountTypeOK'
    BY <1>8 DEF Baseline, Validates, ValidateFails, Fault, Interferes, UpdateTypeOK, CountTypeOK
  <2> QED BY <2>1, <2>2, <2>3, <2>4
<1>9. CASE Merges
  <2>1. WorldTypeOK'
    BY <1>9 DEF Merges, Returns, Fault, Interferes, WorldTypeOK, UpdateTypeOK
  <2>2. UpdateTypeOK'
    BY <1>9 DEF Merges, Returns, Fault, Interferes, WorldTypeOK, UpdateTypeOK
  <2>3. GhostTypeOK'
    BY <1>9 DEF Merges, Returns, Fault, Interferes, WorldTypeOK, UpdateTypeOK, GhostTypeOK
  <2>4. CountTypeOK'
    BY <1>9 DEF Merges, Returns, Fault, Interferes, UpdateTypeOK, CountTypeOK
  <2> QED BY <2>1, <2>2, <2>3, <2>4
<1>10. CASE MergesNothing
  <2>1. WorldTypeOK'
    BY <1>10 DEF MergesNothing, Returns, Stalls, Fault, Interferes, WorldTypeOK, UpdateTypeOK
  <2>2. UpdateTypeOK'
    BY <1>10 DEF MergesNothing, Returns, Stalls, Fault, Interferes, WorldTypeOK, UpdateTypeOK
  <2>3. GhostTypeOK'
    BY <1>10 DEF MergesNothing, Returns, Stalls, Fault, Interferes, WorldTypeOK, UpdateTypeOK,
         GhostTypeOK
  <2>4. CountTypeOK'
    <3>1. trouble' \in 0..Trouble
      BY <1>10, Troubles DEF MergesNothing, Stalls, Fault, CountTypeOK
    <3> QED BY <1>10, <3>1 DEF MergesNothing, CountTypeOK
  <2> QED BY <2>1, <2>2, <2>3, <2>4
<1>11. CASE Rereads
  <2>1. WorldTypeOK'
    BY <1>11 DEF Rereads, AtNew, Returns, Fault, Interferes, WorldTypeOK, UpdateTypeOK
  <2>2. UpdateTypeOK'
    BY <1>11 DEF Rereads, AtNew, Returns, Fault, Interferes, WorldTypeOK, UpdateTypeOK
  <2>3. GhostTypeOK'
    BY <1>11 DEF Rereads, AtNew, Returns, Fault, Interferes, WorldTypeOK, UpdateTypeOK,
         GhostTypeOK
  <2>4. CountTypeOK'
    BY <1>11 DEF Rereads, AtNew, Returns, Fault, Interferes, UpdateTypeOK, CountTypeOK
  <2> QED BY <2>1, <2>2, <2>3, <2>4
<1>12. CASE Updates
  <2>1. WorldTypeOK'
    BY <1>12 DEF Updates, Returns, Validates, WorldTypeOK, UpdateTypeOK
  <2>2. UpdateTypeOK'
    BY <1>12 DEF Updates, Returns, Validates, WorldTypeOK, UpdateTypeOK
  <2>3. GhostTypeOK'
    BY <1>12 DEF Updates, Returns, Validates, WorldTypeOK, UpdateTypeOK, GhostTypeOK
  <2>4. CountTypeOK'
    BY <1>12 DEF Updates, Returns, Validates, UpdateTypeOK, CountTypeOK
  <2> QED BY <2>1, <2>2, <2>3, <2>4
<1>13. CASE Rejects
  <2>1. WorldTypeOK'
    BY <1>13 DEF Rejects, Validates, ValidateFails, Fault, Interferes, WorldTypeOK, UpdateTypeOK
  <2>2. UpdateTypeOK'
    BY <1>13 DEF Rejects, Validates, ValidateFails, Fault, Interferes, WorldTypeOK, UpdateTypeOK
  <2>3. GhostTypeOK'
    BY <1>13 DEF Rejects, Validates, ValidateFails, Fault, Interferes, WorldTypeOK,
         UpdateTypeOK, GhostTypeOK
  <2>4. CountTypeOK'
    BY <1>13 DEF Rejects, Validates, ValidateFails, Fault, Interferes, UpdateTypeOK, CountTypeOK
  <2> QED BY <2>1, <2>2, <2>3, <2>4
<1>14. CASE Resets
  <2>1. WorldTypeOK'
    BY <1>14 DEF Resets, Stalls, Fault, Interferes, WorldTypeOK, UpdateTypeOK
  <2>2. UpdateTypeOK'
    BY <1>14 DEF Resets, Stalls, Fault, Interferes, WorldTypeOK, UpdateTypeOK
  <2>3. GhostTypeOK'
    BY <1>14 DEF Resets, Stalls, Fault, Interferes, WorldTypeOK, UpdateTypeOK, GhostTypeOK
  <2>4. CountTypeOK'
    <3>1. trouble' \in 0..Trouble
      BY <1>14, Troubles DEF Resets, Stalls, Fault, CountTypeOK
    <3> QED BY <1>14, <3>1 DEF Resets, CountTypeOK
  <2> QED BY <2>1, <2>2, <2>3, <2>4
<1>15. CASE Records
  <2>1. WorldTypeOK'
    BY <1>15 DEF Records, Returns, WorldTypeOK, UpdateTypeOK
  <2>2. UpdateTypeOK'
    BY <1>15 DEF Records, Returns, WorldTypeOK, UpdateTypeOK
  <2>3. GhostTypeOK'
    BY <1>15 DEF Records, Returns, WorldTypeOK, UpdateTypeOK, GhostTypeOK
  <2>4. CountTypeOK'
    BY <1>15 DEF Records, Returns, UpdateTypeOK, CountTypeOK
  <2> QED BY <2>1, <2>2, <2>3, <2>4
<1>16. CASE Crash
  <2>1. WorldTypeOK'
    BY <1>16 DEF Crash, Returns, OnTrial, Fault, Interferes, WorldTypeOK, UpdateTypeOK
  <2>2. UpdateTypeOK'
    BY <1>16 DEF Crash, Returns, OnTrial, Fault, Interferes, WorldTypeOK, UpdateTypeOK
  <2>3. GhostTypeOK'
    BY <1>16 DEF Crash, Returns, OnTrial, Fault, Interferes, WorldTypeOK, UpdateTypeOK,
         GhostTypeOK
  <2>4. CountTypeOK'
    BY <1>16 DEF Crash, Returns, OnTrial, Fault, Interferes, UpdateTypeOK, CountTypeOK
  <2> QED BY <2>1, <2>2, <2>3, <2>4
<1>17. CASE TickLoads
  <2>1. WorldTypeOK'
    BY <1>17 DEF TickLoads, WorldTypeOK, UpdateTypeOK
  <2>2. UpdateTypeOK'
    BY <1>17 DEF TickLoads, WorldTypeOK, UpdateTypeOK
  <2>3. GhostTypeOK'
    BY <1>17 DEF TickLoads, WorldTypeOK, UpdateTypeOK, GhostTypeOK
  <2>4. CountTypeOK'
    BY <1>17 DEF TickLoads, UpdateTypeOK, CountTypeOK
  <2> QED BY <2>1, <2>2, <2>3, <2>4
<1>18. CASE TickLocks
  <2>1. WorldTypeOK'
    BY <1>18 DEF TickLocks, WorldTypeOK, UpdateTypeOK
  <2>2. UpdateTypeOK'
    BY <1>18 DEF TickLocks, WorldTypeOK, UpdateTypeOK
  <2>3. GhostTypeOK'
    BY <1>18 DEF TickLocks, WorldTypeOK, UpdateTypeOK, GhostTypeOK
  <2>4. CountTypeOK'
    BY <1>18 DEF TickLocks, UpdateTypeOK, CountTypeOK
  <2> QED BY <2>1, <2>2, <2>3, <2>4
<1>19. CASE TickEnds
  <2>1. WorldTypeOK'
    BY <1>19 DEF TickEnds, WorldTypeOK, UpdateTypeOK
  <2>2. UpdateTypeOK'
    BY <1>19 DEF TickEnds, WorldTypeOK, UpdateTypeOK
  <2>3. GhostTypeOK'
    BY <1>19 DEF TickEnds, WorldTypeOK, UpdateTypeOK, GhostTypeOK
  <2>4. CountTypeOK'
    BY <1>19 DEF TickEnds, UpdateTypeOK, CountTypeOK
  <2> QED BY <2>1, <2>2, <2>3, <2>4
<1>20. CASE TickLaunches
  <2>1. WorldTypeOK'
    BY <1>20 DEF TickLaunches, Interferes, WorldTypeOK, UpdateTypeOK
  <2>2. UpdateTypeOK'
    BY <1>20 DEF TickLaunches, Interferes, WorldTypeOK, UpdateTypeOK
  <2>3. GhostTypeOK'
    BY <1>20 DEF TickLaunches, Interferes, WorldTypeOK, UpdateTypeOK, GhostTypeOK
  <2>4. CountTypeOK'
    BY <1>20 DEF TickLaunches, Interferes, UpdateTypeOK, CountTypeOK
  <2> QED BY <2>1, <2>2, <2>3, <2>4
<1>21. CASE TickCloses
  <2>1. WorldTypeOK'
    BY <1>21 DEF TickCloses, WorldTypeOK, UpdateTypeOK
  <2>2. UpdateTypeOK'
    BY <1>21 DEF TickCloses, WorldTypeOK, UpdateTypeOK
  <2>3. GhostTypeOK'
    BY <1>21 DEF TickCloses, WorldTypeOK, UpdateTypeOK, GhostTypeOK
  <2>4. CountTypeOK'
    BY <1>21 DEF TickCloses, UpdateTypeOK, CountTypeOK
  <2> QED BY <2>1, <2>2, <2>3, <2>4
<1>22. CASE Pushes
  <2>1. WorldTypeOK'
    BY <1>22 DEF Pushes, WorldTypeOK, UpdateTypeOK
  <2>2. UpdateTypeOK'
    BY <1>22 DEF Pushes, WorldTypeOK, UpdateTypeOK
  <2>3. GhostTypeOK'
    BY <1>22 DEF Pushes, WorldTypeOK, UpdateTypeOK, GhostTypeOK
  <2>4. CountTypeOK'
    BY <1>22 DEF Pushes, UpdateTypeOK, CountTypeOK
  <2> QED BY <2>1, <2>2, <2>3, <2>4
<1>23. CASE ChecksPass
  <2>1. WorldTypeOK'
    BY <1>23 DEF ChecksPass, WorldTypeOK, UpdateTypeOK
  <2>2. UpdateTypeOK'
    BY <1>23 DEF ChecksPass, WorldTypeOK, UpdateTypeOK
  <2>3. GhostTypeOK'
    BY <1>23 DEF ChecksPass, WorldTypeOK, UpdateTypeOK, GhostTypeOK
  <2>4. CountTypeOK'
    BY <1>23 DEF ChecksPass, UpdateTypeOK, CountTypeOK
  <2> QED BY <2>1, <2>2, <2>3, <2>4
<1>24. CASE HumanEdits
  <2>1. WorldTypeOK'
    BY <1>24 DEF HumanEdits, Interferes, WorldTypeOK, UpdateTypeOK
  <2>2. UpdateTypeOK'
    BY <1>24 DEF HumanEdits, Interferes, WorldTypeOK, UpdateTypeOK
  <2>3. GhostTypeOK'
    BY <1>24 DEF HumanEdits, Interferes, WorldTypeOK, UpdateTypeOK, GhostTypeOK
  <2>4. CountTypeOK'
    BY <1>24 DEF HumanEdits, Interferes, UpdateTypeOK, CountTypeOK
  <2> QED BY <2>1, <2>2, <2>3, <2>4
<1>25. CASE HumanCommits
  <2>1. WorldTypeOK'
    BY <1>25 DEF HumanCommits, Interferes, WorldTypeOK, UpdateTypeOK
  <2>2. UpdateTypeOK'
    BY <1>25 DEF HumanCommits, Interferes, WorldTypeOK, UpdateTypeOK
  <2>3. GhostTypeOK'
    BY <1>25 DEF HumanCommits, Interferes, WorldTypeOK, UpdateTypeOK, GhostTypeOK
  <2>4. CountTypeOK'
    BY <1>25 DEF HumanCommits, Interferes, UpdateTypeOK, CountTypeOK
  <2> QED BY <2>1, <2>2, <2>3, <2>4
<1>26. CASE UNCHANGED vars
  <2>1. WorldTypeOK'
    BY <1>26 DEF vars, WorldTypeOK
  <2>2. UpdateTypeOK'
    BY <1>26 DEF vars, UpdateTypeOK
  <2>3. GhostTypeOK'
    BY <1>26 DEF vars, GhostTypeOK
  <2>4. CountTypeOK'
    BY <1>26 DEF vars, CountTypeOK
  <2> QED BY <2>1, <2>2, <2>3, <2>4
<1> HIDE DEF TypeOK, Commits, NoCommit
<1> QED
  BY <1>1, <1>2, <1>3, <1>4, <1>5, <1>6, <1>7, <1>8, <1>9, <1>10, <1>11, <1>12, <1>13, <1>14,
     <1>15, <1>16, <1>17, <1>18, <1>19, <1>20, <1>21, <1>22, <1>23, <1>24, <1>25, <1>26
     DEF Next

(* Every variable stays in its set.                                        *)
THEOREM TypeCorrect == Spec => []TypeOK
<1>0. 0 \in Commits
  BY UpdateAssumption DEF Commits
<1>1. Init => TypeOK
  <2>1. Init => WorldTypeOK
    BY <1>0 DEF Init, WorldTypeOK
  <2>2. Init => UpdateTypeOK
    BY <1>0 DEF Init, UpdateTypeOK
  <2>3. Init => GhostTypeOK
    BY <1>0 DEF Init, GhostTypeOK
  <2>4. Init => CountTypeOK
    BY UpdateAssumption DEF Init, CountTypeOK
  <2> QED BY <2>1, <2>2, <2>3, <2>4 DEF TypeOK
<1> QED BY <1>1, NextType, PTL DEF Spec

----------------------------------------------------------------------------
(* What code runs.                                                         *)

Locked == {"check", "gate", "baseline", "merge", "reread", "post", "reset", "record"}

(* The lock is the update's from its check to its return, and a tick that  *)
(* has it has loaded its code.                                             *)
LockInv ==
  /\ pc \in Locked <=> lock = "update"
  /\ lock = "tick" => tickCode # NoCommit

(* The commits the host may be on between two updates.                     *)
Known == proven \cup abandoned \cup unjudged

(* HEAD is out of Known only while an update tries a commit out, and it    *)
(* goes back to where it was.                                              *)
CodeInv ==
  /\ ~OnTrial => head \in Known
  /\ OnTrial \/ pc \in {"gate", "baseline", "merge"} => old \in Known
  /\ OnTrial => head = new
  /\ tickCode # NoCommit => tickCode \in Known \/ raced

(* No run is opened under an update, as that needs a tick with the lock,   *)
(* and one that was open when it began ended it.                           *)
RunInv == pc \in Locked \ {"check"} => ~runIsOpen

HostInv == LockInv /\ CodeInv /\ RunInv

LEMMA InitHost == Init => HostInv
BY UpdateAssumption
   DEF Init, HostInv, LockInv, CodeInv, RunInv, Locked, Known, OnTrial, Commits, NoCommit

LEMMA NextHost ==
  ASSUME TypeOK, HostInv, [Next]_vars
  PROVE  HostInv'
<1> USE UpdateAssumption DEF TypeOK, Commits, NoCommit, WorldTypeOK, UpdateTypeOK, HostInv,
          Locked, Known, OnTrial
<1>1. CASE TimerFires
  <2>1. LockInv'
    BY <1>1 DEF TimerFires, LockInv, CodeInv, RunInv
  <2>2. CodeInv'
    BY <1>1 DEF TimerFires, LockInv, CodeInv, RunInv
  <2>3. RunInv'
    BY <1>1 DEF TimerFires, LockInv, CodeInv, RunInv
  <2> QED BY <2>1, <2>2, <2>3
<1>2. CASE GivesUp
  <2>1. LockInv'
    BY <1>2 DEF GivesUp, LockInv, CodeInv, RunInv
  <2>2. CodeInv'
    BY <1>2 DEF GivesUp, LockInv, CodeInv, RunInv
  <2>3. RunInv'
    BY <1>2 DEF GivesUp, LockInv, CodeInv, RunInv
  <2> QED BY <2>1, <2>2, <2>3
<1>3. CASE Acquires
  <2>1. LockInv'
    BY <1>3 DEF Acquires, LockInv, CodeInv, RunInv
  <2>2. CodeInv'
    BY <1>3 DEF Acquires, LockInv, CodeInv, RunInv
  <2>3. RunInv'
    BY <1>3 DEF Acquires, LockInv, CodeInv, RunInv
  <2> QED BY <2>1, <2>2, <2>3
<1>4. CASE DefersOrRefuses
  <2>1. LockInv'
    BY <1>4 DEF DefersOrRefuses, Returns, MayUpdate, Fault, Interferes, LockInv, CodeInv, RunInv
  <2>2. CodeInv'
    BY <1>4 DEF DefersOrRefuses, Returns, MayUpdate, Fault, Interferes, LockInv, CodeInv, RunInv
  <2>3. RunInv'
    BY <1>4 DEF DefersOrRefuses, Returns, MayUpdate, Fault, Interferes, LockInv, CodeInv, RunInv
  <2> QED BY <2>1, <2>2, <2>3
<1>5. CASE Fetches
  <2>1. LockInv'
    BY <1>5 DEF Fetches, MayUpdate, Fault, Interferes, LockInv, CodeInv, RunInv
  <2>2. CodeInv'
    BY <1>5 DEF Fetches, MayUpdate, Fault, Interferes, LockInv, CodeInv, RunInv
  <2>3. RunInv'
    BY <1>5 DEF Fetches, MayUpdate, Fault, Interferes, LockInv, CodeInv, RunInv
  <2> QED BY <2>1, <2>2, <2>3
<1>6. CASE StopsAtGate
  <2>1. LockInv'
    BY <1>6 DEF StopsAtGate, Returns, LockInv, CodeInv, RunInv
  <2>2. CodeInv'
    BY <1>6 DEF StopsAtGate, Returns, LockInv, CodeInv, RunInv
  <2>3. RunInv'
    BY <1>6 DEF StopsAtGate, Returns, LockInv, CodeInv, RunInv
  <2> QED BY <2>1, <2>2, <2>3
<1>7. CASE PassesGate
  <2>1. LockInv'
    BY <1>7 DEF PassesGate, Wanted, AtNew, LockInv, CodeInv, RunInv
  <2>2. CodeInv'
    BY <1>7 DEF PassesGate, Wanted, AtNew, LockInv, CodeInv, RunInv
  <2>3. RunInv'
    BY <1>7 DEF PassesGate, Wanted, AtNew, LockInv, CodeInv, RunInv
  <2> QED BY <2>1, <2>2, <2>3
<1>8. CASE Baseline
  <2>1. LockInv'
    BY <1>8 DEF Baseline, Validates, ValidateFails, Fault, Interferes, LockInv, CodeInv, RunInv
  <2>2. CodeInv'
    BY <1>8 DEF Baseline, Validates, ValidateFails, Fault, Interferes, LockInv, CodeInv, RunInv
  <2>3. RunInv'
    BY <1>8 DEF Baseline, Validates, ValidateFails, Fault, Interferes, LockInv, CodeInv, RunInv
  <2> QED BY <2>1, <2>2, <2>3
<1>9. CASE Merges
  <2>1. LockInv'
    BY <1>9 DEF Merges, Returns, Fault, Interferes, LockInv, CodeInv, RunInv
  <2>2. CodeInv'
    BY <1>9 DEF Merges, Returns, Fault, Interferes, LockInv, CodeInv, RunInv
  <2>3. RunInv'
    BY <1>9 DEF Merges, Returns, Fault, Interferes, LockInv, CodeInv, RunInv
  <2> QED BY <2>1, <2>2, <2>3
<1>10. CASE MergesNothing
  <2>1. LockInv'
    BY <1>10 DEF MergesNothing, Returns, Stalls, Fault, Interferes, LockInv, CodeInv, RunInv
  <2>2. CodeInv'
    BY <1>10 DEF MergesNothing, Returns, Stalls, Fault, Interferes, LockInv, CodeInv, RunInv
  <2>3. RunInv'
    BY <1>10 DEF MergesNothing, Returns, Stalls, Fault, Interferes, LockInv, CodeInv, RunInv
  <2> QED BY <2>1, <2>2, <2>3
<1>11. CASE Rereads
  <2>1. LockInv'
    BY <1>11 DEF Rereads, AtNew, Returns, Fault, Interferes, LockInv, CodeInv, RunInv
  <2>2. CodeInv'
    BY <1>11 DEF Rereads, AtNew, Returns, Fault, Interferes, LockInv, CodeInv, RunInv
  <2>3. RunInv'
    BY <1>11 DEF Rereads, AtNew, Returns, Fault, Interferes, LockInv, CodeInv, RunInv
  <2> QED BY <2>1, <2>2, <2>3
<1>12. CASE Updates
  <2>1. LockInv'
    BY <1>12 DEF Updates, Returns, Validates, LockInv, CodeInv, RunInv
  <2>2. CodeInv'
    BY <1>12 DEF Updates, Returns, Validates, LockInv, CodeInv, RunInv
  <2>3. RunInv'
    BY <1>12 DEF Updates, Returns, Validates, LockInv, CodeInv, RunInv
  <2> QED BY <2>1, <2>2, <2>3
<1>13. CASE Rejects
  <2>1. LockInv'
    BY <1>13 DEF Rejects, Validates, ValidateFails, Fault, Interferes, LockInv, CodeInv, RunInv
  <2>2. CodeInv'
    BY <1>13 DEF Rejects, Validates, ValidateFails, Fault, Interferes, LockInv, CodeInv, RunInv
  <2>3. RunInv'
    BY <1>13 DEF Rejects, Validates, ValidateFails, Fault, Interferes, LockInv, CodeInv, RunInv
  <2> QED BY <2>1, <2>2, <2>3
<1>14. CASE Resets
  <2>1. LockInv'
    BY <1>14 DEF Resets, Stalls, Fault, Interferes, LockInv, CodeInv, RunInv
  <2>2. CodeInv'
    BY <1>14 DEF Resets, Stalls, Fault, Interferes, LockInv, CodeInv, RunInv
  <2>3. RunInv'
    BY <1>14 DEF Resets, Stalls, Fault, Interferes, LockInv, CodeInv, RunInv
  <2> QED BY <2>1, <2>2, <2>3
<1>15. CASE Records
  <2>1. LockInv'
    BY <1>15 DEF Records, Returns, LockInv, CodeInv, RunInv
  <2>2. CodeInv'
    BY <1>15 DEF Records, Returns, LockInv, CodeInv, RunInv
  <2>3. RunInv'
    BY <1>15 DEF Records, Returns, LockInv, CodeInv, RunInv
  <2> QED BY <2>1, <2>2, <2>3
<1>16. CASE Crash
  <2>1. LockInv'
    BY <1>16 DEF Crash, Returns, OnTrial, Fault, Interferes, LockInv, CodeInv, RunInv
  <2>2. CodeInv'
    BY <1>16 DEF Crash, Returns, OnTrial, Fault, Interferes, LockInv, CodeInv, RunInv
  <2>3. RunInv'
    BY <1>16 DEF Crash, Returns, OnTrial, Fault, Interferes, LockInv, CodeInv, RunInv
  <2> QED BY <2>1, <2>2, <2>3
<1>17. CASE TickLoads
  <2>1. LockInv'
    BY <1>17 DEF TickLoads, LockInv, CodeInv, RunInv
  <2>2. CodeInv'
    BY <1>17 DEF TickLoads, LockInv, CodeInv, RunInv
  <2>3. RunInv'
    BY <1>17 DEF TickLoads, LockInv, CodeInv, RunInv
  <2> QED BY <2>1, <2>2, <2>3
<1>18. CASE TickLocks
  <2>1. LockInv'
    BY <1>18 DEF TickLocks, LockInv, CodeInv, RunInv
  <2>2. CodeInv'
    BY <1>18 DEF TickLocks, LockInv, CodeInv, RunInv
  <2>3. RunInv'
    BY <1>18 DEF TickLocks, LockInv, CodeInv, RunInv
  <2> QED BY <2>1, <2>2, <2>3
<1>19. CASE TickEnds
  <2>1. LockInv'
    BY <1>19 DEF TickEnds, LockInv, CodeInv, RunInv
  <2>2. CodeInv'
    BY <1>19 DEF TickEnds, LockInv, CodeInv, RunInv
  <2>3. RunInv'
    BY <1>19 DEF TickEnds, LockInv, CodeInv, RunInv
  <2> QED BY <2>1, <2>2, <2>3
<1>20. CASE TickLaunches
  <2>1. LockInv'
    BY <1>20 DEF TickLaunches, Interferes, LockInv, CodeInv, RunInv
  <2>2. CodeInv'
    BY <1>20 DEF TickLaunches, Interferes, LockInv, CodeInv, RunInv
  <2>3. RunInv'
    BY <1>20 DEF TickLaunches, Interferes, LockInv, CodeInv, RunInv
  <2> QED BY <2>1, <2>2, <2>3
<1>21. CASE TickCloses
  <2>1. LockInv'
    BY <1>21 DEF TickCloses, LockInv, CodeInv, RunInv
  <2>2. CodeInv'
    BY <1>21 DEF TickCloses, LockInv, CodeInv, RunInv
  <2>3. RunInv'
    BY <1>21 DEF TickCloses, LockInv, CodeInv, RunInv
  <2> QED BY <2>1, <2>2, <2>3
<1>22. CASE Pushes
  <2>1. LockInv'
    BY <1>22 DEF Pushes, LockInv, CodeInv, RunInv
  <2>2. CodeInv'
    BY <1>22 DEF Pushes, LockInv, CodeInv, RunInv
  <2>3. RunInv'
    BY <1>22 DEF Pushes, LockInv, CodeInv, RunInv
  <2> QED BY <2>1, <2>2, <2>3
<1>23. CASE ChecksPass
  <2>1. LockInv'
    BY <1>23 DEF ChecksPass, LockInv, CodeInv, RunInv
  <2>2. CodeInv'
    BY <1>23 DEF ChecksPass, LockInv, CodeInv, RunInv
  <2>3. RunInv'
    BY <1>23 DEF ChecksPass, LockInv, CodeInv, RunInv
  <2> QED BY <2>1, <2>2, <2>3
<1>24. CASE HumanEdits
  <2>1. LockInv'
    BY <1>24 DEF HumanEdits, Interferes, LockInv, CodeInv, RunInv
  <2>2. CodeInv'
    BY <1>24 DEF HumanEdits, Interferes, LockInv, CodeInv, RunInv
  <2>3. RunInv'
    BY <1>24 DEF HumanEdits, Interferes, LockInv, CodeInv, RunInv
  <2> QED BY <2>1, <2>2, <2>3
<1>25. CASE HumanCommits
  <2>1. LockInv'
    BY <1>25 DEF HumanCommits, Interferes, LockInv, CodeInv, RunInv
  <2>2. CodeInv'
    BY <1>25 DEF HumanCommits, Interferes, LockInv, CodeInv, RunInv
  <2>3. RunInv'
    BY <1>25 DEF HumanCommits, Interferes, LockInv, CodeInv, RunInv
  <2> QED BY <2>1, <2>2, <2>3
<1>26. CASE UNCHANGED vars
  BY <1>26 DEF vars, LockInv, CodeInv, RunInv
<1> HIDE DEF TypeOK, HostInv, Commits, NoCommit, Locked, Known
<1> QED
  BY <1>1, <1>2, <1>3, <1>4, <1>5, <1>6, <1>7, <1>8, <1>9, <1>10, <1>11, <1>12, <1>13, <1>14,
     <1>15, <1>16, <1>17, <1>18, <1>19, <1>20, <1>21, <1>22, <1>23, <1>24, <1>25, <1>26
     DEF Next

LEMMA HostHolds == Spec => [](TypeOK /\ HostInv)
BY InitHost, NextHost, TypeCorrect, PTL DEF Spec

(* A tick works with code that was green and validated here, that an       *)
(* update had to leave, or that it was left on without git's answer,       *)
(* unless it loaded it during an update. This holds however often git      *)
(* fails.                                                                  *)
THEOREM ProvenCodeRuns == Spec => []OnlyProvenCodeRuns
<1>1. HostInv => OnlyProvenCodeRuns
  BY DEF HostInv, LockInv, CodeInv, Known, OnlyProvenCodeRuns
<1> QED BY <1>1, HostHolds, PTL

(* While git answers, no update returns on a commit nobody judged: what    *)
(* the code says of a refused update is true then.  One call that times    *)
(* out is enough to make it false.                                         *)
THEOREM JudgedCodeRuns ==
  ASSUME "git" \notin Faults
  PROVE  Spec => []OnlyJudgedCodeRuns
<1> DEFINE Answered == unjudged = {}
<1>1. Init => Answered
  BY DEF Init
<1>2. ASSUME Answered, [Next]_vars
      PROVE  Answered'
  <2> USE <1>2
  <2>1. CASE TimerFires BY <2>1 DEF TimerFires
  <2>2. CASE GivesUp BY <2>2 DEF GivesUp
  <2>3. CASE Acquires BY <2>3 DEF Acquires
  <2>4. CASE DefersOrRefuses BY <2>4 DEF DefersOrRefuses, Returns, MayUpdate, Fault, Interferes
  <2>5. CASE Fetches BY <2>5 DEF Fetches, MayUpdate, Fault, Interferes
  <2>6. CASE StopsAtGate BY <2>6 DEF StopsAtGate, Returns
  <2>7. CASE PassesGate BY <2>7 DEF PassesGate, Wanted, AtNew
  <2>8. CASE Baseline BY <2>8 DEF Baseline, Validates, ValidateFails, Fault, Interferes
  <2>9. CASE Merges BY <2>9 DEF Merges, Returns, Fault, Interferes
  <2>10. CASE MergesNothing BY <2>10 DEF MergesNothing, Returns, Stalls, Fault, Interferes
  <2>11. CASE Rereads BY <2>11 DEF Rereads, AtNew, Returns, Fault, Interferes
  <2>12. CASE Updates BY <2>12 DEF Updates, Returns, Validates
  <2>13. CASE Rejects BY <2>13 DEF Rejects, Validates, ValidateFails, Fault, Interferes
  <2>14. CASE Resets BY <2>14 DEF Resets, Stalls, Fault, Interferes
  <2>15. CASE Records BY <2>15 DEF Records, Returns
  <2>16. CASE Crash BY <2>16 DEF Crash, Returns, OnTrial, Fault, Interferes
  <2>17. CASE TickLoads BY <2>17 DEF TickLoads
  <2>18. CASE TickLocks BY <2>18 DEF TickLocks
  <2>19. CASE TickEnds BY <2>19 DEF TickEnds
  <2>20. CASE TickLaunches BY <2>20 DEF TickLaunches, Interferes
  <2>21. CASE TickCloses BY <2>21 DEF TickCloses
  <2>22. CASE Pushes BY <2>22 DEF Pushes
  <2>23. CASE ChecksPass BY <2>23 DEF ChecksPass
  <2>24. CASE HumanEdits BY <2>24 DEF HumanEdits, Interferes
  <2>25. CASE HumanCommits BY <2>25 DEF HumanCommits, Interferes
  <2>26. CASE UNCHANGED vars BY <2>26 DEF vars
  <2> QED
    BY <2>1, <2>2, <2>3, <2>4, <2>5, <2>6, <2>7, <2>8, <2>9, <2>10, <2>11, <2>12, <2>13, <2>14,
       <2>15, <2>16, <2>17, <2>18, <2>19, <2>20, <2>21, <2>22, <2>23, <2>24, <2>25, <2>26
       DEF Next
<1>3. OnlyProvenCodeRuns /\ Answered => OnlyJudgedCodeRuns
  BY DEF OnlyProvenCodeRuns, OnlyJudgedCodeRuns
<1> HIDE DEF Answered
<1> QED BY <1>1, <1>2, <1>3, ProvenCodeRuns, PTL DEF Spec

(* The code does not change under an open pipeline run: only an update     *)
(* moves HEAD, and none that found a run open gets so far.                 *)
THEOREM CodeIsKept == Spec => RunsKeepTheirCode
<1>1. ASSUME HostInv, [Next]_vars
      PROVE  runIsOpen => head' = head
  <2> USE <1>1 DEF HostInv, RunInv, Locked
  <2>1. CASE TimerFires BY <2>1 DEF TimerFires
  <2>2. CASE GivesUp BY <2>2 DEF GivesUp
  <2>3. CASE Acquires BY <2>3 DEF Acquires
  <2>4. CASE DefersOrRefuses BY <2>4 DEF DefersOrRefuses, Returns, MayUpdate, Fault, Interferes
  <2>5. CASE Fetches BY <2>5 DEF Fetches, MayUpdate, Fault, Interferes
  <2>6. CASE StopsAtGate BY <2>6 DEF StopsAtGate, Returns
  <2>7. CASE PassesGate BY <2>7 DEF PassesGate, Wanted, AtNew
  <2>8. CASE Baseline BY <2>8 DEF Baseline, Validates, ValidateFails, Fault, Interferes
  <2>9. CASE Merges BY <2>9 DEF Merges, Returns, Fault, Interferes
  <2>10. CASE MergesNothing BY <2>10 DEF MergesNothing, Returns, Stalls, Fault, Interferes
  <2>11. CASE Rereads BY <2>11 DEF Rereads, AtNew, Returns, Fault, Interferes
  <2>12. CASE Updates BY <2>12 DEF Updates, Returns, Validates
  <2>13. CASE Rejects BY <2>13 DEF Rejects, Validates, ValidateFails, Fault, Interferes
  <2>14. CASE Resets BY <2>14 DEF Resets, Stalls, Fault, Interferes
  <2>15. CASE Records BY <2>15 DEF Records, Returns
  <2>16. CASE Crash BY <2>16 DEF Crash, Returns, OnTrial, Fault, Interferes
  <2>17. CASE TickLoads BY <2>17 DEF TickLoads
  <2>18. CASE TickLocks BY <2>18 DEF TickLocks
  <2>19. CASE TickEnds BY <2>19 DEF TickEnds
  <2>20. CASE TickLaunches BY <2>20 DEF TickLaunches, Interferes
  <2>21. CASE TickCloses BY <2>21 DEF TickCloses
  <2>22. CASE Pushes BY <2>22 DEF Pushes
  <2>23. CASE ChecksPass BY <2>23 DEF ChecksPass
  <2>24. CASE HumanEdits BY <2>24 DEF HumanEdits, Interferes
  <2>25. CASE HumanCommits BY <2>25 DEF HumanCommits, Interferes
  <2>26. CASE UNCHANGED vars BY <2>26 DEF vars
  <2> QED
    BY <2>1, <2>2, <2>3, <2>4, <2>5, <2>6, <2>7, <2>8, <2>9, <2>10, <2>11, <2>12, <2>13, <2>14,
       <2>15, <2>16, <2>17, <2>18, <2>19, <2>20, <2>21, <2>22, <2>23, <2>24, <2>25, <2>26
       DEF Next
<1> QED BY <1>1, HostHolds, PTL DEF Spec, RunsKeepTheirCode

----------------------------------------------------------------------------
(* How often a commit is tried.                                            *)

(* It may be merged again only if another update dies on it.               *)
Spent(c) == tries[c] > deaths[c]

(* Main does not go back, so what was merged lies behind HEAD or behind    *)
(* the last rejected commit, unless its verdict is still to come.          *)
SpentInv ==
  \A c \in Commits :
    Spent(c) => \/ c <= Base
                \/ rejected # NoCommit /\ c <= rejected
                \/ c = new /\ (OnTrial \/ pc = "record")

OrderInv ==
  /\ rejected # NoCommit => rejected <= origin
  /\ OnTrial \/ pc \in {"gate", "baseline", "merge", "record"}
       => new <= origin /\ (rejected # NoCommit => rejected <= new)
  /\ pc \in {"baseline", "merge"} => new # rejected
  /\ pc \in {"gate", "baseline", "merge"} => head = old
  /\ OnTrial => old < new /\ head = new

TryInv == OrderInv /\ SpentInv /\ RejectedOnce

LEMMA InitTry == Init => TryInv
BY UpdateAssumption DEF Init, TryInv, OrderInv, SpentInv, RejectedOnce, Spent, Base, OnTrial,
     Commits, NoCommit

LEMMA NextTry ==
  ASSUME TypeOK, TryInv, [Next]_vars
  PROVE  TryInv'
<1> USE UpdateAssumption DEF TypeOK, Commits, NoCommit, WorldTypeOK, UpdateTypeOK, CountTypeOK,
          TryInv, OnTrial
<1>1. CASE TimerFires
  <2>1. OrderInv'
    BY <1>1 DEF TimerFires, OrderInv
  <2>2. SpentInv'
    BY <1>1 DEF TimerFires, OrderInv, SpentInv, Spent, Base, RejectedOnce
  <2>3. RejectedOnce'
    BY <1>1 DEF TimerFires, RejectedOnce
  <2> QED BY <2>1, <2>2, <2>3
<1>2. CASE GivesUp
  <2>1. OrderInv'
    BY <1>2 DEF GivesUp, OrderInv
  <2>2. SpentInv'
    BY <1>2 DEF GivesUp, OrderInv, SpentInv, Spent, Base, RejectedOnce
  <2>3. RejectedOnce'
    BY <1>2 DEF GivesUp, RejectedOnce
  <2> QED BY <2>1, <2>2, <2>3
<1>3. CASE Acquires
  <2>1. OrderInv'
    BY <1>3 DEF Acquires, OrderInv
  <2>2. SpentInv'
    BY <1>3 DEF Acquires, OrderInv, SpentInv, Spent, Base, RejectedOnce
  <2>3. RejectedOnce'
    BY <1>3 DEF Acquires, RejectedOnce
  <2> QED BY <2>1, <2>2, <2>3
<1>4. CASE DefersOrRefuses
  <2>1. OrderInv'
    BY <1>4 DEF DefersOrRefuses, Returns, MayUpdate, Fault, Interferes, OrderInv
  <2>2. SpentInv'
    BY <1>4 DEF DefersOrRefuses, Returns, MayUpdate, Fault, Interferes, OrderInv, SpentInv,
         Spent, Base, RejectedOnce
  <2>3. RejectedOnce'
    BY <1>4 DEF DefersOrRefuses, Returns, MayUpdate, Fault, Interferes, RejectedOnce
  <2> QED BY <2>1, <2>2, <2>3
<1>5. CASE Fetches
  <2>1. OrderInv'
    BY <1>5 DEF Fetches, MayUpdate, Fault, Interferes, OrderInv
  <2>2. SpentInv'
    BY <1>5 DEF Fetches, MayUpdate, Fault, Interferes, OrderInv, SpentInv, Spent, Base,
         RejectedOnce
  <2>3. RejectedOnce'
    BY <1>5 DEF Fetches, MayUpdate, Fault, Interferes, RejectedOnce
  <2> QED BY <2>1, <2>2, <2>3
<1>6. CASE StopsAtGate
  <2>1. OrderInv'
    BY <1>6 DEF StopsAtGate, Returns, OrderInv
  <2>2. SpentInv'
    BY <1>6 DEF StopsAtGate, Returns, OrderInv, SpentInv, Spent, Base, RejectedOnce
  <2>3. RejectedOnce'
    BY <1>6 DEF StopsAtGate, Returns, RejectedOnce
  <2> QED BY <2>1, <2>2, <2>3
<1>7. CASE PassesGate
  <2>1. OrderInv'
    BY <1>7 DEF PassesGate, Wanted, AtNew, OrderInv
  <2>2. SpentInv'
    BY <1>7 DEF PassesGate, Wanted, AtNew, OrderInv, SpentInv, Spent, Base, RejectedOnce
  <2>3. RejectedOnce'
    BY <1>7 DEF PassesGate, Wanted, AtNew, RejectedOnce
  <2> QED BY <2>1, <2>2, <2>3
<1>8. CASE Baseline
  <2>1. OrderInv'
    BY <1>8 DEF Baseline, Validates, ValidateFails, Fault, Interferes, OrderInv
  <2>2. SpentInv'
    BY <1>8 DEF Baseline, Validates, ValidateFails, Fault, Interferes, OrderInv, SpentInv,
         Spent, Base, RejectedOnce
  <2>3. RejectedOnce'
    BY <1>8 DEF Baseline, Validates, ValidateFails, Fault, Interferes, RejectedOnce
  <2> QED BY <2>1, <2>2, <2>3
<1>9. CASE Merges
  <2>1. OrderInv'
    BY <1>9 DEF Merges, Returns, Fault, Interferes, OrderInv
  <2>2. SpentInv'
    BY <1>9 DEF Merges, Returns, Fault, Interferes, OrderInv, SpentInv, Spent, Base,
         RejectedOnce
  <2>3. RejectedOnce'
    BY <1>9 DEF Merges, RejectedOnce, OrderInv, SpentInv, Spent, Base
  <2> QED BY <2>1, <2>2, <2>3
<1>10. CASE MergesNothing
  <2>1. OrderInv'
    BY <1>10 DEF MergesNothing, Returns, Stalls, Fault, Interferes, OrderInv
  <2>2. SpentInv'
    BY <1>10 DEF MergesNothing, Returns, Stalls, Fault, Interferes, OrderInv, SpentInv, Spent,
         Base, RejectedOnce
  <2>3. RejectedOnce'
    BY <1>10 DEF MergesNothing, Returns, Stalls, Fault, Interferes, RejectedOnce
  <2> QED BY <2>1, <2>2, <2>3
<1>11. CASE Rereads
  <2>1. OrderInv'
    BY <1>11 DEF Rereads, AtNew, Returns, Fault, Interferes, OrderInv
  <2>2. SpentInv'
    BY <1>11 DEF Rereads, AtNew, Returns, Fault, Interferes, OrderInv, SpentInv, Spent, Base,
         RejectedOnce
  <2>3. RejectedOnce'
    BY <1>11 DEF Rereads, AtNew, Returns, Fault, Interferes, RejectedOnce
  <2> QED BY <2>1, <2>2, <2>3
<1>12. CASE Updates
  <2>1. OrderInv'
    BY <1>12 DEF Updates, Returns, Validates, OrderInv
  <2>2. SpentInv'
    BY <1>12 DEF Updates, Returns, Validates, OrderInv, SpentInv, Spent, Base, RejectedOnce
  <2>3. RejectedOnce'
    BY <1>12 DEF Updates, Returns, Validates, RejectedOnce
  <2> QED BY <2>1, <2>2, <2>3
<1>13. CASE Rejects
  <2>1. OrderInv'
    BY <1>13 DEF Rejects, Validates, ValidateFails, Fault, Interferes, OrderInv
  <2>2. SpentInv'
    BY <1>13 DEF Rejects, Validates, ValidateFails, Fault, Interferes, OrderInv, SpentInv,
         Spent, Base, RejectedOnce
  <2>3. RejectedOnce'
    BY <1>13 DEF Rejects, Validates, ValidateFails, Fault, Interferes, RejectedOnce
  <2> QED BY <2>1, <2>2, <2>3
<1>14. CASE Resets
  <2>1. OrderInv'
    BY <1>14 DEF Resets, Stalls, Fault, Interferes, OrderInv
  <2>2. SpentInv'
    BY <1>14 DEF Resets, OrderInv, SpentInv, Spent, Base
  <2>3. RejectedOnce'
    BY <1>14 DEF Resets, Stalls, Fault, Interferes, RejectedOnce
  <2> QED BY <2>1, <2>2, <2>3
<1>15. CASE Records
  <2>1. OrderInv'
    BY <1>15 DEF Records, Returns, OrderInv
  <2>2. SpentInv'
    BY <1>15 DEF Records, Returns, OrderInv, SpentInv, Spent, Base, RejectedOnce
  <2>3. RejectedOnce'
    BY <1>15 DEF Records, Returns, RejectedOnce
  <2> QED BY <2>1, <2>2, <2>3
<1>16. CASE Crash
  <2>1. OrderInv'
    BY <1>16 DEF Crash, Returns, OnTrial, Fault, Interferes, OrderInv
  <2>2. SpentInv'
    BY <1>16 DEF Crash, Returns, OnTrial, Fault, Interferes, OrderInv, SpentInv, Spent, Base,
         RejectedOnce
  <2>3. RejectedOnce'
    BY <1>16 DEF Crash, Returns, OnTrial, Fault, Interferes, RejectedOnce
  <2> QED BY <2>1, <2>2, <2>3
<1>17. CASE TickLoads
  <2>1. OrderInv'
    BY <1>17 DEF TickLoads, OrderInv
  <2>2. SpentInv'
    BY <1>17 DEF TickLoads, OrderInv, SpentInv, Spent, Base, RejectedOnce
  <2>3. RejectedOnce'
    BY <1>17 DEF TickLoads, RejectedOnce
  <2> QED BY <2>1, <2>2, <2>3
<1>18. CASE TickLocks
  <2>1. OrderInv'
    BY <1>18 DEF TickLocks, OrderInv
  <2>2. SpentInv'
    BY <1>18 DEF TickLocks, OrderInv, SpentInv, Spent, Base, RejectedOnce
  <2>3. RejectedOnce'
    BY <1>18 DEF TickLocks, RejectedOnce
  <2> QED BY <2>1, <2>2, <2>3
<1>19. CASE TickEnds
  <2>1. OrderInv'
    BY <1>19 DEF TickEnds, OrderInv
  <2>2. SpentInv'
    BY <1>19 DEF TickEnds, OrderInv, SpentInv, Spent, Base, RejectedOnce
  <2>3. RejectedOnce'
    BY <1>19 DEF TickEnds, RejectedOnce
  <2> QED BY <2>1, <2>2, <2>3
<1>20. CASE TickLaunches
  <2>1. OrderInv'
    BY <1>20 DEF TickLaunches, Interferes, OrderInv
  <2>2. SpentInv'
    BY <1>20 DEF TickLaunches, Interferes, OrderInv, SpentInv, Spent, Base, RejectedOnce
  <2>3. RejectedOnce'
    BY <1>20 DEF TickLaunches, Interferes, RejectedOnce
  <2> QED BY <2>1, <2>2, <2>3
<1>21. CASE TickCloses
  <2>1. OrderInv'
    BY <1>21 DEF TickCloses, OrderInv
  <2>2. SpentInv'
    BY <1>21 DEF TickCloses, OrderInv, SpentInv, Spent, Base, RejectedOnce
  <2>3. RejectedOnce'
    BY <1>21 DEF TickCloses, RejectedOnce
  <2> QED BY <2>1, <2>2, <2>3
<1>22. CASE Pushes
  <2>1. OrderInv'
    BY <1>22 DEF Pushes, OrderInv
  <2>2. SpentInv'
    BY <1>22 DEF Pushes, OrderInv, SpentInv, Spent, Base, RejectedOnce
  <2>3. RejectedOnce'
    BY <1>22 DEF Pushes, RejectedOnce
  <2> QED BY <2>1, <2>2, <2>3
<1>23. CASE ChecksPass
  <2>1. OrderInv'
    BY <1>23 DEF ChecksPass, OrderInv
  <2>2. SpentInv'
    BY <1>23 DEF ChecksPass, OrderInv, SpentInv, Spent, Base, RejectedOnce
  <2>3. RejectedOnce'
    BY <1>23 DEF ChecksPass, RejectedOnce
  <2> QED BY <2>1, <2>2, <2>3
<1>24. CASE HumanEdits
  <2>1. OrderInv'
    BY <1>24 DEF HumanEdits, Interferes, OrderInv
  <2>2. SpentInv'
    BY <1>24 DEF HumanEdits, Interferes, OrderInv, SpentInv, Spent, Base, RejectedOnce
  <2>3. RejectedOnce'
    BY <1>24 DEF HumanEdits, Interferes, RejectedOnce
  <2> QED BY <2>1, <2>2, <2>3
<1>25. CASE HumanCommits
  <2>1. OrderInv'
    BY <1>25 DEF HumanCommits, Interferes, OrderInv
  <2>2. SpentInv'
    BY <1>25 DEF HumanCommits, Interferes, OrderInv, SpentInv, Spent, Base, RejectedOnce
  <2>3. RejectedOnce'
    BY <1>25 DEF HumanCommits, Interferes, RejectedOnce
  <2> QED BY <2>1, <2>2, <2>3
<1>26. CASE UNCHANGED vars
  BY <1>26 DEF vars, OrderInv, SpentInv, RejectedOnce, Spent, Base
<1> HIDE DEF TypeOK, TryInv, Commits, NoCommit
<1> QED
  BY <1>1, <1>2, <1>3, <1>4, <1>5, <1>6, <1>7, <1>8, <1>9, <1>10, <1>11, <1>12, <1>13, <1>14,
     <1>15, <1>16, <1>17, <1>18, <1>19, <1>20, <1>21, <1>22, <1>23, <1>24, <1>25, <1>26
     DEF Next

(* A commit is merged again only if an update died before its verdict.     *)
THEOREM RejectedStays == Spec => []RejectedOnce
<1>1. TryInv => RejectedOnce
  BY DEF TryInv
<1> QED BY <1>1, InitTry, NextTry, TypeCorrect, PTL DEF Spec

----------------------------------------------------------------------------
(* One step of the host's code.                                            *)

(* A commit that is to be merged has passed its checks.                    *)
GreenInv == OnTrial \/ pc \in {"baseline", "merge"} => new \in green

LEMMA NextGreen ==
  ASSUME TypeOK, GreenInv, [Next]_vars
  PROVE  GreenInv'
<1> USE DEF GreenInv, OnTrial
<1>1. CASE TimerFires BY <1>1 DEF TimerFires
<1>2. CASE GivesUp BY <1>2 DEF GivesUp
<1>3. CASE Acquires BY <1>3 DEF Acquires
<1>4. CASE DefersOrRefuses BY <1>4 DEF DefersOrRefuses, Returns, MayUpdate, Fault, Interferes
<1>5. CASE Fetches BY <1>5 DEF Fetches, MayUpdate, Fault, Interferes
<1>6. CASE StopsAtGate BY <1>6 DEF StopsAtGate, Returns
<1>7. CASE PassesGate BY <1>7 DEF PassesGate, Wanted, AtNew
<1>8. CASE Baseline BY <1>8 DEF Baseline, Validates, ValidateFails, Fault, Interferes
<1>9. CASE Merges BY <1>9 DEF Merges, Returns, Fault, Interferes
<1>10. CASE MergesNothing BY <1>10 DEF MergesNothing, Returns, Stalls, Fault, Interferes
<1>11. CASE Rereads BY <1>11 DEF Rereads, AtNew, Returns, Fault, Interferes
<1>12. CASE Updates BY <1>12 DEF Updates, Returns, Validates
<1>13. CASE Rejects BY <1>13 DEF Rejects, Validates, ValidateFails, Fault, Interferes
<1>14. CASE Resets BY <1>14 DEF Resets, Stalls, Fault, Interferes
<1>15. CASE Records BY <1>15 DEF Records, Returns
<1>16. CASE Crash BY <1>16 DEF Crash, Returns, OnTrial, Fault, Interferes
<1>17. CASE TickLoads BY <1>17 DEF TickLoads
<1>18. CASE TickLocks BY <1>18 DEF TickLocks
<1>19. CASE TickEnds BY <1>19 DEF TickEnds
<1>20. CASE TickLaunches BY <1>20 DEF TickLaunches, Interferes
<1>21. CASE TickCloses BY <1>21 DEF TickCloses
<1>22. CASE Pushes BY <1>22 DEF Pushes
<1>23. CASE ChecksPass BY <1>23 DEF ChecksPass
<1>24. CASE HumanEdits BY <1>24 DEF HumanEdits, Interferes
<1>25. CASE HumanCommits BY <1>25 DEF HumanCommits, Interferes
<1>26. CASE UNCHANGED vars BY <1>26 DEF vars
<1> QED
  BY <1>1, <1>2, <1>3, <1>4, <1>5, <1>6, <1>7, <1>8, <1>9, <1>10, <1>11, <1>12, <1>13, <1>14,
     <1>15, <1>16, <1>17, <1>18, <1>19, <1>20, <1>21, <1>22, <1>23, <1>24, <1>25, <1>26
     DEF Next

StepInv == HostInv /\ OrderInv /\ GreenInv

LEMMA StepHolds == Spec => [](TypeOK /\ StepInv)
<1>1. Init => GreenInv
  BY DEF Init, GreenInv, OnTrial
<1>2. Init => TryInv
  BY InitTry
<1>3. TryInv => OrderInv
  BY DEF TryInv
<1> QED BY <1>1, <1>2, <1>3, NextTry, NextGreen, HostHolds, TypeCorrect, PTL DEF Spec, StepInv

LEMMA CodeTypes ==
  ASSUME TypeOK
  PROVE  Base \in Commits /\ Commits \subseteq Nat
BY UpdateAssumption DEF TypeOK, WorldTypeOK, UpdateTypeOK, Base, Commits

(* What may move Base, when an update ends with HEAD on the commit it      *)
(* merged: the commit is green and newer, and no run is open.              *)
LEMMA MayMove ==
  ASSUME TypeOK, StepInv, OnTrial
  PROVE  /\ Base = old /\ Base < new /\ head = new
         /\ new \in green /\ ~runIsOpen
BY CodeTypes
   DEF Base, OnTrial, StepInv, HostInv, RunInv, Locked, OrderInv, GreenInv

(* What moves Base is an Advances, a SticksTo or a SlipsTo; the rest       *)
(* leaves it alone.                                                        *)
LEMMA CodeStep ==
  ASSUME TypeOK, StepInv, [Next]_vars
  PROVE  [Host!CodeNext]_(Host!codeVars)
<1> USE DEF Base, OnTrial, Host!codeVars
<1>0. /\ Base \in Commits /\ Commits \subseteq Nat
      /\ head \in Commits /\ old \in Commits /\ new \in Commits
  BY CodeTypes DEF TypeOK, WorldTypeOK, UpdateTypeOK
<1>01. runIsOpen \in BOOLEAN
  BY DEF TypeOK, WorldTypeOK
<1>1. CASE TimerFires BY <1>1 DEF TimerFires
<1>2. CASE GivesUp BY <1>2 DEF GivesUp
<1>3. CASE Acquires BY <1>3 DEF Acquires
<1>4. CASE DefersOrRefuses BY <1>4 DEF DefersOrRefuses, Returns, MayUpdate, Fault, Interferes
<1>5. CASE Fetches BY <1>5 DEF Fetches, MayUpdate, Fault, Interferes
<1>6. CASE StopsAtGate BY <1>6 DEF StopsAtGate, Returns
<1>7. CASE PassesGate BY <1>7 DEF PassesGate, Wanted, AtNew
<1>8. CASE Baseline BY <1>8 DEF Baseline, Validates, ValidateFails, Fault, Interferes
<1>9. CASE Merges
  <2>1. CASE pc' = "reread" /\ UNCHANGED unjudged
    BY <1>9, <2>1 DEF Merges, StepInv, OrderInv
  <2>2. CASE unjudged' = unjudged \cup {new} /\ Returns
    <3>1. Base < new /\ Base' = new /\ new \in green /\ ~runIsOpen
      BY <1>9, <2>2 DEF Merges, Returns, StepInv, HostInv, RunInv, Locked, GreenInv
    <3>2. Host!SlipsTo(new)
      BY <1>9, <2>2, <3>1 DEF Merges, Host!SlipsTo, Host!MovesTo
    <3> QED BY <3>2, <1>0 DEF Host!CodeNext
  <2> QED BY <1>9, <2>1, <2>2 DEF Merges
<1>10. CASE MergesNothing BY <1>10 DEF MergesNothing, Returns, Stalls, Fault, Interferes
<1>11. CASE Rereads
  <2>0. Base < new /\ head = new /\ new \in green /\ ~runIsOpen
    BY <1>11, MayMove DEF Rereads
  <2>1. CASE pc' = "post" /\ UNCHANGED <<abandoned, unjudged>>
    BY <1>11, <2>1 DEF Rereads
  <2>2. CASE abandoned' = abandoned \cup {head} /\ Returns /\ UNCHANGED unjudged
    <3>1. Host!SticksTo(new)
      BY <1>11, <2>0, <2>2 DEF Rereads, Returns, Host!SticksTo, Host!MovesTo
    <3> QED BY <3>1, <1>0 DEF Host!CodeNext
  <2>3. CASE unjudged' = unjudged \cup {head} /\ Returns /\ UNCHANGED abandoned
    <3>1. Host!SlipsTo(new)
      BY <1>11, <2>0, <2>3 DEF Rereads, Returns, Host!SlipsTo, Host!MovesTo
    <3> QED BY <3>1, <1>0 DEF Host!CodeNext
  <2> QED BY <1>11, <2>1, <2>2, <2>3 DEF Rereads
<1>12. CASE Updates
  <2>1. Base < new /\ head = new /\ new \in green /\ ~runIsOpen
    BY <1>12, MayMove DEF Updates
  <2>2. Host!Advances(new)
    BY <1>12, <2>1 DEF Updates, Returns, Host!Advances, Host!MovesTo
  <2> QED BY <2>2, <1>0 DEF Host!CodeNext
<1>13. CASE Rejects BY <1>13 DEF Rejects, Validates, ValidateFails, Fault, Interferes
<1>14. CASE Resets
  <2>1. CASE head' = old /\ UNCHANGED abandoned
    BY <1>14, <2>1 DEF Resets
  <2>2. CASE UNCHANGED head /\ abandoned' = abandoned \cup {head}
    <3>1. Base < new /\ head = new /\ new \in green /\ ~runIsOpen
      BY <1>14, MayMove DEF Resets
    <3>2. Host!SticksTo(new)
      BY <1>14, <2>2, <3>1 DEF Resets, Host!SticksTo, Host!MovesTo
    <3> QED BY <3>2, <1>0 DEF Host!CodeNext
  <2> QED BY <1>14, <2>1, <2>2 DEF Resets
<1>15. CASE Records BY <1>15 DEF Records, Returns
<1>16. CASE Crash
  <2>1. CASE OnTrial
    <3>1. Base < new /\ head = new /\ new \in green /\ ~runIsOpen
      BY <2>1, MayMove
    <3>2. Host!SticksTo(new)
      BY <1>16, <2>1, <3>1 DEF Crash, Returns, Host!SticksTo, Host!MovesTo
    <3> QED BY <3>2, <1>0 DEF Host!CodeNext
  <2>2. CASE ~OnTrial
    BY <1>16, <2>2 DEF Crash, Returns
  <2> QED BY <2>1, <2>2
<1>17. CASE TickLoads BY <1>17 DEF TickLoads
<1>18. CASE TickLocks BY <1>18 DEF TickLocks
<1>19. CASE TickEnds BY <1>19 DEF TickEnds
<1>20. CASE TickLaunches
  <2>1. Host!RunOpensOrCloses
    BY <1>20, <1>01 DEF TickLaunches, Host!RunOpensOrCloses
  <2> QED BY <2>1 DEF Host!CodeNext
<1>21. CASE TickCloses
  <2>1. Host!RunOpensOrCloses
    BY <1>21, <1>01 DEF TickCloses, Host!RunOpensOrCloses
  <2> QED BY <2>1 DEF Host!CodeNext
<1>22. CASE Pushes BY <1>22 DEF Pushes
<1>23. CASE ChecksPass
  <2>1. PICK c \in 0..origin : green' = green \cup {c}
    BY <1>23 DEF ChecksPass
  <2>2. c \in Commits
    BY UpdateAssumption DEF TypeOK, WorldTypeOK, Commits
  <2>3. Host!ChecksPassOn(c)
    BY <1>23, <2>1 DEF ChecksPass, Host!ChecksPassOn
  <2> QED BY <2>2, <2>3 DEF Host!CodeNext
<1>24. CASE HumanEdits BY <1>24 DEF HumanEdits, Interferes
<1>25. CASE HumanCommits BY <1>25 DEF HumanCommits, Interferes
<1>26. CASE UNCHANGED vars BY <1>26 DEF vars
<1> QED
  BY <1>1, <1>2, <1>3, <1>4, <1>5, <1>6, <1>7, <1>8, <1>9, <1>10, <1>11, <1>12, <1>13, <1>14,
     <1>15, <1>16, <1>17, <1>18, <1>19, <1>20, <1>21, <1>22, <1>23, <1>24, <1>25, <1>26
     DEF Next

(* An update is one step of the host's code, forward, to a commit that is  *)
(* green, and validated here or known as one it could not take back or got *)
(* no answer about, with no run open.                                      *)
THEOREM ImplementsHostCode == Spec => KeepsHostCode
<1>1. Init => Host!CodeInit
  BY DEF Init, Base, OnTrial, Host!CodeInit
<1> QED BY <1>1, CodeStep, StepHolds, PTL DEF Spec, KeepsHostCode, Host!CodeSpec
=============================================================================

------------------------ MODULE PipelineStages_proofs ------------------------
(***************************************************************************)
(* What holds of the stages of a run for every number of resumes, CI fix   *)
(* rounds and model failures.                                              *)
(***************************************************************************)
EXTENDS PipelineStages, TLAPS

(* The named disjuncts of Next, for the proofs that go through them all.   *)
LEMMA NextCases ==
  ASSUME Next
  PROVE  \/ Begins \/ StopsAtDeadline \/ Completes \/ RecordsBase
         \/ PassesGate \/ FailsGate \/ Aborts
         \/ Prompts \/ Settles \/ FallsBack \/ RecordsSession \/ SweepsStage
         \/ ChecksGreen \/ StartsFix \/ GivesUpFixing \/ StopsFixing \/ EndsFix
         \/ ComparesTests \/ KeepsTests \/ LosesTests \/ WritesFlip \/ CommitsFlip
         \/ Pushes \/ CreatesPr \/ RecordsPr \/ Resumes \/ Reaps
         \/ AgentWorks \/ DeadlinePasses \/ Dies
BY DEF Next, LoopSteps, AgentSteps, PrSteps, Watchdog

LEMMA EmptyStateTyped == EmptyState \in States
BY DEF EmptyState, States, Stages, BasedStages, Sessions, NoSession, NoContent

(* While a process runs there is no report yet, and what it knows is what  *)
(* state.json says, but for the session just recorded.                     *)
MemoryIsDisk ==
  pc # "off" =>
    /\ report = EmptyReport
    /\ pc # "sweep" => mem = disk
    /\ mem.stage = disk.stage /\ mem.base = disk.base /\ mem.pr = disk.pr
    /\ \A s \in Stages : s # Stage => mem.sess[s] = disk.sess[s]

(* Where the process is tells which stage it is in, and a fix round that   *)
(* it is not one too many.                                                 *)
PcFitsStage ==
  /\ pc \in {"check", "fix", "books", "compare", "flip", "commitFlip", "create",
             "recordPr"} => Stage = PR_STAGE
  /\ pc = "base" => Stage \in BasedStages
  /\ pc \in {"start", "work", "record", "sweep", "gate"} => Stage \in Stages
  /\ pc = "fix" => round < MaxFixRounds

(* A recorded PR exists, and one is created in stage 5, of a pushed branch. *)
PrIsThere ==
  /\ disk.pr => pr # NoPr
  /\ pc = "recordPr" => pr # NoPr
  /\ pc = "create" => origin # NoContent
  /\ pr # NoPr => disk.stage >= IMPLEMENT_STAGE

IInv == TypeOK /\ MemoryIsDisk /\ PcFitsStage /\ PrIsThere

LEMMA TypeInit == Init => TypeOK
<1> SUFFICES ASSUME Init PROVE TypeOK
  OBVIOUS
<1>1. EmptyState.base \in [BasedStages -> Contents \cup {NoContent}]
  BY EmptyStateTyped DEF States
<1>2. NoPr \in [content : Contents \cup {NoContent}, edited : BOOLEAN]
  BY DEF NoPr
<1>3. EmptyReport \in [outcome : {"none", "ok", "partial", "failed"}, unpushed : BOOLEAN]
  BY DEF EmptyReport
<1>4. tree \in Contents /\ head \in Contents
  BY DEF Init, Contents
<1>5. 0 \in 0..MaxFixRounds /\ 0 \in 0..MaxResumes /\ 0 \in 0..MaxFallbacks
  BY StagesAssumption
<1>6. QED
  BY <1>1, <1>2, <1>3, <1>4, <1>5, EmptyStateTyped DEF Init, TypeOK

Reports == [outcome : {"none", "ok", "partial", "failed"}, unpushed : BOOLEAN]

(* Every way to end writes one of the reports and leaves the rest alone.   *)
Ending ==
  \/ StopsAtDeadline \/ Completes \/ FailsGate \/ Aborts
  \/ GivesUpFixing \/ StopsFixing \/ LosesTests \/ Reaps

LEMMA EndingEffect ==
  ASSUME Ending
  PROVE  /\ report' \in Reports /\ report'.outcome \in {"ok", "partial", "failed"}
         /\ pc' = "off" /\ agent' = 0
         /\ UNCHANGED <<disk, mem, round, kind, edited, life, late, treeVars, origin, pr,
                        ghostVars>>
<1>1. ASSUME NEW o \in {"ok", "partial", "failed"}, NEW u \in BOOLEAN, Finish(o, u)
      PROVE  /\ report' \in Reports /\ report'.outcome \in {"ok", "partial", "failed"}
             /\ pc' = "off" /\ agent' = 0
  BY <1>1 DEF Finish, Reports
<1>2. \/ Finish("ok", FALSE) \/ Finish("partial", FALSE) \/ Finish("partial", TRUE)
      \/ Finish("failed", FALSE)
  BY DEF Ending, StopsAtDeadline, Completes, FailsGate, Aborts, GivesUpFixing,
         StopsFixing, LosesTests, Reaps
<1>3. UNCHANGED <<disk, mem, round, kind, edited, life, late, treeVars, origin, pr,
                  ghostVars>>
  BY DEF Ending, StopsAtDeadline, Completes, FailsGate, Aborts, GivesUpFixing,
         StopsFixing, LosesTests, Reaps
<1>4. QED
  BY <1>1, <1>2, <1>3

LEMMA TypeStep ==
  ASSUME TypeOK, PcFitsStage, [Next]_vars
  PROVE  TypeOK'
<1> USE StagesAssumption DEF TypeOK
<1>1. CASE Begins
  BY <1>1 DEF Begins, BasedStages, Stages, TEST_AUTHOR_STAGE, IMPLEMENT_STAGE, treeVars
<1>2. CASE Ending
  BY <1>2, EndingEffect DEF Reports, treeVars, ghostVars
<1>3. CASE RecordsBase
  BY <1>3 DEF RecordsBase, RecordBase, Commit, PcFitsStage, States, Stage, BasedStages, treeVars, ghostVars
<1>4. CASE PassesGate
  BY <1>4 DEF PassesGate, Commit, PcFitsStage, States, Stage, Stages, treeVars, ghostVars
<1>5. CASE Prompts
  BY <1>5 DEF Prompts, PcFitsStage, treeVars, ghostVars
<1>6. CASE Settles \/ ChecksGreen \/ DeadlinePasses
  BY <1>6 DEF Settles, ChecksGreen, DeadlinePasses, procVars, treeVars, ghostVars
<1>7. CASE FallsBack
  BY <1>7 DEF FallsBack, treeVars
<1>8. CASE RecordsSession
  <2>1. AgentSession \in Sessions \cup {NoSession}
    BY <1>8 DEF RecordsSession, AgentSession, PcFitsStage, Sessions, States, Stages,
                IMPLEMENT_STAGE, ADDRESS_COMMENTS_STAGE
  <2>2. QED
    BY <1>8, <2>1 DEF RecordsSession, PcFitsStage, States, treeVars, ghostVars
<1>9. CASE SweepsStage
  BY <1>9 DEF SweepsStage, Sweep, ReRead, treeVars, ghostVars
<1>10. CASE StartsFix
  BY <1>10 DEF StartsFix, IMPLEMENT_STAGE, Stages, treeVars, ghostVars
<1>11. CASE EndsFix
  <2>1. round + 1 \in 0..MaxFixRounds
    BY <1>11 DEF EndsFix, PcFitsStage
  <2>2. QED
    BY <1>11, <2>1 DEF EndsFix, Sweep, ghostVars
<1>12. CASE ComparesTests \/ KeepsTests
  BY <1>12 DEF ComparesTests, KeepsTests, TestEdited, Sweep, treeVars, ghostVars
<1>13. CASE WritesFlip \/ CommitsFlip
  BY <1>13 DEF WritesFlip, CommitsFlip, Contents, ghostVars
<1>14. CASE Pushes
  BY <1>14 DEF Pushes, treeVars, ghostVars
<1>15. CASE CreatesPr
  BY <1>15 DEF CreatesPr, treeVars, ghostVars
<1>16. CASE RecordsPr
  BY <1>16 DEF RecordsPr, Commit, States, treeVars, ghostVars
<1>17. CASE Resumes
  <2>1. life' \in 0..MaxResumes
    BY <1>17 DEF Resumes
  <2>2. QED
    BY <1>17, <2>1 DEF Resumes, treeVars, ghostVars
<1>18. CASE AgentWorks
  <2>1. PICK t \in Contents :
          /\ tree' = t /\ head' \in {head, t}
          /\ origin' \in IF agent = ADDRESS_COMMENTS_STAGE THEN {origin, head'} ELSE {origin}
    BY <1>18 DEF AgentWorks
  <2>2. QED
    BY <1>18, <2>1 DEF AgentWorks, procVars, ghostVars
<1>19. CASE Dies
  <2>1. 0 \in 0..MaxFixRounds
    OBVIOUS
  <2>2. QED
    BY <1>19, <2>1, EmptyStateTyped DEF Dies, treeVars, ghostVars
<1>20. CASE UNCHANGED vars
  BY <1>20 DEF vars, procVars, treeVars, ghostVars
<1>21. QED
  BY NextCases, <1>1, <1>2, <1>3, <1>4, <1>5, <1>6, <1>7, <1>8, <1>9, <1>10, <1>11,
     <1>12, <1>13, <1>14, <1>15, <1>16, <1>17, <1>18, <1>19, <1>20 DEF Ending

LEMMA MemoryStep ==
  ASSUME IInv, [Next]_vars
  PROVE  MemoryIsDisk'
<1> USE DEF MemoryIsDisk, IInv, Stage
<1>1. CASE Ending
  BY <1>1, EndingEffect
<1>2. CASE RecordsBase \/ PassesGate \/ RecordsPr
  BY <1>2 DEF RecordsBase, RecordBase, PassesGate, RecordsPr, Commit
<1>3. CASE RecordsSession
  <2>1. /\ pc' = "sweep" /\ mem' = mem /\ report' = report /\ mem = disk
        /\ disk' = [mem EXCEPT !.sess[Stage] = AgentSession]
    BY <1>3 DEF RecordsSession
  <2>2. /\ mem.stage = disk'.stage /\ mem.base = disk'.base /\ mem.pr = disk'.pr
    BY <2>1 DEF TypeOK, States
  <2>3. \A s \in Stages : s # Stage => mem.sess[s] = disk'.sess[s]
    BY <2>1 DEF TypeOK, States
  <2>4. QED
    BY <1>3, <2>1, <2>2, <2>3 DEF RecordsSession
<1>4. CASE SweepsStage
  BY <1>4 DEF SweepsStage, ReRead
<1>5. CASE Dies \/ Resumes
  BY <1>5 DEF Dies, Resumes
<1>6. CASE \/ Begins \/ Prompts \/ Settles \/ FallsBack \/ ChecksGreen \/ StartsFix \/ EndsFix
           \/ ComparesTests \/ KeepsTests \/ WritesFlip \/ CommitsFlip \/ Pushes \/ CreatesPr
  <2>1. pc # "off" /\ pc # "sweep" /\ pc' # "sweep" /\ UNCHANGED <<disk, mem, report>>
    BY <1>6 DEF Begins, Prompts, Settles, FallsBack, ChecksGreen, StartsFix, EndsFix,
         ComparesTests, KeepsTests, WritesFlip, CommitsFlip, Pushes, CreatesPr, BasedStages
  <2>2. QED
    BY <2>1
<1>7. CASE AgentWorks \/ DeadlinePasses \/ UNCHANGED vars
  BY <1>7 DEF AgentWorks, DeadlinePasses, vars, procVars
<1>8. QED
  BY NextCases, <1>1, <1>2, <1>3, <1>4, <1>5, <1>6, <1>7 DEF Ending

LEMMA PcStep ==
  ASSUME IInv, [Next]_vars
  PROVE  PcFitsStage'
<1> USE DEF PcFitsStage, IInv, Stage, PR_STAGE
<1>1. CASE Ending
  BY <1>1, EndingEffect
<1>2. CASE Begins
  BY <1>2 DEF Begins, BasedStages, TEST_AUTHOR_STAGE, IMPLEMENT_STAGE, Stages
<1>3. CASE RecordsBase
  <2>1. mem'.stage = mem.stage /\ pc = "base" /\ pc' = "start"
    BY <1>3 DEF RecordsBase, RecordBase, Commit, TypeOK, States
  <2>2. QED
    BY <2>1 DEF BasedStages, TEST_AUTHOR_STAGE, IMPLEMENT_STAGE, Stages
<1>4. CASE RecordsPr
  <2>1. mem'.stage = mem.stage /\ pc = "recordPr" /\ pc' = "gate"
    BY <1>4 DEF RecordsPr, Commit, TypeOK, States
  <2>2. QED
    BY <2>1 DEF Stages
<1>5. CASE SweepsStage
  BY <1>5 DEF SweepsStage, ReRead, MemoryIsDisk
<1>6. CASE PassesGate \/ Dies \/ Resumes
  BY <1>6 DEF PassesGate, Dies, Resumes
<1>7. CASE StartsFix
  BY <1>7, StagesAssumption DEF StartsFix, TypeOK
<1>8. CASE \/ Prompts \/ Settles \/ FallsBack \/ RecordsSession \/ ChecksGreen \/ EndsFix
           \/ ComparesTests \/ KeepsTests
  BY <1>8 DEF Prompts, Settles, FallsBack, RecordsSession, ChecksGreen, EndsFix,
              ComparesTests, KeepsTests
<1>9. CASE WritesFlip \/ CommitsFlip \/ Pushes \/ CreatesPr
  BY <1>9 DEF WritesFlip, CommitsFlip, Pushes, CreatesPr
<1>10. CASE AgentWorks \/ DeadlinePasses \/ UNCHANGED vars
  BY <1>10 DEF AgentWorks, DeadlinePasses, vars, procVars
<1>11. QED
  BY NextCases, <1>1, <1>2, <1>3, <1>4, <1>5, <1>6, <1>7, <1>8, <1>9, <1>10 DEF Ending

LEMMA PrStep ==
  ASSUME IInv, [Next]_vars
  PROVE  PrIsThere'
<1> USE DEF PrIsThere, IInv
<1>1. CASE Ending
  BY <1>1, EndingEffect
<1>2. CASE Begins
  BY <1>2 DEF Begins
<1>3. CASE RecordsBase \/ PassesGate
  <2>1. disk'.pr = disk.pr /\ UNCHANGED <<pr, origin>> /\ pc' \in {"start", "begin"}
    BY <1>3 DEF RecordsBase, RecordBase, PassesGate, Commit, MemoryIsDisk, TypeOK, States
  <2>2. disk.stage \in 0..7 /\ disk'.stage \in {disk.stage, disk.stage + 1}
    BY <1>3 DEF RecordsBase, RecordBase, PassesGate, Commit, MemoryIsDisk, Stage, TypeOK, States
  <2>3. QED
    BY <2>1, <2>2 DEF IMPLEMENT_STAGE
<1>4. CASE RecordsSession
  <2>1. /\ disk'.pr = disk.pr /\ disk'.stage = disk.stage
        /\ UNCHANGED <<pr, origin>> /\ pc' = "sweep"
    BY <1>4 DEF RecordsSession, MemoryIsDisk, TypeOK, States
  <2>2. QED
    BY <2>1
<1>5. CASE RecordsPr
  <2>1. disk'.stage = disk.stage /\ pr' = pr /\ pc' = "gate" /\ pr # NoPr
    BY <1>5 DEF RecordsPr, Commit, MemoryIsDisk, TypeOK, States
  <2>2. QED
    BY <2>1
<1>6. CASE Pushes
  BY <1>6 DEF Pushes, TypeOK, Contents, NoContent
<1>7. CASE CreatesPr
  <2>1. disk.stage = IMPLEMENT_STAGE
    BY <1>7 DEF CreatesPr, PcFitsStage, MemoryIsDisk, Stage, PR_STAGE, IMPLEMENT_STAGE, TypeOK, States
  <2>2. pr' # NoPr /\ disk' = disk /\ pc' = "recordPr"
    BY <1>7 DEF CreatesPr, NoPr
  <2>3. QED
    BY <2>1, <2>2 DEF IMPLEMENT_STAGE
<1>8. CASE AgentWorks
  BY <1>8 DEF AgentWorks, TypeOK, Contents, NoContent, procVars
<1>9. CASE \/ Prompts \/ Settles \/ FallsBack \/ SweepsStage \/ ChecksGreen \/ StartsFix
           \/ EndsFix \/ ComparesTests \/ KeepsTests \/ WritesFlip \/ CommitsFlip
           \/ Dies \/ Resumes
  <2>1. /\ UNCHANGED <<disk, pr, origin>>
        /\ pc' \notin {"create", "recordPr"} \/ pc' = pc
    BY <1>9 DEF Prompts, Settles, FallsBack, SweepsStage, ChecksGreen, StartsFix, EndsFix,
         ComparesTests, KeepsTests, WritesFlip, CommitsFlip, Dies, Resumes
  <2>2. QED
    BY <2>1
<1>10. CASE DeadlinePasses \/ UNCHANGED vars
  BY <1>10 DEF DeadlinePasses, vars, procVars
<1>11. QED
  BY NextCases, <1>1, <1>2, <1>3, <1>4, <1>5, <1>6, <1>7, <1>8, <1>9, <1>10 DEF Ending

LEMMA IInvInductive == Spec => []IInv
<1>1. Init => IInv
  BY TypeInit DEF Init, IInv, MemoryIsDisk, PcFitsStage, PrIsThere, EmptyState, EmptyReport
<1>2. IInv /\ [Next]_vars => IInv'
  BY TypeStep, MemoryStep, PcStep, PrStep DEF IInv
<1>3. QED
  BY <1>1, <1>2, PTL DEF Spec

(* The types of the model hold, for any number of resumes, fix rounds and  *)
(* model failures (state.json, the worktree, the branch, the report).      *)
THEOREM TypeCorrect == Spec => []TypeOK
BY IInvInductive, PTL DEF IInv

(* A commit of the loop changes only what the current stage is to record.  *)
LEMMA FrozenStep ==
  ASSUME IInv, [Next]_vars, NEW s \in Stages, s <= disk.stage
  PROVE  /\ disk'.sess[s] = disk.sess[s]
         /\ s \in BasedStages => disk'.base[s] = disk.base[s]
<1> USE DEF IInv
<1>1. CASE RecordsBase
  <2>1. s # Stage /\ mem = disk
    BY <1>1 DEF RecordsBase, MemoryIsDisk, Stage, TypeOK, States, Stages
  <2>2. QED
    BY <1>1, <2>1 DEF RecordsBase, RecordBase, Commit, TypeOK, States
<1>2. CASE RecordsSession
  <2>1. s # Stage /\ mem = disk
    BY <1>2 DEF RecordsSession, MemoryIsDisk, Stage, TypeOK, States, Stages
  <2>2. QED
    BY <1>2, <2>1 DEF RecordsSession, TypeOK, States
<1>3. CASE PassesGate \/ RecordsPr
  BY <1>3 DEF PassesGate, RecordsPr, Commit, MemoryIsDisk, TypeOK, States
<1>4. CASE Ending
  BY <1>4, EndingEffect
<1>5. CASE disk' = disk
  BY <1>5
<1>6. QED
  BY NextCases, <1>1, <1>2, <1>3, <1>4, <1>5
     DEF Ending, Begins, Prompts, Settles, FallsBack, SweepsStage, ChecksGreen, StartsFix,
         EndsFix, ComparesTests, KeepsTests, WritesFlip, CommitsFlip, Pushes, CreatesPr,
         AgentWorks, DeadlinePasses, Dies, Resumes, vars

(* No replay, fix round or stale copy of state.json changes what a passed  *)
(* stage recorded (_State.commit, _record_base, _ci_fix_loop), however     *)
(* often the run dies.                                                     *)
THEOREM PassedStagesStay == Spec => PassedStagesAreFrozen
<1>1. IInv /\ [Next]_vars =>
        [ \A s \in Stages : s <= disk.stage =>
            /\ disk'.sess[s] = disk.sess[s]
            /\ s \in BasedStages => disk'.base[s] = disk.base[s] ]_vars
  BY FrozenStep
<1>2. QED
  BY <1>1, IInvInductive, PTL DEF Spec, PassedStagesAreFrozen

(* Every step is a step of the promise, or none of its business.           *)
LEMMA PromiseStep ==
  ASSUME IInv, [Next]_vars
  PROVE  [Promise!Climb \/ Promise!Open \/ Promise!End]_(Promise!promiseVars)
<1> USE DEF IInv, Promise!promiseVars
<1>1. CASE PassesGate
  <2>1. /\ disk'.stage = disk.stage + 1 /\ disk.stage < 7 /\ report.outcome = "none"
        /\ disk.stage + 1 = PR_STAGE => mem.pr
        /\ UNCHANGED <<pr, report>>
    BY <1>1 DEF PassesGate, Commit, GatePasses, MemoryIsDisk, PcFitsStage, Stage, TypeOK,
                States, Stages, EmptyReport, SPEC_REVIEW_STAGE, TEST_AUTHOR_STAGE,
                IMPLEMENT_STAGE, PR_STAGE
  <2>2. mem.pr => pr # NoPr
    BY <1>1 DEF PassesGate, MemoryIsDisk, PrIsThere
  <2>3. QED
    BY <2>1, <2>2 DEF Promise!Climb
<1>2. CASE CreatesPr
  <2>1. /\ disk.stage + 1 = PR_STAGE /\ report.outcome = "none" /\ pr' # NoPr
        /\ UNCHANGED <<disk, report>>
    BY <1>2 DEF CreatesPr, MemoryIsDisk, PcFitsStage, PrIsThere, Stage, EmptyReport, NoPr
  <2>2. CASE pr = NoPr
    BY <2>1, <2>2 DEF Promise!Open
  <2>3. CASE pr # NoPr
    BY <2>1, <2>3
  <2>4. QED
    BY <2>2, <2>3
<1>3. CASE Ending
  <2> DEFINE Unreported == pc # "off" \/ report = EmptyReport
  <2>0. Unreported
    BY <1>3 DEF Ending, StopsAtDeadline, Completes, FailsGate, Aborts, GivesUpFixing,
         StopsFixing, LosesTests, Reaps
  <2>1. report.outcome = "none"
    BY <2>0 DEF MemoryIsDisk, EmptyReport
  <2>2. /\ report'.outcome \in {"ok", "partial", "failed"}
        /\ UNCHANGED <<disk, pr>>
    BY <1>3, EndingEffect
  <2>3. CASE Completes
    <3>1. disk.stage = 7
      BY <2>3 DEF Completes, MemoryIsDisk, Stage, Stages, TypeOK, States
    <3>2. report'.outcome = "ok"
      BY <2>3 DEF Completes, Finish
    <3>3. QED
      BY <2>1, <2>2, <3>1, <3>2 DEF Promise!End
  <2>4. CASE StopsAtDeadline \/ StopsFixing
    <3>0. (pc = "begin" /\ Stage \in Stages) \/ Stage = PR_STAGE
      BY <2>4 DEF StopsAtDeadline, StopsFixing, PcFitsStage
    <3>1. mem.stage < 7
      BY <3>0 DEF Stage, Stages, TypeOK, States, PR_STAGE
    <3>2. disk.stage < 7
      BY <2>4, <3>1 DEF StopsAtDeadline, StopsFixing, MemoryIsDisk
    <3>3. report'.outcome = "partial"
      BY <2>4 DEF StopsAtDeadline, StopsFixing, Finish
    <3>4. QED
      BY <2>1, <2>2, <3>2, <3>3 DEF Promise!End
  <2>5. CASE FailsGate \/ Aborts \/ GivesUpFixing \/ LosesTests \/ Reaps
    <3>1. report'.outcome = "failed"
      BY <2>5 DEF FailsGate, Aborts, GivesUpFixing, LosesTests, Reaps, Finish
    <3>2. QED
      BY <2>1, <2>2, <3>1 DEF Promise!End
  <2>6. QED
    BY <1>3, <2>3, <2>4, <2>5 DEF Ending
<1>4. CASE RecordsBase \/ RecordsSession \/ RecordsPr
  <2>1. disk'.stage = disk.stage /\ UNCHANGED <<pr, report>>
    BY <1>4 DEF RecordsBase, RecordBase, RecordsSession, RecordsPr, Commit, MemoryIsDisk,
                TypeOK, States
  <2>2. QED
    BY <2>1
<1>5. CASE UNCHANGED <<disk, pr, report>>
  BY <1>5
<1>6. QED
  BY NextCases, <1>1, <1>2, <1>3, <1>4, <1>5
     DEF Ending, Begins, Prompts, Settles, FallsBack, SweepsStage, ChecksGreen, StartsFix,
         EndsFix, ComparesTests, KeepsTests, WritesFlip, CommitsFlip, Pushes,
         AgentWorks, DeadlinePasses, Dies, Resumes, vars, procVars

(* The stage loop, with everything that may die or fail in it, implements  *)
(* the promise of a run: it climbs one gate at a time, opens its PR once   *)
(* and before the review, and ends once, with "ok" only at the top.        *)
THEOREM Implements == Spec => KeepsPromise
<1>1. Init => Promise!PromiseInit
  BY DEF Init, Promise!PromiseInit, EmptyState, EmptyReport
<1>2. IInv /\ [Next]_vars =>
        [Promise!Climb \/ Promise!Open \/ Promise!End]_(Promise!promiseVars)
  BY PromiseStep
<1>3. QED
  BY <1>1, <1>2, IInvInductive, PTL DEF Spec, KeepsPromise, Promise!PromiseSpec

-----------------------------------------------------------------------------
(* The worktree, for BaseIsTheWorkBefore and PrIsHonest                    *)

Idle == pc \notin {"off", "work", "fix"}

(* An agent works for the stage at hand, or on a fix for stage 5, and      *)
(* never before the base of its stage is on record.                        *)
AgentFits ==
  /\ Idle => agent = 0
  /\ agent # 0 => \/ agent = disk.stage + 1
                  \/ agent = IMPLEMENT_STAGE /\ disk.stage = IMPLEMENT_STAGE
  /\ agent \in BasedStages => disk.base[agent] # NoContent
  /\ pc \in {"start", "work", "record", "sweep", "gate"} /\ Stage \in BasedStages
       => mem.base[Stage] # NoContent

(* Until the base of stage s is on record the worktree is clean, from the  *)
(* gate of the stage before on, and it is what `before` remembers.         *)
CleanBefore ==
  /\ \A s \in BasedStages :
       /\ disk.stage + 1 < s => disk.base[s] = NoContent /\ before[s] = NoContent
       /\ disk.stage >= s => disk.base[s] # NoContent
       /\ disk.stage + 1 = s /\ disk.base[s] = NoContent =>
            tree = head /\ before[s] \in {NoContent, tree}
  /\ pc = "base" => before[Stage] # NoContent
  /\ pc = "gate" /\ Stage \in SweptStages => tree = head

(* Nobody edits the named test before the implementer's base is on record, *)
(* and by then the test author has at least named it.                      *)
TestAuthored ==
  /\ disk.base[IMPLEMENT_STAGE] = NoContent =>
       tree.test # "edited" /\ head.test # "edited"
  /\ disk.base[IMPLEMENT_STAGE] = NoContent /\ disk.stage = TEST_AUTHOR_STAGE =>
       head.test \in {"named", "authored"}
  /\ disk.base[IMPLEMENT_STAGE] # NoContent =>
       disk.base[IMPLEMENT_STAGE].test \in {"named", "authored"}

(* The test author's function is in c, and e tells whether it was edited.  *)
TestKept(c, e) ==
  HasTest(before[IMPLEMENT_STAGE]) => HasTest(c) /\ (e <=> c.test = "edited")

Honest(c, e) == c.code = "green" /\ c.issue = "done" /\ TestKept(c, e)

(* What the bookkeeping has made sure of, step by step.                    *)
BooksInOrder ==
  /\ pc = "books" => tree.code = "green"
  /\ pc = "compare" => tree = head /\ head.code = "green"
  /\ pc \in {"flip", "commitFlip"} =>
       head.code = "green" /\ TestKept(head, edited)
  /\ pc = "commitFlip" => tree.issue = "done"
  /\ pc = "create" => Honest(origin, edited)

WorkInv == IInv /\ AgentFits /\ CleanBefore /\ TestAuthored /\ BooksInOrder
             /\ BaseIsTheWorkBefore /\ PrIsHonest

(* What the four steps that write state.json do to it.                     *)
LEMMA CommitEffects ==
  ASSUME IInv
  PROVE  /\ RecordsSession \/ RecordsPr =>
              disk'.stage = disk.stage /\ disk'.base = disk.base
              /\ mem'.stage = mem.stage /\ mem'.base = mem.base
         /\ PassesGate =>
              disk'.stage = disk.stage + 1 /\ disk'.base = disk.base
              /\ mem'.stage = mem.stage + 1 /\ mem'.base = mem.base
         /\ RecordsBase =>
              /\ disk'.stage = disk.stage /\ mem' = disk' /\ Stage = disk.stage + 1
              /\ Stage \in BasedStages
              /\ IF disk.base[Stage] = NoContent
                   THEN disk'.base = [disk.base EXCEPT ![Stage] = head]
                   ELSE disk'.base = disk.base
<1> USE DEF IInv
<1>1. ASSUME RecordsSession \/ RecordsPr
      PROVE  disk'.stage = disk.stage /\ disk'.base = disk.base
             /\ mem'.stage = mem.stage /\ mem'.base = mem.base
  BY <1>1 DEF RecordsSession, RecordsPr, Commit, MemoryIsDisk, TypeOK, States
<1>2. ASSUME PassesGate
      PROVE  disk'.stage = disk.stage + 1 /\ disk'.base = disk.base
             /\ mem'.stage = mem.stage + 1 /\ mem'.base = mem.base
  BY <1>2 DEF PassesGate, Commit, MemoryIsDisk, TypeOK, States, Stage
<1>3. ASSUME RecordsBase
      PROVE  /\ disk'.stage = disk.stage /\ mem' = disk' /\ Stage = disk.stage + 1
             /\ Stage \in BasedStages
             /\ IF disk.base[Stage] = NoContent
                  THEN disk'.base = [disk.base EXCEPT ![Stage] = head]
                  ELSE disk'.base = disk.base
  BY <1>3 DEF RecordsBase, RecordBase, Commit, MemoryIsDisk, PcFitsStage, TypeOK, States, Stage
<1>4. QED
  BY <1>1, <1>2, <1>3

LEMMA AgentStep ==
  ASSUME IInv, AgentFits, CleanBefore, [Next]_vars
  PROVE  AgentFits'
<1> USE DEF AgentFits, IInv, Idle, Stage
<1>a. /\ disk.stage \in 0..7 /\ mem.stage \in 0..7
      /\ pc # "off" => mem.stage = disk.stage /\ mem.base = disk.base
  BY DEF TypeOK, States, MemoryIsDisk
<1>1. CASE Ending
  BY <1>1, EndingEffect DEF BasedStages, TEST_AUTHOR_STAGE, IMPLEMENT_STAGE
<1>2. CASE Begins
  BY <1>2, <1>a DEF Begins, BasedStages, TEST_AUTHOR_STAGE, IMPLEMENT_STAGE, PR_STAGE
<1>3. CASE RecordsBase
  <2>1. pc = "base" /\ pc' = "start" /\ agent' = agent
    BY <1>3 DEF RecordsBase
  <2>2. disk'.base[Stage] # NoContent /\ mem' = disk' /\ disk'.stage = disk.stage
    BY <1>3, CommitEffects DEF TypeOK, States, Contents, NoContent
  <2>3. QED
    BY <2>1, <2>2, <1>a DEF BasedStages, TEST_AUTHOR_STAGE, IMPLEMENT_STAGE
<1>4. CASE RecordsSession \/ RecordsPr
  <2>1. disk'.stage = disk.stage /\ disk'.base = disk.base
        /\ mem'.stage = mem.stage /\ mem'.base = mem.base
    BY <1>4, CommitEffects
  <2>2. /\ agent = 0 /\ agent' = 0 /\ pc # "off"
        /\ (pc = "record" /\ pc' = "sweep") \/ Stage = PR_STAGE
    BY <1>4 DEF RecordsSession, RecordsPr, PcFitsStage
  <2>3. QED
    BY <2>1, <2>2, <1>a DEF BasedStages, TEST_AUTHOR_STAGE, IMPLEMENT_STAGE, PR_STAGE
<1>5. CASE PassesGate
  BY <1>5 DEF PassesGate, BasedStages, TEST_AUTHOR_STAGE, IMPLEMENT_STAGE
<1>6. CASE Prompts
  BY <1>6, <1>a DEF Prompts
<1>7. CASE Settles \/ FallsBack
  BY <1>7, <1>a DEF Settles, FallsBack, BasedStages, TEST_AUTHOR_STAGE, IMPLEMENT_STAGE
<1>8. CASE SweepsStage
  BY <1>8, <1>a DEF SweepsStage, ReRead, MemoryIsDisk
<1>9. CASE StartsFix
  <2>1. disk.stage = IMPLEMENT_STAGE
    BY <1>9, <1>a DEF StartsFix, PcFitsStage, PR_STAGE, IMPLEMENT_STAGE
  <2>2. disk.base[IMPLEMENT_STAGE] # NoContent
    BY <2>1, <1>a DEF CleanBefore, BasedStages, IMPLEMENT_STAGE
  <2>3. QED
    BY <1>9, <2>1, <2>2 DEF StartsFix
<1>10. CASE \/ EndsFix \/ ChecksGreen \/ ComparesTests \/ KeepsTests \/ WritesFlip
            \/ CommitsFlip \/ Pushes \/ CreatesPr
  <2>1. agent' = 0 /\ pc' \notin {"start", "work", "record", "sweep", "gate"}
    BY <1>10 DEF EndsFix, ChecksGreen, ComparesTests, KeepsTests, WritesFlip, CommitsFlip,
                 Pushes, CreatesPr
  <2>2. QED
    BY <2>1 DEF BasedStages, TEST_AUTHOR_STAGE, IMPLEMENT_STAGE
<1>11. CASE AgentWorks \/ DeadlinePasses \/ UNCHANGED vars
  BY <1>11 DEF AgentWorks, DeadlinePasses, vars, procVars
<1>12. CASE Dies \/ Resumes
  BY <1>12, <1>a DEF Dies, Resumes, BasedStages, TEST_AUTHOR_STAGE, IMPLEMENT_STAGE
<1>13. QED
  BY NextCases, <1>1, <1>2, <1>3, <1>4, <1>5, <1>6, <1>7, <1>8, <1>9, <1>10, <1>11, <1>12
     DEF Ending

LEMMA CleanStep ==
  ASSUME IInv, AgentFits, CleanBefore, [Next]_vars
  PROVE  CleanBefore'
<1> USE DEF IInv, CleanBefore, Stage
<1>a. /\ disk.stage \in 0..7 /\ mem.stage \in 0..7
      /\ pc # "off" => mem.stage = disk.stage /\ mem.base = disk.base
  BY DEF TypeOK, States, MemoryIsDisk
<1>b. BasedStages = {3, 4} /\ SweptStages = {2, 3, 4} /\ PR_STAGE = 5
  BY DEF BasedStages, SweptStages, TEST_AUTHOR_STAGE, IMPLEMENT_STAGE, SPEC_REVIEW_STAGE, PR_STAGE
<1>1. CASE Ending
  BY <1>1, EndingEffect DEF treeVars, ghostVars
<1>2. CASE Begins
  <2>1. tree # NoContent
    BY DEF TypeOK, Contents, NoContent
  <2>2. \A s \in BasedStages :
          \/ before'[s] = before[s]
          \/ s = disk.stage + 1 /\ before[s] = NoContent /\ before'[s] = tree
    BY <1>2, <1>a DEF Begins, TypeOK
  <2>3. UNCHANGED <<disk, mem, tree, head>> /\ pc' # "gate"
    BY <1>2 DEF Begins, treeVars, BasedStages
  <2>4. pc' = "base" => Stage \in BasedStages /\ before'[Stage] # NoContent
    BY <1>2, <2>1, <2>2 DEF Begins, TypeOK
  <2>5. QED
    BY <2>2, <2>3, <2>4, <1>b, <1>a
<1>3. CASE RecordsBase
  <2>1. /\ disk'.stage = disk.stage /\ pc' = "start" /\ UNCHANGED <<tree, head, before>>
        /\ \A s \in BasedStages : s # disk.stage + 1 => disk'.base[s] = disk.base[s]
        /\ disk'.base[disk.stage + 1] # NoContent
    BY <1>3, <1>a, CommitEffects DEF RecordsBase, TypeOK, States, Contents, NoContent, treeVars, ghostVars
  <2>2. QED
    BY <2>1, <1>a, <1>b
<1>4. CASE RecordsSession \/ RecordsPr
  <2>1. disk'.stage = disk.stage /\ disk'.base = disk.base /\ mem'.stage = mem.stage
    BY <1>4, CommitEffects
  <2>2. /\ UNCHANGED <<tree, head, before>> /\ pc' # "base"
        /\ pc' = "gate" => Stage = PR_STAGE
    BY <1>4 DEF RecordsSession, RecordsPr, PcFitsStage, treeVars, ghostVars
  <2>3. QED
    BY <2>1, <2>2, <1>b
<1>5. CASE PassesGate
  <2>1. disk'.stage = disk.stage + 1 /\ disk'.base = disk.base
    BY <1>5, CommitEffects
  <2>2. pc = "gate" /\ pc' = "begin" /\ UNCHANGED <<tree, head, before>>
    BY <1>5 DEF PassesGate, treeVars, ghostVars
  <2>3. disk.stage + 1 \in BasedStages => disk.base[disk.stage + 1] # NoContent
    BY <2>2, <1>a DEF AgentFits
  <2>4. disk.stage + 1 \in SweptStages => tree = head
    BY <2>2, <1>a
  <2>5. QED
    BY <2>1, <2>2, <2>3, <2>4, <1>a, <1>b
<1>6. CASE SweepsStage
  <2>1. /\ UNCHANGED <<disk, before>> /\ pc' = "gate" /\ mem'.stage = mem.stage
        /\ tree' = tree /\ head' \in {head, tree}
        /\ Stage \in SweptStages => head' = tree
    BY <1>6 DEF SweepsStage, Sweep, ReRead, MemoryIsDisk, treeVars, ghostVars
  <2>2. QED
    BY <2>1
<1>7. CASE EndsFix \/ ComparesTests \/ WritesFlip \/ CommitsFlip
  <2>1. disk.stage = 4 /\ UNCHANGED <<disk, before>> /\ pc' \notin {"base", "gate"}
    BY <1>7, <1>a, <1>b DEF EndsFix, ComparesTests, WritesFlip, CommitsFlip, PcFitsStage, ghostVars
  <2>2. QED
    BY <2>1, <1>b
<1>8. CASE AgentWorks
  <2>1. agent # 0 /\ UNCHANGED <<disk, mem, pc, before>>
    BY <1>8 DEF AgentWorks, procVars, ghostVars
  <2>2. pc \notin {"base", "gate"}
    BY <2>1 DEF AgentFits, Idle
  <2>3. \A s \in BasedStages : disk.stage + 1 = s => disk.base[s] # NoContent
    BY <2>1, <1>a, <1>b DEF AgentFits, IMPLEMENT_STAGE
  <2>4. QED
    BY <2>1, <2>2, <2>3
<1>9. CASE \/ Prompts \/ Settles \/ FallsBack \/ ChecksGreen \/ StartsFix \/ KeepsTests
           \/ Pushes \/ CreatesPr \/ Dies \/ Resumes
  <2>1. UNCHANGED <<disk, tree, head, before>> /\ pc' \notin {"base", "gate"}
    BY <1>9 DEF Prompts, Settles, FallsBack, ChecksGreen, StartsFix, KeepsTests, Pushes,
                CreatesPr, Dies, Resumes, treeVars, ghostVars
  <2>2. QED
    BY <2>1
<1>10. CASE DeadlinePasses \/ UNCHANGED vars
  BY <1>10 DEF DeadlinePasses, vars, procVars, treeVars, ghostVars
<1>11. QED
  BY NextCases, <1>1, <1>2, <1>3, <1>4, <1>5, <1>6, <1>7, <1>8, <1>9, <1>10 DEF Ending

LEMMA BaseStep ==
  ASSUME IInv, CleanBefore, BaseIsTheWorkBefore, [Next]_vars
  PROVE  BaseIsTheWorkBefore'
<1> USE DEF IInv, BaseIsTheWorkBefore
<1>1. CASE Begins
  <2>1. \A s \in BasedStages : before'[s] = before[s] \/ before[s] = NoContent
    BY <1>1 DEF Begins, TypeOK
  <2>2. QED
    BY <1>1, <2>1 DEF Begins
<1>2. CASE RecordsBase
  <2>1. disk.base[Stage] = NoContent => head = before[Stage]
    BY <1>2, CommitEffects DEF RecordsBase, CleanBefore
  <2>2. before' = before
    BY <1>2 DEF RecordsBase, ghostVars
  <2>3. QED
    BY <1>2, <2>1, <2>2, CommitEffects DEF TypeOK, States
<1>3. CASE RecordsSession \/ RecordsPr \/ PassesGate
  <2>1. disk'.base = disk.base
    BY <1>3, CommitEffects
  <2>2. before' = before
    BY <1>3 DEF RecordsSession, RecordsPr, PassesGate, ghostVars
  <2>3. QED
    BY <2>1, <2>2
<1>4. CASE Ending
  BY <1>4, EndingEffect DEF ghostVars
<1>5. CASE UNCHANGED <<disk, before>>
  BY <1>5
<1>6. QED
  BY NextCases, <1>1, <1>2, <1>3, <1>4, <1>5
     DEF Ending, Prompts, Settles, FallsBack, SweepsStage, ChecksGreen, StartsFix,
         EndsFix, ComparesTests, KeepsTests, WritesFlip, CommitsFlip, Pushes, CreatesPr,
         AgentWorks, DeadlinePasses, Dies, Resumes, vars, ghostVars

LEMMA TestStep ==
  ASSUME IInv, AgentFits, CleanBefore, TestAuthored, [Next]_vars
  PROVE  TestAuthored'
<1> USE DEF IInv, TestAuthored, IMPLEMENT_STAGE, TEST_AUTHOR_STAGE
<1>a. disk.stage \in 0..7 /\ tree \in Contents /\ head \in Contents
  BY DEF TypeOK, States
<1>b. disk.base[4] = NoContent => disk.stage < 4
  BY <1>a DEF CleanBefore, BasedStages
<1>c. disk.base[4] = NoContent /\ disk.stage = 3 => tree = head
  BY DEF CleanBefore, BasedStages
<1>1. CASE Ending
  BY <1>1, EndingEffect DEF treeVars
<1>2. CASE RecordsBase
  <2>1. /\ UNCHANGED <<tree, head>> /\ disk'.stage = disk.stage
        /\ \/ disk'.base[4] = disk.base[4]
           \/ disk.base[4] = NoContent /\ disk.stage = 3 /\ disk'.base[4] = head
    BY <1>2, <1>a, CommitEffects DEF RecordsBase, TypeOK, States, BasedStages, treeVars
  <2>2. head # NoContent
    BY <1>a DEF Contents, NoContent
  <2>3. QED
    BY <2>1, <2>2
<1>3. CASE RecordsSession \/ RecordsPr
  <2>1. disk'.stage = disk.stage /\ disk'.base = disk.base
    BY <1>3, CommitEffects
  <2>2. UNCHANGED <<tree, head>>
    BY <1>3 DEF RecordsSession, RecordsPr, treeVars
  <2>3. QED
    BY <2>1, <2>2
<1>4. CASE PassesGate
  <2>1. disk'.stage = disk.stage + 1 /\ disk'.base = disk.base /\ UNCHANGED <<tree, head>>
    BY <1>4, CommitEffects DEF PassesGate, treeVars
  <2>2. disk.stage = 2 /\ disk.base[4] = NoContent => head.test \in {"named", "authored"}
    <3> HAVE disk.stage = 2 /\ disk.base[4] = NoContent
    <3>1. Stage = 3 /\ pc = "gate"
      BY <1>4 DEF PassesGate, MemoryIsDisk, Stage
    <3>a. GateTestAuthor
      BY <1>4, <3>1 DEF PassesGate, GatePasses
    <3>2. tree.test # "absent"
      BY <3>a DEF GateTestAuthor, NamedTestsPresent
    <3>3. tree = head
      BY <3>1 DEF CleanBefore, SweptStages, BasedStages
    <3>4. QED
      BY <3>2, <3>3, <1>a DEF Contents
  <2>3. QED
    BY <2>1, <2>2, <1>a
<1>5. CASE SweepsStage \/ EndsFix \/ ComparesTests
  <2>1. UNCHANGED <<disk, tree>> /\ head' \in {head, tree}
    BY <1>5 DEF SweepsStage, EndsFix, ComparesTests, Sweep, treeVars
  <2>2. QED
    BY <2>1, <1>c
<1>6. CASE WritesFlip \/ CommitsFlip
  <2>1. disk' = disk /\ tree'.test = tree.test /\ head'.test = head.test
    BY <1>6, <1>a DEF WritesFlip, CommitsFlip, Contents
  <2>2. QED
    BY <2>1
<1>7. CASE AgentWorks
  <2>1. PICK t \in Contents : Work(agent, t) /\ tree' = t /\ head' \in {head, t}
    BY <1>7 DEF AgentWorks
  <2>2. disk' = disk /\ agent # 0
    BY <1>7 DEF AgentWorks
  <2>3. CASE disk.base[4] # NoContent
    BY <2>2, <2>3
  <2>4. CASE disk.base[4] = NoContent
    <3>1. agent \notin {4, 7} /\ disk.stage # 3
      BY <2>2, <2>4, <1>a, <1>b DEF AgentFits, BasedStages
    <3>2. t.test \in {tree.test, "named", "authored"}
      BY <2>1, <3>1, <1>a DEF Work, SPEC_REVIEW_STAGE, ADDRESS_COMMENTS_STAGE, Contents
    <3>3. QED
      BY <2>1, <2>2, <2>4, <3>1, <3>2
  <2>5. QED
    BY <2>3, <2>4
<1>8. CASE UNCHANGED <<disk, tree, head>>
  BY <1>8
<1>9. QED
  BY NextCases, <1>1, <1>2, <1>3, <1>4, <1>5, <1>6, <1>7, <1>8
     DEF Ending, Begins, Prompts, Settles, FallsBack, ChecksGreen, StartsFix,
         KeepsTests, Pushes, CreatesPr, DeadlinePasses, Dies, Resumes, vars, treeVars

LEMMA BooksStep ==
  ASSUME IInv, AgentFits, CleanBefore, TestAuthored, BaseIsTheWorkBefore, BooksInOrder,
         [Next]_vars
  PROVE  BooksInOrder'
<1> USE DEF IInv, BooksInOrder
<1>1. CASE ChecksGreen
  BY <1>1 DEF ChecksGreen, treeVars
<1>2. CASE ComparesTests
  BY <1>2 DEF ComparesTests, Sweep
<1>3. CASE KeepsTests
  <2>1. mem = disk /\ disk.stage = IMPLEMENT_STAGE
    BY <1>3 DEF KeepsTests, MemoryIsDisk, PcFitsStage, Stage, PR_STAGE, IMPLEMENT_STAGE, TypeOK, States
  <2>2. /\ mem.base[IMPLEMENT_STAGE] = before[IMPLEMENT_STAGE]
        /\ before[IMPLEMENT_STAGE].test \in {"named", "authored"}
    BY <2>1 DEF CleanBefore, TestAuthored, BaseIsTheWorkBefore, BasedStages, IMPLEMENT_STAGE,
                TypeOK, States
  <2>3. head.test \in {"absent", "named", "authored", "edited"}
    BY DEF TypeOK, Contents
  <2>4. TestKept(head, edited')
    BY <1>3, <2>2, <2>3 DEF KeepsTests, TestRemoved, TestEdited, TestKept, HasTest
  <2>5. head.code = "green" /\ pc' = "flip" /\ UNCHANGED <<tree, head, before>>
    BY <1>3 DEF KeepsTests, treeVars, ghostVars
  <2>6. QED
    BY <2>4, <2>5 DEF TestKept
<1>4. CASE WritesFlip
  BY <1>4 DEF WritesFlip, TypeOK, Contents, TestKept, HasTest, ghostVars
<1>5. CASE CommitsFlip
  BY <1>5 DEF CommitsFlip, TypeOK, Contents, TestKept, HasTest, ghostVars
<1>6. CASE Pushes
  BY <1>6 DEF Pushes, IssueCommittedDone, Honest, TestKept, ghostVars
<1>7. CASE AgentWorks
  BY <1>7 DEF AgentWorks, AgentFits, Idle, procVars
<1>8. CASE DeadlinePasses \/ UNCHANGED vars
  BY <1>8 DEF DeadlinePasses, vars, procVars, treeVars, ghostVars, Honest, TestKept
<1>9. CASE pc' \notin {"books", "compare", "flip", "commitFlip", "create"}
  BY <1>9
<1>10. QED
  <2>1. CASE Ending
    BY <1>9, <2>1, EndingEffect
  <2>2. CASE FallsBack
    BY <1>9, <2>2 DEF FallsBack
  <2>3. CASE \/ Begins \/ RecordsBase \/ PassesGate \/ Prompts \/ Settles \/ RecordsSession
             \/ SweepsStage \/ StartsFix \/ EndsFix \/ CreatesPr \/ RecordsPr \/ Dies \/ Resumes
    BY <1>9, <2>3 DEF Begins, RecordsBase, PassesGate, Prompts, Settles, RecordsSession,
                      SweepsStage, StartsFix, EndsFix, CreatesPr, RecordsPr, Dies, Resumes
  <2>4. QED
    BY NextCases, <1>1, <1>2, <1>3, <1>4, <1>5, <1>6, <1>7, <1>8, <2>1, <2>2, <2>3 DEF Ending

LEMMA HonestStep ==
  ASSUME IInv, BooksInOrder, PrIsHonest, [Next]_vars
  PROVE  PrIsHonest'
<1> USE DEF PrIsHonest
<1>1. CASE CreatesPr
  BY <1>1 DEF CreatesPr, BooksInOrder, Honest, TestKept, HasTest, ghostVars
<1>2. CASE Ending
  BY <1>2, EndingEffect DEF HasTest, ghostVars
<1>3. CASE Begins
  <2>1. pr # NoPr => before'[IMPLEMENT_STAGE] = before[IMPLEMENT_STAGE]
    BY <1>3 DEF Begins, IInv, PrIsThere, MemoryIsDisk, Stage, TypeOK, States, BasedStages,
                IMPLEMENT_STAGE, TEST_AUTHOR_STAGE, PR_STAGE
  <2>2. pr' = pr
    BY <1>3 DEF Begins
  <2>3. QED
    BY <2>1, <2>2 DEF HasTest
<1>4. CASE UNCHANGED <<pr, before>>
  BY <1>4 DEF HasTest
<1>5. QED
  BY NextCases, <1>1, <1>2, <1>3, <1>4
     DEF Ending, ghostVars, RecordsBase, PassesGate, Prompts, Settles, FallsBack, RecordsSession,
         SweepsStage, ChecksGreen, StartsFix, EndsFix, ComparesTests, KeepsTests, WritesFlip,
         CommitsFlip, Pushes, RecordsPr, AgentWorks, DeadlinePasses, Dies, Resumes, vars

LEMMA WorkInvInductive == Spec => []WorkInv
<1>1. Init => WorkInv
  <2> SUFFICES ASSUME Init PROVE WorkInv
    OBVIOUS
  <2>1. IInv
    BY TypeInit DEF Init, IInv, MemoryIsDisk, PcFitsStage, PrIsThere, EmptyState, EmptyReport
  <2>2. \A s \in BasedStages : disk.base[s] = NoContent /\ before[s] = NoContent
    BY DEF Init, EmptyState
  <2>3. disk.stage = 0 /\ pc = "begin" /\ agent = 0 /\ tree = head /\ pr = NoPr
        /\ tree.test = "absent"
    BY DEF Init, EmptyState
  <2>4. QED
    BY <2>1, <2>2, <2>3
       DEF WorkInv, AgentFits, CleanBefore, TestAuthored, BooksInOrder, BaseIsTheWorkBefore,
           PrIsHonest, BasedStages, TEST_AUTHOR_STAGE, IMPLEMENT_STAGE, Idle
<1>2. WorkInv /\ [Next]_vars => WorkInv'
  BY TypeStep, MemoryStep, PcStep, PrStep, AgentStep, CleanStep, BaseStep, TestStep, BooksStep,
     HonestStep DEF WorkInv, IInv
<1>3. QED
  BY <1>1, <1>2, PTL DEF Spec

(* The base of stages 3 and 4 is the whole worktree as the stage first     *)
(* began, whatever died in between (_record_base).                         *)
THEOREM BaseHolds == Spec => []BaseIsTheWorkBefore
BY WorkInvInductive, PTL DEF WorkInv

(* A pull request is opened only on green code that keeps the named test   *)
(* and closes the issue, and its body is right about the implementer's     *)
(* edits (_bookkeeping, _open_pr, _pr_body), however often the run dies.   *)
THEOREM PrHolds == Spec => []PrIsHonest
BY WorkInvInductive, PTL DEF WorkInv

-----------------------------------------------------------------------------
(* What a checkpoint stands for                                            *)

(* The spec, from the gate of stage 1 on in a commit, from that of stage 2 *)
(* on the reviewed one.                                                    *)
SpecEarned ==
  /\ disk.stage >= 1 => tree.spec > 0 /\ head.spec > 0
  /\ disk.stage >= SPEC_REVIEW_STAGE => tree.spec = 2

(* HEAD, from the gate of stage 3 on, and then the base of stage 4 differ  *)
(* from what stage 3 began with in the test alone.                         *)
TestsEarned ==
  /\ disk.base[IMPLEMENT_STAGE] = NoContent /\ disk.stage = TEST_AUTHOR_STAGE =>
       Diff(before[TEST_AUTHOR_STAGE], head) = {"test"}
  /\ disk.base[IMPLEMENT_STAGE] # NoContent =>
       Diff(before[TEST_AUTHOR_STAGE], disk.base[IMPLEMENT_STAGE]) = {"test"}

(* The pull request, and an issue that nobody opens again.                 *)
PrEarned ==
  disk.stage >= PR_STAGE => pr # NoPr /\ tree.issue = "done" /\ head.issue = "done"

EarnedInv == SpecEarned /\ TestsEarned /\ PrEarned

LEMMA SpecStep ==
  ASSUME WorkInv, SpecEarned, [Next]_vars
  PROVE  SpecEarned'
<1> USE DEF SpecEarned, WorkInv, IInv, SPEC_REVIEW_STAGE
<1>a. disk.stage \in 0..7 /\ tree \in Contents /\ head \in Contents
  BY DEF TypeOK, States
<1>1. CASE Ending
  BY <1>1, EndingEffect DEF treeVars
<1>2. CASE RecordsBase \/ RecordsSession \/ RecordsPr
  <2>1. disk'.stage = disk.stage
    BY <1>2, CommitEffects
  <2>2. UNCHANGED <<tree, head>>
    BY <1>2 DEF RecordsBase, RecordsSession, RecordsPr, treeVars
  <2> QED BY <2>1, <2>2
<1>3. CASE PassesGate
  <2>1. disk'.stage = disk.stage + 1 /\ UNCHANGED <<tree, head>>
    BY <1>3, CommitEffects DEF PassesGate, treeVars
  <2>2. Stage = disk.stage + 1
    BY <1>3 DEF PassesGate, MemoryIsDisk, Stage
  <2>3. /\ disk.stage = 0 => tree.spec > 0 /\ head.spec > 0
        /\ disk.stage = 1 => tree.spec = 2
    BY <1>3, <2>2, <1>a DEF PassesGate, GatePasses
  <2> QED BY <2>1, <2>3, <1>a
<1>4. CASE SweepsStage \/ EndsFix \/ ComparesTests
  <2>1. UNCHANGED <<disk, tree>> /\ head' \in {head, tree}
    BY <1>4 DEF SweepsStage, EndsFix, ComparesTests, Sweep, treeVars
  <2> QED BY <2>1
<1>5. CASE WritesFlip \/ CommitsFlip
  <2>1. disk' = disk /\ tree'.spec = tree.spec /\ head'.spec = head.spec
    BY <1>5, <1>a DEF WritesFlip, CommitsFlip, Contents
  <2> QED BY <2>1
<1>6. CASE AgentWorks
  <2>1. PICK t \in Contents : Work(agent, t) /\ tree' = t /\ head' \in {head, t}
    BY <1>6 DEF AgentWorks
  <2>2. disk' = disk /\ agent # 0
    BY <1>6 DEF AgentWorks
  <2>3. disk.stage >= 1 => agent # 1
    BY <2>2, <1>a DEF AgentFits, IMPLEMENT_STAGE
  <2>4. agent # 1 => t.spec \in {2, tree.spec}
    BY <2>1, <1>a DEF Work, Contents, TEST_AUTHOR_STAGE, IMPLEMENT_STAGE,
       ADDRESS_COMMENTS_STAGE
  <2> QED BY <2>1, <2>2, <2>3, <2>4, <1>a
<1>7. CASE UNCHANGED <<disk, tree, head>>
  BY <1>7
<1> QED
  BY NextCases, <1>1, <1>2, <1>3, <1>4, <1>5, <1>6, <1>7
     DEF Ending, Begins, Prompts, Settles, FallsBack, ChecksGreen, StartsFix,
         KeepsTests, Pushes, CreatesPr, DeadlinePasses, Dies, Resumes, vars, treeVars

(* Once stage 3 has passed, what it began with is remembered for good.     *)
LEMMA BeforeStays ==
  ASSUME WorkInv, [Next]_vars, disk.stage >= TEST_AUTHOR_STAGE
  PROVE  before'[TEST_AUTHOR_STAGE] = before[TEST_AUTHOR_STAGE]
<1> USE DEF WorkInv, IInv, TEST_AUTHOR_STAGE
<1>1. before[3] # NoContent
  BY DEF CleanBefore, BaseIsTheWorkBefore, BasedStages
<1>2. CASE Begins
  BY <1>1, <1>2 DEF Begins, TypeOK, BasedStages
<1>3. CASE Ending
  BY <1>3, EndingEffect DEF ghostVars
<1>4. CASE before' = before
  BY <1>4
<1> QED
  BY NextCases, <1>2, <1>3, <1>4
     DEF Ending, ghostVars, RecordsBase, PassesGate, Prompts, Settles, FallsBack,
         RecordsSession, SweepsStage, ChecksGreen, StartsFix, EndsFix, ComparesTests,
         KeepsTests, WritesFlip, CommitsFlip, Pushes, CreatesPr, RecordsPr, AgentWorks,
         DeadlinePasses, Dies, Resumes, vars

LEMMA TestsStep ==
  ASSUME WorkInv, TestsEarned, [Next]_vars
  PROVE  TestsEarned'
<1> USE DEF TestsEarned, WorkInv, IInv, IMPLEMENT_STAGE, TEST_AUTHOR_STAGE
<1>a. disk.stage \in 0..7 /\ head # NoContent
  BY DEF TypeOK, States, Contents, NoContent
<1>b. disk.base[4] # NoContent => disk.stage >= 3
  BY <1>a DEF CleanBefore, BasedStages
<1>c. disk.stage >= 3 => before'[3] = before[3]
  BY BeforeStays
<1>d. disk.base[4] = NoContent /\ disk.stage = 3 => tree = head
  BY DEF CleanBefore, BasedStages
<1>1. CASE disk' = disk /\ head' \in {head, tree}
  BY <1>1, <1>b, <1>c, <1>d
<1>2. CASE Ending
  BY <1>1, <1>2, EndingEffect DEF treeVars
<1>3. CASE RecordsBase
  <2>1. /\ head' = head /\ disk'.stage = disk.stage
        /\ \/ disk'.base[4] = disk.base[4]
           \/ disk.base[4] = NoContent /\ disk.stage = 3 /\ disk'.base[4] = head
    BY <1>3, <1>a, CommitEffects DEF RecordsBase, TypeOK, States, BasedStages, treeVars
  <2> QED BY <2>1, <1>a, <1>b, <1>c
<1>4. CASE RecordsSession \/ RecordsPr
  <2>1. disk'.stage = disk.stage /\ disk'.base = disk.base
    BY <1>4, CommitEffects
  <2>2. head' = head
    BY <1>4 DEF RecordsSession, RecordsPr, treeVars
  <2> QED BY <2>1, <2>2, <1>b, <1>c
<1>5. CASE PassesGate
  <2>1. disk'.stage = disk.stage + 1 /\ disk'.base = disk.base /\ UNCHANGED <<head, before>>
    BY <1>5, CommitEffects DEF PassesGate, treeVars, ghostVars
  <2>2. disk.stage = 2 => Diff(before[3], head) = {"test"}
    <3> HAVE disk.stage = 2
    <3>1. Stage = 3 /\ pc = "gate" /\ mem = disk
      BY <1>5 DEF PassesGate, MemoryIsDisk, Stage
    <3>2. GateTestAuthor
      BY <1>5, <3>1 DEF PassesGate, GatePasses
    <3> QED BY <3>1, <3>2 DEF GateTestAuthor, BaseIsTheWorkBefore, BasedStages
  <2> QED BY <2>1, <2>2, <1>a
<1>6. CASE WritesFlip \/ CommitsFlip
  <2>1. disk' = disk /\ disk.stage = 4
    BY <1>6, <1>a DEF WritesFlip, CommitsFlip, PcFitsStage, MemoryIsDisk, Stage, PR_STAGE
  <2>2. disk.base[4] # NoContent
    BY <2>1 DEF CleanBefore, BasedStages
  <2> QED BY <2>1, <2>2, <1>c
<1>7. CASE AgentWorks
  <2>1. disk' = disk /\ agent # 0
    BY <1>7 DEF AgentWorks
  <2>2. disk.stage = 3 => disk.base[4] # NoContent
    BY <2>1 DEF AgentFits, BasedStages
  <2> QED BY <2>1, <2>2, <1>b, <1>c
<1> QED
  BY NextCases, <1>1, <1>2, <1>3, <1>4, <1>5, <1>6, <1>7
     DEF Ending, Begins, Prompts, Settles, FallsBack, SweepsStage, ChecksGreen, StartsFix,
         EndsFix, ComparesTests, Sweep, KeepsTests, Pushes, CreatesPr, DeadlinePasses,
         Dies, Resumes, vars, treeVars

LEMMA PrStepEarned ==
  ASSUME WorkInv, PrEarned, [Next]_vars
  PROVE  PrEarned'
<1> USE DEF PrEarned, WorkInv, IInv, PR_STAGE
<1>a. disk.stage \in 0..7 /\ tree \in Contents /\ head \in Contents
  BY DEF TypeOK, States
<1>1. CASE Ending
  BY <1>1, EndingEffect DEF treeVars
<1>2. CASE RecordsBase \/ RecordsSession \/ RecordsPr
  <2>1. disk'.stage = disk.stage
    BY <1>2, CommitEffects
  <2>2. UNCHANGED <<tree, head, pr>>
    BY <1>2 DEF RecordsBase, RecordsSession, RecordsPr, treeVars
  <2> QED BY <2>1, <2>2
<1>3. CASE PassesGate
  <2>1. disk'.stage = disk.stage + 1 /\ UNCHANGED <<tree, head, pr>>
    BY <1>3, CommitEffects DEF PassesGate, treeVars
  <2>2. disk.stage = 4 => disk.pr /\ IssueCommittedDone
    BY <1>3, <1>a DEF PassesGate, GatePasses, MemoryIsDisk, Stage
  <2> QED BY <2>1, <2>2, <1>a DEF PrIsThere, IssueCommittedDone
<1>4. CASE SweepsStage \/ EndsFix \/ ComparesTests
  <2>1. UNCHANGED <<disk, tree, pr>> /\ head' \in {head, tree}
    BY <1>4 DEF SweepsStage, EndsFix, ComparesTests, Sweep, treeVars
  <2> QED BY <2>1
<1>5. CASE WritesFlip \/ CommitsFlip \/ CreatesPr
  <2>1. disk' = disk /\ disk.stage = 4
    BY <1>5, <1>a DEF WritesFlip, CommitsFlip, CreatesPr, PcFitsStage, MemoryIsDisk, Stage
  <2> QED BY <2>1
<1>6. CASE AgentWorks
  <2>1. PICK t \in Contents : Work(agent, t) /\ tree' = t /\ head' \in {head, t}
    BY <1>6 DEF AgentWorks
  <2>2. UNCHANGED <<disk, pr>>
    BY <1>6 DEF AgentWorks
  <2>3. t.issue = tree.issue
    BY <2>1, <1>a DEF Work, Contents
  <2> QED BY <2>1, <2>2, <2>3
<1>7. CASE UNCHANGED <<disk, tree, head, pr>>
  BY <1>7
<1> QED
  BY NextCases, <1>1, <1>2, <1>3, <1>4, <1>5, <1>6, <1>7
     DEF Ending, Begins, Prompts, Settles, FallsBack, ChecksGreen, StartsFix,
         KeepsTests, Pushes, DeadlinePasses, Dies, Resumes, vars, treeVars

(* What a checkpoint says was done is in the repository, so that a resumed *)
(* run may skip the stages it names (issue 068).                           *)
THEOREM CheckpointsHold == Spec => []CheckpointsAreEarned
<1>1. Init => EarnedInv
  BY DEF Init, EmptyState, EarnedInv, SpecEarned, TestsEarned, PrEarned, SPEC_REVIEW_STAGE,
     TEST_AUTHOR_STAGE, IMPLEMENT_STAGE, PR_STAGE, BasedStages
<1>2. WorkInv /\ EarnedInv /\ [Next]_vars => EarnedInv'
  BY SpecStep, TestsStep, PrStepEarned DEF EarnedInv
<1>3. EarnedInv => CheckpointsAreEarned
  BY DEF EarnedInv, SpecEarned, TestsEarned, PrEarned, CheckpointsAreEarned
<1> QED BY <1>1, <1>2, <1>3, WorkInvInductive, PTL DEF Spec

-----------------------------------------------------------------------------
(* A night runs out of steps.  EveryNightIsReported adds to this that the  *)
(* steps there are get taken, which fairness says.                         *)

(* Where the process is within a stage; a fix round takes three steps, the *)
(* CI check, the fix and the model's failure between them.                 *)
Fallen == IF kind = "first" THEN 0 ELSE 1
ChecksEnd == 3 * MaxFixRounds + 10
Place ==
  CASE pc \in {"off", "begin"} -> 0
    [] pc = "base" -> 1
    [] pc = "start" -> 2
    [] pc = "work" -> 3 + Fallen
    [] pc = "record" -> 5
    [] pc = "sweep" -> 6
    [] pc = "check" -> 7 + 3 * round
    [] pc = "fix" -> 8 + 3 * round + Fallen
    [] pc = "books" -> ChecksEnd
    [] pc = "compare" -> ChecksEnd + 1
    [] pc = "flip" -> ChecksEnd + (IF IssueCommittedDone THEN 4 ELSE 2)
    [] pc = "commitFlip" -> ChecksEnd + 3
    [] pc = "create" -> ChecksEnd + 5
    [] pc = "recordPr" -> ChecksEnd + 6
    [] pc = "gate" -> ChecksEnd + 7

(* The steps of a stage, and of a life: eight stages counting the one that *)
(* ends the run, the deadline between any two of them, and death.          *)
StageSteps == ChecksEnd + 8
LifeSteps == 16 * StageSteps + 2

Spent ==
  IF pc = "off" THEN LifeSteps - 2 + (IF late THEN 1 ELSE 0)
  ELSE 2 * (disk.stage * StageSteps + Place) + (IF late THEN 1 ELSE 0)

StepsLeft ==
  IF report # EmptyReport THEN IF late THEN 0 ELSE 1
  ELSE (MaxResumes + 1 - life) * LifeSteps - Spent + 1

SpentInv ==
  /\ Place \in 0..(StageSteps - 1)
  /\ Spent \in 0..(LifeSteps - 1)
  /\ pc # "off" => Spent < LifeSteps - 2

LEMMA StepCounts ==
  /\ ChecksEnd \in Nat /\ StageSteps \in Nat /\ LifeSteps \in Nat
  /\ ChecksEnd = 3 * MaxFixRounds + 10 /\ StageSteps = ChecksEnd + 8
  /\ LifeSteps = 16 * StageSteps + 2
BY StagesAssumption DEF ChecksEnd, StageSteps, LifeSteps

LEMMA PlaceBound == ASSUME TypeOK, PcFitsStage PROVE Place \in 0..(StageSteps - 1)
<1>1. Fallen \in {0, 1} /\ round \in Nat /\ round <= MaxFixRounds /\ MaxFixRounds \in Nat
  BY StagesAssumption DEF TypeOK, Fallen
<1>2. pc = "fix" => round + 1 <= MaxFixRounds
  BY <1>1 DEF PcFitsStage
<1>3. pc \in {"off", "begin"} => Place = 0
  BY DEF Place
<1>4. /\ pc = "base" => Place = 1
      /\ pc = "start" => Place = 2
      /\ pc = "work" => Place = 3 + Fallen
      /\ pc = "record" => Place = 5
      /\ pc = "sweep" => Place = 6
  BY DEF Place
<1>5. /\ pc = "check" => Place = 7 + 3 * round
      /\ pc = "fix" => Place = 8 + 3 * round + Fallen
  BY DEF Place
<1>6. /\ pc = "books" => Place = ChecksEnd
      /\ pc = "compare" => Place = ChecksEnd + 1
      /\ pc = "flip" => Place \in {ChecksEnd + 2, ChecksEnd + 4}
      /\ pc = "commitFlip" => Place = ChecksEnd + 3
  BY DEF Place
<1>7. /\ pc = "create" => Place = ChecksEnd + 5
      /\ pc = "recordPr" => Place = ChecksEnd + 6
      /\ pc = "gate" => Place = ChecksEnd + 7
  BY DEF Place
<1> QED BY <1>1, <1>2, <1>3, <1>4, <1>5, <1>6, <1>7, StepCounts DEF TypeOK

LEMMA SpentBound == TypeOK /\ PcFitsStage => SpentInv
<1> SUFFICES ASSUME TypeOK, PcFitsStage PROVE SpentInv
  OBVIOUS
<1>1. Place \in 0..(StageSteps - 1) /\ StageSteps \in Nat /\ disk.stage \in 0..7
  BY PlaceBound, StepCounts DEF TypeOK, States
<1>2. /\ disk.stage * StageSteps \in Nat
      /\ disk.stage * StageSteps + Place <= 8 * StageSteps - 1
  <2>1. \A n \in 0..7 : n * StageSteps \in Nat /\ n * StageSteps <= 7 * StageSteps
    BY <1>1
  <2> QED BY <1>1, <2>1
<1> QED BY <1>1, <1>2, StepCounts DEF Spent, SpentInv

(* What the lives to come may take; each takes LifeSteps.                  *)
LivesLeft == (MaxResumes + 1 - life) * LifeSteps

LEMMA LivesBound ==
  ASSUME TypeOK
  PROVE  /\ LivesLeft \in Nat /\ (MaxResumes + 1) * LifeSteps \in Nat
         /\ LifeSteps <= LivesLeft /\ LivesLeft <= (MaxResumes + 1) * LifeSteps
<1>1. PICK m \in Nat : m = LifeSteps
  BY StepCounts
<1>2. PICK k \in Nat : MaxResumes + 1 - life = k + 1
  <2>1. MaxResumes - life \in Nat /\ MaxResumes + 1 - life = (MaxResumes - life) + 1
    BY StagesAssumption DEF TypeOK
  <2> QED BY <2>1
<1>3. life \in Nat /\ MaxResumes + 1 = (k + 1) + life
  BY <1>2, StagesAssumption DEF TypeOK
<1>4. k * m \in Nat /\ life * m \in Nat /\ (k + 1) * m = k * m + m
      /\ ((k + 1) + life) * m = k * m + m + life * m
  BY <1>1, <1>2, <1>3
<1>5. LivesLeft = (k + 1) * m /\ (MaxResumes + 1) * LifeSteps = ((k + 1) + life) * m
  BY <1>1, <1>2, <1>3 DEF LivesLeft
<1> QED BY <1>1, <1>4, <1>5

LEMMA StepsLeftBound ==
  ASSUME TypeOK, SpentInv
  PROVE  /\ StepsLeft \in 0..((MaxResumes + 1) * LifeSteps + 1)
         /\ report = EmptyReport => StepsLeft > 1
<1>1. StepsLeft = IF report # EmptyReport THEN IF late THEN 0 ELSE 1 ELSE LivesLeft - Spent + 1
  BY DEF StepsLeft, LivesLeft
<1> QED BY <1>1, LivesBound, StepCounts DEF SpentInv

(* One step further in a life leaves one step less.                        *)
LEMMA SpendsOne ==
  ASSUME TypeOK, SpentInv, SpentInv', report = EmptyReport, report' = report,
         life' = life, Spent' > Spent
  PROVE  StepsLeft' < StepsLeft
<1>1. StepsLeft = LivesLeft - Spent + 1 /\ StepsLeft' = LivesLeft - Spent' + 1
  BY DEF StepsLeft, LivesLeft, LifeSteps, StageSteps, ChecksEnd
<1>2. Spent' \in 0..(LifeSteps - 1)
  BY DEF SpentInv, LifeSteps, StageSteps, ChecksEnd
<1> QED BY <1>1, <1>2, LivesBound, StepCounts DEF SpentInv

(* So does a later place in the same stage, and the next stage.            *)
LEMMA MovesOn ==
  ASSUME TypeOK, SpentInv, SpentInv', pc # "off", pc' # "off", late' = late,
         \/ disk'.stage = disk.stage /\ Place' > Place
         \/ disk'.stage = disk.stage + 1
  PROVE  Spent' > Spent
<1>1. /\ Place \in 0..(StageSteps - 1) /\ Place' \in 0..(StageSteps - 1)
      /\ StageSteps \in Nat /\ disk.stage \in 0..7
  BY StepCounts DEF SpentInv, TypeOK, States, StageSteps, ChecksEnd
<1>2. /\ Spent = 2 * (disk.stage * StageSteps + Place) + (IF late THEN 1 ELSE 0)
      /\ Spent' = 2 * (disk'.stage * StageSteps + Place') + (IF late THEN 1 ELSE 0)
  BY DEF Spent, StageSteps, ChecksEnd
<1>3. disk.stage * StageSteps \in Nat
      /\ (disk.stage + 1) * StageSteps = disk.stage * StageSteps + StageSteps
  BY <1>1
<1> QED BY <1>1, <1>2, <1>3

(* Within a stage every step of the process comes to a later place.        *)
InStage ==
  \/ Begins \/ RecordsBase \/ Prompts \/ Settles \/ FallsBack \/ RecordsSession \/ SweepsStage
  \/ ChecksGreen \/ StartsFix \/ EndsFix \/ ComparesTests \/ KeepsTests \/ WritesFlip
  \/ CommitsFlip \/ Pushes \/ CreatesPr \/ RecordsPr

LEMMA InStageMovesOn ==
  ASSUME WorkInv, InStage
  PROVE  /\ pc # "off" /\ pc' # "off" /\ disk'.stage = disk.stage /\ Place' > Place
         /\ UNCHANGED <<life, late, report>>
<1> DEFINE Onward == /\ pc # "off" /\ pc' # "off" /\ disk'.stage = disk.stage /\ Place' > Place
                     /\ UNCHANGED <<life, late, report>>
<1>1. /\ round \in Nat /\ round <= MaxFixRounds /\ kind \in {"first", "fallback"}
      /\ MaxFixRounds \in Nat /\ ChecksEnd = 3 * MaxFixRounds + 10 /\ TypeOK /\ IInv
  BY StepCounts, StagesAssumption DEF WorkInv, IInv, TypeOK
<1>2. CASE Begins
  <2>1. Place = 0 /\ Place' \in {1, 2, 7}
    BY <1>2 DEF Begins, Place
  <2> QED BY <1>2, <2>1 DEF Begins
<1>3. CASE RecordsBase
  <2>1. Place = 1 /\ Place' = 2
    BY <1>3 DEF RecordsBase, Place
  <2> QED BY <1>1, <1>3, <2>1, CommitEffects DEF RecordsBase
<1>4. CASE Prompts
  <2>1. Place = 2 /\ Place' \in {3, 4}
    BY <1>1, <1>4 DEF Prompts, Place, Fallen
  <2> QED BY <1>4, <2>1 DEF Prompts
<1>5. CASE Settles
  <2>1. Place \in {3, 4} /\ Place' = 5
    BY <1>5 DEF Settles, Place, Fallen
  <2> QED BY <1>5, <2>1 DEF Settles
<1>6. CASE FallsBack
  <2>1. CASE pc = "work"
    <3>1. Place = 3 /\ Place' = 4
      BY <1>6, <2>1 DEF FallsBack, Place, Fallen
    <3> QED BY <1>6, <3>1 DEF FallsBack
  <2>2. CASE pc = "fix"
    <3>1. Place = 8 + 3 * round + 0 /\ Place' = 8 + 3 * round + 1
      BY <1>6, <2>2 DEF FallsBack, Place, Fallen
    <3> QED BY <1>1, <1>6, <3>1 DEF FallsBack
  <2> QED BY <1>6, <2>1, <2>2 DEF FallsBack
<1>7. CASE RecordsSession
  <2>1. Place = 5 /\ Place' = 6
    BY <1>7 DEF RecordsSession, Place
  <2> QED BY <1>1, <1>7, <2>1, CommitEffects DEF RecordsSession
<1>8. CASE SweepsStage
  <2>1. Place = 6 /\ Place' = ChecksEnd + 7
    BY <1>8 DEF SweepsStage, Place, ChecksEnd
  <2> QED BY <1>1, <1>8, <2>1 DEF SweepsStage
<1>9. CASE ChecksGreen
  <2>1. Place = 7 + 3 * round /\ Place' = ChecksEnd
    BY <1>9 DEF ChecksGreen, Place, ChecksEnd
  <2> QED BY <1>1, <1>9, <2>1 DEF ChecksGreen
<1>10. CASE StartsFix
  <2>1. Place = 7 + 3 * round /\ Place' = 8 + 3 * round + 0
    BY <1>10 DEF StartsFix, Place, Fallen
  <2> QED BY <1>1, <1>10, <2>1 DEF StartsFix
<1>11. CASE EndsFix
  <2>1. Place \in {8 + 3 * round + 0, 8 + 3 * round + 1} /\ Place' = 7 + 3 * (round + 1)
    BY <1>11 DEF EndsFix, Place, Fallen
  <2> QED BY <1>1, <1>11, <2>1 DEF EndsFix
<1>12. CASE ComparesTests
  <2>1. Place = ChecksEnd /\ Place' = ChecksEnd + 1
    BY <1>12 DEF ComparesTests, Place, ChecksEnd
  <2> QED BY <1>1, <1>12, <2>1 DEF ComparesTests
<1>13. CASE KeepsTests
  <2>1. Place = ChecksEnd + 1 /\ Place' \in {ChecksEnd + 2, ChecksEnd + 4}
    BY <1>13 DEF KeepsTests, Place, ChecksEnd
  <2> QED BY <1>1, <1>13, <2>1 DEF KeepsTests
<1>14. CASE WritesFlip
  <2>1. Place = ChecksEnd + 2 /\ Place' = ChecksEnd + 3
    BY <1>14 DEF WritesFlip, Place, ChecksEnd
  <2> QED BY <1>1, <1>14, <2>1 DEF WritesFlip
<1>15. CASE CommitsFlip
  (* What was written is what is committed: the issue is done.             *)
  <2>1. IssueCommittedDone'
    BY <1>1, <1>15 DEF CommitsFlip, WorkInv, BooksInOrder, IssueCommittedDone, TypeOK, Contents
  <2>2. Place = ChecksEnd + 3 /\ Place' = ChecksEnd + 4
    BY <1>15, <2>1 DEF CommitsFlip, Place, ChecksEnd
  <2> QED BY <1>1, <1>15, <2>2 DEF CommitsFlip
<1>16. CASE Pushes
  <2>1. Place = ChecksEnd + 4 /\ Place' = ChecksEnd + 5
    BY <1>16 DEF Pushes, Place, ChecksEnd
  <2> QED BY <1>1, <1>16, <2>1 DEF Pushes
<1>17. CASE CreatesPr
  <2>1. Place = ChecksEnd + 5 /\ Place' = ChecksEnd + 6
    BY <1>17 DEF CreatesPr, Place, ChecksEnd
  <2> QED BY <1>1, <1>17, <2>1 DEF CreatesPr
<1>18. CASE RecordsPr
  <2>1. Place = ChecksEnd + 6 /\ Place' = ChecksEnd + 7
    BY <1>18 DEF RecordsPr, Place, ChecksEnd
  <2> QED BY <1>1, <1>18, <2>1, CommitEffects DEF RecordsPr
<1> QED
  BY <1>2, <1>3, <1>4, <1>5, <1>6, <1>7, <1>8, <1>9, <1>10, <1>11, <1>12, <1>13, <1>14, <1>15,
     <1>16, <1>17, <1>18 DEF InStage

LEMMA StepSpends ==
  ASSUME WorkInv, SpentInv, SpentInv', Next
  PROVE  StepsLeft' < StepsLeft \/ (AgentWorks /\ UNCHANGED StepsLeft)
<1> USE DEF EmptyReport
<1>1. TypeOK /\ MemoryIsDisk /\ AgentFits /\ (pc # "off" => report = EmptyReport)
  BY DEF WorkInv, IInv, MemoryIsDisk
<1>2. report = EmptyReport => StepsLeft > 1 /\ StepsLeft \in Nat
  BY <1>1, StepsLeftBound, LivesBound, StepCounts
<1>3. CASE InStage
  BY <1>1, <1>3, InStageMovesOn, MovesOn, SpendsOne
<1>4. CASE PassesGate
  <2>1. /\ pc # "off" /\ pc' # "off" /\ disk'.stage = disk.stage + 1
        /\ UNCHANGED <<life, late, report>>
    BY <1>4, CommitEffects DEF PassesGate, WorkInv
  <2> QED BY <1>1, <2>1, MovesOn, SpendsOne
<1>5. CASE Ending
  <2>1. report = EmptyReport
    BY <1>1, <1>5 DEF Ending, StopsAtDeadline, Completes, FailsGate, Aborts, GivesUpFixing,
       StopsFixing, LosesTests, Reaps
  <2>2. report' # EmptyReport
    BY <1>5, EndingEffect
  <2>3. StepsLeft' \in {0, 1}
    BY <2>2 DEF StepsLeft
  <2> QED BY <1>2, <2>1, <2>3
<1>6. CASE Dies
  <2>1. report = EmptyReport /\ UNCHANGED <<report, life, late>> /\ pc # "off" /\ pc' = "off"
    BY <1>1, <1>6 DEF Dies
  <2>2. Spent' \in {LifeSteps - 2, LifeSteps - 1}
    BY <2>1, StepCounts DEF Spent, LifeSteps, StageSteps, ChecksEnd
  <2>3. Spent' > Spent
    BY <2>1, <2>2, StepCounts DEF SpentInv
  <2> QED BY <1>1, <2>1, <2>3, SpendsOne
<1>7. CASE Resumes
  <2>1. report = EmptyReport /\ report' = report /\ life' = life + 1 /\ life < MaxResumes
    BY <1>7 DEF Resumes
  <2>2. /\ StepsLeft = (MaxResumes + 1 - life) * LifeSteps - Spent + 1
        /\ StepsLeft' = (MaxResumes + 1 - (life + 1)) * LifeSteps - Spent' + 1
    BY <2>1 DEF StepsLeft, LifeSteps, StageSteps, ChecksEnd
  <2>3. Spent' \in 0..(LifeSteps - 1) /\ Spent \in 0..(LifeSteps - 1)
    BY DEF SpentInv, LifeSteps, StageSteps, ChecksEnd
  <2>4. PICK k \in Nat : MaxResumes - life = k
    BY <1>1, <2>1, StagesAssumption DEF TypeOK
  <2>5. MaxResumes + 1 - life = k + 1 /\ MaxResumes + 1 - (life + 1) = k
    BY <1>1, <2>4, StagesAssumption DEF TypeOK
  <2>6. (k + 1) * LifeSteps = k * LifeSteps + LifeSteps /\ k * LifeSteps \in Nat
    BY <2>4, StepCounts
  <2> QED BY <2>2, <2>3, <2>5, <2>6, StepCounts
<1>8. CASE DeadlinePasses
  <2>1. ~late /\ late' /\ UNCHANGED <<report, life, disk, pc, round, kind, tree, head>>
    BY <1>8 DEF DeadlinePasses, procVars, treeVars
  <2>2. CASE report = EmptyReport
    <3>1. Place' = Place
      BY <2>1 DEF Place, Fallen, ChecksEnd, IssueCommittedDone
    <3>2. Spent' = Spent + 1
      BY <2>1, <3>1, <1>1, StepCounts DEF Spent, LifeSteps, StageSteps, ChecksEnd, SpentInv,
         TypeOK, States
    <3>3. Spent' > Spent
      BY <3>2, StepCounts DEF SpentInv
    <3> QED BY <1>1, <2>1, <2>2, <3>3, SpendsOne
  <2>3. CASE report # EmptyReport
    BY <2>1, <2>3 DEF StepsLeft
  <2> QED BY <2>2, <2>3
<1>9. CASE AgentWorks
  <2>1. pc \in {"off", "work", "fix"} /\ UNCHANGED <<report, life, late, disk, pc, round, kind>>
    BY <1>1, <1>9 DEF AgentWorks, AgentFits, Idle, procVars
  <2>2. Place' = Place
    BY <2>1 DEF Place, Fallen
  <2>3. UNCHANGED StepsLeft
    BY <2>1, <2>2 DEF StepsLeft, Spent, LifeSteps, StageSteps, ChecksEnd
  <2> QED BY <1>9, <2>3
<1> QED
  BY NextCases, <1>3, <1>4, <1>5, <1>6, <1>7, <1>8, <1>9 DEF InStage, Ending

(* A night ends: StepsLeft is a natural number, and every step of the      *)
(* process, the clock, death and the watchdog takes it down, while the     *)
(* agent's edits leave it alone.  No fix round, fallback, replay or resume *)
(* of run_pipeline goes uncounted.                                         *)
StepsRunOut == [][StepsLeft' < StepsLeft \/ (AgentWorks /\ UNCHANGED StepsLeft)]_vars
StepsAreBounded == StepsLeft \in 0..((MaxResumes + 1) * LifeSteps + 1)

THEOREM NightRunsOut == Spec => []StepsAreBounded /\ StepsRunOut
<1>1. WorkInv => SpentInv /\ StepsAreBounded
  BY SpentBound, StepsLeftBound DEF WorkInv, IInv, StepsAreBounded
<1>2. WorkInv /\ SpentInv /\ SpentInv' /\ [Next]_vars
        => [StepsLeft' < StepsLeft \/ (AgentWorks /\ UNCHANGED StepsLeft)]_vars
  BY StepSpends
<1> QED BY <1>1, <1>2, WorkInvInductive, PTL DEF Spec, StepsRunOut
=============================================================================

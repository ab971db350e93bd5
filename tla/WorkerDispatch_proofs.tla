------------------------ MODULE WorkerDispatch_proofs ------------------------
(***************************************************************************)
(* The budgets and the watermark of WorkerDispatch, for any number of      *)
(* targets, any budget and cap, and any amount of trouble.                 *)
(***************************************************************************)
EXTENDS WorkerDispatch, FiniteSetTheorems, TLAPS

USE DEF worldVars, historyVars, passVars, countVars, None, Inc, NoTarget, EventModes, AllModes

LEMMA OldestSub ==
  ASSUME NEW n, NEW S
  PROVE  Oldest(n, S) \subseteq S
BY DEF Oldest

LEMMA CandidatesIn ==
  ASSUME NEW S
  PROVE  /\ EventCandidates(S) \subseteq S
         /\ \A t \in EventCandidates(S) : ~Exhausted(t)
<1>1. EventCandidates(S) \subseteq {t \in S \ marked : ~Exhausted(t)}
  BY OldestSub DEF EventCandidates
<1> QED BY <1>1

LEMMA TroubleGrows ==
  ASSUME TypeOK, Interferes
  PROVE  trouble' \in 0..Trouble
BY DispatchAssumption DEF Interferes, TypeOK, WorldTypeOK

(* A target queued after its marker was looked at had none.                *)
LEMMA LookedAt ==
  ASSUME NEW U, NEW t \in ReviewCandidates(U), t \in ReviewWindow, t \notin U
  PROVE  t \notin posted
<1> DEFINE kept == {u \in ReviewWindow : u \in U \/ u \notin posted}
           rest == {u \in open : ~Exhausted(u)} \ ReviewWindow
<1>1. ReviewCandidates(U) = Oldest(Cap, kept \cup rest)
  BY DEF ReviewCandidates
<1>2. t \in kept \cup rest
  BY <1>1, OldestSub
<1> QED BY <1>2

----------------------------------------------------------------------------
(* The type invariant.                                                     *)

LEMMA EventType ==
  ASSUME TypeOK, EventBegins
  PROVE  PassTypeOK'
<1>1. queue' \subseteq Targets
  <2>1. CASE pc' = "idle"
    BY <2>1 DEF EventBegins, TypeOK, PassTypeOK
  <2>2. CASE pc' # "idle"
    <3>1. queue' = EventCandidates(open)
      BY <2>2 DEF EventBegins
    <3> QED BY <3>1, CandidatesIn DEF TypeOK, WorldTypeOK
  <2> QED BY <2>1, <2>2
<1>2. pc' \in {"idle", "loop"} /\ cur' = NoTarget
  BY DEF EventBegins, TypeOK, PassTypeOK
<1>3. marked' \subseteq Targets
  BY DEF EventBegins, TypeOK, PassTypeOK, WorldTypeOK
<1> QED BY <1>1, <1>2, <1>3 DEF EventBegins, TypeOK, PassTypeOK, WorldTypeOK

LEMMA CrashType ==
  ASSUME TypeOK, Crash
  PROVE  WorldTypeOK'
<1>1. trouble' \in 0..Trouble
  BY TroubleGrows DEF Crash, Fault
<1>2. UNCHANGED <<mode, open, posted, badRef>>
  BY DEF Crash
<1>3. orphan' \in [Targets -> {"none", "working", "blocked"}]
  <2>1. CASE pc = "working"
    <3>1. PICK s \in {orphan[cur], "working"} : orphan' = [orphan EXCEPT ![cur] = s]
      BY <2>1 DEF Crash
    <3>2. cur \in Targets
      BY <2>1 DEF TypeOK, PassTypeOK
    <3> QED BY <3>1, <3>2 DEF TypeOK, WorldTypeOK
  <2>2. CASE pc # "working"
    BY <2>2 DEF Crash, TypeOK, WorldTypeOK
  <2> QED BY <2>1, <2>2
<1>4. dirty' \subseteq Targets
  BY DEF Crash, TypeOK, WorldTypeOK, PassTypeOK
<1> QED BY <1>1, <1>2, <1>3, <1>4 DEF TypeOK, WorldTypeOK

LEMMA NextType ==
  ASSUME TypeOK, [Next]_vars
  PROVE  TypeOK'
<1> USE DispatchAssumption DEF TypeOK
<1>1. CASE EventBegins
  <2>1. WorldTypeOK'
    BY <1>1, OldestSub DEF EventBegins, EventCandidates, WorldTypeOK, PassTypeOK
  <2>2. PassTypeOK'
    BY <1>1, EventType
  <2>3. CountTypeOK'
    BY <1>1, OldestSub DEF EventBegins, EventCandidates, WorldTypeOK, PassTypeOK, CountTypeOK
  <2> QED BY <2>1, <2>2, <2>3
<1>2. CASE PrBegins
  <2>1. WorldTypeOK'
    BY <1>2, OldestSub DEF PrBegins, Begins, PrCandidates, Fault, Interferes, WorldTypeOK,
         PassTypeOK
  <2>2. PassTypeOK'
    BY <1>2, OldestSub DEF PrBegins, Begins, PrCandidates, Fault, Interferes, WorldTypeOK,
         PassTypeOK
  <2>3. CountTypeOK'
    BY <1>2, OldestSub DEF PrBegins, Begins, PrCandidates, Fault, Interferes, WorldTypeOK,
         PassTypeOK, CountTypeOK
  <2> QED BY <2>1, <2>2, <2>3
<1>3. CASE BaseBegins
  <2>1. WorldTypeOK'
    BY <1>3 DEF BaseBegins, Begins, WorldTypeOK, PassTypeOK
  <2>2. PassTypeOK'
    BY <1>3 DEF BaseBegins, Begins, WorldTypeOK, PassTypeOK
  <2>3. CountTypeOK'
    BY <1>3 DEF BaseBegins, Begins, WorldTypeOK, PassTypeOK, CountTypeOK
  <2> QED BY <2>1, <2>2, <2>3
<1>4. CASE ReviewBegins
  <2>1. WorldTypeOK'
    BY <1>4, OldestSub DEF ReviewBegins, Begins, ReviewWindow, ReviewCandidates, Fault,
         Interferes, WorldTypeOK, PassTypeOK
  <2>2. PassTypeOK'
    BY <1>4, OldestSub DEF ReviewBegins, Begins, ReviewWindow, ReviewCandidates, Fault,
         Interferes, WorldTypeOK, PassTypeOK
  <2>3. CountTypeOK'
    BY <1>4, OldestSub DEF ReviewBegins, Begins, ReviewWindow, ReviewCandidates, Fault,
         Interferes, WorldTypeOK, PassTypeOK, CountTypeOK
  <2> QED BY <2>1, <2>2, <2>3
<1>5. CASE Reconciles
  <2>1. WorldTypeOK'
    BY <1>5 DEF Reconciles, WorldTypeOK, PassTypeOK
  <2>2. PassTypeOK'
    BY <1>5 DEF Reconciles, WorldTypeOK, PassTypeOK
  <2>3. CountTypeOK'
    BY <1>5 DEF Reconciles, WorldTypeOK, PassTypeOK, CountTypeOK
  <2> QED BY <2>1, <2>2, <2>3
<1>6. CASE BeginFails
  <2>1. WorldTypeOK'
    BY <1>6 DEF BeginFails, Fault, Interferes, WorldTypeOK, PassTypeOK
  <2>2. PassTypeOK'
    BY <1>6 DEF BeginFails, Fault, Interferes, WorldTypeOK, PassTypeOK
  <2>3. CountTypeOK'
    BY <1>6 DEF BeginFails, Fault, Interferes, WorldTypeOK, PassTypeOK, CountTypeOK
  <2> QED BY <2>1, <2>2, <2>3
<1>7. CASE WorkerDone
  <2>1. WorldTypeOK'
    BY <1>7 DEF WorkerDone, Records, Counted, WorldTypeOK, PassTypeOK
  <2>2. PassTypeOK'
    BY <1>7 DEF WorkerDone, Records, Counted, WorldTypeOK, PassTypeOK
  <2>3. CountTypeOK'
    BY <1>7 DEF WorkerDone, Records, Counted, WorldTypeOK, PassTypeOK, CountTypeOK
  <2> QED BY <2>1, <2>2, <2>3
<1>8. CASE WorkerFails
  <2>1. WorldTypeOK'
    BY <1>8 DEF WorkerFails, Records, Counted, WorldTypeOK, PassTypeOK
  <2>2. PassTypeOK'
    BY <1>8 DEF WorkerFails, Records, Counted, WorldTypeOK, PassTypeOK
  <2>3. CountTypeOK'
    BY <1>8 DEF WorkerFails, Records, Counted, WorldTypeOK, PassTypeOK, CountTypeOK
  <2> QED BY <2>1, <2>2, <2>3
<1>9. CASE ReviewDone
  <2>1. WorldTypeOK'
    BY <1>9 DEF ReviewDone, Records, Counted, Posts, WorldTypeOK, PassTypeOK
  <2>2. PassTypeOK'
    BY <1>9 DEF ReviewDone, Records, Counted, Posts, WorldTypeOK, PassTypeOK
  <2>3. CountTypeOK'
    BY <1>9 DEF ReviewDone, Records, Counted, Posts, WorldTypeOK, PassTypeOK, CountTypeOK
  <2> QED BY <2>1, <2>2, <2>3
<1>10. CASE ReviewUnclear
  <2>1. WorldTypeOK'
    BY <1>10 DEF ReviewUnclear, Records, Counted, Posts, WorldTypeOK, PassTypeOK
  <2>2. PassTypeOK'
    BY <1>10 DEF ReviewUnclear, Records, Counted, Posts, WorldTypeOK, PassTypeOK
  <2>3. CountTypeOK'
    BY <1>10 DEF ReviewUnclear, Records, Counted, Posts, WorldTypeOK, PassTypeOK, CountTypeOK
  <2> QED BY <2>1, <2>2, <2>3
<1>11. CASE ReviewBlocks
  <2>1. WorldTypeOK'
    BY <1>11 DEF ReviewBlocks, Records, Counted, WorldTypeOK, PassTypeOK
  <2>2. PassTypeOK'
    BY <1>11 DEF ReviewBlocks, Records, Counted, WorldTypeOK, PassTypeOK
  <2>3. CountTypeOK'
    BY <1>11 DEF ReviewBlocks, Records, Counted, WorldTypeOK, PassTypeOK, CountTypeOK
  <2> QED BY <2>1, <2>2, <2>3
<1>12. CASE ReviewKilled
  <2>1. WorldTypeOK'
    BY <1>12, TroubleGrows DEF ReviewKilled, Records, Posts, Fault, WorldTypeOK, PassTypeOK
  <2>2. PassTypeOK'
    BY <1>12 DEF ReviewKilled, Records, Posts, Fault, Interferes, WorldTypeOK, PassTypeOK
  <2>3. CountTypeOK'
    BY <1>12 DEF ReviewKilled, Records, Posts, Fault, Interferes, WorldTypeOK, PassTypeOK,
         CountTypeOK
  <2> QED BY <2>1, <2>2, <2>3
<1>13. CASE PassEnds
  <2>1. WorldTypeOK'
    BY <1>13 DEF PassEnds, Watermark, WorldTypeOK, PassTypeOK
  <2>2. PassTypeOK'
    BY <1>13 DEF PassEnds, Watermark, WorldTypeOK, PassTypeOK
  <2>3. CountTypeOK'
    BY <1>13 DEF PassEnds, Watermark, WorldTypeOK, PassTypeOK, CountTypeOK
  <2> QED BY <2>1, <2>2, <2>3
<1>14. CASE Crash
  <2>1. WorldTypeOK'
    BY <1>14, CrashType
  <2>2. PassTypeOK'
    BY <1>14 DEF Crash, Fault, Interferes, WorldTypeOK, PassTypeOK
  <2>3. CountTypeOK'
    BY <1>14 DEF Crash, Fault, Interferes, WorldTypeOK, PassTypeOK, CountTypeOK
  <2> QED BY <2>1, <2>2, <2>3
<1>15. ASSUME NEW t \in Targets, SkipsExhausted(t) PROVE TypeOK'
  <2>1. WorldTypeOK'
    BY <1>15 DEF SkipsExhausted, Skips, IsNext, WorldTypeOK, PassTypeOK
  <2>2. PassTypeOK'
    BY <1>15 DEF SkipsExhausted, Skips, IsNext, WorldTypeOK, PassTypeOK
  <2>3. CountTypeOK'
    BY <1>15 DEF SkipsExhausted, Skips, IsNext, WorldTypeOK, PassTypeOK, CountTypeOK
  <2> QED BY <2>1, <2>2, <2>3
<1>16. ASSUME NEW t \in Targets, SkipsLive(t) PROVE TypeOK'
  <2>1. WorldTypeOK'
    BY <1>16 DEF SkipsLive, Skips, IsNext, WorldTypeOK, PassTypeOK
  <2>2. PassTypeOK'
    BY <1>16 DEF SkipsLive, Skips, IsNext, WorldTypeOK, PassTypeOK
  <2>3. CountTypeOK'
    BY <1>16 DEF SkipsLive, Skips, IsNext, WorldTypeOK, PassTypeOK, CountTypeOK
  <2> QED BY <2>1, <2>2, <2>3
<1>17. ASSUME NEW t \in Targets, SkipsHeadless(t) PROVE TypeOK'
  <2>1. WorldTypeOK'
    BY <1>17 DEF SkipsHeadless, Skips, IsNext, Fault, Interferes, WorldTypeOK, PassTypeOK
  <2>2. PassTypeOK'
    BY <1>17 DEF SkipsHeadless, Skips, IsNext, Fault, Interferes, WorldTypeOK, PassTypeOK
  <2>3. CountTypeOK'
    BY <1>17 DEF SkipsHeadless, Skips, IsNext, Fault, Interferes, WorldTypeOK, PassTypeOK,
         CountTypeOK
  <2> QED BY <2>1, <2>2, <2>3
<1>18. ASSUME NEW t \in Targets, SkipsBadRef(t) PROVE TypeOK'
  <2>1. WorldTypeOK'
    BY <1>18 DEF SkipsBadRef, Skips, IsNext, WorldTypeOK, PassTypeOK
  <2>2. PassTypeOK'
    BY <1>18 DEF SkipsBadRef, Skips, IsNext, WorldTypeOK, PassTypeOK
  <2>3. CountTypeOK'
    BY <1>18 DEF SkipsBadRef, Skips, IsNext, WorldTypeOK, PassTypeOK, CountTypeOK
  <2> QED BY <2>1, <2>2, <2>3
<1>19. ASSUME NEW t \in Targets, SkipsDirty(t) PROVE TypeOK'
  <2>1. WorldTypeOK'
    BY <1>19 DEF SkipsDirty, Skips, IsNext, WorldTypeOK, PassTypeOK
  <2>2. PassTypeOK'
    BY <1>19 DEF SkipsDirty, Skips, IsNext, WorldTypeOK, PassTypeOK
  <2>3. CountTypeOK'
    BY <1>19 DEF SkipsDirty, Skips, IsNext, WorldTypeOK, PassTypeOK, CountTypeOK
  <2> QED BY <2>1, <2>2, <2>3
<1>20. ASSUME NEW t \in Targets, DispatchFails(t) PROVE TypeOK'
  <2>1. WorldTypeOK'
    BY <1>20, TroubleGrows DEF DispatchFails, Fault, WorldTypeOK
  <2>2. PassTypeOK'
    BY <1>20 DEF DispatchFails, IsNext, Counted, Fault, Interferes, WorldTypeOK, PassTypeOK
  <2>3. CountTypeOK'
    BY <1>20 DEF DispatchFails, IsNext, Counted, Fault, Interferes, WorldTypeOK, PassTypeOK,
         CountTypeOK
  <2> QED BY <2>1, <2>2, <2>3
<1>21. ASSUME NEW t \in Targets, WorkerStarts(t) PROVE TypeOK'
  <2>1. WorldTypeOK'
    BY <1>21 DEF WorkerStarts, MayStart, IsNext, Fault, Interferes, WorldTypeOK, PassTypeOK
  <2>2. PassTypeOK'
    BY <1>21 DEF WorkerStarts, MayStart, IsNext, Fault, Interferes, WorldTypeOK, PassTypeOK
  <2>3. CountTypeOK'
    BY <1>21 DEF WorkerStarts, MayStart, IsNext, Fault, Interferes, WorldTypeOK, PassTypeOK,
         CountTypeOK
  <2> QED BY <2>1, <2>2, <2>3
<1>22. ASSUME NEW t \in Targets, OrphanEnds(t) PROVE TypeOK'
  <2>1. WorldTypeOK'
    BY <1>22 DEF OrphanEnds, Posts, WorldTypeOK, PassTypeOK
  <2>2. PassTypeOK'
    BY <1>22 DEF OrphanEnds, Posts, WorldTypeOK, PassTypeOK
  <2>3. CountTypeOK'
    BY <1>22 DEF OrphanEnds, Posts, WorldTypeOK, PassTypeOK, CountTypeOK
  <2> QED BY <2>1, <2>2, <2>3
<1>23. ASSUME NEW t \in Targets, Unblocks(t) PROVE TypeOK'
  <2>1. WorldTypeOK'
    BY <1>23 DEF Unblocks, WorldTypeOK, PassTypeOK
  <2>2. PassTypeOK'
    BY <1>23 DEF Unblocks, WorldTypeOK, PassTypeOK
  <2>3. CountTypeOK'
    BY <1>23 DEF Unblocks, WorldTypeOK, PassTypeOK, CountTypeOK
  <2> QED BY <2>1, <2>2, <2>3
<1>24. ASSUME NEW t \in Targets, Rescues(t) PROVE TypeOK'
  <2>1. WorldTypeOK'
    BY <1>24 DEF Rescues, WorldTypeOK, PassTypeOK
  <2>2. PassTypeOK'
    BY <1>24 DEF Rescues, WorldTypeOK, PassTypeOK
  <2>3. CountTypeOK'
    BY <1>24 DEF Rescues, WorldTypeOK, PassTypeOK, CountTypeOK
  <2> QED BY <2>1, <2>2, <2>3
<1>25. ASSUME NEW t \in Targets, Opens(t) PROVE TypeOK'
  <2>1. WorldTypeOK'
    BY <1>25 DEF Opens, Interferes, WorldTypeOK, PassTypeOK
  <2>2. PassTypeOK'
    BY <1>25 DEF Opens, Interferes, WorldTypeOK, PassTypeOK
  <2>3. CountTypeOK'
    BY <1>25 DEF Opens, Interferes, WorldTypeOK, PassTypeOK, CountTypeOK
  <2> QED BY <2>1, <2>2, <2>3
<1>26. ASSUME NEW t \in Targets, Closes(t) PROVE TypeOK'
  <2>1. WorldTypeOK'
    BY <1>26 DEF Closes, Interferes, WorldTypeOK, PassTypeOK
  <2>2. PassTypeOK'
    BY <1>26 DEF Closes, Interferes, WorldTypeOK, PassTypeOK
  <2>3. CountTypeOK'
    BY <1>26 DEF Closes, Interferes, WorldTypeOK, PassTypeOK, CountTypeOK
  <2> QED BY <2>1, <2>2, <2>3
<1>27. CASE UNCHANGED vars
  BY <1>27 DEF vars, WorldTypeOK, PassTypeOK, CountTypeOK
<1> HIDE DEF TypeOK
<1> QED
  BY <1>1, <1>2, <1>3, <1>4, <1>5, <1>6, <1>7, <1>8, <1>9, <1>10, <1>11, <1>12, <1>13, <1>14,
     <1>15, <1>16, <1>17, <1>18, <1>19, <1>20, <1>21, <1>22, <1>23, <1>24, <1>25, <1>26, <1>27
     DEF Next

(* Every variable stays in its set; an agent is waited for while it works. *)
THEOREM TypeCorrect == Spec => []TypeOK
<1>1. Init => TypeOK
  <2>1. Init => WorldTypeOK
    BY DispatchAssumption DEF Init, WorldTypeOK
  <2>2. Init => PassTypeOK
    BY DEF Init, PassTypeOK
  <2>3. Init => CountTypeOK
    BY DEF Init, CountTypeOK
  <2> QED BY <2>1, <2>2, <2>3 DEF TypeOK
<1> QED BY <1>1, NextType, PTL DEF Spec

----------------------------------------------------------------------------
(* The budgets.                                                            *)

(* Whoever waits in the queue still has an attempt, but in a "pr" pass,    *)
(* which looks only when it is the target's turn; so has the one at work.  *)
QueueInv ==
  /\ pc = "idle" => queue = {}
  /\ pc = "working" => cur \notin queue /\ ~Exhausted(cur)
  /\ mode # "pr" => \A t \in queue : ~Exhausted(t)

BudgetInv == \A t \in Targets : attempts[t] <= MaxAttempts

(* Each agent started is recorded, left behind, or waited for.             *)
StartInv ==
  mode # "review"
    => \A t \in Targets :
         starts[t] <= attempts[t] + left[t] + (IF cur = t THEN 1 ELSE 0)

SpendInv == QueueInv /\ BudgetInv /\ StartInv

LEMMA QueueAtBegin ==
  ASSUME QueueInv, EventBegins
  PROVE  QueueInv'
<1>1. pc' # "working" /\ attempts' = attempts
  BY DEF EventBegins
<1>2. CASE pc' = "idle"
  BY <1>1, <1>2 DEF EventBegins, QueueInv
<1>3. CASE pc' # "idle"
  <2>1. queue' = EventCandidates(open)
    BY <1>3 DEF EventBegins
  <2>2. \A t \in queue' : ~Exhausted(t)
    BY <2>1, CandidatesIn
  <2> QED BY <1>1, <1>3, <2>2 DEF QueueInv, Exhausted
<1> QED BY <1>2, <1>3

LEMMA NextSpend ==
  ASSUME TypeOK, SpendInv, [Next]_vars
  PROVE  SpendInv'
<1> USE DispatchAssumption DEF TypeOK, WorldTypeOK, PassTypeOK, CountTypeOK, SpendInv
<1>1. CASE EventBegins
  <2>1. QueueInv'
    BY <1>1, QueueAtBegin
  <2>2. BudgetInv'
    BY <1>1, OldestSub DEF EventBegins, EventCandidates, QueueInv, BudgetInv, Exhausted
  <2>3. StartInv'
    BY <1>1, OldestSub DEF EventBegins, EventCandidates, StartInv, QueueInv
  <2> QED BY <2>1, <2>2, <2>3
<1>2. CASE PrBegins
  <2>1. QueueInv'
    BY <1>2, OldestSub DEF PrBegins, Begins, PrCandidates, Fault, Interferes, QueueInv, Exhausted
  <2>2. BudgetInv'
    BY <1>2, OldestSub DEF PrBegins, Begins, PrCandidates, Fault, Interferes, QueueInv,
         BudgetInv, Exhausted
  <2>3. StartInv'
    BY <1>2, OldestSub DEF PrBegins, Begins, PrCandidates, Fault, Interferes, StartInv, QueueInv
  <2> QED BY <2>1, <2>2, <2>3
<1>3. CASE BaseBegins
  <2>1. QueueInv'
    BY <1>3 DEF BaseBegins, Begins, QueueInv, Exhausted
  <2>2. BudgetInv'
    BY <1>3 DEF BaseBegins, Begins, QueueInv, BudgetInv, Exhausted
  <2>3. StartInv'
    BY <1>3 DEF BaseBegins, Begins, StartInv, QueueInv
  <2> QED BY <2>1, <2>2, <2>3
<1>4. CASE ReviewBegins
  <2>1. QueueInv'
    BY <1>4, OldestSub DEF ReviewBegins, Begins, ReviewWindow, ReviewCandidates, Fault,
         Interferes, QueueInv, Exhausted
  <2>2. BudgetInv'
    BY <1>4, OldestSub DEF ReviewBegins, Begins, ReviewWindow, ReviewCandidates, Fault,
         Interferes, QueueInv, BudgetInv, Exhausted
  <2>3. StartInv'
    BY <1>4, OldestSub DEF ReviewBegins, Begins, ReviewWindow, ReviewCandidates, Fault,
         Interferes, StartInv, QueueInv
  <2> QED BY <2>1, <2>2, <2>3
<1>5. CASE Reconciles
  <2>1. QueueInv'
    BY <1>5 DEF Reconciles, QueueInv, Exhausted
  <2>2. BudgetInv'
    BY <1>5 DEF Reconciles, QueueInv, BudgetInv, Exhausted
  <2>3. StartInv'
    BY <1>5 DEF Reconciles, StartInv, QueueInv
  <2> QED BY <2>1, <2>2, <2>3
<1>6. CASE BeginFails
  <2>1. QueueInv'
    BY <1>6 DEF BeginFails, Fault, Interferes, QueueInv, Exhausted
  <2>2. BudgetInv'
    BY <1>6 DEF BeginFails, Fault, Interferes, QueueInv, BudgetInv, Exhausted
  <2>3. StartInv'
    BY <1>6 DEF BeginFails, Fault, Interferes, StartInv, QueueInv
  <2> QED BY <2>1, <2>2, <2>3
<1>7. CASE WorkerDone
  <2>1. QueueInv'
    BY <1>7 DEF WorkerDone, Records, Counted, QueueInv, Exhausted
  <2>2. BudgetInv'
    BY <1>7 DEF WorkerDone, Records, Counted, QueueInv, BudgetInv, Exhausted
  <2>3. StartInv'
    BY <1>7 DEF WorkerDone, Records, Counted, StartInv, QueueInv
  <2> QED BY <2>1, <2>2, <2>3
<1>8. CASE WorkerFails
  <2>1. QueueInv'
    BY <1>8 DEF WorkerFails, Records, Counted, QueueInv, Exhausted
  <2>2. BudgetInv'
    BY <1>8 DEF WorkerFails, Records, Counted, QueueInv, BudgetInv, Exhausted
  <2>3. StartInv'
    BY <1>8 DEF WorkerFails, Records, Counted, StartInv, QueueInv
  <2> QED BY <2>1, <2>2, <2>3
<1>9. CASE ReviewDone
  <2>1. QueueInv'
    BY <1>9 DEF ReviewDone, Records, Counted, Posts, QueueInv, Exhausted
  <2>2. BudgetInv'
    BY <1>9 DEF ReviewDone, Records, Counted, Posts, QueueInv, BudgetInv, Exhausted
  <2>3. StartInv'
    BY <1>9 DEF ReviewDone, Records, Counted, Posts, StartInv, QueueInv
  <2> QED BY <2>1, <2>2, <2>3
<1>10. CASE ReviewUnclear
  <2>1. QueueInv'
    BY <1>10 DEF ReviewUnclear, Records, Counted, Posts, QueueInv, Exhausted
  <2>2. BudgetInv'
    BY <1>10 DEF ReviewUnclear, Records, Counted, Posts, QueueInv, BudgetInv, Exhausted
  <2>3. StartInv'
    BY <1>10 DEF ReviewUnclear, Records, Counted, Posts, StartInv, QueueInv
  <2> QED BY <2>1, <2>2, <2>3
<1>11. CASE ReviewBlocks
  <2>1. QueueInv'
    BY <1>11 DEF ReviewBlocks, Records, Counted, QueueInv, Exhausted
  <2>2. BudgetInv'
    BY <1>11 DEF ReviewBlocks, Records, Counted, QueueInv, BudgetInv, Exhausted
  <2>3. StartInv'
    BY <1>11 DEF ReviewBlocks, Records, Counted, StartInv, QueueInv
  <2> QED BY <2>1, <2>2, <2>3
<1>12. CASE ReviewKilled
  <2>1. QueueInv'
    BY <1>12 DEF ReviewKilled, Records, Posts, Fault, Interferes, QueueInv, Exhausted
  <2>2. BudgetInv'
    BY <1>12 DEF ReviewKilled, Records, Posts, Fault, Interferes, QueueInv, BudgetInv, Exhausted
  <2>3. StartInv'
    BY <1>12 DEF ReviewKilled, Records, Posts, Fault, Interferes, StartInv, QueueInv
  <2> QED BY <2>1, <2>2, <2>3
<1>13. CASE PassEnds
  <2>1. QueueInv'
    BY <1>13 DEF PassEnds, Watermark, QueueInv, Exhausted
  <2>2. BudgetInv'
    BY <1>13 DEF PassEnds, Watermark, QueueInv, BudgetInv, Exhausted
  <2>3. StartInv'
    BY <1>13 DEF PassEnds, Watermark, StartInv, QueueInv
  <2> QED BY <2>1, <2>2, <2>3
<1>14. CASE Crash
  <2>1. QueueInv'
    BY <1>14 DEF Crash, Fault, Interferes, QueueInv, Exhausted
  <2>2. BudgetInv'
    BY <1>14 DEF Crash, Fault, Interferes, QueueInv, BudgetInv, Exhausted
  <2>3. StartInv'
    BY <1>14 DEF Crash, Fault, Interferes, StartInv, QueueInv
  <2> QED BY <2>1, <2>2, <2>3
<1>15. ASSUME NEW t \in Targets, SkipsExhausted(t) PROVE SpendInv'
  <2>1. QueueInv'
    BY <1>15 DEF SkipsExhausted, Skips, IsNext, QueueInv, Exhausted
  <2>2. BudgetInv'
    BY <1>15 DEF SkipsExhausted, Skips, IsNext, QueueInv, BudgetInv, Exhausted
  <2>3. StartInv'
    BY <1>15 DEF SkipsExhausted, Skips, IsNext, StartInv, QueueInv
  <2> QED BY <2>1, <2>2, <2>3
<1>16. ASSUME NEW t \in Targets, SkipsLive(t) PROVE SpendInv'
  <2>1. QueueInv'
    BY <1>16 DEF SkipsLive, Skips, IsNext, QueueInv, Exhausted
  <2>2. BudgetInv'
    BY <1>16 DEF SkipsLive, Skips, IsNext, QueueInv, BudgetInv, Exhausted
  <2>3. StartInv'
    BY <1>16 DEF SkipsLive, Skips, IsNext, StartInv, QueueInv
  <2> QED BY <2>1, <2>2, <2>3
<1>17. ASSUME NEW t \in Targets, SkipsHeadless(t) PROVE SpendInv'
  <2>1. QueueInv'
    BY <1>17 DEF SkipsHeadless, Skips, IsNext, Fault, Interferes, QueueInv, Exhausted
  <2>2. BudgetInv'
    BY <1>17 DEF SkipsHeadless, Skips, IsNext, Fault, Interferes, QueueInv, BudgetInv, Exhausted
  <2>3. StartInv'
    BY <1>17 DEF SkipsHeadless, Skips, IsNext, Fault, Interferes, StartInv, QueueInv
  <2> QED BY <2>1, <2>2, <2>3
<1>18. ASSUME NEW t \in Targets, SkipsBadRef(t) PROVE SpendInv'
  <2>1. QueueInv'
    BY <1>18 DEF SkipsBadRef, Skips, IsNext, QueueInv, Exhausted
  <2>2. BudgetInv'
    BY <1>18 DEF SkipsBadRef, Skips, IsNext, QueueInv, BudgetInv, Exhausted
  <2>3. StartInv'
    BY <1>18 DEF SkipsBadRef, Skips, IsNext, StartInv, QueueInv
  <2> QED BY <2>1, <2>2, <2>3
<1>19. ASSUME NEW t \in Targets, SkipsDirty(t) PROVE SpendInv'
  <2>1. QueueInv'
    BY <1>19 DEF SkipsDirty, Skips, IsNext, QueueInv, Exhausted
  <2>2. BudgetInv'
    BY <1>19 DEF SkipsDirty, Skips, IsNext, QueueInv, BudgetInv, Exhausted
  <2>3. StartInv'
    BY <1>19 DEF SkipsDirty, Skips, IsNext, StartInv, QueueInv
  <2> QED BY <2>1, <2>2, <2>3
<1>20. ASSUME NEW t \in Targets, DispatchFails(t) PROVE SpendInv'
  <2>1. QueueInv'
    BY <1>20 DEF DispatchFails, IsNext, Counted, Fault, Interferes, QueueInv, Exhausted
  <2>2. BudgetInv'
    BY <1>20 DEF DispatchFails, IsNext, Counted, Fault, Interferes, QueueInv, BudgetInv, Exhausted
  <2>3. StartInv'
    BY <1>20 DEF DispatchFails, IsNext, Counted, Fault, Interferes, StartInv, QueueInv
  <2> QED BY <2>1, <2>2, <2>3
<1>21. ASSUME NEW t \in Targets, WorkerStarts(t) PROVE SpendInv'
  <2>1. QueueInv'
    BY <1>21 DEF WorkerStarts, MayStart, IsNext, Fault, Interferes, QueueInv, Exhausted
  <2>2. BudgetInv'
    BY <1>21 DEF WorkerStarts, MayStart, IsNext, Fault, Interferes, QueueInv, BudgetInv, Exhausted
  <2>3. StartInv'
    BY <1>21 DEF WorkerStarts, MayStart, IsNext, Fault, Interferes, StartInv, QueueInv
  <2> QED BY <2>1, <2>2, <2>3
<1>22. ASSUME NEW t \in Targets, OrphanEnds(t) PROVE SpendInv'
  <2>1. QueueInv'
    BY <1>22 DEF OrphanEnds, Posts, QueueInv, Exhausted
  <2>2. BudgetInv'
    BY <1>22 DEF OrphanEnds, Posts, QueueInv, BudgetInv, Exhausted
  <2>3. StartInv'
    BY <1>22 DEF OrphanEnds, Posts, StartInv, QueueInv
  <2> QED BY <2>1, <2>2, <2>3
<1>23. ASSUME NEW t \in Targets, Unblocks(t) PROVE SpendInv'
  <2>1. QueueInv'
    BY <1>23 DEF Unblocks, QueueInv, Exhausted
  <2>2. BudgetInv'
    BY <1>23 DEF Unblocks, QueueInv, BudgetInv, Exhausted
  <2>3. StartInv'
    BY <1>23 DEF Unblocks, StartInv, QueueInv
  <2> QED BY <2>1, <2>2, <2>3
<1>24. ASSUME NEW t \in Targets, Rescues(t) PROVE SpendInv'
  <2>1. QueueInv'
    BY <1>24 DEF Rescues, QueueInv, Exhausted
  <2>2. BudgetInv'
    BY <1>24 DEF Rescues, QueueInv, BudgetInv, Exhausted
  <2>3. StartInv'
    BY <1>24 DEF Rescues, StartInv, QueueInv
  <2> QED BY <2>1, <2>2, <2>3
<1>25. ASSUME NEW t \in Targets, Opens(t) PROVE SpendInv'
  <2>1. QueueInv'
    BY <1>25 DEF Opens, Interferes, QueueInv, Exhausted
  <2>2. BudgetInv'
    BY <1>25 DEF Opens, Interferes, QueueInv, BudgetInv, Exhausted
  <2>3. StartInv'
    BY <1>25 DEF Opens, Interferes, StartInv, QueueInv
  <2> QED BY <2>1, <2>2, <2>3
<1>26. ASSUME NEW t \in Targets, Closes(t) PROVE SpendInv'
  <2>1. QueueInv'
    BY <1>26 DEF Closes, Interferes, QueueInv, Exhausted
  <2>2. BudgetInv'
    BY <1>26 DEF Closes, Interferes, QueueInv, BudgetInv, Exhausted
  <2>3. StartInv'
    BY <1>26 DEF Closes, Interferes, StartInv, QueueInv
  <2> QED BY <2>1, <2>2, <2>3
<1>27. CASE UNCHANGED vars
  BY <1>27 DEF vars, QueueInv, BudgetInv, StartInv, Exhausted
<1> HIDE DEF TypeOK, SpendInv
<1> QED
  BY <1>1, <1>2, <1>3, <1>4, <1>5, <1>6, <1>7, <1>8, <1>9, <1>10, <1>11, <1>12, <1>13, <1>14,
     <1>15, <1>16, <1>17, <1>18, <1>19, <1>20, <1>21, <1>22, <1>23, <1>24, <1>25, <1>26, <1>27
     DEF Next

LEMMA SpendHolds == Spec => [](TypeOK /\ SpendInv)
<1>1. Init => SpendInv
  BY DispatchAssumption DEF Init, SpendInv, QueueInv, BudgetInv, StartInv
<1> QED BY <1>1, NextSpend, TypeCorrect, PTL DEF Spec

(* A target gets no more agents than its budget and those a dead pass left *)
(* without a record.                                                       *)
THEOREM BudgetsHold == Spec => []AttemptsAreBounded
<1>1. TypeOK /\ SpendInv => AttemptsAreBounded
  BY DispatchAssumption
     DEF TypeOK, PassTypeOK, CountTypeOK, SpendInv, QueueInv, BudgetInv, StartInv, Exhausted,
         AttemptsAreBounded
<1> QED BY <1>1, SpendHolds, PTL

----------------------------------------------------------------------------
(* The reviews.                                                            *)

(* What of t may still post: an agent left behind, and the one at work.    *)
Loose(t) == IF orphan[t] # "none" THEN 1 ELSE 0

AtWork(t) == IF cur = t THEN 1 ELSE 0

MarkerInv ==
  \A t \in Targets :
    /\ t \notin posted => posts[t] = 0
    /\ mode # "review" => posts[t] = 0
    /\ mode = "review" /\ orphan[t] # "none" => left[t] >= 1

(* A target queued after its marker was looked at had none then; it can    *)
(* have one since only by an agent that was left behind.                   *)
SeenInv ==
  mode = "review"
    => \A t \in queue \ blind : posts[t] + Loose(t) <= left[t] + unread[t]

PostInv ==
  mode = "review"
    => \A t \in Targets : posts[t] + Loose(t) + AtWork(t) <= 1 + left[t] + unread[t]

ReviewInv == MarkerInv /\ SeenInv /\ PostInv

LEMMA SeenAtBegin ==
  ASSUME TypeOK, MarkerInv, ReviewBegins
  PROVE  SeenInv'
<1>1. PICK U \in SUBSET ReviewWindow :
        /\ queue' = ReviewCandidates(U)
        /\ blind' = ReviewCandidates(U) \ (ReviewWindow \ U)
  BY DEF ReviewBegins, Begins
<1>2. mode = "review" /\ UNCHANGED <<orphan, left, posts, unread>>
  BY DEF ReviewBegins, Begins
<1> SUFFICES ASSUME NEW t \in queue', t \notin blind'
             PROVE  (posts[t] + Loose(t) <= left[t] + unread[t])'
  BY <1>2 DEF SeenInv
<1>3. t \notin posted
  BY <1>1, LookedAt
<1>4. t \in Targets
  <2>1. ReviewBegins => TypeOK'
    BY NextType DEF Next
  <2> QED BY <2>1 DEF TypeOK, PassTypeOK
<1> QED BY <1>2, <1>3, <1>4 DEF TypeOK, CountTypeOK, WorldTypeOK, MarkerInv, Loose

LEMMA NextReview ==
  ASSUME TypeOK, SpendInv, ReviewInv, [Next]_vars
  PROVE  ReviewInv'
<1> USE DispatchAssumption DEF TypeOK, WorldTypeOK, PassTypeOK, CountTypeOK, ReviewInv
<1>1. CASE EventBegins
  <2>1. MarkerInv'
    BY <1>1, OldestSub DEF EventBegins, EventCandidates, MarkerInv
  <2>2. SeenInv'
    BY <1>1, OldestSub DEF EventBegins, EventCandidates, MarkerInv, SeenInv, Loose
  <2>3. PostInv'
    BY <1>1, OldestSub DEF EventBegins, EventCandidates, SeenInv, PostInv, Loose, AtWork
  <2> QED BY <2>1, <2>2, <2>3
<1>2. CASE PrBegins
  <2>1. MarkerInv'
    BY <1>2, OldestSub DEF PrBegins, Begins, PrCandidates, Fault, Interferes, MarkerInv
  <2>2. SeenInv'
    BY <1>2, OldestSub DEF PrBegins, Begins, PrCandidates, Fault, Interferes, MarkerInv,
         SeenInv, Loose
  <2>3. PostInv'
    BY <1>2, OldestSub DEF PrBegins, Begins, PrCandidates, Fault, Interferes, SeenInv, PostInv,
         Loose, AtWork
  <2> QED BY <2>1, <2>2, <2>3
<1>3. CASE BaseBegins
  <2>1. MarkerInv'
    BY <1>3 DEF BaseBegins, Begins, MarkerInv
  <2>2. SeenInv'
    BY <1>3 DEF BaseBegins, Begins, MarkerInv, SeenInv, Loose
  <2>3. PostInv'
    BY <1>3 DEF BaseBegins, Begins, SeenInv, PostInv, Loose, AtWork
  <2> QED BY <2>1, <2>2, <2>3
<1>4. CASE ReviewBegins
  <2>1. MarkerInv'
    BY <1>4, OldestSub DEF ReviewBegins, Begins, ReviewWindow, ReviewCandidates, Fault,
         Interferes, MarkerInv
  <2>2. SeenInv'
    BY <1>4, SeenAtBegin DEF SeenInv, ReviewInv
  <2>3. PostInv'
    BY <1>4, OldestSub DEF ReviewBegins, Begins, ReviewWindow, ReviewCandidates, Fault,
         Interferes, SeenInv, PostInv, Loose, AtWork
  <2> QED BY <2>1, <2>2, <2>3
<1>5. CASE Reconciles
  <2>1. MarkerInv'
    BY <1>5 DEF Reconciles, MarkerInv
  <2>2. SeenInv'
    BY <1>5 DEF Reconciles, MarkerInv, SeenInv, Loose
  <2>3. PostInv'
    BY <1>5 DEF Reconciles, SeenInv, PostInv, Loose, AtWork
  <2> QED BY <2>1, <2>2, <2>3
<1>6. CASE BeginFails
  <2>1. MarkerInv'
    BY <1>6 DEF BeginFails, Fault, Interferes, MarkerInv
  <2>2. SeenInv'
    BY <1>6 DEF BeginFails, Fault, Interferes, MarkerInv, SeenInv, Loose
  <2>3. PostInv'
    BY <1>6 DEF BeginFails, Fault, Interferes, SeenInv, PostInv, Loose, AtWork
  <2> QED BY <2>1, <2>2, <2>3
<1>7. CASE WorkerDone
  <2>1. MarkerInv'
    BY <1>7 DEF WorkerDone, Records, Counted, MarkerInv
  <2>2. SeenInv'
    BY <1>7 DEF WorkerDone, Records, Counted, MarkerInv, SeenInv, Loose
  <2>3. PostInv'
    BY <1>7 DEF WorkerDone, Records, Counted, SeenInv, PostInv, Loose, AtWork
  <2> QED BY <2>1, <2>2, <2>3
<1>8. CASE WorkerFails
  <2>1. MarkerInv'
    BY <1>8 DEF WorkerFails, Records, Counted, MarkerInv
  <2>2. SeenInv'
    BY <1>8 DEF WorkerFails, Records, Counted, MarkerInv, SeenInv, Loose
  <2>3. PostInv'
    BY <1>8 DEF WorkerFails, Records, Counted, SeenInv, PostInv, Loose, AtWork
  <2> QED BY <2>1, <2>2, <2>3
<1>9. CASE ReviewDone
  <2>1. MarkerInv'
    BY <1>9 DEF ReviewDone, Records, Counted, Posts, MarkerInv
  <2>2. SeenInv'
    BY <1>9 DEF ReviewDone, Records, Counted, Posts, MarkerInv, SeenInv, Loose, SpendInv, QueueInv
  <2>3. PostInv'
    BY <1>9 DEF ReviewDone, Records, Counted, Posts, SeenInv, PostInv, Loose, AtWork
  <2> QED BY <2>1, <2>2, <2>3
<1>10. CASE ReviewUnclear
  <2>1. MarkerInv'
    BY <1>10 DEF ReviewUnclear, Records, Counted, Posts, MarkerInv
  <2>2. SeenInv'
    BY <1>10 DEF ReviewUnclear, Records, Counted, Posts, MarkerInv, SeenInv, Loose, SpendInv,
         QueueInv
  <2>3. PostInv'
    BY <1>10 DEF ReviewUnclear, Records, Counted, Posts, SeenInv, PostInv, Loose, AtWork
  <2> QED BY <2>1, <2>2, <2>3
<1>11. CASE ReviewBlocks
  <2>1. MarkerInv'
    BY <1>11 DEF ReviewBlocks, Records, Counted, MarkerInv
  <2>2. SeenInv'
    BY <1>11 DEF ReviewBlocks, Records, Counted, MarkerInv, SeenInv, Loose, SpendInv, QueueInv
  <2>3. PostInv'
    BY <1>11 DEF ReviewBlocks, Records, Counted, SeenInv, PostInv, Loose, AtWork
  <2> QED BY <2>1, <2>2, <2>3
<1>12. CASE ReviewKilled
  <2>1. MarkerInv'
    BY <1>12 DEF ReviewKilled, Records, Posts, Fault, Interferes, MarkerInv
  <2>2. SeenInv'
    BY <1>12 DEF ReviewKilled, Records, Posts, Fault, Interferes, MarkerInv, SeenInv, Loose,
         SpendInv, QueueInv
  <2>3. PostInv'
    BY <1>12 DEF ReviewKilled, Records, Posts, Fault, Interferes, SeenInv, PostInv, Loose, AtWork
  <2> QED BY <2>1, <2>2, <2>3
<1>13. CASE PassEnds
  <2>1. MarkerInv'
    BY <1>13 DEF PassEnds, Watermark, MarkerInv
  <2>2. SeenInv'
    BY <1>13 DEF PassEnds, Watermark, MarkerInv, SeenInv, Loose
  <2>3. PostInv'
    BY <1>13 DEF PassEnds, Watermark, SeenInv, PostInv, Loose, AtWork
  <2> QED BY <2>1, <2>2, <2>3
<1>14. CASE Crash
  <2>1. MarkerInv'
    BY <1>14 DEF Crash, Fault, Interferes, MarkerInv
  <2>2. SeenInv'
    BY <1>14 DEF Crash, Fault, Interferes, MarkerInv, SeenInv, Loose
  <2>3. PostInv'
    BY <1>14 DEF Crash, Fault, Interferes, SeenInv, PostInv, Loose, AtWork
  <2> QED BY <2>1, <2>2, <2>3
<1>15. ASSUME NEW t \in Targets, SkipsExhausted(t) PROVE ReviewInv'
  <2>1. MarkerInv'
    BY <1>15 DEF SkipsExhausted, Skips, IsNext, MarkerInv
  <2>2. SeenInv'
    BY <1>15 DEF SkipsExhausted, Skips, IsNext, MarkerInv, SeenInv, Loose
  <2>3. PostInv'
    BY <1>15 DEF SkipsExhausted, Skips, IsNext, SeenInv, PostInv, Loose, AtWork
  <2> QED BY <2>1, <2>2, <2>3
<1>16. ASSUME NEW t \in Targets, SkipsLive(t) PROVE ReviewInv'
  <2>1. MarkerInv'
    BY <1>16 DEF SkipsLive, Skips, IsNext, MarkerInv
  <2>2. SeenInv'
    BY <1>16 DEF SkipsLive, Skips, IsNext, MarkerInv, SeenInv, Loose
  <2>3. PostInv'
    BY <1>16 DEF SkipsLive, Skips, IsNext, SeenInv, PostInv, Loose, AtWork
  <2> QED BY <2>1, <2>2, <2>3
<1>17. ASSUME NEW t \in Targets, SkipsHeadless(t) PROVE ReviewInv'
  <2>1. MarkerInv'
    BY <1>17 DEF SkipsHeadless, Skips, IsNext, Fault, Interferes, MarkerInv
  <2>2. SeenInv'
    BY <1>17 DEF SkipsHeadless, Skips, IsNext, Fault, Interferes, MarkerInv, SeenInv, Loose
  <2>3. PostInv'
    BY <1>17 DEF SkipsHeadless, Skips, IsNext, Fault, Interferes, SeenInv, PostInv, Loose, AtWork
  <2> QED BY <2>1, <2>2, <2>3
<1>18. ASSUME NEW t \in Targets, SkipsBadRef(t) PROVE ReviewInv'
  <2>1. MarkerInv'
    BY <1>18 DEF SkipsBadRef, Skips, IsNext, MarkerInv
  <2>2. SeenInv'
    BY <1>18 DEF SkipsBadRef, Skips, IsNext, MarkerInv, SeenInv, Loose
  <2>3. PostInv'
    BY <1>18 DEF SkipsBadRef, Skips, IsNext, SeenInv, PostInv, Loose, AtWork
  <2> QED BY <2>1, <2>2, <2>3
<1>19. ASSUME NEW t \in Targets, SkipsDirty(t) PROVE ReviewInv'
  <2>1. MarkerInv'
    BY <1>19 DEF SkipsDirty, Skips, IsNext, MarkerInv
  <2>2. SeenInv'
    BY <1>19 DEF SkipsDirty, Skips, IsNext, MarkerInv, SeenInv, Loose
  <2>3. PostInv'
    BY <1>19 DEF SkipsDirty, Skips, IsNext, SeenInv, PostInv, Loose, AtWork
  <2> QED BY <2>1, <2>2, <2>3
<1>20. ASSUME NEW t \in Targets, DispatchFails(t) PROVE ReviewInv'
  <2>1. MarkerInv'
    BY <1>20 DEF DispatchFails, IsNext, Counted, Fault, Interferes, MarkerInv
  <2>2. SeenInv'
    BY <1>20 DEF DispatchFails, IsNext, Counted, Fault, Interferes, MarkerInv, SeenInv, Loose
  <2>3. PostInv'
    BY <1>20 DEF DispatchFails, IsNext, Counted, Fault, Interferes, SeenInv, PostInv, Loose,
         AtWork
  <2> QED BY <2>1, <2>2, <2>3
<1>21. ASSUME NEW t \in Targets, WorkerStarts(t) PROVE ReviewInv'
  <2>1. MarkerInv'
    BY <1>21 DEF WorkerStarts, MayStart, IsNext, Fault, Interferes, MarkerInv
  <2>2. SeenInv'
    BY <1>21 DEF WorkerStarts, MayStart, IsNext, Fault, Interferes, MarkerInv, SeenInv, Loose
  <2>3. PostInv'
    BY <1>21 DEF WorkerStarts, MayStart, IsNext, Fault, Interferes, SeenInv, PostInv, Loose,
         AtWork
  <2> QED BY <2>1, <2>2, <2>3
<1>22. ASSUME NEW t \in Targets, OrphanEnds(t) PROVE ReviewInv'
  <2>1. MarkerInv'
    BY <1>22 DEF OrphanEnds, Posts, MarkerInv
  <2>2. SeenInv'
    BY <1>22 DEF OrphanEnds, Posts, MarkerInv, SeenInv, Loose
  <2>3. PostInv'
    BY <1>22 DEF OrphanEnds, Posts, SeenInv, PostInv, Loose, AtWork
  <2> QED BY <2>1, <2>2, <2>3
<1>23. ASSUME NEW t \in Targets, Unblocks(t) PROVE ReviewInv'
  <2>1. MarkerInv'
    BY <1>23 DEF Unblocks, MarkerInv
  <2>2. SeenInv'
    BY <1>23 DEF Unblocks, MarkerInv, SeenInv, Loose
  <2>3. PostInv'
    BY <1>23 DEF Unblocks, SeenInv, PostInv, Loose, AtWork
  <2> QED BY <2>1, <2>2, <2>3
<1>24. ASSUME NEW t \in Targets, Rescues(t) PROVE ReviewInv'
  <2>1. MarkerInv'
    BY <1>24 DEF Rescues, MarkerInv
  <2>2. SeenInv'
    BY <1>24 DEF Rescues, MarkerInv, SeenInv, Loose
  <2>3. PostInv'
    BY <1>24 DEF Rescues, SeenInv, PostInv, Loose, AtWork
  <2> QED BY <2>1, <2>2, <2>3
<1>25. ASSUME NEW t \in Targets, Opens(t) PROVE ReviewInv'
  <2>1. MarkerInv'
    BY <1>25 DEF Opens, Interferes, MarkerInv
  <2>2. SeenInv'
    BY <1>25 DEF Opens, Interferes, MarkerInv, SeenInv, Loose
  <2>3. PostInv'
    BY <1>25 DEF Opens, Interferes, SeenInv, PostInv, Loose, AtWork
  <2> QED BY <2>1, <2>2, <2>3
<1>26. ASSUME NEW t \in Targets, Closes(t) PROVE ReviewInv'
  <2>1. MarkerInv'
    BY <1>26 DEF Closes, Interferes, MarkerInv
  <2>2. SeenInv'
    BY <1>26 DEF Closes, Interferes, MarkerInv, SeenInv, Loose
  <2>3. PostInv'
    BY <1>26 DEF Closes, Interferes, SeenInv, PostInv, Loose, AtWork
  <2> QED BY <2>1, <2>2, <2>3
<1>27. CASE UNCHANGED vars
  BY <1>27 DEF vars, MarkerInv, SeenInv, PostInv, Loose, AtWork
<1> HIDE DEF TypeOK, ReviewInv
<1> QED
  BY <1>1, <1>2, <1>3, <1>4, <1>5, <1>6, <1>7, <1>8, <1>9, <1>10, <1>11, <1>12, <1>13, <1>14,
     <1>15, <1>16, <1>17, <1>18, <1>19, <1>20, <1>21, <1>22, <1>23, <1>24, <1>25, <1>26, <1>27
     DEF Next

(* A PR gets a second review only through an agent left behind or a marker *)
(* nobody looked at.                                                       *)
THEOREM ReviewsHold == Spec => []ReviewsAreBounded
<1>1. Init => ReviewInv
  BY DispatchAssumption DEF Init, ReviewInv, MarkerInv, SeenInv, PostInv, Loose, AtWork
<1>2. TypeOK /\ ReviewInv => ReviewsAreBounded
  BY DEF TypeOK, CountTypeOK, ReviewInv, MarkerInv, PostInv, Loose, AtWork, ReviewsAreBounded
<1> QED BY <1>1, <1>2, NextReview, SpendHolds, PTL DEF Spec

----------------------------------------------------------------------------
(* The watermark.                                                          *)

(* What a pass is about to mark has been handled since it was owed, and    *)
(* nothing is owed before the first poll, which may adopt all it finds.    *)
MarkInv ==
  /\ marked \cap owed = {}
  /\ handled \cap owed = {}
  /\ ~baselined => owed = {}

LEMMA NextMark ==
  ASSUME TypeOK, MarkInv, [Next]_vars
  PROVE  MarkInv'
<1> USE DEF TypeOK, PassTypeOK
<1>1. CASE EventBegins
  BY <1>1, OldestSub DEF EventBegins, EventCandidates, MarkInv
<1>2. CASE PrBegins
  BY <1>2, OldestSub DEF PrBegins, Begins, PrCandidates, Fault, Interferes, MarkInv
<1>3. CASE BaseBegins
  BY <1>3 DEF BaseBegins, Begins, MarkInv
<1>4. CASE ReviewBegins
  BY <1>4, OldestSub DEF ReviewBegins, Begins, ReviewWindow, ReviewCandidates, Fault,
       Interferes, MarkInv
<1>5. CASE Reconciles
  BY <1>5 DEF Reconciles, MarkInv
<1>6. CASE BeginFails
  BY <1>6 DEF BeginFails, Fault, Interferes, MarkInv
<1>7. CASE WorkerDone
  BY <1>7 DEF WorkerDone, Records, Counted, MarkInv
<1>8. CASE WorkerFails
  BY <1>8 DEF WorkerFails, Records, Counted, MarkInv
<1>9. CASE ReviewDone
  BY <1>9 DEF ReviewDone, Records, Counted, Posts, MarkInv
<1>10. CASE ReviewUnclear
  BY <1>10 DEF ReviewUnclear, Records, Counted, Posts, MarkInv
<1>11. CASE ReviewBlocks
  BY <1>11 DEF ReviewBlocks, Records, Counted, MarkInv
<1>12. CASE ReviewKilled
  BY <1>12 DEF ReviewKilled, Records, Posts, Fault, Interferes, MarkInv
<1>13. CASE PassEnds
  BY <1>13 DEF PassEnds, Watermark, MarkInv
<1>14. CASE Crash
  BY <1>14 DEF Crash, Fault, Interferes, MarkInv
<1>15. ASSUME NEW t \in Targets, SkipsExhausted(t) PROVE MarkInv'
  BY <1>15 DEF SkipsExhausted, Skips, IsNext, MarkInv
<1>16. ASSUME NEW t \in Targets, SkipsLive(t) PROVE MarkInv'
  BY <1>16 DEF SkipsLive, Skips, IsNext, MarkInv
<1>17. ASSUME NEW t \in Targets, SkipsHeadless(t) PROVE MarkInv'
  BY <1>17 DEF SkipsHeadless, Skips, IsNext, Fault, Interferes, MarkInv
<1>18. ASSUME NEW t \in Targets, SkipsBadRef(t) PROVE MarkInv'
  BY <1>18 DEF SkipsBadRef, Skips, IsNext, MarkInv
<1>19. ASSUME NEW t \in Targets, SkipsDirty(t) PROVE MarkInv'
  BY <1>19 DEF SkipsDirty, Skips, IsNext, MarkInv
<1>20. ASSUME NEW t \in Targets, DispatchFails(t) PROVE MarkInv'
  BY <1>20 DEF DispatchFails, IsNext, Counted, Fault, Interferes, MarkInv
<1>21. ASSUME NEW t \in Targets, WorkerStarts(t) PROVE MarkInv'
  BY <1>21 DEF WorkerStarts, MayStart, IsNext, Fault, Interferes, MarkInv
<1>22. ASSUME NEW t \in Targets, OrphanEnds(t) PROVE MarkInv'
  BY <1>22 DEF OrphanEnds, Posts, MarkInv
<1>23. ASSUME NEW t \in Targets, Unblocks(t) PROVE MarkInv'
  BY <1>23 DEF Unblocks, MarkInv
<1>24. ASSUME NEW t \in Targets, Rescues(t) PROVE MarkInv'
  BY <1>24 DEF Rescues, MarkInv
<1>25. ASSUME NEW t \in Targets, Opens(t) PROVE MarkInv'
  BY <1>25 DEF Opens, Interferes, MarkInv
<1>26. ASSUME NEW t \in Targets, Closes(t) PROVE MarkInv'
  BY <1>26 DEF Closes, Interferes, MarkInv
<1>27. CASE UNCHANGED vars
  BY <1>27 DEF vars, MarkInv
<1> HIDE DEF TypeOK
<1> QED
  BY <1>1, <1>2, <1>3, <1>4, <1>5, <1>6, <1>7, <1>8, <1>9, <1>10, <1>11, <1>12, <1>13, <1>14,
     <1>15, <1>16, <1>17, <1>18, <1>19, <1>20, <1>21, <1>22, <1>23, <1>24, <1>25, <1>26, <1>27
     DEF Next

(* The watermark holds no event that was new and not handled since.        *)
THEOREM WatermarkHolds == Spec => []WatermarkIsEarned
<1>1. Init => MarkInv
  BY DEF Init, MarkInv
<1>2. MarkInv => WatermarkIsEarned
  BY DEF MarkInv, WatermarkIsEarned
<1> QED BY <1>1, <1>2, NextMark, TypeCorrect, PTL DEF Spec
----------------------------------------------------------------------------
(* What a pass takes, and that it ends.                                    *)

(* The least number of a set, from the order of the intervals.             *)
LEMMA LeastNumber ==
  ASSUME NEW N \in SUBSET Nat, N # {}
  PROVE  \E n \in N : \A m \in N : n <= m
<1> DEFINE Intervals == {1..n : n \in N}
<1>1. Intervals \subseteq FiniteSubsetsOf(Nat) /\ Intervals # {}
  <2>1. ASSUME NEW n \in N PROVE 1..n \subseteq Nat /\ IsFiniteSet(1..n)
    BY FS_Interval
  <2> QED BY <2>1 DEF FiniteSubsetsOf
<1>2. PICK I \in Intervals : \A J \in Intervals : <<J, I>> \notin StrictSubsetOrdering(Nat)
  BY <1>1, FS_StrictSubsetOrderingWellFounded, WFMin
<1>3. PICK n \in N : I = 1..n
  OBVIOUS
<1>4. ASSUME NEW m \in N, m < n PROVE FALSE
  <2>1. 1..m \subseteq 1..n /\ 1..m # 1..n
    <3>1. n \in 1..n /\ n \notin 1..m
      BY <1>4
    <3> QED BY <1>4, <3>1
  <2>2. <<1..m, 1..n>> \in StrictSubsetOrdering(Nat)
    BY <2>1 DEF StrictSubsetOrdering
  <2> QED BY <1>2, <1>3, <2>2
<1> QED BY <1>4

(* Those of a set that are older than t.                                   *)
Older(t, S) == {u \in S : u < t}

LEMMA OlderIsFinite ==
  ASSUME NEW S, IsFiniteSet(S), NEW t
  PROVE  /\ Older(t, S) \subseteq S /\ IsFiniteSet(Older(t, S))
         /\ Cardinality(Older(t, S)) \in Nat
<1>1. Older(t, S) \in SUBSET S
  BY DEF Older
<1> QED BY <1>1, FS_Subset, FS_CardinalityType

LEMMA OlderShrinks ==
  ASSUME NEW S \in SUBSET Nat, IsFiniteSet(S), NEW t \in S, NEW u \in S, u < t
  PROVE  Cardinality(Older(u, S)) < Cardinality(Older(t, S))
<1>1. Older(u, S) \in SUBSET Older(t, S) /\ t \in Nat /\ u \in Nat
  <2> SUFFICES ASSUME NEW v \in S, v < u PROVE v < t
    BY DEF Older
  <2> QED OBVIOUS
<1>2. u \in Older(t, S) /\ u \notin Older(u, S)
  BY <1>1 DEF Older
<1>3. /\ Cardinality(Older(u, S)) <= Cardinality(Older(t, S))
      /\ Cardinality(Older(u, S)) # Cardinality(Older(t, S))
  BY <1>1, <1>2, OlderIsFinite, FS_Subset
<1> QED BY <1>3, OlderIsFinite

LEMMA OldestByRank ==
  ASSUME NEW n, NEW S, NEW t \in S
  PROVE  t \in Oldest(n, S) <=> Cardinality(Older(t, S)) < n
BY DEF Oldest, Older

(* No more than n are taken: the youngest of them has the others before it. *)
LEMMA OldestIsCapped ==
  ASSUME NEW n \in Nat, NEW S \in SUBSET Nat, IsFiniteSet(S)
  PROVE  IsFiniteSet(Oldest(n, S)) /\ Cardinality(Oldest(n, S)) \in 0..n
<1> DEFINE O == Oldest(n, S)
           Rank(t) == Cardinality(Older(t, S))
<1>1. O \in SUBSET S
  BY OldestSub
<1>2. IsFiniteSet(O) /\ Cardinality(O) \in Nat
  BY <1>1, FS_Subset, FS_CardinalityType
<1>3. \A t : Rank(t) \in Nat
  BY OlderIsFinite
<1>4. \A t \in S : t \in O <=> Rank(t) < n
  BY OldestByRank
<1> HIDE DEF O, Rank
<1>5. CASE O = {}
  BY <1>2, <1>5, FS_EmptySet DEF O
<1>6. CASE O # {}
  <2> DEFINE N == {n - Rank(t) : t \in O}
  <2>1. N \in SUBSET Nat /\ N # {}
    <3>1. \A u \in O : n - Rank(u) \in Nat
      BY <1>1, <1>3, <1>4
    <3> QED BY <3>1, <1>6
  <2>2. PICK k \in N : \A m \in N : k <= m
    <3> HIDE DEF N
    <3> QED BY <2>1, LeastNumber
  <2>3. PICK t \in O : k = n - Rank(t)
    OBVIOUS
  <2>4. ASSUME NEW u \in O PROVE Rank(u) <= Rank(t)
    <3>1. n - Rank(t) <= n - Rank(u)
      BY <2>2, <2>3
    <3>2. Rank(u) \in Nat /\ Rank(t) \in Nat
      BY <1>3
    <3> QED BY <3>1, <3>2
  <2>5. O \ {t} \in SUBSET Older(t, S)
    <3> SUFFICES ASSUME NEW u \in O, u # t PROVE u < t
      BY <1>1 DEF Older
    <3>1. CASE t < u
      <4>1. Rank(t) < Rank(u)
        BY <1>1, <3>1, OlderShrinks DEF Rank
      <4> QED BY <4>1, <2>4, <1>3
    <3> QED BY <3>1, <1>1
  <2>6. Cardinality(O \ {t}) <= Rank(t)
    BY <2>5, OlderIsFinite, FS_Subset DEF Rank
  <2>7. Cardinality(O \ {t}) = Cardinality(O) - 1
    BY <1>2, FS_RemoveElement
  <2>8. Rank(t) < n /\ Rank(t) \in Nat
    BY <1>1, <1>3, <1>4
  <2>9. Cardinality(O) <= n
    BY <2>6, <2>7, <2>8, <1>2
  <2> QED BY <1>2, <2>9 DEF O
<1> QED BY <1>5, <1>6

(* One that is left out is younger than n others, and those are taken.     *)
LEMMA OldestIsFull ==
  ASSUME NEW n \in Nat, NEW S \in SUBSET Nat, IsFiniteSet(S), NEW t \in S \ Oldest(n, S)
  PROVE  Cardinality(Oldest(n, S)) = n /\ \A u \in Oldest(n, S) : u < t
<1> DEFINE O == Oldest(n, S)
           Rank(u) == Cardinality(Older(u, S))
<1>1. O \in SUBSET S
  BY OldestSub
<1>2. \A u : Rank(u) \in Nat
  BY OlderIsFinite
<1>3. \A u \in S : u \in O <=> Rank(u) < n
  BY OldestByRank
<1> HIDE DEF O, Rank
<1>4. ASSUME NEW u \in O, NEW v \in S \ O PROVE u < v
  <2>1. u \in Nat /\ v \in Nat /\ u # v
    BY <1>1
  <2>2. CASE v < u
    <3>1. Rank(v) < Rank(u)
      BY <1>1, <2>2, OlderShrinks DEF Rank
    <3> QED BY <3>1, <1>1, <1>2, <1>3
  <2> QED BY <2>1, <2>2
<1>5. PICK v \in S \ O : \A w \in S \ O : v <= w
  <2>1. S \ O \in SUBSET Nat /\ S \ O # {}
    BY DEF O
  <2> QED BY <2>1, LeastNumber
<1>6. Older(v, S) = O
  <2>1. ASSUME NEW u \in Older(v, S) PROVE u \in O
    <3>1. u \in S /\ u < v
      BY <2>1 DEF Older
    <3> QED BY <3>1, <1>5
  <2>2. O \subseteq Older(v, S)
    BY <1>1, <1>4 DEF Older
  <2> QED BY <2>1, <2>2
<1>7. Cardinality(O) >= n
  BY <1>2, <1>3, <1>6 DEF Rank
<1>8. Cardinality(O) \in 0..n
  BY OldestIsCapped DEF O
<1> QED BY <1>4, <1>7, <1>8 DEF O

(* The passes that take the oldest of those they may still work on.        *)
TakesOldest == (EventBegins /\ pc' = "loop") \/ ReviewBegins

(* What is open, has an attempt left and neither mark nor marker is passed *)
(* over only for as many older ones as a pass may take.  ("pr" jobs are    *)
(* not like that: there the cap comes before the budgets.)                 *)
PassedOverForTheOlder ==
  [][\A t \in open \ (marked \cup posted) :
       TakesOldest /\ ~Exhausted(t) /\ t \notin queue'
         => Cardinality(queue') = Cap /\ \A u \in queue' : u < t]_vars

LEMMA ReviewKeeps ==
  ASSUME NEW U, NEW t \in open, t \notin posted, ~Exhausted(t)
  PROVE  \E S \in SUBSET open : t \in S /\ ReviewCandidates(U) = Oldest(Cap, S)
<1> DEFINE kept == {u \in ReviewWindow : u \in U \/ u \notin posted}
           rest == {u \in open : ~Exhausted(u)} \ ReviewWindow
<1>1. ReviewCandidates(U) = Oldest(Cap, kept \cup rest)
  BY DEF ReviewCandidates
<1>2. kept \cup rest \in SUBSET open
  BY OldestSub DEF ReviewWindow
<1>3. t \in kept \cup rest
  <2>1. CASE t \in ReviewWindow
    <3>1. t \in kept
      BY <2>1
    <3> QED BY <3>1
  <2>2. CASE t \notin ReviewWindow
    <3>1. t \in rest
      BY <2>2
    <3> QED BY <3>1
  <2> QED BY <2>1, <2>2
<1> HIDE DEF kept, rest
<1> QED BY <1>1, <1>2, <1>3

THEOREM OlderOnesFirst ==
  IsFiniteSet(Targets) => (Spec => PassedOverForTheOlder)
<1> SUFFICES ASSUME IsFiniteSet(Targets) PROVE Spec => PassedOverForTheOlder
  OBVIOUS
<1> DEFINE Step ==
      \A t \in open \ (marked \cup posted) :
        TakesOldest /\ ~Exhausted(t) /\ t \notin queue'
          => Cardinality(queue') = Cap /\ \A u \in queue' : u < t
<1>1. TypeOK => Step
  <2> SUFFICES ASSUME TypeOK, NEW t \in open \ (marked \cup posted),
                      TakesOldest, ~Exhausted(t), t \notin queue'
               PROVE  Cardinality(queue') = Cap /\ \A u \in queue' : u < t
    OBVIOUS
  <2>1. PICK S \in SUBSET open : t \in S /\ queue' = Oldest(Cap, S)
    <3>1. CASE EventBegins /\ pc' = "loop"
      <4>1. queue' = Oldest(Cap, {u \in open \ marked : ~Exhausted(u)})
        BY <3>1 DEF EventBegins, EventCandidates
      <4> QED BY <4>1
    <3>2. CASE ReviewBegins
      <4>1. PICK U \in SUBSET ReviewWindow : queue' = ReviewCandidates(U)
        BY <3>2 DEF ReviewBegins, Begins
      <4> QED BY <4>1, ReviewKeeps
    <3> QED BY <3>1, <3>2 DEF TakesOldest
  <2>2. S \in SUBSET Targets /\ Targets \subseteq Nat
    BY DispatchAssumption DEF TypeOK, WorldTypeOK
  <2>3. IsFiniteSet(S) /\ S \in SUBSET Nat
    BY <2>2, FS_Subset
  <2>4. t \in S \ Oldest(Cap, S) /\ Cap \in Nat
    BY <2>1, DispatchAssumption
  <2> QED BY <2>1, <2>3, <2>4, OldestIsFull
<1> QED BY <1>1, TypeCorrect, PTL DEF PassedOverForTheOlder

(* The steps a pass still has before it: two for each target that waits,   *)
(* one for the agent it waits for, one to end.                             *)
StepsLeft ==
  IF pc = "idle" THEN 0 ELSE 1 + 2 * Cardinality(queue) + (IF pc = "working" THEN 1 ELSE 0)

(* A pass never has more than Cap targets before it ...                    *)
PassIsBounded == StepsLeft <= 2 * Cap + 1

(* ... and whatever it does, or happens to it, brings it closer to its end: *)
(* it starts no more than Cap agents, and comes to the next tick.          *)
PassRunsOut == [][pc # "idle" /\ ~UNCHANGED passVars => StepsLeft' < StepsLeft]_vars

(* The base branch is one target.                                          *)
PassInv ==
  /\ mode = "base" => Cardinality(open) <= 1
  /\ pc = "idle" => queue = {}
  /\ Cardinality(queue) + (IF pc = "working" THEN 1 ELSE 0) <= Cap

LEMMA SetsAreFinite ==
  ASSUME IsFiniteSet(Targets), NEW S \in SUBSET Targets
  PROVE  S \in SUBSET Nat /\ IsFiniteSet(S) /\ Cardinality(S) \in Nat
BY DispatchAssumption, FS_Subset, FS_CardinalityType

LEMMA QueueShrinks ==
  ASSUME TypeOK, IsFiniteSet(Targets), NEW t \in Targets, IsNext(t), queue' = queue \ {t}
  PROVE  /\ pc = "loop" /\ Cardinality(queue) \in Nat /\ Cardinality(queue') \in Nat
         /\ Cardinality(queue') = Cardinality(queue) - 1
<1>1. queue \in SUBSET Targets /\ queue' \in SUBSET Targets
  BY DEF TypeOK, PassTypeOK
<1>2. t \in queue /\ pc = "loop"
  BY DEF IsNext
<1> QED BY <1>1, <1>2, SetsAreFinite, FS_RemoveElement

LEMMA QueueBegins ==
  ASSUME TypeOK, PassInv, IsFiniteSet(Targets), NEW S \in SUBSET open,
         \/ queue' = Oldest(Cap, S)
         \/ mode = "base" /\ queue' = S
  PROVE  Cardinality(queue') \in 0..Cap
<1>1. open \in SUBSET Targets /\ S \in SUBSET Targets
  BY DEF TypeOK, WorldTypeOK
<1>2. CASE queue' = Oldest(Cap, S)
  BY <1>1, <1>2, SetsAreFinite, OldestIsCapped, DispatchAssumption
<1>3. CASE mode = "base" /\ queue' = S
  <2>1. Cardinality(S) <= Cardinality(open) /\ Cardinality(open) <= 1
    BY <1>1, <1>3, SetsAreFinite, FS_Subset DEF PassInv
  <2> QED BY <1>1, <1>3, <2>1, SetsAreFinite, DispatchAssumption
<1> QED BY <1>2, <1>3

PassStep == PassInv' /\ (pc # "idle" /\ ~UNCHANGED passVars => StepsLeft' < StepsLeft)

LEMMA NextPass ==
  ASSUME TypeOK, PassInv, [Next]_vars, IsFiniteSet(Targets)
  PROVE  PassStep
<1> USE DEF PassStep
<1>a. /\ queue \in SUBSET Targets /\ open \in SUBSET Targets
      /\ pc \in {"idle", "loop", "working"}
  BY DEF TypeOK, WorldTypeOK, PassTypeOK
<1>b. /\ Cardinality(queue) \in Nat /\ Cardinality(open) \in Nat
      /\ Cap \in Nat /\ Cap > 0
  BY <1>a, SetsAreFinite, DispatchAssumption
<1>c. Cardinality({}) = 0
  BY FS_EmptySet
(* Steps outside the pass.                                                 *)
<1>d. ASSUME mode' = mode, UNCHANGED passVars, Cardinality(open') <= Cardinality(open) \/ mode # "base"
             \/ Cardinality(open') <= 1,
             Cardinality(open') \in Nat
      PROVE  PassStep
  BY <1>d, <1>b DEF PassInv
(* Steps that end it.                                                      *)
<1>e. ASSUME mode' = mode, open' = open, pc # "idle", pc' = "idle", queue' = {} PROVE PassStep
  BY <1>e, <1>a, <1>b, <1>c DEF PassInv, StepsLeft
(* The agent it waited for is done.                                        *)
<1>f. ASSUME Records, Cardinality(open') <= Cardinality(open), Cardinality(open') \in Nat PROVE PassStep
  BY <1>f, <1>b DEF Records, PassInv, StepsLeft
<1>1. CASE EventBegins
  <2>1. pc = "idle" /\ mode' = mode /\ open' = open /\ mode # "base"
    BY <1>1 DEF EventBegins
  <2>2. CASE pc' = "idle"
    BY <1>1, <2>1, <2>2, <1>b DEF EventBegins, PassInv
  <2>3. CASE pc' # "idle"
    <3>1. pc' = "loop" /\ queue' = Oldest(Cap, {u \in open \ marked : ~Exhausted(u)})
      BY <1>1, <2>3 DEF EventBegins, EventCandidates
    <3>2. Cardinality(queue') \in 0..Cap
      BY <3>1, QueueBegins
    <3> QED BY <2>1, <3>1, <3>2, <1>b DEF PassInv
  <2> QED BY <2>2, <2>3
<1>2. CASE PrBegins
  <2>1. PICK S \in SUBSET open : queue' = Oldest(Cap, S)
    <3>1. PICK unseen \in SUBSET open : Begins(PrCandidates(open \ unseen))
      BY <1>2 DEF PrBegins
    <3> QED BY <3>1 DEF Begins, PrCandidates
  <2>2. Cardinality(queue') \in 0..Cap
    BY <2>1, QueueBegins
  <2>3. pc = "idle" /\ pc' = "loop" /\ mode' = mode /\ open' = open
    BY <1>2 DEF PrBegins, Begins
  <2> QED BY <2>2, <2>3, <1>b DEF PassInv
<1>3. CASE BaseBegins
  <2>1. PICK S \in SUBSET open : mode = "base" /\ queue' = S
    BY <1>3 DEF BaseBegins, Begins
  <2>2. Cardinality(queue') \in 0..Cap
    BY <2>1, QueueBegins
  <2>3. pc = "idle" /\ pc' = "loop" /\ mode' = mode /\ open' = open
    BY <1>3 DEF BaseBegins, Begins
  <2> QED BY <2>2, <2>3, <1>b DEF PassInv
<1>4. CASE ReviewBegins
  <2>1. PICK S \in SUBSET open : queue' = Oldest(Cap, S)
    <3>1. PICK U \in SUBSET ReviewWindow : queue' = ReviewCandidates(U)
      BY <1>4 DEF ReviewBegins, Begins
    <3>2. ReviewWindow \subseteq open
      BY OldestSub DEF ReviewWindow
    <3> QED BY <3>1, <3>2 DEF ReviewCandidates
  <2>2. Cardinality(queue') \in 0..Cap
    BY <2>1, QueueBegins
  <2>3. pc = "idle" /\ pc' = "loop" /\ mode' = mode /\ open' = open
    BY <1>4 DEF ReviewBegins, Begins
  <2> QED BY <2>2, <2>3, <1>b DEF PassInv
<1>5. CASE Reconciles
  BY <1>5, <1>b, <1>d DEF Reconciles
<1>6. CASE BeginFails
  BY <1>6, <1>b, <1>d DEF BeginFails, Fault, Interferes
<1>7. CASE WorkerDone
  <2>1. Records /\ open' \in SUBSET open
    BY <1>7 DEF WorkerDone
  <2>2. Cardinality(open') <= Cardinality(open) /\ Cardinality(open') \in Nat
    BY <2>1, <1>a, SetsAreFinite, FS_Subset
  <2> QED BY <2>1, <2>2, <1>f
<1>8. CASE WorkerFails
  BY <1>8, <1>b, <1>f DEF WorkerFails
<1>9. CASE ReviewDone
  BY <1>9, <1>b, <1>f DEF ReviewDone
<1>10. CASE ReviewUnclear
  BY <1>10, <1>b, <1>f DEF ReviewUnclear
<1>11. CASE ReviewBlocks
  BY <1>11, <1>b, <1>f DEF ReviewBlocks
<1>12. CASE ReviewKilled
  BY <1>12, <1>b, <1>f DEF ReviewKilled
<1>13. CASE PassEnds
  BY <1>13, <1>e DEF PassEnds
<1>14. CASE Crash
  BY <1>14, <1>e DEF Crash
<1>15. ASSUME NEW t \in Targets, SkipsExhausted(t) PROVE PassStep
  <2>1. IsNext(t) /\ queue' = queue \ {t} /\ mode' = mode /\ open' = open
    BY <1>15 DEF SkipsExhausted, Skips
  <2>2. pc' = pc
    BY <1>15 DEF SkipsExhausted, Skips
  <2> QED BY <2>1, <2>2, <1>b, QueueShrinks DEF PassInv, StepsLeft
<1>16. ASSUME NEW t \in Targets, SkipsLive(t) PROVE PassStep
  <2>1. IsNext(t) /\ queue' = queue \ {t} /\ mode' = mode /\ open' = open
    BY <1>16 DEF SkipsLive, Skips
  <2>2. pc' = pc
    BY <1>16 DEF SkipsLive, Skips
  <2> QED BY <2>1, <2>2, <1>b, QueueShrinks DEF PassInv, StepsLeft
<1>17. ASSUME NEW t \in Targets, SkipsHeadless(t) PROVE PassStep
  <2>1. IsNext(t) /\ queue' = queue \ {t} /\ mode' = mode /\ open' = open
    BY <1>17 DEF SkipsHeadless, Skips
  <2>2. pc' = pc
    BY <1>17 DEF SkipsHeadless, Skips
  <2> QED BY <2>1, <2>2, <1>b, QueueShrinks DEF PassInv, StepsLeft
<1>18. ASSUME NEW t \in Targets, SkipsBadRef(t) PROVE PassStep
  <2>1. IsNext(t) /\ queue' = queue \ {t} /\ mode' = mode /\ open' = open
    BY <1>18 DEF SkipsBadRef, Skips
  <2>2. pc' = pc
    BY <1>18 DEF SkipsBadRef, Skips
  <2> QED BY <2>1, <2>2, <1>b, QueueShrinks DEF PassInv, StepsLeft
<1>19. ASSUME NEW t \in Targets, SkipsDirty(t) PROVE PassStep
  <2>1. IsNext(t) /\ queue' = queue \ {t} /\ mode' = mode /\ open' = open
    BY <1>19 DEF SkipsDirty, Skips
  <2>2. pc' = pc
    BY <1>19 DEF SkipsDirty, Skips
  <2> QED BY <2>1, <2>2, <1>b, QueueShrinks DEF PassInv, StepsLeft
<1>20. ASSUME NEW t \in Targets, DispatchFails(t) PROVE PassStep
  <2>1. IsNext(t) /\ queue' = queue \ {t} /\ mode' = mode /\ open' = open
    BY <1>20 DEF DispatchFails, IsNext
  <2>2. pc' = pc
    BY <1>20 DEF DispatchFails
  <2> QED BY <2>1, <2>2, <1>b, QueueShrinks DEF PassInv, StepsLeft
<1>21. ASSUME NEW t \in Targets, WorkerStarts(t) PROVE PassStep
  <2>1. IsNext(t) /\ queue' = queue \ {t} /\ mode' = mode /\ open' = open
    BY <1>21 DEF WorkerStarts, MayStart
  <2>2. pc' = "working"
    BY <1>21 DEF WorkerStarts
  <2> QED BY <2>1, <2>2, <1>b, QueueShrinks DEF PassInv, StepsLeft
<1>22. ASSUME NEW t \in Targets, OrphanEnds(t) PROVE PassStep
  BY <1>22, <1>b, <1>d DEF OrphanEnds, Posts
<1>23. ASSUME NEW t \in Targets, Unblocks(t) PROVE PassStep
  BY <1>23, <1>b, <1>d DEF Unblocks
<1>24. ASSUME NEW t \in Targets, Rescues(t) PROVE PassStep
  BY <1>24, <1>b, <1>d DEF Rescues
<1>25. ASSUME NEW t \in Targets, Opens(t) PROVE PassStep
  <2>1. open' = open \cup {t} /\ (mode = "base" => open = {}) /\ mode' = mode /\ UNCHANGED passVars
    BY <1>25 DEF Opens, Interferes
  <2>2. Cardinality(open') \in Nat
    BY <2>1, <1>a, SetsAreFinite
  <2>3. mode = "base" => Cardinality(open') <= 1
    <3> SUFFICES ASSUME mode = "base" PROVE Cardinality(open') <= 1
      OBVIOUS
    <3>1. open' = {t}
      BY <2>1
    <3> QED BY <3>1, FS_Singleton
  <2> QED BY <2>1, <2>2, <2>3, <1>d
<1>26. ASSUME NEW t \in Targets, Closes(t) PROVE PassStep
  <2>1. open' = open \ {t} /\ mode' = mode /\ UNCHANGED passVars
    BY <1>26 DEF Closes, Interferes
  <2>2. Cardinality(open') \in Nat /\ Cardinality(open') <= Cardinality(open)
    BY <2>1, <1>a, SetsAreFinite, FS_Subset
  <2> QED BY <2>1, <2>2, <1>d
<1>27. CASE UNCHANGED vars
  BY <1>27, <1>b, <1>d DEF vars
<1> HIDE DEF PassStep
<1> HIDE DEF TypeOK
<1> QED
  BY <1>1, <1>2, <1>3, <1>4, <1>5, <1>6, <1>7, <1>8, <1>9, <1>10, <1>11, <1>12, <1>13,
     <1>14, <1>15, <1>16, <1>17, <1>18, <1>19, <1>20, <1>21, <1>22, <1>23, <1>24, <1>25,
     <1>26, <1>27
     DEF Next

(* A pass starts no more than Cap agents, and comes to its end in at most  *)
(* 2 * Cap + 1 steps, whatever goes wrong: the tick lock is not held for   *)
(* ever, as long as each agent is waited for with a timeout.               *)
THEOREM PassesEnd ==
  IsFiniteSet(Targets) => (Spec => []PassIsBounded /\ PassRunsOut)
<1> SUFFICES ASSUME IsFiniteSet(Targets) PROVE Spec => []PassIsBounded /\ PassRunsOut
  OBVIOUS
<1>1. Init => PassInv
  BY FS_EmptySet, DispatchAssumption DEF Init, PassInv
<1>2. TypeOK /\ PassInv => PassIsBounded
  <2> SUFFICES ASSUME TypeOK, PassInv PROVE PassIsBounded
    OBVIOUS
  <2>1. Cardinality(queue) \in Nat /\ Cap \in Nat
    BY SetsAreFinite, DispatchAssumption DEF TypeOK, PassTypeOK
  <2> QED BY <2>1 DEF PassInv, PassIsBounded, StepsLeft
<1>3. TypeOK /\ PassInv /\ [Next]_vars
        => PassInv' /\ (pc # "idle" /\ ~UNCHANGED passVars => StepsLeft' < StepsLeft)
  BY NextPass DEF PassStep
<1> QED BY <1>1, <1>2, <1>3, TypeCorrect, PTL DEF Spec, PassRunsOut
=============================================================================

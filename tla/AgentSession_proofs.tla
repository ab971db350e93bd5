------------------------ MODULE AgentSession_proofs ------------------------
(* Theorems about AgentSession, for any number of retries and any amount   *)
(* of trouble.                                                             *)
EXTENDS AgentSession, TLAPS

(* The run is not yet past the start of its agent.                          *)
BeforeAgent == {"reap", "reapclose", "pane", "start", "stickyclose", "restart"}

(* The latest run's agent exists while `mine`, and only a start makes it.   *)
MineIsThere ==
  /\ mine => holder # "none"
  /\ pc \in BeforeAgent => ~mine

(* The prompt is undelivered until the wait, and to an agent that is still  *)
(* there it is sent again only if it was turned down.                       *)
Undelivered ==
  /\ got \in 0..1
  /\ pc \in BeforeAgent \cup {"ready"} => got = 0
  /\ pc = "prompt" /\ mine => got = 0

(* An agent nobody is at work with was left for a reason.                   *)
LeftForAReason ==
  own /\ holder # "none" /\ (~mine \/ pc \in {"idle", "judge"}) => left # "none"

(* While nothing has interfered with a run: which agent of an earlier run   *)
(* may hold the name, until the run has one of its own, and from the wait   *)
(* on the prompt is delivered.                                              *)
Undisturbed ==
  /\ began <= trouble
  /\ own /\ trouble = began =>
       /\ pc = "reap" => holder \notin Live
       /\ pc = "reapclose" => holder \in Settled
       /\ pc \in {"pane", "start"} => holder \in Sticky \cup {"none"}
       /\ pc = "stickyclose" => holder \in Sticky
       /\ pc = "restart" => holder = "none"
       /\ pc \in {"ready", "prompt", "wait"} => mine
       /\ pc \in {"wait", "settled", "nudge", "close", "judge", "failclose"} => got = 1
       /\ pc = "idle" /\ outcome # "none" => got = 1

IInv == MineIsThere /\ Undelivered /\ LeftForAReason

USE DEF BeforeAgent, Settled, Sticky, Live, Stopped

LEMMA InitIInv == Init => IInv
BY DEF Init, IInv, MineIsThere, Undelivered, LeftForAReason

LEMMA NextMine ==
  ASSUME IInv, [Next]_vars
  PROVE  MineIsThere'
<1> USE DEF IInv, MineIsThere
<1>1. CASE RunBegins BY <1>1 DEF RunBegins
<1>2. CASE FailsBeforeThePane BY <1>2 DEF FailsBeforeThePane, Ends, worldVars
<1>3. CASE IsUnclear BY <1>3 DEF IsUnclear, Retries
<1>4. CASE Polls BY <1>4 DEF Polls, worldVars
<1>5. CASE SettlesOddly BY <1>5 DEF SettlesOddly, worldVars
<1>6. CASE LooksForStale BY <1>6 DEF LooksForStale, worldVars
<1>7. CASE ClosesStale BY <1>7 DEF ClosesStale, PaneGone, worldVars
<1>8. CASE OpensPane BY <1>8 DEF OpensPane, worldVars
<1>9. CASE Starts BY <1>9 DEF Starts
<1>10. CASE StartCollides BY <1>10 DEF StartCollides, worldVars
<1>11. CASE ClosesSticky BY <1>11 DEF ClosesSticky, PaneGone, worldVars
<1>12. CASE BecomesReady BY <1>12 DEF BecomesReady, worldVars
<1>13. CASE IsPrompted BY <1>13 DEF IsPrompted
<1>14. CASE IsRejected BY <1>14 DEF IsRejected, Retries, worldVars
<1>15. CASE Settles BY <1>15 DEF Settles, Ends
<1>16. CASE WaitFails BY <1>16 DEF WaitFails, Retries, worldVars
<1>17. CASE FailsAndCloses BY <1>17 DEF FailsAndCloses, Ends, PaneGone, worldVars
<1>18. CASE LooksForReport BY <1>18 DEF LooksForReport, worldVars
<1>19. CASE Nudges BY <1>19 DEF Nudges
<1>20. CASE ClosesPane BY <1>20 DEF ClosesPane, PaneGone, worldVars
<1>21. CASE Judges BY <1>21 DEF Judges, Ends, worldVars
<1>22. CASE AgentWorks BY <1>22 DEF AgentWorks
<1>23. CASE AgentStops BY <1>23 DEF AgentStops
<1>24. CASE HumanRevives BY <1>24 DEF HumanRevives
<1>25. CASE HumanCloses BY <1>25 DEF HumanCloses, PaneGone
<1>26. CASE Crash BY <1>26 DEF Crash
<1>27. CASE UNCHANGED vars BY <1>27 DEF vars, worldVars
<1> QED
  BY <1>1, <1>2, <1>3, <1>4, <1>5, <1>6, <1>7, <1>8, <1>9, <1>10, <1>11, <1>12, <1>13, <1>14,
     <1>15, <1>16, <1>17, <1>18, <1>19, <1>20, <1>21, <1>22, <1>23, <1>24, <1>25, <1>26, <1>27
     DEF Next, RunSteps

LEMMA NextUndelivered ==
  ASSUME IInv, [Next]_vars
  PROVE  Undelivered'
<1> USE DEF IInv, MineIsThere, Undelivered
<1>1. CASE RunBegins BY <1>1 DEF RunBegins, runVars
<1>2. CASE FailsBeforeThePane BY <1>2 DEF FailsBeforeThePane, Ends, worldVars, runVars
<1>3. CASE IsUnclear BY <1>3 DEF IsUnclear, Retries, runVars, IsRetryable
<1>4. CASE Polls BY <1>4 DEF Polls, worldVars, runVars
<1>5. CASE SettlesOddly BY <1>5 DEF SettlesOddly, worldVars, runVars
<1>6. CASE LooksForStale BY <1>6 DEF LooksForStale, worldVars, runVars
<1>7. CASE ClosesStale BY <1>7 DEF ClosesStale, PaneGone, worldVars, runVars
<1>8. CASE OpensPane BY <1>8 DEF OpensPane, worldVars, runVars
<1>9. CASE Starts BY <1>9 DEF Starts, runVars
<1>10. CASE StartCollides BY <1>10 DEF StartCollides, worldVars, runVars
<1>11. CASE ClosesSticky BY <1>11 DEF ClosesSticky, PaneGone, worldVars, runVars
<1>12. CASE BecomesReady BY <1>12 DEF BecomesReady, worldVars, runVars
<1>13. CASE IsPrompted BY <1>13 DEF IsPrompted, runVars
<1>14. CASE IsRejected BY <1>14 DEF IsRejected, Retries, worldVars, runVars, IsRetryable
<1>15. CASE Settles BY <1>15 DEF Settles, Ends, runVars
<1>16. CASE WaitFails BY <1>16 DEF WaitFails, Retries, worldVars, runVars, IsRetryable
<1>17. CASE FailsAndCloses BY <1>17 DEF FailsAndCloses, Ends, PaneGone, worldVars, runVars
<1>18. CASE LooksForReport BY <1>18 DEF LooksForReport, worldVars, runVars
<1>19. CASE Nudges BY <1>19 DEF Nudges, runVars
<1>20. CASE ClosesPane BY <1>20 DEF ClosesPane, PaneGone, worldVars, runVars
<1>21. CASE Judges BY <1>21 DEF Judges, Ends, worldVars, runVars
<1>22. CASE AgentWorks BY <1>22 DEF AgentWorks, runVars
<1>23. CASE AgentStops BY <1>23 DEF AgentStops, runVars
<1>24. CASE HumanRevives BY <1>24 DEF HumanRevives, runVars
<1>25. CASE HumanCloses BY <1>25 DEF HumanCloses, PaneGone, runVars
<1>26. CASE Crash BY <1>26 DEF Crash, runVars
<1>27. CASE UNCHANGED vars BY <1>27 DEF vars, worldVars, runVars
<1> QED
  BY <1>1, <1>2, <1>3, <1>4, <1>5, <1>6, <1>7, <1>8, <1>9, <1>10, <1>11, <1>12, <1>13, <1>14,
     <1>15, <1>16, <1>17, <1>18, <1>19, <1>20, <1>21, <1>22, <1>23, <1>24, <1>25, <1>26, <1>27
     DEF Next, RunSteps

LEMMA NextLeft ==
  ASSUME IInv, [Next]_vars
  PROVE  LeftForAReason'
<1> USE DEF IInv, MineIsThere, LeftForAReason
<1>1. CASE RunBegins BY <1>1 DEF RunBegins
<1>2. CASE FailsBeforeThePane BY <1>2 DEF FailsBeforeThePane, Ends, worldVars
<1>3. CASE IsUnclear BY <1>3 DEF IsUnclear, Retries
<1>4. CASE Polls BY <1>4 DEF Polls, worldVars
<1>5. CASE SettlesOddly BY <1>5 DEF SettlesOddly, worldVars
<1>6. CASE LooksForStale BY <1>6 DEF LooksForStale, worldVars
<1>7. CASE ClosesStale BY <1>7 DEF ClosesStale, PaneGone, worldVars
<1>8. CASE OpensPane BY <1>8 DEF OpensPane, worldVars
<1>9. CASE Starts BY <1>9 DEF Starts
<1>10. CASE StartCollides BY <1>10 DEF StartCollides, worldVars
<1>11. CASE ClosesSticky BY <1>11 DEF ClosesSticky, PaneGone, worldVars
<1>12. CASE BecomesReady BY <1>12 DEF BecomesReady, worldVars
<1>13. CASE IsPrompted BY <1>13 DEF IsPrompted
<1>14. CASE IsRejected BY <1>14 DEF IsRejected, Retries, worldVars
<1>15. CASE Settles BY <1>15 DEF Settles, Ends
<1>16. CASE WaitFails BY <1>16 DEF WaitFails, Retries, worldVars
<1>17. CASE FailsAndCloses BY <1>17 DEF FailsAndCloses, Ends, PaneGone, worldVars
<1>18. CASE LooksForReport BY <1>18 DEF LooksForReport, worldVars
<1>19. CASE Nudges BY <1>19 DEF Nudges
<1>20. CASE ClosesPane BY <1>20 DEF ClosesPane, PaneGone, worldVars
<1>21. CASE Judges BY <1>21 DEF Judges, Ends, worldVars
<1>22. CASE AgentWorks BY <1>22 DEF AgentWorks
<1>23. CASE AgentStops BY <1>23 DEF AgentStops
<1>24. CASE HumanRevives BY <1>24 DEF HumanRevives
<1>25. CASE HumanCloses BY <1>25 DEF HumanCloses, PaneGone
<1>26. CASE Crash BY <1>26 DEF Crash
<1>27. CASE UNCHANGED vars BY <1>27 DEF vars, worldVars
<1> QED
  BY <1>1, <1>2, <1>3, <1>4, <1>5, <1>6, <1>7, <1>8, <1>9, <1>10, <1>11, <1>12, <1>13, <1>14,
     <1>15, <1>16, <1>17, <1>18, <1>19, <1>20, <1>21, <1>22, <1>23, <1>24, <1>25, <1>26, <1>27
     DEF Next, RunSteps

LEMMA NextIInv ==
  ASSUME IInv, [Next]_vars
  PROVE  IInv'
BY NextMine, NextUndelivered, NextLeft DEF IInv

LEMMA AlwaysIInv == Spec => []IInv
BY InitIInv, NextIInv, PTL DEF Spec

(* No run gives its agent the job's prompt twice.  Only a prompt the server *)
(* turned down is sent again, and while the agent waits that happens only   *)
(* after it is gone.                                                        *)
THEOREM PromptIsDeliveredOnce == Spec => []PromptedOnce
<1>1. IInv => PromptedOnce
  BY DEF IInv, Undelivered, PromptedOnce
<1> QED BY <1>1, AlwaysIInv, PTL

(* A job that has its pane to itself leaves an agent behind only for a      *)
(* human, after a close that failed, or when its tick died.                 *)
THEOREM OnlyParkedAgentsStay == Spec => []NoAgentLeftBehind
<1>1. IInv => NoAgentLeftBehind
  BY DEF IInv, LeftForAReason, NoAgentLeftBehind
<1> QED BY <1>1, AlwaysIInv, PTL

LEMMA NextType ==
  ASSUME TypeOK, [Next]_vars
  PROVE  TypeOK'
<1> USE SessionAssumption DEF TypeOK, Interferes, runVars, worldVars
<1>1. CASE RunBegins
  <2>1. HerdrTypeOK'
    BY <1>1 DEF RunBegins, HerdrTypeOK
  <2>2. RunTypeOK'
    BY <1>1 DEF RunBegins, RunTypeOK
  <2>3. CountTypeOK'
    BY <1>1 DEF RunBegins, CountTypeOK
  <2> QED BY <2>1, <2>2, <2>3
<1>2. CASE FailsBeforeThePane
  <2>1. HerdrTypeOK'
    BY <1>2 DEF FailsBeforeThePane, Ends, HerdrTypeOK
  <2>2. RunTypeOK'
    BY <1>2 DEF FailsBeforeThePane, Ends, RunTypeOK
  <2>3. CountTypeOK'
    BY <1>2 DEF FailsBeforeThePane, Ends, CountTypeOK
  <2> QED BY <2>1, <2>2, <2>3
<1>3. CASE IsUnclear
  <2>1. HerdrTypeOK'
    BY <1>3 DEF IsUnclear, Retries, HerdrTypeOK
  <2>2. RunTypeOK'
    BY <1>3 DEF IsUnclear, Retries, RunTypeOK
  <2>3. CountTypeOK'
    BY <1>3 DEF IsUnclear, Retries, CountTypeOK
  <2> QED BY <2>1, <2>2, <2>3
<1>4. CASE Polls
  <2>1. HerdrTypeOK'
    BY <1>4 DEF Polls, HerdrTypeOK
  <2>2. RunTypeOK'
    BY <1>4 DEF Polls, RunTypeOK
  <2>3. CountTypeOK'
    BY <1>4 DEF Polls, CountTypeOK
  <2> QED BY <2>1, <2>2, <2>3
<1>5. CASE SettlesOddly
  <2>1. HerdrTypeOK'
    BY <1>5 DEF SettlesOddly, HerdrTypeOK
  <2>2. RunTypeOK'
    BY <1>5 DEF SettlesOddly, RunTypeOK
  <2>3. CountTypeOK'
    BY <1>5 DEF SettlesOddly, CountTypeOK
  <2> QED BY <2>1, <2>2, <2>3
<1>6. CASE LooksForStale
  <2>1. HerdrTypeOK'
    BY <1>6 DEF LooksForStale, HerdrTypeOK
  <2>2. RunTypeOK'
    BY <1>6 DEF LooksForStale, RunTypeOK
  <2>3. CountTypeOK'
    BY <1>6 DEF LooksForStale, CountTypeOK
  <2> QED BY <2>1, <2>2, <2>3
<1>7. CASE ClosesStale
  <2>1. HerdrTypeOK'
    BY <1>7 DEF ClosesStale, PaneGone, HerdrTypeOK
  <2>2. RunTypeOK'
    BY <1>7 DEF ClosesStale, PaneGone, RunTypeOK
  <2>3. CountTypeOK'
    BY <1>7 DEF ClosesStale, PaneGone, CountTypeOK
  <2> QED BY <2>1, <2>2, <2>3
<1>8. CASE OpensPane
  <2>1. HerdrTypeOK'
    BY <1>8 DEF OpensPane, HerdrTypeOK
  <2>2. RunTypeOK'
    BY <1>8 DEF OpensPane, RunTypeOK
  <2>3. CountTypeOK'
    BY <1>8 DEF OpensPane, CountTypeOK
  <2> QED BY <2>1, <2>2, <2>3
<1>9. CASE Starts
  <2>1. HerdrTypeOK'
    BY <1>9 DEF Starts, HerdrTypeOK
  <2>2. RunTypeOK'
    BY <1>9 DEF Starts, RunTypeOK
  <2>3. CountTypeOK'
    BY <1>9 DEF Starts, CountTypeOK
  <2> QED BY <2>1, <2>2, <2>3
<1>10. CASE StartCollides
  <2>1. HerdrTypeOK'
    BY <1>10 DEF StartCollides, HerdrTypeOK
  <2>2. RunTypeOK'
    BY <1>10 DEF StartCollides, RunTypeOK
  <2>3. CountTypeOK'
    BY <1>10 DEF StartCollides, CountTypeOK
  <2> QED BY <2>1, <2>2, <2>3
<1>11. CASE ClosesSticky
  <2>1. HerdrTypeOK'
    BY <1>11 DEF ClosesSticky, PaneGone, HerdrTypeOK
  <2>2. RunTypeOK'
    BY <1>11 DEF ClosesSticky, PaneGone, RunTypeOK
  <2>3. CountTypeOK'
    BY <1>11 DEF ClosesSticky, PaneGone, CountTypeOK
  <2> QED BY <2>1, <2>2, <2>3
<1>12. CASE BecomesReady
  <2>1. HerdrTypeOK'
    BY <1>12 DEF BecomesReady, HerdrTypeOK
  <2>2. RunTypeOK'
    BY <1>12 DEF BecomesReady, RunTypeOK
  <2>3. CountTypeOK'
    BY <1>12 DEF BecomesReady, CountTypeOK
  <2> QED BY <2>1, <2>2, <2>3
<1>13. CASE IsPrompted
  <2>1. HerdrTypeOK'
    BY <1>13 DEF IsPrompted, HerdrTypeOK
  <2>2. RunTypeOK'
    BY <1>13 DEF IsPrompted, RunTypeOK
  <2>3. CountTypeOK'
    BY <1>13 DEF IsPrompted, CountTypeOK
  <2> QED BY <2>1, <2>2, <2>3
<1>14. CASE IsRejected
  <2>1. HerdrTypeOK'
    BY <1>14 DEF IsRejected, Retries, HerdrTypeOK
  <2>2. RunTypeOK'
    BY <1>14 DEF IsRejected, Retries, RunTypeOK
  <2>3. CountTypeOK'
    BY <1>14 DEF IsRejected, Retries, CountTypeOK
  <2> QED BY <2>1, <2>2, <2>3
<1>15. CASE Settles
  <2>1. HerdrTypeOK'
    BY <1>15 DEF Settles, Ends, HerdrTypeOK
  <2>2. RunTypeOK'
    BY <1>15 DEF Settles, Ends, RunTypeOK
  <2>3. CountTypeOK'
    BY <1>15 DEF Settles, Ends, CountTypeOK
  <2> QED BY <2>1, <2>2, <2>3
<1>16. CASE WaitFails
  <2>1. HerdrTypeOK'
    BY <1>16 DEF WaitFails, Retries, HerdrTypeOK
  <2>2. RunTypeOK'
    BY <1>16 DEF WaitFails, Retries, RunTypeOK
  <2>3. CountTypeOK'
    BY <1>16 DEF WaitFails, Retries, CountTypeOK
  <2> QED BY <2>1, <2>2, <2>3
<1>17. CASE FailsAndCloses
  <2>1. HerdrTypeOK'
    BY <1>17 DEF FailsAndCloses, Ends, PaneGone, HerdrTypeOK
  <2>2. RunTypeOK'
    BY <1>17 DEF FailsAndCloses, Ends, PaneGone, RunTypeOK
  <2>3. CountTypeOK'
    BY <1>17 DEF FailsAndCloses, Ends, PaneGone, CountTypeOK
  <2> QED BY <2>1, <2>2, <2>3
<1>18. CASE LooksForReport
  <2>1. HerdrTypeOK'
    BY <1>18 DEF LooksForReport, HerdrTypeOK
  <2>2. RunTypeOK'
    BY <1>18 DEF LooksForReport, RunTypeOK
  <2>3. CountTypeOK'
    BY <1>18 DEF LooksForReport, CountTypeOK
  <2> QED BY <2>1, <2>2, <2>3
<1>19. CASE Nudges
  <2>1. HerdrTypeOK'
    BY <1>19 DEF Nudges, HerdrTypeOK
  <2>2. RunTypeOK'
    BY <1>19 DEF Nudges, RunTypeOK
  <2>3. CountTypeOK'
    BY <1>19 DEF Nudges, CountTypeOK
  <2> QED BY <2>1, <2>2, <2>3
<1>20. CASE ClosesPane
  <2>1. HerdrTypeOK'
    BY <1>20 DEF ClosesPane, PaneGone, HerdrTypeOK
  <2>2. RunTypeOK'
    BY <1>20 DEF ClosesPane, PaneGone, RunTypeOK
  <2>3. CountTypeOK'
    BY <1>20 DEF ClosesPane, PaneGone, CountTypeOK
  <2> QED BY <2>1, <2>2, <2>3
<1>21. CASE Judges
  <2>1. HerdrTypeOK'
    BY <1>21 DEF Judges, Ends, HerdrTypeOK
  <2>2. RunTypeOK'
    BY <1>21 DEF Judges, Ends, RunTypeOK
  <2>3. CountTypeOK'
    BY <1>21 DEF Judges, Ends, CountTypeOK
  <2> QED BY <2>1, <2>2, <2>3
<1>22. CASE AgentWorks
  <2>1. HerdrTypeOK'
    BY <1>22 DEF AgentWorks, HerdrTypeOK
  <2>2. RunTypeOK'
    BY <1>22 DEF AgentWorks, RunTypeOK
  <2>3. CountTypeOK'
    BY <1>22 DEF AgentWorks, CountTypeOK
  <2> QED BY <2>1, <2>2, <2>3
<1>23. CASE AgentStops
  <2>1. HerdrTypeOK'
    BY <1>23 DEF AgentStops, HerdrTypeOK
  <2>2. RunTypeOK'
    BY <1>23 DEF AgentStops, RunTypeOK
  <2>3. CountTypeOK'
    BY <1>23 DEF AgentStops, CountTypeOK
  <2> QED BY <2>1, <2>2, <2>3
<1>24. CASE HumanRevives
  <2>1. HerdrTypeOK'
    BY <1>24 DEF HumanRevives, HerdrTypeOK
  <2>2. RunTypeOK'
    BY <1>24 DEF HumanRevives, RunTypeOK
  <2>3. CountTypeOK'
    BY <1>24 DEF HumanRevives, CountTypeOK
  <2> QED BY <2>1, <2>2, <2>3
<1>25. CASE HumanCloses
  <2>1. HerdrTypeOK'
    BY <1>25 DEF HumanCloses, PaneGone, HerdrTypeOK
  <2>2. RunTypeOK'
    BY <1>25 DEF HumanCloses, PaneGone, RunTypeOK
  <2>3. CountTypeOK'
    BY <1>25 DEF HumanCloses, PaneGone, CountTypeOK
  <2> QED BY <2>1, <2>2, <2>3
<1>26. CASE Crash
  <2>1. HerdrTypeOK'
    BY <1>26 DEF Crash, HerdrTypeOK
  <2>2. RunTypeOK'
    BY <1>26 DEF Crash, RunTypeOK
  <2>3. CountTypeOK'
    BY <1>26 DEF Crash, CountTypeOK
  <2> QED BY <2>1, <2>2, <2>3
<1>27. CASE UNCHANGED vars
  BY <1>27 DEF vars, HerdrTypeOK, RunTypeOK, CountTypeOK
<1> HIDE DEF TypeOK, Interferes, runVars, worldVars
<1> QED
  BY <1>1, <1>2, <1>3, <1>4, <1>5, <1>6, <1>7, <1>8, <1>9, <1>10, <1>11, <1>12, <1>13, <1>14,
     <1>15, <1>16, <1>17, <1>18, <1>19, <1>20, <1>21, <1>22, <1>23, <1>24, <1>25, <1>26, <1>27
     DEF Next, RunSteps

(* Every variable stays in its set.                                         *)
THEOREM TypeCorrect == Spec => []TypeOK
<1>1. Init => TypeOK
  <2>1. Init => HerdrTypeOK
    BY DEF Init, HerdrTypeOK
  <2>2. Init => RunTypeOK
    BY DEF Init, RunTypeOK
  <2>3. Init => CountTypeOK
    BY SessionAssumption DEF Init, CountTypeOK
  <2> QED BY <2>1, <2>2, <2>3 DEF TypeOK
<1> QED BY <1>1, NextType, PTL DEF Spec
----------------------------------------------------------------------------
(* That a run nothing interferes with delivers its prompt.                  *)

LEMMA NextUndisturbed ==
  ASSUME TypeOK, IInv, Undisturbed, [Next]_vars
  PROVE  Undisturbed'
<1>1. trouble \in Nat /\ began \in Nat /\ got \in Nat
  BY SessionAssumption DEF TypeOK, CountTypeOK
<1> USE <1>1 DEF IInv, MineIsThere, Undelivered, Undisturbed, Interferes, worldVars, runVars
<1>2. CASE RunBegins BY <1>2 DEF RunBegins
<1>3. CASE FailsBeforeThePane BY <1>3 DEF FailsBeforeThePane, Ends
<1>4. CASE IsUnclear BY <1>4 DEF IsUnclear, Retries
<1>5. CASE Polls BY <1>5 DEF Polls
<1>6. CASE SettlesOddly BY <1>6 DEF SettlesOddly
<1>7. CASE LooksForStale BY <1>7 DEF LooksForStale, TypeOK, HerdrTypeOK
<1>8. CASE ClosesStale BY <1>8 DEF ClosesStale, PaneGone
<1>9. CASE OpensPane BY <1>9 DEF OpensPane
<1>10. CASE Starts BY <1>10 DEF Starts
<1>11. CASE StartCollides BY <1>11 DEF StartCollides
<1>12. CASE ClosesSticky BY <1>12 DEF ClosesSticky, PaneGone
<1>13. CASE BecomesReady BY <1>13 DEF BecomesReady
<1>14. CASE IsPrompted BY <1>14 DEF IsPrompted
<1>15. CASE IsRejected BY <1>15 DEF IsRejected, Retries, IsRetryable
<1>16. CASE Settles BY <1>16 DEF Settles, Ends
<1>17. CASE WaitFails BY <1>17 DEF WaitFails, Retries, IsRetryable, PromptErrors
<1>18. CASE FailsAndCloses BY <1>18 DEF FailsAndCloses, Ends, PaneGone
<1>19. CASE LooksForReport BY <1>19 DEF LooksForReport
<1>20. CASE Nudges BY <1>20 DEF Nudges
<1>21. CASE ClosesPane BY <1>21 DEF ClosesPane, PaneGone
<1>22. CASE Judges BY <1>22 DEF Judges, Ends
<1>23. CASE AgentWorks BY <1>23 DEF AgentWorks
<1>24. CASE AgentStops BY <1>24 DEF AgentStops
<1>25. CASE HumanRevives BY <1>25 DEF HumanRevives
<1>26. CASE HumanCloses BY <1>26 DEF HumanCloses, PaneGone
<1>27. CASE Crash BY <1>27 DEF Crash
<1>28. CASE UNCHANGED vars BY <1>28 DEF vars
<1> HIDE DEF IInv, MineIsThere, Undelivered, Undisturbed, Interferes, worldVars, runVars
<1> QED
  BY <1>2, <1>3, <1>4, <1>5, <1>6, <1>7, <1>8, <1>9, <1>10, <1>11, <1>12, <1>13, <1>14, <1>15,
     <1>16, <1>17, <1>18, <1>19, <1>20, <1>21, <1>22, <1>23, <1>24, <1>25, <1>26, <1>27, <1>28
     DEF Next, RunSteps

(* Whatever agent earlier runs left under the name: a run that herdr, the   *)
(* host and people leave alone delivers its prompt, if the job has its pane *)
(* to itself.                                                               *)
THEOREM RunsDeliver == Spec => []UndisturbedIsPrompted
<1>1. Init => Undisturbed
  BY DEF Init, Undisturbed
<1>2. Spec => []Undisturbed
  BY <1>1, NextUndisturbed, TypeCorrect, AlwaysIInv, PTL DEF Spec
<1>3. Undisturbed => UndisturbedIsPrompted
  BY DEF Undisturbed, UndisturbedIsPrompted
<1> QED BY <1>2, <1>3, PTL
----------------------------------------------------------------------------
(* That a run ends.                                                        *)

RetriesLeft == 2 * (MaxTries - tries)

(* How many steps the run has still to take, the polls of its wait aside:  *)
(* each retry takes a prompt and a wait.                                   *)
StepsLeft ==
  CASE pc = "idle" -> 0
    [] pc \in {"judge", "failclose"} -> 1
    [] pc = "close" -> 2
    [] pc = "nudge" -> 3
    [] pc = "settled" -> 4
    [] pc = "wait" -> RetriesLeft + 5
    [] pc = "prompt" -> RetriesLeft + 6
    [] pc = "ready" -> RetriesLeft + 7
    [] pc = "restart" -> RetriesLeft + 8
    [] pc = "stickyclose" -> RetriesLeft + 9
    [] pc = "start" -> RetriesLeft + 10
    [] pc = "pane" -> RetriesLeft + 11
    [] pc = "reapclose" -> RetriesLeft + 12
    [] pc = "reap" -> RetriesLeft + 13

(* execute_run goes back to an earlier step for one thing only, to send a  *)
(* prompt again that was turned down: a run takes at most so many steps... *)
RunIsBounded == StepsLeft <= 2 * MaxTries + 13

(* ... since whatever it does, or happens to it, brings it closer to its   *)
(* end: a name that is taken is freed once and never fought for, and a     *)
(* prompt goes out at most MaxTries + 1 times.                             *)
RunRunsOut ==
  [][pc # "idle" /\ ~UNCHANGED <<pc, tries>> => StepsLeft' < StepsLeft]_vars

LEMMA StepsLeftType ==
  ASSUME TypeOK
  PROVE  StepsLeft \in Nat /\ RunIsBounded /\ (pc # "idle" => StepsLeft > 0)
<1>1. RetriesLeft \in 0..(2 * MaxTries)
  BY SessionAssumption DEF TypeOK, CountTypeOK, RetriesLeft
<1> QED
  BY <1>1, SessionAssumption DEF TypeOK, RunTypeOK, StepsLeft, RunIsBounded

(* One step of the run.                                                    *)
RunStep == pc # "idle" /\ ~UNCHANGED <<pc, tries>> => StepsLeft' < StepsLeft

(* A retry that is left is worth the two steps it takes.                   *)
LEMMA RetryStep ==
  ASSUME TypeOK, TypeOK', NEW error, Retries(error), pc \in {"prompt", "wait"}
  PROVE  StepsLeft' < StepsLeft
<1>1. RetriesLeft \in Nat /\ MaxTries \in Nat /\ tries \in Nat
  BY SessionAssumption DEF TypeOK, CountTypeOK, RetriesLeft
<1>2. CASE pc' = "prompt" /\ tries' = tries + 1
  <2>1. RetriesLeft' = RetriesLeft - 2 /\ RetriesLeft' \in Nat
    BY <1>1, <1>2, SessionAssumption DEF RetriesLeft, TypeOK, CountTypeOK
  <2> QED BY <1>1, <1>2, <2>1 DEF StepsLeft
<1>3. CASE pc' = "failclose"
  BY <1>1, <1>3 DEF StepsLeft
<1> QED BY <1>2, <1>3 DEF Retries

LEMMA NextRunStep ==
  ASSUME TypeOK, TypeOK', [Next]_vars
  PROVE  RunStep
<1>1. RetriesLeft \in Nat /\ (tries' = tries => RetriesLeft' = RetriesLeft)
  <2>1. RetriesLeft \in Nat
    BY SessionAssumption DEF TypeOK, CountTypeOK, RetriesLeft
  <2>2. tries' = tries => RetriesLeft' = RetriesLeft
    BY DEF RetriesLeft
  <2> QED BY <2>1, <2>2
<1>2. CASE RunBegins
  BY <1>2 DEF RunBegins, RunStep
<1>3. CASE FailsBeforeThePane
  BY <1>1, <1>3, StepsLeftType DEF FailsBeforeThePane, Ends, RunStep, StepsLeft
<1>4. CASE IsUnclear
  BY <1>4, RetryStep DEF IsUnclear, RunStep
<1>5. CASE Polls
  BY <1>1, <1>5 DEF Polls, RunStep, StepsLeft, runVars
<1>6. CASE SettlesOddly
  BY <1>1, <1>6 DEF SettlesOddly, RunStep, StepsLeft, runVars
<1>7. CASE LooksForStale
  BY <1>1, <1>7 DEF LooksForStale, RunStep, StepsLeft, runVars
<1>8. CASE ClosesStale
  BY <1>1, <1>8 DEF ClosesStale, RunStep, StepsLeft, runVars
<1>9. CASE OpensPane
  BY <1>1, <1>9 DEF OpensPane, RunStep, StepsLeft, runVars
<1>10. CASE Starts
  BY <1>1, <1>10 DEF Starts, RunStep, StepsLeft, runVars
<1>11. CASE StartCollides
  BY <1>1, <1>11 DEF StartCollides, RunStep, StepsLeft, runVars
<1>12. CASE ClosesSticky
  BY <1>1, <1>12 DEF ClosesSticky, RunStep, StepsLeft, runVars
<1>13. CASE BecomesReady
  BY <1>1, <1>13 DEF BecomesReady, RunStep, StepsLeft, runVars
<1>14. CASE IsPrompted
  BY <1>1, <1>14 DEF IsPrompted, RunStep, StepsLeft, runVars
<1>15. CASE IsRejected
  BY <1>15, RetryStep DEF IsRejected, RunStep
<1>16. CASE Settles
  BY <1>1, <1>16 DEF Settles, Ends, RunStep, StepsLeft, runVars
<1>17. CASE WaitFails
  BY <1>17, RetryStep DEF WaitFails, RunStep
<1>18. CASE FailsAndCloses
  BY <1>1, <1>18 DEF FailsAndCloses, Ends, RunStep, StepsLeft, runVars
<1>19. CASE LooksForReport
  BY <1>1, <1>19 DEF LooksForReport, RunStep, StepsLeft, runVars
<1>20. CASE Nudges
  BY <1>1, <1>20 DEF Nudges, RunStep, StepsLeft, runVars
<1>21. CASE ClosesPane
  BY <1>1, <1>21 DEF ClosesPane, RunStep, StepsLeft, runVars
<1>22. CASE Judges
  BY <1>1, <1>22 DEF Judges, Ends, RunStep, StepsLeft, runVars
<1>23. CASE Crash
  BY <1>1, <1>23, StepsLeftType DEF Crash, RunStep, StepsLeft
<1>24. CASE AgentWorks
  BY <1>24 DEF AgentWorks, RunStep, runVars
<1>25. CASE AgentStops
  BY <1>25 DEF AgentStops, RunStep, runVars
<1>26. CASE HumanRevives
  BY <1>26 DEF HumanRevives, RunStep, runVars
<1>27. CASE HumanCloses
  BY <1>27 DEF HumanCloses, RunStep, runVars
<1>28. CASE UNCHANGED vars
  BY <1>28 DEF vars, runVars, RunStep
<1> QED
  BY <1>2, <1>3, <1>4, <1>5, <1>6, <1>7, <1>8, <1>9, <1>10, <1>11, <1>12, <1>13, <1>14,
     <1>15, <1>16, <1>17, <1>18, <1>19, <1>20, <1>21, <1>22, <1>23, <1>24, <1>25, <1>26,
     <1>27, <1>28
     DEF Next, RunSteps

(* For any number of retries, and whatever herdr, the host and people do,  *)
(* a run has a bounded number of steps left and every step uses one up:    *)
(* execute_run returns, if herdr answers and its agents stop.              *)
THEOREM RunsEnd == Spec => []RunIsBounded /\ RunRunsOut
<1>1. TypeOK => RunIsBounded
  BY StepsLeftType
<1>2. TypeOK /\ TypeOK' /\ [Next]_vars => RunStep
  BY NextRunStep
<1>3. RunStep => [pc # "idle" /\ ~UNCHANGED <<pc, tries>> => StepsLeft' < StepsLeft]_vars
  BY DEF RunStep
<1> QED BY <1>1, <1>2, <1>3, TypeCorrect, PTL DEF Spec, RunRunsOut
=============================================================================

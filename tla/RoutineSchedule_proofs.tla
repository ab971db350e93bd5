------------------------ MODULE RoutineSchedule_proofs ------------------------
(***************************************************************************)
(* What fires, fires once, in RoutineSchedule: for any schedule, any       *)
(* catch-up window, any number of retries and any length of time.          *)
(***************************************************************************)
EXTENDS RoutineSchedule, TLAPS, WellFoundedInduction

USE DEF historyVars, eventVars, ghostVars, runVars

----------------------------------------------------------------------------
(* The type invariant.                                                     *)

LEMMA NoRunType == NoRun \in Runs
BY RoutineAssumption DEF NoRun, Runs, NoId, NoEvent

LEMMA CronRunType ==
  ASSUME NEW o \in Cron, NEW wrote \in BOOLEAN
  PROVE  /\ CronRun(o, wrote) \in Runs
         /\ {CronRun(o, wrote).base, CronRun(o, wrote).id} \subseteq RunIds
         /\ CronRun(o, wrote).id = [of |-> "cron", at |-> o, retry |-> 0]
         /\ CronRun(o, wrote).off = FALSE /\ CronRun(o, wrote).event = NoEvent
         /\ CronRun(o, wrote).wrote = wrote
<1> DEFINE id == [of |-> "cron", at |-> o, retry |-> 0]
<1>1. id \in RunIds
  BY RoutineAssumption DEF RunIds, Times
<1>2. CronRun(o, wrote) = [NoRun EXCEPT !.base = id, !.id = id, !.wrote = wrote]
  BY DEF CronRun
<1>3. wrote \in {TRUE, FALSE}
  OBVIOUS
<1>4. NoRun.off = FALSE /\ NoRun.event = NoEvent
  BY DEF NoRun
<1> SUFFICES /\ CronRun(o, wrote) \in Runs
             /\ {CronRun(o, wrote).base, CronRun(o, wrote).id} \subseteq RunIds
             /\ CronRun(o, wrote).id = id
             /\ CronRun(o, wrote).off = FALSE /\ CronRun(o, wrote).event = NoEvent
             /\ CronRun(o, wrote).wrote = wrote
  OBVIOUS
<1> HIDE DEF id
<1> QED BY <1>1, <1>2, <1>3, <1>4, NoRunType DEF Runs

LEMMA OffRunType ==
  ASSUME NEW at \in Times, NEW e \in Events \cup {NoEvent}
  PROVE  /\ OffRun(at, e) \in Runs
         /\ {OffRun(at, e).base, OffRun(at, e).id} \subseteq RunIds
         /\ OffRun(at, e).id.of = "now" /\ OffRun(at, e).base.of = "now"
         /\ OffRun(at, e).off /\ OffRun(at, e).event = e
         /\ OffRun(at, e).wrote = (e # NoEvent)
<1> DEFINE id == [of |-> "now", at |-> at, retry |-> 0]
<1>1. id \in RunIds
  BY RoutineAssumption DEF RunIds, Times
<1> DEFINE wrote == e # NoEvent
<1>2. OffRun(at, e) = [NoRun EXCEPT !.base = id, !.id = id, !.off = TRUE, !.event = e,
                                    !.wrote = wrote]
  BY DEF OffRun
<1>3. id.of = "now"
  OBVIOUS
<1>4. wrote \in {TRUE, FALSE}
  OBVIOUS
<1> HIDE DEF id, wrote
<1>5. OffRun(at, e) \in Runs
  BY <1>1, <1>2, <1>4, NoRunType DEF Runs
<1>6. /\ OffRun(at, e).base = id /\ OffRun(at, e).id = id
      /\ OffRun(at, e).off /\ OffRun(at, e).event = e /\ OffRun(at, e).wrote = wrote
  BY <1>2, NoRunType DEF Runs
<1> QED BY <1>1, <1>3, <1>5, <1>6 DEF wrote

LEMMA FallbackType ==
  ASSUME RunTypeOK, now \in Times, FallbackBegins
  PROVE  /\ run' \in Runs /\ run'.base = run.base /\ run.base \in RunIds
         /\ run'.id \in RunIds /\ run'.id.of = "fallback" /\ run'.off = run.off
         /\ run'.event = run.event
<1> DEFINE id == [of |-> "fallback", at |-> now, retry |-> 0]
<1>1. id \in RunIds /\ id.of = "fallback"
  BY RoutineAssumption DEF RunIds
<1>2. run' = [run EXCEPT !.id = id, !.fellBack = TRUE]
  BY DEF FallbackBegins
<1>3. run \in Runs /\ run.base \in RunIds
  BY DEF FallbackBegins, RunTypeOK
<1> HIDE DEF id
<1> QED BY <1>1, <1>2, <1>3 DEF Runs

LEMMA RetryType ==
  ASSUME RunTypeOK, RetryBegins
  PROVE  /\ run' \in Runs /\ run'.base = run.base /\ run.base \in RunIds
         /\ run'.id \in RunIds /\ run'.id.of = run.base.of /\ run'.off = run.off
         /\ run'.id.retry # 0 /\ run'.event = run.event
<1> DEFINE id == [run.base EXCEPT !.retry = run.attempt + 1]
<1>1. run \in Runs /\ run.base \in RunIds /\ run.attempt \in 0..RetryAttempts
        /\ run.attempt < RetryAttempts
  BY DEF RetryBegins, RunTypeOK, Runs
<1>2. id \in RunIds /\ id.of = run.base.of /\ id.retry # 0
  BY <1>1, RoutineAssumption DEF RunIds
<1>3. run' = [run EXCEPT !.id = id, !.attempt = @ + 1, !.fellBack = FALSE]
  BY DEF RetryBegins
<1>4. run.attempt + 1 \in 0..RetryAttempts
  BY <1>1, RoutineAssumption
<1> HIDE DEF id
<1> QED BY <1>1, <1>2, <1>3, <1>4 DEF Runs

LEMMA TickRunsType ==
  ASSUME TickRuns
  PROVE  \E o \in Cron : /\ IsLatest(o)
                        /\ run' \in Runs /\ {run'.base, run'.id} \subseteq RunIds
                        /\ run'.id = [of |-> "cron", at |-> o, retry |-> 0]
                        /\ run'.off = FALSE /\ run'.event = NoEvent
                        /\ run'.wrote = (Earlier(o) # {})
                        /\ IF Earlier(o) # {}
                             THEN lastRun' = now /\ told' = told \cup WallsOf(Earlier(o))
                             ELSE UNCHANGED <<lastRun, told>>
<1>1. PICK o \in Cron : /\ IsLatest(o) /\ run' = CronRun(o, Earlier(o) # {})
                       /\ IF Earlier(o) # {}
                            THEN lastRun' = now /\ told' = told \cup WallsOf(Earlier(o))
                            ELSE UNCHANGED <<lastRun, told>>
  BY DEF TickRuns, Notes
<1>2. (Earlier(o) # {}) \in BOOLEAN
  OBVIOUS
<1> DEFINE wrote == Earlier(o) # {}
<1> HIDE DEF wrote
<1>3. run' = CronRun(o, wrote) /\ wrote \in BOOLEAN
  BY <1>1, <1>2 DEF wrote
<1> QED BY <1>1, <1>3, CronRunType DEF wrote

LEMMA RunAtTickType ==
  ASSUME RunTypeOK, TickRuns
  PROVE  RunTypeOK'
<1>1. PICK o \in Cron : /\ run' \in Runs /\ {run'.base, run'.id} \subseteq RunIds
                       /\ run'.id = [of |-> "cron", at |-> o, retry |-> 0]
  BY TickRunsType
<1>2. run'.id.at = o
  BY <1>1
<1>3. pc' = "dispatch" /\ UNCHANGED <<latest, closed, offIds>>
  BY DEF TickRuns, Notes
<1> QED BY <1>1, <1>2, <1>3 DEF RunTypeOK

LEMMA FiresType ==
  ASSUME RunTypeOK, EventTypeOK, pc = "dispatch", Fires
  PROVE  told' \subseteq Nat /\ fires' \in [Cron -> Nat] /\ answers' \in [Events -> Nat]
<1>1. run.id.of = "cron" => run.id.at \in Cron
  BY DEF RunTypeOK
<1>2. told' \subseteq Nat
  BY <1>1, RoutineAssumption DEF Fires, EventTypeOK
<1>3. fires' \in [Cron -> Nat]
  BY <1>1 DEF Fires, EventTypeOK
<1>4. answers' \in [Events -> Nat]
  <2>1. run.event # NoEvent => run.event \in Events
    BY DEF RunTypeOK, Runs
  <2> QED BY <2>1 DEF Fires, EventTypeOK
<1> QED BY <1>2, <1>3, <1>4

LEMMA WallsType == \A S \in SUBSET Cron : WallsOf(S) \subseteq Nat
BY RoutineAssumption DEF WallsOf

LEMMA DueType ==
  /\ Due \subseteq Cron
  /\ \A s : OccurrencesSince(s) \subseteq Cron
  /\ \A o : Earlier(o) \subseteq Cron
BY DEF Due, OccurrencesSince, Earlier

LEMMA NextType ==
  ASSUME TypeOK, [Next]_vars
  PROVE  TypeOK'
<1> USE RoutineAssumption DEF TypeOK, Times
<1>1. CASE Elapses
  <2>1. ClockTypeOK'
    BY <1>1 DEF Elapses, ClockTypeOK
  <2>2. RunTypeOK'
    BY <1>1 DEF Elapses, RunTypeOK
  <2>3. EventTypeOK'
    BY <1>1 DEF Elapses, EventTypeOK, RunTypeOK
  <2> QED BY <2>1, <2>2, <2>3
<1>2. CASE TickRegisters
  <2>1. ClockTypeOK'
    BY <1>2 DEF TickRegisters, TakesLock, ClockTypeOK
  <2>2. RunTypeOK'
    BY <1>2 DEF TickRegisters, TakesLock, RunTypeOK
  <2>3. EventTypeOK'
    BY <1>2 DEF TickRegisters, TakesLock, EventTypeOK, RunTypeOK
  <2> QED BY <2>1, <2>2, <2>3
<1>3. CASE TickStarts
  <2>1. ClockTypeOK'
    BY <1>3 DEF TickStarts, TakesLock, ClockTypeOK
  <2>2. RunTypeOK'
    BY <1>3 DEF TickStarts, TakesLock, RunTypeOK
  <2>3. EventTypeOK'
    BY <1>3 DEF TickStarts, TakesLock, EventTypeOK, RunTypeOK
  <2> QED BY <2>1, <2>2, <2>3
<1>4. CASE TickRecovers
  <2>1. ClockTypeOK'
    BY <1>4 DEF TickRecovers, Stale, IsOpen, PastDeadline, Closes, Counts, Blocks, ClockTypeOK
  <2>2. RunTypeOK'
    BY <1>4 DEF TickRecovers, Stale, IsOpen, PastDeadline, Closes, Counts, Blocks, RunTypeOK
  <2>3. EventTypeOK'
    BY <1>4, WallsType, DueType DEF TickRecovers, Closes, Blocks, EventTypeOK
  <2> QED BY <2>1, <2>2, <2>3
<1>5. CASE TickFindsRun
  <2>1. ClockTypeOK'
    BY <1>5 DEF TickFindsRun, CurrentlyRunning, ClockTypeOK
  <2>2. RunTypeOK'
    BY <1>5 DEF TickFindsRun, CurrentlyRunning, RunTypeOK
  <2>3. EventTypeOK'
    BY <1>5 DEF TickFindsRun, CurrentlyRunning, EventTypeOK, RunTypeOK
  <2> QED BY <2>1, <2>2, <2>3
<1>6. CASE TickFindsAgent
  <2>1. ClockTypeOK'
    BY <1>6 DEF TickFindsAgent, Stale, CurrentlyRunning, Notes, Blocks, ClockTypeOK
  <2>2. RunTypeOK'
    BY <1>6 DEF TickFindsAgent, Stale, CurrentlyRunning, Notes, Blocks, RunTypeOK
  <2>3. EventTypeOK'
    BY <1>6, WallsType, DueType DEF TickFindsAgent, Blocks, EventTypeOK
  <2> QED BY <2>1, <2>2, <2>3
<1>7. CASE TickRuns
  <2>1. ClockTypeOK'
    BY <1>7 DEF TickRuns, Passed, IsLatest, Notes, CronRun, NoRun, ClockTypeOK
  <2>2. RunTypeOK'
    BY <1>7, RunAtTickType
  <2>3. EventTypeOK'
    BY <1>7, WallsType, DueType DEF TickRuns, Notes, EventTypeOK
  <2> QED BY <2>1, <2>2, <2>3
<1>8. CASE TickMisses
  <2>1. ClockTypeOK'
    BY <1>8 DEF TickMisses, Passed, Notes, IsLatest, ClockTypeOK
  <2>2. RunTypeOK'
    BY <1>8 DEF TickMisses, Passed, Notes, IsLatest, RunTypeOK
  <2>3. EventTypeOK'
    BY <1>8, WallsType, DueType DEF TickMisses, EventTypeOK
  <2> QED BY <2>1, <2>2, <2>3
<1>9. CASE TickNotDue
  <2>1. ClockTypeOK'
    BY <1>9 DEF TickNotDue, Passed, ClockTypeOK
  <2>2. RunTypeOK'
    BY <1>9 DEF TickNotDue, Passed, RunTypeOK
  <2>3. EventTypeOK'
    BY <1>9 DEF TickNotDue, Passed, EventTypeOK, RunTypeOK
  <2> QED BY <2>1, <2>2, <2>3
<1>10. CASE PollFails
  <2>1. ClockTypeOK'
    BY <1>10 DEF PollFails, Polls, ClockTypeOK
  <2>2. RunTypeOK'
    BY <1>10 DEF PollFails, Polls, RunTypeOK
  <2>3. EventTypeOK'
    BY <1>10 DEF PollFails, Polls, EventTypeOK, RunTypeOK
  <2> QED BY <2>1, <2>2, <2>3
<1>11. CASE PollAdopts
  <2>1. ClockTypeOK'
    BY <1>11 DEF PollAdopts, Polls, ClockTypeOK
  <2>2. RunTypeOK'
    BY <1>11 DEF PollAdopts, Polls, RunTypeOK
  <2>3. EventTypeOK'
    BY <1>11 DEF PollAdopts, Polls, EventTypeOK, RunTypeOK
  <2> QED BY <2>1, <2>2, <2>3
<1>12. CASE PollIsQuiet
  <2>1. ClockTypeOK'
    BY <1>12 DEF PollIsQuiet, Polls, Marks, ClockTypeOK
  <2>2. RunTypeOK'
    BY <1>12 DEF PollIsQuiet, Polls, Marks, RunTypeOK
  <2>3. EventTypeOK'
    BY <1>12 DEF PollIsQuiet, Polls, Marks, EventTypeOK, RunTypeOK
  <2> QED BY <2>1, <2>2, <2>3
<1>13. CASE PollFires
  <2>1. ClockTypeOK'
    BY <1>13 DEF PollFires, Polls, Marks, OffRun, NoRun, ClockTypeOK
  <2>2. RunTypeOK'
    BY <1>13, OffRunType DEF PollFires, Polls, RunTypeOK, ClockTypeOK, EventTypeOK
  <2>3. EventTypeOK'
    BY <1>13 DEF PollFires, Polls, Marks, OffRun, NoRun, EventTypeOK, RunTypeOK
  <2> QED BY <2>1, <2>2, <2>3
<1>14. CASE PickSettles
  <2>1. ClockTypeOK'
    BY <1>14 DEF PickSettles, Closes, Counts, Fires, NoRun, ClockTypeOK
  <2>2. RunTypeOK'
    BY <1>14, NoRunType DEF PickSettles, Closes, Fires, RunTypeOK
  <2>3. EventTypeOK'
    BY <1>14, FiresType DEF PickSettles, EventTypeOK
  <2> QED BY <2>1, <2>2, <2>3
<1>15. CASE RunBegins
  <2>1. ClockTypeOK'
    BY <1>15 DEF RunBegins, Opens, Fires, ClockTypeOK
  <2>2. RunTypeOK'
    BY <1>15 DEF RunBegins, Opens, Fires, RunTypeOK
  <2>3. EventTypeOK'
    BY <1>15, FiresType DEF RunBegins, EventTypeOK
  <2> QED BY <2>1, <2>2, <2>3
<1>16. CASE FallsBack
  <2>1. ClockTypeOK'
    BY <1>16 DEF FallsBack, Settles, Closes, Counts, UsesFallback, ClockTypeOK
  <2>2. RunTypeOK'
    BY <1>16 DEF FallsBack, Settles, Closes, Counts, UsesFallback, RunTypeOK
  <2>3. EventTypeOK'
    BY <1>16 DEF FallsBack, Settles, Closes, Counts, UsesFallback, EventTypeOK, RunTypeOK
  <2> QED BY <2>1, <2>2, <2>3
<1>17. CASE FallbackBegins
  <2>1. ClockTypeOK'
    BY <1>17 DEF FallbackBegins, Opens, ClockTypeOK
  <2>2. RunTypeOK'
    BY <1>17, FallbackType DEF FallbackBegins, Opens, RunTypeOK, ClockTypeOK
  <2>3. EventTypeOK'
    BY <1>17 DEF FallbackBegins, Opens, EventTypeOK, RunTypeOK
  <2> QED BY <2>1, <2>2, <2>3
<1>18. CASE RetryIsDue
  <2>1. ClockTypeOK'
    BY <1>18 DEF RetryIsDue, Settles, Closes, Counts, UsesFallback, Retries, Outcomes, ClockTypeOK
  <2>2. RunTypeOK'
    BY <1>18 DEF RetryIsDue, Settles, Closes, Counts, UsesFallback, Retries, Outcomes, RunTypeOK
  <2>3. EventTypeOK'
    BY <1>18 DEF RetryIsDue, Settles, Closes, Counts, UsesFallback, Retries, Outcomes,
         EventTypeOK, RunTypeOK
  <2> QED BY <2>1, <2>2, <2>3
<1>19. CASE RetryBegins
  <2>1. ClockTypeOK'
    BY <1>19 DEF RetryBegins, Opens, ClockTypeOK
  <2>2. RunTypeOK'
    BY <1>19, RetryType DEF RetryBegins, Opens, RunTypeOK
  <2>3. EventTypeOK'
    BY <1>19 DEF RetryBegins, Opens, EventTypeOK, RunTypeOK
  <2> QED BY <2>1, <2>2, <2>3
<1>20. CASE RunEnds
  <2>1. ClockTypeOK'
    BY <1>20 DEF RunEnds, Settles, Closes, Counts, NoRun, ClockTypeOK
  <2>2. RunTypeOK'
    BY <1>20, NoRunType DEF RunEnds, Settles, Closes, RunTypeOK
  <2>3. EventTypeOK'
    BY <1>20 DEF RunEnds, Settles, Closes, Counts, NoRun, EventTypeOK, RunTypeOK
  <2> QED BY <2>1, <2>2, <2>3
<1>21. CASE Crashes
  <2>1. ClockTypeOK'
    BY <1>21 DEF Crashes, NoRun, ClockTypeOK
  <2>2. RunTypeOK'
    BY <1>21, NoRunType DEF Crashes, RunTypeOK
  <2>3. EventTypeOK'
    BY <1>21 DEF Crashes, NoRun, EventTypeOK, RunTypeOK
  <2> QED BY <2>1, <2>2, <2>3
<1>22. CASE Raises
  <2>1. ClockTypeOK'
    BY <1>22 DEF Raises, NoRun, IsOpen, Notes, Closes, Counts, ClockTypeOK
  <2>2. RunTypeOK'
    BY <1>22, NoRunType DEF Raises, IsOpen, Notes, Closes, RunTypeOK
  <2>3. EventTypeOK'
    BY <1>22, WallsType DEF Raises, Consumed, EventTypeOK
  <2> QED BY <2>1, <2>2, <2>3
<1>23. CASE OrphanSettles
  <2>1. ClockTypeOK'
    BY <1>23 DEF OrphanSettles, ClockTypeOK
  <2>2. RunTypeOK'
    BY <1>23 DEF OrphanSettles, RunTypeOK
  <2>3. EventTypeOK'
    BY <1>23 DEF OrphanSettles, EventTypeOK, RunTypeOK
  <2> QED BY <2>1, <2>2, <2>3
<1>24. CASE EventComes
  <2>1. ClockTypeOK'
    BY <1>24 DEF EventComes, ClockTypeOK
  <2>2. RunTypeOK'
    BY <1>24 DEF EventComes, RunTypeOK
  <2>3. EventTypeOK'
    BY <1>24 DEF EventComes, EventTypeOK, RunTypeOK
  <2> QED BY <2>1, <2>2, <2>3
<1>25. CASE EventClears
  <2>1. ClockTypeOK'
    BY <1>25 DEF EventClears, ClockTypeOK
  <2>2. RunTypeOK'
    BY <1>25 DEF EventClears, RunTypeOK
  <2>3. EventTypeOK'
    BY <1>25 DEF EventClears, EventTypeOK, RunTypeOK
  <2> QED BY <2>1, <2>2, <2>3
<1>26. CASE Request
  <2>1. ClockTypeOK'
    BY <1>26 DEF Request, TakesLock, OffRun, NoRun, IsOpen, ClockTypeOK
  <2>2. RunTypeOK'
    BY <1>26, OffRunType DEF Request, TakesLock, RunTypeOK, ClockTypeOK
  <2>3. EventTypeOK'
    BY <1>26 DEF Request, TakesLock, OffRun, NoRun, IsOpen, EventTypeOK, RunTypeOK
  <2> QED BY <2>1, <2>2, <2>3
<1>27. CASE UNCHANGED vars
  BY <1>27 DEF vars, ClockTypeOK, RunTypeOK, EventTypeOK
<1> HIDE DEF TypeOK, Times
<1> QED
  BY <1>1, <1>2, <1>3, <1>4, <1>5, <1>6, <1>7, <1>8, <1>9, <1>10, <1>11, <1>12, <1>13, <1>14,
     <1>15, <1>16, <1>17, <1>18, <1>19, <1>20, <1>21, <1>22, <1>23, <1>24, <1>25, <1>26, <1>27
     DEF Next, Tick, Dispatch, World

(* Every variable stays in its set, and a run under way has an id.         *)
THEOREM TypeCorrect == Spec => []TypeOK
<1>1. Init => TypeOK
  <2>1. Init => ClockTypeOK
    <3>1. 0 \in Times /\ 1 \in Times
      BY RoutineAssumption DEF Times
    <3> QED BY <3>1 DEF Init, ClockTypeOK
  <2>2. Init => RunTypeOK
    BY NoRunType DEF Init, RunTypeOK
  <2>3. Init => EventTypeOK
    BY DEF Init, EventTypeOK
  <2> QED BY <2>1, <2>2, <2>3 DEF TypeOK
<1> QED BY <1>1, NextType, PTL DEF Spec

----------------------------------------------------------------------------
(* Time.                                                                   *)

(* A pass has a moment of its own, and no record is later than it.         *)
TimeInv ==
  /\ now <= clock
  /\ lastRun <= now
  /\ pc # "idle" => now > 0

LEMMA NextTime ==
  ASSUME TypeOK, TimeInv, [Next]_vars
  PROVE  TimeInv'
<1> USE DEF TypeOK, ClockTypeOK, Times
<1>1. CASE Elapses
  BY <1>1 DEF Elapses, TimeInv
<1>2. CASE TickRegisters
  BY <1>2 DEF TickRegisters, TakesLock, TimeInv
<1>3. CASE TickStarts
  BY <1>3 DEF TickStarts, TakesLock, TimeInv
<1>4. CASE TickRecovers
  BY <1>4 DEF TickRecovers, Stale, IsOpen, PastDeadline, Closes, Counts, Blocks, TimeInv
<1>5. CASE TickFindsRun
  BY <1>5 DEF TickFindsRun, CurrentlyRunning, TimeInv
<1>6. CASE TickFindsAgent
  BY <1>6 DEF TickFindsAgent, Stale, CurrentlyRunning, Notes, Blocks, TimeInv
<1>7. CASE TickRuns
  BY <1>7 DEF TickRuns, Passed, IsLatest, Notes, CronRun, NoRun, TimeInv
<1>8. CASE TickMisses
  BY <1>8 DEF TickMisses, Passed, Notes, IsLatest, TimeInv
<1>9. CASE TickNotDue
  BY <1>9 DEF TickNotDue, Passed, TimeInv
<1>10. CASE PollFails
  BY <1>10 DEF PollFails, Polls, TimeInv
<1>11. CASE PollAdopts
  BY <1>11 DEF PollAdopts, Polls, TimeInv
<1>12. CASE PollIsQuiet
  BY <1>12 DEF PollIsQuiet, Polls, Marks, TimeInv
<1>13. CASE PollFires
  BY <1>13 DEF PollFires, Polls, Marks, OffRun, NoRun, TimeInv
<1>14. CASE PickSettles
  BY <1>14 DEF PickSettles, Closes, Counts, Fires, NoRun, TimeInv
<1>15. CASE RunBegins
  BY <1>15 DEF RunBegins, Opens, Fires, TimeInv
<1>16. CASE FallsBack
  BY <1>16 DEF FallsBack, Settles, Closes, Counts, UsesFallback, TimeInv
<1>17. CASE FallbackBegins
  BY <1>17 DEF FallbackBegins, Opens, TimeInv
<1>18. CASE RetryIsDue
  BY <1>18 DEF RetryIsDue, Settles, Closes, Counts, UsesFallback, Retries, Outcomes, TimeInv
<1>19. CASE RetryBegins
  BY <1>19 DEF RetryBegins, Opens, TimeInv
<1>20. CASE RunEnds
  BY <1>20 DEF RunEnds, Settles, Closes, Counts, NoRun, TimeInv
<1>21. CASE Crashes
  BY <1>21 DEF Crashes, NoRun, TimeInv
<1>22. CASE Raises
  BY <1>22 DEF Raises, NoRun, IsOpen, Notes, Closes, Counts, TimeInv
<1>23. CASE OrphanSettles
  BY <1>23 DEF OrphanSettles, TimeInv
<1>24. CASE EventComes
  BY <1>24 DEF EventComes, TimeInv
<1>25. CASE EventClears
  BY <1>25 DEF EventClears, TimeInv
<1>26. CASE Request
  BY <1>26 DEF Request, TakesLock, OffRun, NoRun, IsOpen, TimeInv
<1>27. CASE UNCHANGED vars
  BY <1>27 DEF vars, TimeInv
<1> HIDE DEF TypeOK, TimeInv
<1> QED
  BY <1>1, <1>2, <1>3, <1>4, <1>5, <1>6, <1>7, <1>8, <1>9, <1>10, <1>11, <1>12, <1>13, <1>14,
     <1>15, <1>16, <1>17, <1>18, <1>19, <1>20, <1>21, <1>22, <1>23, <1>24, <1>25, <1>26, <1>27
     DEF Next, Tick, Dispatch, World

LEMMA TimeHolds == Spec => [](TypeOK /\ TimeInv)
<1>1. Init => TimeInv
  BY DEF Init, TimeInv
<1> QED BY <1>1, NextTime, TypeCorrect, PTL DEF Spec

----------------------------------------------------------------------------
(* Occurrences.                                                            *)

(* The run of the occurrence o, at its first attempt.                      *)
CronId(o) == [of |-> "cron", at |-> o, retry |-> 0]

LEMMA IdFacts ==
  /\ \A o : CronId(o).of = "cron" /\ CronId(o).at = o /\ CronId(o).retry = 0
  /\ \A o, p : CronId(o) = CronId(p) => o = p
  /\ \A o : CronId(o) # NoId
BY DEF CronId, NoId

(* o was run, and a record of its run is still open.                       *)
Pending(o) == latest = CronId(o) /\ latest \notin closed

Active == {"dispatch", "running", "fallback", "retry"}

(* What is under way: the cron's runs and the others do not share ids.     *)
RunInv ==
  /\ pc \in Active /\ run.off => run.base.of # "cron" /\ run.id.of # "cron"
  /\ pc = "running" => run.id = latest
  /\ pc \in {"poll", "dispatch", "fallback", "retry"} => ~IsOpen
  /\ pc = "dispatch" /\ ~run.off
       => \E o \in Cron : run.id = CronId(o) /\ o <= now /\ fires[o] = 0
  /\ pc \in Active \ {"dispatch"} /\ ~run.off
       => \A o \in Cron : run.id = CronId(o) => fires[o] >= 1

(* A record of an occurrence's run: it counts for the schedule, and the    *)
(* occurrence was run.                                                     *)
RecordInv ==
  \A o \in Cron :
    /\ CronId(o) \notin offIds
    /\ CronId(o) \in closed => fires[o] >= 1
    /\ latest = CronId(o) => fires[o] >= 1

(* An occurrence that was run is behind the schedule, or its run is open.  *)
FireInv ==
  \A o \in Cron :
    /\ fires[o] <= 1
    /\ fires[o] >= 1 => o <= now /\ (o <= lastRun \/ Pending(o))

OccInv == RunInv /\ RecordInv /\ FireInv

LEMMA RunAtTick ==
  ASSUME TypeOK, OccInv, TickRuns
  PROVE  RunInv'
<1> USE DEF OccInv
<1>1. PICK o \in Cron : IsLatest(o) /\ run'.id = CronId(o) /\ run'.off = FALSE
  BY TickRunsType DEF CronId
<1>2. ~IsOpen
  BY DEF TickRuns, Passed, Stale, CurrentlyRunning, PastDeadline
<1>3. pc' = "dispatch" /\ UNCHANGED <<now, latest, closed, fires>>
  BY DEF TickRuns, Notes
<1>4. o > Since /\ o <= now /\ o > 0
  BY <1>1, RoutineAssumption DEF IsLatest, Due, OccurrencesSince
<1>5. fires[o] = 0
  <2> SUFFICES ASSUME fires[o] >= 1 PROVE FALSE
    BY DEF TypeOK, EventTypeOK
  <2>1. o <= lastRun
    BY <1>2, IdFacts DEF FireInv, Pending, IsOpen
  <2>2. lastRun \in Nat /\ o \in Nat
    BY RoutineAssumption DEF TypeOK, ClockTypeOK, Times
  <2> QED BY <2>1, <2>2, <1>4 DEF Since
<1> QED BY <1>1, <1>2, <1>3, <1>4, <1>5 DEF RunInv, Active, IsOpen

LEMMA NextOcc ==
  ASSUME "shadow" \notin Faults, TypeOK, TimeInv, OccInv, [Next]_vars
  PROVE  OccInv'
<1> USE RoutineAssumption, IdFacts DEF TypeOK, ClockTypeOK, RunTypeOK, EventTypeOK, Times, OccInv
<1>1. CASE Elapses
  <2>1. RunInv'
    BY <1>1 DEF Elapses, RunInv, TimeInv, RecordInv, FireInv, Pending, Active, IsOpen
  <2>2. RecordInv'
    BY <1>1 DEF Elapses, RecordInv, RunInv, Active
  <2>3. FireInv'
    BY <1>1 DEF Elapses, TimeInv, RunInv, RecordInv, FireInv, Pending, Active, IsOpen
  <2> QED BY <2>1, <2>2, <2>3
<1>2. CASE TickRegisters
  <2>1. RunInv'
    BY <1>2 DEF TickRegisters, TakesLock, RunInv, TimeInv, RecordInv, FireInv, Pending, Active,
         IsOpen
  <2>2. RecordInv'
    BY <1>2 DEF TickRegisters, TakesLock, RecordInv, RunInv, Active
  <2>3. FireInv'
    BY <1>2 DEF TickRegisters, TakesLock, TimeInv, RunInv, RecordInv, FireInv, Pending, Active,
         IsOpen
  <2> QED BY <2>1, <2>2, <2>3
<1>3. CASE TickStarts
  <2>1. RunInv'
    BY <1>3 DEF TickStarts, TakesLock, RunInv, TimeInv, RecordInv, FireInv, Pending, Active,
         IsOpen
  <2>2. RecordInv'
    BY <1>3 DEF TickStarts, TakesLock, RecordInv, RunInv, Active
  <2>3. FireInv'
    BY <1>3 DEF TickStarts, TakesLock, TimeInv, RunInv, RecordInv, FireInv, Pending, Active,
         IsOpen
  <2> QED BY <2>1, <2>2, <2>3
<1>4. CASE TickRecovers
  <2>1. RunInv'
    BY <1>4 DEF TickRecovers, Stale, IsOpen, PastDeadline, Closes, Counts, Blocks, RunInv,
         TimeInv, RecordInv, FireInv, Pending, Active
  <2>2. RecordInv'
    BY <1>4 DEF TickRecovers, Stale, IsOpen, PastDeadline, Closes, Counts, Blocks, RecordInv,
         RunInv, Active
  <2>3. FireInv'
    BY <1>4 DEF TickRecovers, Stale, IsOpen, PastDeadline, Closes, Counts, Blocks, TimeInv,
         RunInv, RecordInv, FireInv, Pending, Active
  <2> QED BY <2>1, <2>2, <2>3
<1>5. CASE TickFindsRun
  <2>1. RunInv'
    BY <1>5 DEF TickFindsRun, CurrentlyRunning, RunInv, TimeInv, RecordInv, FireInv, Pending,
         Active, IsOpen
  <2>2. RecordInv'
    BY <1>5 DEF TickFindsRun, CurrentlyRunning, RecordInv, RunInv, Active
  <2>3. FireInv'
    BY <1>5 DEF TickFindsRun, CurrentlyRunning, TimeInv, RunInv, RecordInv, FireInv, Pending,
         Active, IsOpen
  <2> QED BY <2>1, <2>2, <2>3
<1>6. CASE TickFindsAgent
  <2>1. RunInv'
    BY <1>6 DEF TickFindsAgent, Stale, CurrentlyRunning, Notes, Blocks, RunInv, TimeInv,
         RecordInv, FireInv, Pending, Active, IsOpen
  <2>2. RecordInv'
    BY <1>6 DEF TickFindsAgent, Stale, CurrentlyRunning, Notes, Blocks, RecordInv, RunInv, Active
  <2>3. FireInv'
    BY <1>6 DEF TickFindsAgent, Stale, CurrentlyRunning, Notes, Blocks, TimeInv, RunInv,
         RecordInv, FireInv, Pending, Active, IsOpen
  <2> QED BY <2>1, <2>2, <2>3
<1>7. CASE TickRuns
  <2>1. RunInv'
    BY <1>7, RunAtTick
  <2>2. RecordInv'
    BY <1>7 DEF TickRuns, Passed, IsLatest, Notes, CronRun, NoRun, RecordInv, RunInv, Active
  <2>3. FireInv'
    BY <1>7 DEF TickRuns, Passed, IsLatest, Notes, CronRun, NoRun, TimeInv, RunInv, RecordInv,
         FireInv, Pending, Active, IsOpen, Stale, PastDeadline, CurrentlyRunning
  <2> QED BY <2>1, <2>2, <2>3
<1>8. CASE TickMisses
  <2>1. RunInv'
    BY <1>8 DEF TickMisses, Passed, Notes, IsLatest, RunInv, TimeInv, RecordInv, FireInv,
         Pending, Active, IsOpen, Stale, PastDeadline, CurrentlyRunning
  <2>2. RecordInv'
    BY <1>8 DEF TickMisses, Passed, Notes, IsLatest, RecordInv, RunInv, Active
  <2>3. FireInv'
    BY <1>8 DEF TickMisses, Passed, Notes, IsLatest, TimeInv, RunInv, RecordInv, FireInv,
         Pending, Active, IsOpen, Stale, PastDeadline, CurrentlyRunning
  <2> QED BY <2>1, <2>2, <2>3
<1>9. CASE TickNotDue
  <2>1. RunInv'
    BY <1>9 DEF TickNotDue, Passed, RunInv, TimeInv, RecordInv, FireInv, Pending, Active,
         IsOpen, Stale, PastDeadline, CurrentlyRunning
  <2>2. RecordInv'
    BY <1>9 DEF TickNotDue, Passed, RecordInv, RunInv, Active
  <2>3. FireInv'
    BY <1>9 DEF TickNotDue, Passed, TimeInv, RunInv, RecordInv, FireInv, Pending, Active,
         IsOpen, Stale, PastDeadline, CurrentlyRunning
  <2> QED BY <2>1, <2>2, <2>3
<1>10. CASE PollFails
  <2>1. RunInv'
    BY <1>10 DEF PollFails, Polls, RunInv, TimeInv, RecordInv, FireInv, Pending, Active, IsOpen
  <2>2. RecordInv'
    BY <1>10 DEF PollFails, Polls, RecordInv, RunInv, Active
  <2>3. FireInv'
    BY <1>10 DEF PollFails, Polls, TimeInv, RunInv, RecordInv, FireInv, Pending, Active, IsOpen
  <2> QED BY <2>1, <2>2, <2>3
<1>11. CASE PollAdopts
  <2>1. RunInv'
    BY <1>11 DEF PollAdopts, Polls, RunInv, TimeInv, RecordInv, FireInv, Pending, Active, IsOpen
  <2>2. RecordInv'
    BY <1>11 DEF PollAdopts, Polls, RecordInv, RunInv, Active
  <2>3. FireInv'
    BY <1>11 DEF PollAdopts, Polls, TimeInv, RunInv, RecordInv, FireInv, Pending, Active, IsOpen
  <2> QED BY <2>1, <2>2, <2>3
<1>12. CASE PollIsQuiet
  <2>1. RunInv'
    BY <1>12 DEF PollIsQuiet, Polls, Marks, RunInv, TimeInv, RecordInv, FireInv, Pending,
         Active, IsOpen
  <2>2. RecordInv'
    BY <1>12 DEF PollIsQuiet, Polls, Marks, RecordInv, RunInv, Active
  <2>3. FireInv'
    BY <1>12 DEF PollIsQuiet, Polls, Marks, TimeInv, RunInv, RecordInv, FireInv, Pending,
         Active, IsOpen
  <2> QED BY <2>1, <2>2, <2>3
<1>13. CASE PollFires
  <2>1. RunInv'
    BY <1>13 DEF PollFires, Polls, Marks, OffRun, NoRun, RunInv, TimeInv, RecordInv, FireInv,
         Pending, Active, IsOpen
  <2>2. RecordInv'
    BY <1>13 DEF PollFires, Polls, Marks, OffRun, NoRun, RecordInv, RunInv, Active
  <2>3. FireInv'
    BY <1>13 DEF PollFires, Polls, Marks, OffRun, NoRun, TimeInv, RunInv, RecordInv, FireInv,
         Pending, Active, IsOpen
  <2> QED BY <2>1, <2>2, <2>3
<1>14. CASE PickSettles
  <2>1. RunInv'
    BY <1>14 DEF PickSettles, Closes, Counts, Fires, NoRun, RunInv, TimeInv, RecordInv, FireInv,
         Pending, Active, IsOpen
  <2>2. RecordInv'
    BY <1>14 DEF PickSettles, Closes, Counts, Fires, NoRun, RecordInv, RunInv, Active
  <2>3. FireInv'
    BY <1>14 DEF PickSettles, Closes, Counts, Fires, NoRun, TimeInv, RunInv, RecordInv, FireInv,
         Pending, Active, IsOpen
  <2> QED BY <2>1, <2>2, <2>3
<1>15. CASE RunBegins
  <2>1. RunInv'
    BY <1>15 DEF RunBegins, Opens, Fires, RunInv, TimeInv, RecordInv, FireInv, Pending, Active,
         IsOpen
  <2>2. RecordInv'
    BY <1>15 DEF RunBegins, Opens, Fires, RecordInv, RunInv, Active
  <2>3. FireInv'
    BY <1>15 DEF RunBegins, Opens, Fires, TimeInv, RunInv, RecordInv, FireInv, Pending, Active,
         IsOpen
  <2> QED BY <2>1, <2>2, <2>3
<1>16. CASE FallsBack
  <2>1. RunInv'
    BY <1>16 DEF FallsBack, Settles, Closes, Counts, UsesFallback, RunInv, TimeInv, RecordInv,
         FireInv, Pending, Active, IsOpen
  <2>2. RecordInv'
    BY <1>16 DEF FallsBack, Settles, Closes, Counts, UsesFallback, RecordInv, RunInv, Active
  <2>3. FireInv'
    BY <1>16 DEF FallsBack, Settles, Closes, Counts, UsesFallback, TimeInv, RunInv, RecordInv,
         FireInv, Pending, Active, IsOpen
  <2> QED BY <2>1, <2>2, <2>3
<1>17. CASE FallbackBegins
  <2>1. RunInv'
    BY <1>17 DEF FallbackBegins, Opens, RunInv, TimeInv, RecordInv, FireInv, Pending, Active,
         IsOpen
  <2>2. RecordInv'
    BY <1>17 DEF FallbackBegins, Opens, RecordInv, RunInv, Active
  <2>3. FireInv'
    BY <1>17 DEF FallbackBegins, Opens, TimeInv, RunInv, RecordInv, FireInv, Pending, Active,
         IsOpen
  <2> QED BY <2>1, <2>2, <2>3
<1>18. CASE RetryIsDue
  <2>1. RunInv'
    BY <1>18 DEF RetryIsDue, Settles, Closes, Counts, UsesFallback, Retries, Outcomes, RunInv,
         TimeInv, RecordInv, FireInv, Pending, Active, IsOpen
  <2>2. RecordInv'
    BY <1>18 DEF RetryIsDue, Settles, Closes, Counts, UsesFallback, Retries, Outcomes,
         RecordInv, RunInv, Active
  <2>3. FireInv'
    BY <1>18 DEF RetryIsDue, Settles, Closes, Counts, UsesFallback, Retries, Outcomes, TimeInv,
         RunInv, RecordInv, FireInv, Pending, Active, IsOpen
  <2> QED BY <2>1, <2>2, <2>3
<1>19. CASE RetryBegins
  <2>1. RunInv'
    BY <1>19, RetryType DEF RetryBegins, Opens, RunInv, RecordInv, Active, IsOpen
  <2>2. RecordInv'
    BY <1>19, RetryType DEF RetryBegins, Opens, RecordInv, RunInv, Active
  <2>3. FireInv'
    BY <1>19 DEF RetryBegins, Opens, TimeInv, RunInv, RecordInv, FireInv, Pending, Active, IsOpen
  <2> QED BY <2>1, <2>2, <2>3
<1>20. CASE RunEnds
  <2>1. RunInv'
    BY <1>20 DEF RunEnds, Settles, Closes, Counts, NoRun, RunInv, TimeInv, RecordInv, FireInv,
         Pending, Active, IsOpen
  <2>2. RecordInv'
    BY <1>20 DEF RunEnds, Settles, Closes, Counts, NoRun, RecordInv, RunInv, Active
  <2>3. FireInv'
    BY <1>20 DEF RunEnds, Settles, Closes, Counts, NoRun, TimeInv, RunInv, RecordInv, FireInv,
         Pending, Active, IsOpen
  <2> QED BY <2>1, <2>2, <2>3
<1>21. CASE Crashes
  <2>1. RunInv'
    BY <1>21 DEF Crashes, NoRun, RunInv, TimeInv, RecordInv, FireInv, Pending, Active, IsOpen
  <2>2. RecordInv'
    BY <1>21 DEF Crashes, NoRun, RecordInv, RunInv, Active
  <2>3. FireInv'
    BY <1>21 DEF Crashes, NoRun, TimeInv, RunInv, RecordInv, FireInv, Pending, Active, IsOpen
  <2> QED BY <2>1, <2>2, <2>3
<1>22. CASE Raises
  <2>1. RunInv'
    BY <1>22 DEF Raises, NoRun, IsOpen, Notes, Closes, Counts, RunInv, TimeInv, RecordInv,
         FireInv, Pending, Active
  <2>2. RecordInv'
    BY <1>22 DEF Raises, NoRun, IsOpen, Notes, Closes, Counts, RecordInv, RunInv, Active
  <2>3. FireInv'
    BY <1>22 DEF Raises, NoRun, IsOpen, Notes, Closes, Counts, TimeInv, RunInv, RecordInv,
         FireInv, Pending, Active
  <2> QED BY <2>1, <2>2, <2>3
<1>23. CASE OrphanSettles
  <2>1. RunInv'
    BY <1>23 DEF OrphanSettles, RunInv, TimeInv, RecordInv, FireInv, Pending, Active, IsOpen
  <2>2. RecordInv'
    BY <1>23 DEF OrphanSettles, RecordInv, RunInv, Active
  <2>3. FireInv'
    BY <1>23 DEF OrphanSettles, TimeInv, RunInv, RecordInv, FireInv, Pending, Active, IsOpen
  <2> QED BY <2>1, <2>2, <2>3
<1>24. CASE EventComes
  <2>1. RunInv'
    BY <1>24 DEF EventComes, RunInv, TimeInv, RecordInv, FireInv, Pending, Active, IsOpen
  <2>2. RecordInv'
    BY <1>24 DEF EventComes, RecordInv, RunInv, Active
  <2>3. FireInv'
    BY <1>24 DEF EventComes, TimeInv, RunInv, RecordInv, FireInv, Pending, Active, IsOpen
  <2> QED BY <2>1, <2>2, <2>3
<1>25. CASE EventClears
  <2>1. RunInv'
    BY <1>25 DEF EventClears, RunInv, TimeInv, RecordInv, FireInv, Pending, Active, IsOpen
  <2>2. RecordInv'
    BY <1>25 DEF EventClears, RecordInv, RunInv, Active
  <2>3. FireInv'
    BY <1>25 DEF EventClears, TimeInv, RunInv, RecordInv, FireInv, Pending, Active, IsOpen
  <2> QED BY <2>1, <2>2, <2>3
<1>26. CASE Request
  <2>1. RunInv'
    BY <1>26 DEF Request, TakesLock, OffRun, NoRun, IsOpen, RunInv, TimeInv, RecordInv, FireInv,
         Pending, Active
  <2>2. RecordInv'
    BY <1>26 DEF Request, TakesLock, OffRun, NoRun, IsOpen, RecordInv, RunInv, Active
  <2>3. FireInv'
    BY <1>26 DEF Request, TakesLock, OffRun, NoRun, IsOpen, TimeInv, RunInv, RecordInv, FireInv,
         Pending, Active
  <2> QED BY <2>1, <2>2, <2>3
<1>27. CASE UNCHANGED vars
  BY <1>27 DEF vars, RunInv, RecordInv, FireInv, Pending, Active, IsOpen
<1> HIDE DEF TypeOK, OccInv
<1> QED
  BY <1>1, <1>2, <1>3, <1>4, <1>5, <1>6, <1>7, <1>8, <1>9, <1>10, <1>11, <1>12, <1>13, <1>14,
     <1>15, <1>16, <1>17, <1>18, <1>19, <1>20, <1>21, <1>22, <1>23, <1>24, <1>25, <1>26, <1>27
     DEF Next, Tick, Dispatch, World

(* An occurrence is run at most once, unless `herdr-routines run` hides a  *)
(* dead run's record.                                                      *)
THEOREM OccurrencesFireOnce == "shadow" \notin Faults => (Spec => []FiresOnce)
<1> SUFFICES ASSUME "shadow" \notin Faults PROVE Spec => []FiresOnce
  OBVIOUS
<1>1. Init => OccInv
  BY RoutineAssumption
     DEF Init, OccInv, RunInv, RecordInv, FireInv, Pending, Active, CronId, NoId
<1>2. OccInv => FiresOnce
  BY DEF OccInv, FireInv, FiresOnce
<1>3. TypeOK /\ TimeInv /\ OccInv /\ [Next]_vars => OccInv'
  BY NextOcc
<1> QED BY <1>1, <1>2, <1>3, TimeHolds, PTL DEF Spec

----------------------------------------------------------------------------
(* What the schedule moves past.                                           *)

LEMMA Below == \A x, y \in Nat : <<y, x>> \in OpToRel(<, Nat) <=> y < x
<1>1. OpToRel(<, Nat) = {s \in Nat \X Nat : s[1] < s[2]}
  BY Zenon DEF OpToRel
<1> DEFINE R == OpToRel(<, Nat)
<1> HIDE DEF R
<1>2. R = {s \in Nat \X Nat : s[1] < s[2]}
  BY <1>1, Zenon DEF R
<1>3. \A x, y \in Nat : <<y, x>> \in R <=> y < x
  BY <1>2
<1> QED BY <1>3, Zenon DEF R

LEMMA LeastExists ==
  ASSUME NEW T \in SUBSET Nat, T # {}
  PROVE  \E x \in T : \A y \in T : x <= y
<1>1. PICK x \in T : \A y \in T : ~(<<y, x>> \in OpToRel(<, Nat))
  BY NatLessThanWellFounded, WFMin, Zenon
<1>2. \A y \in T : ~(y < x)
  BY <1>1, Below, Zenon
<1> QED BY <1>2, SMT

(* OccurrencesSince drops no wall-clock time: the first instant of each is *)
(* among them.                                                             *)
LEMMA WallsComplete ==
  ASSUME now \in Nat, NEW s \in Nat, NEW o \in Cron, s < o, o <= now
  PROVE  Wall[o] \in WallsOf(OccurrencesSince(s))
<1> DEFINE T == {p \in Cron : s < p /\ p <= now /\ Wall[p] = Wall[o]}
<1>1. T \in SUBSET Nat /\ T # {}
  <2>1. o \in T
    OBVIOUS
  <2>2. \A p \in Cron : p \in Nat
    BY RoutineAssumption
  <2>3. \A p \in T : p \in Nat
    BY <2>2
  <2> QED BY <2>1, <2>3
<1>2. PICK p \in T : \A q \in T : p <= q
  BY <1>1, LeastExists
<1>3. \A q \in Cron : s < q /\ q < p => Wall[q] # Wall[p]
  BY <1>2, RoutineAssumption
<1>4. p \in OccurrencesSince(s)
  BY <1>2, <1>3 DEF OccurrencesSince
<1> QED BY <1>4 DEF WallsOf

Accounted(o) == Wall[o] \in told \cup blocked

(* Its run is about to begin.                                              *)
Coming(o) == pc = "dispatch" /\ run.id.of = "cron" /\ Wall[run.id.at] = Wall[o]

Seen(o) == firstSeen > 0 /\ firstSeen < o

(* A job that was not seen has no schedule, and a run that was requested   *)
(* does not move it.                                                       *)
FirstInv ==
  /\ firstSeen <= now
  /\ firstSeen = 0 => /\ lastRun = 0
                      /\ pc \notin {"guards", "poll"}
                      /\ pc \in Active => run.off /\ run.event = NoEvent

(* Before a decision has left a record, nothing is lost if the tick dies.  *)
WroteInv ==
  pc = "dispatch" /\ ~run.wrote
    => \A o \in Cron : Seen(o) /\ o <= Since => Accounted(o)

(* A run of the cron stands for all that has fallen due.                   *)
StandsInv ==
  pc \in Active /\ ~run.off
    => \A o \in Cron : Seen(o) /\ o <= now => Accounted(o) \/ Coming(o)

PastInv ==
  \A o \in Cron : Seen(o) /\ o <= Since => Accounted(o) \/ Coming(o)

OffInv == pc = "dispatch" /\ run.off => run.id.of # "cron"

VanishInv == FirstInv /\ WroteInv /\ StandsInv /\ PastInv /\ OffInv

(* All that has fallen due when a tick decides.                            *)
LEMMA AllDue ==
  ASSUME TypeOK, PastInv, pc = "guards"
  PROVE  \A o \in Cron : Seen(o) /\ o <= now => Accounted(o) \/ Wall[o] \in WallsOf(Due)
<1>1. now \in Nat /\ Since \in Nat
  BY DEF TypeOK, ClockTypeOK, Times, Since
<1> SUFFICES ASSUME NEW o \in Cron, Seen(o), o <= now, ~(o <= Since)
             PROVE  Wall[o] \in WallsOf(Due)
  BY DEF PastInv, Coming
<1>2. Since < o
  BY <1>1, RoutineAssumption
<1> QED BY <1>1, <1>2, WallsComplete DEF Due

(* The record is the latest one, and everything due is behind it.          *)
LEMMA AllPast ==
  ASSUME \A o \in Cron : Seen(o)' /\ o <= now => Accounted(o)' \/ Coming(o)',
         now' = now, now > 0, lastRun' = now
  PROVE  PastInv'
BY DEF PastInv, Since

LEMMA PastAtRecovery ==
  ASSUME TypeOK, TimeInv, VanishInv, TickRecovers
  PROVE  PastInv'
<1>1. CASE Counts(latest, FALSE)
  <2>1. /\ lastRun' = now /\ UNCHANGED <<now, firstSeen, told>> /\ pc = "guards"
        /\ blocked' = blocked \cup WallsOf(Due)
    BY <1>1 DEF TickRecovers, Closes, Blocks, Due
  <2>2. now > 0
    BY <2>1 DEF TimeInv
  <2>3. \A o \in Cron : Seen(o)' /\ o <= now => Accounted(o)' \/ Coming(o)'
    BY <2>1, AllDue DEF VanishInv, Seen, Accounted
  <2> QED BY <2>1, <2>2, <2>3, AllPast
<1>2. CASE ~Counts(latest, FALSE)
  BY <1>2 DEF TickRecovers, Closes, VanishInv, PastInv, Seen, Accounted, Coming, Since
<1> QED BY <1>1, <1>2

LEMMA PastAtAgent ==
  ASSUME TypeOK, TimeInv, VanishInv, TickFindsAgent
  PROVE  PastInv'
<1>1. /\ lastRun' = now /\ UNCHANGED <<now, firstSeen, told>> /\ pc = "guards"
      /\ blocked' = blocked \cup WallsOf(Due)
  BY DEF TickFindsAgent, Notes, Blocks, Due
<1>2. now > 0
  BY <1>1 DEF TimeInv
<1>3. \A o \in Cron : Seen(o)' /\ o <= now => Accounted(o)' \/ Coming(o)'
  BY <1>1, AllDue DEF VanishInv, Seen, Accounted
<1> QED BY <1>1, <1>2, <1>3, AllPast

LEMMA PastAtMiss ==
  ASSUME TypeOK, TimeInv, VanishInv, TickMisses
  PROVE  PastInv'
<1>1. /\ lastRun' = now /\ UNCHANGED <<now, firstSeen, blocked>> /\ pc = "guards"
      /\ told' = told \cup WallsOf(Due)
  BY DEF TickMisses, Passed, Notes
<1>2. now > 0
  BY <1>1 DEF TimeInv
<1>3. \A o \in Cron : Seen(o)' /\ o <= now => Accounted(o)' \/ Coming(o)'
  BY <1>1, AllDue DEF VanishInv, Seen, Accounted
<1> QED BY <1>1, <1>2, <1>3, AllPast

(* A tick that raises leaves nothing of what it was to decide.             *)
LEMMA PastAtRaise ==
  ASSUME TypeOK, VanishInv, Raises
  PROVE  PastInv'
<1>1. /\ UNCHANGED <<now, firstSeen, told>> /\ pc' = "idle"
      /\ blocked' = blocked \cup Consumed
      /\ lastRun' \in {lastRun, now}
  BY DEF Raises, Closes, Notes
<1>2. /\ {now, Since, Since'} \subseteq Nat
      /\ Since' <= now \/ Since' = Since
  BY <1>1 DEF TypeOK, ClockTypeOK, Times, Since, VanishInv, FirstInv
<1> SUFFICES ASSUME NEW o \in Cron, Seen(o), o <= now \/ o <= Since PROVE Accounted(o)'
  BY <1>1, <1>2, RoutineAssumption DEF PastInv, Seen, Accounted
<1>3. CASE o <= Since
  <2>1. Accounted(o) \/ Coming(o)
    BY <1>3 DEF VanishInv, PastInv
  <2>2. CASE Coming(o)
    <3>1. run.id.at \in Cron
      BY <2>2 DEF Coming, TypeOK, RunTypeOK
    <3> QED BY <1>1, <2>2, <3>1 DEF Coming, Consumed, WallsOf, Accounted
  <2> QED BY <1>1, <2>1, <2>2 DEF Accounted
<1>4. CASE ~(o <= Since)
  <2>1. Since < o
    BY <1>2, <1>4, RoutineAssumption
  <2>2. Wall[o] \in WallsOf(Due)
    BY <1>2, <1>4, <2>1, WallsComplete DEF Due
  <2> QED BY <1>1, <2>2, DueType DEF Consumed, WallsOf, Accounted
<1> QED BY <1>3, <1>4

(* The latest is about to run, and the earlier ones are in a record.       *)
LEMMA VanishAtTick ==
  ASSUME TypeOK, TimeInv, VanishInv, TickRuns
  PROVE  WroteInv' /\ StandsInv' /\ PastInv'
<1>1. /\ UNCHANGED <<now, firstSeen, blocked>> /\ pc = "guards" /\ pc' = "dispatch"
  BY DEF TickRuns, Passed, Notes
<1>2. PICK o \in Cron :
        /\ IsLatest(o) 
        /\ run'.id = [of |-> "cron", at |-> o, retry |-> 0]
        /\ run'.wrote = (Earlier(o) # {})
        /\ IF Earlier(o) # {}
             THEN lastRun' = now /\ told' = told \cup WallsOf(Earlier(o))
             ELSE UNCHANGED <<lastRun, told>>
  BY TickRunsType
<1>a. run'.id.of = "cron" /\ run'.id.at = o
  BY <1>2
<1>3. now > 0
  BY <1>1 DEF TimeInv
<1>4. \A w \in WallsOf(Due) : w = Wall[o] \/ w \in told'
  BY <1>2 DEF WallsOf, Earlier
<1>5. Wall[run'.id.at] = Wall[o] /\ told \subseteq told'
  BY <1>2, <1>a
<1>6. \A p \in Cron : Seen(p)' /\ p <= now => Accounted(p)' \/ Coming(p)'
  BY <1>1, <1>2, <1>a, <1>4, <1>5, AllDue DEF VanishInv, Seen, Accounted, Coming
<1>7. StandsInv'
  BY <1>1, <1>6 DEF StandsInv
<1>8. \A p \in Cron : Seen(p) /\ p <= Since => Accounted(p)
  BY <1>1 DEF VanishInv, PastInv, Coming
<1>9. WroteInv' /\ PastInv'
  <2>1. CASE Earlier(o) # {}
    BY <2>1, <1>1, <1>2, <1>a, <1>3, <1>6, AllPast DEF WroteInv
  <2>2. CASE Earlier(o) = {}
    BY <2>2, <1>1, <1>2, <1>a, <1>8 DEF WroteInv, PastInv, Seen, Accounted, Since
  <2> QED BY <2>1, <2>2
<1> QED BY <1>7, <1>9

LEMMA NextVanish ==
  ASSUME "torn" \notin Faults, TypeOK, TimeInv, VanishInv, [Next]_vars
  PROVE  VanishInv'
<1> USE RoutineAssumption DEF TypeOK, ClockTypeOK, RunTypeOK, EventTypeOK, Times, VanishInv
<1>1. CASE Elapses
  <2>1. FirstInv'
    BY <1>1 DEF Elapses, FirstInv, TimeInv, Active, Since
  <2>2. WroteInv'
    BY <1>1 DEF Elapses, WroteInv, PastInv, FirstInv, TimeInv, Since, Accounted, Coming, Seen
  <2>3. StandsInv'
    BY <1>1 DEF Elapses, StandsInv, PastInv, FirstInv, TimeInv, Since, Accounted, Coming, Seen,
         Active
  <2>4. PastInv'
    BY <1>1 DEF Elapses, StandsInv, PastInv, WroteInv, FirstInv, TimeInv, Since, Accounted,
         Coming, Seen, Active, OffInv
  <2>5. OffInv'
    BY <1>1 DEF Elapses, OffInv, Active
  <2> QED BY <2>1, <2>2, <2>3, <2>4, <2>5
<1>2. CASE TickRegisters
  <2>1. FirstInv'
    BY <1>2 DEF TickRegisters, TakesLock, FirstInv, TimeInv, Active, Since
  <2>2. WroteInv'
    BY <1>2 DEF TickRegisters, TakesLock, WroteInv, PastInv, FirstInv, TimeInv, Since,
         Accounted, Coming, Seen
  <2>3. StandsInv'
    BY <1>2 DEF TickRegisters, TakesLock, StandsInv, PastInv, FirstInv, TimeInv, Since,
         Accounted, Coming, Seen, Active
  <2>4. PastInv'
    BY <1>2 DEF TickRegisters, TakesLock, StandsInv, PastInv, WroteInv, FirstInv, TimeInv,
         Since, Accounted, Coming, Seen, Active, OffInv
  <2>5. OffInv'
    BY <1>2 DEF TickRegisters, TakesLock, OffInv, Active
  <2> QED BY <2>1, <2>2, <2>3, <2>4, <2>5
<1>3. CASE TickStarts
  <2>1. FirstInv'
    BY <1>3 DEF TickStarts, TakesLock, FirstInv, TimeInv, Active, Since
  <2>2. WroteInv'
    BY <1>3 DEF TickStarts, TakesLock, WroteInv, PastInv, FirstInv, TimeInv, Since, Accounted,
         Coming, Seen
  <2>3. StandsInv'
    BY <1>3 DEF TickStarts, TakesLock, StandsInv, PastInv, FirstInv, TimeInv, Since, Accounted,
         Coming, Seen, Active
  <2>4. PastInv'
    BY <1>3 DEF TickStarts, TakesLock, StandsInv, PastInv, WroteInv, FirstInv, TimeInv, Since,
         Accounted, Coming, Seen, Active, OffInv
  <2>5. OffInv'
    BY <1>3 DEF TickStarts, TakesLock, OffInv, Active
  <2> QED BY <2>1, <2>2, <2>3, <2>4, <2>5
<1>4. CASE TickRecovers
  <2>1. FirstInv'
    BY <1>4 DEF TickRecovers, Stale, IsOpen, PastDeadline, Closes, Counts, Blocks, FirstInv,
         TimeInv, Active, Since
  <2>2. WroteInv'
    BY <1>4 DEF TickRecovers, Stale, IsOpen, PastDeadline, Closes, Counts, Blocks, WroteInv,
         PastInv, FirstInv, TimeInv, Since, Accounted, Coming, Seen
  <2>3. StandsInv'
    BY <1>4 DEF TickRecovers, Stale, IsOpen, PastDeadline, Closes, Counts, Blocks, StandsInv,
         PastInv, FirstInv, TimeInv, Since, Accounted, Coming, Seen, Active
  <2>4. PastInv'
    BY <1>4, PastAtRecovery
  <2>5. OffInv'
    BY <1>4 DEF TickRecovers, Stale, IsOpen, PastDeadline, Closes, Counts, Blocks, OffInv, Active
  <2> QED BY <2>1, <2>2, <2>3, <2>4, <2>5
<1>5. CASE TickFindsRun
  <2>1. FirstInv'
    BY <1>5 DEF TickFindsRun, CurrentlyRunning, FirstInv, TimeInv, Active, Since
  <2>2. WroteInv'
    BY <1>5 DEF TickFindsRun, CurrentlyRunning, WroteInv, PastInv, FirstInv, TimeInv, Since,
         Accounted, Coming, Seen
  <2>3. StandsInv'
    BY <1>5 DEF TickFindsRun, CurrentlyRunning, StandsInv, PastInv, FirstInv, TimeInv, Since,
         Accounted, Coming, Seen, Active
  <2>4. PastInv'
    BY <1>5 DEF TickFindsRun, CurrentlyRunning, StandsInv, PastInv, WroteInv, FirstInv, TimeInv,
         Since, Accounted, Coming, Seen, Active, OffInv
  <2>5. OffInv'
    BY <1>5 DEF TickFindsRun, CurrentlyRunning, OffInv, Active
  <2> QED BY <2>1, <2>2, <2>3, <2>4, <2>5
<1>6. CASE TickFindsAgent
  <2>1. FirstInv'
    BY <1>6 DEF TickFindsAgent, Stale, CurrentlyRunning, Notes, Blocks, FirstInv, TimeInv,
         Active, Since
  <2>2. WroteInv'
    BY <1>6 DEF TickFindsAgent, Stale, CurrentlyRunning, Notes, Blocks, WroteInv, PastInv,
         FirstInv, TimeInv, Since, Accounted, Coming, Seen
  <2>3. StandsInv'
    BY <1>6 DEF TickFindsAgent, Stale, CurrentlyRunning, Notes, Blocks, StandsInv, PastInv,
         FirstInv, TimeInv, Since, Accounted, Coming, Seen, Active
  <2>4. PastInv'
    BY <1>6, PastAtAgent
  <2>5. OffInv'
    BY <1>6 DEF TickFindsAgent, Stale, CurrentlyRunning, Notes, Blocks, OffInv, Active
  <2> QED BY <2>1, <2>2, <2>3, <2>4, <2>5
<1>7. CASE TickRuns
  <2>1. FirstInv'
    BY <1>7 DEF TickRuns, Passed, IsLatest, Notes, CronRun, NoRun, FirstInv, TimeInv, Active,
         Since
  <2>2. WroteInv'
    BY <1>7, VanishAtTick
  <2>3. StandsInv'
    BY <1>7, VanishAtTick
  <2>4. PastInv'
    BY <1>7, VanishAtTick
  <2>5. OffInv'
    BY <1>7 DEF TickRuns, Passed, IsLatest, Notes, CronRun, NoRun, OffInv, Active
  <2> QED BY <2>1, <2>2, <2>3, <2>4, <2>5
<1>8. CASE TickMisses
  <2>1. FirstInv'
    BY <1>8 DEF TickMisses, Passed, Notes, IsLatest, FirstInv, TimeInv, Active, Since
  <2>2. WroteInv'
    BY <1>8 DEF TickMisses, Passed, Notes, IsLatest, WroteInv, PastInv, FirstInv, TimeInv,
         Since, Accounted, Coming, Seen
  <2>3. StandsInv'
    BY <1>8 DEF TickMisses, Passed, Notes, IsLatest, StandsInv, PastInv, FirstInv, TimeInv,
         Since, Accounted, Coming, Seen, Active
  <2>4. PastInv'
    BY <1>8, PastAtMiss
  <2>5. OffInv'
    BY <1>8 DEF TickMisses, Passed, Notes, IsLatest, OffInv, Active
  <2> QED BY <2>1, <2>2, <2>3, <2>4, <2>5
<1>9. CASE TickNotDue
  <2>1. FirstInv'
    BY <1>9 DEF TickNotDue, Passed, FirstInv, TimeInv, Active, Since
  <2>2. WroteInv'
    BY <1>9 DEF TickNotDue, Passed, WroteInv, PastInv, FirstInv, TimeInv, Since, Accounted,
         Coming, Seen
  <2>3. StandsInv'
    BY <1>9 DEF TickNotDue, Passed, StandsInv, PastInv, FirstInv, TimeInv, Since, Accounted,
         Coming, Seen, Active
  <2>4. PastInv'
    BY <1>9 DEF TickNotDue, Passed, StandsInv, PastInv, WroteInv, FirstInv, TimeInv, Since,
         Accounted, Coming, Seen, Active, OffInv
  <2>5. OffInv'
    BY <1>9 DEF TickNotDue, Passed, OffInv, Active
  <2> QED BY <2>1, <2>2, <2>3, <2>4, <2>5
<1>10. CASE PollFails
  <2>1. FirstInv'
    BY <1>10 DEF PollFails, Polls, FirstInv, TimeInv, Active, Since
  <2>2. WroteInv'
    BY <1>10 DEF PollFails, Polls, WroteInv, PastInv, FirstInv, TimeInv, Since, Accounted,
         Coming, Seen
  <2>3. StandsInv'
    BY <1>10 DEF PollFails, Polls, StandsInv, PastInv, FirstInv, TimeInv, Since, Accounted,
         Coming, Seen, Active
  <2>4. PastInv'
    BY <1>10 DEF PollFails, Polls, StandsInv, PastInv, WroteInv, FirstInv, TimeInv, Since,
         Accounted, Coming, Seen, Active, OffInv
  <2>5. OffInv'
    BY <1>10 DEF PollFails, Polls, OffInv, Active
  <2> QED BY <2>1, <2>2, <2>3, <2>4, <2>5
<1>11. CASE PollAdopts
  <2>1. FirstInv'
    BY <1>11 DEF PollAdopts, Polls, FirstInv, TimeInv, Active, Since
  <2>2. WroteInv'
    BY <1>11 DEF PollAdopts, Polls, WroteInv, PastInv, FirstInv, TimeInv, Since, Accounted,
         Coming, Seen
  <2>3. StandsInv'
    BY <1>11 DEF PollAdopts, Polls, StandsInv, PastInv, FirstInv, TimeInv, Since, Accounted,
         Coming, Seen, Active
  <2>4. PastInv'
    BY <1>11 DEF PollAdopts, Polls, StandsInv, PastInv, WroteInv, FirstInv, TimeInv, Since,
         Accounted, Coming, Seen, Active, OffInv
  <2>5. OffInv'
    BY <1>11 DEF PollAdopts, Polls, OffInv, Active
  <2> QED BY <2>1, <2>2, <2>3, <2>4, <2>5
<1>12. CASE PollIsQuiet
  <2>1. FirstInv'
    BY <1>12 DEF PollIsQuiet, Polls, Marks, FirstInv, TimeInv, Active, Since
  <2>2. WroteInv'
    BY <1>12 DEF PollIsQuiet, Polls, Marks, WroteInv, PastInv, FirstInv, TimeInv, Since,
         Accounted, Coming, Seen
  <2>3. StandsInv'
    BY <1>12 DEF PollIsQuiet, Polls, Marks, StandsInv, PastInv, FirstInv, TimeInv, Since,
         Accounted, Coming, Seen, Active
  <2>4. PastInv'
    BY <1>12 DEF PollIsQuiet, Polls, Marks, StandsInv, PastInv, WroteInv, FirstInv, TimeInv,
         Since, Accounted, Coming, Seen, Active, OffInv
  <2>5. OffInv'
    BY <1>12 DEF PollIsQuiet, Polls, Marks, OffInv, Active
  <2> QED BY <2>1, <2>2, <2>3, <2>4, <2>5
<1>13. CASE PollFires
  <2>1. FirstInv'
    BY <1>13 DEF PollFires, Polls, Marks, OffRun, NoRun, FirstInv, TimeInv, Active, Since
  <2>2. WroteInv'
    BY <1>13 DEF PollFires, Polls, Marks, OffRun, NoRun, WroteInv, PastInv, FirstInv, TimeInv,
         Since, Accounted, Coming, Seen
  <2>3. StandsInv'
    BY <1>13 DEF PollFires, Polls, Marks, OffRun, NoRun, StandsInv, PastInv, FirstInv, TimeInv,
         Since, Accounted, Coming, Seen, Active
  <2>4. PastInv'
    BY <1>13 DEF PollFires, Polls, Marks, OffRun, NoRun, StandsInv, PastInv, WroteInv, FirstInv,
         TimeInv, Since, Accounted, Coming, Seen, Active, OffInv
  <2>5. OffInv'
    BY <1>13 DEF PollFires, Polls, Marks, OffRun, NoRun, OffInv, Active
  <2> QED BY <2>1, <2>2, <2>3, <2>4, <2>5
<1>14. CASE PickSettles
  <2>1. FirstInv'
    BY <1>14 DEF PickSettles, Closes, Counts, Fires, NoRun, FirstInv, TimeInv, Active, Since
  <2>2. WroteInv'
    BY <1>14 DEF PickSettles, Closes, Counts, Fires, NoRun, WroteInv, PastInv, FirstInv,
         TimeInv, Since, Accounted, Coming, Seen
  <2>3. StandsInv'
    BY <1>14 DEF PickSettles, Closes, Counts, Fires, NoRun, StandsInv, PastInv, FirstInv,
         TimeInv, Since, Accounted, Coming, Seen, Active
  <2>4. PastInv'
    BY <1>14 DEF PickSettles, Closes, Counts, Fires, NoRun, StandsInv, PastInv, WroteInv,
         FirstInv, TimeInv, Since, Accounted, Coming, Seen, Active, OffInv
  <2>5. OffInv'
    BY <1>14 DEF PickSettles, Closes, Counts, Fires, NoRun, OffInv, Active
  <2> QED BY <2>1, <2>2, <2>3, <2>4, <2>5
<1>15. CASE RunBegins
  <2>1. FirstInv'
    BY <1>15 DEF RunBegins, Opens, Fires, FirstInv, TimeInv, Active, Since
  <2>2. WroteInv'
    BY <1>15 DEF RunBegins, Opens, Fires, WroteInv, PastInv, FirstInv, TimeInv, Since,
         Accounted, Coming, Seen
  <2>3. StandsInv'
    BY <1>15 DEF RunBegins, Opens, Fires, StandsInv, PastInv, FirstInv, TimeInv, Since,
         Accounted, Coming, Seen, Active
  <2>4. PastInv'
    BY <1>15 DEF RunBegins, Opens, Fires, StandsInv, PastInv, WroteInv, FirstInv, TimeInv,
         Since, Accounted, Coming, Seen, Active, OffInv
  <2>5. OffInv'
    BY <1>15 DEF RunBegins, Opens, Fires, OffInv, Active
  <2> QED BY <2>1, <2>2, <2>3, <2>4, <2>5
<1>16. CASE FallsBack
  <2>1. FirstInv'
    BY <1>16 DEF FallsBack, Settles, Closes, Counts, UsesFallback, FirstInv, TimeInv, Active,
         Since
  <2>2. WroteInv'
    BY <1>16 DEF FallsBack, Settles, Closes, Counts, UsesFallback, WroteInv, PastInv, FirstInv,
         TimeInv, Since, Accounted, Coming, Seen
  <2>3. StandsInv'
    BY <1>16 DEF FallsBack, Settles, Closes, Counts, UsesFallback, StandsInv, PastInv, FirstInv,
         TimeInv, Since, Accounted, Coming, Seen, Active
  <2>4. PastInv'
    BY <1>16 DEF FallsBack, Settles, Closes, Counts, UsesFallback, StandsInv, PastInv, WroteInv,
         FirstInv, TimeInv, Since, Accounted, Coming, Seen, Active, OffInv
  <2>5. OffInv'
    BY <1>16 DEF FallsBack, Settles, Closes, Counts, UsesFallback, OffInv, Active
  <2> QED BY <2>1, <2>2, <2>3, <2>4, <2>5
<1>17. CASE FallbackBegins
  <2>1. FirstInv'
    BY <1>17 DEF FallbackBegins, Opens, FirstInv, TimeInv, Active, Since
  <2>2. WroteInv'
    BY <1>17 DEF FallbackBegins, Opens, WroteInv, PastInv, FirstInv, TimeInv, Since, Accounted,
         Coming, Seen
  <2>3. StandsInv'
    BY <1>17 DEF FallbackBegins, Opens, StandsInv, PastInv, FirstInv, TimeInv, Since, Accounted,
         Coming, Seen, Active
  <2>4. PastInv'
    BY <1>17 DEF FallbackBegins, Opens, StandsInv, PastInv, WroteInv, FirstInv, TimeInv, Since,
         Accounted, Coming, Seen, Active, OffInv
  <2>5. OffInv'
    BY <1>17 DEF FallbackBegins, Opens, OffInv, Active
  <2> QED BY <2>1, <2>2, <2>3, <2>4, <2>5
<1>18. CASE RetryIsDue
  <2>1. FirstInv'
    BY <1>18 DEF RetryIsDue, Settles, Closes, Counts, UsesFallback, Retries, Outcomes, FirstInv,
         TimeInv, Active, Since
  <2>2. WroteInv'
    BY <1>18 DEF RetryIsDue, Settles, Closes, Counts, UsesFallback, Retries, Outcomes, WroteInv,
         PastInv, FirstInv, TimeInv, Since, Accounted, Coming, Seen
  <2>3. StandsInv'
    BY <1>18 DEF RetryIsDue, Settles, Closes, Counts, UsesFallback, Retries, Outcomes,
         StandsInv, PastInv, FirstInv, TimeInv, Since, Accounted, Coming, Seen, Active
  <2>4. PastInv'
    BY <1>18 DEF RetryIsDue, Settles, Closes, Counts, UsesFallback, Retries, Outcomes,
         StandsInv, PastInv, WroteInv, FirstInv, TimeInv, Since, Accounted, Coming, Seen,
              Active, OffInv
  <2>5. OffInv'
    BY <1>18 DEF RetryIsDue, Settles, Closes, Counts, UsesFallback, Retries, Outcomes, OffInv,
         Active
  <2> QED BY <2>1, <2>2, <2>3, <2>4, <2>5
<1>19. CASE RetryBegins
  <2>1. FirstInv'
    BY <1>19 DEF RetryBegins, Opens, FirstInv, TimeInv, Active, Since
  <2>2. WroteInv'
    BY <1>19 DEF RetryBegins, Opens, WroteInv, PastInv, FirstInv, TimeInv, Since, Accounted,
         Coming, Seen
  <2>3. StandsInv'
    BY <1>19 DEF RetryBegins, Opens, StandsInv, PastInv, FirstInv, TimeInv, Since, Accounted,
         Coming, Seen, Active
  <2>4. PastInv'
    BY <1>19 DEF RetryBegins, Opens, StandsInv, PastInv, WroteInv, FirstInv, TimeInv, Since,
         Accounted, Coming, Seen, Active, OffInv
  <2>5. OffInv'
    BY <1>19 DEF RetryBegins, Opens, OffInv, Active
  <2> QED BY <2>1, <2>2, <2>3, <2>4, <2>5
<1>20. CASE RunEnds
  <2>1. FirstInv'
    BY <1>20 DEF RunEnds, Settles, Closes, Counts, NoRun, FirstInv, TimeInv, Active, Since
  <2>2. WroteInv'
    BY <1>20 DEF RunEnds, Settles, Closes, Counts, NoRun, WroteInv, PastInv, FirstInv, TimeInv,
         Since, Accounted, Coming, Seen
  <2>3. StandsInv'
    BY <1>20 DEF RunEnds, Settles, Closes, Counts, NoRun, StandsInv, PastInv, FirstInv, TimeInv,
         Since, Accounted, Coming, Seen, Active
  <2>4. PastInv'
    BY <1>20 DEF RunEnds, Settles, Closes, Counts, NoRun, StandsInv, PastInv, WroteInv,
         FirstInv, TimeInv, Since, Accounted, Coming, Seen, Active, OffInv
  <2>5. OffInv'
    BY <1>20 DEF RunEnds, Settles, Closes, Counts, NoRun, OffInv, Active
  <2> QED BY <2>1, <2>2, <2>3, <2>4, <2>5
<1>21. CASE Crashes
  <2>1. FirstInv'
    BY <1>21 DEF Crashes, NoRun, FirstInv, TimeInv, Active, Since
  <2>2. WroteInv'
    BY <1>21 DEF Crashes, NoRun, WroteInv, PastInv, FirstInv, TimeInv, Since, Accounted, Coming,
         Seen
  <2>3. StandsInv'
    BY <1>21 DEF Crashes, NoRun, StandsInv, PastInv, FirstInv, TimeInv, Since, Accounted,
         Coming, Seen, Active
  <2>4. PastInv'
    BY <1>21 DEF Crashes, NoRun, StandsInv, PastInv, WroteInv, FirstInv, TimeInv, Since,
         Accounted, Coming, Seen, Active, OffInv
  <2>5. OffInv'
    BY <1>21 DEF Crashes, NoRun, OffInv, Active
  <2> QED BY <2>1, <2>2, <2>3, <2>4, <2>5
<1>22. CASE Raises
  <2>1. FirstInv'
    BY <1>22 DEF Raises, NoRun, IsOpen, Notes, Closes, Counts, FirstInv, TimeInv, Active, Since
  <2>2. WroteInv'
    BY <1>22 DEF Raises, NoRun, IsOpen, Notes, Closes, Counts, WroteInv, PastInv, FirstInv,
         TimeInv, Since, Accounted, Coming, Seen
  <2>3. StandsInv'
    BY <1>22 DEF Raises, NoRun, IsOpen, Notes, Closes, Counts, StandsInv, PastInv, FirstInv,
         TimeInv, Since, Accounted, Coming, Seen, Active
  <2>4. PastInv'
    BY <1>22, PastAtRaise
  <2>5. OffInv'
    BY <1>22 DEF Raises, NoRun, IsOpen, Notes, Closes, Counts, OffInv, Active
  <2> QED BY <2>1, <2>2, <2>3, <2>4, <2>5
<1>23. CASE OrphanSettles
  <2>1. FirstInv'
    BY <1>23 DEF OrphanSettles, FirstInv, TimeInv, Active, Since
  <2>2. WroteInv'
    BY <1>23 DEF OrphanSettles, WroteInv, PastInv, FirstInv, TimeInv, Since, Accounted, Coming,
         Seen
  <2>3. StandsInv'
    BY <1>23 DEF OrphanSettles, StandsInv, PastInv, FirstInv, TimeInv, Since, Accounted, Coming,
         Seen, Active
  <2>4. PastInv'
    BY <1>23 DEF OrphanSettles, StandsInv, PastInv, WroteInv, FirstInv, TimeInv, Since,
         Accounted, Coming, Seen, Active, OffInv
  <2>5. OffInv'
    BY <1>23 DEF OrphanSettles, OffInv, Active
  <2> QED BY <2>1, <2>2, <2>3, <2>4, <2>5
<1>24. CASE EventComes
  <2>1. FirstInv'
    BY <1>24 DEF EventComes, FirstInv, TimeInv, Active, Since
  <2>2. WroteInv'
    BY <1>24 DEF EventComes, WroteInv, PastInv, FirstInv, TimeInv, Since, Accounted, Coming, Seen
  <2>3. StandsInv'
    BY <1>24 DEF EventComes, StandsInv, PastInv, FirstInv, TimeInv, Since, Accounted, Coming,
         Seen, Active
  <2>4. PastInv'
    BY <1>24 DEF EventComes, StandsInv, PastInv, WroteInv, FirstInv, TimeInv, Since, Accounted,
         Coming, Seen, Active, OffInv
  <2>5. OffInv'
    BY <1>24 DEF EventComes, OffInv, Active
  <2> QED BY <2>1, <2>2, <2>3, <2>4, <2>5
<1>25. CASE EventClears
  <2>1. FirstInv'
    BY <1>25 DEF EventClears, FirstInv, TimeInv, Active, Since
  <2>2. WroteInv'
    BY <1>25 DEF EventClears, WroteInv, PastInv, FirstInv, TimeInv, Since, Accounted, Coming, Seen
  <2>3. StandsInv'
    BY <1>25 DEF EventClears, StandsInv, PastInv, FirstInv, TimeInv, Since, Accounted, Coming,
         Seen, Active
  <2>4. PastInv'
    BY <1>25 DEF EventClears, StandsInv, PastInv, WroteInv, FirstInv, TimeInv, Since, Accounted,
         Coming, Seen, Active, OffInv
  <2>5. OffInv'
    BY <1>25 DEF EventClears, OffInv, Active
  <2> QED BY <2>1, <2>2, <2>3, <2>4, <2>5
<1>26. CASE Request
  <2>1. FirstInv'
    BY <1>26 DEF Request, TakesLock, OffRun, NoRun, IsOpen, FirstInv, TimeInv, Active, Since
  <2>2. WroteInv'
    BY <1>26 DEF Request, TakesLock, OffRun, NoRun, IsOpen, WroteInv, PastInv, FirstInv,
         TimeInv, Since, Accounted, Coming, Seen
  <2>3. StandsInv'
    BY <1>26 DEF Request, TakesLock, OffRun, NoRun, IsOpen, StandsInv, PastInv, FirstInv,
         TimeInv, Since, Accounted, Coming, Seen, Active
  <2>4. PastInv'
    BY <1>26 DEF Request, TakesLock, OffRun, NoRun, IsOpen, StandsInv, PastInv, WroteInv,
         FirstInv, TimeInv, Since, Accounted, Coming, Seen, Active, OffInv
  <2>5. OffInv'
    BY <1>26 DEF Request, TakesLock, OffRun, NoRun, IsOpen, OffInv, Active
  <2> QED BY <2>1, <2>2, <2>3, <2>4, <2>5
<1>27. CASE UNCHANGED vars
  BY <1>27 DEF vars, FirstInv, WroteInv, StandsInv, PastInv, OffInv, Accounted, Coming, Seen,
       Active, Since
<1> HIDE DEF TypeOK, VanishInv
<1> QED
  BY <1>1, <1>2, <1>3, <1>4, <1>5, <1>6, <1>7, <1>8, <1>9, <1>10, <1>11, <1>12, <1>13, <1>14,
     <1>15, <1>16, <1>17, <1>18, <1>19, <1>20, <1>21, <1>22, <1>23, <1>24, <1>25, <1>26, <1>27
     DEF Next, Tick, Dispatch, World

(* What the schedule moved past was run, is in a record, or was kept from  *)
(* firing, unless a tick dies between its records; repeated wall-clock     *)
(* times included.                                                         *)
THEOREM OccurrencesAreAccountedFor == "torn" \notin Faults => (Spec => []NothingVanishes)
<1> SUFFICES ASSUME "torn" \notin Faults PROVE Spec => []NothingVanishes
  OBVIOUS
<1>1. Init => VanishInv
  BY RoutineAssumption
     DEF Init, VanishInv, FirstInv, WroteInv, StandsInv, PastInv, OffInv, Seen, Active
<1>2. VanishInv => NothingVanishes
  BY DEF VanishInv, PastInv, NothingVanishes, Accounted, Coming, Seen
<1>3. TypeOK /\ TimeInv /\ VanishInv /\ [Next]_vars => VanishInv'
  BY NextVanish
<1> QED BY <1>1, <1>2, <1>3, TimeHolds, PTL DEF Spec

----------------------------------------------------------------------------
(* Events.                                                                 *)

(* An event is dispatched from the watermark, where the poll just put it.  *)
PollInv ==
  /\ adopted \subseteq watermark
  /\ ~baselined => watermark = {}
  /\ pc = "dispatch" /\ run.event # NoEvent
       => run.wrote /\ run.event \in watermark \ adopted

EventInv == PollInv /\ EventsFireOnce

LEMMA NextEvent ==
  ASSUME "torn" \notin Faults, TypeOK, EventInv, [Next]_vars
  PROVE  EventInv'
<1> USE RoutineAssumption DEF TypeOK, RunTypeOK, EventTypeOK, EventInv
<1>1. CASE Elapses
  <2>1. PollInv'
    BY <1>1 DEF Elapses, PollInv
  <2>2. EventsFireOnce'
    BY <1>1 DEF Elapses, PollInv, EventsFireOnce, NoEvent
  <2> QED BY <2>1, <2>2
<1>2. CASE TickRegisters
  <2>1. PollInv'
    BY <1>2 DEF TickRegisters, TakesLock, PollInv
  <2>2. EventsFireOnce'
    BY <1>2 DEF TickRegisters, TakesLock, PollInv, EventsFireOnce, NoEvent
  <2> QED BY <2>1, <2>2
<1>3. CASE TickStarts
  <2>1. PollInv'
    BY <1>3 DEF TickStarts, TakesLock, PollInv
  <2>2. EventsFireOnce'
    BY <1>3 DEF TickStarts, TakesLock, PollInv, EventsFireOnce, NoEvent
  <2> QED BY <2>1, <2>2
<1>4. CASE TickRecovers
  <2>1. PollInv'
    BY <1>4 DEF TickRecovers, Stale, IsOpen, PastDeadline, Closes, Counts, Blocks, PollInv
  <2>2. EventsFireOnce'
    BY <1>4 DEF TickRecovers, Stale, IsOpen, PastDeadline, Closes, Counts, Blocks, PollInv,
         EventsFireOnce, NoEvent
  <2> QED BY <2>1, <2>2
<1>5. CASE TickFindsRun
  <2>1. PollInv'
    BY <1>5 DEF TickFindsRun, CurrentlyRunning, PollInv
  <2>2. EventsFireOnce'
    BY <1>5 DEF TickFindsRun, CurrentlyRunning, PollInv, EventsFireOnce, NoEvent
  <2> QED BY <2>1, <2>2
<1>6. CASE TickFindsAgent
  <2>1. PollInv'
    BY <1>6 DEF TickFindsAgent, Stale, CurrentlyRunning, Notes, Blocks, PollInv
  <2>2. EventsFireOnce'
    BY <1>6 DEF TickFindsAgent, Stale, CurrentlyRunning, Notes, Blocks, PollInv, EventsFireOnce,
         NoEvent
  <2> QED BY <2>1, <2>2
<1>7. CASE TickRuns
  <2>1. PollInv'
    BY <1>7 DEF TickRuns, Passed, IsLatest, Notes, CronRun, NoRun, PollInv
  <2>2. EventsFireOnce'
    BY <1>7 DEF TickRuns, Passed, IsLatest, Notes, CronRun, NoRun, PollInv, EventsFireOnce,
         NoEvent
  <2> QED BY <2>1, <2>2
<1>8. CASE TickMisses
  <2>1. PollInv'
    BY <1>8 DEF TickMisses, Passed, Notes, IsLatest, PollInv
  <2>2. EventsFireOnce'
    BY <1>8 DEF TickMisses, Passed, Notes, IsLatest, PollInv, EventsFireOnce, NoEvent
  <2> QED BY <2>1, <2>2
<1>9. CASE TickNotDue
  <2>1. PollInv'
    BY <1>9 DEF TickNotDue, Passed, PollInv
  <2>2. EventsFireOnce'
    BY <1>9 DEF TickNotDue, Passed, PollInv, EventsFireOnce, NoEvent
  <2> QED BY <2>1, <2>2
<1>10. CASE PollFails
  <2>1. PollInv'
    BY <1>10 DEF PollFails, Polls, PollInv
  <2>2. EventsFireOnce'
    BY <1>10 DEF PollFails, Polls, PollInv, EventsFireOnce, NoEvent
  <2> QED BY <2>1, <2>2
<1>11. CASE PollAdopts
  <2>1. PollInv'
    BY <1>11 DEF PollAdopts, Polls, PollInv
  <2>2. EventsFireOnce'
    BY <1>11 DEF PollAdopts, Polls, PollInv, EventsFireOnce, NoEvent
  <2> QED BY <2>1, <2>2
<1>12. CASE PollIsQuiet
  <2>1. PollInv'
    BY <1>12 DEF PollIsQuiet, Polls, Marks, PollInv
  <2>2. EventsFireOnce'
    BY <1>12 DEF PollIsQuiet, Polls, Marks, PollInv, EventsFireOnce, NoEvent
  <2> QED BY <2>1, <2>2
<1>13. CASE PollFires
  <2>1. PollInv'
    BY <1>13 DEF PollFires, Polls, Marks, OffRun, NoRun, PollInv
  <2>2. EventsFireOnce'
    BY <1>13 DEF PollFires, Polls, Marks, OffRun, NoRun, PollInv, EventsFireOnce, NoEvent
  <2> QED BY <2>1, <2>2
<1>14. CASE PickSettles
  <2>1. PollInv'
    BY <1>14 DEF PickSettles, Closes, Counts, Fires, NoRun, PollInv
  <2>2. EventsFireOnce'
    BY <1>14 DEF PickSettles, Closes, Counts, Fires, NoRun, PollInv, EventsFireOnce, NoEvent
  <2> QED BY <2>1, <2>2
<1>15. CASE RunBegins
  <2>1. PollInv'
    BY <1>15 DEF RunBegins, Opens, Fires, PollInv
  <2>2. EventsFireOnce'
    BY <1>15 DEF RunBegins, Opens, Fires, PollInv, EventsFireOnce, NoEvent
  <2> QED BY <2>1, <2>2
<1>16. CASE FallsBack
  <2>1. PollInv'
    BY <1>16 DEF FallsBack, Settles, Closes, Counts, UsesFallback, PollInv
  <2>2. EventsFireOnce'
    BY <1>16 DEF FallsBack, Settles, Closes, Counts, UsesFallback, PollInv, EventsFireOnce,
         NoEvent
  <2> QED BY <2>1, <2>2
<1>17. CASE FallbackBegins
  <2>1. PollInv'
    BY <1>17 DEF FallbackBegins, Opens, PollInv
  <2>2. EventsFireOnce'
    BY <1>17 DEF FallbackBegins, Opens, PollInv, EventsFireOnce, NoEvent
  <2> QED BY <2>1, <2>2
<1>18. CASE RetryIsDue
  <2>1. PollInv'
    BY <1>18 DEF RetryIsDue, Settles, Closes, Counts, UsesFallback, Retries, Outcomes, PollInv
  <2>2. EventsFireOnce'
    BY <1>18 DEF RetryIsDue, Settles, Closes, Counts, UsesFallback, Retries, Outcomes, PollInv,
         EventsFireOnce, NoEvent
  <2> QED BY <2>1, <2>2
<1>19. CASE RetryBegins
  <2>1. PollInv'
    BY <1>19 DEF RetryBegins, Opens, PollInv
  <2>2. EventsFireOnce'
    BY <1>19 DEF RetryBegins, Opens, PollInv, EventsFireOnce, NoEvent
  <2> QED BY <2>1, <2>2
<1>20. CASE RunEnds
  <2>1. PollInv'
    BY <1>20 DEF RunEnds, Settles, Closes, Counts, NoRun, PollInv
  <2>2. EventsFireOnce'
    BY <1>20 DEF RunEnds, Settles, Closes, Counts, NoRun, PollInv, EventsFireOnce, NoEvent
  <2> QED BY <2>1, <2>2
<1>21. CASE Crashes
  <2>1. PollInv'
    BY <1>21 DEF Crashes, NoRun, PollInv
  <2>2. EventsFireOnce'
    BY <1>21 DEF Crashes, NoRun, PollInv, EventsFireOnce, NoEvent
  <2> QED BY <2>1, <2>2
<1>22. CASE Raises
  <2>1. PollInv'
    BY <1>22 DEF Raises, NoRun, IsOpen, Notes, Closes, Counts, PollInv
  <2>2. EventsFireOnce'
    BY <1>22 DEF Raises, NoRun, IsOpen, Notes, Closes, Counts, PollInv, EventsFireOnce, NoEvent
  <2> QED BY <2>1, <2>2
<1>23. CASE OrphanSettles
  <2>1. PollInv'
    BY <1>23 DEF OrphanSettles, PollInv
  <2>2. EventsFireOnce'
    BY <1>23 DEF OrphanSettles, PollInv, EventsFireOnce, NoEvent
  <2> QED BY <2>1, <2>2
<1>24. CASE EventComes
  <2>1. PollInv'
    BY <1>24 DEF EventComes, PollInv
  <2>2. EventsFireOnce'
    BY <1>24 DEF EventComes, PollInv, EventsFireOnce, NoEvent
  <2> QED BY <2>1, <2>2
<1>25. CASE EventClears
  <2>1. PollInv'
    BY <1>25 DEF EventClears, PollInv
  <2>2. EventsFireOnce'
    BY <1>25 DEF EventClears, PollInv, EventsFireOnce, NoEvent
  <2> QED BY <2>1, <2>2
<1>26. CASE Request
  <2>1. PollInv'
    BY <1>26 DEF Request, TakesLock, OffRun, NoRun, IsOpen, PollInv
  <2>2. EventsFireOnce'
    BY <1>26 DEF Request, TakesLock, OffRun, NoRun, IsOpen, PollInv, EventsFireOnce, NoEvent
  <2> QED BY <2>1, <2>2
<1>27. CASE UNCHANGED vars
  BY <1>27 DEF vars, PollInv, EventsFireOnce
<1> HIDE DEF TypeOK, EventInv
<1> QED
  BY <1>1, <1>2, <1>3, <1>4, <1>5, <1>6, <1>7, <1>8, <1>9, <1>10, <1>11, <1>12, <1>13, <1>14,
     <1>15, <1>16, <1>17, <1>18, <1>19, <1>20, <1>21, <1>22, <1>23, <1>24, <1>25, <1>26, <1>27
     DEF Next, Tick, Dispatch, World

(* An event in the watermark was adopted or has had its one run, unless a  *)
(* tick dies between the watermark and the run.                            *)
THEOREM EventsHaveOneRun == "torn" \notin Faults => (Spec => []EventsFireOnce)
<1> SUFFICES ASSUME "torn" \notin Faults PROVE Spec => []EventsFireOnce
  OBVIOUS
<1>1. Init => EventInv
  BY DEF Init, EventInv, PollInv, EventsFireOnce
<1>2. EventInv => EventsFireOnce
  BY DEF EventInv
<1>3. TypeOK /\ EventInv /\ [Next]_vars => EventInv'
  BY NextEvent
<1> QED BY <1>1, <1>2, <1>3, TypeCorrect, PTL DEF Spec
----------------------------------------------------------------------------
(* That a pass ends.                                                       *)

AttemptsLeft == RetryAttempts - run.attempt

(* How many agents the pass may still start: each attempt has its own, and *)
(* the fallback's.                                                         *)
AgentsLeft ==
  CASE pc = "idle" -> 0
    [] pc \in {"guards", "poll"} -> 2 * RetryAttempts + 2
    [] pc = "dispatch" -> 2 * AttemptsLeft + 2
    [] pc = "running" -> 2 * AttemptsLeft + (IF run.fellBack THEN 0 ELSE 1)
    [] pc = "fallback" -> 2 * AttemptsLeft + 1
    [] pc = "retry" -> 2 * AttemptsLeft

(* ... and how many steps it has still to take.                            *)
StepsLeft ==
  CASE pc = "idle" -> 0
    [] pc = "guards" -> 4 * RetryAttempts + (IF Stale THEN 7 ELSE 6)
    [] pc = "poll" -> 4 * RetryAttempts + 5
    [] pc = "dispatch" -> 4 * AttemptsLeft + 4
    [] pc = "running" -> 4 * AttemptsLeft + (IF run.fellBack THEN 1 ELSE 3)
    [] pc = "fallback" -> 4 * AttemptsLeft + 2
    [] pc = "retry" -> 4 * AttemptsLeft

(* One tick, or one `herdr-routines run`, starts at most two agents for    *)
(* each attempt it may make, and takes so many steps at most...            *)
PassIsBounded == AgentsLeft <= 2 * (RetryAttempts + 1) /\ StepsLeft <= 4 * RetryAttempts + 7

(* ... since every agent it starts leaves it fewer to start, and every     *)
(* step it takes brings it closer to its end: a model that is out of quota *)
(* every time and a retry that falls back every time run out together.     *)
PassRunsOut ==
  [][pc # "idle" =>
       /\ AgentsLeft' <= AgentsLeft
       /\ pc # "running" /\ pc' = "running" => AgentsLeft' < AgentsLeft
       /\ ~UNCHANGED <<pc, run, closed>> => StepsLeft' < StepsLeft]_vars

(* One step of a pass.                                                     *)
PassStep ==
  pc # "idle" =>
    /\ AgentsLeft' <= AgentsLeft
    /\ pc # "running" /\ pc' = "running" => AgentsLeft' < AgentsLeft
    /\ ~UNCHANGED <<pc, run, closed>> => StepsLeft' < StepsLeft

LEMMA AttemptsType ==
  ASSUME TypeOK
  PROVE  /\ AttemptsLeft \in 0..RetryAttempts
         /\ run.fellBack \in BOOLEAN
         /\ pc = "retry" => AttemptsLeft > 0
<1>1. run.attempt \in 0..RetryAttempts /\ run.fellBack \in BOOLEAN
  BY DEF TypeOK, RunTypeOK, Runs
<1> QED
  BY <1>1, RoutineAssumption DEF TypeOK, RunTypeOK, AttemptsLeft

LEMMA PassType ==
  ASSUME TypeOK
  PROVE  /\ AgentsLeft \in Nat /\ StepsLeft \in Nat /\ PassIsBounded
         /\ pc # "idle" => StepsLeft > 0
<1> USE AttemptsType, RoutineAssumption
<1>1. pc \in {"idle", "guards", "poll", "dispatch", "running", "fallback", "retry"}
  BY DEF TypeOK, ClockTypeOK
<1> HIDE DEF TypeOK, AttemptsLeft, Stale
<1>2. AgentsLeft \in Nat /\ AgentsLeft <= 2 * (RetryAttempts + 1)
  BY <1>1 DEF AgentsLeft
<1>3. StepsLeft \in Nat /\ StepsLeft <= 4 * RetryAttempts + 7
  BY <1>1 DEF StepsLeft
<1>4. pc # "idle" => StepsLeft > 0
  BY <1>1 DEF StepsLeft
<1> QED BY <1>2, <1>3, <1>4 DEF PassIsBounded

(* A run that is made begins with its first attempt.                       *)
LEMMA FirstAttempt ==
  ASSUME TypeOK, PollFires \/ TickRuns
  PROVE  AttemptsLeft' = RetryAttempts
<1>1. run'.attempt = 0
  <2>1. CASE PollFires
    BY <2>1 DEF PollFires, OffRun, NoRun
  <2>2. CASE TickRuns
    BY <2>2 DEF TickRuns, CronRun, NoRun
  <2> QED BY <2>1, <2>2
<1> QED BY <1>1, RoutineAssumption DEF AttemptsLeft

(* A dead run is recovered once.                                           *)
LEMMA RecoveryIsFinal ==
  ASSUME TickRecovers
  PROVE  Stale /\ ~Stale'
BY DEF TickRecovers, Stale, IsOpen, Closes

(* A retry gives up one of the attempts that are left, for a new fallback. *)
LEMMA RetryIsPaid ==
  ASSUME TypeOK, RetryBegins
  PROVE  AttemptsLeft' = AttemptsLeft - 1 /\ run'.fellBack = FALSE
<1>1. run \in Runs
  BY DEF TypeOK, RunTypeOK
<1>2. run'.attempt = run.attempt + 1 /\ run'.fellBack = FALSE
  BY <1>1 DEF RetryBegins, Runs
<1>3. run.attempt \in Nat
  BY <1>1, RoutineAssumption DEF Runs
<1> QED BY <1>2, <1>3, RoutineAssumption DEF AttemptsLeft

(* A fallback is of the same attempt.                                      *)
LEMMA FallbackIsPaid ==
  ASSUME TypeOK, FallbackBegins
  PROVE  AttemptsLeft' = AttemptsLeft /\ run'.fellBack = TRUE
<1>1. run \in Runs
  BY DEF TypeOK, RunTypeOK
<1>2. run'.attempt = run.attempt /\ run'.fellBack = TRUE
  BY <1>1 DEF FallbackBegins, Runs
<1> QED BY <1>2 DEF AttemptsLeft

(* A step of the pass that starts no agent...                              *)
Goes == AgentsLeft' <= AgentsLeft /\ StepsLeft' < StepsLeft

(* ... one that starts one...                                              *)
StartsAgent == AgentsLeft' \in 0..(AgentsLeft - 1) /\ StepsLeft' < StepsLeft

(* ... and one of the world beside it.                                     *)
Rests == UNCHANGED <<pc, run, closed>>

LEMMA NextPass ==
  ASSUME TypeOK, [Next]_vars
  PROVE  PassStep
<1> USE RoutineAssumption
<1>a. /\ AttemptsLeft \in 0..RetryAttempts
      /\ run.fellBack \in BOOLEAN
      /\ pc = "retry" => AttemptsLeft > 0
  BY AttemptsType
<1>b. /\ AgentsLeft \in Nat /\ StepsLeft \in Nat
      /\ pc # "idle" => StepsLeft > 0
  BY PassType
<1> SUFFICES ASSUME pc # "idle"
             PROVE  \/ Goes /\ (pc = "running" \/ pc' # "running")
                    \/ StartsAgent
                    \/ Rests
  <2>1. Rests => AgentsLeft' = AgentsLeft
    BY DEF Rests, AgentsLeft, AttemptsLeft
  <2>2. AgentsLeft \in Nat
    BY <1>b
  <2> HIDE DEF TypeOK
  <2> QED BY <2>1, <2>2 DEF PassStep, Goes, StartsAgent, Rests
<1>0. run' = run => AttemptsLeft' = AttemptsLeft
  BY DEF AttemptsLeft
<1> HIDE DEF TypeOK, AttemptsLeft, Stale
<1>1. CASE TickRegisters
  BY <1>a, <1>0, <1>1 DEF TickRegisters, TakesLock
<1>2. CASE TickStarts
  BY <1>a, <1>0, <1>2 DEF TickStarts, TakesLock
<1>3. CASE Request
  BY <1>a, <1>0, <1>3 DEF Request, TakesLock
<1>4. CASE TickRecovers
  <2>1. pc = "guards" /\ pc' = "guards"
    BY <1>4 DEF TickRecovers
  <2>2. StepsLeft = 4 * RetryAttempts + 7 /\ AgentsLeft = 2 * RetryAttempts + 2
    BY <1>a, <1>4, <2>1, RecoveryIsFinal DEF StepsLeft, AgentsLeft
  <2>3. StepsLeft' = 4 * RetryAttempts + 6 /\ AgentsLeft' = 2 * RetryAttempts + 2
    BY <1>a, <1>4, <2>1, RecoveryIsFinal DEF StepsLeft, AgentsLeft
  <2> QED BY <2>1, <2>2, <2>3 DEF Goes
<1>5. CASE TickFindsRun
  BY <1>a, <1>0, <1>5 DEF TickFindsRun, Goes, AgentsLeft, StepsLeft
<1>6. CASE TickFindsAgent
  BY <1>a, <1>0, <1>6 DEF TickFindsAgent, Goes, AgentsLeft, StepsLeft
<1>7. CASE TickRuns
  BY <1>a, <1>0, <1>7, FirstAttempt DEF TickRuns, Passed, Goes, AgentsLeft, StepsLeft
<1>8. CASE TickMisses
  BY <1>a, <1>0, <1>8 DEF TickMisses, Passed, Goes, AgentsLeft, StepsLeft
<1>9. CASE TickNotDue
  BY <1>a, <1>0, <1>9 DEF TickNotDue, Passed, Goes, AgentsLeft, StepsLeft
<1>10. CASE PollFails
  BY <1>a, <1>0, <1>10 DEF PollFails, Polls, Goes, AgentsLeft, StepsLeft
<1>11. CASE PollAdopts
  BY <1>a, <1>0, <1>11 DEF PollAdopts, Polls, Goes, AgentsLeft, StepsLeft
<1>12. CASE PollIsQuiet
  BY <1>a, <1>0, <1>12 DEF PollIsQuiet, Polls, Goes, AgentsLeft, StepsLeft
<1>13. CASE PollFires
  BY <1>a, <1>0, <1>13, FirstAttempt DEF PollFires, Polls, Goes, AgentsLeft, StepsLeft
<1>14. CASE PickSettles
  BY <1>a, <1>0, <1>14 DEF PickSettles, Goes, AgentsLeft, StepsLeft
<1>15. CASE RunBegins
  BY <1>a, <1>0, <1>15 DEF RunBegins, StartsAgent, AgentsLeft, StepsLeft
<1>16. CASE FallsBack
  BY <1>a, <1>0, <1>16 DEF FallsBack, UsesFallback, Goes, AgentsLeft, StepsLeft
<1>17. CASE FallbackBegins
  BY <1>a, <1>0, <1>17, FallbackIsPaid DEF FallbackBegins, StartsAgent, AgentsLeft, StepsLeft
<1>18. CASE RetryIsDue
  BY <1>a, <1>0, <1>18 DEF RetryIsDue, Goes, AgentsLeft, StepsLeft
<1>19. CASE RetryBegins
  BY <1>a, <1>0, <1>19, RetryIsPaid DEF RetryBegins, StartsAgent, AgentsLeft, StepsLeft
<1>20. CASE RunEnds
  BY <1>a, <1>0, <1>20 DEF RunEnds, Goes, AgentsLeft, StepsLeft
<1>21. CASE Crashes
  <2>1. pc' = "idle"
    BY <1>21 DEF Crashes
  <2>2. AgentsLeft' = 0 /\ StepsLeft' = 0
    BY <2>1 DEF AgentsLeft, StepsLeft
  <2> QED BY <2>2, <1>b, <2>1 DEF Goes
<1>22. CASE Raises
  <2>1. pc' = "idle"
    BY <1>22 DEF Raises
  <2>2. AgentsLeft' = 0 /\ StepsLeft' = 0
    BY <2>1 DEF AgentsLeft, StepsLeft
  <2> QED BY <2>2, <1>b, <2>1 DEF Goes
<1>23. CASE Elapses
  BY <1>a, <1>0, <1>23 DEF Elapses, Rests, historyVars
<1>24. CASE OrphanSettles
  BY <1>a, <1>0, <1>24 DEF OrphanSettles, Rests, historyVars
<1>25. CASE EventComes
  BY <1>a, <1>0, <1>25 DEF EventComes, Rests, historyVars
<1>26. CASE EventClears
  BY <1>a, <1>0, <1>26 DEF EventClears, Rests, historyVars
<1>27. CASE UNCHANGED vars
  BY <1>27 DEF vars, historyVars, Rests
<1> QED
  BY <1>1, <1>2, <1>3, <1>4, <1>5, <1>6, <1>7, <1>8, <1>9, <1>10, <1>11, <1>12, <1>13,
     <1>14, <1>15, <1>16, <1>17, <1>18, <1>19, <1>20, <1>21, <1>22, <1>23, <1>24, <1>25,
     <1>26, <1>27
     DEF Next, Tick, Dispatch, World

(* For any schedule, events, retries and faults: one pass starts at most    *)
(* two agents for each attempt, and comes to its end.                      *)
THEOREM PassesRunOut == Spec => []PassIsBounded /\ PassRunsOut
<1>1. TypeOK => PassIsBounded
  BY PassType
<1>2. TypeOK /\ [Next]_vars => PassStep
  BY NextPass
<1>3. PassStep => [pc # "idle" =>
                     /\ AgentsLeft' <= AgentsLeft
                     /\ pc # "running" /\ pc' = "running" => AgentsLeft' < AgentsLeft
                     /\ ~UNCHANGED <<pc, run, closed>> => StepsLeft' < StepsLeft]_vars
  BY DEF PassStep
<1> QED BY <1>1, <1>2, <1>3, TypeCorrect, PTL DEF Spec, PassRunsOut
=============================================================================

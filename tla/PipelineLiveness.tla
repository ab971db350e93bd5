-------------------------- MODULE PipelineLiveness --------------------------
(***************************************************************************)
(* What must eventually happen to the runs of PipelineLifecycle, provided  *)
(* that crashes and reboots, which may strike at any moment, stop in the   *)
(* end.                                                                    *)
(***************************************************************************)
EXTENDS PipelineLifecycle

(* The timers keep starting both processes, and each finishes the pass it  *)
(* began; a unit, bounded by RuntimeMaxSec, ends; no heartbeat outlives    *)
(* its unit.  A sweep takes seconds of the watchdog's 15 min, so the clock *)
(* gets to move between two sweeps however many there are (hence strong    *)
(* fairness).                                                              *)
Fairness ==
  /\ WF_vars(TickStarts) /\ WF_vars(TickChecksLive) /\ WF_vars(TickJudges)
  /\ WF_vars(TickCloses) /\ WF_vars(TickDecides) /\ WF_vars(TickRecords)
  /\ WF_vars(TickLaunches \/ TickCannotLaunch)
  /\ WF_vars(WdStarts) /\ WF_vars(WdAppends) /\ WF_vars(WdRewrites)
  /\ WF_vars(WdLaunches \/ WdCannotLaunch) /\ WF_vars(WdReaps) /\ WF_vars(WdEnds)
  /\ \A r \in Runs :
       /\ WF_vars(WdSpares(r) \/ WdPicks(r))
       /\ WF_vars(FallsQuiet(r) /\ ~UnitActive(r))
       /\ WF_vars(UnitKilled(r))
       /\ SF_vars(Ages(r))

FairSpec == Spec /\ Fairness

(* From some moment on no process dies and the host stays up. *)
Calm == <>[][Work]_vars

(* Every run with a `running` record gets its terminal record, by a report,*)
(* a reboot or the backstop: no run wedges its job for ever.               *)
EveryRunCloses == Calm => \A r \in Runs : r \in recorded ~> verdict[r] # "none"

(* No run stays in flight for ever: the unit, the launcher or the watchdog *)
(* leaves a report, so the overlap guard is released in the end.           *)
EveryRunIsReported == Calm => \A r \in Runs : r \in InFlight ~> report[r] # "none"

(* A cron occurrence is launched, put on record as missed, skipped or      *)
(* failed, or swallowed by the terminal record of another scheduled run,   *)
(* from which the schedule then counts; it is never just forgotten.        *)
EveryOccurrenceSettles ==
  Calm =>
    \A r \in Runs :
      due = r ~> \/ r \in recorded \/ r \in unrun \/ verdict[r] # "none"
                 \/ due # r /\ \E q \in Runs \ {r} : verdict[q] # "none" /\ CountsAsScheduled(q)
=============================================================================

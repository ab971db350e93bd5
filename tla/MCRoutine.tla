------------------------------ MODULE MCRoutine ------------------------------
(* Instances of RoutineSchedule for TLC. *)
EXTENDS RoutineSchedule

(* The last instant repeats the wall-clock time of the one before it.      *)
FallBackDay == [o \in Cron |-> IF o = 5 THEN 4 ELSE o]

KnownFaults == {"crash", "raise", "query", "poll"}
=============================================================================

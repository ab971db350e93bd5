--------------------------- MODULE PipelinePromise ---------------------------
(***************************************************************************)
(* What one pipeline run promises the people who read its outcome: it      *)
(* climbs the stages one gate at a time, whatever dies on the way, opens   *)
(* its pull request once and before the review stages, and ends once.      *)
(***************************************************************************)
EXTENDS Naturals

CONSTANTS
  Top,     \* the number of stages, positive
  PrStage  \* the stage that opens the pull request, in 1..Top

VARIABLES
  rung,    \* the last stage whose gate passed
  opened,  \* the pull request exists
  outcome  \* of the terminal report

promiseVars == <<rung, opened, outcome>>

PromiseInit == rung = 0 /\ opened = FALSE /\ outcome = "none"

Climb ==
  /\ outcome = "none" /\ rung < Top
  /\ rung + 1 = PrStage => opened
  /\ rung' = rung + 1
  /\ UNCHANGED <<opened, outcome>>

Open ==
  /\ outcome = "none" /\ rung + 1 = PrStage /\ ~opened
  /\ opened' = TRUE
  /\ UNCHANGED <<rung, outcome>>

(* "ok" is for the run that passed every gate, "partial" for one the       *)
(* deadline stopped with stages to go.                                     *)
End ==
  /\ outcome = "none"
  /\ outcome' \in {"ok", "partial", "failed"}
  /\ outcome' = "ok" => rung = Top
  /\ outcome' = "partial" => rung < Top
  /\ UNCHANGED <<rung, opened>>

PromiseSpec == PromiseInit /\ [][Climb \/ Open \/ End]_promiseVars
=============================================================================

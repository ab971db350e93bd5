----------------------------- MODULE MCDispatch -----------------------------
(* Instances of WorkerDispatch for TLC. *)
EXTENDS WorkerDispatch

EveryMode == AllModes
EveryFault == FaultKinds
=============================================================================

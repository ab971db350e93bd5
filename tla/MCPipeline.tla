------------------------------ MODULE MCPipeline ------------------------------
(* Instances of PipelineLifecycle for TLC: which faults each run allows.   *)
EXTENDS PipelineLifecycle, TLC

(* Run ids are interchangeable. *)
RunSymmetry == Permutations(Runs)

(* None of these lets two processes disagree about a run.                  *)
TolerableFaults == FaultKinds \ Disruptive

(* A process may die between any two of its steps.                         *)
CrashFaults == {"tickCrash", "wdCrash"}

(* One reboot is enough to break the exclusion.                            *)
RebootFault == {"reboot"}
=============================================================================

---------------------------- MODULE MCSelfUpdate ----------------------------
(* Instances of SelfUpdate for TLC. *)
EXTENDS SelfUpdate

AllFaults == {"crash", "flaky", "git"}
=============================================================================

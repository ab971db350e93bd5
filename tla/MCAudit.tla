------------------------------- MODULE MCAudit -------------------------------
(* Instances of AuditLedger for TLC: which faults each run allows.         *)
EXTENDS AuditLedger

(* The guards work as long as herdr answers. *)
AnsweredFaults == FaultKinds \ {"query"}

(* No tick dies between a settled worker and its hand-off. *)
PatientFaults == {"paneClose", "query"}
=============================================================================

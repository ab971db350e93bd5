----------------------------- MODULE RunRecords -----------------------------
(***************************************************************************)
(* What the history of a pipeline job promises whoever reads it: one run   *)
(* is open at a time, it is resumed only while it is open and so often at  *)
(* most, and it ends with one outcome that nothing revises.                *)
(***************************************************************************)
EXTENDS Naturals

CONSTANTS
  Runs,       \* the run ids
  NoRun,      \* stands for "no run"
  MaxResumes  \* resumes of one run

VARIABLES
  open,   \* the run that was started and has no outcome yet
  closed, \* the outcome of each run
  lives   \* how often each run was resumed

recordsVars == <<open, closed, lives>>

RecordsInit ==
  /\ open = NoRun
  /\ closed = [r \in Runs |-> "none"]
  /\ lives = [r \in Runs |-> 0]

Opens(r) ==
  /\ open = NoRun /\ closed[r] = "none"
  /\ open' = r
  /\ UNCHANGED <<closed, lives>>

Resumes ==
  /\ open # NoRun
  /\ lives[open] < MaxResumes
  /\ lives' = [lives EXCEPT ![open] = @ + 1]
  /\ UNCHANGED <<open, closed>>

Closes(outcome) ==
  /\ open # NoRun
  /\ closed' = [closed EXCEPT ![open] = outcome]
  /\ open' = NoRun
  /\ UNCHANGED lives

(* A launch that did not happen, as far as its record knows.               *)
Refuses(r) ==
  /\ open = NoRun /\ closed[r] = "none"
  /\ closed' = [closed EXCEPT ![r] = "failed"]
  /\ UNCHANGED <<open, lives>>

RecordsNext ==
  \/ \E r \in Runs : Opens(r) \/ Refuses(r)
  \/ Resumes
  \/ \E outcome \in {"done", "skipped", "failed"} : Closes(outcome)

RecordsSpec == RecordsInit /\ [][RecordsNext]_recordsVars
=============================================================================

------------------------- MODULE AuditLedger_proofs -------------------------
(***************************************************************************)
(* Theorems of AuditLedger, for any set of findings, any budget and cap,   *)
(* with or without a baseline.                                             *)
(***************************************************************************)
EXTENDS AuditLedger, FiniteSetTheorems, TLAPS

(* The diff. *)

LEMMA BatchIsReported ==
  ASSUME TypeOK, NEW f \in Batch
  PROVE  f \in Findings /\ Reported(f) /\ f \in Pool /\ f \notin Suppressed
<1>1. f \in Pool \ Suppressed
  BY DEF Batch, Capped
<1> QED
  BY <1>1, AuditAssumption DEF Pool, New, Regressed, Unchanged, Reported, Open, TypeOK, Entries

LEMMA EmptyType ==
  /\ [f \in Findings |-> 0] \in [Findings -> 0..MaxSeverity]
  /\ NoEntry \in Entries
<1>1. 0 \in 0..MaxSeverity
  BY AuditAssumption
<1> QED
  BY <1>1 DEF NoEntry, Entries

LEMMA AppliedType ==
  ASSUME TypeOK, NEW f \in Findings
  PROVE  Applied(f) \in Entries
BY AuditAssumption DEF TypeOK, Entries, Applied, Reported, Open

LEMMA EndTypes ==
  /\ TypeOK /\ CycleEnds => pc' = "idle" /\ runOpen' \in BOOLEAN /\ runStale' \in BOOLEAN
       /\ manifest' \in [Findings -> 0..MaxSeverity] /\ batch' \in SUBSET Findings
  /\ TypeOK /\ ClosesPane => orphans' \in Nat
<1>1. TypeOK /\ ClosesPane => orphans' \in Nat
  BY DEF ClosesPane, TypeOK
<1> QED
  BY <1>1, EmptyType DEF CycleEnds

-----------------------------------------------------------------------------
(* Types.                                                                  *)

LEMMA CycleKeepsTypes == ASSUME TypeOK, Cycle PROVE TypeOK'
<1> USE AuditAssumption DEF TypeOK, Entries, ledgerVars, runVars, ghostVars
<1>1. CASE CycleStarts
  BY <1>1 DEF CycleStarts, RunBegins
<1>2. CASE TickRecovers
  BY <1>2 DEF TickRecovers
<1>3. CASE Request
  BY <1>3 DEF Request, RunBegins
<1>4. CASE AuditFails
  BY <1>4, EndTypes DEF AuditFails
<1>5. CASE AuditReports
  BY <1>5 DEF AuditReports
<1>6. CASE DiffRefuses
  BY <1>6, EndTypes DEF DiffRefuses
<1>7. CASE DiffSaves
  <2>2. Batch \in SUBSET Findings
    BY BatchIsReported
  <2>3. owed' \in SUBSET Findings
    BY <1>7 DEF DiffSaves, New, Regressed
  <2>4. entry' \in [Findings -> Entries]
    BY <1>7, EmptyType, AppliedType DEF DiffSaves
  <2>5. given' \in [Findings -> Nat]
    BY <1>7 DEF DiffSaves
  <2>6. arrivals' \in [Findings -> Nat]
    BY <1>7 DEF DiffSaves
  <2> QED
    BY <1>7, <2>2, <2>3, <2>4, <2>5, <2>6 DEF DiffSaves
<1>8. CASE NothingToFix
  BY <1>8, EndTypes DEF NothingToFix
<1>9. CASE WorkerStarts
  BY <1>9 DEF WorkerStarts
<1>10. CASE WorkerFails
  BY <1>10, EndTypes DEF WorkerFails
<1>11. CASE WorkerSettles
  BY <1>11 DEF WorkerSettles
<1>12. CASE HandsOff
  BY <1>12 DEF HandsOff, Unqueued
<1>13. CASE Closes
  BY <1>13, EndTypes DEF Closes
<1>14. CASE SaveFails
  BY <1>14, EndTypes DEF SaveFails
<1> QED
  BY <1>1, <1>2, <1>3, <1>4, <1>5, <1>6, <1>7, <1>8, <1>9, <1>10, <1>11, <1>12,
     <1>13, <1>14 DEF Cycle

(* Every variable keeps its type: no failure takes an entry of the ledger  *)
(* out of the format load_ledger accepts.                                  *)
THEOREM LedgerTypeCorrect == Spec => []TypeOK
<1>1. Init => TypeOK
  <2> SUFFICES ASSUME Init PROVE TypeOK
    OBVIOUS
  <2>1. entry \in [Findings -> Entries] /\ manifest \in [Findings -> 0..MaxSeverity]
    BY EmptyType DEF Init
  <2> QED
    BY <2>1 DEF Init, TypeOK
<1>2. TypeOK /\ [Next]_vars => TypeOK'
  <2> SUFFICES ASSUME TypeOK, [Next]_vars PROVE TypeOK'
    OBVIOUS
  <2> USE AuditAssumption DEF TypeOK, Entries, ledgerVars, runVars, ghostVars
  <2>1. CASE Cycle
    BY <2>1, CycleKeepsTypes
  <2>2. CASE TickCrashes
    BY <2>2, EmptyType DEF TickCrashes, Halts
  <2>3. CASE Reboots
    BY <2>3, EmptyType DEF Reboots, Halts
  <2>4. CASE RunAges
    BY <2>4 DEF RunAges
  <2>5. CASE OrphanEnds
    BY <2>5 DEF OrphanEnds
  <2>6. CASE FileDamaged
    BY <2>6 DEF FileDamaged
  <2>7. CASE FileRepaired
    <3>1. entry' \in [Findings -> Entries]
      BY <2>7, EmptyType DEF FileRepaired
    <3>2. ledgerFile' \in {"absent", "good"} /\ owed' \in SUBSET Findings
      BY <2>7 DEF FileRepaired
    <3>3. given' \in [Findings -> Nat]
      BY <2>7 DEF FileRepaired
    <3> QED
      BY <2>7, <3>1, <3>2, <3>3 DEF FileRepaired
  <2>8. CASE UNCHANGED vars
    BY <2>8 DEF vars
  <2> QED
    BY <2>1, <2>2, <2>3, <2>4, <2>5, <2>6, <2>7, <2>8 DEF Next
<1> QED
  BY <1>1, <1>2, PTL DEF Spec

-----------------------------------------------------------------------------
(* The ledger.                                                             *)

(* What the entry of a finding says of it.  The attempts of the batch are  *)
(* ahead of the workers until the worker starts; an entry that exists has  *)
(* arrived; a finding with no entry has no attempts.                       *)
EntryInv(f) ==
  /\ given[f] <= entry[f].attempts
  /\ pc = "dispatch" /\ f \in batch => given[f] < entry[f].attempts
  /\ pc = "handoff" /\ f \in batch => f \notin owed
  /\ f \in owed => entry[f].state = "open" /\ entry[f].queued
  /\ entry[f].state = "absent" => entry[f].attempts = 0
  /\ entry[f].state # "absent" => arrivals[f] > 0
  /\ entry[f].state # "absent" => entry[f].attempts < MaxAttempts + arrivals[f]

LedgerInv == \A f \in Findings : EntryInv(f)

(* The step that folds a diff into the ledger. *)
LEMMA DiffKeepsEntries ==
  ASSUME TypeOK, LedgerInv, DiffSaves, NEW f \in Findings
  PROVE  EntryInv(f)'
<1> USE AuditAssumption DEF TypeOK, Entries
<1>1. EntryInv(f)
  BY DEF LedgerInv
<1>2. PICK pruned \in SUBSET Prunable :
        /\ entry' = [g \in Findings |-> IF g \in pruned THEN NoEntry ELSE Applied(g)]
        /\ given' = [g \in Findings |-> IF g \in pruned THEN 0 ELSE given[g]]
  BY DEF DiffSaves
<1>3. arrivals'[f] = arrivals[f] + (IF f \in New THEN 1 ELSE 0)
  BY DEF DiffSaves
<1>4. f \in batch' => f \in Batch
  BY DEF DiffSaves
<1>5. CASE f \in pruned
  <2>1. ~Reported(f) /\ ~Open(f)
    BY <1>5 DEF Prunable, Open
  <2>2. f \notin batch'
    BY <2>1, <1>4, BatchIsReported
  <2>3. f \notin owed'
    BY <1>1, <2>1 DEF DiffSaves, EntryInv, New, Regressed, Open, Reported
  <2> QED
    BY <1>2, <1>5, <2>2, <2>3 DEF EntryInv, NoEntry, DiffSaves
<1>6. CASE f \notin pruned /\ Reported(f)
  <2>1. entry'[f].state = "open" /\ given'[f] = given[f]
    BY <1>2, <1>6 DEF Applied
  <2>2. entry'[f].attempts = entry[f].attempts + (IF f \in Batch THEN 1 ELSE 0)
    BY <1>2, <1>6 DEF Applied
  <2>3. given'[f] <= entry'[f].attempts /\ (f \in batch' => given'[f] < entry'[f].attempts)
    BY <1>1, <1>4, <2>1, <2>2 DEF EntryInv
  <2>4. f \in owed' => entry'[f].queued
    BY <1>1, <1>2, <1>6 DEF DiffSaves, EntryInv, Applied, Queued, Open
  <2>5. CASE f \in New
    <3>1. arrivals'[f] = arrivals[f] + 1
      BY <1>3, <2>5
    <3>2. entry'[f].attempts < MaxAttempts + arrivals'[f]
      BY <1>1, <2>2, <3>1 DEF EntryInv
    <3> QED
      BY <2>1, <2>3, <2>4, <3>1, <3>2 DEF EntryInv, DiffSaves
  <2>6. CASE f \notin New
    <3>1. Open(f)
      BY <1>6, <2>6 DEF New
    <3>2. f \in Batch => entry[f].attempts < MaxAttempts
      BY <1>6, <3>1, BatchIsReported DEF Suppressed
    <3>3. arrivals'[f] = arrivals[f] /\ arrivals[f] > 0
      BY <1>1, <1>3, <2>6, <3>1 DEF EntryInv, Open
    <3>4. entry'[f].attempts < MaxAttempts + arrivals'[f]
      BY <1>1, <2>2, <3>1, <3>2, <3>3 DEF EntryInv, Open
    <3> QED
      BY <2>1, <2>3, <2>4, <3>3, <3>4 DEF EntryInv, DiffSaves
  <2> QED
    BY <2>5, <2>6
<1>7. CASE f \notin pruned /\ ~Reported(f)
  <2>1. f \notin Batch /\ f \notin New /\ f \notin Regressed
    BY <1>7, BatchIsReported DEF New, Regressed, Reported, Open
  <2>2. f \notin owed'
    BY <1>1, <1>7, <2>1 DEF DiffSaves, EntryInv, Resolved, Open
  <2>3. entry'[f] = Applied(f) /\ given'[f] = given[f] /\ arrivals'[f] = arrivals[f]
    BY <1>2, <1>3, <1>7, <2>1
  <2> QED
    BY <1>1, <1>4, <1>7, <2>1, <2>2, <2>3 DEF EntryInv, Applied, Resolved, Open, DiffSaves
<1> QED
  BY <1>5, <1>6, <1>7

LEMMA LedgerInvHolds == Spec => []LedgerInv
<1>1. Init => LedgerInv
  BY AuditAssumption DEF Init, LedgerInv, EntryInv, NoEntry
<1>2. TypeOK /\ LedgerInv /\ [Next]_vars => LedgerInv'
  <2> SUFFICES ASSUME TypeOK, LedgerInv, [Next]_vars, NEW f \in Findings PROVE EntryInv(f)'
    BY DEF LedgerInv
  <2>0. EntryInv(f)
    BY DEF LedgerInv
  <2> USE AuditAssumption, <2>0 DEF TypeOK, Entries, EntryInv, ledgerVars, runVars, ghostVars
  <2>1. CASE CycleStarts
    BY <2>1 DEF CycleStarts, RunBegins
  <2>2. CASE TickRecovers
    BY <2>2 DEF TickRecovers
  <2>3. CASE Request
    BY <2>3 DEF Request, RunBegins
  <2>4. CASE AuditFails
    BY <2>4 DEF AuditFails, CycleEnds
  <2>5. CASE AuditReports
    BY <2>5 DEF AuditReports
  <2>6. CASE DiffRefuses
    BY <2>6 DEF DiffRefuses, CycleEnds
  <2>7. CASE DiffSaves
    BY <2>7, DiffKeepsEntries
  <2>8. CASE NothingToFix
    BY <2>8 DEF NothingToFix, CycleEnds
  <2>9. CASE WorkerStarts
    BY <2>9 DEF WorkerStarts
  <2>10. CASE WorkerFails
    BY <2>10 DEF WorkerFails, CycleEnds
  <2>11. CASE WorkerSettles
    BY <2>11 DEF WorkerSettles
  <2>12. CASE HandsOff
    BY <2>12 DEF HandsOff, Unqueued
  <2>13. CASE Closes
    BY <2>13 DEF Closes, CycleEnds
  <2>14. CASE SaveFails
    BY <2>14 DEF SaveFails, CycleEnds
  <2>15. CASE TickCrashes
    BY <2>15 DEF TickCrashes, Halts
  <2>16. CASE Reboots
    BY <2>16 DEF Reboots, Halts
  <2>17. CASE RunAges
    BY <2>17 DEF RunAges
  <2>18. CASE OrphanEnds
    BY <2>18 DEF OrphanEnds
  <2>19. CASE FileDamaged
    BY <2>19 DEF FileDamaged
  <2>20. CASE FileRepaired
    BY <2>20 DEF FileRepaired, NoEntry
  <2>21. CASE UNCHANGED vars
    BY <2>21 DEF vars
  <2> QED
    BY <2>1, <2>2, <2>3, <2>4, <2>5, <2>6, <2>7, <2>8, <2>9, <2>10, <2>11, <2>12, <2>13,
       <2>14, <2>15, <2>16, <2>17, <2>18, <2>19, <2>20, <2>21 DEF Next, Cycle
<1> QED
  BY <1>1, <1>2, LedgerTypeCorrect, PTL DEF Spec

(* AttemptsAreWrittenAhead, for every ledger: whatever crashes, fails or   *)
(* corrupts, no worker has been given a finding oftener than its entry     *)
(* says.                                                                   *)
THEOREM WriteAheadHolds == Spec => []AttemptsAreWrittenAhead
<1>1. LedgerInv => AttemptsAreWrittenAhead
  BY DEF LedgerInv, EntryInv, AttemptsAreWrittenAhead
<1> QED
  BY <1>1, LedgerInvHolds, PTL

(* NothingOwedIsForgotten, for every ledger: a finding that came or        *)
(* regressed is queued until a worker settles with it or it resolves.      *)
THEOREM OwedStaysQueued == Spec => []NothingOwedIsForgotten
<1>1. TypeOK /\ LedgerInv => NothingOwedIsForgotten
  BY DEF LedgerInv, EntryInv, NothingOwedIsForgotten, TypeOK
<1> QED
  BY <1>1, LedgerTypeCorrect, LedgerInvHolds, PTL

(* FlappingEarnsOne, for every ledger: the budget grows by one each time   *)
(* the finding comes back, never by more.                                  *)
THEOREM FlapsEarnOne == Spec => []FlappingEarnsOne
<1>1. TypeOK /\ LedgerInv => FlappingEarnsOne
  <2> SUFFICES ASSUME TypeOK, LedgerInv, NEW f \in Findings, arrivals[f] > 0
               PROVE  entry[f].attempts < MaxAttempts + arrivals[f]
    BY DEF FlappingEarnsOne
  <2>1. EntryInv(f)
    BY DEF LedgerInv
  <2> QED
    BY <2>1, AuditAssumption DEF EntryInv, TypeOK, Entries
<1> QED
  BY <1>1, LedgerTypeCorrect, LedgerInvHolds, PTL

-----------------------------------------------------------------------------
(* The agents.                                                             *)

(* A cycle begins with no agent at work and ends before another begins.    *)
AgentInv == orphans <= 1 /\ (pc # "idle" => orphans = 0)

LEMMA AgentInvHolds ==
  ~ByHand /\ "query" \notin Faults => (Spec => []AgentInv)
<1> SUFFICES ASSUME ~ByHand, "query" \notin Faults PROVE Spec => []AgentInv
  OBVIOUS
<1>1. Init => AgentInv
  BY DEF Init, AgentInv
<1>2. TypeOK /\ AgentInv /\ [Next]_vars => AgentInv'
  <2> SUFFICES ASSUME TypeOK, AgentInv, [Next]_vars PROVE AgentInv'
    OBVIOUS
  <2> USE DEF TypeOK, AgentInv, ledgerVars, runVars, ghostVars
  <2>1. CASE CycleStarts
    BY <2>1 DEF CycleStarts, RunBegins
  <2>2. CASE TickRecovers \/ Request
    BY <2>2 DEF TickRecovers, Request
  <2>3. CASE AuditFails \/ WorkerFails
    BY <2>3 DEF AuditFails, WorkerFails, CycleEnds, ClosesPane
  <2>4. CASE AuditReports \/ DiffSaves \/ WorkerStarts \/ WorkerSettles \/ HandsOff
    BY <2>4 DEF AuditReports, DiffSaves, WorkerStarts, WorkerSettles, HandsOff
  <2>5. CASE DiffRefuses \/ NothingToFix \/ Closes \/ SaveFails
    BY <2>5 DEF DiffRefuses, NothingToFix, Closes, SaveFails, CycleEnds
  <2>6. CASE TickCrashes \/ Reboots
    BY <2>6 DEF TickCrashes, Reboots, Halts
  <2>7. CASE RunAges \/ OrphanEnds \/ FileDamaged \/ FileRepaired
    BY <2>7 DEF RunAges, OrphanEnds, FileDamaged, FileRepaired
  <2>8. CASE UNCHANGED vars
    BY <2>8 DEF vars
  <2> QED
    BY <2>1, <2>2, <2>3, <2>4, <2>5, <2>6, <2>7, <2>8 DEF Next, Cycle
<1> QED
  BY <1>1, <1>2, LedgerTypeCorrect, PTL DEF Spec

(* OneAgent, as long as herdr can be asked and nothing is started by hand: *)
(* crashes, reboots and panes that do not close never put two agents of    *)
(* the job to work at once.                                                *)
THEOREM OneAgentAtWork == ~ByHand /\ "query" \notin Faults => (Spec => []OneAgent)
<1> SUFFICES ASSUME ~ByHand, "query" \notin Faults PROVE Spec => []OneAgent
  OBVIOUS
<1>1. TypeOK /\ AgentInv => OneAgent
  BY DEF TypeOK, AgentInv, OneAgent, Waiting
<1> QED
  BY <1>1, AgentInvHolds, LedgerTypeCorrect, PTL

-----------------------------------------------------------------------------
(* The hand-off.                                                           *)

(* What is queued is owed, but for the batch whose hand-off is due, and    *)
(* nothing is queued where there is no ledger.                             *)
QueueInv ==
  /\ ledgerFile = "absent" => \A f \in Findings : ~entry[f].queued
  /\ \A f \in Findings : entry[f].queued => f \in owed \/ (pc = "handoff" /\ f \in batch)
  /\ pc \in {"dispatch", "fix"} => batch \subseteq owed

LEMMA QueueInvHolds ==
  Faults \cap {"tickCrash", "reboot", "ledgerWrite"} = {} => (Spec => []QueueInv)
<1> SUFFICES ASSUME Faults \cap {"tickCrash", "reboot", "ledgerWrite"} = {}
             PROVE  Spec => []QueueInv
  OBVIOUS
<1>1. Init => QueueInv
  BY DEF Init, QueueInv, NoEntry
<1>2. TypeOK /\ QueueInv /\ [Next]_vars => QueueInv'
  <2> SUFFICES ASSUME TypeOK, QueueInv, [Next]_vars PROVE QueueInv'
    OBVIOUS
  <2> USE DEF TypeOK, QueueInv, ledgerVars, runVars, ghostVars
  <2>1. CASE CycleStarts \/ TickRecovers \/ Request
    BY <2>1 DEF CycleStarts, TickRecovers, Request, RunBegins
  <2>2. CASE AuditFails \/ WorkerFails
    BY <2>2 DEF AuditFails, WorkerFails, CycleEnds
  <2>3. CASE AuditReports
    BY <2>3 DEF AuditReports
  <2>4. CASE DiffSaves
    <3>1. PICK pruned \in SUBSET Prunable :
            entry' = [g \in Findings |-> IF g \in pruned THEN NoEntry ELSE Applied(g)]
      BY <2>4 DEF DiffSaves
    <3>2. ASSUME NEW f \in Findings, entry'[f].queued PROVE f \in owed'
      <4>1. Reported(f) /\ (f \in Queued \/ (Open(f) /\ entry[f].queued))
        BY <3>1, <3>2 DEF NoEntry, Applied
      <4>2. pc = "diff"
        BY <2>4 DEF DiffSaves
      <4>3. CASE Cold /\ AdoptBaseline
        BY <4>1, <4>3 DEF Queued, Cold
      <4>4. CASE ~(Cold /\ AdoptBaseline)
        BY <2>4, <4>1, <4>2, <4>4 DEF DiffSaves, Queued, Resolved
      <4> QED
        BY <4>3, <4>4
    <3>3. Batch \subseteq owed'
      <4> SUFFICES ASSUME NEW f \in Batch PROVE f \in owed'
        OBVIOUS
      <4>1. ~(Cold /\ AdoptBaseline)
        BY DEF Batch
      <4>2. f \in Pool /\ Reported(f)
        BY BatchIsReported
      <4> QED
        BY <2>4, <4>1, <4>2 DEF DiffSaves, Pool, Unchanged, Resolved
    <3> QED
      BY <2>4, <3>2, <3>3 DEF DiffSaves
  <2>5. CASE DiffRefuses \/ NothingToFix \/ Closes
    BY <2>5 DEF DiffRefuses, NothingToFix, Closes, CycleEnds
  <2>6. CASE WorkerStarts \/ WorkerSettles
    BY <2>6 DEF WorkerStarts, WorkerSettles
  <2>7. CASE HandsOff
    BY <2>7 DEF HandsOff, Unqueued
  <2>8. CASE SaveFails \/ TickCrashes \/ Reboots
    BY <2>8 DEF SaveFails, TickCrashes, Reboots
  <2>9. CASE RunAges \/ OrphanEnds \/ FileDamaged
    BY <2>9 DEF RunAges, OrphanEnds, FileDamaged
  <2>10. CASE FileRepaired
    BY <2>10 DEF FileRepaired, NoEntry
  <2>11. CASE UNCHANGED vars
    BY <2>11 DEF vars
  <2> QED
    BY <2>1, <2>2, <2>3, <2>4, <2>5, <2>6, <2>7, <2>8, <2>9, <2>10, <2>11 DEF Next, Cycle
<1> QED
  BY <1>1, <1>2, LedgerTypeCorrect, PTL DEF Spec

(* OnlyTheOwedIsDispatched, when no tick dies between a settled worker and *)
(* its hand-off: a finding some worker settled with is not given to        *)
(* another unless it regressed or came back.                               *)
THEOREM HandedOffStaysOff ==
  Faults \cap {"tickCrash", "reboot", "ledgerWrite"} = {} => (Spec => OnlyTheOwedIsDispatched)
<1> SUFFICES ASSUME Faults \cap {"tickCrash", "reboot", "ledgerWrite"} = {}
             PROVE  Spec => OnlyTheOwedIsDispatched
  OBVIOUS
<1> DEFINE Step == \A f \in Findings : given'[f] > given[f] => f \in owed
<1>1. TypeOK /\ QueueInv /\ [Next]_vars => [Step]_vars
  <2> SUFFICES ASSUME TypeOK, QueueInv, Next, NEW f \in Findings, given'[f] > given[f]
               PROVE  f \in owed
    BY DEF vars
  <2> USE DEF TypeOK, QueueInv, ledgerVars, runVars, ghostVars
  <2>1. CASE WorkerStarts
    BY <2>1 DEF WorkerStarts
  <2>2. CASE DiffSaves
    BY <2>2 DEF DiffSaves
  <2>3. CASE FileRepaired
    BY <2>3 DEF FileRepaired
  <2>4. CASE UNCHANGED given
    BY <2>4
  <2> QED
    BY <2>1, <2>2, <2>3, <2>4
    DEF Next, Cycle, CycleStarts, Request, RunBegins, TickRecovers, AuditFails, AuditReports,
        DiffRefuses, NothingToFix, WorkerFails, WorkerSettles, HandsOff, Closes, SaveFails,
        TickCrashes, Reboots, RunAges, OrphanEnds, FileDamaged
<1> QED
  BY <1>1, LedgerTypeCorrect, QueueInvHolds, PTL DEF Spec, OnlyTheOwedIsDispatched
-----------------------------------------------------------------------------
(* Who is passed over.                                                     *)

(* The least number of a set.  The library's own statement of it is about  *)
(* an operator; this one follows from the order of the intervals.          *)
LEMMA LeastNumber ==
  ASSUME NEW N \in SUBSET Nat, N # {}
  PROVE  \E n \in N : \A m \in N : n <= m
<1> DEFINE Intervals == {1..n : n \in N}
<1>1. Intervals \subseteq FiniteSubsetsOf(Nat) /\ Intervals # {}
  <2>1. ASSUME NEW n \in N PROVE 1..n \subseteq Nat /\ IsFiniteSet(1..n)
    BY FS_Interval
  <2> QED BY <2>1 DEF FiniteSubsetsOf
<1>2. PICK I \in Intervals : \A J \in Intervals : <<J, I>> \notin StrictSubsetOrdering(Nat)
  BY <1>1, FS_StrictSubsetOrderingWellFounded, WFMin
<1>3. PICK n \in N : I = 1..n
  OBVIOUS
<1>4. ASSUME NEW m \in N, m < n PROVE FALSE
  <2>1. 1..m \subseteq 1..n /\ 1..m # 1..n
    <3>1. n \in 1..n /\ n \notin 1..m
      BY <1>4
    <3> QED BY <1>4, <3>1
  <2>2. <<1..m, 1..n>> \in StrictSubsetOrdering(Nat)
    BY <2>1 DEF StrictSubsetOrdering
  <2> QED BY <1>2, <1>3, <2>2
<1> QED BY <1>4

(* Those of a set of findings that outrank f.                              *)
Above(f, S) == {g \in S : Before(g, f)}

LEMMA BeforeIsAnOrder ==
  ASSUME TypeOK, NEW f \in Findings, NEW g \in Findings, NEW h \in Findings
  PROVE  /\ ~Before(f, f)
         /\ Before(f, g) /\ Before(g, h) => Before(f, h)
         /\ f # g => Before(f, g) \/ Before(g, f)
<1>1. /\ manifest[f] \in Nat /\ manifest[g] \in Nat /\ manifest[h] \in Nat
      /\ f \in Nat /\ g \in Nat /\ h \in Nat
  BY AuditAssumption DEF TypeOK
<1> QED BY <1>1 DEF Before

LEMMA AboveIsFinite ==
  ASSUME NEW S, IsFiniteSet(S), NEW f
  PROVE  Above(f, S) \subseteq S /\ IsFiniteSet(Above(f, S)) /\ Cardinality(Above(f, S)) \in Nat
<1>1. Above(f, S) \in SUBSET S
  BY DEF Above
<1>2. IsFiniteSet(Above(f, S))
  BY <1>1, FS_Subset
<1> QED BY <1>1, <1>2, FS_CardinalityType

(* The higher one ranks, the fewer rank above.                             *)
LEMMA AboveShrinks ==
  ASSUME TypeOK, NEW S \in SUBSET Findings, IsFiniteSet(S),
         NEW f \in S, NEW g \in S, Before(g, f)
  PROVE  Cardinality(Above(g, S)) < Cardinality(Above(f, S))
<1>1. Above(g, S) \subseteq Above(f, S)
  <2> SUFFICES ASSUME NEW h \in S, Before(h, g) PROVE Before(h, f)
    BY DEF Above
  <2> QED BY BeforeIsAnOrder
<1>2. g \in Above(f, S)
  BY DEF Above
<1>3. g \notin Above(g, S)
  BY BeforeIsAnOrder DEF Above
<1>4. /\ Cardinality(Above(g, S)) <= Cardinality(Above(f, S))
      /\ Cardinality(Above(g, S)) # Cardinality(Above(f, S))
  BY <1>1, <1>2, <1>3, AboveIsFinite, FS_Subset
<1> QED BY <1>4, AboveIsFinite

LEMMA CappedByRank ==
  ASSUME NEW S, NEW f \in S
  PROVE  f \in Capped(S) <=> Cardinality(Above(f, S)) < MaxPerDispatch
BY DEF Capped, Above

(* Whoever the cap passes over is outranked by all whom it takes.          *)
LEMMA CappedRankFirst ==
  ASSUME TypeOK, NEW S \in SUBSET Findings, IsFiniteSet(S),
         NEW f \in S \ Capped(S), NEW g \in Capped(S)
  PROVE  Before(g, f)
<1>1. g \in S /\ g # f
  BY DEF Capped
<1>2. CASE Before(f, g)
  <2>1. Cardinality(Above(f, S)) < Cardinality(Above(g, S))
    BY <1>1, <1>2, AboveShrinks
  <2>2. /\ Cardinality(Above(f, S)) \in Nat /\ Cardinality(Above(g, S)) \in Nat
        /\ MaxPerDispatch \in Nat
    BY AboveIsFinite, AuditAssumption
  <2> QED BY <1>1, <2>1, <2>2, CappedByRank
<1> QED BY <1>1, <1>2, BeforeIsAnOrder

(* The cap passes over a finding only when it takes as many as it may:     *)
(* they are those above the highest one it passes over, and the lowest of  *)
(* them has all of the others above it.                                    *)
LEMMA CappedIsFull ==
  ASSUME TypeOK, NEW S \in SUBSET Findings, IsFiniteSet(S), S # Capped(S)
  PROVE  Cardinality(Capped(S)) = MaxPerDispatch
<1> DEFINE Rank(f) == Cardinality(Above(f, S))
<1>1. /\ MaxPerDispatch \in Nat /\ MaxPerDispatch > 0
      /\ \A f : Rank(f) \in Nat
  BY AboveIsFinite, AuditAssumption
<1>2. Capped(S) \subseteq S /\ IsFiniteSet(Capped(S)) /\ Cardinality(Capped(S)) \in Nat
  <2>1. Capped(S) \in SUBSET S
    BY DEF Capped
  <2> QED BY <2>1, FS_Subset, FS_CardinalityType
<1>3. \A f \in S : f \in Capped(S) <=> Rank(f) < MaxPerDispatch
  BY CappedByRank
<1> HIDE DEF Rank
<1>4. PICK f \in S \ Capped(S) : \A g \in S \ Capped(S) : Rank(f) <= Rank(g)
  <2> DEFINE N == {Rank(g) : g \in S \ Capped(S)}
  <2>1. N \in SUBSET Nat /\ N # {}
    BY <1>1, <1>2
  <2>2. PICK n \in N : \A m \in N : n <= m
    <3> HIDE DEF N
    <3> QED BY <2>1, LeastNumber
  <2> QED BY <2>2
<1>5. Above(f, S) = Capped(S)
  <2>1. ASSUME NEW g \in Above(f, S) PROVE g \in Capped(S)
    <3>1. g \in S /\ Rank(g) < Rank(f)
      BY <2>1, AboveShrinks DEF Above, Rank
    <3> QED BY <3>1, <1>1, <1>4
  <2>2. ASSUME NEW g \in Capped(S) PROVE g \in Above(f, S)
    BY <1>2, CappedRankFirst DEF Above
  <2> QED BY <2>1, <2>2
<1>6. Cardinality(Capped(S)) >= MaxPerDispatch
  BY <1>1, <1>3, <1>4, <1>5 DEF Rank
<1>7. PICK h \in Capped(S) : \A g \in Capped(S) : Rank(g) <= Rank(h)
  <2> DEFINE N == {MaxPerDispatch - Rank(g) : g \in Capped(S)}
  <2>1. N \in SUBSET Nat
    BY <1>1, <1>2, <1>3
  <2>2. Capped(S) # {}
    BY <1>1, <1>6, FS_EmptySet
  <2>3. PICK n \in N : \A m \in N : n <= m
    <3>1. N # {}
      BY <2>2
    <3> HIDE DEF N
    <3> QED BY <2>1, <3>1, LeastNumber
  <2>4. PICK g \in Capped(S) : n = MaxPerDispatch - Rank(g)
    OBVIOUS
  <2>5. \A x \in Capped(S) : Rank(x) <= Rank(g)
    <3> SUFFICES ASSUME NEW x \in Capped(S) PROVE Rank(x) <= Rank(g)
      OBVIOUS
    <3>1. MaxPerDispatch - Rank(g) <= MaxPerDispatch - Rank(x)
      BY <2>3, <2>4
    <3>2. Rank(x) \in Nat /\ Rank(g) \in Nat
      BY <1>1
    <3> QED BY <3>1, <3>2, <1>1
  <2> QED BY <2>5
<1>8. Above(h, S) = Capped(S) \ {h}
  <2>1. ASSUME NEW g \in Above(h, S) PROVE g \in Capped(S) \ {h}
    <3>1. g \in S /\ g # h /\ Rank(g) < Rank(h)
      BY <1>2, <2>1, AboveShrinks, BeforeIsAnOrder DEF Above, Rank
    <3> QED BY <3>1, <1>1, <1>2, <1>3
  <2>2. ASSUME NEW g \in Capped(S) \ {h} PROVE g \in Above(h, S)
    <3>1. Before(g, h) \/ Before(h, g)
      BY <1>2, BeforeIsAnOrder
    <3>2. ~Before(h, g)
      <4> SUFFICES ASSUME Before(h, g) PROVE FALSE
        OBVIOUS
      <4>1. Rank(h) < Rank(g)
        BY <1>2, AboveShrinks DEF Rank
      <4> QED BY <4>1, <1>1, <1>7
    <3> QED BY <3>1, <3>2, <1>2 DEF Above
  <2> QED BY <2>1, <2>2
<1>9. Rank(h) = Cardinality(Capped(S)) - 1
  BY <1>2, <1>8, FS_RemoveElement DEF Rank
<1> QED BY <1>1, <1>2, <1>3, <1>6, <1>9

(* What the diff takes and what it passes over.                            *)

LEMMA OwedIsInThePool ==
  ASSUME TypeOK, LedgerInv, DiffSaves, NEW f \in owed', ~(Cold /\ AdoptBaseline)
  PROVE  f \in Findings /\ f \in Pool
<1>1. f \in (owed \cup New \cup Regressed) \ Resolved
  BY DEF DiffSaves
<1>2. CASE f \in New \cup Regressed
  BY <1>2 DEF Pool, New, Regressed
<1>3. CASE f \in owed
  <2>1. f \in Findings /\ Open(f) /\ entry[f].queued
    BY <1>3 DEF TypeOK, LedgerInv, EntryInv, Open
  <2>2. Reported(f)
    BY <1>1, <2>1 DEF Resolved
  <2> QED BY <2>1, <2>2, AuditAssumption
      DEF Pool, Regressed, Unchanged, Reported, TypeOK, Entries
<1> QED BY <1>1, <1>2, <1>3

(* A finding that is owed a fix, and has an attempt left, is passed over   *)
(* only for as many findings as one worker takes, each of them more urgent *)
(* and each spending one of its own attempts.                              *)
PassedOverForTheUrgent ==
  [][\A f \in Findings :
       DiffSaves /\ f \in owed' \ batch' /\ entry[f].attempts < MaxAttempts
         => /\ Cardinality(batch') = MaxPerDispatch
            /\ \A g \in batch' :
                 Before(g, f) /\ entry'[g].attempts = entry[g].attempts + 1]_vars

(* No starvation: attempts are bounded (FlapsEarnOne), so what outranks a  *)
(* finding can do so only for so many cycles.                              *)
THEOREM OutrankedByAFullBatch ==
  IsFiniteSet(Findings) => (Spec => PassedOverForTheUrgent)
<1> SUFFICES ASSUME IsFiniteSet(Findings) PROVE Spec => PassedOverForTheUrgent
  OBVIOUS
<1> DEFINE Step ==
      \A f \in Findings :
        DiffSaves /\ f \in owed' \ batch' /\ entry[f].attempts < MaxAttempts
          => /\ Cardinality(batch') = MaxPerDispatch
             /\ \A g \in batch' :
                  Before(g, f) /\ entry'[g].attempts = entry[g].attempts + 1
<1>1. TypeOK /\ LedgerInv => Step
  <2> SUFFICES ASSUME TypeOK, LedgerInv, NEW f \in Findings,
                      DiffSaves, f \in owed' \ batch', entry[f].attempts < MaxAttempts
               PROVE  /\ Cardinality(batch') = MaxPerDispatch
                      /\ \A g \in batch' :
                           Before(g, f) /\ entry'[g].attempts = entry[g].attempts + 1
    OBVIOUS
  <2> DEFINE S == Pool \ Suppressed
  <2>1. ~(Cold /\ AdoptBaseline)
    BY DEF DiffSaves
  <2>2. batch' = Capped(S)
    BY <2>1 DEF DiffSaves, Batch
  <2>3. f \in S
    BY <2>1, OwedIsInThePool, AuditAssumption DEF Suppressed, TypeOK, Entries
  <2>4. S \in SUBSET Findings /\ IsFiniteSet(S)
    <3>1. S \in SUBSET Findings
      BY DEF Pool, New, Regressed, Unchanged
    <3> QED BY <3>1, FS_Subset
  <2>5. Cardinality(batch') = MaxPerDispatch
    <3>1. S # Capped(S)
      BY <2>2, <2>3
    <3> QED BY <2>2, <2>4, <3>1, CappedIsFull
  <2>6. ASSUME NEW g \in batch'
        PROVE  Before(g, f) /\ entry'[g].attempts = entry[g].attempts + 1
    <3>1. Before(g, f)
      BY <2>2, <2>3, <2>4, <2>6, CappedRankFirst
    <3>2. g \in Batch /\ g \in Findings /\ Reported(g)
      BY <2>6, BatchIsReported DEF DiffSaves
    <3>3. PICK pruned \in SUBSET Prunable :
            entry' = [h \in Findings |-> IF h \in pruned THEN NoEntry ELSE Applied(h)]
      BY DEF DiffSaves
    <3>4. entry'[g] = Applied(g)
      BY <3>2, <3>3 DEF Prunable
    <3> QED BY <3>1, <3>2, <3>4 DEF Applied
  <2> QED BY <2>5, <2>6
<1> QED BY <1>1, LedgerTypeCorrect, LedgerInvHolds, PTL DEF PassedOverForTheUrgent
=============================================================================

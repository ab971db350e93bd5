SPECIFICATION Spec
CONSTANTS
  Findings = {1, 2}
  MaxSeverity = 2
  MaxAttempts = 2
  MaxPerDispatch = 1
  AdoptBaseline = TRUE
  ByHand = FALSE
  ArrivalBound = 2
  OrphanBound = 2
  Faults <- AnsweredFaults
INVARIANTS
  AttemptsAreWrittenAhead
  NothingOwedIsForgotten
  FlappingEarnsOne
  OneAgent

SPECIFICATION FairSpec
CONSTANTS
  Findings = {1, 2}
  MaxSeverity = 2
  MaxAttempts = 2
  MaxPerDispatch = 1
  AdoptBaseline = FALSE
  ByHand = TRUE
  ArrivalBound = 2
  OrphanBound = 2
  Faults <- PatientFaults
PROPERTIES
  OnlyTheOwedIsDispatched
  OwedIsServed

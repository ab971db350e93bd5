SPECIFICATION FairSpec
CONSTANTS
  Tip = 2
  Faults <- AllFaults
  Trouble = 1
INVARIANTS
  OnlyProvenCodeRuns
  RejectedOnce
PROPERTIES
  KeepsHostCode
  GoodCodeArrives
CHECK_DEADLOCK FALSE

SPECIFICATION FairSpec
CONSTANTS
  Modes <- EveryMode
  Targets = {1, 2}
  MaxAttempts = 2
  Cap = 1
  Faults <- EveryFault
  Trouble = 2
INVARIANTS
  AttemptsAreBounded
  ReviewsAreBounded
  WatermarkIsEarned
PROPERTIES
  Served
CHECK_DEADLOCK FALSE

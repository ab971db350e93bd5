SPECIFICATION FairSpec
CONSTANTS
  MaxResumes = 1
  MaxFixRounds = 2
  MaxFallbacks = 1
INVARIANTS
  BaseIsTheWorkBefore
  CheckpointsAreEarned
  PrIsHonest
PROPERTIES
  PassedStagesAreFrozen
  KeepsPromise
  EveryNightIsReported
CHECK_DEADLOCK FALSE

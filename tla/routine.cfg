SPECIFICATION FairSpec
CONSTANTS
  Cron = {2, 4, 5}
  Wall <- FallBackDay
  CatchUp = 1
  StaleAfter = 1
  Events = {e}
  HasFallback = TRUE
  RetryOn = {"other"}
  RetryAttempts = 1
  Faults <- KnownFaults
  Trouble = 3
  Horizon = 6
INVARIANTS
  NothingVanishes
  FiresOnce
  EventsFireOnce
CHECK_DEADLOCK FALSE
PROPERTIES
  OccurrencesSettle

SPECIFICATION FairSpec
CONSTANTS
  Issues = {1}
  Runs = {r1, r2}
  NoRun = NoRun
  NoIssue = NoIssue
INVARIANTS
  OneBuilder
PROPERTIES
  NoRivalPr
  WorkSurvives
  StaleClaimIsReleased
CHECK_DEADLOCK FALSE

SPECIFICATION FairSpec
CONSTANTS
  Runs = {r1}
  NoRun = NoRun
  MaxResumes = 1
  ResumeBound = 2
  Faults <- BreakdownFaults
PROPERTIES
  EveryRunCloses
  EveryRunIsReported
  EveryOccurrenceSettles

SPECIFICATION Spec
CONSTANTS
  Runs = {r1, r2}
  NoRun = NoRun
  MaxResumes = 1
  ResumeBound = 2
  Faults <- CrashFaults
SYMMETRY RunSymmetry
PROPERTIES
  KeepsRecords

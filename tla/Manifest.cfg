SPECIFICATION Spec
CONSTANTS
  Prefix = {p}
  Level = {0, 1, 2}
  SnapshotThreshold = 4
  MaxFlushes = 3
  MaxJobs = 4
  MaxCrashes = 2
  MaxFails = 1
INVARIANTS LogTypeOK ListedRowsSurvive
PROPERTIES RecoversPrefix
\* The engine may be left alone, a refused manifest stays refused, and the bounds
\* end every run.
CHECK_DEADLOCK FALSE

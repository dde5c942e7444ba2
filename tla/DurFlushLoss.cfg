SPECIFICATION Spec
SYMMETRY Symmetry
CONSTANTS
  SyncModes = {"Full"}
  Crashes = {"process"}
  MaxFaults = 0
  Flusher = {f1}
  WalMax = 3
  MaxWrites = 3
  MaxFlushes = 2
  MaxCalls = 4
  MaxCrashes = 2
  Key = {k1, k2}
  NoFlusher = NoFlusher
INVARIANTS NoDataLoss
\* Clients may stop writing and the bounds end every run.
CHECK_DEADLOCK FALSE

\* Two shutdown calls, a worker that gives up after two panics, three levels.
CONSTANTS
  Policy = "Leveled"
  L0Trigger = 2
  MaxLevel = 3
  Caller = {c, d}
  KeyRange <- MCKeyRange
  SubBytes = 2
  PanicMax = 1
  MaxFlushes = 4
  MaxCommits = 1
SPECIFICATION FairSpec
INVARIANTS WorkersTypeOK ShutdownSyncs
PROPERTIES ShutdownReturns CompactionSettles
\* Clients may stop issuing operations, and the bounds end every run.
CHECK_DEADLOCK FALSE

\* Two writers and two waiters, a channel that overflows, a flush in between.
CONSTANTS
  Waiter = {a, b}
  EventMax = 1
  Writer = {x, y}
  SyncModes = {"full", "group"}
  WaitFor = {2}
  HardBytes = 1
  MaxCommits = 3
  MaxFlushes = 1
SPECIFICATION FairSpec
INVARIANTS FeedTypeOK ResolvedIsApplied MemtableBounded NoSilentGap
PROPERTIES ParkedWaiterReturns
\* Clients may stop issuing operations, and the bounds end every run.
CHECK_DEADLOCK FALSE

SPECIFICATION Spec
SYMMETRY Symmetry
CONSTANTS
  Key = {1, 2}
  Reader = {r1, r2}
  Val = {"put", "del"}
  Batches <- MCBatches
  Backends = {"BTreeMap", "SkipMap"}
  MaxCommits = 3
  OpenEnded = 9
INVARIANTS PinsExact PinnedReadsExact
PROPERTIES ImplementsMap
\* Clients may stop committing and the bounds end every run.
CHECK_DEADLOCK FALSE

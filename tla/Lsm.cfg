CONSTANTS
  OpenEnded = 9
  Key = {1, 2}
  TableOf <- MCTableOf
  Droppable <- MCDroppable
  Writes <- MCWrites
  Reads <- MCReads
  HotMax = 1
  MaxCommits = 2
  MaxFlushes = 2
  MaxCompactions = 2
  MaxDrops = 1
  DropsApart = TRUE
SPECIFICATION Spec
INVARIANTS LsmTypeOK ScanExact GetExact TableScanComplete DropHides 
\* Clients may stop issuing operations, and the bounds end every run.
CHECK_DEADLOCK FALSE

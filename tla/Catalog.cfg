SPECIFICATION Spec
SYMMETRY Symmetry
CONSTANTS
  Client = {c, d}
  Tables <- MCTables
  Ingested = {"a"}
  NoBytes = NoBytes
  Mixed = Mixed
  Threshold = 2
  MaxDdl = 4
  MaxCalls = 1
  MaxOpens = 1
INVARIANTS CatTypeOK OpensAgain  CleanCloseSaves KeyColumnsAgree
\* Clients may stop issuing operations, and the bounds end every run.
CHECK_DEADLOCK FALSE

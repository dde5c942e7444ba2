CONSTANTS
  OpenEnded = 9
  Client = {c1, c2}
  Table <- MCTable
  NameOf <- MCNameOf
  LayoutOf <- MCLayoutOf
  PkOf <- MCPkOf
  Inserts <- MCInserts
  Deletes <- MCDeletes
  Updates <- MCUpdates
  Selects <- MCSelects
  MaxCommits = 3
  MaxFlushes = 3
  MaxCompactions = 2
SYMMETRY Symmetry
SPECIFICATION Spec
INVARIANTS SqlTypeOK KeysInOrder   PlanExact
\* Clients may stop issuing operations, and the bounds end every run.
CHECK_DEADLOCK FALSE

\* A transaction whose snapshot is older than its registration.
CONSTANTS
  Txn = {t1, t2}
  Key = {1}
  Ts = {0, 1, 2}
  NoContext = NoContext
  NoTxn = NoTxn
  Kinds = {"ssi"}
  MaxOps = 1
  MaxAttempts = 1
  MaxCalls = 3
SPECIFICATION Spec
INVARIANTS
  NoLostUpdate
CHECK_DEADLOCK FALSE

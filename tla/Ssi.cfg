\* Two transactions of either kind under fairness: read, write and commit, or
\* write, commit and retry, so that values of one id outlive each other.
CONSTANTS
  Txn = {t1, t2}
  Key = {1}
  Ts = {0, 1, 2, 3, 4}
  NoContext = NoContext
  NoTxn = NoTxn
  Kinds = {"ssi", "plain"}
  MaxOps = 2
  MaxAttempts = 2
  MaxCalls = 3
SPECIFICATION FairSpec
INVARIANTS
  HistoryRetained
  FirstCommitterWins
PROPERTIES
  TerminalStates
  ContextReleased
  CommitReturns
\* Clients may stop issuing operations, and the bounds end every run.
CHECK_DEADLOCK FALSE

SPECIFICATION PartsSpec
CONSTANTS
  Calls = {c1, c2, c3}
  Processes = {p1, p2}
  Grants = {g1, g2}
  None = None
  Nil = nil
  MaxAttempts = 2
  Rotates = TRUE
  Faults <- AllFaults
  OneFlow = f1
  Flows = {f1, f2}
  OneWorker = w1
  Workers = {w1, w2}
  Callbacks = {b1, b2}
  Users = {u1}
  Accounts = {t1}
  DbFails = TRUE
SYMMETRY Symmetry
INVARIANTS TypeOK OneRefreshPerProcess TriesAreLimited LockNotLeftBehind SpentIsReplaced ConnectTypeOK TxOnce StoredIsIdentified
\* Every call runs once: the behaviour ends when all have ended.
CHECK_DEADLOCK FALSE

SPECIFICATION FairSpec
CONSTANTS
  Requests = {r1, r2}
  Workers = {w1, w2}
  Redis = redis
  LoginJti = login
  None = none
  RedisMode = "up"
  Timers = {"rotation", "claim"}
  Restarts = TRUE
INVARIANTS ClaimedOnce RevocationHolds DoneHoldsNoLock
PROPERTIES LockIsFreed
\* Every request runs once: the behaviour ends when all have answered.
CHECK_DEADLOCK FALSE

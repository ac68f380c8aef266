SPECIFICATION Spec
CONSTANTS
  Requests = {r1, r2}
  Workers = {w1}
  Redis = redis
  LoginJti = login
  None = none
  RedisMode = "flaky"
  Timers = {"rotation", "claim", "grace"}
  Restarts = FALSE
SYMMETRY Symmetry
INVARIANTS TypeOK OneInsideGuard
PROPERTIES NoForeignRelease
\* Every request runs once: the behaviour ends when all have answered.
CHECK_DEADLOCK FALSE

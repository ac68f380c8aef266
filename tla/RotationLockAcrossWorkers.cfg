SPECIFICATION Spec
CONSTANTS
  Requests = {r1, r2}
  Workers = {w1, w2}
  Redis = redis
  LoginJti = login
  None = none
  RedisMode = "up"
  Timers = {}
  Restarts = FALSE
INVARIANTS OneRotationPerSession
\* Every request runs once: the behaviour ends when all have answered.
CHECK_DEADLOCK FALSE

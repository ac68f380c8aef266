SPECIFICATION Spec
CONSTANTS
  Requests = {r1, r2, r3}
  Workers = {w1}
  Redis = redis
  LoginJti = login
  None = none
  RedisMode = "up"
  Timers = {}
  Restarts = FALSE
INVARIANTS AtMostTwoUses
\* Every request runs once: the behaviour ends when all have answered.
CHECK_DEADLOCK FALSE

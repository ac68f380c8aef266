SPECIFICATION Spec
CONSTANTS
  Calls = {c1, c2, c3}
  Processes = {p1}
  Grants = {g1}
  None = None
  MaxAttempts = 3
  Rotates = TRUE
  Faults = {}
PROPERTY KeptWhileRefreshable
\* Every call runs once: the behaviour ends when all have ended.
CHECK_DEADLOCK FALSE

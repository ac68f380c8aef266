SPECIFICATION PartsSpec
CONSTANTS
  Requests = {r1, r2, r3}
  Workers = {w1}
  Redis = redis
  LoginJti = login
  None = none
  RedisMode = "up"
  Timers = {"rotation", "claim", "grace"}
  Restarts = TRUE
  Actors = {r1, r2, r3}
  Kinds = {"save", "transcribe", "tag", "summarize"}
  Exclusive = FALSE
  Crashes = TRUE
  Sessions = {s1}
  Processes = {p1}
  Calls = {r1, r2, r3}
  Absent = absent
  Repeats = {r1, r2, r3, r4}
  Ids = {i1, i2, i3}
  MarkTtl = 2
  MaxEntries = 2
  NoId = noId
SYMMETRY Symmetry
INVARIANTS CaptureTypeOK DeliveredIsAllowed StatusIsBacked IdentityKept SessionsTypeOK ReopenedOnlyByOverwrite DedupTypeOK
PROPERTIES ImplementsTokenFamily OncePerWindow
\* Every request and every operation runs once: the behaviour ends when all have ended.
CHECK_DEADLOCK FALSE

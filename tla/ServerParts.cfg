SPECIFICATION PartsSpec
CONSTANTS
  Requests = {r1, r2, r3, r4, r5}
  Limits = {1, 2}
  None = none
  Never = never
  Actors = {a1, a2, a3}
  Kinds = {"save", "transcribe", "summarize"}
  Exclusive = TRUE
  Crashes = FALSE
  Checkers = {h1, h2}
  Streams = {q1, q2, q3}
  Throttle = 2
  FirstDelay = 1
  MaxDelay = 4
  Timeout = 1
  Window = 1
  Cooldown = 2
  MaxOutages = 1
  Nobody = nobody
  NoSocket = noSocket
  Callers = {b1, b2, b3, b4}
  Ttl = 2
  Sockets = {o1, o2, o3}
INVARIANTS TypeOK HealthTypeOK CacheTypeOK MusicTypeOK AtMostLimit NeverWaits NothingLeftByOne ErrorIsExplained ChecksGoOn RegisteredIsServed
PROPERTIES ImplementsAtomicGuard ProcessingEnds RecoveryIsNoticed LoadsApart WaitersAnswered ShutHandlersEnd
\* Most parts stop when every call has been made.
CHECK_DEADLOCK FALSE

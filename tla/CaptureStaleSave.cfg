SPECIFICATION CaptureSpec
CONSTANTS
  Actors = {a1, a2}
  Kinds = {"save", "transcribe", "tag", "summarize"}
  Exclusive = TRUE
  Crashes = FALSE
INVARIANTS TranscriptionShows
\* Every operation runs once: the behaviour ends when all have ended.
CHECK_DEADLOCK FALSE

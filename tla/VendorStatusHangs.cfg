SPECIFICATION Spec
CONSTANTS
  Requests = {r1, r2, r3}
  Vendors = {openai, ollama}
  None = none
PROPERTY EveryRequestAnswered
\* The behaviour ends when every request is answered.
CHECK_DEADLOCK FALSE

SPECIFICATION SessionsSpec
CONSTANTS
  Sessions = {s1}
  Processes = {p1, p2}
  Calls = {c1}
  Absent = absent
INVARIANTS RevokedIsRefused

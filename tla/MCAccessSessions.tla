--------------------------- MODULE MCAccessSessions ---------------------------
(* Instances of the access sessions for TLC.                               *)
EXTENDS AccessSessions, TLC

\* Sessions, processes and calls are compared with = only.
Symmetry == Permutations(Sessions) \cup Permutations(Processes) \cup Permutations(Calls)
=============================================================================

---------------------------- MODULE MCTokenRefresh ----------------------------
(* Instances of TokenRefresh for TLC.                                       *)
EXTENDS TokenRefresh, TLC

\* Every fault the model knows.
AllFaults == {"database", "provider", "crash"}

\* Calls, processes and grants are compared with = only.
Symmetry == Permutations(Calls) \cup Permutations(Processes) \cup Permutations(Grants)
===============================================================================

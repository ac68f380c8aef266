--------------------------- MODULE MCRefreshRotation ---------------------------
(* Instances of RefreshRotation for TLC.                                    *)
EXTENDS RefreshRotation, TLC

\* Requests and workers are interchangeable: the specification compares them
\* with = only.  Used by the runs without liveness properties.
Symmetry == Permutations(Requests) \cup Permutations(Workers)
=============================================================================

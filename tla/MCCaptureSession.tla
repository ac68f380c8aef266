--------------------------- MODULE MCCaptureSession ---------------------------
(* Instances of CaptureSession for TLC.                                     *)
EXTENDS CaptureSession, TLC

\* Actors are compared with = only.
Symmetry == Permutations(Actors)
=============================================================================

------------------------------- MODULE MCOneWorker -------------------------------
(***************************************************************************)
(* Instances of RefreshRotation, CaptureSession, AccessSessions and        *)
(* RequestDedup for TLC, in one run: part, chosen at the start, is the one *)
(* that moves, and every other part stays in an initial state.  The        *)
(* rotation has a single worker, which is what its contract with the       *)
(* client needs, and so have the access sessions and the duplicate filter; *)
(* the capture session has the jobs of many processes.                     *)
(***************************************************************************)
EXTENDS RefreshRotation, CaptureSession, AccessSessions, RequestDedup, TLC

VARIABLE part

PartsInit ==
  /\ part \in {"rotation", "capture", "access", "dedup"}
  /\ Init /\ CaptureInit /\ SessionsInit /\ DedupInit
  /\ part # "capture" => started

PartsNext ==
  /\ UNCHANGED part
  /\ \/ part = "rotation" /\ Next /\ UNCHANGED <<captureVars, sessionsVars, dedupVars>>
     \/ part = "capture" /\ CaptureNext /\ UNCHANGED <<vars, sessionsVars, dedupVars>>
     \/ part = "access" /\ SessionsNext /\ UNCHANGED <<vars, captureVars, dedupVars>>
     \/ part = "dedup" /\ DedupNext /\ UNCHANGED <<vars, captureVars, sessionsVars>>

PartsSpec == PartsInit /\ [][PartsNext]_<<part, vars, captureVars, sessionsVars, dedupVars>>

\* Requests, operations, calls and repeats are compared with = only.  The cfg
\* names the first three by the same model values, which the repeats have too:
\* no state relates one to another.
Symmetry == Permutations(Requests \cup Actors \cup Calls)
=============================================================================

------------------------------ MODULE AtomicGuard ------------------------------
(***************************************************************************)
(* What the process-local guard of a session promises the rotation, with   *)
(* no locks, queues or counters in it: a request passes while fewer than   *)
(* the limit are inside, and with the default limit of one it is refused   *)
(* only if another is inside at that moment.                               *)
(*                                                                         *)
(* This is the contract of _acquire_refresh_lock and _release_refresh_lock *)
(* (app/auth_refresh.py) that RefreshGuard is shown to implement.          *)
(***************************************************************************)
EXTENDS Naturals, FiniteSets

CONSTANTS Requests,  \* the requests that come to the guard
          Limits     \* the limits considered

VARIABLES limit,     \* how many may be inside
          place      \* request -> "outside", "inside", "refused" or "left"

vars == <<limit, place>>

Within == {r \in Requests : place[r] = "inside"}

Init ==
  /\ limit \in Limits
  /\ place = [r \in Requests |-> "outside"]

Go(r, from, to) ==
  /\ place[r] = from
  /\ place' = [place EXCEPT ![r] = to]
  /\ UNCHANGED limit

Admit(r) ==
  /\ Go(r, "outside", "inside")
  /\ Cardinality(Within) < limit

\* A larger limit promises no more than that a request is refused or admitted:
\* the count of RefreshGuard may then be too high.
Refuse(r) ==
  /\ Go(r, "outside", "refused")
  /\ limit = 1 => Cardinality(Within) = 1

Leave(r) == Go(r, "inside", "left")

Next == \E r \in Requests : Admit(r) \/ Refuse(r) \/ Leave(r)

Spec == Init /\ [][Next]_vars
=============================================================================

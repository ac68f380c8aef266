------------------------------ MODULE TokenFamily ------------------------------
(***************************************************************************)
(* What one refresh-token family promises its user, with no locks, stores  *)
(* or failures in it: one token is current, the current token may be       *)
(* exchanged for a fresh one, and a token that was exchanged never comes   *)
(* back.                                                                   *)
(*                                                                         *)
(* This is the contract of rotate_refresh_token (app/auth_refresh.py) that *)
(* RefreshRotation is shown to implement when one store answers every      *)
(* operation and one worker process serves the family.                     *)
(***************************************************************************)

CONSTANTS Tokens,    \* every refresh token that may be issued in the family
          NoToken    \* "no token has been allowed yet"

VARIABLES current,   \* the token the family accepts, NoToken before the login
          spent      \* the tokens that were exchanged

vars == <<current, spent>>

Init ==
  /\ current = NoToken
  /\ spent = {}

\* A login opens the family with its first token.
Open(first) ==
  /\ current = NoToken
  /\ spent = {}
  /\ current' = first
  /\ UNCHANGED spent

\* The current token is exchanged for one that was never seen before.
Exchange(old, new) ==
  /\ old = current
  /\ old \notin spent
  /\ new \notin spent \cup {old}
  /\ current' = new
  /\ spent' = spent \cup {old}

Next ==
  \/ \E first \in Tokens : Open(first)
  \/ \E old, new \in Tokens : Exchange(old, new)

Spec == Init /\ [][Next]_vars
=============================================================================

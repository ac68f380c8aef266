----------------------------- MODULE TokenRefresh -----------------------------
(***************************************************************************)
(* The Spotify tokens of ONE user: the row of third_party_tokens, the      *)
(* TokenRefreshService of app/auth_store_tokens.py in every process that   *)
(* serves requests or runs the refresh cron, and the SpotifyClient it      *)
(* refreshes with (app/integrations/spotify/client.py).                    *)
(*                                                                         *)
(* Each process has its own lock, counter of failed attempts and back-off; *)
(* they share the row and the provider.  An action is the code between two *)
(* awaits.  The provider may exchange a refresh token for a new one        *)
(* (Rotates); the old one is then spent.                                   *)
(***************************************************************************)
EXTENDS Naturals

CONSTANTS
  Calls,       \* requests that need an access token; each is served once
  Processes,   \* server workers and the cron
  Grants,      \* the refresh tokens that authorisations of the user yield
  None,        \* no call, no refresh token
  MaxAttempts, \* _max_refresh_attempts
  Rotates,     \* the provider replaces the refresh token at every exchange
  Faults       \* what may fail: "database", "provider", "crash"

ASSUME KindsAssumption == Calls \cap Grants = {} /\ None \notin Calls \cup Grants
ASSUME MaxAttemptsAssumption == MaxAttempts \in Nat \ {0}
ASSUME RotatesAssumption == Rotates \in BOOLEAN

VARIABLES
  row,        \* the user's row: is_valid, the refresh token, and how old the
              \*   access token is
  granted,    \* the grants used up by authorisations
  spent,      \* refresh tokens the provider does not take any more
  lost,       \* of these, the ones whose replacement a fault has destroyed
  attempts,   \* process -> _refresh_attempts of the user's key
  backoff,    \* process -> _next_refresh_after lies in the future
  lock,       \* process -> the call that holds the lock of the key, or None
  pc,         \* call -> where it is
  process,    \* call -> the process that serves it
  mode,       \* call -> "auto" and "forced" go through the service, "direct" not
  used        \* call -> the refresh token it sends to the provider, or None

vars == <<row, granted, spent, lost, attempts, backoff, lock, pc, process, mode, used>>
store == <<row, granted, spent, lost>>
service == <<attempts, backoff, lock>>

\* A refresh token carries the name of the call or authorisation it came from.
Tokens == Calls \cup Grants

\* Fresh: valid for more than five minutes; expired: for less than one.
Ages == {"fresh", "ageing", "expired"}

Row == [valid : BOOLEAN, refresh : Tokens \cup {None}, age : Ages]

Places == {"idle", "locking", "read", "tokens", "exchange", "store", "failed",
           "exhausted", "invalidate", "done"}

\* Where a call of the service holds the lock of its process.
Holding == {"read", "tokens", "exchange", "store", "failed", "exhausted", "invalidate"}

Init ==
  /\ row = [valid |-> FALSE, refresh |-> None, age |-> "expired"]
  /\ granted = {}
  /\ spent = {}
  /\ lost = {}
  /\ attempts = [p \in Processes |-> 0]
  /\ backoff = [p \in Processes |-> FALSE]
  /\ lock = [p \in Processes |-> None]
  /\ pc = [c \in Calls |-> "idle"]
  /\ process \in [Calls -> Processes]
  /\ mode = [c \in Calls |-> "auto"]
  /\ used = [c \in Calls |-> None]

Move(c, from, to) ==
  /\ pc[c] = from
  /\ pc' = [pc EXCEPT ![c] = to]

\* Mutant: the early return leaves the lock.
UnlockedNever(c) == lock

Unlocked(c) == [lock EXCEPT ![process[c]] = None]

\* The async with of the lock ends with the call of the service.
LeaveLock(c) == lock' = Unlocked(c)

-------------------------------------------------------------------------------
(* The requests.                                                            *)

\* A request asks for an access token.  The client and the SDK endpoint take
\* what is there if it will do, the cron forces a refresh; a 401 from Spotify,
\* the status page and the refresh endpoint refresh without the service.
Ask(c) ==
  /\ \/ /\ Move(c, "idle", "locking")
        /\ mode' = [mode EXCEPT ![c] = "auto"]
     \/ /\ Move(c, "idle", "locking")
        /\ mode' = [mode EXCEPT ![c] = "forced"]
     \/ /\ Move(c, "idle", "tokens")
        /\ mode' = [mode EXCEPT ![c] = "direct"]
  /\ UNCHANGED <<store, service, process, used>>

\* Mutant: every call creates a lock of its own.
TakeLockOwn(c) ==
  /\ Move(c, "locking", "read")
  /\ lock' = [lock EXCEPT ![process[c]] = c]
  /\ UNCHANGED <<store, attempts, backoff, process, mode, used>>

\* async with refresh_lock.
TakeLock(c) ==
  /\ Move(c, "locking", "read")
  /\ lock[process[c]] = None
  /\ lock' = [lock EXCEPT ![process[c]] = c]
  /\ UNCHANGED <<store, attempts, backoff, process, mode, used>>

\* get_token knows valid rows only, and takes an error for no row.
NoRow(c) ==
  /\ ~row.valid \/ "database" \in Faults
  /\ Move(c, "read", "done")
  /\ LeaveLock(c)
  /\ UNCHANGED mode

\* A token is returned.  The caller asks a second time, with force, for one that
\* has expired, and then takes what it gets.
Answer(c) ==
  /\ LeaveLock(c)
  /\ IF row.age = "expired" /\ mode[c] = "auto"
       THEN Move(c, "read", "locking") /\ mode' = [mode EXCEPT ![c] = "forced"]
       ELSE Move(c, "read", "done") /\ UNCHANGED mode

NeedsRefresh(c) == mode[c] = "forced" \/ row.age # "fresh"

\* Mutant: the limit is not looked at.
MayTryAlways(c) == TRUE

\* The counter has not reached the limit.
MayTry(c) == attempts[process[c]] < MaxAttempts

\* get_valid_token_with_refresh up to the refresh itself: a token that will do or
\* that must do during the back-off, a user whose attempts are exhausted, or a try.
Consider(c) ==
  /\ \/ NoRow(c)
     \/ /\ row.valid
        /\ ~NeedsRefresh(c) \/ backoff[process[c]]
        /\ Answer(c)
     \/ /\ row.valid
        /\ NeedsRefresh(c) /\ ~backoff[process[c]]
        /\ Move(c, "read", IF MayTry(c) THEN "tokens" ELSE "exhausted")
        /\ UNCHANGED <<lock, mode>>
  /\ UNCHANGED <<store, attempts, backoff, process, used>>

-------------------------------------------------------------------------------
(* SpotifyClient._refresh_tokens, inside the service or without it.          *)

\* Mutant: a row that is not valid is used as well.
ReadTokensOfAny(c) ==
  /\ Move(c, "tokens", "exchange")
  /\ used' = [used EXCEPT ![c] = row.refresh]
  /\ UNCHANGED <<store, service, process, mode>>

\* _get_tokens reads the row again.
ReadTokens(c) ==
  /\ \/ /\ row.valid
        /\ Move(c, "tokens", "exchange")
        /\ used' = [used EXCEPT ![c] = row.refresh]
     \/ /\ ~row.valid \/ "database" \in Faults
        /\ Move(c, "tokens", "failed")
        /\ UNCHANGED used
  /\ UNCHANGED <<store, service, process, mode>>

Spend(t) == IF Rotates THEN {t} ELSE {}

\* Mutant: the refresh token that was sent is kept in any case.
ReplacementIgnored(c) == used[c]

\* The refresh token that comes back: a new one, or none, for which
\* refresh_access_token puts the old one.
Replacement(c) == IF Rotates THEN c ELSE used[c]

\* The provider exchanges a token it takes, or refuses.  A call to it may also
\* fail on the way there, or on the way back, when the token has been spent.
Exchange(c) ==
  /\ \/ /\ used[c] \notin spent
        /\ Move(c, "exchange", "store")
        /\ spent' = spent \cup Spend(used[c])
        /\ UNCHANGED lost
     \/ /\ used[c] \in spent \/ "provider" \in Faults
        /\ Move(c, "exchange", "failed")
        /\ UNCHANGED <<spent, lost>>
     \/ /\ used[c] \notin spent
        /\ "provider" \in Faults
        /\ Move(c, "exchange", "failed")
        /\ spent' = spent \cup Spend(used[c])
        /\ lost' = lost \cup Spend(used[c])
  /\ UNCHANGED <<row, granted, service, process, mode, used>>

\* What _store_tokens puts into the row: upsert_token makes it valid in any case.
StoredRow(c) == [valid |-> TRUE, refresh |-> Replacement(c), age |-> "fresh"]

\* The end of a refresh.  The answer of upsert_token is not looked at, and in the
\* service every refresh ends as a failed one: _refresh_spotify_token reads an
\* attribute "scopes" that SpotifyTokens lacks, before it would return the token.
Store(c) ==
  /\ Move(c, "store", "failed")
  /\ \/ /\ row' = StoredRow(c)
        /\ UNCHANGED lost
     \/ /\ "database" \in Faults
        /\ lost' = lost \cup Spend(used[c])
        /\ UNCHANGED row
  /\ UNCHANGED <<granted, spent, service, process, mode, used>>

-------------------------------------------------------------------------------
(* The end of a try.                                                        *)

Tried(c) == attempts[process[c]] + 1

\* The back-off of ten minutes begins, the lock is left, the caller gets None.
BackOff(c) == backoff' = [backoff EXCEPT ![process[c]] = TRUE]

\* The failure is counted; the last one makes the row invalid before the back-off
\* begins.  A refresh without the service has nothing to count.
Fail(c) ==
  /\ \/ /\ mode[c] = "direct"
        /\ Move(c, "failed", "done")
        /\ UNCHANGED service
     \/ /\ mode[c] # "direct"
        /\ attempts' = [attempts EXCEPT ![process[c]] = Tried(c)]
        /\ IF Tried(c) >= MaxAttempts
             THEN Move(c, "failed", "invalidate") /\ UNCHANGED <<backoff, lock>>
             ELSE Move(c, "failed", "done") /\ BackOff(c) /\ LeaveLock(c)
  /\ UNCHANGED <<store, process, mode, used>>

\* mark_invalid, whose answer is not looked at, after the last attempt or in place
\* of one.
Invalidate(c) ==
  /\ \/ Move(c, "exhausted", "done") /\ UNCHANGED backoff
     \/ Move(c, "invalidate", "done") /\ BackOff(c)
  /\ \/ row' = [row EXCEPT !.valid = FALSE]
     \/ "database" \in Faults /\ UNCHANGED row
  /\ LeaveLock(c)
  /\ UNCHANGED <<granted, spent, lost, attempts, process, mode, used>>

-------------------------------------------------------------------------------
(* What happens around the calls.                                           *)

\* The user authorises the application (again): upsert_token in the callback.
Connect(g) ==
  /\ g \notin granted
  /\ granted' = granted \cup {g}
  /\ row' = [valid |-> TRUE, refresh |-> g, age |-> "fresh"]
  /\ UNCHANGED <<spent, lost, service, pc, process, mode, used>>

\* SpotifyClient.disconnect.
Disconnect ==
  /\ row.valid
  /\ row' = [row EXCEPT !.valid = FALSE]
  /\ UNCHANGED <<granted, spent, lost, service, pc, process, mode, used>>

Age ==
  /\ row.age # "expired"
  /\ row' = [row EXCEPT !.age = IF @ = "fresh" THEN "ageing" ELSE "expired"]
  /\ UNCHANGED <<granted, spent, lost, service, pc, process, mode, used>>

BackoffEnds(p) ==
  /\ backoff[p]
  /\ backoff' = [backoff EXCEPT ![p] = FALSE]
  /\ UNCHANGED <<store, attempts, lock, pc, process, mode, used>>

Within(p) == {c \in Calls : process[c] = p /\ pc[c] \notin {"idle", "done"}}

\* A process dies with its calls, its counters and its locks.
Crash(p) ==
  /\ "crash" \in Faults
  /\ Within(p) # {}
  /\ pc' = [c \in Calls |-> IF c \in Within(p) THEN "done" ELSE pc[c]]
  /\ lost' = lost \cup UNION {Spend(used[c]) : c \in {d \in Within(p) : pc[d] = "store"}}
  /\ attempts' = [attempts EXCEPT ![p] = 0]
  /\ backoff' = [backoff EXCEPT ![p] = FALSE]
  /\ lock' = [lock EXCEPT ![p] = None]
  /\ UNCHANGED <<row, granted, spent, process, mode, used>>

-------------------------------------------------------------------------------
\* What a call does once it was asked.
Serve(c) ==
  \/ TakeLock(c)
  \/ Consider(c)
  \/ ReadTokens(c)
  \/ Exchange(c)
  \/ Store(c)
  \/ Fail(c)
  \/ Invalidate(c)

Next ==
  \/ \E c \in Calls : Ask(c) \/ Serve(c)
  \/ \E g \in Grants : Connect(g)
  \/ Disconnect
  \/ Age
  \/ \E p \in Processes : BackoffEnds(p) \/ Crash(p)

Spec == Init /\ [][Next]_vars

-------------------------------------------------------------------------------
(* Properties.                                                              *)

\* Every variable keeps its type; in particular only refresh tokens are sent to the
\* provider.
TypeOK ==
  /\ row \in Row
  /\ granted \in SUBSET Grants
  /\ spent \in SUBSET Tokens
  /\ lost \in SUBSET Tokens
  /\ attempts \in [Processes -> Nat]
  /\ backoff \in [Processes -> BOOLEAN]
  /\ lock \in [Processes -> Calls \cup {None}]
  /\ pc \in [Calls -> Places]
  /\ process \in [Calls -> Processes]
  /\ mode \in [Calls -> {"auto", "forced", "direct"}]
  /\ used \in [Calls -> Tokens \cup {None}]

\* Two calls of the service in one process are never in the middle of a refresh
\* together (the lock per key of get_valid_token_with_refresh), so that a counter
\* that was read before the refresh may be written after it.
OneRefreshPerProcess ==
  \A c, d \in Calls :
    /\ pc[c] \in Holding /\ mode[c] # "direct"
    /\ pc[d] \in Holding /\ mode[d] # "direct"
    /\ process[c] = process[d]
    => c = d

\* A process gives up after the limit of failed attempts (_max_refresh_attempts),
\* although each call compares the counter before a refresh and raises it after.
TriesAreLimited == \A p \in Processes : attempts[p] <= MaxAttempts

\* A lock belongs to a call that is on its way to give it back: no early return,
\* failure or death of a process leaves it to nobody, for which every later call
\* of the user in that process would wait for ever.
LockNotLeftBehind ==
  \A p \in Processes : lock[p] # None =>
    \E c \in Calls : lock[p] = c /\ process[c] = p /\ pc[c] \in Holding /\ mode[c] # "direct"

\* However many processes refresh at once, with the lock or without it, and
\* however authorisations fall between: if the refresh token in the row is spent,
\* its replacement is on the way into the row, or a fault has destroyed it.
SpentIsReplaced ==
  row.refresh \in spent =>
    \/ row.refresh \in lost
    \/ \E c \in Calls : pc[c] = "store" /\ used[c] = row.refresh

\* The service does not make a row invalid that somebody has just refreshed or
\* authorised ("Mark token as invalid if we can't refresh it").
KeptWhileRefreshable ==
  [][\A c \in Calls : Invalidate(c) /\ row.valid /\ ~row'.valid => row.age # "fresh"]_vars

===============================================================================

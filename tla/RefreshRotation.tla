---------------------------- MODULE RefreshRotation ----------------------------
(***************************************************************************)
(* Rotation of the refresh tokens of ONE session family: what              *)
(* rotate_refresh_token (app/auth_refresh.py) does with the family's keys  *)
(* in app/token_store.py while other requests of the same family, a        *)
(* logout, the timers on the keys and restarts of a worker run beside it.  *)
(*                                                                         *)
(* Every key lives in Redis and, as a fallback, in each worker process.    *)
(* A step of a request ends where the code awaits the store or the         *)
(* database, so every other request may run between two steps.             *)
(***************************************************************************)
EXTENDS Naturals, FiniteSets

CONSTANTS
  Requests,    \* the calls of rotate_refresh_token, each runs once
  Workers,     \* the server processes
  Redis,       \* the shared store
  RedisMode,   \* "up": every call is answered; "down": none is; "flaky": any may fail
  Timers,      \* the TTLs that may run out: subset of {"rotation", "claim", "grace"}
  Restarts,    \* may a worker be restarted
  LoginJti,    \* the token the login issues
  None         \* an absent key

ASSUME StoresAssumption == Redis \notin Workers
ASSUME ModeAssumption == RedisMode \in {"up", "down", "flaky"}
ASSUME TimersAssumption == Timers \subseteq {"rotation", "claim", "grace"}
ASSUME RestartsAssumption == Restarts \in BOOLEAN
ASSUME NamesAssumption ==
  /\ LoginJti \notin Requests
  /\ None \notin Requests \cup Workers \cup {LoginJti}

Stores == Workers \cup {Redis}

\* The token minted by request r is named after r: its jti is 16 random bytes.
Jtis == Requests \cup {LoginJti}

Use == [jti : Jtis \cup {None}, uses : 0..2]
NoUse == [jti |-> None, uses |-> 0]

Results == {"none", "busy", "reused", "revoked", "failed", "kept", "rotated", "crashed"}

\* Where a request is.  Between "allowed" and "leave" it is past the
\* process-local guard; between "guard" and "unlockLocal" it holds the token
\* that acquire_refresh_rotation_lock returned.
Guarded == {"allowed", "family", "replay", "recount", "decide", "touch", "mint", "allowNew",
            "claim", "claiming", "unclaim", "abandon", "stamp", "leave"}
Locked == Guarded \cup {"guard", "unlock", "unlockLocal"}
Places == Locked \cup {"idle", "lock", "lockLocal", "done"}

VARIABLES
  rotLock,     \* refresh_rotation_lock:<sid>  : store -> the request whose token is in it
  allow,       \* refresh_allow:<sid>          : store -> the jti that may be exchanged
  used,        \* refresh_used:<sid>:<jti>     : store -> the jtis claimed there
  claimLock,   \* refresh_lock:<sid>:<jti>     : the jtis whose claim lock is set in Redis
  lastUse,     \* refresh_last_used:<sid>      : store -> jti and use count
  revoked,     \* revoked_refresh_family:<sid> : store -> BOOLEAN
  active,      \* _refresh_active_count[<sid>] : worker -> requests past the guard
  pc,          \* request -> its place
  worker,      \* request -> the process that serves it
  token,       \* request -> the jti it presents
  result,      \* request -> what it will answer
  claimed,     \* requests whose claim_refresh_jti_with_retry succeeded
  spent,       \* history: the jtis that a rotation has replaced
  loggedIn,    \* the family has been opened
  logoutAt,    \* the worker in the middle of a logout, or None
  loggedOut,   \* a logout of the family has returned
  late         \* history: the requests that arrived after it had

storeVars == <<rotLock, allow, used, claimLock, lastUse, revoked>>
requestVars == <<pc, worker, token, result, claimed, spent, late>>
familyVars == <<loggedIn, logoutAt, loggedOut>>
vars == <<storeVars, active, requestVars, familyVars>>

TypeOK ==
  /\ rotLock \in [Stores -> Requests \cup {None}]
  /\ allow \in [Stores -> Jtis \cup {None}]
  /\ used \in [Stores -> SUBSET Jtis]
  /\ claimLock \in SUBSET Jtis
  /\ lastUse \in [Stores -> Use]
  /\ revoked \in [Stores -> BOOLEAN]
  /\ active \in [Workers -> 0..1]
  /\ pc \in [Requests -> Places]
  /\ worker \in [Requests -> Workers \cup {None}]
  /\ \A r \in Requests : pc[r] # "idle" => worker[r] \in Workers
  /\ token \in [Requests -> Jtis \cup {None}]
  /\ \A r \in Requests : pc[r] # "idle" => token[r] \in Jtis
  /\ result \in [Requests -> Results]
  /\ claimed \in SUBSET Requests
  /\ spent \in SUBSET Jtis
  /\ loggedIn \in BOOLEAN
  /\ logoutAt \in Workers \cup {None}
  /\ loggedOut \in BOOLEAN
  /\ late \in SUBSET Requests

Init ==
  /\ rotLock = [s \in Stores |-> None]
  /\ allow = [s \in Stores |-> None]
  /\ used = [s \in Stores |-> {}]
  /\ claimLock = {}
  /\ lastUse = [s \in Stores |-> NoUse]
  /\ revoked = [s \in Stores |-> FALSE]
  /\ active = [w \in Workers |-> 0]
  /\ pc = [r \in Requests |-> "idle"]
  /\ worker = [r \in Requests |-> None]
  /\ token = [r \in Requests |-> None]
  /\ result = [r \in Requests |-> "none"]
  /\ claimed = {}
  /\ spent = {}
  /\ loggedIn = FALSE
  /\ logoutAt = None
  /\ loggedOut = FALSE
  /\ late = {}

-------------------------------------------------------------------------------
(***************************************************************************)
(* The stores.  Every operation of token_store.py asks Redis first and     *)
(* falls back to the dictionaries of its own process when there is no      *)
(* Redis or the call raises.  A write that raises may still have reached   *)
(* Redis: then both copies hold the value.                                 *)
(***************************************************************************)
RedisAnswers == RedisMode \in {"up", "flaky"}
RedisFails == RedisMode \in {"down", "flaky"}

\* The stores that may serve a read of worker w.
ReadsFrom(w) == {s \in {Redis, w} : IF s = Redis THEN RedisAnswers ELSE RedisFails}

\* The sets of stores in which a write of worker w may take effect.
WritesTo(w) == {T \in SUBSET ReadsFrom(w) : T # {}}

Put(f, T, v) == [s \in Stores |-> IF s \in T THEN v ELSE f[s]]

Move(r, from, to) ==
  /\ pc[r] = from
  /\ pc' = [pc EXCEPT ![r] = to]

\* The request knows its answer and goes on to release what it holds.
Settle(r, from, to, res) ==
  /\ Move(r, from, to)
  /\ result' = [result EXCEPT ![r] = res]

\* The tokens a client may present: the cookies of a handler reach it with
\* the answer, and only a rotation that returned its tokens sends any.
Held == {LoginJti} \cup {r \in Requests : pc[r] = "done" /\ result[r] = "rotated"}

-------------------------------------------------------------------------------
(* The family is opened by a login, and closed by a logout.                *)

\* login issues the first token and allows it for the session.
Login(w) ==
  /\ ~loggedIn
  /\ loggedIn' = TRUE
  /\ \E T \in WritesTo(w) : allow' = Put(allow, T, LoginJti)
  /\ UNCHANGED <<rotLock, used, claimLock, lastUse, revoked, active, requestVars, logoutAt,
                 loggedOut>>

\* Mutant: the revocation stays in the process that serves the logout.
LogoutRedisSkipped(w) ==
  /\ loggedIn
  /\ logoutAt = None
  /\ ~loggedOut
  /\ logoutAt' = w
  /\ UNCHANGED <<storeVars, active, requestVars, loggedIn, loggedOut>>

\* logout_user calls revoke_refresh_family, which marks the family in Redis ...
LogoutRedis(w) ==
  /\ loggedIn
  /\ logoutAt = None
  /\ ~loggedOut
  /\ logoutAt' = w
  /\ \/ RedisAnswers /\ revoked' = Put(revoked, {Redis}, TRUE)
     \/ RedisFails /\ UNCHANGED revoked
  /\ UNCHANGED <<rotLock, allow, used, claimLock, lastUse, active, requestVars, loggedIn,
                 loggedOut>>

\* ... and, whether or not that worked, in its own process.
LogoutLocal(w) ==
  /\ logoutAt = w
  /\ revoked' = Put(revoked, {w}, TRUE)
  /\ logoutAt' = None
  /\ loggedOut' = TRUE
  /\ UNCHANGED <<rotLock, allow, used, claimLock, lastUse, active, requestVars, loggedIn>>

-------------------------------------------------------------------------------
(* rotate_refresh_token, one action per step.                              *)

\* A request presents a token it was given; the token decodes and names the
\* family (validate_refresh_token).
Arrive(r, w, j) ==
  /\ loggedIn
  /\ j \in Held
  /\ Move(r, "idle", "lock")
  /\ worker' = [worker EXCEPT ![r] = w]
  /\ token' = [token EXCEPT ![r] = j]
  /\ late' = IF loggedOut THEN late \cup {r} ELSE late
  /\ UNCHANGED <<storeVars, active, result, claimed, spent, familyVars>>

\* acquire_refresh_rotation_lock: SET NX EX in Redis.
TakeRotationLock(r) ==
  /\ RedisAnswers
  /\ rotLock[Redis] = None
  /\ Move(r, "lock", "guard")
  /\ rotLock' = Put(rotLock, {Redis}, r)
  /\ UNCHANGED <<allow, used, claimLock, lastUse, revoked, active, worker, token, result, claimed,
                 spent, late, familyVars>>

\* The last of the attempts found the lock held: the loop ends, and the code
\* after it is the process-local fallback.
RotationLockContended(r) ==
  /\ RedisAnswers
  /\ rotLock[Redis] # None
  /\ Move(r, "lock", "lockLocal")
  /\ UNCHANGED <<storeVars, active, worker, token, result, claimed, spent, late, familyVars>>

\* There is no Redis, or SET raised; it may have set the key all the same.
RotationLockError(r) ==
  /\ RedisFails
  /\ Move(r, "lock", "lockLocal")
  /\ \/ UNCHANGED rotLock
     \/ /\ RedisAnswers
        /\ rotLock[Redis] = None
        /\ rotLock' = Put(rotLock, {Redis}, r)
  /\ UNCHANGED <<allow, used, claimLock, lastUse, revoked, active, worker, token, result, claimed,
                 spent, late, familyVars>>

\* The process-local fallback of acquire_refresh_rotation_lock.
TakeLocalRotationLock(r) ==
  /\ Move(r, "lockLocal", "guard")
  /\ rotLock[worker[r]] = None
  /\ rotLock' = Put(rotLock, {worker[r]}, r)
  /\ UNCHANGED <<allow, used, claimLock, lastUse, revoked, active, worker, token, result, claimed,
                 spent, late, familyVars>>

\* 503 refresh_locked.
RotationLockRefused(r) ==
  /\ Settle(r, "lockLocal", "done", "busy")
  /\ rotLock[worker[r]] # None
  /\ UNCHANGED <<storeVars, active, worker, token, claimed, spent, late, familyVars>>

\* Mutant: the count is not looked at again once the lock is held.
EnterGuardUnchecked(r) ==
  /\ Move(r, "guard", "allowed")
  /\ active' = [active EXCEPT ![worker[r]] = @ + 1]
  /\ UNCHANGED <<storeVars, worker, token, result, claimed, spent, late, familyVars>>

\* _acquire_refresh_lock with the default limit of one refresh per session:
\* either it counts the request in, or it answers 429.
EnterGuard(r) ==
  /\ Move(r, "guard", "allowed")
  /\ active[worker[r]] < 1
  /\ active' = [active EXCEPT ![worker[r]] = @ + 1]
  /\ UNCHANGED <<storeVars, worker, token, result, claimed, spent, late, familyVars>>

\* Mutant: the 429 is raised outside the try block.
GuardRefusedOutside(r) ==
  /\ Settle(r, "guard", "done", "busy")
  /\ active[worker[r]] >= 1
  /\ UNCHANGED <<storeVars, active, worker, token, claimed, spent, late, familyVars>>

GuardRefused(r) ==
  /\ Settle(r, "guard", "unlock", "busy")
  /\ active[worker[r]] >= 1
  /\ UNCHANGED <<storeVars, active, worker, token, claimed, spent, late, familyVars>>

\* Mutant: the stored jti is not compared.
CheckAllowedAlways(r) ==
  /\ Move(r, "allowed", "family")
  /\ UNCHANGED <<storeVars, active, worker, token, result, claimed, spent, late, familyVars>>

\* is_refresh_allowed: no key means every token of the family is allowed.
CheckAllowed(r) ==
  /\ pc[r] = "allowed"
  /\ \E s \in ReadsFrom(worker[r]) :
       \/ /\ allow[s] \in {None, token[r]}
          /\ Move(r, "allowed", "family")
          /\ UNCHANGED result
       \/ /\ allow[s] \notin {None, token[r]}
          /\ Settle(r, "allowed", "leave", "reused")
  /\ UNCHANGED <<storeVars, active, worker, token, claimed, spent, late, familyVars>>

\* check_replay_protection, first half: is_refresh_family_revoked.
CheckFamily(r) ==
  /\ pc[r] = "family"
  /\ \E s \in ReadsFrom(worker[r]) :
       \/ ~revoked[s] /\ Move(r, "family", "replay") /\ UNCHANGED result
       \/ revoked[s] /\ Settle(r, "family", "leave", "revoked")
  /\ UNCHANGED <<storeVars, active, worker, token, claimed, spent, late, familyVars>>

\* check_replay_protection, second half, called with claim=False: get_last_used_jti.
\* A record of another jti, or one older than the grace period, is ignored.
CheckReplay(r) ==
  /\ pc[r] = "replay"
  /\ \E s \in ReadsFrom(worker[r]) :
       \/ lastUse[s].jti # token[r] /\ Move(r, "replay", "decide") /\ UNCHANGED result
       \/ /\ lastUse[s].jti = token[r]
          /\ lastUse[s].uses < 2
          /\ Move(r, "replay", "recount")
          /\ UNCHANGED result
       \/ /\ lastUse[s].jti = token[r]
          /\ lastUse[s].uses >= 2
          /\ Settle(r, "replay", "leave", "reused")
  /\ UNCHANGED <<storeVars, active, worker, token, claimed, spent, late, familyVars>>

\* ... and the set_last_used_jti that counts this use as the second.
Recount(r) ==
  /\ Move(r, "recount", "decide")
  /\ \E T \in WritesTo(worker[r]) : lastUse' = Put(lastUse, T, [jti |-> token[r], uses |-> 2])
  /\ UNCHANGED <<rotLock, allow, used, claimLock, revoked, active, worker, token, result, claimed,
                 spent, late, familyVars>>

\* The token is decoded again, and rotated if it expires within the window.
Decide(r) ==
  /\ \/ Move(r, "decide", "touch") /\ UNCHANGED result
     \/ Move(r, "decide", "mint") /\ UNCHANGED result
     \/ Settle(r, "decide", "leave", "failed")
  /\ UNCHANGED <<storeVars, active, worker, token, claimed, spent, late, familyVars>>

\* No rotation: the use is stored with a count of 1, whatever it was before.
Touch(r) ==
  /\ Settle(r, "touch", "leave", "kept")
  /\ \E T \in WritesTo(worker[r]) : lastUse' = Put(lastUse, T, [jti |-> token[r], uses |-> 1])
  /\ UNCHANGED <<rotLock, allow, used, claimLock, revoked, active, worker, token, claimed, spent,
                 late, familyVars>>

\* A new session row, new tokens and the cookies; a failure of the database or
\* of the cookies ends the request before the family has changed.
Mint(r) ==
  /\ \/ Move(r, "mint", "allowNew") /\ UNCHANGED result
     \/ Settle(r, "mint", "leave", "failed")
  /\ UNCHANGED <<storeVars, active, worker, token, claimed, spent, late, familyVars>>

\* Mutant: the new token is sent without being allowed.
AllowNewForgotten(r) ==
  /\ Move(r, "allowNew", "claim")
  /\ spent' = spent \cup {token[r]}
  /\ UNCHANGED <<storeVars, active, worker, token, result, claimed, late, familyVars>>

\* allow_refresh: from here on the family accepts the new token only.
AllowNew(r) ==
  /\ Move(r, "allowNew", "claim")
  /\ \E T \in WritesTo(worker[r]) : allow' = Put(allow, T, r)
  /\ spent' = spent \cup {token[r]}
  /\ UNCHANGED <<rotLock, used, claimLock, lastUse, revoked, active, worker, token, result, claimed,
                 late, familyVars>>

-------------------------------------------------------------------------------
(* claim_refresh_jti_with_retry: mark the old token as used.               *)

\* SET NX EX 5 of the claim lock; when it stays held through the retries the
\* claim is given up ("lock_timeout") and the rotation goes on.
ClaimLock(r) ==
  /\ RedisAnswers
  /\ \/ /\ token[r] \notin claimLock
        /\ Move(r, "claim", "claiming")
        /\ claimLock' = claimLock \cup {token[r]}
     \/ /\ token[r] \in claimLock
        /\ Move(r, "claim", "stamp")
        /\ UNCHANGED claimLock
  /\ UNCHANGED <<rotLock, allow, used, lastUse, revoked, active, worker, token, result, claimed,
                 spent, late, familyVars>>

\* Mutant: neither GET nor NX.
ClaimMarkBlind(r) ==
  /\ RedisAnswers
  /\ Move(r, "claiming", "unclaim")
  /\ claimed' = claimed \cup {r}
  /\ used' = [used EXCEPT ![Redis] = @ \cup {token[r]}]
  /\ UNCHANGED <<rotLock, allow, claimLock, lastUse, revoked, active, worker, token, result, spent,
                 late, familyVars>>

\* GET and SET NX of the used mark; only the first caller sees it absent.
ClaimMark(r) ==
  /\ RedisAnswers
  /\ Move(r, "claiming", "unclaim")
  /\ claimed' = IF token[r] \in used[Redis] THEN claimed ELSE claimed \cup {r}
  /\ used' = [used EXCEPT ![Redis] = @ \cup {token[r]}]
  /\ UNCHANGED <<rotLock, allow, claimLock, lastUse, revoked, active, worker, token, result, spent,
                 late, familyVars>>

\* The finally clause deletes the claim lock, whoever has set it.
ClaimUnlock(r) ==
  /\ RedisAnswers
  /\ Move(r, "unclaim", "stamp")
  /\ claimLock' = claimLock \ {token[r]}
  /\ UNCHANGED <<rotLock, allow, used, lastUse, revoked, active, worker, token, result, claimed,
                 spent, late, familyVars>>

\* GET or SET of the mark raised, with or without effect; the finally clause
\* then tries to delete the lock.
ClaimMarkError(r) ==
  /\ RedisAnswers /\ RedisFails
  /\ Move(r, "claiming", "abandon")
  /\ \/ UNCHANGED used
     \/ used' = [used EXCEPT ![Redis] = @ \cup {token[r]}]
  /\ UNCHANGED <<rotLock, allow, claimLock, lastUse, revoked, active, worker, token, result,
                 claimed, spent, late, familyVars>>

\* Whatever call raised, the claim is made again in the local dictionary, and
\* its answer there is the one returned.
ClaimLocal(r) ==
  /\ RedisFails
  /\ \/ /\ Move(r, "claim", "stamp")
        /\ \/ UNCHANGED claimLock
           \/ RedisAnswers /\ claimLock' = claimLock \cup {token[r]}
     \/ /\ Move(r, "unclaim", "stamp") \/ Move(r, "abandon", "stamp")
        /\ \/ UNCHANGED claimLock
           \/ claimLock' = claimLock \ {token[r]}
  /\ claimed' = IF token[r] \in used[worker[r]] THEN claimed \ {r} ELSE claimed \cup {r}
  /\ used' = [used EXCEPT ![worker[r]] = @ \cup {token[r]}]
  /\ UNCHANGED <<rotLock, allow, lastUse, revoked, active, worker, token, result, spent, late,
                 familyVars>>

-------------------------------------------------------------------------------
\* The new token's first use is stored, and the tokens will be returned.
Stamp(r) ==
  /\ Settle(r, "stamp", "leave", "rotated")
  /\ \E T \in WritesTo(worker[r]) : lastUse' = Put(lastUse, T, [jti |-> r, uses |-> 1])
  /\ UNCHANGED <<rotLock, allow, used, claimLock, revoked, active, worker, token, claimed, spent,
                 late, familyVars>>

\* The finally clause: _release_refresh_lock ...
LeaveGuard(r) ==
  /\ Move(r, "leave", "unlock")
  /\ active' = [active EXCEPT ![worker[r]] = @ - 1]
  /\ UNCHANGED <<storeVars, worker, token, result, claimed, spent, late, familyVars>>

\* Mutant: DEL without comparing the token.
UnlockAny(r) ==
  /\ Move(r, "unlock", "unlockLocal")
  /\ \/ RedisAnswers /\ rotLock' = Put(rotLock, {Redis}, None)
     \/ RedisFails /\ UNCHANGED rotLock
  /\ UNCHANGED <<allow, used, claimLock, lastUse, revoked, active, worker, token, result, claimed,
                 spent, late, familyVars>>

\* ... then release_refresh_rotation_lock: the script deletes the Redis lock if
\* the token in it is the request's own ...
Unlock(r) ==
  /\ Move(r, "unlock", "unlockLocal")
  /\ \/ RedisAnswers /\ rotLock' = Put(rotLock, {s \in {Redis} : rotLock[s] = r}, None)
     \/ RedisFails /\ UNCHANGED rotLock
  /\ UNCHANGED <<allow, used, claimLock, lastUse, revoked, active, worker, token, result, claimed,
                 spent, late, familyVars>>

\* ... and so does the local half.
UnlockLocal(r) ==
  /\ Move(r, "unlockLocal", "done")
  /\ rotLock' = Put(rotLock, {s \in {worker[r]} : rotLock[s] = r}, None)
  /\ UNCHANGED <<allow, used, claimLock, lastUse, revoked, active, worker, token, result, claimed,
                 spent, late, familyVars>>

-------------------------------------------------------------------------------
(* Timers and restarts.                                                    *)

\* Mutant: SET NX without EX.
RotationLockKept(s) ==
  /\ "rotation" \in Timers
  /\ s # Redis
  /\ rotLock[s] # None
  /\ rotLock' = Put(rotLock, {s}, None)
  /\ UNCHANGED <<allow, used, claimLock, lastUse, revoked, active, requestVars, familyVars>>

\* The rotation lock outlives no more than JWT_CONCURRENT_GRACE_S seconds.
RotationLockExpires(s) ==
  /\ "rotation" \in Timers
  /\ rotLock[s] # None
  /\ rotLock' = Put(rotLock, {s}, None)
  /\ UNCHANGED <<allow, used, claimLock, lastUse, revoked, active, requestVars, familyVars>>

\* The claim lock lives five seconds.
ClaimLockExpires(j) ==
  /\ "claim" \in Timers
  /\ j \in claimLock
  /\ claimLock' = claimLock \ {j}
  /\ UNCHANGED <<rotLock, allow, used, lastUse, revoked, active, requestVars, familyVars>>

\* The last use is more than 60 seconds old.
GraceEnds(s) ==
  /\ "grace" \in Timers
  /\ lastUse[s] # NoUse
  /\ lastUse' = Put(lastUse, {s}, NoUse)
  /\ UNCHANGED <<rotLock, allow, used, claimLock, revoked, active, requestVars, familyVars>>

\* A worker process stops and starts: its requests, its logout, its
\* dictionaries and its locks are gone, Redis keeps its keys.
Restart(w) ==
  /\ Restarts
  /\ LET dead == {r \in Requests : worker[r] = w /\ pc[r] \notin {"idle", "done"}}
     IN  /\ pc' = [r \in Requests |-> IF r \in dead THEN "done" ELSE pc[r]]
         /\ result' = [r \in Requests |-> IF r \in dead THEN "crashed" ELSE result[r]]
  /\ logoutAt' = IF logoutAt = w THEN None ELSE logoutAt
  /\ rotLock' = Put(rotLock, {w}, None)
  /\ allow' = Put(allow, {w}, None)
  /\ used' = Put(used, {w}, {})
  /\ lastUse' = Put(lastUse, {w}, NoUse)
  /\ revoked' = Put(revoked, {w}, FALSE)
  /\ active' = [active EXCEPT ![w] = 0]
  /\ UNCHANGED <<claimLock, worker, token, claimed, spent, late, loggedIn, loggedOut>>

-------------------------------------------------------------------------------
Rotate(r) ==
  \/ TakeRotationLock(r) \/ RotationLockContended(r) \/ RotationLockError(r)
  \/ TakeLocalRotationLock(r) \/ RotationLockRefused(r)
  \/ EnterGuard(r) \/ GuardRefused(r)
  \/ CheckAllowed(r) \/ CheckFamily(r) \/ CheckReplay(r) \/ Recount(r)
  \/ Decide(r) \/ Touch(r) \/ Mint(r) \/ AllowNew(r)
  \/ ClaimLock(r) \/ ClaimMark(r) \/ ClaimUnlock(r) \/ ClaimMarkError(r) \/ ClaimLocal(r)
  \/ Stamp(r) \/ LeaveGuard(r) \/ Unlock(r) \/ UnlockLocal(r)

Expire ==
  \/ \E s \in Stores : RotationLockExpires(s) \/ GraceEnds(s)
  \/ \E j \in Jtis : ClaimLockExpires(j)

Next ==
  \/ \E w \in Workers : Login(w) \/ LogoutRedis(w) \/ LogoutLocal(w) \/ Restart(w)
  \/ \E r \in Requests, w \in Workers, j \in Jtis : Arrive(r, w, j)
  \/ \E r \in Requests : Rotate(r)
  \/ Expire

Spec == Init /\ [][Next]_vars

\* The event loop runs every coroutine that is ready, and a TTL runs out in the end.
FairSpec ==
  /\ Spec
  /\ \A r \in Requests : WF_vars(Rotate(r))
  /\ WF_vars(Expire)

-------------------------------------------------------------------------------
(* Properties.                                                             *)

\* In one process no two requests of the family are between
\* _acquire_refresh_lock and _release_refresh_lock, whatever happened to the
\* rotation lock in between: it ran out, was granted twice, or Redis failed.
OneInsideGuard ==
  \A r, q \in Requests :
    pc[r] \in Guarded /\ pc[q] \in Guarded /\ worker[r] = worker[q] => r = q

\* The store that answers everything when there is only one that does.
Authority == IF RedisAnswers THEN Redis ELSE CHOOSE w \in Workers : TRUE

\* A client that was given a token can use it: until some request exchanges
\* it, the family accepts that token.  Two requests of two browser tabs
\* never leave one of them with cookies the other has invalidated.
DeliveredIsAllowed ==
  loggedIn => \A t \in Held \ spent : allow[Authority] = t

\* A request that arrives after logout_user has returned gets no tokens and is
\* not told that its old one is still good.
RevocationHolds ==
  \A r \in late : result[r] \notin {"rotated", "kept"}

\* claim_refresh_jti_with_retry succeeds for the first caller only, although
\* the lock around it may run out and be deleted by the wrong caller.
ClaimedOnce ==
  \A r, q \in claimed : token[r] = token[q] => r = q

\* A request that has answered holds the rotation lock in no store.
DoneHoldsNoLock ==
  \A r \in Requests, s \in Stores :
    pc[r] = "done" /\ result[r] # "crashed" => rotLock[s] # r

\* The rotation lock leaves its holder only by a step of that holder, by its
\* death or by a timer: release_refresh_rotation_lock never frees the lock
\* of the request that took it after a timeout.
NoForeignRelease ==
  [][\A s \in Stores :
       rotLock[s] # None /\ rotLock'[s] # rotLock[s] =>
         /\ rotLock'[s] = None
         /\ pc'[rotLock[s]] # pc[rotLock[s]] \/ pc' = pc]_vars

\* A rotation lock is always freed again, also when its holder died.
LockIsFreed ==
  \A s \in Stores : rotLock[s] # None ~> rotLock[s] = None

\* One worker and one store that answers: the family keeps its contract.
Family == INSTANCE TokenFamily WITH
  Tokens <- Jtis, NoToken <- None, current <- allow[Authority], spent <- spent
ImplementsTokenFamily == Family!Spec

\* Across processes too, one request of a session at a time checks and
\* rotates ("Distributed locks work across processes",
\* docs/race_condition_fix.md:108).
OneRotationPerSession ==
  \A r, q \in Requests : pc[r] \in Guarded /\ pc[q] \in Guarded => r = q

\* A token is accepted at most twice within the grace period ("allow exactly
\* 2 uses of the same JTI within a window", app/auth_refresh.py:375).
AtMostTwoUses ==
  \A j \in Jtis :
    Cardinality({r \in Requests : token[r] = j /\ result[r] \in {"kept", "rotated"}}) <= 2
=============================================================================

------------------------- MODULE RefreshRotationProofs -------------------------
(***************************************************************************)
(* Theorems about RefreshRotation, for any requests and workers: first the *)
(* type invariant and the process-local guard; then what the keys of the   *)
(* token store guarantee; and last the contract of the token family, which *)
(* one worker with one store keeps.                                        *)
(***************************************************************************)
EXTENDS RefreshRotation, TLAPS

(***************************************************************************)
(* The counter of the process-local guard agrees with the requests that    *)
(* are past it.  TypeOK alone is not inductive: that the counter stays in  *)
(* 0..1 needs the guard, and the guard needs the counter.                  *)
(***************************************************************************)
GuardInv ==
  /\ TypeOK
  /\ OneInsideGuard
  /\ \A r \in Requests : pc[r] \in Guarded => active[worker[r]] = 1

\* The empty record is of the type of a use.
LEMMA NoUseIsAUse == NoUse \in Use
  BY DEF NoUse, Use

\* The invariant holds before the first request.
LEMMA GuardInvInit == Init => GuardInv
<1> SUFFICES ASSUME Init PROVE GuardInv
  OBVIOUS
<1>1. TypeOK
  <2>1. lastUse \in [Stores -> Use]
    BY NoUseIsAUse DEF Init
  <2>2. /\ pc \in [Requests -> Places]
        /\ result \in [Requests -> Results]
        /\ \A r \in Requests : pc[r] = "idle"
    BY DEF Init, Places, Results
  <2>3. /\ rotLock \in [Stores -> Requests \cup {None}]
        /\ allow \in [Stores -> Jtis \cup {None}]
        /\ used \in [Stores -> SUBSET Jtis]
        /\ revoked \in [Stores -> BOOLEAN]
        /\ active \in [Workers -> 0..1]
    BY DEF Init
  <2>4. /\ worker \in [Requests -> Workers \cup {None}]
        /\ token \in [Requests -> Jtis \cup {None}]
    BY DEF Init
  <2> QED
    BY <2>1, <2>2, <2>3, <2>4 DEF Init, TypeOK
<1>2. \A r \in Requests : pc[r] \notin Guarded
  BY DEF Init, Guarded
<1> QED
  BY <1>1, <1>2 DEF GuardInv, OneInsideGuard

\* A write keeps the type of the key it writes.
LEMMA PutType ==
  ASSUME NEW S, NEW f \in [Stores -> S], NEW T \in SUBSET Stores, NEW v \in S
  PROVE  Put(f, T, v) \in [Stores -> S]
  BY DEF Put

\* What a worker's reads and writes may touch.
LEMMA StoreTypes ==
  ASSUME NEW w \in Workers
  PROVE  /\ ReadsFrom(w) \subseteq Stores
         /\ \A T \in WritesTo(w) : T \subseteq Stores
  BY DEF ReadsFrom, WritesTo, Stores

\* Every action keeps the invariant: one step of the proof per action.
LEMMA GuardInvStep == GuardInv /\ [Next]_vars => GuardInv'
<1> SUFFICES ASSUME GuardInv, [Next]_vars PROVE GuardInv'
  OBVIOUS
<1> USE NamesAssumption DEF GuardInv, TypeOK, OneInsideGuard, storeVars, requestVars, familyVars
<1>1. ASSUME NEW w \in Workers, Login(w) PROVE GuardInv'
  BY <1>1 DEF Login, Put, Jtis
<1>2. ASSUME NEW w \in Workers, LogoutRedis(w) PROVE GuardInv'
  <2>1. revoked' \in [Stores -> BOOLEAN]
    BY <1>2 DEF LogoutRedis, Put
  <2> QED
    BY <1>2, <2>1 DEF LogoutRedis
<1>3. ASSUME NEW w \in Workers, LogoutLocal(w) PROVE GuardInv'
  BY <1>3 DEF LogoutLocal, Put
<1>4. ASSUME NEW w \in Workers, Restart(w) PROVE GuardInv'
  <2>1. /\ rotLock' \in [Stores -> Requests \cup {None}]
        /\ allow' \in [Stores -> Jtis \cup {None}]
        /\ used' \in [Stores -> SUBSET Jtis]
        /\ lastUse' \in [Stores -> Use]
        /\ revoked' \in [Stores -> BOOLEAN]
    BY <1>4, NoUseIsAUse DEF Restart, Put
  <2>2. /\ pc' \in [Requests -> Places]
        /\ result' \in [Requests -> Results]
        /\ active' \in [Workers -> 0..1]
    BY <1>4 DEF Restart, Places, Results
  <2>3. \A r \in Requests : pc'[r] # "idle" => pc[r] # "idle"
    BY <1>4 DEF Restart
  <2>4. \A r \in Requests : pc'[r] \in Guarded => pc[r] = pc'[r] /\ worker[r] # w
    BY <1>4 DEF Restart, Guarded
  <2>5. \A x \in Workers : x # w => active'[x] = active[x]
    BY <1>4 DEF Restart
  <2>6. TypeOK'
    BY <1>4, <2>1, <2>2, <2>3 DEF Restart
  <2>7. OneInsideGuard' /\ \A r \in Requests : pc'[r] \in Guarded => active'[worker'[r]] = 1
    BY <1>4, <2>4, <2>5 DEF Restart, Guarded
  <2> QED
    BY <2>6, <2>7
<1>5. ASSUME NEW r \in Requests, NEW w \in Workers, NEW j \in Jtis, Arrive(r, w, j) PROVE GuardInv'
  BY <1>5 DEF Arrive, Move, Places, Guarded, Locked
<1>6. ASSUME NEW r \in Requests, TakeRotationLock(r) PROVE GuardInv'
  BY <1>6 DEF TakeRotationLock, Move, Put, Stores, Places, Guarded, Locked
<1>7. ASSUME NEW r \in Requests, RotationLockContended(r) PROVE GuardInv'
  BY <1>7 DEF RotationLockContended, Move, Places, Guarded, Locked
<1>8. ASSUME NEW r \in Requests, RotationLockError(r) PROVE GuardInv'
  BY <1>8 DEF RotationLockError, Move, Put, Stores, Places, Guarded, Locked
<1>9. ASSUME NEW r \in Requests, TakeLocalRotationLock(r) PROVE GuardInv'
  BY <1>9 DEF TakeLocalRotationLock, Move, Put, Stores, Places, Guarded, Locked
<1>10. ASSUME NEW r \in Requests, RotationLockRefused(r) PROVE GuardInv'
  BY <1>10 DEF RotationLockRefused, Move, Settle, Results, Places, Guarded, Locked
<1>11. ASSUME NEW r \in Requests, EnterGuard(r) PROVE GuardInv'
  BY <1>11 DEF EnterGuard, Move, Places, Guarded, Locked
<1>12. ASSUME NEW r \in Requests, GuardRefused(r) PROVE GuardInv'
  BY <1>12 DEF GuardRefused, Move, Settle, Results, Places, Guarded, Locked
<1>13. ASSUME NEW r \in Requests, CheckAllowed(r) PROVE GuardInv'
  BY <1>13 DEF CheckAllowed, Move, Settle, Results, Places, Guarded, Locked
<1>14. ASSUME NEW r \in Requests, CheckFamily(r) PROVE GuardInv'
  BY <1>14 DEF CheckFamily, Move, Settle, Results, Places, Guarded, Locked
<1>15. ASSUME NEW r \in Requests, CheckReplay(r) PROVE GuardInv'
  BY <1>15 DEF CheckReplay, Move, Settle, Results, Places, Guarded, Locked
<1>16. ASSUME NEW r \in Requests, Recount(r) PROVE GuardInv'
  BY <1>16 DEF Recount, Move, Put, Use, Places, Guarded, Locked
<1>17. ASSUME NEW r \in Requests, Decide(r) PROVE GuardInv'
  BY <1>17 DEF Decide, Move, Settle, Results, Places, Guarded, Locked
<1>18. ASSUME NEW r \in Requests, Touch(r) PROVE GuardInv'
  BY <1>18 DEF Touch, Move, Settle, Results, Put, Use, Places, Guarded, Locked
<1>19. ASSUME NEW r \in Requests, Mint(r) PROVE GuardInv'
  BY <1>19 DEF Mint, Move, Settle, Results, Places, Guarded, Locked
<1>20. ASSUME NEW r \in Requests, AllowNew(r) PROVE GuardInv'
  BY <1>20 DEF AllowNew, Move, Put, Jtis, Places, Guarded, Locked
<1>21. ASSUME NEW r \in Requests, ClaimLock(r) PROVE GuardInv'
  BY <1>21 DEF ClaimLock, Move, Places, Guarded, Locked
<1>22. ASSUME NEW r \in Requests, ClaimMark(r) PROVE GuardInv'
  BY <1>22 DEF ClaimMark, Move, Places, Guarded, Locked
<1>23. ASSUME NEW r \in Requests, ClaimUnlock(r) PROVE GuardInv'
  BY <1>23 DEF ClaimUnlock, Move, Places, Guarded, Locked
<1>24. ASSUME NEW r \in Requests, ClaimMarkError(r) PROVE GuardInv'
  BY <1>24 DEF ClaimMarkError, Move, Places, Guarded, Locked
<1>25. ASSUME NEW r \in Requests, ClaimLocal(r) PROVE GuardInv'
  <2>1. used' \in [Stores -> SUBSET Jtis] /\ claimLock' \in SUBSET Jtis /\ claimed' \in SUBSET Requests
    BY <1>25 DEF ClaimLocal, Move, Stores
  <2>2. pc[r] \in {"claim", "unclaim", "abandon"} /\ pc' = [pc EXCEPT ![r] = "stamp"]
    BY <1>25 DEF ClaimLocal, Move
  <2> QED
    BY <1>25, <2>1, <2>2 DEF ClaimLocal, Places, Guarded, Locked
<1>26. ASSUME NEW r \in Requests, Stamp(r) PROVE GuardInv'
  BY <1>26 DEF Stamp, Move, Settle, Results, Put, Use, Jtis, Places, Guarded, Locked
<1>27. ASSUME NEW r \in Requests, LeaveGuard(r) PROVE GuardInv'
  BY <1>27 DEF LeaveGuard, Move, Places, Guarded, Locked
<1>28. ASSUME NEW r \in Requests, Unlock(r) PROVE GuardInv'
  BY <1>28 DEF Unlock, Move, Put, Places, Guarded, Locked
<1>29. ASSUME NEW r \in Requests, UnlockLocal(r) PROVE GuardInv'
  BY <1>29 DEF UnlockLocal, Move, Put, Places, Guarded, Locked
<1>30. ASSUME NEW s \in Stores, RotationLockExpires(s) PROVE GuardInv'
  BY <1>30 DEF RotationLockExpires, Put
<1>31. ASSUME NEW s \in Stores, GraceEnds(s) PROVE GuardInv'
  BY <1>31 DEF GraceEnds, Put, Use, NoUse
<1>32. ASSUME NEW j \in Jtis, ClaimLockExpires(j) PROVE GuardInv'
  BY <1>32 DEF ClaimLockExpires
<1>33. ASSUME UNCHANGED vars PROVE GuardInv'
  BY <1>33 DEF vars
<1> HIDE DEF GuardInv, TypeOK, OneInsideGuard, storeVars, requestVars, familyVars
<1> QED
  BY ONLY <1>1, <1>2, <1>3, <1>4, <1>5, <1>6, <1>7, <1>8, <1>9, <1>10, <1>11, <1>12, <1>13, <1>14, <1>15, <1>16, <1>17, <1>18, <1>19, <1>20, <1>21, <1>22, <1>23, <1>24, <1>25, <1>26, <1>27, <1>28, <1>29, <1>30, <1>31, <1>32, <1>33, [Next]_vars DEF Next, Rotate, Expire

\* The inductive invariant holds in every reachable state.
LEMMA GuardInvHolds == Spec => []GuardInv
  BY GuardInvInit, GuardInvStep, PTL DEF Spec

\* Every key, counter and request stays in its type: in particular the guard's
\* counter of a worker never exceeds one and never goes below zero.
THEOREM TypeCorrect == Spec => []TypeOK
<1>1. GuardInv => TypeOK
  BY DEF GuardInv
<1> QED
  BY <1>1, GuardInvHolds, PTL

\* Whatever Redis, the timers and restarts do, no two requests of the family
\* are past _acquire_refresh_lock in the same process.
THEOREM GuardExclusion == Spec => []OneInsideGuard
<1>1. GuardInv => OneInsideGuard
  BY DEF GuardInv
<1> QED
  BY <1>1, GuardInvHolds, PTL

-------------------------------------------------------------------------------
(***************************************************************************)
(* What the keys of the token store guarantee for any number of requests   *)
(* and worker processes: a lock is given up by its holder only, and while  *)
(* Redis answers a token is claimed once, no request leaves a lock behind, *)
(* and a family that was logged out stays revoked.                         *)
(***************************************************************************)

\* The holder of a process-local lock is a live request of that process.
LocalHolderLives ==
  \A w \in Workers, r \in Requests : rotLock[w] = r => worker[r] = w /\ pc[r] \in Locked

\* The holder of the Redis lock will release it, or died holding it.
RedisHolderReleases ==
  \A r \in Requests : rotLock[Redis] = r =>
    \/ pc[r] \in Locked \ {"unlockLocal"}
    \/ pc[r] = "done" /\ result[r] = "crashed"

\* A successful claim left its mark, and the mark is never taken away.
ClaimsMarked ==
  \A r \in claimed : pc[r] # "idle" /\ token[r] \in used[Redis]

\* Places of a request that has not been told that its family is alive.
Unadmitted == {"lock", "lockLocal", "guard", "allowed", "family", "leave", "unlock",
               "unlockLocal", "done"}

\* From the first step of a logout on Redis knows of it, and a request that
\* arrives later is not admitted.
Revoked ==
  /\ loggedOut \/ logoutAt # None => revoked[Redis]
  /\ \A r \in Requests : pc[r] = "idle" => result[r] = "none"
  /\ \A r \in late :
       loggedOut /\ pc[r] \in Unadmitted /\ result[r] \notin {"kept", "rotated"}
-------------------------------------------------------------------------------
\* Every action but these leaves the rotation locks alone.
LEMMA RotationLockFrame ==
  ASSUME [Next]_vars
  PROVE  \/ \E r \in Requests :
              \/ TakeRotationLock(r) \/ RotationLockError(r) \/ TakeLocalRotationLock(r)
              \/ Unlock(r) \/ UnlockLocal(r)
         \/ \E s \in Stores : RotationLockExpires(s)
         \/ \E w \in Workers : Restart(w)
         \/ rotLock' = rotLock
  BY DEF Next, Rotate, Expire, vars, storeVars, Login, LogoutRedis, LogoutLocal, Arrive, RotationLockContended,
     RotationLockRefused, EnterGuard, GuardRefused, CheckAllowed, CheckFamily, CheckReplay, Recount, Decide,
     Touch, Mint, AllowNew, ClaimLock, ClaimMark, ClaimUnlock, ClaimMarkError, ClaimLocal, Stamp, LeaveGuard,
     GraceEnds, ClaimLockExpires

\* A request keeps its worker, and the part of the handler in which it holds
\* its rotation lock ends with Unlock and UnlockLocal, or with the process.
LEMMA PlaceFrame ==
  ASSUME TypeOK, [Next]_vars, NEW r \in Requests
  PROVE  /\ pc[r] # "idle" => worker'[r] = worker[r] /\ token'[r] = token[r] /\ pc'[r] # "idle"
         /\ pc[r] \in Locked => pc'[r] \in Locked \/ UnlockLocal(r) \/ \E w \in Workers : Restart(w)
         /\ pc[r] \in Locked \ {"unlockLocal"} =>
              \/ pc'[r] \in Locked \ {"unlockLocal"}
              \/ Unlock(r)
              \/ \E w \in Workers : Restart(w)
         /\ pc[r] = "done" => pc'[r] = "done" /\ result'[r] = result[r]
<1> USE DEF TypeOK, Locked, Guarded
<1>1. CASE UNCHANGED <<pc, worker, token, result>>
  BY <1>1
<1>2. ASSUME NEW q \in Requests, NEW w \in Workers, NEW j \in Jtis, Arrive(q, w, j)
      PROVE  pc[q] = "idle" /\ pc' = [pc EXCEPT ![q] = "lock"] /\ result' = result
             /\ worker' = [worker EXCEPT ![q] = w] /\ token' = [token EXCEPT ![q] = j]
  BY <1>2 DEF Arrive, Move
<1>3. ASSUME NEW q \in Requests, Rotate(q)
      PROVE  /\ UNCHANGED <<worker, token>>
             /\ pc[q] # "idle" /\ pc[q] # "done" /\ pc'[q] # "idle"
             /\ \A p \in Requests : p # q => pc'[p] = pc[p] /\ result'[p] = result[p]
             /\ pc[q] \in Locked => pc'[q] \in Locked \/ UnlockLocal(q)
             /\ pc[q] \in Locked \ {"unlockLocal"} =>
                  pc'[q] \in Locked \ {"unlockLocal"} \/ Unlock(q)
  BY <1>3
     DEF Rotate, Move, Settle, TakeRotationLock, RotationLockContended, RotationLockError, TakeLocalRotationLock, RotationLockRefused, EnterGuard, GuardRefused, CheckAllowed, CheckFamily, CheckReplay, Recount, Decide, Touch, Mint, AllowNew, ClaimLock, ClaimMark, ClaimUnlock, ClaimMarkError, ClaimLocal, Stamp, LeaveGuard, Unlock, UnlockLocal
<1>4. ASSUME NEW w \in Workers, Restart(w)
      PROVE  /\ UNCHANGED <<worker, token>>
             /\ pc[r] # "idle" => pc'[r] # "idle"
             /\ pc[r] = "done" => pc'[r] = "done" /\ result'[r] = result[r]
  BY <1>4 DEF Restart
<1>5. \/ UNCHANGED <<pc, worker, token, result>>
      \/ \E q \in Requests, w \in Workers, j \in Jtis : Arrive(q, w, j)
      \/ \E q \in Requests : Rotate(q)
      \/ \E w \in Workers : Restart(w)
  BY DEF Next, Expire, vars, requestVars, Login, LogoutRedis, LogoutLocal, RotationLockExpires,
         GraceEnds, ClaimLockExpires
<1> QED
  BY <1>1, <1>2, <1>3, <1>4, <1>5

-------------------------------------------------------------------------------
\* No step leaves a process-local lock with a request that is gone.
LEMMA LocalHolderStep ==
  ASSUME TypeOK, LocalHolderLives, [Next]_vars
  PROVE  LocalHolderLives'
<1> SUFFICES ASSUME NEW v \in Workers, NEW q \in Requests, rotLock'[v] = q
             PROVE  worker'[q] = v /\ pc'[q] \in Locked
  BY DEF LocalHolderLives
<1>1. ASSUME NEW r \in Requests, TakeLocalRotationLock(r), rotLock[v] # q
      PROVE  worker'[q] = v /\ pc'[q] \in Locked
  BY <1>1, StoresAssumption DEF TakeLocalRotationLock, Move, Put, Stores, Locked, TypeOK
<1>2. CASE rotLock[v] = q
  <2>1. worker[q] = v /\ pc[q] \in Locked /\ pc[q] # "idle"
    BY <1>2 DEF LocalHolderLives, Locked, Guarded
  <2>2. ~UnlockLocal(q)
    BY <2>1, NamesAssumption DEF UnlockLocal, Put, Stores
  <2>3. ASSUME NEW w \in Workers, Restart(w) PROVE pc'[q] \in Locked
    <3>1. w # v
      BY <2>3, NamesAssumption DEF Restart, Put, Stores
    <3> QED
      BY <2>1, <2>3, <3>1 DEF Restart
  <2> QED
    BY <2>1, <2>2, <2>3, PlaceFrame
<1>3. CASE rotLock[v] # q
  BY <1>1, <1>3, RotationLockFrame, StoresAssumption, NamesAssumption
     DEF TakeRotationLock, RotationLockError, Unlock, UnlockLocal, RotationLockExpires, Restart, Put, Stores
<1> QED
  BY <1>2, <1>3

\* A process-local lock is always held by a live request of its process.
LEMMA LocalHolderHolds == Spec => []LocalHolderLives
<1>1. Init => LocalHolderLives
  BY NamesAssumption DEF Init, LocalHolderLives, Stores
<1>2. GuardInv /\ LocalHolderLives /\ [Next]_vars => LocalHolderLives'
  BY LocalHolderStep DEF GuardInv
<1> QED
  BY <1>1, <1>2, GuardInvHolds, PTL DEF Spec

\* A rotation lock is given up by a step of the request that holds it, by the
\* end of its process or by its timer, never by another request: neither the
\* script in Redis nor the local half of release_refresh_rotation_lock frees
\* the lock of the request that took it after a timeout, even when calls to
\* Redis fail.
THEOREM LockReleasedByHolder == Spec => NoForeignRelease
<1>1. ASSUME TypeOK, LocalHolderLives, [Next]_vars, NEW s \in Stores,
             rotLock[s] # None, rotLock'[s] # rotLock[s]
      PROVE  rotLock'[s] = None /\ (pc'[rotLock[s]] # pc[rotLock[s]] \/ pc' = pc)
  <2>1. rotLock[s] \in Requests
    BY <1>1 DEF TypeOK
  <2>2. ASSUME NEW r \in Requests, TakeRotationLock(r) \/ RotationLockError(r) \/ TakeLocalRotationLock(r)
        PROVE  rotLock'[s] = rotLock[s]
    BY <1>1, <2>2 DEF TakeRotationLock, RotationLockError, TakeLocalRotationLock, Put
  <2>3. ASSUME NEW r \in Requests, Unlock(r) \/ UnlockLocal(r)
        PROVE  rotLock'[s] = None /\ pc'[rotLock[s]] # pc[rotLock[s]]
    BY <1>1, <2>3 DEF Unlock, UnlockLocal, Move, Put, TypeOK
  <2>4. ASSUME NEW t \in Stores, RotationLockExpires(t)
        PROVE  rotLock'[s] = None /\ pc' = pc
    BY <1>1, <2>4 DEF RotationLockExpires, Put, requestVars
  <2>5. ASSUME NEW w \in Workers, Restart(w)
        PROVE  rotLock'[s] = None /\ pc'[rotLock[s]] # pc[rotLock[s]]
    <3>1. s = w /\ rotLock'[s] = None
      BY <1>1, <2>5 DEF Restart, Put
    <3>2. worker[rotLock[s]] = w /\ pc[rotLock[s]] \in Locked
      BY <1>1, <2>1, <3>1 DEF LocalHolderLives
    <3> QED
      BY <2>1, <2>5, <3>1, <3>2 DEF Restart, Locked, Guarded
  <2> QED
    BY <1>1, <2>2, <2>3, <2>4, <2>5, RotationLockFrame
<1>2. GuardInv => TypeOK
  BY DEF GuardInv
<1>3. TypeOK /\ LocalHolderLives /\ [Next]_vars =>
        [\A s \in Stores :
           rotLock[s] # None /\ rotLock'[s] # rotLock[s] =>
             /\ rotLock'[s] = None
             /\ pc'[rotLock[s]] # pc[rotLock[s]] \/ pc' = pc]_vars
  BY <1>1
<1> QED
  BY <1>2, <1>3, GuardInvHolds, LocalHolderHolds, PTL DEF Spec, NoForeignRelease

-------------------------------------------------------------------------------
(* From here on Redis answers every call.                                   *)
Up == RedisMode = "up"

\* While Redis answers, no step leaves the Redis lock with a request that
\* answered normally.
LEMMA RedisHolderStep ==
  ASSUME Up, TypeOK, RedisHolderReleases, [Next]_vars
  PROVE  RedisHolderReleases'
<1> SUFFICES ASSUME NEW q \in Requests, rotLock'[Redis] = q
             PROVE  \/ pc'[q] \in Locked \ {"unlockLocal"}
                    \/ pc'[q] = "done" /\ result'[q] = "crashed"
  BY DEF RedisHolderReleases
<1>1. CASE rotLock[Redis] = q
  <2>1. \/ pc[q] \in Locked \ {"unlockLocal"}
        \/ pc[q] = "done" /\ result[q] = "crashed"
    BY <1>1 DEF RedisHolderReleases
  <2>2. ~Unlock(q)
    BY <1>1, NamesAssumption DEF Unlock, Put, Stores, Up, RedisFails
  <2>3. ASSUME NEW w \in Workers, Restart(w), pc[q] \in Locked \ {"unlockLocal"}
        PROVE  pc'[q] = pc[q] \/ (pc'[q] = "done" /\ result'[q] = "crashed")
    BY <2>3 DEF Restart
  <2> QED
    BY <2>1, <2>2, <2>3, PlaceFrame
<1>2. CASE rotLock[Redis] # q
  <2>1. ASSUME NEW r \in Requests, TakeRotationLock(r)
        PROVE  pc'[q] \in Locked \ {"unlockLocal"}
    BY <1>2, <2>1 DEF TakeRotationLock, Move, Put, Stores, Locked, TypeOK
  <2>2. ASSUME NEW r \in Requests, RotationLockError(r) \/ TakeLocalRotationLock(r)
        PROVE  FALSE
    BY <1>2, <2>2, StoresAssumption
       DEF RotationLockError, TakeLocalRotationLock, Put, Stores, Up, RedisFails, TypeOK, Move
  <2>3. ASSUME NEW r \in Requests, Unlock(r) \/ UnlockLocal(r) PROVE FALSE
    BY <1>2, <2>3, NamesAssumption DEF Unlock, UnlockLocal, Put, Stores, Up, RedisFails
  <2>4. ASSUME NEW s \in Stores, RotationLockExpires(s) PROVE FALSE
    BY <1>2, <2>4, NamesAssumption DEF RotationLockExpires, Put, Stores
  <2>5. ASSUME NEW w \in Workers, Restart(w) PROVE FALSE
    BY <1>2, <2>5, NamesAssumption DEF Restart, Put, Stores
  <2> QED
    BY <1>2, <2>1, <2>2, <2>3, <2>4, <2>5, RotationLockFrame
<1> QED
  BY <1>1, <1>2

\* While Redis answers, a request that has answered holds its rotation lock
\* in no store, through whichever return or exception it left.
THEOREM NoLockLeftBehind == ASSUME Up PROVE Spec => []DoneHoldsNoLock
<1>1. Init => RedisHolderReleases
  BY NamesAssumption DEF Init, RedisHolderReleases, Stores
<1>2. GuardInv /\ RedisHolderReleases /\ [Next]_vars => RedisHolderReleases'
  BY RedisHolderStep DEF GuardInv
<1>3. RedisHolderReleases /\ LocalHolderLives => DoneHoldsNoLock
  BY DEF RedisHolderReleases, LocalHolderLives, DoneHoldsNoLock, Locked, Guarded, Stores
<1> QED
  BY <1>1, <1>2, <1>3, GuardInvHolds, LocalHolderHolds, PTL DEF Spec

\* Every action but these leaves the marks and the claims alone.
LEMMA ClaimFrame ==
  ASSUME Up, [Next]_vars
  PROVE  \/ \E r \in Requests : ClaimMark(r)
         \/ claimed' = claimed /\ used'[Redis] = used[Redis]
<1>1. ASSUME NEW w \in Workers, Restart(w) PROVE claimed' = claimed /\ used'[Redis] = used[Redis]
  BY <1>1, StoresAssumption DEF Restart, Put, Stores
<1> QED
  BY <1>1
     DEF Next, Rotate, Expire, vars, storeVars, requestVars, Up, RedisFails, Login, LogoutRedis,
         LogoutLocal, Arrive, TakeRotationLock, RotationLockContended, RotationLockError,
         TakeLocalRotationLock, RotationLockRefused, EnterGuard, GuardRefused, CheckAllowed,
         CheckFamily, CheckReplay, Recount, Decide, Touch, Mint, AllowNew, ClaimLock, ClaimUnlock,
         ClaimMarkError, ClaimLocal, Stamp, LeaveGuard, Unlock, UnlockLocal, RotationLockExpires,
         GraceEnds, ClaimLockExpires

\* While Redis answers, the claim of a token succeeds for one request only, in
\* whatever process and however often the claim lock around it ran out.
THEOREM ClaimIsExclusive == ASSUME Up PROVE Spec => []ClaimedOnce
<1> DEFINE Inv == ClaimsMarked /\ ClaimedOnce
<1>1. Init => Inv
  BY DEF Init, ClaimsMarked, ClaimedOnce
<1>2. ASSUME TypeOK, Inv, [Next]_vars PROVE Inv'
  <2>1. \A r \in claimed : pc'[r] # "idle" /\ token'[r] = token[r]
    BY <1>2, PlaceFrame DEF ClaimsMarked, TypeOK
  <2>2. ASSUME NEW r \in Requests, ClaimMark(r) PROVE Inv'
    <3>1. /\ pc'[r] # "idle" /\ token' = token /\ token[r] \in used'[Redis]
          /\ used[Redis] \subseteq used'[Redis]
          /\ claimed' = claimed \/ (claimed' = claimed \cup {r} /\ token[r] \notin used[Redis])
      BY <1>2, <2>2, PlaceFrame DEF ClaimMark, Move, TypeOK, Stores
    <3> QED
      BY <1>2, <2>1, <3>1 DEF ClaimsMarked, ClaimedOnce
  <2>3. CASE claimed' = claimed /\ used'[Redis] = used[Redis]
    BY <1>2, <2>1, <2>3 DEF ClaimsMarked, ClaimedOnce
  <2> QED
    BY <1>2, <2>2, <2>3, ClaimFrame
<1>3. GuardInv /\ Inv /\ [Next]_vars => Inv'
  BY <1>2 DEF GuardInv
<1> QED
  BY <1>1, <1>3, GuardInvHolds, PTL DEF Spec

\* While Redis answers, no step admits a request that arrived after the logout.
LEMMA RevokedStep ==
  ASSUME Up, TypeOK, Revoked, [Next]_vars
  PROVE  Revoked'
<1> USE DEF Up, RedisFails, TypeOK, Revoked, Unadmitted
<1>1. ASSUME NEW w \in Workers, LogoutRedis(w) PROVE Revoked'
  BY <1>1 DEF LogoutRedis, Put, Stores, requestVars
<1>2. ASSUME NEW w \in Workers, LogoutLocal(w) PROVE Revoked'
  BY <1>2, NamesAssumption DEF LogoutLocal, Put, Stores, requestVars
<1>3. ASSUME NEW w \in Workers, Restart(w) PROVE Revoked'
  <2>1. revoked'[Redis] = revoked[Redis]
    BY <1>3, StoresAssumption DEF Restart, Put, Stores
  <2> QED
    BY <1>3, <2>1 DEF Restart
<1>4. ASSUME NEW r \in Requests, NEW w \in Workers, NEW j \in Jtis, Arrive(r, w, j) PROVE Revoked'
  BY <1>4 DEF Arrive, Move, storeVars, familyVars
<1>5. ASSUME NEW r \in Requests, Rotate(r)
      PROVE  /\ UNCHANGED <<revoked, late, familyVars>>
             /\ pc[r] # "idle" /\ pc'[r] # "idle"
             /\ \A q \in Requests : q # r => pc'[q] = pc[q] /\ result'[q] = result[q]
             /\ pc[r] \in Unadmitted => \/ pc'[r] \in Unadmitted /\ result'[r] \notin {"kept", "rotated"}
                                        \/ ~revoked[Redis]
                                        \/ result[r] \in {"kept", "rotated"}
  BY <1>5
     DEF Rotate, Move, Settle, ReadsFrom, RedisAnswers, storeVars, familyVars, TakeRotationLock,
         RotationLockContended, RotationLockError, TakeLocalRotationLock, RotationLockRefused,
         EnterGuard, GuardRefused, CheckAllowed, CheckFamily, CheckReplay, Recount, Decide, Touch,
         Mint, AllowNew, ClaimLock, ClaimMark, ClaimUnlock, ClaimMarkError, ClaimLocal, Stamp,
         LeaveGuard, Unlock, UnlockLocal
<1>6. ASSUME NEW r \in Requests, Rotate(r) PROVE Revoked'
  <2>1. UNCHANGED <<revoked, late, loggedOut, logoutAt>>
    BY <1>5, <1>6 DEF familyVars
  <2>2. \A q \in Requests : pc'[q] = "idle" => result'[q] = "none"
    BY <1>5, <1>6
  <2>3. \A q \in late : pc'[q] \in Unadmitted /\ result'[q] \notin {"kept", "rotated"}
    <3>1. ASSUME NEW q \in late, q = r
          PROVE  pc'[q] \in Unadmitted /\ result'[q] \notin {"kept", "rotated"}
      <4>1. revoked[Redis] /\ pc[r] \in Unadmitted /\ result[r] \notin {"kept", "rotated"}
        BY <3>1
      <4> QED
        BY <1>5, <1>6, <3>1, <4>1
    <3> QED
      BY <1>5, <1>6, <3>1
  <2> QED
    BY <2>1, <2>2, <2>3
<1>7. CASE UNCHANGED <<revoked, requestVars, loggedOut, logoutAt>>
  BY <1>7 DEF requestVars
<1>8. \/ \E w \in Workers : LogoutRedis(w) \/ LogoutLocal(w) \/ Restart(w)
      \/ \E r \in Requests, w \in Workers, j \in Jtis : Arrive(r, w, j)
      \/ \E r \in Requests : Rotate(r)
      \/ UNCHANGED <<revoked, requestVars, loggedOut, logoutAt>>
  BY DEF Next, Expire, vars, storeVars, requestVars, familyVars, Login, RotationLockExpires,
         GraceEnds, ClaimLockExpires
<1> QED
  BY <1>1, <1>2, <1>3, <1>4, <1>6, <1>7, <1>8

\* While Redis answers, a request that arrives after a logout has returned
\* gets no tokens, although the two steps of the logout and the steps of
\* earlier requests of the family run between each other.
THEOREM LogoutIsFinal == ASSUME Up PROVE Spec => []RevocationHolds
<1>1. Init => Revoked
  BY DEF Init, Revoked
<1>2. GuardInv /\ Revoked /\ [Next]_vars => Revoked'
  BY RevokedStep DEF GuardInv
<1>3. Revoked => RevocationHolds
  BY DEF Revoked, RevocationHolds
<1> QED
  BY <1>1, <1>2, <1>3, GuardInvHolds, PTL DEF Spec

-------------------------------------------------------------------------------
(***************************************************************************)
(* With one worker process and one store that answers it, the rotation     *)
(* implements the contract of TokenFamily and never takes back a token     *)
(* that was delivered, for any number of requests and with the timers and  *)
(* restarts of RefreshRotation.                                            *)
(***************************************************************************)

\* One process, and either Redis answers every call or none; without Redis the
\* process keeps the only copy, so it must not restart.
SingleStore ==
  /\ \E w \in Workers : Workers = {w}
  /\ RedisMode = "up" \/ (RedisMode = "down" /\ ~Restarts)

Current == allow[Authority]

\* Places of a request that was told its token is allowed and has not yet
\* replaced it, and of one that has.
BeforeSwitch == {"family", "replay", "recount", "decide", "touch", "mint", "allowNew"}
AfterSwitch == {"claim", "claiming", "unclaim", "abandon", "stamp"}
Leaving == {"leave", "unlock", "unlockLocal", "done"}

\* Nothing happens before the login.
Closed == ~loggedIn => Current = None /\ spent = {} /\ \A r \in Requests : pc[r] = "idle"

\* The allowed token is not one that was replaced.
Opened == loggedIn => Current \in Jtis \ spent

\* What CheckAllowed saw still holds when AllowNew overwrites it.
StillAllowed == \A r \in Requests : pc[r] \in BeforeSwitch => token[r] = Current

\* A token that was delivered is the allowed one or was replaced.
Accounted ==
  /\ loggedIn => LoginJti \in spent \cup {Current}
  /\ \A r \in Requests : pc[r] \in AfterSwitch \/ result[r] = "rotated" => r \in spent \cup {Current}

\* No token is allowed or replaced before it is minted.
Minted == \A r \in Requests : r \in spent \cup {Current} => pc[r] \in AfterSwitch \cup Leaving

FamilyInv == Closed /\ Opened /\ StillAllowed /\ Accounted /\ Minted

-------------------------------------------------------------------------------
\* There is a store that answers, and every read and write goes to it.
LEMMA AuthorityServes ==
  ASSUME SingleStore
  PROVE  /\ Authority \in Stores
         /\ \A w \in Workers : ReadsFrom(w) = {Authority} /\ WritesTo(w) = {{Authority}}
         /\ \A v, w \in Workers : v = w
         /\ Restarts => Authority \notin Workers
<1>1. PICK w \in Workers : Workers = {w}
  BY DEF SingleStore
<1>2. ASSUME NEW s \in Stores, ReadsFrom(w) = {s}
      PROVE  WritesTo(w) = {{s}}
  BY <1>2 DEF WritesTo
<1>3. CASE RedisMode = "up"
  <2>1. Authority = Redis /\ ReadsFrom(w) = {Redis}
    BY <1>1, <1>3, StoresAssumption DEF Authority, RedisAnswers, RedisFails, ReadsFrom
  <2> QED
    BY <1>1, <1>2, <2>1, StoresAssumption DEF Stores
<1>4. CASE RedisMode = "down" /\ ~Restarts
  <2>1. Authority = w
    BY <1>1, <1>4 DEF Authority, RedisAnswers
  <2>2. ReadsFrom(w) = {w}
    BY <1>1, <1>4, StoresAssumption DEF RedisAnswers, RedisFails, ReadsFrom
  <2> QED
    BY <1>1, <1>2, <1>4, <2>1, <2>2 DEF Stores
<1> QED
  BY <1>3, <1>4 DEF SingleStore

\* A step that neither replaces the allowed token nor lets a request past
\* CheckAllowed.
Calm ==
  /\ Current' = Current
  /\ spent' = spent
  /\ loggedIn' = loggedIn
  /\ \A r \in Requests :
       /\ pc'[r] # "idle" => loggedIn
       /\ pc'[r] \in BeforeSwitch => pc[r] \in BeforeSwitch /\ token'[r] = token[r]
       /\ pc'[r] \in AfterSwitch => pc[r] \in AfterSwitch
       /\ result'[r] = "rotated" => result[r] = "rotated" \/ pc[r] \in AfterSwitch
       /\ pc[r] \in AfterSwitch \cup Leaving => pc'[r] \in AfterSwitch \cup Leaving

\* Every step is the login, a check, a switch to a new token, or calm.
LEMMA StepKinds ==
  ASSUME SingleStore, TypeOK, Closed, [Next]_vars
  PROVE  \/ \E w \in Workers : Login(w)
         \/ \E r \in Requests : CheckAllowed(r) \/ AllowNew(r)
         \/ Calm
<1> USE DEF TypeOK, Closed, Calm, Current, BeforeSwitch, AfterSwitch, Leaving
<1>1. ASSUME NEW w \in Workers, LogoutRedis(w) PROVE Calm
  BY <1>1 DEF LogoutRedis, requestVars
<1>2. ASSUME NEW w \in Workers, LogoutLocal(w) PROVE Calm
  BY <1>2 DEF LogoutLocal, requestVars
<1>3. ASSUME NEW s \in Stores, RotationLockExpires(s) PROVE Calm
  BY <1>3 DEF RotationLockExpires, requestVars, familyVars
<1>4. ASSUME NEW s \in Stores, GraceEnds(s) PROVE Calm
  BY <1>4 DEF GraceEnds, requestVars, familyVars
<1>5. ASSUME NEW j \in Jtis, ClaimLockExpires(j) PROVE Calm
  BY <1>5 DEF ClaimLockExpires, requestVars, familyVars
<1>6. ASSUME NEW r \in Requests, NEW w \in Workers, NEW j \in Jtis, Arrive(r, w, j) PROVE Calm
  BY <1>6 DEF Arrive, Move, storeVars, familyVars
<1>7. ASSUME NEW w \in Workers, Restart(w) PROVE Calm
  <2>1. Current' = Current
    BY <1>7, AuthorityServes DEF Restart, Put
  <2> QED
    BY <1>7, <2>1 DEF Restart
<1>8. ASSUME NEW r \in Requests, TakeRotationLock(r) PROVE Calm
  BY <1>8 DEF TakeRotationLock, Move, Settle, storeVars, familyVars
<1>9. ASSUME NEW r \in Requests, RotationLockContended(r) PROVE Calm
  BY <1>9 DEF RotationLockContended, Move, Settle, storeVars, familyVars
<1>10. ASSUME NEW r \in Requests, RotationLockError(r) PROVE Calm
  BY <1>10 DEF RotationLockError, Move, Settle, storeVars, familyVars
<1>11. ASSUME NEW r \in Requests, TakeLocalRotationLock(r) PROVE Calm
  BY <1>11 DEF TakeLocalRotationLock, Move, Settle, storeVars, familyVars
<1>12. ASSUME NEW r \in Requests, RotationLockRefused(r) PROVE Calm
  BY <1>12 DEF RotationLockRefused, Move, Settle, storeVars, familyVars
<1>13. ASSUME NEW r \in Requests, EnterGuard(r) PROVE Calm
  BY <1>13 DEF EnterGuard, Move, Settle, storeVars, familyVars
<1>14. ASSUME NEW r \in Requests, GuardRefused(r) PROVE Calm
  BY <1>14 DEF GuardRefused, Move, Settle, storeVars, familyVars
<1>15. ASSUME NEW r \in Requests, CheckFamily(r) PROVE Calm
  BY <1>15 DEF CheckFamily, Move, Settle, storeVars, familyVars
<1>16. ASSUME NEW r \in Requests, CheckReplay(r) PROVE Calm
  BY <1>16 DEF CheckReplay, Move, Settle, storeVars, familyVars
<1>17. ASSUME NEW r \in Requests, Recount(r) PROVE Calm
  BY <1>17 DEF Recount, Move, Settle, storeVars, familyVars
<1>18. ASSUME NEW r \in Requests, Decide(r) PROVE Calm
  BY <1>18 DEF Decide, Move, Settle, storeVars, familyVars
<1>19. ASSUME NEW r \in Requests, Touch(r) PROVE Calm
  BY <1>19 DEF Touch, Move, Settle, storeVars, familyVars
<1>20. ASSUME NEW r \in Requests, Mint(r) PROVE Calm
  BY <1>20 DEF Mint, Move, Settle, storeVars, familyVars
<1>21. ASSUME NEW r \in Requests, ClaimLock(r) PROVE Calm
  BY <1>21 DEF ClaimLock, Move, Settle, storeVars, familyVars
<1>22. ASSUME NEW r \in Requests, ClaimMark(r) PROVE Calm
  BY <1>22 DEF ClaimMark, Move, Settle, storeVars, familyVars
<1>23. ASSUME NEW r \in Requests, ClaimUnlock(r) PROVE Calm
  BY <1>23 DEF ClaimUnlock, Move, Settle, storeVars, familyVars
<1>24. ASSUME NEW r \in Requests, ClaimMarkError(r) PROVE Calm
  BY <1>24 DEF ClaimMarkError, Move, Settle, storeVars, familyVars
<1>25. ASSUME NEW r \in Requests, ClaimLocal(r) PROVE Calm
  BY <1>25 DEF ClaimLocal, Move, Settle, storeVars, familyVars
<1>26. ASSUME NEW r \in Requests, Stamp(r) PROVE Calm
  BY <1>26 DEF Stamp, Move, Settle, storeVars, familyVars
<1>27. ASSUME NEW r \in Requests, LeaveGuard(r) PROVE Calm
  BY <1>27 DEF LeaveGuard, Move, Settle, storeVars, familyVars
<1>28. ASSUME NEW r \in Requests, Unlock(r) PROVE Calm
  BY <1>28 DEF Unlock, Move, Settle, storeVars, familyVars
<1>29. ASSUME NEW r \in Requests, UnlockLocal(r) PROVE Calm
  BY <1>29 DEF UnlockLocal, Move, Settle, storeVars, familyVars
<1>30. ASSUME UNCHANGED vars PROVE Calm
  BY <1>30 DEF vars, storeVars, requestVars, familyVars
<1> HIDE DEF Calm, Closed, TypeOK
<1> QED
  BY ONLY <1>1, <1>2, <1>3, <1>4, <1>5, <1>6, <1>7, <1>8, <1>9, <1>10, <1>11, <1>12, <1>13, <1>14, <1>15, <1>16, <1>17, <1>18, <1>19, <1>20, <1>21, <1>22, <1>23, <1>24, <1>25, <1>26, <1>27, <1>28, <1>29, <1>30, [Next]_vars DEF Next, Rotate, Expire

-------------------------------------------------------------------------------
\* The strengthened invariant holds before the login.
LEMMA FamilyInvInit == ASSUME SingleStore PROVE Init => FamilyInv
<1> SUFFICES ASSUME Init PROVE FamilyInv
  OBVIOUS
<1>1. Current = None
  BY AuthorityServes DEF Init, Current
<1>2. \A r \in Requests : pc[r] = "idle" /\ result[r] = "none"
  BY DEF Init
<1> QED
  BY <1>1, <1>2, NamesAssumption
     DEF Init, FamilyInv, Closed, Opened, StillAllowed, Accounted, Minted,
         BeforeSwitch, AfterSwitch, Leaving

\* It survives every step: the four steps that change the family, and the
\* calm ones, which StepKinds tells apart.
LEMMA FamilyInvStep ==
  ASSUME SingleStore, GuardInv, FamilyInv, [Next]_vars
  PROVE  FamilyInv'
<1>1. TypeOK /\ Closed
  BY DEF GuardInv, FamilyInv
<1>2. ASSUME NEW w \in Workers, Login(w) PROVE FamilyInv'
  <2>1. Current' = LoginJti /\ spent = {} /\ spent' = {} /\ loggedIn'
    BY <1>1, <1>2, AuthorityServes DEF Login, Closed, Current, Put, requestVars
  <2>2. \A r \in Requests : pc'[r] = "idle" /\ result'[r] # "rotated"
    BY <1>1, <1>2, NamesAssumption DEF Login, requestVars, FamilyInv, Closed, Accounted
  <2> QED
    BY <2>1, <2>2, NamesAssumption
       DEF FamilyInv, Closed, Opened, StillAllowed, Accounted, Minted, Jtis,
           BeforeSwitch, AfterSwitch, Leaving
<1>3. ASSUME NEW r \in Requests, CheckAllowed(r) PROVE FamilyInv'
  <2>1. /\ UNCHANGED <<Current, spent, token, loggedIn>>
        /\ loggedIn
    BY <1>1, <1>3 DEF CheckAllowed, Move, Settle, storeVars, familyVars, Current, Closed
  <2>2. \/ /\ Current = token[r]
           /\ pc' = [pc EXCEPT ![r] = "family"]
           /\ result' = result
        \/ /\ pc' = [pc EXCEPT ![r] = "leave"]
           /\ result' = [result EXCEPT ![r] = "reused"]
    BY <1>1, <1>3, <2>1, AuthorityServes, NamesAssumption
       DEF CheckAllowed, Move, Settle, TypeOK, FamilyInv, Opened, Current, Jtis
  <2>3. pc[r] = "allowed"
    BY <1>3 DEF CheckAllowed
  <2> QED
    BY <1>1, <2>1, <2>2, <2>3
       DEF TypeOK, FamilyInv, Closed, Opened, StillAllowed, Accounted, Minted,
           BeforeSwitch, AfterSwitch, Leaving
<1>4. ASSUME NEW r \in Requests, AllowNew(r) PROVE FamilyInv'
  BY <1>1, <1>4, AuthorityServes
     DEF AllowNew, Move, Put, familyVars, TypeOK, GuardInv, OneInsideGuard, Guarded, Jtis,
         FamilyInv, Closed, Opened, StillAllowed, Accounted, Minted, Current,
         BeforeSwitch, AfterSwitch, Leaving
<1>5. ASSUME Calm PROVE FamilyInv'
  BY <1>5
     DEF Calm, FamilyInv, Closed, Opened, StillAllowed, Accounted, Minted,
         BeforeSwitch, AfterSwitch, Leaving
<1> QED
  BY <1>1, <1>2, <1>3, <1>4, <1>5, StepKinds

\* It holds in every reachable state of a single-store deployment.
LEMMA FamilyInvHolds == ASSUME SingleStore PROVE Spec => []FamilyInv
<1>1. GuardInv /\ FamilyInv /\ [Next]_vars => FamilyInv'
  BY FamilyInvStep
<1> QED
  BY <1>1, FamilyInvInit, GuardInvHolds, PTL DEF Spec

\* A token that was delivered to a client stays the one the family accepts
\* until a request exchanges it.
THEOREM DeliveredStaysAllowed == ASSUME SingleStore PROVE Spec => []DeliveredIsAllowed
<1>1. FamilyInv => DeliveredIsAllowed
  BY DEF FamilyInv, Accounted, DeliveredIsAllowed, Held, Current
<1> QED
  BY <1>1, FamilyInvHolds, PTL

\* The locks, stores, timers and restarts do not show in the contract of the
\* family: every exchange replaces the token that is current, once.
THEOREM ContractKept == ASSUME SingleStore PROVE Spec => ImplementsTokenFamily
<1>1. Init => Family!Init
  BY FamilyInvInit, AuthorityServes DEF Init, Family!Init
<1>2. ASSUME GuardInv, FamilyInv, FamilyInv', [Next]_vars
      PROVE  [Family!Next]_(Family!vars)
  <2>1. TypeOK /\ Closed
    BY <1>2 DEF GuardInv, FamilyInv
  <2>2. ASSUME NEW w \in Workers, Login(w) PROVE Family!Next
    <3>1. Family!Open(LoginJti)
      BY <1>2, <2>1, <2>2, AuthorityServes DEF Login, Closed, Current, Put, requestVars, TypeOK, Family!Open
    <3> QED
      BY <3>1 DEF Family!Next, Jtis
  <2>3. ASSUME NEW r \in Requests, AllowNew(r) PROVE Family!Next
    <3>1. Family!Exchange(token[r], r)
      BY <1>2, <2>1, <2>3, AuthorityServes
         DEF AllowNew, Move, Put, TypeOK, Current, Family!Exchange,
             FamilyInv, Closed, Opened, StillAllowed, Minted, BeforeSwitch, AfterSwitch, Leaving
    <3>2. token[r] \in Jtis /\ r \in Jtis
      BY <2>1, <2>3 DEF AllowNew, Move, TypeOK, Jtis
    <3> QED
      BY <3>1, <3>2 DEF Family!Next
  <2>4. ASSUME NEW r \in Requests, CheckAllowed(r) PROVE UNCHANGED Family!vars
    BY <2>4 DEF CheckAllowed, storeVars, Family!vars
  <2>5. ASSUME Calm PROVE UNCHANGED Family!vars
    BY <2>5 DEF Calm, Current, Family!vars
  <2> QED
    BY <1>2, <2>1, <2>2, <2>3, <2>4, <2>5, StepKinds
<1> QED
  BY <1>1, <1>2, FamilyInvHolds, GuardInvHolds, PTL DEF Spec, ImplementsTokenFamily, Family!Spec
=============================================================================

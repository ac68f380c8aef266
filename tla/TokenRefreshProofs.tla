-------------------------- MODULE TokenRefreshProofs --------------------------
(* Theorems about TokenRefresh, for any number of calls, processes and      *)
(* authorisations, with any faults, whether or not the provider rotates.    *)
EXTENDS TokenRefresh, TLAPS

-------------------------------------------------------------------------------
(* Types.                                                                   *)

\* A valid row has a refresh token, and so does a call that uses one.
Usable ==
  /\ row.valid => row.refresh \in Tokens
  /\ \A c \in Calls : pc[c] \in {"exchange", "store"} => used[c] \in Tokens

TypeInv == TypeOK /\ Usable

LEMMA TypeStep == ASSUME TypeInv, [Next]_vars PROVE TypeInv'
<1> USE KindsAssumption, MaxAttemptsAssumption, RotatesAssumption
<1> USE DEF TypeInv, TypeOK, Usable, Row, Ages, Places, Tokens, store, service, Move, LeaveLock,
        Unlocked, Spend
<1>1. ASSUME NEW c \in Calls, Ask(c) PROVE TypeInv'
  BY <1>1 DEF Ask
<1>2. ASSUME NEW c \in Calls, TakeLock(c) PROVE TypeInv'
  BY <1>2 DEF TakeLock
<1>3. ASSUME NEW c \in Calls, Consider(c) PROVE TypeInv'
  BY <1>3 DEF Consider, NoRow, Answer
<1>4. ASSUME NEW c \in Calls, ReadTokens(c) PROVE TypeInv'
  BY <1>4 DEF ReadTokens
<1>5. ASSUME NEW c \in Calls, Exchange(c) PROVE TypeInv'
  BY <1>5 DEF Exchange
<1>6. ASSUME NEW c \in Calls, Store(c) PROVE TypeInv'
  <2>1. row' \in Row /\ (row'.valid => row'.refresh \in Tokens)
    <3>1. Replacement(c) \in Tokens
      BY <1>6 DEF Store, Replacement
    <3>2. CASE UNCHANGED row
      BY <3>2, Zenon
    <3>3. CASE row' = StoredRow(c)
      BY <3>1, <3>3 DEF StoredRow
    <3> QED
      BY <1>6, <3>2, <3>3 DEF Store
  <2>2. lost' \in SUBSET Tokens /\ pc' \in [Calls -> Places]
    BY <1>6 DEF Store
  <2> QED
    BY <1>6, <2>1, <2>2 DEF Store
<1>7. ASSUME NEW c \in Calls, Fail(c) PROVE TypeInv'
  <2>1. backoff' \in [Processes -> BOOLEAN]
    BY <1>7, Zenon DEF Fail, BackOff
  <2>2. attempts' \in [Processes -> Nat] /\ lock' \in [Processes -> Calls \cup {None}]
    BY <1>7 DEF Fail, Tried
  <2>3. pc' \in [Calls -> Places] /\ \A d \in Calls : pc'[d] \in {"exchange", "store"} => pc[d] = pc'[d]
    BY <1>7 DEF Fail
  <2> QED
    BY <1>7, <2>1, <2>2, <2>3 DEF Fail
<1>8. ASSUME NEW c \in Calls, Invalidate(c) PROVE TypeInv'
  <2>1. backoff' \in [Processes -> BOOLEAN]
    BY <1>8, Zenon DEF Invalidate, BackOff
  <2>2. row' \in Row /\ (row'.valid => row'.refresh \in Tokens)
    BY <1>8 DEF Invalidate
  <2>3. lock' \in [Processes -> Calls \cup {None}]
    BY <1>8 DEF Invalidate
  <2>4. pc' \in [Calls -> Places] /\ \A d \in Calls : pc'[d] \in {"exchange", "store"} => pc[d] = pc'[d]
    BY <1>8 DEF Invalidate
  <2> QED
    BY <1>8, <2>1, <2>2, <2>3, <2>4 DEF Invalidate
<1>9. ASSUME NEW g \in Grants, Connect(g) PROVE TypeInv'
  BY <1>9 DEF Connect
<1>10. CASE Disconnect
  BY <1>10 DEF Disconnect
<1>11. CASE Age
  BY <1>11 DEF Age
<1>12. ASSUME NEW p \in Processes, BackoffEnds(p) PROVE TypeInv'
  BY <1>12 DEF BackoffEnds
<1>13. ASSUME NEW p \in Processes, Crash(p) PROVE TypeInv'
  BY <1>13 DEF Crash, Within
<1>14. CASE UNCHANGED vars
  BY <1>14 DEF vars
<1> QED
  BY <1>1, <1>2, <1>3, <1>4, <1>5, <1>6, <1>7, <1>8, <1>9, <1>10, <1>11, <1>12, <1>13, <1>14
  DEF Next, Serve
\* Init and every step give the type invariant.
LEMMA TypeInvariant == Spec => []TypeInv
<1>1. Init => TypeInv
  BY KindsAssumption DEF Init, TypeInv, TypeOK, Usable, Row, Ages, Places, Tokens
<1>2. TypeInv /\ [Next]_vars => TypeInv'
  BY TypeStep
<1> QED
  BY <1>1, <1>2, PTL DEF Spec

\* Every variable keeps its type (TypeOK), for any instance.
THEOREM TypeCorrect == Spec => []TypeOK
<1>1. TypeInv => TypeOK
  BY DEF TypeInv
<1> QED
  BY <1>1, TypeInvariant, PTL

-------------------------------------------------------------------------------
(* The lock of a process.                                                   *)

\* Where only calls of the service are.
ServiceOnly == {"locking", "read", "exhausted", "invalidate"}

\* Where a call of the service is between its look at the counter and the count.
Trying == {"tokens", "exchange", "store", "failed"}

HoldsLock(c) == pc[c] \in Holding /\ mode[c] # "direct"

\* The lock is the one call of the service past it, and that call was let through
\* with the counter below the limit.
LockInv ==
  /\ \A c \in Calls : pc[c] \in ServiceOnly => mode[c] # "direct"
  /\ \A c \in Calls : HoldsLock(c) => lock[process[c]] = c
  /\ \A p \in Processes : lock[p] # None => HoldsLock(lock[p]) /\ process[lock[p]] = p
  /\ \A c \in Calls : HoldsLock(c) /\ pc[c] \in Trying => attempts[process[c]] < MaxAttempts
  /\ \A p \in Processes : attempts[p] <= MaxAttempts

LEMMA LockStep == ASSUME TypeInv, LockInv, [Next]_vars PROVE LockInv'
<1> USE KindsAssumption, MaxAttemptsAssumption
<1> USE DEF LockInv, TypeInv, TypeOK, ServiceOnly, Trying, Holding, HoldsLock, Places, store,
        service, Move, LeaveLock, Unlocked
<1>1. ASSUME NEW c \in Calls, Ask(c) PROVE LockInv'
  BY <1>1 DEF Ask
<1>2. ASSUME NEW c \in Calls, TakeLock(c) PROVE LockInv'
  BY <1>2 DEF TakeLock
<1>3. ASSUME NEW c \in Calls, Consider(c) PROVE LockInv'
  <2>1. CASE NoRow(c) /\ UNCHANGED <<attempts, process>>
    BY <2>1 DEF NoRow
  <2>2. CASE Answer(c) /\ UNCHANGED <<attempts, process>>
    BY <2>2 DEF Answer
  <2>3. CASE /\ Move(c, "read", IF MayTry(c) THEN "tokens" ELSE "exhausted")
             /\ UNCHANGED <<lock, mode, attempts, process>>
    BY <2>3 DEF MayTry
  <2> QED
    BY <1>3, <2>1, <2>2, <2>3 DEF Consider
<1>4. ASSUME NEW c \in Calls, ReadTokens(c) PROVE LockInv'
  BY <1>4 DEF ReadTokens
<1>5. ASSUME NEW c \in Calls, Exchange(c) PROVE LockInv'
  BY <1>5 DEF Exchange
<1>6. ASSUME NEW c \in Calls, Store(c) PROVE LockInv'
  BY <1>6 DEF Store
<1>7. ASSUME NEW c \in Calls, Fail(c) PROVE LockInv'
  BY <1>7 DEF Fail, Tried, BackOff
<1>8. ASSUME NEW c \in Calls, Invalidate(c) PROVE LockInv'
  BY <1>8 DEF Invalidate
<1>9. ASSUME NEW g \in Grants, Connect(g) PROVE LockInv'
  BY <1>9 DEF Connect
<1>10. CASE Disconnect
  BY <1>10 DEF Disconnect
<1>11. CASE Age
  BY <1>11 DEF Age
<1>12. ASSUME NEW p \in Processes, BackoffEnds(p) PROVE LockInv'
  BY <1>12 DEF BackoffEnds
<1>13. ASSUME NEW p \in Processes, Crash(p) PROVE LockInv'
  BY <1>13 DEF Crash, Within
<1>14. CASE UNCHANGED vars
  BY <1>14 DEF vars
<1> QED
  BY <1>1, <1>2, <1>3, <1>4, <1>5, <1>6, <1>7, <1>8, <1>9, <1>10, <1>11, <1>12, <1>13, <1>14
  DEF Next, Serve
LEMMA LockInvariant == Spec => []LockInv
<1>1. Init => LockInv
  BY MaxAttemptsAssumption DEF Init, LockInv, HoldsLock, Holding, Trying, ServiceOnly
<1>2. TypeInv /\ LockInv /\ [Next]_vars => LockInv'
  BY LockStep
<1> QED
  BY <1>1, <1>2, TypeInvariant, PTL DEF Spec

\* For any number of processes and calls, two calls of the service in one process
\* are never in the middle of a refresh together.
THEOREM RefreshExclusion == Spec => []OneRefreshPerProcess
<1>1. LockInv => OneRefreshPerProcess
  BY DEF LockInv, HoldsLock, OneRefreshPerProcess
<1> QED
  BY <1>1, LockInvariant, PTL

\* For any limit, no process counts more failures than the limit.
THEOREM LimitHolds == Spec => []TriesAreLimited
<1>1. LockInv => TriesAreLimited
  BY DEF LockInv, TriesAreLimited
<1> QED
  BY <1>1, LockInvariant, PTL

\* Whatever fails or dies, a lock is held by a call that will give it back.
THEOREM LockHasHolder == Spec => []LockNotLeftBehind
<1>1. TypeInv /\ LockInv => LockNotLeftBehind
  BY DEF TypeInv, TypeOK, LockInv, HoldsLock, LockNotLeftBehind
<1> QED
  BY <1>1, TypeInvariant, LockInvariant, PTL

-------------------------------------------------------------------------------
(* The refresh token of the row.                                            *)

\* The place of a call before the provider has answered it.
Before == {"idle", "locking", "read", "tokens", "exchange"}

\* Nobody but its owner knows t.
Unseen(t) == t \notin spent /\ row.refresh # t /\ \A c \in Calls : used[c] # t

\* A token that is still to come, or is in the hand of the call that got it, is
\* unseen; SpentIsReplaced needs no more.
TokenInv ==
  /\ \A c \in Calls : pc[c] \in Before \cup {"store"} => Unseen(c)
  /\ \A g \in Grants \ granted : Unseen(g)
  /\ ~Rotates => spent = {}
  /\ SpentIsReplaced

LEMMA TokenStep == ASSUME TypeInv, TypeInv', TokenInv, [Next]_vars PROVE TokenInv'
<1> USE KindsAssumption, RotatesAssumption
<1> USE DEF TokenInv, Unseen, SpentIsReplaced, TypeInv, TypeOK, Usable, Tokens, Before, Places,
        store, service, Move, Spend
<1>1. ASSUME NEW c \in Calls, Ask(c) PROVE TokenInv'
  BY <1>1 DEF Ask
<1>2. ASSUME NEW c \in Calls, TakeLock(c) PROVE TokenInv'
  BY <1>2 DEF TakeLock
<1>3. ASSUME NEW c \in Calls, Consider(c) PROVE TokenInv'
  BY <1>3 DEF Consider, NoRow, Answer
<1>4. ASSUME NEW c \in Calls, ReadTokens(c) PROVE TokenInv'
  BY <1>4 DEF ReadTokens
<1>5. ASSUME NEW c \in Calls, Exchange(c) PROVE TokenInv'
  BY <1>5 DEF Exchange
<1>6. ASSUME NEW c \in Calls, Store(c) PROVE TokenInv'
  BY <1>6 DEF Store, StoredRow, Replacement
<1>7. ASSUME NEW c \in Calls, Fail(c) PROVE TokenInv'
  BY <1>7 DEF Fail
<1>8. ASSUME NEW c \in Calls, Invalidate(c) PROVE TokenInv'
  <2>1. row'.refresh = row.refresh
    BY <1>8 DEF Invalidate, Row
  <2> QED
    BY <1>8, <2>1 DEF Invalidate
<1>9. ASSUME NEW g \in Grants, Connect(g) PROVE TokenInv'
  BY <1>9 DEF Connect
<1>10. CASE Disconnect
  <2>1. row'.refresh = row.refresh
    BY <1>10 DEF Disconnect, Row
  <2> QED
    BY <1>10, <2>1 DEF Disconnect
<1>11. CASE Age
  <2>1. row'.refresh = row.refresh
    BY <1>11 DEF Age, Row
  <2> QED
    BY <1>11, <2>1 DEF Age
<1>12. ASSUME NEW p \in Processes, BackoffEnds(p) PROVE TokenInv'
  BY <1>12 DEF BackoffEnds
<1>13. ASSUME NEW p \in Processes, Crash(p) PROVE TokenInv'
  BY <1>13 DEF Crash, Within
<1>14. CASE UNCHANGED vars
  BY <1>14 DEF vars
<1> QED
  BY <1>1, <1>2, <1>3, <1>4, <1>5, <1>6, <1>7, <1>8, <1>9, <1>10, <1>11, <1>12, <1>13, <1>14
  DEF Next, Serve

\* However many processes refresh with and without a lock, and whatever fails: a
\* spent refresh token in the row is being replaced, or a fault destroyed its
\* replacement.
THEOREM SpentTokensAreReplaced == Spec => []SpentIsReplaced
<1>1. Init => TokenInv
  BY KindsAssumption DEF Init, TokenInv, Unseen, SpentIsReplaced, Before
<1>2. TypeInv /\ TypeInv' /\ TokenInv /\ [Next]_vars => TokenInv'
  BY TokenStep
<1>3. TokenInv => SpentIsReplaced
  BY DEF TokenInv
<1> QED
  BY <1>1, <1>2, <1>3, TypeInvariant, PTL DEF Spec
===============================================================================

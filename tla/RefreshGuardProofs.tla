--------------------------- MODULE RefreshGuardProofs ---------------------------
(* Theorems about RefreshGuard, for any number of requests and any limit.   *)
EXTENDS RefreshGuard, FiniteSetTheorems, TLAPS

\* The initial values have their types.
LEMMA TypeInit == Init => TypeOK
  BY DEF Init, TypeOK, Places

\* Every action keeps the types.
LEMMA TypeStep == TypeOK /\ [Next]_vars => TypeOK'
<1> SUFFICES ASSUME TypeOK, [Next]_vars PROVE TypeOK'
  OBVIOUS
<1> USE DEF TypeOK, Places, Move, LockFor
<1>1. ASSUME NEW r \in Requests, Refuse(r) PROVE TypeOK'
  BY <1>1 DEF Refuse
<1>2. ASSUME NEW r \in Requests, Enter(r) PROVE TypeOK'
  BY <1>2, LimitsAssumption DEF Enter
<1>3. ASSUME NEW r \in Requests, Wait(r) PROVE TypeOK'
  BY <1>3 DEF Wait
<1>4. ASSUME NEW r \in Requests, NEW l \in Requests, Wake(r, l) PROVE TypeOK'
  BY <1>4 DEF Wake, LeaveQueue
<1>5. ASSUME NEW r \in Requests, NEW l \in Requests, WakeRefused(r, l) PROVE TypeOK'
  <2>1. queue' \in [Requests -> Seq(Requests)]
    BY <1>5 DEF WakeRefused, LeaveQueue
  <2>2. \A q \in {queue'[l]} \ {<<>>} : Head(q) \in Requests
    BY <2>1
  <2>3. woken' \in SUBSET Requests
    BY <1>5, <2>2 DEF WakeRefused
  <2> QED
    BY <1>5, <2>1, <2>3 DEF WakeRefused
<1>6. ASSUME NEW r \in Requests, Leave(r) PROVE TypeOK'
  BY <1>6 DEF Leave, Release
<1>7. ASSUME NEW r \in Requests, LeaveNothing(r) PROVE TypeOK'
  BY <1>7 DEF LeaveNothing
<1>8. CASE UNCHANGED vars
  BY <1>8 DEF vars
<1> HIDE DEF TypeOK
<1> QED
  BY <1>1, <1>2, <1>3, <1>4, <1>5, <1>6, <1>7, <1>8 DEF Next, Guard

\* The variables keep their types.
THEOREM GuardTypeCorrect == Spec => []TypeOK
  BY TypeInit, TypeStep, PTL DEF Spec

-------------------------------------------------------------------------------
\* How the set of requests past the guard changes in a step.
LEMMA InsideFrame ==
  ASSUME TypeOK, [Next]_vars
  PROVE  /\ limit' = limit
         /\ \/ \E r \in Requests : r \notin Inside /\ Inside' = Inside \cup {r}
                                   /\ count < limit /\ count' = count + 1
            \/ \E r \in Inside : Inside' = Inside \ {r}
                                 /\ (count' = count \/ count' = (IF count > 0 THEN count - 1 ELSE 0))
            \/ Inside' = Inside /\ count' = count
<1> USE DEF TypeOK, Places, Move, Inside
<1>1. ASSUME NEW r \in Requests, Refuse(r) \/ Wait(r)
      PROVE  Inside' = Inside /\ count' = count /\ limit' = limit
  BY <1>1 DEF Refuse, Wait
<1>2. ASSUME NEW r \in Requests, NEW l \in Requests, WakeRefused(r, l)
      PROVE  Inside' = Inside /\ count' = count /\ limit' = limit
  BY <1>2 DEF WakeRefused
<1>3. ASSUME NEW r \in Requests, NEW l \in Requests, Enter(r) \/ Wake(r, l)
      PROVE  r \notin Inside /\ Inside' = Inside \cup {r} /\ count < limit /\ count' = count + 1 /\ limit' = limit
  BY <1>3 DEF Enter, Wake
<1>4. ASSUME NEW r \in Requests, Leave(r) \/ LeaveNothing(r)
      PROVE  /\ r \in Inside /\ Inside' = Inside \ {r} /\ limit' = limit
             /\ count' = count \/ count' = (IF count > 0 THEN count - 1 ELSE 0)
  BY <1>4 DEF Leave, LeaveNothing
<1>5. CASE UNCHANGED vars
  BY <1>5 DEF vars
<1> HIDE DEF TypeOK, Inside
<1> QED
  BY <1>1, <1>2, <1>3, <1>4, <1>5 DEF Next, Guard

\* The count may stay too high (LeaveNothing does not lower it), never too low.
Counted == Cardinality(Inside) <= count /\ count <= limit

\* No step lets the number of requests inside exceed the count, or the count the limit.
LEMMA CountedStep == TypeOK /\ Counted /\ [Next]_vars => Counted'
<1> SUFFICES ASSUME TypeOK, Counted, [Next]_vars PROVE Counted'
  OBVIOUS
<1>1. IsFiniteSet(Inside) /\ Cardinality(Inside) \in Nat
  BY RequestsAssumption, FS_Subset, FS_CardinalityType DEF Inside
<1>2. count \in Nat /\ limit \in Nat
  BY LimitsAssumption DEF TypeOK
<1>3. ASSUME NEW r \in Requests, r \notin Inside, Inside' = Inside \cup {r},
             count < limit, count' = count + 1, limit' = limit
      PROVE  Counted'
  <2>1. Cardinality(Inside') = Cardinality(Inside) + 1
    BY <1>1, <1>3, FS_AddElement
  <2> QED
    BY <1>1, <1>2, <1>3, <2>1 DEF Counted
<1>4. ASSUME NEW r \in Inside, Inside' = Inside \ {r}, limit' = limit,
             count' = count \/ count' = (IF count > 0 THEN count - 1 ELSE 0)
      PROVE  Counted'
  <2>1. Cardinality(Inside') = Cardinality(Inside) - 1
    BY <1>1, <1>4, FS_RemoveElement
  <2> QED
    BY <1>1, <1>2, <1>4, <2>1 DEF Counted
<1>5. CASE Inside' = Inside /\ count' = count /\ limit' = limit
  BY <1>5 DEF Counted
<1> QED
  BY <1>3, <1>4, <1>5, InsideFrame

\* The count is never too low.
LEMMA CountedHolds == Spec => []Counted
<1>1. Init => Counted
  <2> SUFFICES ASSUME Init PROVE Counted
    OBVIOUS
  <2>1. Inside = {}
    BY DEF Init, Inside
  <2>2. Cardinality(Inside) = 0
    BY <2>1, FS_EmptySet
  <2> QED
    BY <2>2, LimitsAssumption DEF Init, Counted
<1> QED
  BY <1>1, CountedStep, GuardTypeCorrect, PTL DEF Spec

\* Whatever the limit, the guard never lets more requests of a session past it,
\* although with a limit above one their lock may have been dropped while
\* they waited and the count may be left too high.
THEOREM LimitKept == Spec => []AtMostLimit
<1>1. TypeOK /\ Counted => AtMostLimit
  <2> SUFFICES ASSUME TypeOK, Counted PROVE AtMostLimit
    OBVIOUS
  <2>1. Cardinality(Inside) \in Nat
    BY RequestsAssumption, FS_Subset, FS_CardinalityType DEF Inside
  <2>2. count \in Nat /\ limit \in Nat
    BY LimitsAssumption DEF TypeOK
  <2> QED
    BY <2>1, <2>2 DEF Counted, AtMostLimit
<1> QED
  BY <1>1, CountedHolds, GuardTypeCorrect, PTL

-------------------------------------------------------------------------------
(* With the default limit of one: either nobody is past the guard and the   *)
(* session has no entry, or one request is and holds the session's lock.    *)
Free == count = 0 /\ current = None /\ locked = {} /\ Inside = {}
Taken == count = 1 /\ current \in Requests /\ locked = {current} /\ \E r \in Requests : Inside = {r}

Sequential ==
  limit = 1 =>
    /\ \A r \in Requests : pc[r] # "waiting" /\ queue[r] = <<>>
    /\ Free \/ Taken

\* With a limit of one no action makes a request wait or loses the lock.
LEMMA SequentialStep == TypeOK /\ Sequential /\ [Next]_vars => Sequential'
<1> SUFFICES ASSUME TypeOK, Sequential, [Next]_vars, limit' = 1 PROVE Sequential'
  BY DEF Sequential
<1> USE NoneAssumption DEF TypeOK, Places, Move, LockFor, Inside, Free, Taken
<1>0. limit = 1 /\ (\A r \in Requests : pc[r] # "waiting" /\ queue[r] = <<>>) /\ (Free \/ Taken)
  BY InsideFrame DEF Sequential
<1>1. ASSUME NEW r \in Requests, Refuse(r) PROVE Sequential'
  BY <1>0, <1>1 DEF Refuse, Sequential
<1>2. ASSUME NEW r \in Requests, Enter(r) PROVE Sequential'
  <2>1. Free
    BY <1>0, <1>2 DEF Enter
  <2>2. Inside' = {r}
    BY <1>2, <2>1 DEF Enter
  <2>3. count' = 1 /\ current' = r /\ locked' = {r}
    BY <1>2, <2>1 DEF Enter
  <2>4. \A q \in Requests : pc'[q] # "waiting" /\ queue'[q] = <<>>
    BY <1>0, <1>2 DEF Enter
  <2> QED
    BY <2>2, <2>3, <2>4 DEF Sequential
<1>3. ASSUME NEW r \in Requests, Wait(r) PROVE FALSE
  BY <1>0, <1>3 DEF Wait
<1>4. ASSUME NEW r \in Requests, NEW l \in Requests, LeaveQueue(r, l) PROVE FALSE
  BY <1>0, <1>4 DEF LeaveQueue
<1>5. ASSUME NEW r \in Requests, Leave(r) \/ LeaveNothing(r) PROVE Sequential'
  <2>1. Taken /\ Leave(r)
    BY <1>0, <1>5 DEF Leave, LeaveNothing
  <2>2. Inside' = {}
    BY <2>1 DEF Leave
  <2>3. count' = 0 /\ current' = None /\ locked' = {}
    BY <2>1 DEF Leave, Release
  <2>4. \A q \in Requests : pc'[q] # "waiting" /\ queue'[q] = <<>>
    BY <1>0, <2>1 DEF Leave
  <2> QED
    BY <2>2, <2>3, <2>4 DEF Sequential
<1>6. CASE UNCHANGED vars
  BY <1>0, <1>6 DEF vars, Sequential
<1> HIDE DEF TypeOK, Inside, Free, Taken, Move, LockFor
<1> QED
  BY <1>1, <1>2, <1>3, <1>4, <1>5, <1>6 DEF Next, Guard, Wake, WakeRefused

\* With a limit of one the guard is always free or held by one request.
LEMMA SequentialHolds == Spec => []Sequential
<1>1. Init => Sequential
  BY DEF Init, Sequential, Free, Inside
<1> QED
  BY <1>1, SequentialStep, GuardTypeCorrect, PTL DEF Spec

\* With the default limit no request is ever suspended by the guard, and the
\* count is the number of requests past it: what RefreshRotation assumes.
THEOREM GuardIsAtomic == Spec => []NeverWaits
<1>1. Sequential => NeverWaits
  <2> SUFFICES ASSUME Sequential, limit = 1 PROVE count = Cardinality(Inside)
    BY DEF Sequential, NeverWaits
  <2>1. CASE Free
    BY <2>1, FS_EmptySet DEF Free
  <2>2. CASE Taken
    BY <2>2, FS_Singleton DEF Taken
  <2> QED
    BY <2>1, <2>2 DEF Sequential
<1> QED
  BY <1>1, SequentialHolds, PTL

\* With the default limit nothing of the guard is left when the session has no
\* request past it: no entry in a dictionary, no locked lock.
THEOREM GuardCleansUp == Spec => []NothingLeftByOne
<1>1. Sequential => NothingLeftByOne
  BY DEF Sequential, Free, Taken, NothingLeftByOne, NothingLeft, Idle, Inside
<1> QED
  BY <1>1, SequentialHolds, PTL

-------------------------------------------------------------------------------
\* A request is inside for the contract exactly when it is past the guard.
LEMMA WithinIsInside == Contract!Within = Inside
  BY DEF Contract!Within, Inside

\* The contract counts as this module does.
LEMMA SameCount == \A S : Contract!Cardinality(S) = Cardinality(S)
  BY Zenon DEF Contract!Cardinality, Cardinality

\* The limit of one refuses a request only while another is inside.
LEMMA FullAtOne ==
  ASSUME Sequential, limit = 1, count >= limit
  PROVE  Cardinality(Inside) = 1
<1>1. Taken
  BY DEF Sequential, Free, Taken
<1> QED
  BY <1>1, FS_Singleton DEF Taken

\* Every step of the guard is a step of its contract, or none: the wait for a
\* lock is invisible, the second look decides like the first.
LEMMA ContractStep ==
  TypeOK /\ Counted /\ Sequential /\ [Next]_vars => [Contract!Next]_Contract!vars
<1> SUFFICES ASSUME TypeOK, Counted, Sequential, [Next]_vars
             PROVE  [Contract!Next]_Contract!vars
  OBVIOUS
<1> USE DEF TypeOK, Places, Move
<1>1. Cardinality(Inside) \in Nat /\ count \in Nat /\ limit \in Nat
  BY RequestsAssumption, LimitsAssumption, FS_Subset, FS_CardinalityType DEF Inside
<1>2. ASSUME NEW r \in Requests, Refuse(r) \/ \E l \in Requests : WakeRefused(r, l)
      PROVE  Contract!Refuse(r)
  <2>1. count >= limit /\ limit' = limit
    BY <1>2 DEF Refuse, WakeRefused
  <2>2. limit = 1 => Cardinality(Contract!Within) = 1
    BY <2>1, FullAtOne, WithinIsInside, SameCount
  <2>3. pc[r] \in {"start", "waiting"} /\ pc' = [pc EXCEPT ![r] = "refused"]
    BY <1>2 DEF Refuse, WakeRefused
  <2>4. Contract!Go(r, "outside", "refused")
    BY <2>1, <2>3 DEF Contract!Go
  <2> QED
    BY <2>2, <2>4, SameCount DEF Contract!Refuse
<1>3. ASSUME NEW r \in Requests, Enter(r) \/ \E l \in Requests : Wake(r, l)
      PROVE  Contract!Admit(r)
  <2>1. count < limit /\ limit' = limit
    BY <1>3 DEF Enter, Wake
  <2>2. Cardinality(Contract!Within) < limit
    BY <1>1, <2>1, WithinIsInside, SameCount DEF Counted
  <2>3. pc[r] \in {"start", "waiting"} /\ pc' = [pc EXCEPT ![r] = "inside"]
    BY <1>3 DEF Enter, Wake
  <2>4. Contract!Go(r, "outside", "inside")
    BY <2>1, <2>3 DEF Contract!Go
  <2> QED
    BY <2>2, <2>4, SameCount DEF Contract!Admit
<1>4. ASSUME NEW r \in Requests, Wait(r)
      PROVE  UNCHANGED Contract!vars
  BY <1>4 DEF Wait, Contract!vars
<1>5. ASSUME NEW r \in Requests, Leave(r) \/ LeaveNothing(r)
      PROVE  Contract!Leave(r)
  BY <1>5 DEF Leave, LeaveNothing, Contract!Leave, Contract!Go
<1>6. CASE UNCHANGED vars
  BY <1>6 DEF vars, Contract!vars
<1> HIDE DEF TypeOK, Move
<1> QED
  BY <1>2, <1>3, <1>4, <1>5, <1>6 DEF Next, Guard, Contract!Next

\* Whatever the limit, the guard implements its contract: no request passes it
\* beyond the limit, and with the default limit it is the atomic test that
\* RefreshRotation takes it for, which refuses only while somebody is inside.
THEOREM GuardContractKept == Spec => ImplementsAtomicGuard
<1>1. Init => Contract!Init
  BY DEF Init, Contract!Init
<1> QED
  BY <1>1, ContractStep, GuardTypeCorrect, CountedHolds, SequentialHolds, PTL
     DEF Spec, ImplementsAtomicGuard, Contract!Spec
=============================================================================

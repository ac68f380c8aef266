------------------------------ MODULE RefreshGuard ------------------------------
(***************************************************************************)
(* The process-local guard around a rotation: _acquire_refresh_lock and    *)
(* _release_refresh_lock of app/auth_refresh.py for ONE session in ONE     *)
(* worker process, with the asyncio.Lock objects they create and drop.     *)
(*                                                                         *)
(* RefreshRotation takes the guard as one atomic test of a counter; this   *)
(* module says when that is right.  A coroutine is suspended only while    *)
(* it waits for a lock, so everything between two awaits is one action.    *)
(***************************************************************************)
EXTENDS Naturals, FiniteSets, Sequences

CONSTANTS
  Requests,   \* the calls of rotate_refresh_token; each passes the guard once
  Limits,     \* the values of JWT_MAX_CONCURRENT_REFRESHES considered
  None        \* the session has no entry

ASSUME RequestsAssumption == IsFiniteSet(Requests)
ASSUME LimitsAssumption == Limits \subseteq Nat
ASSUME NoneAssumption == None \notin Requests

VARIABLES
  limit,      \* CFG.max_concurrent_refreshes, read once from the environment
  current,    \* _refresh_locks[sid]: the lock of the session, named after the
              \*   request that created it, or None
  count,      \* _refresh_active_count[sid], 0 when there is no entry
  locked,     \* the lock objects that are locked, whether still reachable or not
  queue,      \* lock object -> the requests that wait for it, in their order
  woken,      \* the waiting requests whose future has been set
  pc          \* request -> where it is

vars == <<limit, current, count, locked, queue, woken, pc>>

Places == {"start", "waiting", "inside", "refused", "left"}

TypeOK ==
  /\ limit \in Limits
  /\ current \in Requests \cup {None}
  /\ count \in Nat
  /\ locked \in SUBSET Requests
  /\ queue \in [Requests -> Seq(Requests)]
  /\ woken \in SUBSET Requests
  /\ pc \in [Requests -> Places]

Init ==
  /\ limit \in Limits
  /\ current = None
  /\ count = 0
  /\ locked = {}
  /\ queue = [l \in Requests |-> <<>>]
  /\ woken = {}
  /\ pc = [r \in Requests |-> "start"]

Inside == {r \in Requests : pc[r] = "inside"}

Move(r, from, to) ==
  /\ pc[r] = from
  /\ pc' = [pc EXCEPT ![r] = to]

\* The lock the session has after a request looked it up or created it.
LockFor(r) == IF current = None THEN r ELSE current

\* asyncio.Lock.release: unlock, and set the future of the first waiter.  The
\* RuntimeError for a lock that is not locked is swallowed by the caller.
Release(l) ==
  /\ locked' = locked \ {l}
  /\ woken' = IF l \in locked /\ queue[l] # <<>> THEN woken \cup {Head(queue[l])} ELSE woken

-------------------------------------------------------------------------------
(* _acquire_refresh_lock.                                                   *)

\* Mutant: the limit is taken for reached one request too early.
RefuseEarly(r) ==
  /\ Move(r, "start", "refused")
  /\ count + 1 >= limit
  /\ current' = LockFor(r)
  /\ UNCHANGED <<limit, count, locked, queue, woken>>

\* The limit is reached: False, and a lock that was missing has been created.
Refuse(r) ==
  /\ Move(r, "start", "refused")
  /\ count >= limit
  /\ current' = LockFor(r)
  /\ UNCHANGED <<limit, count, locked, queue, woken>>

\* Mutant: the lock is read before it is created.
EnterStale(r) ==
  /\ Move(r, "start", "inside")
  /\ count < limit
  /\ LockFor(r) \notin locked
  /\ queue[LockFor(r)] = <<>>
  /\ current' = LockFor(r)
  /\ locked' = locked \cup {current}
  /\ count' = count + 1
  /\ UNCHANGED <<limit, queue, woken>>

\* The lock is free and nobody waits for it: lock.acquire() does not suspend.
Enter(r) ==
  /\ Move(r, "start", "inside")
  /\ count < limit
  /\ LockFor(r) \notin locked
  /\ queue[LockFor(r)] = <<>>
  /\ current' = LockFor(r)
  /\ locked' = locked \cup {LockFor(r)}
  /\ count' = count + 1
  /\ UNCHANGED <<limit, queue, woken>>

\* Mutant: the count is looked at only after the wait.
WaitUnchecked(r) ==
  /\ Move(r, "start", "waiting")
  /\ LockFor(r) \in locked \/ queue[LockFor(r)] # <<>>
  /\ current' = LockFor(r)
  /\ queue' = [queue EXCEPT ![LockFor(r)] = Append(@, r)]
  /\ UNCHANGED <<limit, count, locked, woken>>

\* Otherwise the request waits at the end of the queue.
Wait(r) ==
  /\ Move(r, "start", "waiting")
  /\ count < limit
  /\ LockFor(r) \in locked \/ queue[LockFor(r)] # <<>>
  /\ current' = LockFor(r)
  /\ queue' = [queue EXCEPT ![LockFor(r)] = Append(@, r)]
  /\ UNCHANGED <<limit, count, locked, woken>>

\* Only the first of a queue is ever woken, so it is the one that leaves it.
LeaveQueue(r, l) ==
  /\ r \in woken
  /\ queue[l] # <<>>
  /\ Head(queue[l]) = r
  /\ queue' = [queue EXCEPT ![l] = Tail(@)]

\* Mutant: the count is not looked at a second time.
WakeUnchecked(r, l) ==
  /\ LeaveQueue(r, l)
  /\ Move(r, "waiting", "inside")
  /\ woken' = woken \ {r}
  /\ count' = count + 1
  /\ locked' = locked \cup {l}
  /\ UNCHANGED <<limit, current>>

\* A waiter runs again with the lock it waited for, which may no longer be the
\* session's lock, and looks at the count a second time.
Wake(r, l) ==
  /\ LeaveQueue(r, l)
  /\ Move(r, "waiting", "inside")
  /\ count < limit
  /\ woken' = woken \ {r}
  /\ count' = count + 1
  /\ locked' = locked \cup {l}
  /\ UNCHANGED <<limit, current>>

\* The second look finds the limit reached: the lock is released again, for
\* the next of the queue.
WakeRefused(r, l) ==
  /\ LeaveQueue(r, l)
  /\ Move(r, "waiting", "refused")
  /\ count >= limit
  /\ locked' = locked \ {l}
  /\ woken' = (woken \ {r}) \cup {Head(q) : q \in {queue'[l]} \ {<<>>}}
  /\ UNCHANGED <<limit, current, count>>

-------------------------------------------------------------------------------
(* _release_refresh_lock: it releases the lock the session has now.         *)

\* Mutant: the entries are dropped only while somebody is still inside.
LeaveUnclean(r) ==
  /\ Move(r, "inside", "left")
  /\ current # None
  /\ count' = IF count > 0 THEN count - 1 ELSE 0
  /\ current' = IF count' = 0 THEN current ELSE None
  /\ Release(current)
  /\ UNCHANGED <<limit, queue>>

\* The count goes down, the last request drops both entries, and the lock is
\* released in any case.
Leave(r) ==
  /\ Move(r, "inside", "left")
  /\ current # None
  /\ count' = IF count > 0 THEN count - 1 ELSE 0
  /\ current' = IF count' = 0 THEN None ELSE current
  /\ Release(current)
  /\ UNCHANGED <<limit, queue>>

\* The session has no lock any more: nothing is released or counted.
LeaveNothing(r) ==
  /\ Move(r, "inside", "left")
  /\ current = None
  /\ UNCHANGED <<limit, current, count, locked, queue, woken>>

Guard(r) ==
  \/ Refuse(r) \/ Enter(r) \/ Wait(r)
  \/ \E l \in Requests : Wake(r, l) \/ WakeRefused(r, l)
  \/ Leave(r) \/ LeaveNothing(r)

Next == \E r \in Requests : Guard(r)

Spec == Init /\ [][Next]_vars

-------------------------------------------------------------------------------
\* No more requests of a session than the limit are past the guard, even when
\* the lock they waited for was dropped and replaced meanwhile.
AtMostLimit == Cardinality(Inside) <= limit

\* With the default limit of one the guard never suspends a request: it is the
\* atomic test of a counter that RefreshRotation takes it for.
NeverWaits ==
  limit = 1 =>
    /\ \A r \in Requests : pc[r] # "waiting"
    /\ count = Cardinality(Inside)

\* Once nobody is past the guard or on the way to it, the session has no entry
\* and no lock is locked ("Clean up the lock to prevent memory leaks",
\* "Always release the lock", app/auth_refresh.py:205 and 209).
Idle == \A r \in Requests : pc[r] \in {"start", "refused", "left"}
NothingLeft == Idle => current = None /\ count = 0 /\ locked = {}

\* With the default limit.
NothingLeftByOne == limit = 1 => NothingLeft

-------------------------------------------------------------------------------
(* The guard, with its locks, queues and counters, implements AtomicGuard:  *)
(* a request that waits for a lock is still outside.                        *)
Contract == INSTANCE AtomicGuard WITH
  place <- [r \in Requests |-> IF pc[r] \in {"start", "waiting"} THEN "outside" ELSE pc[r]]
ImplementsAtomicGuard == Contract!Spec
=============================================================================

----------------------------- MODULE AsyncTtlCache -----------------------------
(***************************************************************************)
(* AsyncTTLCache of app/utils/cache_async.py, which GET /v1/me reads the   *)
(* user's statistics through: one key of it (the keys share nothing), the  *)
(* value, the error window after a failed load, and the asyncio.Lock that  *)
(* serialises the loads.  A caller is suspended only while it waits for    *)
(* the lock or for the loader; the rest of get is one action.              *)
(***************************************************************************)
EXTENDS Naturals, Sequences, SequencesExt

CONSTANTS
  Callers,    \* the calls of get with this key
  Ttl,        \* ttl_seconds, in ticks
  Nobody      \* nobody holds the lock

ASSUME CallersAssumption == Nobody \notin Callers
ASSUME TtlAssumption == Ttl \in Nat

VARIABLES
  fresh,      \* ticks until the cached value expires; 0: none, or expired
  errorLeft,  \* ticks until _error_until; 0: the circuit is closed
  holder,     \* the caller that holds the lock and loads, or Nobody
  waiters,    \* the callers that wait for the lock, in their order
  got,        \* caller -> where it is, and what it got
  sinceLoad   \* history: ticks since a load last ended with a value or an error

cacheVars == <<fresh, errorLeft, holder, waiters, got, sinceLoad>>

\* The lock is held by the one caller that loads, and whoever is queued waits once.
CacheTypeOK ==
  /\ fresh \in 0..Ttl
  /\ errorLeft \in 0..Ttl
  /\ holder \in Callers \cup {Nobody}
  /\ waiters \in Seq(Callers)
  /\ got \in [Callers -> {"nothing", "queued", "loading", "value", "error", "cancelled"}]
  /\ sinceLoad \in 0..Ttl
  /\ \A c \in Callers : got[c] = "loading" <=> holder = c
  /\ \A c \in Callers : got[c] = "queued" <=> c \in ToSet(waiters)
  /\ \A i, j \in DOMAIN waiters : waiters[i] = waiters[j] => i = j

CacheInit ==
  /\ fresh = 0
  /\ errorLeft = 0
  /\ holder = Nobody
  /\ waiters = <<>>
  /\ got = [c \in Callers |-> "nothing"]
  /\ sinceLoad = Ttl

Become(c, from, to) ==
  /\ got[c] = from
  /\ got' = [got EXCEPT ![c] = to]

\* What the two tests of get find, outside the lock and again inside it: the
\* error window first, then the value.
Known(c, from) ==
  \/ errorLeft > 0 /\ Become(c, from, "error")
  \/ errorLeft = 0 /\ fresh > 0 /\ Become(c, from, "value")

\* The fast path.
Fast(c) ==
  /\ Known(c, "nothing")
  /\ UNCHANGED <<fresh, errorLeft, holder, waiters, sinceLoad>>

\* Neither an error nor a value: the lock is free, and the loader is awaited.
LoadAtOnce(c) ==
  /\ errorLeft = 0 /\ fresh = 0
  /\ holder = Nobody /\ waiters = <<>>
  /\ Become(c, "nothing", "loading")
  /\ holder' = c
  /\ UNCHANGED <<fresh, errorLeft, waiters, sinceLoad>>

\* Or it is held, or promised to a waiter.
WaitForLoad(c) ==
  /\ errorLeft = 0 /\ fresh = 0
  /\ holder # Nobody \/ waiters # <<>>
  /\ Become(c, "nothing", "queued")
  /\ waiters' = Append(waiters, c)
  /\ UNCHANGED <<fresh, errorLeft, holder, sinceLoad>>

\* Mutant: the waiter does not look again before it loads.
ResumeUnchecked(c) ==
  /\ holder = Nobody
  /\ waiters # <<>> /\ c = Head(waiters)
  /\ waiters' = Tail(waiters)
  /\ Become(c, "queued", "loading")
  /\ holder' = c
  /\ UNCHANGED <<fresh, errorLeft, sinceLoad>>

\* The first waiter gets the lock and looks again; it loads only if the load it
\* waited for left neither a value nor an error, or both have run out.
Resume(c) ==
  /\ holder = Nobody
  /\ waiters # <<>> /\ c = Head(waiters)
  /\ waiters' = Tail(waiters)
  /\ \/ /\ Known(c, "queued")
        /\ UNCHANGED holder
     \/ /\ errorLeft = 0 /\ fresh = 0
        /\ Become(c, "queued", "loading")
        /\ holder' = c
  /\ UNCHANGED <<fresh, errorLeft, sinceLoad>>

\* The loader returns: the value is cached and the circuit closed ...
Loaded(c) ==
  /\ Become(c, "loading", "value")
  /\ fresh' = Ttl
  /\ errorLeft' = 0
  /\ holder' = Nobody
  /\ sinceLoad' = 0
  /\ UNCHANGED waiters

\* ... or raises: the circuit is open for as long as a value would have lasted.
LoadFailed(c) ==
  /\ Become(c, "loading", "error")
  /\ errorLeft' = Ttl
  /\ holder' = Nobody
  /\ sinceLoad' = 0
  /\ UNCHANGED <<fresh, waiters>>

\* Mutant: a cancelled loader keeps the lock.
CancelHolding(c) ==
  /\ Become(c, "loading", "cancelled")
  /\ UNCHANGED <<fresh, errorLeft, holder, waiters, sinceLoad>>

\* The caller is cancelled in the loader: CancelledError is no Exception, so
\* nothing is recorded, and the lock is given up ...
Cancel(c) ==
  /\ Become(c, "loading", "cancelled")
  /\ holder' = Nobody
  /\ UNCHANGED <<fresh, errorLeft, waiters, sinceLoad>>

\* ... or in the queue, which it leaves.
CancelWaiting(c) ==
  /\ Become(c, "queued", "cancelled")
  /\ \E i \in DOMAIN waiters : waiters[i] = c /\ waiters' = RemoveAt(waiters, i)
  /\ UNCHANGED <<fresh, errorLeft, holder, sinceLoad>>

CacheTick ==
  /\ fresh' = IF fresh > 0 THEN fresh - 1 ELSE 0
  /\ errorLeft' = IF errorLeft > 0 THEN errorLeft - 1 ELSE 0
  /\ sinceLoad' = IF sinceLoad < Ttl THEN sinceLoad + 1 ELSE Ttl
  /\ UNCHANGED <<holder, waiters, got>>

Progress(c) == Resume(c) \/ Loaded(c) \/ LoadFailed(c)

CacheNext ==
  \/ \E c \in Callers :
       Fast(c) \/ LoadAtOnce(c) \/ WaitForLoad(c) \/ Progress(c) \/ Cancel(c) \/ CancelWaiting(c)
  \/ CacheTick

CacheSpec == CacheInit /\ [][CacheNext]_cacheVars
CacheFairness == \A c \in Callers : WF_cacheVars(Progress(c))
CacheFairSpec == CacheSpec /\ CacheFairness

-------------------------------------------------------------------------------
(* The loads are Ttl apart: however many callers miss at once, the one that *)
(* loads spares the others, whether its load succeeds or fails.  Only a     *)
(* load that was cancelled is followed by another at once.                  *)
LoadsApart ==
  [][\A c \in Callers : got[c] # "loading" /\ got'[c] = "loading" => sinceLoad = Ttl]_cacheVars

(* Every caller that waits is answered, with a value or an error, whoever   *)
(* is cancelled in front of it.                                             *)
WaitersAnswered ==
  \A c \in Callers : got[c] = "queued" ~> got[c] \in {"value", "error", "cancelled"}
=============================================================================

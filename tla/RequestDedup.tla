------------------------------ MODULE RequestDedup ------------------------------
(***************************************************************************)
(* The X-Request-ID part of DedupMiddleware (app/middleware/               *)
(* middleware_core.py): a request whose id was seen less than the TTL ago  *)
(* is refused with 409, else the id is marked before the request runs, and *)
(* marked again when it has answered, unless it is a write that carries an *)
(* Idempotency-Key as well.                                                *)
(*                                                                         *)
(* _seen is a cachetools.TTLCache: at its limit the least recently used    *)
(* entry gives way.  The asyncio lock around the test and the mark has no  *)
(* await inside: the two are one action.                                   *)
(***************************************************************************)
EXTENDS Naturals, FiniteSets

CONSTANTS
  Repeats,    \* the requests that carry an X-Request-ID
  Ids,        \* the ids they carry
  MarkTtl,    \* DEDUP_TTL_SECONDS, in ticks, clamped to at least a second
  MaxEntries, \* DEDUP_MAX_ENTRIES, clamped to at least one
  NoId        \* the request has not arrived

ASSUME MarkTtlAssumption == MarkTtl \in Nat \ {0}
ASSUME MaxEntriesAssumption == MaxEntries \in Nat \ {0}

VARIABLES
  left,       \* id -> ticks until its entry of _seen expires, 0: no entry
  newer,      \* id -> the ids whose entries were used after its own
  phase,      \* request -> where it is
  id,         \* request -> its id, NoId before it arrives
  since,      \* history: id -> ticks since a request with it was let in or has
              \*   renewed the mark; MarkTtl: never, or that long ago
  others      \* history: id -> the other ids used since its own last use, while
              \*   since is below MarkTtl

dedupVars == <<left, newer, phase, id, since, others>>

Entries == {i \in Ids : left[i] > 0}

\* Of two entries one was used after the other, and there are not too many.
DedupTypeOK ==
  /\ left \in [Ids -> 0..MarkTtl]
  /\ newer \in [Ids -> SUBSET Entries]
  /\ phase \in [Repeats -> {"new", "running", "answered", "unmarked", "refused"}]
  /\ id \in [Repeats -> Ids \cup {NoId}]
  /\ \A r \in Repeats : phase[r] # "new" => id[r] \in Ids
  /\ since \in [Ids -> 0..MarkTtl]
  /\ others \in [Ids -> SUBSET Ids]
  /\ \A i \in Ids \ Entries : newer[i] = {}
  /\ \A i \in Entries : i \notin newer[i]
  /\ \A i, j \in Entries : i # j => (j \in newer[i] <=> i \notin newer[j])
  /\ Cardinality(Entries) <= MaxEntries

DedupInit ==
  /\ left = [i \in Ids |-> 0]
  /\ newer = [i \in Ids |-> {}]
  /\ phase = [r \in Repeats |-> "new"]
  /\ id = [r \in Repeats |-> NoId]
  /\ since = [i \in Ids |-> MarkTtl]
  /\ others = [i \in Ids |-> {}]

RequestMove(r, from, to) ==
  /\ phase[r] = from
  /\ phase' = [phase EXCEPT ![r] = to]

\* A use of the entry of i, which may be new.
UsedNow(i) ==
  [j \in Ids |-> IF j \in Entries \ {i} THEN newer[j] \cup {i} ELSE {}]

\* What the requests do, told without the cache: i is used, and with a renewal
\* its window starts anew.
Observe(i, renewed) ==
  LET ago == [since EXCEPT ![i] = IF renewed THEN 0 ELSE @] IN
  /\ since' = ago
  /\ others' = [j \in Ids |-> IF j = i \/ ago[j] = MarkTtl THEN {} ELSE others[j] \cup {i}]

\* Mutant: one entry more than the limit is kept.
MarkOneMore(i) ==
  LET used    == UsedNow(i)
      dropped == {j \in Ids : Cardinality(used[j]) > MaxEntries} IN
  /\ newer' = [j \in Ids |-> IF j \in dropped THEN {} ELSE used[j]]
  /\ left' = [j \in Ids |-> IF j = i THEN MarkTtl ELSE IF j \in dropped THEN 0 ELSE left[j]]

\* Mutant: when there are too many, the most recently used of the others is dropped.
MarkDropsNewest(i) ==
  LET used    == UsedNow(i)
      dropped == IF Cardinality(Entries \cup {i}) <= MaxEntries THEN {}
                 ELSE {j \in Entries : used[j] = {i}} IN
  /\ newer' = [j \in Ids |-> IF j \in dropped THEN {} ELSE used[j] \ dropped]
  /\ left' = [j \in Ids |-> IF j = i THEN MarkTtl ELSE IF j \in dropped THEN 0 ELSE left[j]]

\* _seen[i] = now: the entry starts anew as the most recently used, and the
\* least recently used of the others is dropped when there are too many.
Mark(i) ==
  LET used    == UsedNow(i)
      dropped == {j \in Ids : Cardinality(used[j]) >= MaxEntries} IN
  /\ newer' = [j \in Ids |-> IF j \in dropped THEN {} ELSE used[j]]
  /\ left' = [j \in Ids |-> IF j = i THEN MarkTtl ELSE IF j \in dropped THEN 0 ELSE left[j]]

\* Mutant: a refusal renews the mark, so that an id that is repeated often enough
\* is never let in again.
RefuseRenewing(r, i) ==
  /\ left[i] > 0
  /\ RequestMove(r, "new", "refused")
  /\ id' = [id EXCEPT ![r] = i]
  /\ Mark(i)
  /\ Observe(i, FALSE)

\* The id is known: 409, and the look-up counts as a use.
RefuseRepeat(r, i) ==
  /\ left[i] > 0
  /\ RequestMove(r, "new", "refused")
  /\ id' = [id EXCEPT ![r] = i]
  /\ newer' = UsedNow(i)
  /\ Observe(i, FALSE)
  /\ UNCHANGED left

\* It is not: the id is marked as in flight and the request runs.
LetIn(r, i) ==
  /\ left[i] = 0
  /\ RequestMove(r, "new", "running")
  /\ id' = [id EXCEPT ![r] = i]
  /\ Mark(i)
  /\ Observe(i, TRUE)

\* The request has answered: the id is marked again.
Answer(r) ==
  /\ RequestMove(r, "running", "answered")
  /\ Mark(id[r])
  /\ Observe(id[r], TRUE)
  /\ UNCHANGED id

\* The mark stays as it was: call_next raised; or the request is a write with an
\* Idempotency-Key, and dispatch returns early because every response that comes
\* out of call_next is a stream, which it does not cache.
EndUnmarked(r) ==
  /\ RequestMove(r, "running", "unmarked")
  /\ UNCHANGED <<left, newer, id, since, others>>

DedupTick ==
  /\ left' = [i \in Ids |-> IF left[i] > 0 THEN left[i] - 1 ELSE 0]
  /\ newer' = [i \in Ids |-> IF i \in Entries' THEN newer[i] \cap Entries' ELSE {}]
  /\ since' = [i \in Ids |-> IF since[i] < MarkTtl THEN since[i] + 1 ELSE MarkTtl]
  /\ others' = [i \in Ids |-> IF since'[i] = MarkTtl THEN {} ELSE others[i]]
  /\ UNCHANGED <<phase, id>>

DedupNext ==
  \/ \E r \in Repeats :
       \/ \E i \in Ids : RefuseRepeat(r, i) \/ LetIn(r, i)
       \/ Answer(r) \/ EndUnmarked(r)
  \/ DedupTick

DedupSpec == DedupInit /\ [][DedupNext]_dedupVars

-------------------------------------------------------------------------------
(* "Reject requests with repeated X-Request-ID header"                     *)
(* (middleware_core.py:205): an id is let in again only when no request     *)
(* with it was let in, or has answered with the mark renewed, less than the *)
(* TTL ago, or when as many other ids as the cache may hold were used since *)
(* its own last use.  And it is refused only in that window: however often  *)
(* it is repeated and refused, it is let in a TTL after its last mark.  A   *)
(* request that runs longer than the TTL can meet its own repetition.       *)
OncePerWindow ==
  [][\A r \in Repeats : phase[r] = "new" =>
       /\ phase'[r] = "running" => \/ since[id'[r]] = MarkTtl
                                  \/ Cardinality(others[id'[r]]) >= MaxEntries
       /\ phase'[r] = "refused" => since[id'[r]] < MarkTtl]_dedupVars
=============================================================================

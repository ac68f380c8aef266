--------------------------- MODULE ServerPartsProofs ---------------------------
(* Theorems about AsyncTtlCache, RequestDedup and MusicSockets.             *)
EXTENDS AsyncTtlCache, RequestDedup, MusicSockets, SequenceTheorems, FiniteSetTheorems,
        WellFoundedInduction, TLAPS

(***************************************************************************)
(* AsyncTtlCache.                                                          *)
(***************************************************************************)

\* What leaves the middle of a sequence: the elements behind move up.
LEMMA RemoveAtProperties ==
  ASSUME NEW S, NEW s \in Seq(S), NEW k \in DOMAIN s
  PROVE  /\ RemoveAt(s, k) \in Seq(S)
         /\ Len(RemoveAt(s, k)) = Len(s) - 1
         /\ \A i \in 1..(Len(s) - 1) :
              RemoveAt(s, k)[i] = IF i < k THEN s[i] ELSE s[i + 1]
<1> DEFINE front == SubSeq(s, 1, k - 1)
           back == SubSeq(s, k + 1, Len(s))
<1>1. k \in 1..Len(s) /\ Len(s) \in Nat
  OBVIOUS
<1>2. /\ front \in Seq(S) /\ Len(front) = k - 1
      /\ \A i \in 1..(k - 1) : front[i] = s[i]
  BY <1>1, SubSeqProperties
<1>3. /\ back \in Seq(S) /\ Len(back) = Len(s) - k
      /\ \A i \in 1..(Len(s) - k) : back[i] = s[k + i]
  BY <1>1, SubSeqProperties
<1> HIDE DEF front, back
<1>4. RemoveAt(s, k) = front \o back
  BY DEF RemoveAt, front, back
<1>5. /\ front \o back \in Seq(S) /\ Len(front \o back) = (k - 1) + (Len(s) - k)
      /\ \A i \in 1..((k - 1) + (Len(s) - k)) :
           (front \o back)[i] = IF i <= k - 1 THEN front[i] ELSE back[i - (k - 1)]
  BY <1>2, <1>3, ConcatProperties
<1>6. ASSUME NEW i \in 1..(Len(s) - 1)
      PROVE  RemoveAt(s, k)[i] = IF i < k THEN s[i] ELSE s[i + 1]
  <2>1. CASE i < k
    BY <1>1, <1>2, <1>4, <1>5, <2>1
  <2>2. CASE ~(i < k)
    <3>1. i - (k - 1) \in 1..(Len(s) - k) /\ k + (i - (k - 1)) = i + 1
      BY <1>1, <2>2
    <3>2. i \in 1..((k - 1) + (Len(s) - k)) /\ ~(i <= k - 1)
      BY <1>1, <2>2
    <3>3. RemoveAt(s, k)[i] = back[i - (k - 1)]
      BY <1>4, <1>5, <3>2
    <3> QED
      BY <1>3, <2>2, <3>1, <3>3
  <2> QED
    BY <2>1, <2>2
<1> QED
  BY <1>1, <1>4, <1>5, <1>6

\* Removing an element that occurs once leaves the others, each once.
LEMMA RemoveOnce ==
  ASSUME NEW S, NEW s \in Seq(S), NEW k \in DOMAIN s,
         \A i, j \in DOMAIN s : s[i] = s[j] => i = j
  PROVE  /\ ToSet(RemoveAt(s, k)) = ToSet(s) \ {s[k]}
         /\ \A i, j \in DOMAIN RemoveAt(s, k) : RemoveAt(s, k)[i] = RemoveAt(s, k)[j] => i = j
<1> DEFINE t == RemoveAt(s, k)
           at(i) == IF i < k THEN i ELSE i + 1
<1>1. /\ t \in Seq(S) /\ DOMAIN t = 1..(Len(s) - 1) /\ k \in 1..Len(s) /\ DOMAIN s = 1..Len(s)
      /\ Len(s) \in Nat /\ \A i \in 1..(Len(s) - 1) : t[i] = IF i < k THEN s[i] ELSE s[i + 1]
  BY RemoveAtProperties
<1> HIDE DEF t
<1>2. \A i \in DOMAIN t : t[i] = s[at(i)] /\ at(i) \in DOMAIN s /\ at(i) # k
  BY <1>1
<1>3. ASSUME NEW j \in DOMAIN s, j # k PROVE \E i \in DOMAIN t : at(i) = j
  <2>1. CASE j < k
    <3>1. j \in DOMAIN t /\ at(j) = j
      BY <1>1, <2>1
    <3> QED
      BY <3>1
  <2>2. CASE j > k
    <3>1. j - 1 \in DOMAIN t /\ at(j - 1) = j
      BY <1>1, <2>2
    <3> QED
      BY <3>1
  <2> QED
    BY <1>1, <1>3, <2>1, <2>2
<1>4. \A i, j \in DOMAIN t : at(i) = at(j) => i = j
  BY <1>1
<1> HIDE DEF at
<1>5. ToSet(t) = ToSet(s) \ {s[k]}
  BY <1>2, <1>3 DEF ToSet
<1>6. \A i, j \in DOMAIN t : t[i] = t[j] => i = j
  BY <1>2, <1>4
<1> QED
  BY <1>5, <1>6 DEF t

\* The same of the two ends.
LEMMA QueueEnds ==
  ASSUME NEW S, NEW s \in Seq(S), \A i, j \in DOMAIN s : s[i] = s[j] => i = j
  PROVE  /\ s # <<>> => /\ Head(s) \in ToSet(s)
                       /\ ToSet(Tail(s)) = ToSet(s) \ {Head(s)}
                       /\ \A i, j \in DOMAIN Tail(s) : Tail(s)[i] = Tail(s)[j] => i = j
         /\ \A e \in S : /\ ToSet(Append(s, e)) = ToSet(s) \cup {e}
                         /\ e \notin ToSet(s) => \A i, j \in DOMAIN Append(s, e) :
                              Append(s, e)[i] = Append(s, e)[j] => i = j
<1>1. ASSUME s # <<>>
      PROVE  /\ Head(s) \in ToSet(s)
             /\ ToSet(Tail(s)) = ToSet(s) \ {Head(s)}
             /\ \A i, j \in DOMAIN Tail(s) : Tail(s)[i] = Tail(s)[j] => i = j
  <2>1. /\ Head(s) = s[1] /\ Tail(s) \in Seq(S) /\ Len(Tail(s)) = Len(s) - 1
        /\ \A i \in 1..Len(Tail(s)) : Tail(s)[i] = s[i + 1]
        /\ Len(s) \in Nat \ {0} /\ DOMAIN s = 1..Len(s) /\ DOMAIN Tail(s) = 1..(Len(s) - 1)
    BY <1>1, HeadTailProperties
  <2>2. \A j \in DOMAIN s : j # 1 => j - 1 \in DOMAIN Tail(s) /\ Tail(s)[j - 1] = s[j]
    BY <2>1
  <2>3. \A i \in DOMAIN Tail(s) : i + 1 \in DOMAIN s /\ i + 1 # 1 /\ Tail(s)[i] = s[i + 1]
    BY <2>1
  <2>4. 1 \in DOMAIN s
    BY <2>1
  <2>5. ToSet(Tail(s)) = ToSet(s) \ {s[1]}
    <3>1. \A j \in DOMAIN s : j # 1 => s[j] # s[1]
      BY <2>4
    <3>2. \A i \in DOMAIN Tail(s) : Tail(s)[i] \in ToSet(s) \ {s[1]}
      BY <2>3, <3>1 DEF ToSet
    <3>3. \A j \in DOMAIN s : s[j] # s[1] => s[j] \in ToSet(Tail(s))
      BY <2>2 DEF ToSet
    <3>4. \A x : x \in ToSet(s) <=> \E j \in DOMAIN s : x = s[j]
      BY DEF ToSet
    <3>5. \A x : x \in ToSet(Tail(s)) <=> \E j \in DOMAIN Tail(s) : x = Tail(s)[j]
      BY DEF ToSet
    <3> QED
      BY <3>2, <3>3, <3>4, <3>5
  <2>6. \A i, j \in DOMAIN Tail(s) : Tail(s)[i] = Tail(s)[j] => i = j
    BY <2>1, <2>3
  <2> QED
    BY <2>1, <2>4, <2>5, <2>6 DEF ToSet
<1>2. ASSUME NEW e \in S
      PROVE  /\ ToSet(Append(s, e)) = ToSet(s) \cup {e}
             /\ e \notin ToSet(s) => \A i, j \in DOMAIN Append(s, e) :
                  Append(s, e)[i] = Append(s, e)[j] => i = j
  <2>1. /\ Append(s, e) \in Seq(S) /\ Len(Append(s, e)) = Len(s) + 1
        /\ \A i \in 1..Len(s) : Append(s, e)[i] = s[i]
        /\ Append(s, e)[Len(s) + 1] = e
        /\ Len(s) \in Nat /\ DOMAIN s = 1..Len(s) /\ DOMAIN Append(s, e) = 1..(Len(s) + 1)
    BY AppendProperties
  <2>2. \A i \in DOMAIN Append(s, e) : i \in DOMAIN s \/ i = Len(s) + 1
    BY <2>1
  <2>3. DOMAIN s \subseteq DOMAIN Append(s, e) /\ Len(s) + 1 \in DOMAIN Append(s, e)
    BY <2>1
  <2>4. ToSet(Append(s, e)) = ToSet(s) \cup {e}
    BY <2>1, <2>2, <2>3 DEF ToSet
  <2>5. ASSUME e \notin ToSet(s), NEW i \in DOMAIN Append(s, e), NEW j \in DOMAIN Append(s, e),
               Append(s, e)[i] = Append(s, e)[j]
        PROVE  i = j
    BY <2>1, <2>2, <2>5 DEF ToSet
  <2> QED
    BY <2>4, <2>5
<1> QED
  BY <1>1, <1>2

-------------------------------------------------------------------------------
\* Whoever asks and finds the lock free loads, whoever finds it held waits, and
\* whoever is cancelled leaves both: the lock and the queue say where everybody is.
LEMMA CacheTypeStep == CacheTypeOK /\ [CacheNext]_cacheVars => CacheTypeOK'
<1> SUFFICES ASSUME CacheTypeOK, [CacheNext]_cacheVars PROVE CacheTypeOK'
  OBVIOUS
<1> DEFINE Where == {"nothing", "queued", "loading", "value", "error", "cancelled"}
           Once(q) == \A i, j \in DOMAIN q : q[i] = q[j] => i = j
<1>0. /\ fresh \in 0..Ttl /\ errorLeft \in 0..Ttl /\ sinceLoad \in 0..Ttl
      /\ holder \in Callers \cup {Nobody} /\ waiters \in Seq(Callers) /\ got \in [Callers -> Where]
      /\ \A c \in Callers : got[c] = "loading" <=> holder = c
      /\ \A c \in Callers : got[c] = "queued" <=> c \in ToSet(waiters)
      /\ Once(waiters)
  BY DEF CacheTypeOK
<1>1. ASSUME NEW c \in Callers, Fast(c) PROVE CacheTypeOK'
  BY <1>0, <1>1 DEF CacheTypeOK, Fast, Known, Become
<1>2. ASSUME NEW c \in Callers, LoadAtOnce(c) PROVE CacheTypeOK'
  BY <1>0, <1>2, CallersAssumption DEF CacheTypeOK, LoadAtOnce, Become
<1>3. ASSUME NEW c \in Callers, WaitForLoad(c) PROVE CacheTypeOK'
  <2>1. /\ got[c] = "nothing" /\ got' = [got EXCEPT ![c] = "queued"]
        /\ waiters' = Append(waiters, c)
        /\ UNCHANGED <<fresh, errorLeft, holder, sinceLoad>>
    BY <1>3 DEF WaitForLoad, Become
  <2>2. c \notin ToSet(waiters)
    BY <1>0, <2>1
  <2>3. waiters' \in Seq(Callers) /\ ToSet(waiters') = ToSet(waiters) \cup {c} /\ Once(waiters')
    BY <1>0, <2>1, <2>2, QueueEnds
  <2> QED
    BY <1>0, <2>1, <2>3 DEF CacheTypeOK
<1>4. ASSUME NEW c \in Callers, Resume(c) PROVE CacheTypeOK'
  <2>1. /\ holder = Nobody /\ waiters # <<>> /\ c = Head(waiters) /\ waiters' = Tail(waiters)
        /\ got[c] = "queued" /\ UNCHANGED <<fresh, errorLeft, sinceLoad>>
        /\ \/ holder' = c /\ got' = [got EXCEPT ![c] = "loading"]
           \/ holder' = holder /\ \E to \in {"value", "error"} : got' = [got EXCEPT ![c] = to]
    BY <1>4 DEF Resume, Known, Become
  <2>2. waiters' \in Seq(Callers) /\ ToSet(waiters') = ToSet(waiters) \ {c} /\ Once(waiters')
    BY <1>0, <2>1, QueueEnds
  <2> QED
    BY <1>0, <2>1, <2>2, CallersAssumption DEF CacheTypeOK
<1>5. ASSUME NEW c \in Callers, Loaded(c) \/ LoadFailed(c) PROVE CacheTypeOK'
  BY <1>0, <1>5, CallersAssumption, TtlAssumption DEF CacheTypeOK, Loaded, LoadFailed, Become
<1>6. ASSUME NEW c \in Callers, Cancel(c) PROVE CacheTypeOK'
  BY <1>0, <1>6, CallersAssumption DEF CacheTypeOK, Cancel, Become
<1>7. ASSUME NEW c \in Callers, CancelWaiting(c) PROVE CacheTypeOK'
  <2>1. PICK k \in DOMAIN waiters : waiters[k] = c /\ waiters' = RemoveAt(waiters, k)
    BY <1>7 DEF CancelWaiting
  <2>2. got[c] = "queued" /\ got' = [got EXCEPT ![c] = "cancelled"]
        /\ UNCHANGED <<fresh, errorLeft, holder, sinceLoad>>
    BY <1>7 DEF CancelWaiting, Become
  <2>3. waiters' \in Seq(Callers)
    BY <1>0, <2>1, RemoveAtProperties
  <2>4. ToSet(waiters') = ToSet(waiters) \ {c} /\ Once(waiters')
    BY <1>0, <2>1, RemoveOnce
  <2> QED
    BY <1>0, <2>2, <2>3, <2>4 DEF CacheTypeOK
<1>8. ASSUME CacheTick PROVE CacheTypeOK'
  BY <1>0, <1>8, TtlAssumption DEF CacheTypeOK, CacheTick
<1>9. CASE UNCHANGED cacheVars
  BY <1>9 DEF CacheTypeOK, cacheVars
<1> QED
  BY <1>1, <1>2, <1>3, <1>4, <1>5, <1>6, <1>7, <1>8, <1>9 DEF CacheNext, Progress

\* For any number of callers: the lock of a key is held by the caller that loads
\* and by nobody else, and the callers that wait are the queue of the lock.
THEOREM CacheTypeCorrect == CacheSpec => []CacheTypeOK
<1>1. CacheInit => CacheTypeOK
  BY CallersAssumption, TtlAssumption, EmptySeq DEF CacheInit, CacheTypeOK, ToSet
<1> QED
  BY <1>1, CacheTypeStep, PTL DEF CacheSpec

\* A load that ended less than Ttl ago has left a value or an error that lasts
\* as long as that load is still recent.
Spaced == sinceLoad + fresh >= Ttl \/ sinceLoad + errorLeft >= Ttl

\* The timers run in step, and only the end of a load sets them.
LEMMA SpacedStep == CacheTypeOK /\ Spaced /\ [CacheNext]_cacheVars => Spaced'
<1> SUFFICES ASSUME CacheTypeOK, Spaced, [CacheNext]_cacheVars PROVE Spaced'
  OBVIOUS
<1>0. fresh \in 0..Ttl /\ errorLeft \in 0..Ttl /\ sinceLoad \in 0..Ttl /\ Ttl \in Nat
  BY TtlAssumption DEF CacheTypeOK
<1>1. CASE UNCHANGED <<fresh, errorLeft, sinceLoad>>
  BY <1>1 DEF Spaced
<1>2. ASSUME NEW c \in Callers, Loaded(c) \/ LoadFailed(c) PROVE Spaced'
  BY <1>0, <1>2 DEF Spaced, Loaded, LoadFailed
<1>3. ASSUME CacheTick PROVE Spaced'
  BY <1>0, <1>3 DEF Spaced, CacheTick
<1> QED
  BY <1>1, <1>2, <1>3
     DEF CacheNext, Progress, cacheVars, Fast, LoadAtOnce, WaitForLoad, Resume, Cancel, CancelWaiting

\* However many callers miss, fail or are cancelled, a load begins only when the
\* last one that ended is Ttl ago: the error window spares the loader as long as
\* a value would have.
THEOREM LoadsAreApart == CacheSpec => LoadsApart
<1>1. CacheInit => Spaced
  BY TtlAssumption DEF CacheInit, Spaced
<1>2. ASSUME CacheTypeOK, Spaced, [CacheNext]_cacheVars
      PROVE  \A c \in Callers : got[c] # "loading" /\ got'[c] = "loading" => sinceLoad = Ttl
  <2> SUFFICES ASSUME NEW c \in Callers, got[c] # "loading", got'[c] = "loading"
               PROVE  sinceLoad = Ttl
    OBVIOUS
  <2>1. fresh = 0 /\ errorLeft = 0
    BY <1>2 DEF CacheNext, Progress, cacheVars, Fast, Known, LoadAtOnce, WaitForLoad, Resume, Loaded,
           LoadFailed, Cancel, CancelWaiting, CacheTick, Become, CacheTypeOK
  <2> QED
    BY <1>2, <2>1, TtlAssumption DEF Spaced, CacheTypeOK
<1> QED
  BY <1>1, <1>2, SpacedStep, CacheTypeCorrect, PTL DEF CacheSpec, LoadsApart

(***************************************************************************)
(* RequestDedup.                                                           *)
(***************************************************************************)

\* A finite set in which of any two elements one is newer, and what is newer than
\* the newer is newer, has an element than which all others are newer: the one
\* for which fewest are not newer.
LEMMA OldestExists ==
  ASSUME NEW S, IsFiniteSet(S), S # {}, NEW f \in [S -> SUBSET S],
         \A i, j \in S : i # j => (j \in f[i] <=> i \notin f[j]),
         \A i \in S : i \notin f[i],
         \A i \in S : \A j \in f[i] : f[j] \subseteq f[i]
  PROVE  \E d \in S : f[d] = S \ {d}
<1> DEFINE T == {S \ f[i] : i \in S}
<1>1. T \subseteq FiniteSubsetsOf(S) /\ T # {}
  <2>1. \A i \in S : S \ f[i] \in SUBSET S
    OBVIOUS
  <2>2. ASSUME NEW U \in SUBSET S PROVE U \in FiniteSubsetsOf(S)
    BY FS_Subset DEF FiniteSubsetsOf
  <2>3. SUBSET S \subseteq FiniteSubsetsOf(S)
    BY <2>2
  <2>4. T \subseteq SUBSET S
    BY <2>1
  <2>5. PICK s \in S : S \ f[s] \in T
    OBVIOUS
  <2> HIDE DEF T
  <2> QED
    BY <2>3, <2>4, <2>5
<1>2. PICK U \in T : \A V \in T : <<V, U>> \notin StrictSubsetOrdering(S)
  BY <1>1, FS_StrictSubsetOrderingWellFounded, WFMin
<1>3. PICK d \in S : U = S \ f[d]
  OBVIOUS
<1>4. ASSUME NEW k \in S, k # d, k \notin f[d] PROVE FALSE
  <2>1. d \in f[k] /\ f[d] \subseteq f[k]
    BY <1>4
  <2>2. S \ f[k] \subseteq S \ f[d] /\ d \in S \ f[d] /\ d \notin S \ f[k]
    BY <2>1
  <2>3. <<S \ f[k], S \ f[d]>> \in StrictSubsetOrdering(S)
    BY <2>2 DEF StrictSubsetOrdering
  <2> QED
    BY <1>2, <1>3, <2>3
<1> QED
  BY <1>4

\* The entries are finitely many, and in the order of their last use.
OrderInv ==
  /\ DedupTypeOK
  /\ \A i \in Ids : \A j \in newer[i] : newer[j] \subseteq newer[i]
  /\ IsFiniteSet(Entries)

\* The entries with that of i, which has just been used, are in such an order.
LEMMA UsedNowOrder ==
  ASSUME OrderInv, NEW i \in Ids
  PROVE  LET S == Entries \cup {i}
             f == UsedNow(i) IN
         /\ IsFiniteSet(S)
         /\ f \in [Ids -> SUBSET S]
         /\ \A j \in Ids \ S : f[j] = {}
         /\ \A j \in S : j \notin f[j]
         /\ \A j, k \in S : j # k => (k \in f[j] <=> j \notin f[k])
         /\ \A j \in Ids : \A k \in f[j] : f[k] \subseteq f[j]
<1> DEFINE S == Entries \cup {i}
           f == UsedNow(i)
<1> USE DEF OrderInv, DedupTypeOK
<1>1. Entries \subseteq Ids
  BY DEF Entries
<1>2. f = [j \in Ids |-> IF j \in Entries \ {i} THEN newer[j] \cup {i} ELSE {}]
  BY DEF UsedNow
<1>3. IsFiniteSet(S)
  BY FS_AddElement
<1> HIDE DEF f
<1>4. f \in [Ids -> SUBSET S] /\ \A j \in Ids \ S : f[j] = {}
  BY <1>1, <1>2
<1>5. \A j \in S : j \notin f[j]
  BY <1>1, <1>2
<1>6. ASSUME NEW j \in S, NEW k \in S, j # k
      PROVE  k \in f[j] <=> j \notin f[k]
  BY <1>1, <1>2, <1>6
<1>7. ASSUME NEW j \in Ids, NEW k \in f[j]
      PROVE  f[k] \subseteq f[j]
  BY <1>1, <1>2, <1>7
<1> QED
  BY <1>3, <1>4, <1>5, <1>6, <1>7 DEF f

\* A mark keeps the order and the limit: if there is one entry too many, exactly
\* the oldest has as many newer ones as the limit, and gives way.
LEMMA MarkOrder ==
  ASSUME OrderInv, NEW i \in Ids, Mark(i)
  PROVE  /\ newer' \in [Ids -> SUBSET Entries']
         /\ \A j \in Ids \ Entries' : newer'[j] = {}
         /\ \A j \in Entries' : j \notin newer'[j]
         /\ \A j, k \in Entries' : j # k => (k \in newer'[j] <=> j \notin newer'[k])
         /\ \A j \in Ids : \A k \in newer'[j] : newer'[k] \subseteq newer'[j]
         /\ IsFiniteSet(Entries') /\ Cardinality(Entries') <= MaxEntries
<1> DEFINE S == Entries \cup {i}
           used == UsedNow(i)
           dropped == {j \in Ids : Cardinality(used[j]) >= MaxEntries}
<1>1. /\ IsFiniteSet(S) /\ S \subseteq Ids
      /\ used \in [Ids -> SUBSET S]
      /\ \A j \in Ids \ S : used[j] = {}
      /\ \A j \in S : j \notin used[j]
      /\ \A j, k \in S : j # k => (k \in used[j] <=> j \notin used[k])
      /\ \A j \in Ids : \A k \in used[j] : used[k] \subseteq used[j]
  BY UsedNowOrder DEF Entries
<1>2. /\ newer' = [j \in Ids |-> IF j \in dropped THEN {} ELSE used[j]]
      /\ left' = [j \in Ids |-> IF j = i THEN MarkTtl ELSE IF j \in dropped THEN 0 ELSE left[j]]
  BY DEF Mark
<1>3. used[i] = {}
  BY DEF UsedNow
<1>4. Entries' = S \ dropped
  <2>1. i \notin dropped
    BY <1>3, FS_EmptySet, MaxEntriesAssumption
  <2>2. \A j \in Ids : left[j] \in Nat
    BY DEF OrderInv, DedupTypeOK
  <2>3. \A j \in Ids : left'[j] > 0 <=> j \in S \ dropped
    <3> HIDE DEF dropped
    <3> QED
      BY <1>2, <2>1, <2>2, MarkTtlAssumption DEF Entries
  <2> HIDE DEF dropped
  <2> QED
    BY <1>1, <2>3 DEF Entries
<1> HIDE DEF used
<1>5. PICK d \in S : used[d] = S \ {d}
  <2> DEFINE g == [j \in S |-> used[j]]
  <2>1. \E d \in S : g[d] = S \ {d}
    <3>1. /\ g \in [S -> SUBSET S]
          /\ \A j, k \in S : j # k => (k \in g[j] <=> j \notin g[k])
          /\ \A j \in S : j \notin g[j]
          /\ \A j \in S : \A k \in g[j] : g[k] \subseteq g[j]
      BY <1>1
    <3> HIDE DEF g
    <3> QED
      BY <1>1, <3>1, OldestExists
  <2> QED
    BY <2>1
<1>6. \A j \in S : j # d => d \notin used[j] /\ Cardinality(used[j]) < Cardinality(S) - 1
  <2> SUFFICES ASSUME NEW j \in S, j # d
               PROVE  d \notin used[j] /\ Cardinality(used[j]) < Cardinality(S) - 1
    OBVIOUS
  <2>1. d \notin used[j] /\ j \notin used[j]
    BY <1>1, <1>5
  <2>2. /\ IsFiniteSet(S \ {d})
        /\ Cardinality(S \ {d}) = Cardinality(S) - 1
        /\ Cardinality(S \ {d}) \in Nat /\ Cardinality(S) \in Nat
    BY <1>1, FS_RemoveElement, FS_CardinalityType
  <2>3. /\ IsFiniteSet((S \ {d}) \ {j})
        /\ Cardinality((S \ {d}) \ {j}) = Cardinality(S) - 2
    BY <2>2, FS_RemoveElement
  <2>4. used[j] \in SUBSET ((S \ {d}) \ {j})
    BY <1>1, <2>1
  <2>5. Cardinality(used[j]) <= Cardinality(S) - 2 /\ Cardinality(used[j]) \in Nat
    BY <2>3, <2>4, FS_Subset, FS_CardinalityType
  <2> QED
    BY <2>1, <2>2, <2>5
<1>7. /\ Cardinality(S) \in Nat /\ Cardinality(S) <= MaxEntries + 1
      /\ Cardinality(used[d]) = Cardinality(S) - 1
  <2>1. Cardinality(S \ {d}) = Cardinality(S) - 1
    BY <1>1, FS_RemoveElement
  <2>2. Cardinality(S) = (IF i \in Entries THEN Cardinality(Entries) ELSE Cardinality(Entries) + 1)
    BY FS_AddElement DEF OrderInv
  <2>3. Cardinality(Entries) \in Nat /\ Cardinality(Entries) <= MaxEntries
    BY FS_CardinalityType DEF OrderInv, DedupTypeOK
  <2> QED
    BY <1>5, <2>1, <2>2, <2>3, MaxEntriesAssumption
<1>8. CASE Cardinality(S) <= MaxEntries
  <2>1. \A j \in Ids : j \notin dropped
    <3>1. \A j \in S : Cardinality(used[j]) < MaxEntries
      BY <1>1, <1>6, <1>7, <1>8, MaxEntriesAssumption, FS_Subset, FS_CardinalityType
    <3>2. \A j \in Ids \ S : Cardinality(used[j]) < MaxEntries
      BY <1>1, FS_EmptySet, MaxEntriesAssumption
    <3> QED
      BY <1>1, <3>1, <3>2, FS_Subset, FS_CardinalityType, MaxEntriesAssumption
  <2>2. Entries' = S /\ newer' = used
    BY <1>1, <1>2, <1>4, <2>1
  <2> QED
    BY <1>1, <1>8, <2>2
<1>9. CASE Cardinality(S) = MaxEntries + 1
  <2>1. dropped \cap S = {d}
    BY <1>1, <1>6, <1>7, <1>9, MaxEntriesAssumption, FS_Subset, FS_CardinalityType
  <2>2. Entries' = S \ {d}
    BY <1>4, <2>1
  <2>3. Cardinality(Entries') = MaxEntries /\ IsFiniteSet(Entries')
    BY <1>1, <1>7, <1>9, <2>2, FS_RemoveElement, MaxEntriesAssumption
  <2>4. /\ newer' \in [Ids -> SUBSET Ids]
        /\ newer'[d] = {}
        /\ \A j \in Ids : j \in S \ {d} => newer'[j] = used[j]
        /\ \A j \in Ids : j \notin S => newer'[j] = {}
    BY <1>1, <1>2, <2>1
  <2>5. \A j \in Ids : newer'[j] \subseteq S \ {d}
    BY <1>1, <1>6, <2>4
  <2> QED
    BY <1>1, <2>2, <2>3, <2>4, <2>5, MaxEntriesAssumption
<1> QED
  BY <1>7, <1>8, <1>9, MaxEntriesAssumption

\* What is observed of a use of i: it joins the other ids used since, as long as
\* that is kept, and its own window starts anew when the mark is renewed.
LEMMA ObserveUse ==
  ASSUME OrderInv, NEW i \in Ids, NEW b \in BOOLEAN, Observe(i, b)
  PROVE  /\ since' \in [Ids -> 0..MarkTtl]
         /\ others' \in [Ids -> SUBSET Ids]
         /\ since'[i] = (IF b THEN 0 ELSE since[i]) /\ others'[i] = {}
         /\ \A j \in Ids \ {i} :
              /\ since'[j] = since[j]
              /\ others'[j] = IF since[j] = MarkTtl THEN {} ELSE others[j] \cup {i}
<1> USE DEF OrderInv, DedupTypeOK
<1>1. /\ since' = [since EXCEPT ![i] = IF b THEN 0 ELSE since[i]]
      /\ others' = [j \in Ids |-> IF j = i \/ since'[j] = MarkTtl THEN {} ELSE others[j] \cup {i}]
  BY DEF Observe
<1>2. since' \in [Ids -> 0..MarkTtl]
  BY <1>1, MarkTtlAssumption
<1> QED
  BY <1>1, <1>2

\* Every action keeps the entries in the order of their last use.
LEMMA OrderInvStep == OrderInv /\ [DedupNext]_dedupVars => OrderInv'
<1> SUFFICES ASSUME OrderInv, [DedupNext]_dedupVars PROVE OrderInv'
  OBVIOUS
<1>1. ASSUME NEW i \in Ids, Mark(i), Observe(i, TRUE),
             phase' \in [Repeats -> {"new", "running", "answered", "unmarked", "refused"}],
             id' \in [Repeats -> Ids \cup {NoId}],
             \A r \in Repeats : phase'[r] # "new" => id'[r] \in Ids
      PROVE  OrderInv'
  <2>1. left' \in [Ids -> 0..MarkTtl]
    <3>1. PICK dropped :
            left' = [j \in Ids |-> IF j = i THEN MarkTtl ELSE IF j \in dropped THEN 0 ELSE left[j]]
      BY <1>1 DEF Mark
    <3> QED
      BY <3>1, MarkTtlAssumption DEF OrderInv, DedupTypeOK
  <2>2. since' \in [Ids -> 0..MarkTtl] /\ others' \in [Ids -> SUBSET Ids]
    BY <1>1, ObserveUse
  <2> QED
    BY <1>1, <2>1, <2>2, MarkOrder DEF OrderInv, DedupTypeOK
<1>2. ASSUME NEW r \in Repeats, NEW i \in Ids, RefuseRepeat(r, i) PROVE OrderInv'
  <2>1. Entries' = Entries /\ Entries \cup {i} = Entries
    BY <1>2 DEF RefuseRepeat, Entries
  <2>2. newer' = UsedNow(i)
    BY <1>2 DEF RefuseRepeat
  <2>3. since' \in [Ids -> 0..MarkTtl] /\ others' \in [Ids -> SUBSET Ids]
    BY <1>2, ObserveUse DEF RefuseRepeat
  <2> QED
    BY <1>2, <2>1, <2>2, <2>3, UsedNowOrder DEF RefuseRepeat, RequestMove, OrderInv, DedupTypeOK
<1>3. ASSUME NEW r \in Repeats, NEW i \in Ids, LetIn(r, i) PROVE OrderInv'
  BY <1>1, <1>3 DEF LetIn, RequestMove, OrderInv, DedupTypeOK
<1>4. ASSUME NEW r \in Repeats, Answer(r) PROVE OrderInv'
  <2>1. id[r] \in Ids
    BY <1>4 DEF Answer, RequestMove, OrderInv, DedupTypeOK
  <2> QED
    BY <1>1, <1>4, <2>1 DEF Answer, RequestMove, OrderInv, DedupTypeOK
<1>5. ASSUME NEW r \in Repeats, EndUnmarked(r) PROVE OrderInv'
  BY <1>5 DEF EndUnmarked, RequestMove, Entries, OrderInv, DedupTypeOK
<1>6. CASE DedupTick
  <2>1. /\ left' \in [Ids -> 0..MarkTtl] /\ since' \in [Ids -> 0..MarkTtl]
        /\ others' \in [Ids -> SUBSET Ids]
    BY <1>6, MarkTtlAssumption DEF DedupTick, OrderInv, DedupTypeOK
  <2>2. Entries' \subseteq Entries /\ Entries \subseteq Ids
    BY <1>6 DEF DedupTick, Entries, OrderInv, DedupTypeOK
  <2>3. newer' = [i \in Ids |-> IF i \in Entries' THEN newer[i] \cap Entries' ELSE {}]
    BY <1>6 DEF DedupTick
  <2>4. IsFiniteSet(Entries') /\ Cardinality(Entries') <= MaxEntries
    BY <2>2, FS_Subset, FS_CardinalityType, MaxEntriesAssumption DEF OrderInv, DedupTypeOK
  <2> HIDE DEF Entries
  <2> QED
    BY <1>6, <2>1, <2>2, <2>3, <2>4 DEF DedupTick, OrderInv, DedupTypeOK
<1>7. CASE UNCHANGED dedupVars
  BY <1>7 DEF dedupVars, Entries, OrderInv, DedupTypeOK
<1> QED
  BY <1>2, <1>3, <1>4, <1>5, <1>6, <1>7 DEF DedupNext

\* Nothing is in the cache at first.
LEMMA OrderInvInit == DedupInit => OrderInv
<1> SUFFICES ASSUME DedupInit PROVE OrderInv
  OBVIOUS
<1>1. Entries = {}
  BY DEF DedupInit, Entries
<1>2. IsFiniteSet(Entries) /\ Cardinality(Entries) = 0
  BY <1>1, FS_EmptySet
<1> QED
  BY <1>1, <1>2, MarkTtlAssumption, MaxEntriesAssumption DEF DedupInit, OrderInv, DedupTypeOK

\* However many ids come and go: the entries are never more than the limit, and
\* the least recently used is one and gives way.
THEOREM DedupTypeCorrect == DedupSpec => []DedupTypeOK
<1>1. OrderInv => DedupTypeOK
  BY DEF OrderInv
<1> QED
  BY <1>1, OrderInvInit, OrderInvStep, PTL DEF DedupSpec

\* The cache against what was observed.  An entry lives exactly as long as the
\* window of its id, and what is newer was used since.  An id without an entry has
\* no window, or as many others were used since as the cache may hold.
WindowInv ==
  /\ OrderInv
  /\ \A i \in Ids :
       /\ IsFiniteSet(others[i])
       /\ i \in Entries => left[i] + since[i] = MarkTtl /\ newer[i] \subseteq others[i]
       /\ i \notin Entries => since[i] = MarkTtl \/ Cardinality(others[i]) >= MaxEntries

\* The others of an id are finitely many, and a use makes them no fewer.
LEMMA ObserveOthers ==
  ASSUME WindowInv, NEW i \in Ids, NEW b \in BOOLEAN, Observe(i, b), NEW j \in Ids
  PROVE  /\ IsFiniteSet(others'[j])
         /\ j # i /\ since[j] # MarkTtl /\ Cardinality(others[j]) >= MaxEntries
              => Cardinality(others'[j]) >= MaxEntries
<1>1. CASE j = i \/ since[j] = MarkTtl
  BY <1>1, ObserveUse, FS_EmptySet DEF WindowInv
<1>2. CASE j # i /\ since[j] # MarkTtl
  <2>1. others'[j] = others[j] \cup {i}
    BY <1>2, ObserveUse DEF WindowInv
  <2>2. IsFiniteSet(others[j])
    BY DEF WindowInv
  <2>3. IsFiniteSet(others[j] \cup {i})
    BY <2>2, FS_AddElement
  <2>4. Cardinality(others[j]) <= Cardinality(others[j] \cup {i})
    BY <2>3, FS_Subset
  <2>5. Cardinality(others[j]) \in Nat /\ Cardinality(others[j] \cup {i}) \in Nat
    BY <2>2, <2>3, FS_CardinalityType
  <2> QED
    BY <2>1, <2>3, <2>4, <2>5, MaxEntriesAssumption
<1> QED
  BY <1>1, <1>2

\* Every action keeps the cache in step with what is observed.
LEMMA WindowInvStep == WindowInv /\ [DedupNext]_dedupVars => WindowInv'
<1> SUFFICES ASSUME WindowInv, [DedupNext]_dedupVars PROVE WindowInv'
  OBVIOUS
<1>1. OrderInv /\ OrderInv'
  BY OrderInvStep DEF WindowInv
<1>2. ASSUME NEW i \in Ids, Mark(i), Observe(i, TRUE) PROVE WindowInv'
  <2> DEFINE used == UsedNow(i)
             dropped == {j \in Ids : Cardinality(used[j]) >= MaxEntries}
  <2>1. /\ newer' = [j \in Ids |-> IF j \in dropped THEN {} ELSE used[j]]
        /\ left' = [j \in Ids |-> IF j = i THEN MarkTtl ELSE IF j \in dropped THEN 0 ELSE left[j]]
    BY <1>2 DEF Mark
  <2>2. used = [j \in Ids |-> IF j \in Entries \ {i} THEN newer[j] \cup {i} ELSE {}]
    BY DEF UsedNow
  <2>3. \A j \in Ids : IsFiniteSet(others'[j])
    BY <1>2, ObserveOthers
  <2>4. left'[i] + since'[i] = MarkTtl /\ newer'[i] = {} /\ i \in Entries'
    <3>1. used[i] = {}
      BY <2>2
    <3>2. left'[i] = MarkTtl /\ newer'[i] = {}
      BY <2>1, <3>1
    <3>3. since'[i] = 0
      BY <1>1, <1>2, ObserveUse
    <3> QED
      BY <3>2, <3>3, MarkTtlAssumption DEF Entries
  <2> HIDE DEF used
  <2>5. ASSUME NEW j \in Ids \ {i}, j \in Entries
        PROVE  /\ used[j] \subseteq others'[j]
               /\ since'[j] = since[j] /\ left[j] + since[j] = MarkTtl
    <3>1. left[j] + since[j] = MarkTtl /\ left[j] > 0 /\ newer[j] \subseteq others[j]
      BY <2>5 DEF WindowInv, Entries
    <3>2. since[j] # MarkTtl
      BY <1>1, <3>1, MarkTtlAssumption DEF OrderInv, DedupTypeOK
    <3>3. since'[j] = since[j] /\ others'[j] = others[j] \cup {i}
      BY <1>1, <1>2, <3>2, ObserveUse
    <3>4. used[j] = newer[j] \cup {i}
      BY <2>2, <2>5
    <3> QED
      BY <3>1, <3>3, <3>4
  <2>6. ASSUME NEW j \in Ids \ {i}, j \in Entries, j \in dropped
        PROVE  j \notin Entries' /\ Cardinality(others'[j]) >= MaxEntries
    <3>1. j \notin Entries'
      BY <2>1, <2>6 DEF Entries
    <3>2. Cardinality(used[j]) >= MaxEntries /\ used[j] \subseteq others'[j]
      BY <2>5, <2>6
    <3>3. IsFiniteSet(used[j]) /\ Cardinality(used[j]) <= Cardinality(others'[j])
      BY <2>3, <3>2, FS_Subset
    <3> QED
      BY <2>3, <3>1, <3>2, <3>3, FS_CardinalityType, MaxEntriesAssumption
  <2>7. ASSUME NEW j \in Ids \ {i}, j \in Entries, j \notin dropped
        PROVE  j \in Entries' /\ left'[j] + since'[j] = MarkTtl /\ newer'[j] \subseteq others'[j]
    BY <2>1, <2>5, <2>7 DEF Entries
  <2>8. ASSUME NEW j \in Ids \ {i}, j \notin Entries
        PROVE  j \notin Entries' /\ (since'[j] = MarkTtl \/ Cardinality(others'[j]) >= MaxEntries)
    <3>1. left[j] = 0 /\ j \notin Entries'
      BY <1>1, <2>1, <2>8 DEF Entries, OrderInv, DedupTypeOK
    <3> QED
      BY <1>1, <1>2, <2>8, <3>1, ObserveUse, ObserveOthers DEF WindowInv
  <2> QED
    BY <1>1, <2>3, <2>4, <2>6, <2>7, <2>8 DEF WindowInv
<1>3. ASSUME NEW r \in Repeats, NEW i \in Ids, RefuseRepeat(r, i) PROVE WindowInv'
  <2>1. /\ Observe(i, FALSE) /\ UNCHANGED left /\ i \in Entries
        /\ newer' = [j \in Ids |-> IF j \in Entries \ {i} THEN newer[j] \cup {i} ELSE {}]
    BY <1>3 DEF RefuseRepeat, Entries, UsedNow
  <2>2. Entries' = Entries
    BY <2>1 DEF Entries
  <2>3. \A j \in Ids : IsFiniteSet(others'[j])
    BY <2>1, ObserveOthers
  <2>4. left'[i] + since'[i] = MarkTtl /\ newer'[i] = {}
    BY <1>1, <2>1, ObserveUse DEF WindowInv
  <2>5. ASSUME NEW j \in Ids \ {i}, j \in Entries
        PROVE  left'[j] + since'[j] = MarkTtl /\ newer'[j] \subseteq others'[j]
    <3>1. left[j] + since[j] = MarkTtl /\ left[j] > 0 /\ newer[j] \subseteq others[j]
      BY <2>5 DEF WindowInv, Entries
    <3>2. since[j] # MarkTtl
      BY <1>1, <3>1, MarkTtlAssumption DEF OrderInv, DedupTypeOK
    <3>3. since'[j] = since[j] /\ others'[j] = others[j] \cup {i}
      BY <1>1, <2>1, <3>2, ObserveUse
    <3>4. newer'[j] = newer[j] \cup {i} /\ left'[j] = left[j]
      BY <2>1, <2>5
    <3> QED
      BY <3>1, <3>3, <3>4
  <2>6. ASSUME NEW j \in Ids \ {i}, j \notin Entries
        PROVE  since'[j] = MarkTtl \/ Cardinality(others'[j]) >= MaxEntries
    BY <1>1, <2>1, <2>6, ObserveUse, ObserveOthers DEF WindowInv
  <2> QED
    BY <1>1, <2>1, <2>2, <2>3, <2>4, <2>5, <2>6 DEF WindowInv
<1>4. ASSUME NEW r \in Repeats, Answer(r) PROVE WindowInv'
  <2>1. id[r] \in Ids
    BY <1>1, <1>4 DEF Answer, RequestMove, OrderInv, DedupTypeOK
  <2> QED
    BY <1>2, <1>4, <2>1 DEF Answer
<1>5. CASE DedupTick
  <2> SUFFICES ASSUME NEW i \in Ids
               PROVE  /\ IsFiniteSet(others'[i])
                      /\ i \in Entries' => left'[i] + since'[i] = MarkTtl /\ newer'[i] \subseteq others'[i]
                      /\ i \notin Entries' => since'[i] = MarkTtl \/ Cardinality(others'[i]) >= MaxEntries
    BY <1>1 DEF WindowInv
  <2>1. /\ left'[i] = IF left[i] > 0 THEN left[i] - 1 ELSE 0
        /\ since'[i] = IF since[i] < MarkTtl THEN since[i] + 1 ELSE MarkTtl
        /\ others'[i] = IF since'[i] = MarkTtl THEN {} ELSE others[i]
        /\ newer'[i] \subseteq newer[i]
    BY <1>1, <1>5 DEF DedupTick, OrderInv, DedupTypeOK
  <2>2. IsFiniteSet(others'[i])
    BY <2>1, FS_EmptySet DEF WindowInv
  <2>3. left[i] \in 0..MarkTtl /\ since[i] \in 0..MarkTtl
    BY <1>1 DEF OrderInv, DedupTypeOK
  <2>4. CASE i \in Entries
    <3>1. left[i] > 0 /\ left[i] + since[i] = MarkTtl /\ newer[i] \subseteq others[i]
      BY <2>4 DEF WindowInv, Entries
    <3>2. since'[i] = since[i] + 1 /\ left'[i] = left[i] - 1
      BY <2>1, <2>3, <3>1, MarkTtlAssumption
    <3>3. i \in Entries' <=> left[i] > 1
      BY <2>3, <3>2 DEF Entries
    <3> QED
      BY <2>1, <2>2, <2>3, <3>1, <3>2, <3>3, MarkTtlAssumption
  <2>5. CASE i \notin Entries
    <3>1. left'[i] = 0 /\ i \notin Entries'
      BY <2>1, <2>3, <2>5 DEF Entries
    <3> QED
      BY <2>1, <2>2, <2>3, <2>5, <3>1, MarkTtlAssumption DEF WindowInv
  <2> QED
    BY <2>4, <2>5
<1>6. CASE UNCHANGED <<left, newer, since, others>>
  BY <1>1, <1>6 DEF WindowInv, Entries
<1> QED
  BY <1>2, <1>3, <1>4, <1>5, <1>6 DEF DedupNext, dedupVars, LetIn, EndUnmarked

\* Every id starts without an entry and without a window.
LEMMA WindowInvHolds == DedupSpec => []WindowInv
<1>1. DedupInit => WindowInv
  <2> SUFFICES ASSUME DedupInit PROVE WindowInv
    OBVIOUS
  <2>1. Entries = {} /\ \A i \in Ids : others[i] = {} /\ since[i] = MarkTtl
    BY DEF DedupInit, Entries
  <2> QED
    BY <2>1, OrderInvInit, FS_EmptySet DEF WindowInv
<1> QED
  BY <1>1, WindowInvStep, PTL DEF DedupSpec

\* A new request that goes on has found no entry of its id, and one that is refused
\* has found one.
LEMMA RequestStarts ==
  ASSUME OrderInv, [DedupNext]_dedupVars, NEW r \in Repeats, phase[r] = "new"
  PROVE  /\ phase'[r] = "running" => id'[r] \in Ids \ Entries
         /\ phase'[r] = "refused" => id'[r] \in Entries
<1>1. /\ phase \in [Repeats -> {"new", "running", "answered", "unmarked", "refused"}]
      /\ id \in [Repeats -> Ids \cup {NoId}]
  BY DEF OrderInv, DedupTypeOK
<1>2. CASE \E i \in Ids : LetIn(r, i)
  BY <1>1, <1>2 DEF LetIn, RequestMove, Entries
<1>3. CASE \E i \in Ids : RefuseRepeat(r, i)
  BY <1>1, <1>3 DEF RefuseRepeat, RequestMove, Entries
<1>4. ASSUME NEW q \in Repeats \ {r},
             \/ \E i \in Ids : RefuseRepeat(q, i) \/ LetIn(q, i)
             \/ Answer(q) \/ EndUnmarked(q)
      PROVE  phase'[r] = phase[r]
  BY <1>1, <1>4 DEF RefuseRepeat, LetIn, Answer, EndUnmarked, RequestMove
<1>5. ~Answer(r) /\ ~EndUnmarked(r)
  BY DEF Answer, EndUnmarked, RequestMove
<1>6. DedupTick \/ UNCHANGED dedupVars => phase'[r] = phase[r]
  BY DEF DedupTick, dedupVars
<1> QED
  BY <1>2, <1>3, <1>4, <1>5, <1>6 DEF DedupNext

\* However many requests carry an id, whichever of them answer or fail, and
\* whichever entries give way: an id is let in again only when its last mark is
\* MarkTtl ago, or when MaxEntries other ids were used since its own last use; and
\* however often it is repeated and refused, the refusals end MarkTtl after its last mark.
THEOREM LetInOncePerWindow == DedupSpec => OncePerWindow
<1>1. ASSUME WindowInv, [DedupNext]_dedupVars, NEW r \in Repeats, phase[r] = "new"
      PROVE  phase'[r] = "running" => \/ since[id'[r]] = MarkTtl
                                      \/ Cardinality(others[id'[r]]) >= MaxEntries
  BY <1>1, RequestStarts DEF WindowInv
<1>2. ASSUME WindowInv, [DedupNext]_dedupVars, NEW r \in Repeats, phase[r] = "new"
      PROVE  phase'[r] = "refused" => since[id'[r]] < MarkTtl
  <2> SUFFICES ASSUME phase'[r] = "refused" PROVE since[id'[r]] < MarkTtl
    OBVIOUS
  <2>1. PICK i \in Ids : i = id'[r] /\ i \in Entries
    BY <1>2, RequestStarts DEF WindowInv, Entries
  <2>2. left[i] > 0 /\ left[i] + since[i] = MarkTtl /\ left[i] \in 0..MarkTtl /\ since[i] \in 0..MarkTtl
    BY <1>2, <2>1 DEF WindowInv, OrderInv, DedupTypeOK, Entries
  <2> QED
    BY <2>1, <2>2, MarkTtlAssumption
<1>3. ASSUME WindowInv, [DedupNext]_dedupVars
      PROVE  \A r \in Repeats : phase[r] = "new" =>
               /\ phase'[r] = "running" => \/ since[id'[r]] = MarkTtl
                                          \/ Cardinality(others[id'[r]]) >= MaxEntries
               /\ phase'[r] = "refused" => since[id'[r]] < MarkTtl
  BY <1>1, <1>2, <1>3
<1> QED
  BY <1>3, WindowInvHolds, PTL DEF DedupSpec, OncePerWindow

(***************************************************************************)
(* MusicSockets.                                                           *)
(***************************************************************************)

\* The connection that is closed is the registered one.
MusicInv ==
  /\ MusicTypeOK
  /\ socketLock # NoSocket => victim = reg
  /\ reg # NoSocket => handler[reg] \in {"serving", "leaving", "removing"}

\* Every action keeps it.
LEMMA MusicInvStep == MusicInv /\ [MusicNext]_musicVars => MusicInv'
<1> SUFFICES ASSUME MusicInv, [MusicNext]_musicVars PROVE MusicInv'
  OBVIOUS
<1> USE SocketsAssumption DEF MusicInv, MusicTypeOK, Registry, HandlerMove
<1>1. ASSUME NEW c \in Sockets, Accept(c) \/ HelloFails(c) \/ AddSkipped(c) \/ UnlistedEnds(c)
      PROVE  MusicInv'
  BY <1>1 DEF Accept, HelloFails, AddSkipped, UnlistedEnds
<1>2. ASSUME NEW c \in Sockets, AddFirst(c) PROVE MusicInv'
  BY <1>2 DEF AddFirst
<1>3. ASSUME NEW c \in Sockets, AddReplacing(c) PROVE MusicInv'
  BY <1>3 DEF AddReplacing, StartClosing
<1>4. ASSUME NEW c \in Sockets, AddReplaced(c) PROVE MusicInv'
  BY <1>4 DEF AddReplaced, Closed
<1>5. ASSUME NEW c \in Sockets, ClientLeaves(c) \/ SendFails(c) PROVE MusicInv'
  BY <1>5 DEF ClientLeaves, SendFails
<1>6. ASSUME NEW c \in Sockets, LoopEnds(c) PROVE MusicInv'
  BY <1>6 DEF LoopEnds
<1>7. ASSUME NEW c \in Sockets, RemoveNothing(c) PROVE MusicInv'
  BY <1>7 DEF RemoveNothing
<1>8. ASSUME NEW c \in Sockets, RemoveStart(c) PROVE MusicInv'
  BY <1>8 DEF RemoveStart, StartClosing
<1>9. ASSUME NEW c \in Sockets, RemoveDone(c) PROVE MusicInv'
  BY <1>9 DEF RemoveDone, Closed
<1>10. CASE UNCHANGED musicVars
  BY <1>10 DEF musicVars
<1> HIDE DEF MusicInv, MusicTypeOK, Registry, HandlerMove
<1> QED
  BY <1>1, <1>2, <1>3, <1>4, <1>5, <1>6, <1>7, <1>8, <1>9, <1>10 DEF MusicNext

\* It holds in every reachable state.
LEMMA MusicInvHolds == MusicSpec => []MusicInv
<1>1. MusicInit => MusicInv
  BY SocketsAssumption DEF MusicInit, MusicInv, MusicTypeOK, Registry
<1> QED
  BY <1>1, MusicInvStep, PTL DEF MusicSpec

\* For any number of connections of the user: the lock of the manager is held by
\* exactly the handler that is closing a connection.
THEOREM MusicTypeCorrect == MusicSpec => []MusicTypeOK
<1>1. MusicInv => MusicTypeOK
  BY DEF MusicInv
<1> QED
  BY <1>1, MusicInvHolds, PTL

\* No connection stays registered when its handler has ended, although every
\* handler removes whatever is registered for the user.
THEOREM RegisteredHaveHandlers == MusicSpec => []RegisteredIsServed
<1>1. MusicInv => RegisteredIsServed
  BY DEF MusicInv, RegisteredIsServed
<1> QED
  BY <1>1, MusicInvHolds, PTL
=============================================================================

-------------------------- MODULE SpotifyConnectProofs --------------------------
(* Theorems about SpotifyConnect, for any flows, callbacks and workers.     *)
EXTENDS SpotifyConnect, TLAPS

\* A callback that has looked for its transaction.
Started(c) == cb[c].at \notin {"new", "expired_state", "lost"}

\* A flow that nobody has begun was neither stored nor handed out.
Unbegun ==
  \A f \in Flows : owner[f] = Nil =>
    /\ f \notin redis
    /\ \A w \in Workers : f \notin memory[w]
    /\ copies[f] = 0 /\ handed[f] = 0

\* Only the worker that took the connect keeps a copy in its memory.
OneMemory ==
  \A f \in Flows, v, w \in Workers : f \in memory[v] /\ f \in memory[w] => v = w

Stored(f) == IF f \in redis THEN 1 ELSE 0
Kept(f) == IF \E w \in Workers : f \in memory[w] THEN 1 ELSE 0

\* What was handed out and what is still there were stored.
CopiesAccounted == \A f \in Flows : handed[f] + Stored(f) + Kept(f) <= copies[f]

\* A callback belongs to a flow that was begun; a key that was not there when it
\* was watched is not there later, and nothing was read.
CallbackOfFlow ==
  \A c \in Callbacks : Started(c) => 
    /\ cb[c].flow \in Flows /\ owner[cb[c].flow] \in Users
    /\ cb[c].on \in Workers
UnwatchedIsGone ==
  \A c \in Callbacks :
    /\ cb[c].at \in InPop /\ ~cb[c].watched => cb[c].flow \notin redis
    /\ cb[c].at = "read" /\ cb[c].raw => cb[c].watched

TxInv == ConnectTypeOK /\ Unbegun /\ OneMemory /\ CopiesAccounted /\ CallbackOfFlow /\ UnwatchedIsGone

\* A callback that goes on to the token row has found or inserted the identity.
LinkedHasIdentity ==
  \A c \in Callbacks : cb[c].at = "linked" /\ cb[c].sub # Nil => identity[cb[c].sub] # Nil

\* Where the account of a callback is known.
NamedIsUnlinked == \A c \in Callbacks : cb[c].at = "unlinked" => cb[c].sub # Nil

IdentityInv == LinkedHasIdentity /\ NamedIsUnlinked /\ StoredIsIdentified
-------------------------------------------------------------------------------
\* What a callback does to itself when it moves on.
LEMMA AdvanceEffect ==
  ASSUME ConnectTypeOK, NEW c \in Callbacks, NEW from, NEW to, Advance(c, from, to),
         to \in {"exchanged", "verified", "unlinked", "fallback", "linked", "checking"} \cup Ends
  PROVE  /\ cb' \in [Callbacks -> Locals]
         /\ cb[c].at = from /\ cb'[c] = [cb[c] EXCEPT !.at = to]
         /\ \A d \in Callbacks \ {c} : cb'[d] = cb[d]
  BY DEF Advance, ConnectTypeOK, Locals

\* A step that stores no transaction, hands none out and begins no pop.
Walk ==
  /\ UNCHANGED <<owner, copies, handed>>
  /\ redis' \subseteq redis
  /\ \A w \in Workers : memory'[w] \subseteq memory[w]
  /\ \A c \in Callbacks :
       /\ cb'[c].flow = cb[c].flow /\ cb'[c].on = cb[c].on
       /\ cb'[c].at \in InPop => cb'[c] = cb[c]
       /\ Started(c)' => Started(c)

LEMMA WalkKeeps ==
  ASSUME TxInv, Walk
  PROVE  (Unbegun /\ OneMemory /\ CopiesAccounted /\ CallbackOfFlow /\ UnwatchedIsGone)'
<1> USE DEF Walk
<1>1. Unbegun' /\ OneMemory'
  BY DEF TxInv, Unbegun, OneMemory
<1>2. CopiesAccounted'
  <2>1. ASSUME NEW f \in Flows PROVE handed'[f] + Stored(f)' + Kept(f)' <= copies'[f]
    <3>1. Stored(f)' <= Stored(f) /\ Stored(f)' \in 0..1 /\ Stored(f) \in 0..1
      BY DEF Stored
    <3>2. Kept(f)' <= Kept(f) /\ Kept(f)' \in 0..1 /\ Kept(f) \in 0..1
      BY DEF Kept
    <3>3. handed[f] \in Nat /\ copies[f] \in Nat /\ handed[f] + Stored(f) + Kept(f) <= copies[f]
      BY DEF TxInv, ConnectTypeOK, CopiesAccounted
    <3> QED
      BY <3>1, <3>2, <3>3
  <2> QED
    BY <2>1 DEF CopiesAccounted
<1>3. CallbackOfFlow'
  BY DEF TxInv, CallbackOfFlow
<1>4. UnwatchedIsGone'
  BY DEF TxInv, UnwatchedIsGone, InPop
<1> QED
  BY <1>1, <1>2, <1>3, <1>4

\* The actions of the callback once it has its transaction, and the ends of one
\* that has none, are walks.
LEMMA CallbackWalks ==
  ASSUME TxInv, NEW c \in Callbacks,
         \/ \E f \in Flows, w \in Workers : StateExpired(c, f, w)
         \/ ExchangeCode(c) \/ ExchangeFails(c) \/ VerifyProfile(c)
         \/ LinkSelect(c) \/ LookupFails(c) \/ LinkInsert(c) \/ LinkRefused(c)
         \/ Fallback(c) \/ FallbackRefused(c)
         \/ Upsert(c) \/ UpsertRefused(c) \/ CheckStored(c)
  PROVE  Walk /\ ConnectTypeOK'
<1>1. ConnectTypeOK /\ \A d \in Callbacks : Started(d) =>
        cb[d].flow \in Flows /\ User(d) \in Users
  BY DEF TxInv, CallbackOfFlow, User
<1>2. CASE \E f \in Flows, w \in Workers : StateExpired(c, f, w)
  <2>1. /\ Advance(c, "new", "expired_state") /\ "expired_state" \in Ends
        /\ UNCHANGED <<transactions, handed, accepted, database>>
    BY <1>2 DEF StateExpired, Arrives, Advance, Ends
  <2>2. /\ cb' \in [Callbacks -> Locals]
        /\ cb'[c] = [cb[c] EXCEPT !.at = "expired_state"]
        /\ \A d \in Callbacks \ {c} : cb'[d] = cb[d]
    BY <1>1, <2>1, AdvanceEffect
  <2>3. cb'[c].at = "expired_state" /\ cb'[c].flow = cb[c].flow /\ cb'[c].on = cb[c].on
    BY <1>1, <2>2 DEF ConnectTypeOK, Locals
  <2>4. ConnectTypeOK'
    BY <1>1, <2>1, <2>2 DEF ConnectTypeOK, transactions, database
  <2>5. \A d \in Callbacks :
          /\ cb'[d].flow = cb[d].flow /\ cb'[d].on = cb[d].on
          /\ cb'[d].at \in InPop => cb'[d] = cb[d]
          /\ Started(d)' => Started(d)
    BY <2>2, <2>3 DEF Started, InPop
  <2> QED
    BY <2>1, <2>4, <2>5 DEF Walk, transactions
<1>3. CASE VerifyProfile(c)
  <2>1. PICK a \in Accounts \cup {Nil} : cb' = [cb EXCEPT ![c].at = "verified", ![c].sub = a]
    BY <1>3 DEF VerifyProfile
  <2>2. /\ cb[c] \in Locals /\ cb[c].at = "exchanged"
        /\ cb'[c] = [[cb[c] EXCEPT !.at = "verified"] EXCEPT !.sub = a]
        /\ \A d \in Callbacks \ {c} : cb'[d] = cb[d]
    BY <1>1, <1>3, <2>1 DEF VerifyProfile, ConnectTypeOK
  <2>3. [cb[c] EXCEPT !.at = "verified"] \in Locals
    BY <2>2 DEF Locals
  <2>4. cb'[c] \in Locals
    BY <2>2, <2>3 DEF Locals
  <2>5. cb'[c].at = "verified" /\ cb'[c].flow = cb[c].flow /\ cb'[c].on = cb[c].on
    BY <2>2, <2>3 DEF Locals
  <2>6. ConnectTypeOK'
    BY <1>1, <1>3, <2>1, <2>2, <2>4 DEF VerifyProfile, ConnectTypeOK, transactions, database
  <2>7. \A d \in Callbacks :
          /\ cb'[d].flow = cb[d].flow /\ cb'[d].on = cb[d].on
          /\ cb'[d].at \in InPop => cb'[d] = cb[d]
          /\ Started(d)' => Started(d)
    BY <2>2, <2>5 DEF Started, InPop
  <2> QED
    BY <1>3, <2>6, <2>7 DEF VerifyProfile, Walk, transactions
<1>4. ASSUME NEW from, NEW to, Advance(c, from, to), from \notin {"new", "expired_state", "lost"},
             to \in {"exchanged", "verified", "unlinked", "fallback", "linked", "checking"} \cup Ends,
             UNCHANGED <<transactions, handed>>, accepted' \in SUBSET Flows,
             identity' \in [Accounts -> Users \cup {Nil}],
             subject' \in [Users -> Accounts \cup {Nil, Unnamed}]
      PROVE  Walk /\ ConnectTypeOK'
  <2>1. /\ cb' \in [Callbacks -> Locals]
        /\ cb[c].at = from /\ cb'[c] = [cb[c] EXCEPT !.at = to]
        /\ \A d \in Callbacks \ {c} : cb'[d] = cb[d]
    BY <1>1, <1>4, AdvanceEffect
  <2>2. cb'[c].at = to /\ cb'[c].flow = cb[c].flow /\ cb'[c].on = cb[c].on
    BY <1>1, <2>1 DEF ConnectTypeOK, Locals
  <2>3. Started(c)
    BY <1>4, <2>1 DEF Started
  <2>4. to \notin InPop
    BY <1>4 DEF InPop, Ends
  <2>5. \A d \in Callbacks :
          /\ cb'[d].flow = cb[d].flow /\ cb'[d].on = cb[d].on
          /\ cb'[d].at \in InPop => cb'[d] = cb[d]
          /\ Started(d)' => Started(d)
    BY <2>1, <2>2, <2>3, <2>4 DEF Started
  <2>6. ConnectTypeOK'
    BY <1>1, <1>4, <2>1 DEF ConnectTypeOK, transactions
  <2> QED
    BY <1>4, <2>5, <2>6 DEF Walk, transactions
<1> USE DEF Ends, database
<1>5. CASE ExchangeCode(c) \/ ExchangeFails(c)
  <2>1. accepted' \in SUBSET Flows
    BY <1>1, <1>5 DEF ExchangeCode, ExchangeFails, Advance, Started, ConnectTypeOK
  <2> QED
    BY <1>1, <1>4, <1>5, <2>1 DEF ExchangeCode, ExchangeFails, ConnectTypeOK
<1>6. CASE LinkSelect(c) \/ LookupFails(c) \/ LinkRefused(c) \/ FallbackRefused(c) \/
           UpsertRefused(c) \/ CheckStored(c)
  BY <1>1, <1>4, <1>6
     DEF LinkSelect, LookupFails, LinkRefused, FallbackRefused, UpsertRefused, CheckStored, ConnectTypeOK
<1>7. CASE LinkInsert(c) \/ Fallback(c)
  <2>1. identity' \in [Accounts -> Users \cup {Nil}]
    BY <1>1, <1>7 DEF LinkInsert, Fallback, Advance, Started, ConnectTypeOK
  <2> QED
    BY <1>1, <1>4, <1>7, <2>1 DEF LinkInsert, Fallback, ConnectTypeOK
<1>8. CASE Upsert(c)
  <2>1. subject' \in [Users -> Accounts \cup {Nil, Unnamed}]
    BY <1>1, <1>8 DEF Upsert, Advance, Started, ConnectTypeOK, Locals
  <2> QED
    BY <1>1, <1>4, <1>8, <2>1 DEF Upsert, ConnectTypeOK
<1> QED
  BY <1>2, <1>3, <1>5, <1>6, <1>7, <1>8

\* What pop_tx does to the callback and to what was handed out.
LEMMA TakeEffect ==
  ASSUME ConnectTypeOK, NEW c \in Callbacks, NEW f \in Flows, NEW w \in Workers,
         NEW found \in BOOLEAN, Take(c, f, w, found)
  PROVE  /\ cb' \in [Callbacks -> Locals]
         /\ cb'[c].at \in {"popped", "expired_txn"} /\ cb'[c].flow = f /\ cb'[c].on = w
         /\ \A d \in Callbacks \ {c} : cb'[d] = cb[d]
         /\ handed' \in [Flows -> Nat]
         /\ handed'[f] = handed[f] + (IF found THEN 1 ELSE 0)
         /\ \A g \in Flows \ {f} : handed'[g] = handed[g]
<1> DEFINE to == IF found THEN "popped" ELSE "expired_txn"
           l1 == [cb[c] EXCEPT !.at = to]
           l2 == [l1 EXCEPT !.flow = f]
<1>1. /\ cb[c] \in Locals /\ to \in {"popped", "expired_txn"}
      /\ cb' = [cb EXCEPT ![c].at = to, ![c].flow = f, ![c].on = w]
      /\ handed' = [handed EXCEPT ![f] = IF found THEN @ + 1 ELSE @]
  BY DEF Take, ConnectTypeOK
<1> HIDE DEF to
<1>2. l1 \in Locals /\ l1.at = to
  BY <1>1 DEF Locals, Ends
<1> HIDE DEF l1
<1>3. l2 \in Locals /\ l2.at = to /\ l2.flow = f
  BY <1>2 DEF Locals
<1>4. cb'[c] = [l2 EXCEPT !.on = w] /\ \A d \in Callbacks \ {c} : cb'[d] = cb[d]
  BY <1>1 DEF ConnectTypeOK, l1
<1> HIDE DEF l2
<1>5. cb'[c] \in Locals /\ cb'[c].at = to /\ cb'[c].flow = f /\ cb'[c].on = w
  BY <1>3, <1>4 DEF Locals
<1>6. cb' \in [Callbacks -> Locals]
  BY <1>1, <1>4, <1>5 DEF ConnectTypeOK
<1>7. /\ handed' \in [Flows -> Nat]
      /\ handed'[f] = handed[f] + (IF found THEN 1 ELSE 0)
      /\ \A g \in Flows \ {f} : handed'[g] = handed[g]
  BY <1>1 DEF ConnectTypeOK
<1> QED
  BY <1>1, <1>4, <1>5, <1>6, <1>7

\* A copy that is handed out is there no more.
LEMMA TakeKeeps ==
  ASSUME TxInv, NEW c \in Callbacks, NEW f \in Flows, NEW w \in Workers,
         NEW found \in BOOLEAN, Take(c, f, w, found), owner[f] \in Users,
         UNCHANGED <<owner, copies, accepted, database>>,
         redis' \subseteq redis, memory' \in [Workers -> SUBSET Flows],
         \A v \in Workers : memory'[v] \subseteq memory[v],
         found => Stored(f)' + Kept(f)' < Stored(f) + Kept(f)
  PROVE  TxInv'
<1>1. /\ cb' \in [Callbacks -> Locals]
      /\ cb'[c].at \in {"popped", "expired_txn"} /\ cb'[c].flow = f /\ cb'[c].on = w
      /\ \A d \in Callbacks \ {c} : cb'[d] = cb[d]
      /\ handed' \in [Flows -> Nat]
      /\ handed'[f] = handed[f] + (IF found THEN 1 ELSE 0)
      /\ \A g \in Flows \ {f} : handed'[g] = handed[g]
  BY TakeEffect DEF TxInv
<1>2. ASSUME NEW g \in Flows
      PROVE  /\ Stored(g)' <= Stored(g) /\ Kept(g)' <= Kept(g)
             /\ Stored(g) \in 0..1 /\ Kept(g) \in 0..1 /\ Stored(g)' \in 0..1 /\ Kept(g)' \in 0..1
             /\ handed[g] \in Nat /\ copies[g] \in 0..2
             /\ handed[g] + Stored(g) + Kept(g) <= copies[g]
  <2>1. Stored(g)' <= Stored(g) /\ Stored(g)' \in 0..1 /\ Stored(g) \in 0..1
    BY DEF Stored
  <2>2. Kept(g)' <= Kept(g) /\ Kept(g)' \in 0..1 /\ Kept(g) \in 0..1
    BY DEF Kept
  <2> QED
    BY <2>1, <2>2 DEF TxInv, ConnectTypeOK, CopiesAccounted
<1>3. CopiesAccounted'
  <2>1. ASSUME NEW g \in Flows PROVE handed'[g] + Stored(g)' + Kept(g)' <= copies[g]
    BY <1>1, <1>2
  <2> QED
    BY <2>1 DEF CopiesAccounted
<1>4. handed' \in [Flows -> 0..2]
  BY <1>1, <1>2, <1>3 DEF CopiesAccounted
<1>5. ConnectTypeOK'
  BY <1>1, <1>4 DEF TxInv, ConnectTypeOK, database
<1>6. Unbegun' /\ OneMemory'
  BY <1>1, NobodyAssumption DEF TxInv, Unbegun, OneMemory
<1>7. CallbackOfFlow'
  BY <1>1 DEF TxInv, CallbackOfFlow, Started
<1>8. UnwatchedIsGone'
  BY <1>1 DEF TxInv, UnwatchedIsGone, InPop
<1> QED
  BY <1>3, <1>5, <1>6, <1>7, <1>8 DEF TxInv

-------------------------------------------------------------------------------
\* The invariant holds before the first connect.
LEMMA TxInvInit == ConnectInit => TxInv
<1> SUFFICES ASSUME ConnectInit PROVE TxInv
  OBVIOUS
<1>1. ConnectTypeOK
  BY DEF ConnectInit, ConnectTypeOK, Locals
<1>2. Unbegun /\ OneMemory
  BY DEF ConnectInit, Unbegun, OneMemory
<1>3. CopiesAccounted
  BY DEF ConnectInit, CopiesAccounted, Stored, Kept
<1>4. CallbackOfFlow /\ UnwatchedIsGone
  BY DEF ConnectInit, CallbackOfFlow, UnwatchedIsGone, Started, InPop
<1> QED
  BY <1>1, <1>2, <1>3, <1>4 DEF TxInv

\* Every action keeps it: one step of the proof per action that is not a walk.
LEMMA TxInvStep == TxInv /\ [ConnectNext]_connectVars => TxInv'
<1> SUFFICES ASSUME TxInv, [ConnectNext]_connectVars PROVE TxInv'
  OBVIOUS
<1>1. /\ ConnectTypeOK
      /\ \A c \in Callbacks : Started(c) =>
           cb[c].flow \in Flows /\ owner[cb[c].flow] \in Users /\ cb[c].on \in Workers
  BY DEF TxInv, CallbackOfFlow
<1>2. ASSUME Walk, ConnectTypeOK' PROVE TxInv'
  BY <1>2, WalkKeeps DEF TxInv
<1>3. ASSUME NEW f \in Flows, NEW u \in Users, NEW w \in Workers, BeginConnect(f, u, w)
      PROVE  TxInv'
  <2>1. PICK inRedis \in BOOLEAN, inMemory \in BOOLEAN :
          /\ inRedis \/ inMemory
          /\ redis' = IF inRedis THEN redis \cup {f} ELSE redis
          /\ memory' = IF inMemory THEN [memory EXCEPT ![w] = @ \cup {f}] ELSE memory
          /\ copies' = [copies EXCEPT ![f] = IF inRedis /\ inMemory THEN 2 ELSE 1]
    BY <1>3 DEF BeginConnect
  <2>2. /\ owner[f] = Nil /\ owner' = [owner EXCEPT ![f] = u]
        /\ UNCHANGED <<handed, accepted, identity, subject, cb>>
    BY <1>3 DEF BeginConnect, database
  <2>3. f \notin redis /\ (\A v \in Workers : f \notin memory[v]) /\ handed[f] = 0
    BY <2>2 DEF TxInv, Unbegun
  <2>4. ConnectTypeOK'
    BY <1>1, <2>1, <2>2 DEF ConnectTypeOK
  <2>5. Unbegun'
    BY <1>1, <2>1, <2>2, NobodyAssumption DEF TxInv, Unbegun, ConnectTypeOK
  <2>6. OneMemory'
    BY <1>1, <2>1, <2>3 DEF TxInv, OneMemory, ConnectTypeOK
  <2>7. ASSUME NEW g \in Flows PROVE handed'[g] + Stored(g)' + Kept(g)' <= copies'[g]
    <3>1. CASE g = f
      <4>1. /\ Stored(g)' = (IF inRedis THEN 1 ELSE 0)
            /\ Kept(g)' = (IF inMemory THEN 1 ELSE 0)
        BY <1>1, <2>1, <2>3, <3>1 DEF Stored, Kept, ConnectTypeOK
      <4> QED
        BY <1>1, <2>1, <2>2, <2>3, <3>1, <4>1 DEF ConnectTypeOK
    <3>2. CASE g # f
      <4>1. Stored(g)' = Stored(g) /\ Kept(g)' = Kept(g)
        BY <1>1, <2>1, <3>2 DEF Stored, Kept, ConnectTypeOK
      <4> QED
        BY <1>1, <2>1, <2>2, <3>2, <4>1 DEF TxInv, CopiesAccounted, ConnectTypeOK
    <3> QED
      BY <3>1, <3>2
  <2>8. CallbackOfFlow'
    BY <1>1, <2>2 DEF TxInv, CallbackOfFlow, Started, ConnectTypeOK
  <2>9. UnwatchedIsGone'
    BY <1>1, <2>1, <2>2, NobodyAssumption DEF TxInv, UnwatchedIsGone, Started, InPop
  <2> QED
    BY <2>4, <2>5, <2>6, <2>7, <2>8, <2>9 DEF TxInv, CopiesAccounted
<1>4. ASSUME NEW f \in Flows, TxExpires(f) PROVE TxInv'
  <2>1. Walk /\ ConnectTypeOK'
    BY <1>1, <1>4 DEF TxExpires, Walk, Started, ConnectTypeOK, database
  <2> QED
    BY <1>2, <2>1
<1>5. ASSUME NEW w \in Workers, WorkerRestarts(w) PROVE TxInv'
  <2>1. \A c \in Callbacks : cb'[c] = cb[c] \/ cb'[c] = [cb[c] EXCEPT !.at = "lost"]
    BY <1>5 DEF WorkerRestarts
  <2>2. \A c \in Callbacks : cb[c] \in Locals
    BY <1>1 DEF ConnectTypeOK
  <2>3. ASSUME NEW c \in Callbacks
        PROVE  /\ cb'[c] \in Locals /\ cb'[c].flow = cb[c].flow /\ cb'[c].on = cb[c].on
               /\ cb'[c] = cb[c] \/ cb'[c].at = "lost"
    <3>1. CASE cb'[c] = cb[c]
      BY <2>2, <3>1
    <3>2. CASE cb'[c] = [cb[c] EXCEPT !.at = "lost"]
      <4>1. cb[c] \in Locals
        BY <2>2
      <4> QED
        BY <3>2, <4>1 DEF Locals, Ends
    <3> QED
      BY <2>1, <3>1, <3>2
  <2>4. cb' \in [Callbacks -> Locals]
    BY <1>5, <2>3 DEF WorkerRestarts
  <2>5. Walk /\ ConnectTypeOK'
    BY <1>1, <1>5, <2>3, <2>4 DEF WorkerRestarts, Walk, Started, InPop, ConnectTypeOK, database
  <2> QED
    BY <1>2, <2>5
<1>6. ASSUME NEW c \in Callbacks, NEW f \in Flows, NEW w \in Workers, PopGetdel(c, f, w)
      PROVE  TxInv'
  <2>1. f \in redis => Stored(f)' + Kept(f)' < Stored(f) + Kept(f)
    BY <1>6 DEF PopGetdel, Stored, Kept
  <2>2. owner[f] \in Users
    BY <1>1, <1>6 DEF PopGetdel, Arrives, ConnectTypeOK
  <2>3. /\ redis' \subseteq redis
        /\ UNCHANGED <<owner, memory, copies, accepted, database>>
        /\ memory \in [Workers -> SUBSET Flows]
    BY <1>1, <1>6 DEF PopGetdel, ConnectTypeOK
  <2>4. CASE f \in redis
    <3>1. Take(c, f, w, TRUE)
      BY <1>6, <2>4 DEF PopGetdel, Take
    <3> QED
      BY <2>1, <2>2, <2>3, <2>4, <3>1, TakeKeeps
  <2>5. CASE f \notin redis
    <3>1. Take(c, f, w, FALSE)
      BY <1>6, <2>5 DEF PopGetdel, Take
    <3> QED
      BY <2>2, <2>3, <3>1, TakeKeeps
  <2> QED
    BY <2>4, <2>5
<1>7. ASSUME NEW c \in Callbacks, PopExec(c) PROVE TxInv'
  <2>1. PICK f \in Flows, w \in Workers : f = cb[c].flow /\ w = cb[c].on /\ owner[f] \in Users
    BY <1>1, <1>7 DEF PopExec, Started
  <2>2. PICK found \in BOOLEAN : found = cb[c].raw
    BY <1>1 DEF ConnectTypeOK, Locals
  <2>3. found => f \in redis
    BY <1>7, <2>1, <2>2 DEF PopExec, TxInv, UnwatchedIsGone
  <2>4. /\ Take(c, f, w, found) /\ redis' = redis \ {f}
        /\ UNCHANGED <<owner, memory, copies, accepted, database>>
        /\ memory \in [Workers -> SUBSET Flows]
    BY <1>1, <1>7, <2>1, <2>2 DEF PopExec, ConnectTypeOK
  <2>5. found => Stored(f)' + Kept(f)' < Stored(f) + Kept(f)
    BY <2>3, <2>4 DEF Stored, Kept
  <2> QED
    BY <2>1, <2>4, <2>5, TakeKeeps
<1>8. ASSUME NEW c \in Callbacks, PopMemory(c) PROVE TxInv'
  <2>1. PICK f \in Flows, w \in Workers : f = cb[c].flow /\ w = cb[c].on /\ owner[f] \in Users
    BY <1>1, <1>8 DEF PopMemory, Started, InPop
  <2>2. /\ Take(c, f, w, f \in memory[w])
        /\ memory' = [memory EXCEPT ![w] = @ \ {f}] /\ redis' \subseteq redis
        /\ UNCHANGED <<owner, copies, accepted, database>>
    BY <1>8, <2>1 DEF PopMemory
  <2>3. /\ memory' \in [Workers -> SUBSET Flows]
        /\ \A v \in Workers : memory'[v] \subseteq memory[v]
    BY <1>1, <2>2 DEF ConnectTypeOK
  <2>4. CASE f \in memory[w]
    <3>1. Stored(f)' <= Stored(f) /\ Stored(f) \in 0..1 /\ Stored(f)' \in 0..1
      BY <2>2 DEF Stored
    <3>2. Kept(f) = 1
      BY <2>4 DEF Kept
    <3>3. \A v \in Workers : f \notin memory'[v]
      BY <1>1, <2>2, <2>4 DEF TxInv, OneMemory, ConnectTypeOK
    <3>4. Kept(f)' = 0
      BY <3>3 DEF Kept
    <3>5. Take(c, f, w, TRUE)
      BY <2>2, <2>4 DEF Take
    <3>6. Stored(f)' + Kept(f)' < Stored(f) + Kept(f)
      BY <3>1, <3>2, <3>4
    <3> QED
      BY <2>1, <2>2, <2>3, <3>5, <3>6, TakeKeeps
  <2>5. CASE f \notin memory[w]
    <3>1. Take(c, f, w, FALSE)
      BY <2>2, <2>5 DEF Take
    <3> QED
      BY <2>1, <2>2, <2>3, <3>1, TakeKeeps
  <2> QED
    BY <2>4, <2>5
<1>9. ASSUME NEW c \in Callbacks, NEW f \in Flows, NEW w \in Workers, PopWatch(c, f, w)
      PROVE  TxInv'
  <2> DEFINE l1 == [cb[c] EXCEPT !.at = "watched"]
             l2 == [l1 EXCEPT !.flow = f]
             l3 == [l2 EXCEPT !.on = w]
  <2>1. /\ cb[c] \in Locals /\ cb[c].at = "new" /\ owner[f] \in Users
        /\ redis' \subseteq redis
        /\ UNCHANGED <<owner, memory, copies, handed, accepted, identity, subject>>
    BY <1>1, <1>9 DEF PopWatch, Arrives, ConnectTypeOK, database
  <2>2. PICK there \in BOOLEAN :
          /\ there <=> f \in redis'
          /\ cb' = [cb EXCEPT ![c].at = "watched", ![c].flow = f, ![c].on = w,
                             ![c].watched = there]
    <3>1. CASE f \in redis'
      BY <1>9, <3>1 DEF PopWatch
    <3>2. CASE f \notin redis'
      <4>1. (f \in redis') = FALSE
        BY <3>2
      <4>2. cb' = [cb EXCEPT ![c].at = "watched", ![c].flow = f, ![c].on = w,
                             ![c].watched = FALSE]
        BY <1>9, <4>1, Zenon DEF PopWatch
      <4> QED
        BY <3>2, <4>2
    <3> QED
      BY <3>1, <3>2
  <2>22. /\ cb'[c] = [l3 EXCEPT !.watched = there]
        /\ \A d \in Callbacks \ {c} : cb'[d] = cb[d]
    BY <1>1, <2>2 DEF ConnectTypeOK
  <2>3. l1 \in Locals /\ l1.at = "watched"
    BY <2>1 DEF Locals, InPop
  <2> HIDE DEF l1
  <2>4. l2 \in Locals /\ l2.at = "watched" /\ l2.flow = f
    BY <2>3 DEF Locals
  <2> HIDE DEF l2
  <2>5. l3 \in Locals /\ l3.at = "watched" /\ l3.flow = f /\ l3.on = w
    BY <2>4 DEF Locals
  <2> HIDE DEF l3
  <2>6. /\ cb'[c] \in Locals /\ cb'[c].at = "watched" /\ cb'[c].flow = f /\ cb'[c].on = w
        /\ cb'[c].watched <=> f \in redis'
    <3>1. CASE there = TRUE
      <4>1. cb'[c] = [l3 EXCEPT !.watched = TRUE] /\ f \in redis'
        BY <2>2, <2>22, <3>1
      <4> QED
        BY <2>5, <4>1 DEF Locals
    <3>2. CASE there = FALSE
      <4>1. cb'[c] = [l3 EXCEPT !.watched = FALSE] /\ f \notin redis'
        BY <2>2, <2>22, <3>2
      <4> QED
        BY <2>5, <4>1 DEF Locals
    <3> QED
      BY <2>2, <3>1, <3>2
  <2>7. ConnectTypeOK'
    BY <1>1, <2>1, <2>2, <2>22, <2>6 DEF ConnectTypeOK
  <2>8. Unbegun' /\ OneMemory'
    BY <2>1 DEF TxInv, Unbegun, OneMemory
  <2>9. CopiesAccounted'
    BY <1>1, <2>1 DEF TxInv, CopiesAccounted, Stored, Kept, ConnectTypeOK
  <2>10. CallbackOfFlow' /\ UnwatchedIsGone'
    BY <2>1, <2>22, <2>6 DEF TxInv, CallbackOfFlow, UnwatchedIsGone, Started, InPop
  <2> QED
    BY <2>7, <2>8, <2>9, <2>10 DEF TxInv
<1>10. ASSUME NEW c \in Callbacks, PopGet(c) PROVE TxInv'
  <2> DEFINE l1 == [cb[c] EXCEPT !.at = "read"]
  <2>1. /\ cb[c] \in Locals /\ cb[c].at = "watched"
        /\ UNCHANGED <<owner, redis, memory, copies, handed, accepted, identity, subject>>
    BY <1>1, <1>10 DEF PopGet, ConnectTypeOK, database, transactions
  <2>2. /\ cb'[c] = [l1 EXCEPT !.raw = cb[c].flow \in redis]
        /\ \A d \in Callbacks \ {c} : cb'[d] = cb[d]
        /\ cb' = [d \in Callbacks |-> cb'[d]]
    BY <1>1, <1>10 DEF PopGet, ConnectTypeOK
  <2>3. l1 \in Locals /\ l1.at = "read" /\ l1.flow = cb[c].flow /\ l1.on = cb[c].on
        /\ l1.watched = cb[c].watched
    BY <2>1 DEF Locals, InPop
  <2> HIDE DEF l1
  <2>4. /\ cb'[c] \in Locals /\ cb'[c].at = "read" /\ cb'[c].flow = cb[c].flow
        /\ cb'[c].on = cb[c].on /\ cb'[c].watched = cb[c].watched
        /\ cb'[c].raw <=> cb[c].flow \in redis
    <3>1. CASE cb[c].flow \in redis
      <4>1. cb'[c] = [l1 EXCEPT !.raw = TRUE]
        BY <2>2, <3>1
      <4> QED
        BY <2>3, <3>1, <4>1 DEF Locals
    <3>2. CASE cb[c].flow \notin redis
      <4>0. (cb[c].flow \in redis) = FALSE
        BY <3>2
      <4>1. cb'[c] = [l1 EXCEPT !.raw = FALSE]
        BY <2>2, <4>0, Zenon
      <4> QED
        BY <2>3, <3>2, <4>1 DEF Locals
    <3> QED
      BY <3>1, <3>2
  <2>5. ConnectTypeOK'
    BY <1>1, <2>1, <2>2, <2>4 DEF ConnectTypeOK
  <2>6. Unbegun' /\ OneMemory' /\ CopiesAccounted'
    BY <2>1 DEF TxInv, Unbegun, OneMemory, CopiesAccounted, Stored, Kept
  <2>7. CallbackOfFlow' /\ UnwatchedIsGone'
    BY <2>1, <2>2, <2>4 DEF TxInv, CallbackOfFlow, UnwatchedIsGone, Started, InPop
  <2> QED
    BY <2>5, <2>6, <2>7 DEF TxInv
<1>11. CASE UNCHANGED connectVars
  BY <1>11 DEF connectVars, TxInv, ConnectTypeOK, Unbegun, OneMemory, CopiesAccounted, Stored, Kept,
         CallbackOfFlow, UnwatchedIsGone, Started
<1>12. ASSUME NEW c \in Callbacks,
         \/ \E f \in Flows, w \in Workers : StateExpired(c, f, w)
         \/ ExchangeCode(c) \/ ExchangeFails(c) \/ VerifyProfile(c)
         \/ LinkSelect(c) \/ LookupFails(c) \/ LinkInsert(c) \/ LinkRefused(c)
         \/ Fallback(c) \/ FallbackRefused(c)
         \/ Upsert(c) \/ UpsertRefused(c) \/ CheckStored(c)
      PROVE  TxInv'
  BY <1>2, <1>12, CallbackWalks
<1> QED
  BY <1>3, <1>4, <1>5, <1>6, <1>7, <1>8, <1>9, <1>10, <1>11, <1>12 DEF ConnectNext, Callback

\* The inductive invariant holds in every reachable state.
LEMMA TxInvHolds == ConnectSpec => []TxInv
  BY TxInvInit, TxInvStep, PTL DEF ConnectSpec

\* Every variable of the connection keeps its type: in particular no
\* transaction is handed out a third time, although nothing but the copies in
\* Redis and in the workers bounds the number of callbacks.
THEOREM ConnectTypeCorrect == ConnectSpec => []ConnectTypeOK
<1>1. TxInv => ConnectTypeOK
  BY DEF TxInv
<1> QED
  BY <1>1, TxInvHolds, PTL

\* However many workers and callbacks there are, whatever Redis refuses and
\* whichever replies are lost: a transaction is handed out at most as often as
\* put_tx stored it.
THEOREM HandedOutOnce == ConnectSpec => []TxOnce
<1>1. ASSUME TxInv PROVE TxOnce
  <2>1. ASSUME NEW f \in Flows PROVE handed[f] <= copies[f]
    <3>1. Stored(f) \in 0..1 /\ Kept(f) \in 0..1
      BY DEF Stored, Kept
    <3> QED
      BY <1>1, <3>1 DEF TxInv, ConnectTypeOK, CopiesAccounted
  <2> QED
    BY <2>1 DEF TxOnce
<1> QED
  BY <1>1, TxInvHolds, PTL

-------------------------------------------------------------------------------
\* A step that neither decides about an identity nor stores a token.
Aside ==
  /\ UNCHANGED <<identity, subject>>
  /\ \A c \in Callbacks : cb'[c] = cb[c] \/ cb'[c].at \notin {"linked", "unlinked"}

\* Every step is one of the four that do, or leaves identities and tokens aside.
LEMMA IdentityFrame ==
  ASSUME ConnectTypeOK, [ConnectNext]_connectVars
  PROVE  \/ \E c \in Callbacks : LinkSelect(c) \/ LinkInsert(c) \/ Fallback(c) \/ Upsert(c)
         \/ Aside
<1>1. ASSUME NEW f \in Flows PROVE
        /\ TxExpires(f) => Aside
        /\ \A u \in Users, w \in Workers : BeginConnect(f, u, w) => Aside
  BY DEF TxExpires, BeginConnect, Aside, database
<1>2. ASSUME NEW w \in Workers, WorkerRestarts(w) PROVE Aside
  <2>1. \A c \in Callbacks : cb'[c] = cb[c] \/ cb'[c] = [cb[c] EXCEPT !.at = "lost"]
    BY <1>2 DEF WorkerRestarts
  <2>2. ASSUME NEW c \in Callbacks PROVE cb'[c] = cb[c] \/ cb'[c].at = "lost"
    <3>1. cb[c] \in Locals
      BY DEF ConnectTypeOK
    <3> QED
      BY <2>1, <3>1 DEF Locals
  <2> QED
    BY <1>2, <2>2 DEF WorkerRestarts, Aside, database
<1>3. ASSUME NEW c \in Callbacks, NEW from, NEW to, Advance(c, from, to),
             to \in {"exchanged", "verified", "fallback", "checking"} \cup Ends,
             UNCHANGED <<identity, subject>>
      PROVE  Aside
  <2>1. /\ cb'[c] = [cb[c] EXCEPT !.at = to] /\ cb[c] \in Locals
        /\ \A d \in Callbacks \ {c} : cb'[d] = cb[d]
    BY <1>3, AdvanceEffect DEF ConnectTypeOK
  <2>2. cb'[c].at = to
    BY <2>1 DEF Locals
  <2> QED
    BY <1>3, <2>1, <2>2 DEF Aside, Ends
<1>4. ASSUME NEW c \in Callbacks, \/ ExchangeCode(c) \/ ExchangeFails(c) \/ LookupFails(c)
             \/ LinkRefused(c) \/ FallbackRefused(c) \/ UpsertRefused(c) \/ CheckStored(c)
      PROVE  Aside
  BY <1>3, <1>4
     DEF ExchangeCode, ExchangeFails, LookupFails, LinkRefused, FallbackRefused, UpsertRefused,
         CheckStored, database, Ends
<1>5. ASSUME NEW c \in Callbacks, NEW f \in Flows, NEW w \in Workers,
             StateExpired(c, f, w) \/ PopGetdel(c, f, w) \/ PopWatch(c, f, w)
      PROVE  Aside
  <2>1. UNCHANGED <<identity, subject>> /\ \A d \in Callbacks \ {c} : cb'[d] = cb[d]
    BY <1>5 DEF StateExpired, PopGetdel, PopWatch, Take, database, ConnectTypeOK
  <2>2. cb'[c].at \in {"expired_state", "popped", "expired_txn", "watched"}
    BY <1>5 DEF StateExpired, PopGetdel, PopWatch, Take, ConnectTypeOK, Locals
  <2> QED
    BY <2>1, <2>2 DEF Aside
<1>6. ASSUME NEW c \in Callbacks, PopGet(c) \/ PopExec(c) \/ PopMemory(c) \/ VerifyProfile(c)
      PROVE  Aside
  <2>1. UNCHANGED <<identity, subject>> /\ \A d \in Callbacks \ {c} : cb'[d] = cb[d]
    BY <1>6 DEF PopGet, PopExec, PopMemory, VerifyProfile, Take, database, ConnectTypeOK
  <2>2. cb'[c].at \in {"read", "popped", "expired_txn", "verified"}
    BY <1>6 DEF PopGet, PopExec, PopMemory, VerifyProfile, Take, ConnectTypeOK, Locals
  <2> QED
    BY <2>1, <2>2 DEF Aside
<1>7. CASE UNCHANGED connectVars
  BY <1>7 DEF connectVars, Aside
<1> QED
  BY <1>1, <1>2, <1>4, <1>5, <1>6, <1>7 DEF ConnectNext, Callback

\* An identity is never taken back, so what a callback found stays there until
\* it stores the token.
LEMMA IdentityInvStep ==
  ASSUME TxInv, IdentityInv, [ConnectNext]_connectVars
  PROVE  IdentityInv'
<1> USE DEF IdentityInv, LinkedHasIdentity, NamedIsUnlinked, StoredIsIdentified
<1>1. /\ ConnectTypeOK
      /\ \A c \in Callbacks : Started(c) => User(c) \in Users
  BY DEF TxInv, CallbackOfFlow, User
<1>2. CASE Aside
  BY <1>2 DEF Aside
<1>3. ASSUME NEW c \in Callbacks, LinkSelect(c) PROVE IdentityInv'
  <2>1. PICK to \in {"fallback", "linked", "unlinked"} :
          /\ Advance(c, "verified", to)
          /\ to = "unlinked" => cb[c].sub # Nil
          /\ to = "linked" /\ cb[c].sub # Nil => identity[cb[c].sub] # Nil
    BY <1>3 DEF LinkSelect
  <2>2. /\ cb'[c].at = to /\ cb'[c].sub = cb[c].sub
        /\ \A d \in Callbacks \ {c} : cb'[d] = cb[d]
    BY <1>1, <2>1 DEF Advance, ConnectTypeOK, Locals
  <2> QED
    BY <1>3, <2>1, <2>2 DEF LinkSelect, database
<1>4. ASSUME NEW c \in Callbacks, LinkInsert(c) \/ Fallback(c) PROVE IdentityInv'
  <2>1. /\ cb'[c].at = "linked" /\ cb'[c].sub = cb[c].sub /\ Started(c)
        /\ \A d \in Callbacks \ {c} : cb'[d] = cb[d]
        /\ subject' = subject /\ cb[c].sub \in Accounts \cup {Nil}
    BY <1>1, <1>4 DEF LinkInsert, Fallback, Advance, ConnectTypeOK, Locals, Started
  <2>2. User(c) # Nil
    BY <1>1, <2>1, NobodyAssumption
  <2>3. cb[c].sub # Nil => identity'[cb[c].sub] # Nil
    BY <1>1, <1>4, <2>1, <2>2 DEF LinkInsert, Fallback, ConnectTypeOK
  <2>4. \A a \in Accounts : identity[a] # Nil => identity'[a] # Nil
    BY <1>1, <1>4, <2>2 DEF LinkInsert, Fallback, ConnectTypeOK
  <2>5. \A d \in Callbacks : cb[d].sub # Nil => cb[d].sub \in Accounts
    BY <1>1 DEF ConnectTypeOK, Locals
  <2> QED
    BY <2>1, <2>3, <2>4, <2>5
<1>5. ASSUME NEW c \in Callbacks, Upsert(c) PROVE IdentityInv'
  <2>1. /\ cb[c].at = "linked" /\ cb'[c].at = "checking"
        /\ \A d \in Callbacks \ {c} : cb'[d] = cb[d]
        /\ identity' = identity /\ cb[c].sub \in Accounts \cup {Nil}
    BY <1>1, <1>5 DEF Upsert, Advance, ConnectTypeOK, Locals
  <2>2. \A u \in Users : subject'[u] = subject[u] \/ subject'[u] = Unnamed
                       \/ (subject'[u] = cb[c].sub /\ cb[c].sub # Nil)
    BY <1>1, <1>5 DEF Upsert, ConnectTypeOK
  <2> QED
    BY <2>1, <2>2, AccountsAssumption
<1> QED
  BY <1>1, <1>2, <1>3, <1>4, <1>5, IdentityFrame

\* Whatever the callbacks of an account do meanwhile, and whatever the database
\* refuses: a token is stored for an account only once its identity row exists.
THEOREM IdentityBeforeToken == ConnectSpec => []StoredIsIdentified
<1>1. ConnectInit => IdentityInv
  BY AccountsAssumption
     DEF ConnectInit, IdentityInv, LinkedHasIdentity, NamedIsUnlinked, StoredIsIdentified
<1>2. TxInv /\ IdentityInv /\ [ConnectNext]_connectVars => IdentityInv'
  BY IdentityInvStep
<1>3. IdentityInv => StoredIsIdentified
  BY DEF IdentityInv
<1> QED
  BY <1>1, <1>2, <1>3, TxInvHolds, PTL DEF ConnectSpec
=============================================================================

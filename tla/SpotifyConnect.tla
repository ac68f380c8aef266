----------------------------- MODULE SpotifyConnect -----------------------------
(***************************************************************************)
(* Connecting a Spotify account: GET /v1/spotify/connect, the transaction  *)
(* store between the two requests (app/api/oauth_store.py) and GET         *)
(* /v1/spotify/callback (app/api/spotify.py), with the identity and token  *)
(* rows the callback writes (app/auth_store.py, app/auth_store_tokens.py). *)
(*                                                                         *)
(* A transaction is kept in Redis, or in the memory of one worker when     *)
(* Redis refuses it.  The Redis client is synchronous: a worker runs       *)
(* nothing else during pop_tx, the other workers do.  A browser may send   *)
(* the callback of a flow several times.  One action runs from one await,  *)
(* or one Redis command, to the next.                                      *)
(***************************************************************************)
EXTENDS Naturals, FiniteSets

CONSTANTS
  Flows,      \* the connects: each has a transaction, a state and one code
  Callbacks,  \* the requests to the callback
  Workers,    \* the worker processes
  Users,      \* who connects
  Accounts,   \* the Spotify accounts, provider_sub
  DbFails,    \* whether the database may fail or refuse a row
  Nil         \* nobody, nothing, unknown

\* A row whose provider_sub is NULL.
Unnamed == "unnamed"

ASSUME NobodyAssumption == Nil \notin Users
ASSUME AccountsAssumption == Nil \notin Accounts /\ Unnamed \notin Accounts

VARIABLES
  owner,      \* flow -> the user who connected, Nil before
  redis,      \* the flows whose oauth:tx:<id> key exists
  memory,     \* worker -> the flows in its _store
  copies,     \* history: flow -> how many copies put_tx has stored
  handed,     \* history: flow -> how often pop_tx has handed it out
  accepted,   \* the flows whose code the provider has accepted
  identity,   \* account -> the user of its auth_identities row, or Nil
  subject,    \* user -> provider_sub of the third_party_tokens row; Nil: no row
  cb          \* callback -> [at, flow, on, watched, raw, sub]: where it is, its locals

connectVars == <<owner, redis, memory, copies, handed, accepted, identity, subject, cb>>
transactions == <<owner, redis, memory, copies>>
database == <<identity, subject>>

InPop == {"watched", "read"}
Ends == {"expired_state", "expired_txn", "token_exchange_failed", "identity_link_failed",
         "token_save_failed", "connected", "lost"}

Locals ==
  [at : {"new", "popped", "exchanged", "verified", "unlinked", "fallback", "linked",
         "checking"} \cup InPop \cup Ends,
   flow : Flows \cup {Nil}, on : Workers \cup {Nil}, watched : BOOLEAN,
   raw : BOOLEAN, sub : Accounts \cup {Nil}]

\* Every variable of the callbacks, the transactions and the rows keeps its type:
\* no transaction is handed out a third time.
ConnectTypeOK ==
  /\ owner \in [Flows -> Users \cup {Nil}]
  /\ redis \in SUBSET Flows
  /\ memory \in [Workers -> SUBSET Flows]
  /\ copies \in [Flows -> 0..2]
  /\ handed \in [Flows -> 0..2]
  /\ accepted \in SUBSET Flows
  /\ identity \in [Accounts -> Users \cup {Nil}]
  /\ subject \in [Users -> Accounts \cup {Nil, Unnamed}]
  /\ cb \in [Callbacks -> Locals]

ConnectInit ==
  /\ owner = [f \in Flows |-> Nil]
  /\ redis = {}
  /\ memory = [w \in Workers |-> {}]
  /\ copies = [f \in Flows |-> 0]
  /\ handed = [f \in Flows |-> 0]
  /\ accepted = {}
  /\ identity = [a \in Accounts |-> Nil]
  /\ subject = [u \in Users |-> Nil]
  /\ cb = [c \in Callbacks |-> [at |-> "new", flow |-> Nil, on |-> Nil, watched |-> FALSE,
                                raw |-> FALSE, sub |-> Nil]]

Advance(c, from, to) ==
  /\ cb[c].at = from
  /\ cb' = [cb EXCEPT ![c].at = to]

User(c) == owner[cb[c].flow]
Free(w) == \A c \in Callbacks : cb[c].on = w => cb[c].at \notin InPop

-------------------------------------------------------------------------------
(* connect and the transaction store.                                       *)

\* put_tx: Redis takes the transaction; or it refuses and the worker keeps it;
\* or it takes it and the reply is lost, so that both have it.
BeginConnect(f, u, w) ==
  /\ owner[f] = Nil
  /\ Free(w)
  /\ owner' = [owner EXCEPT ![f] = u]
  /\ \E inRedis, inMemory \in BOOLEAN :
       /\ inRedis \/ inMemory
       /\ redis' = IF inRedis THEN redis \cup {f} ELSE redis
       /\ memory' = IF inMemory THEN [memory EXCEPT ![w] = @ \cup {f}] ELSE memory
       /\ copies' = [copies EXCEPT ![f] = IF inRedis /\ inMemory THEN 2 ELSE 1]
  /\ UNCHANGED <<handed, accepted, database, cb>>

\* The ten minutes of the transaction are over.
TxExpires(f) ==
  /\ owner[f] # Nil
  /\ f \in redis \/ \E w \in Workers : f \in memory[w]
  /\ redis' = redis \ {f}
  /\ memory' = [w \in Workers |-> memory[w] \ {f}]
  /\ UNCHANGED <<owner, copies, handed, accepted, database, cb>>

\* A worker restarts: what it remembers is gone, and so are its requests.
WorkerRestarts(w) ==
  /\ memory' = [memory EXCEPT ![w] = {}]
  /\ cb' = [c \in Callbacks |-> IF cb[c].on = w /\ cb[c].at \notin Ends
                                THEN [cb[c] EXCEPT !.at = "lost"]
                                ELSE cb[c]]
  /\ UNCHANGED <<owner, redis, copies, handed, accepted, database>>

\* What a callback does with what pop_tx returns.
Take(c, f, w, found) ==
  /\ cb' = [cb EXCEPT ![c].at = IF found THEN "popped" ELSE "expired_txn",
                      ![c].flow = f, ![c].on = w]
  /\ handed' = [handed EXCEPT ![f] = IF found THEN @ + 1 ELSE @]

Arrives(c, f, w) ==
  /\ cb[c].at = "new"
  /\ owner[f] # Nil
  /\ Free(w)

\* The state JWT has run out, as the transaction has.
StateExpired(c, f, w) ==
  /\ Arrives(c, f, w)
  /\ f \notin redis /\ f \notin memory[w]
  /\ cb' = [cb EXCEPT ![c].at = "expired_state"]
  /\ UNCHANGED <<transactions, handed, accepted, database>>

\* GETDEL answers: what it says counts, the memory is not looked at.
PopGetdel(c, f, w) ==
  /\ Arrives(c, f, w)
  /\ Take(c, f, w, f \in redis)
  /\ redis' = redis \ {f}
  /\ UNCHANGED <<owner, memory, copies, accepted, database>>

\* GETDEL fails, before or after Redis ran it: the key is watched ...
PopWatch(c, f, w) ==
  /\ Arrives(c, f, w)
  /\ redis' \in {redis, redis \ {f}}
  /\ cb' = [cb EXCEPT ![c].at = "watched", ![c].flow = f, ![c].on = w,
                      ![c].watched = f \in redis']
  /\ UNCHANGED <<owner, memory, copies, handed, accepted, database>>

\* ... read over another connection ...
PopGet(c) ==
  /\ cb[c].at = "watched"
  /\ cb' = [cb EXCEPT ![c].at = "read", ![c].raw = cb[c].flow \in redis]
  /\ UNCHANGED <<transactions, handed, accepted, database>>

\* Mutant: the transaction deletes the key whether or not it changed since WATCH.
PopExecUnwatched(c) ==
  LET f == cb[c].flow IN
  /\ cb[c].at = "read"
  /\ Take(c, f, cb[c].on, cb[c].raw)
  /\ redis' = redis \ {f}
  /\ UNCHANGED <<owner, memory, copies, accepted, database>>

\* ... and deleted, if it has not changed since it was watched.
PopExec(c) ==
  LET f == cb[c].flow IN
  /\ cb[c].at = "read"
  /\ cb[c].watched = (f \in redis)
  /\ Take(c, f, cb[c].on, cb[c].raw)
  /\ redis' = redis \ {f}
  /\ UNCHANGED <<owner, memory, copies, accepted, database>>

\* A command fails, before or after Redis ran it, or the key has changed: the
\* worker's own copy is popped.
PopMemory(c) ==
  LET f == cb[c].flow
      w == cb[c].on IN
  /\ cb[c].at \in InPop
  /\ Take(c, f, w, f \in memory[w])
  /\ memory' = [memory EXCEPT ![w] = @ \ {f}]
  /\ redis' \in IF cb[c].at = "read" /\ cb[c].watched = (f \in redis)
                THEN {redis, redis \ {f}} ELSE {redis}
  /\ UNCHANGED <<owner, copies, accepted, database>>

-------------------------------------------------------------------------------
(* The callback, once it has its transaction.                               *)

\* The code is exchanged; the provider accepts it once.
ExchangeCode(c) ==
  /\ Advance(c, "popped", "exchanged")
  /\ cb[c].flow \notin accepted
  /\ accepted' = accepted \cup {cb[c].flow}
  /\ UNCHANGED <<transactions, handed, database>>

\* It is refused, or no answer comes.
ExchangeFails(c) ==
  /\ Advance(c, "popped", "token_exchange_failed")
  /\ accepted' \in {accepted, accepted \cup {cb[c].flow}}
  /\ UNCHANGED <<transactions, handed, database>>

\* The profile names the account, or the request failed and nothing is known.
VerifyProfile(c) ==
  /\ cb[c].at = "exchanged"
  /\ \E a \in Accounts \cup {Nil} :
       cb' = [cb EXCEPT ![c].at = "verified", ![c].sub = a]
  /\ UNCHANGED <<transactions, handed, accepted, database>>

\* _link_spotify_identity: no account, so the fallback; or its identity exists,
\* whoever's it is; or it does not.
LinkSelect(c) ==
  LET a == cb[c].sub IN
  /\ Advance(c, "verified", IF a = Nil THEN "fallback"
                         ELSE IF identity[a] # Nil THEN "linked" ELSE "unlinked")
  /\ UNCHANGED <<transactions, handed, accepted, database>>

\* The look-up of the user or of the identity fails.
LookupFails(c) ==
  /\ DbFails
  /\ \/ Advance(c, "verified", "token_exchange_failed")
     \/ Advance(c, "verified", "identity_link_failed")
  /\ UNCHANGED <<transactions, handed, accepted, database>>

\* The identity row is inserted ...
LinkInsert(c) ==
  LET a == cb[c].sub IN
  /\ Advance(c, "unlinked", "linked")
  /\ identity[a] = Nil
  /\ identity' = [identity EXCEPT ![a] = User(c)]
  /\ UNCHANGED <<transactions, handed, accepted, subject>>

\* ... or refused, because another request inserted it since, or for any other
\* reason.  The handler that would fetch it again is never reached.
LinkRefused(c) ==
  /\ Advance(c, "unlinked", "fallback")
  /\ DbFails \/ identity[cb[c].sub] # Nil
  /\ UNCHANGED <<transactions, handed, accepted, database>>

\* The fallback inserts once more, under a made-up name if there is none.
Fallback(c) ==
  LET a == cb[c].sub IN
  /\ Advance(c, "fallback", "linked")
  /\ IF a = Nil THEN UNCHANGED identity
     ELSE /\ identity[a] = Nil
          /\ identity' = [identity EXCEPT ![a] = User(c)]
  /\ UNCHANGED <<transactions, handed, accepted, subject>>

\* Mutant: a refused fallback is logged and the callback goes on.
FallbackIgnored(c) ==
  LET a == cb[c].sub IN
  /\ Advance(c, "fallback", "linked")
  /\ DbFails \/ (a # Nil /\ identity[a] # Nil)
  /\ UNCHANGED <<transactions, handed, accepted, database>>

\* The fallback is refused too.
FallbackRefused(c) ==
  LET a == cb[c].sub IN
  /\ Advance(c, "fallback", "identity_link_failed")
  /\ DbFails \/ (a # Nil /\ identity[a] # Nil)
  /\ UNCHANGED <<transactions, handed, accepted, database>>

\* Mutant: the row is given the id of the user for provider_sub.
UpsertOfUser(c) ==
  LET u == User(c) IN
  /\ Advance(c, "linked", "checking")
  /\ subject' = [subject EXCEPT ![u] = u]
  /\ UNCHANGED <<transactions, handed, accepted, identity>>

\* upsert_token: one row per user and provider, one user per account.
Upsert(c) ==
  LET a == cb[c].sub
      u == User(c) IN
  /\ Advance(c, "linked", "checking")
  /\ a = Nil \/ \A v \in Users \ {u} : subject[v] # a
  /\ subject' = [subject EXCEPT ![u] = IF a # Nil THEN a
                               ELSE IF @ = Nil THEN Unnamed ELSE @]
  /\ UNCHANGED <<transactions, handed, accepted, identity>>

\* It returns False, which the callback does not look at.
UpsertRefused(c) ==
  LET a == cb[c].sub IN
  /\ Advance(c, "linked", "connected")
  /\ DbFails \/ (a # Nil /\ \E v \in Users \ {User(c)} : subject[v] = a)
  /\ UNCHANGED <<transactions, handed, accepted, database>>

\* The stored token is read once more, for the log.
CheckStored(c) ==
  /\ \/ Advance(c, "checking", "connected")
     \/ DbFails /\ Advance(c, "checking", "token_save_failed")
  /\ UNCHANGED <<transactions, handed, accepted, database>>

Callback(c) ==
  \/ \E f \in Flows, w \in Workers :
       StateExpired(c, f, w) \/ PopGetdel(c, f, w) \/ PopWatch(c, f, w)
  \/ PopGet(c) \/ PopExec(c) \/ PopMemory(c)
  \/ ExchangeCode(c) \/ ExchangeFails(c) \/ VerifyProfile(c)
  \/ LinkSelect(c) \/ LookupFails(c) \/ LinkInsert(c) \/ LinkRefused(c)
  \/ Fallback(c) \/ FallbackRefused(c)
  \/ Upsert(c) \/ UpsertRefused(c) \/ CheckStored(c)

ConnectNext ==
  \/ \E f \in Flows, u \in Users, w \in Workers : BeginConnect(f, u, w)
  \/ \E c \in Callbacks : Callback(c)
  \/ \E f \in Flows : TxExpires(f)
  \/ \E w \in Workers : WorkerRestarts(w)

ConnectSpec == ConnectInit /\ [][ConnectNext]_connectVars

-------------------------------------------------------------------------------
(* "Atomically fetch and delete" (oauth_store.py:148): a transaction is     *)
(* handed out as often as it was stored, whatever the workers and Redis do: *)
(* once, unless the reply to put_tx was lost and two copies exist.          *)
TxOnce == \A f \in Flows : handed[f] <= copies[f]

(* A token is stored for an account only once its identity row exists: the  *)
(* callback gives up when the row can be neither found nor inserted,        *)
(* whatever the other callbacks of the account do meanwhile.                *)
StoredIsIdentified ==
  \A u \in Users : subject[u] \in Accounts => identity[subject[u]] # Nil
=============================================================================

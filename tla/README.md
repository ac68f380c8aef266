# Formal models of GesahniV2

TLA+ specifications of the concurrent parts of this backend, the TLC
configurations that check them on small instances, and TLAPS proofs of the
results that should hold for every instance. GesahniV2 is a FastAPI application:
several server processes, each with one event loop, share Redis, a database and a
directory of files. What goes wrong in such a program goes wrong between two
`await`s, between two processes, or between two writes; that is what is modelled.

How to run (tla2tools with the community modules, tlapm 1.4.5):

    tlc -config OneWorker.cfg MCOneWorker
    tlapm RefreshRotationProofs.tla

`PROJECT.json` lists every run with the properties it checks, a mutation of the
model that each property detects, the source lines each definition stands for,
the hazards that motivate the properties, and the theorems.

## 1. The system

| Component | State | Operations | Works with | What is hard |
|---|---|---|---|---|
| Refresh-token rotation: `auth_refresh.py`, `token_store.py` | per session family, in Redis with a fallback in each process: allowed jti, used jtis, last use with a count, revocation mark, rotation lock, claim locks; per process: guard locks and counters | `rotate_refresh_token`, `_acquire_/_release_refresh_lock`, login, logout | endpoints of `auth/`, lazy refresh in `deps/user.py` | two tabs refreshing at once, two workers, locks with a TTL, Redis failing, restarts |
| Third-party tokens: `auth_store_tokens.py`, `integrations/spotify/client.py`, `cron/spotify_refresh.py` | one row per user and provider; per process: a lock, a counter of failures and a back-off per user | get a valid token, refresh, mark invalid, connect, disconnect | Spotify pages and player, the refresh cron | several processes refresh one token, some paths without the lock; rotated refresh tokens; answers nobody looks at |
| Access sessions: `sessions_store.py`, `deps/user.py`, `auth/endpoints/logout.py` | rows with `sess_ver` and `revoked_at`; per process: a version cache, a JTI blacklist | create, mint, four ways to revoke, validate, blacklist | every authenticated endpoint | a revocation is several statements, and others read, cache and mint in between |
| Capture sessions: `session_manager.py`, `session_store.py`, `tasks.py` | `meta.json`, `transcript.txt`, `tags.json` of each session | start, save, transcribe, tag, summarize, list | RQ when Redis is there, a joined thread when not | nobody locks `meta.json`; dictionaries kept across `await`s; truncate then write; crashes |
| Spotify connection: `api/spotify.py`, `api/oauth_store.py`, `auth_store.py`, `auth_store_tokens.py` | OAuth transactions in Redis with a memory in each process; identity and token rows | connect, callback | Spotify, the third-party tokens | a callback sent twice, to two workers; Redis failing in the middle of a pop; two callbacks for one account |
| Health of the local model: `llama_integration.py` | health flag, back-off, times of the last check and success, the scheduled job, the breaker | check, check on demand, `ask_llama` | scheduler, routers | a chain of checks in which each schedules the next, and checks and streams that move its clocks |
| WebSocket manager: `ws_manager.py`, `api/music_ws.py` | one connection per user, a lock held across a close | add, remove, broadcast (heartbeat and clean-up are never started) | music handlers | a replaced connection's handler removes its successor |
| Async TTL cache: `utils/cache_async.py` | value, error window and lock of each key | `get` | `GET /v1/me` | single flight, failures seen by waiters, cancelled callers |
| Duplicate filter: `middleware/middleware_core.py` | a bounded TTL cache of request ids | `dispatch` | every request with an `X-Request-ID` | requests longer than the TTL, marks renewed, entries that give way |
| Vendor health: `health.py`, `api/health.py` | one state per vendor, a `threading.Lock` | ping, clear, status of all | nobody records failures at this commit | a lock held while a function that takes it is called, on the event loop |
| Care: `api/care.py`, `care_store.py`, `care_daemons.py`, `api/sms_queue.py`, `custom_queue.py` | alerts, device flags, an SMS queue in memory | create, acknowledge, resolve, heartbeats, monitor loop, send | Twilio stub, caregiver UI | see section 6: it does not get that far |
| Music circuit breaker: `music/circuit.py` | state, failures, time of opening | allow, success, failure, probe | nothing at this commit | not used |
| Device pairing: `device_tokens.py` | pairing codes and device tokens in Redis | store, consume, revoke | `api/devices.py` | read then delete of a code |
| Session cookie store: `session_store.py` | sid to jti, in Redis or memory | create, get, delete | auth endpoints | fallback to memory |
| Routing: `router/`, `model_router.py`, `router_policy.py` | none of its own | choose a model | LLaMA, OpenAI | text and configuration, sequential |
| Rate limits, CSRF, memory and vector stores, skills, TTS, cookies, configuration, start-up, metrics, front end | | | | left out, see section 6 |

What makes the components correct:

- rotation: a token that reached a client works until it is exchanged; a token is
  claimed once; a logout is final; locks come back to nobody but their holder and
  are freed in the end; one rotation per session at a time.
- third-party tokens: one refresh at a time in a process, a bounded number of failures,
  no lock left behind, and no refresh token lost except by a fault.
- Spotify connection: a transaction is handed out once for each copy stored; no token
  is stored for an account without its identity.
- access sessions: a token that a revocation has closed is refused by the table for
  ever, but for the one overwriting the code has, and a refused token gets no further.
- capture sessions: the status never promises files that are not there; it is left
  again when it says "processing"; an error is explained; a session is not lost.
- health of the local model: somebody always goes on looking, and a backend that is
  back is noticed without anybody asking.
- WebSocket manager: no entry outlives the handler that has to remove it, and the handler
  of a closed socket ends.
- cache: one load per key and TTL; whoever waits is answered.
- duplicate filter: one request per id and TTL, and a next one after it.
- vendor health: every request is answered.

## 2. Plan

In the order of importance, all done:

1. `RefreshRotation` (the family's keys, all steps of a rotation) and its abstract
   specification `TokenFamily`; proofs.
2. `RefreshGuard`, the process-local guard that `RefreshRotation` takes as atomic,
   with the `asyncio.Lock` objects it creates and drops, and its abstract specification
   `AtomicGuard`; proofs.
3. `CaptureSession` with its background jobs; proofs.
4. `TokenRefresh`: the Spotify row shared by the processes that refresh it; proofs.
5. `AccessSessions`: what a revocation reaches; proofs.
6. `LlamaHealth`: the chain of health checks, with the streams and the breaker; proofs.
7. `SpotifyConnect`: from the connect to the stored token, over two requests; proofs.
8. `MusicSockets`, `AsyncTtlCache`, `RequestDedup`: small parts whose difficulty is in
   their interleavings; proofs. `VendorHealth`, which has one run and no theorem.

Left, for whoever continues. To prove: that `RefreshRotation` with `AtomicGuard` in the
place of its guard counter is still what its theorems are about (`ImplementsAtomicGuard`
and `EnterGuard` are compared by reading); for several workers, what of
`DeliveredIsAllowed` survives a rotation lock that is taken twice. To model: the
Google connection (`api/google_oauth.py`, which shares the identity and token rows of
`SpotifyConnect`), `_bearer_token_only` of the status page as a further kind of call of
`TokenRefresh`, the commands of the music socket with their cache of results. Care comes
back into the plan when alerts can be stored (section 6).

## 3. Modules and their correspondence to the code

### RefreshRotation

One session family, its keys in every store, and the calls of
`rotate_refresh_token` (`Requests`) served by `Workers`.

- A key `refresh_x:<sid>` is a function from stores to values. `Stores` are Redis and
  the dictionaries of each process. `ReadsFrom(w)` and `WritesTo(w)` say where an
  operation of `token_store.py` may read and take effect: in mode `"up"` in Redis, in
  `"down"` in the process, in `"flaky"` in either, and a write that raised may have
  reached Redis and then be repeated locally, so it may be in both.
- A request's `pc` names the statement it is at. One action is the code between two
  `await`s on the store or database. Acquisition of the Redis lock, the fall-through
  to the process-local lock, the guard, the four checks, the minting, the write of
  the new allowed jti, the claim with its own lock, and the two releases are actions
  of their own; every early exit (busy, revoked, reused, failed) releases what the
  `finally` clauses release at that place.
- Tokens are named after the request that minted them: a jti is 16 random bytes.
- Environment: `Login` opens the family, `LogoutRedis`/`LogoutLocal` are the two
  writes of the revocation, `RotationLockExpires`, `ClaimLockExpires` and `GraceEnds`
  are TTLs that may run out at any moment, `Restart` kills a process with its
  requests and dictionaries. `Timers`, `Restarts` and `RedisMode` switch these on.
- Without `REDIS_URL` the store calls do not suspend the coroutine; the model still
  lets others run between them and so has more behaviours than the code.

`TokenFamily` is what a family promises: one current token, exchanged for a fresh
one. `RefreshRotation` implements it with `current <- allow[Authority]`, when one
process and one answering store serve the family.

### RefreshGuard

`_acquire_refresh_lock` and `_release_refresh_lock` for one session in one process.
Lock objects are named after the request that created them, so that a lock that was
dropped from `_refresh_locks` and is still waited for is a different object from its
successor. `queue` and `woken` are the waiters of an `asyncio.Lock`. `AtomicGuard` is what
the guard promises, without locks: a request passes while fewer than the limit are
inside, and with the limit of one it is refused only while another is inside.
`RefreshGuard` implements it with a waiting request still outside (`Contract`). Together
with `NeverWaits` that justifies the atomic `EnterGuard` of `RefreshRotation`.

### CaptureSession

One `meta.json` and its writers. Of its content the model keeps what the properties
tell apart: whether it has the session's identity, the status, whether there are
errors and tags. An update is load, change, truncate, fill (`Load`, `Truncate`,
`Write`); `todo` says which update it is and `Continue` what follows. `held` is the
dictionary a coroutine has in hand, `copy` the one `tag_task` loads at its start and
saves at its end.

`Exclusive = TRUE` is a deployment without RQ and with one process: a request and its
job run to the end because `thread.join()` blocks the event loop, and only
`save_session` lets others run, while it awaits uploads. `Exclusive = FALSE` is
several processes or RQ workers: everything interleaves, and a writer that overlaps
another can leave text that does not parse (`"garbled"`). The files one operation
writes before its status are written in one step with its place, since nothing reads
them in between but the operation itself.

### TokenRefresh

The Spotify row of one user, shared by server workers and the cron. A call of
`get_valid_token_with_refresh` takes the lock of its process (`TakeLock`), reads the row
and decides (`Consider`: nothing there, good enough, back-off, exhausted, or a try),
runs `SpotifyClient._refresh_tokens` (`ReadTokens`, `Exchange`, `Store`) and counts
(`Fail`, `Invalidate`). `mode` says how the call came: `"auto"` for the client and the
SDK page, which ask again with force when the token they got has expired, `"forced"` for
the cron, `"direct"` for the 401 path, the status page and the refresh endpoint, which
go around the service and its lock. A 401 afterwards asks the service like any other call.

Refresh tokens are named after the call or authorisation that got them. With `Rotates`
the provider takes each one once (`spent`). `Faults` lets any database call fail as the
code handles it (no row, not stored, not marked), a call to the provider fail before or
after it took effect, and a process die. `lost` is a history variable: the spent tokens
whose replacement such a fault destroyed.

There is no action for a counted success: `_refresh_spotify_token` fails after every
refresh (see below), so lines 1517 to 1531 of the service and its own `upsert_token` are
never reached. The Google branch has no caller. Whether a given database schema accepts
what `upsert_token` sends is not modelled: both outcomes are possible.

### AccessSessions

The rows and the caches of `sessions_store.py`, one user, one access token for each
session. `mint` is where the login of a session is between `create_session` and the
token; `carries` is the version in its access token. A revocation (`call`) has one
action per statement: `revoke_family` selects the version, writes it plus one with
`revoked_at`, caches it; `increment_session_version` does the same without `revoked_at`;
`bump_session_version` increments in one statement, drops the cache entry, reads
again, caches; `revoke_all_user_sessions` selects the ids, updates every row, drops the
entries. `ProcessRestarts` forgets the caches and ends the calls of a process. `Present` is what
`get_current_user_id` does with a token: the verdict of `validate_session_token`, and
then the user of the token in every case. `closed` and `takenBack` are history variables.
`closed` has the tokens for which a revocation has taken effect. An increment or a bump
closes a token only if it has its version by then: one minted later carries the new
version, which is what the code intends. `takenBack` has the sessions whose row an
`increment_session_version` has overwritten although it was newer than what the call had
selected.

`increment_session_version` is the last step of `revoke_refresh_family`
(`token_store.py:475`), which the logouts (`auth/service.py:412` and `:496`,
`api/auth.py:1882` and `:1965`) and a replayed refresh token (`auth_refresh.py:466`) call.
The session id comes from `resolve_session_id`: with a session cookie it is the opaque id
of `session_store.py`, which is no row's, and the increment finds nothing
(`IncrementMisses`); the id of an `X-Session-ID` header or of a refresh token may be a row's.

### LlamaHealth

`_check_and_set_flag` from its begin to its end (`Begin`, `CheckSucceeds`,
`CheckFails`), the job it schedules, and the two early returns (`Throttled`), after
which *nothing* is scheduled. `job` is the time to the next run. Each clock counts from
its last event and stops at the limit it is compared with, so that time has no bound
and the state space has one. `last_success_ts` is the time a check began and the job
is set when it ends, so a job never comes due inside the throttle: that is the
whole reason why the chain goes on. `AskLlama` is guarded as the routers guard it.

### SpotifyConnect

`BeginConnect` is `put_tx` with its three outcomes: Redis has the transaction, the memory of
the worker has it, or both (Redis took it and the reply was lost). `PopGetdel` to
`PopMemory` are `pop_tx`: the client is synchronous, so the worker does nothing else
(`Free`), but the other workers do. The rest of the callback goes from `await` to
`await`: exchange of the code, profile, identity, fallback, token row. `copies` and
`handed` are history variables.

### MusicSockets

`add_connection` and `remove_connection` with the lock they hold while they await a
`close`, called by the handlers of `/v1/ws/music`. `shut` is the state of the socket,
`dead` what the manager believes. A handler whose manager task has not run when it looks
(`AddSkipped`) serves a connection that is in no registry.

### AsyncTtlCache, RequestDedup, VendorHealth

`AsyncTtlCache` is one key: `holder` and `waiters` are its `asyncio.Lock`, `Known` is the
pair of tests made before and inside the lock. `RequestDedup` is the id cache of
`DedupMiddleware`, with the use order of `cachetools.TTLCache`: `newer` says for each entry
which others were used after it, and the entry that as many are newer than as the cache
may hold gives way. A relation in place of the linked list of the library can be
reasoned about with sets alone. The history variables `since` and `others` are what an
observer of the requests alone can tell: how long ago an id was let in or its mark
renewed, and which other ids were used since its own last use. Only `Observe` and the
clock change them; they look neither at the entries nor at what gives way, so that they
can judge both. `VendorHealth` has `thread`, the one thread of the event loop: its endpoints
never await, so a request that waits for a `threading.Lock` stops all others.

### The composites

`MCOneWorker`, `MCThirdParty` and `MCServerParts` put components that share no state
into one run each. `part` is chosen at the start and never changes; it says which
component moves, and the others stay in an initial state. The state space is the sum and not the
product of theirs, and each property is about the component it is named after.
`MCServerParts` gives the fairness of each part to the part that moves. The components
are EXTENDed, so that a run checks the very definition a theorem is about: that is why
names that every module has carry a prefix in all but one module of a composite
(`SessionsInit`, `captureVars`, `LlamaNext`, `ConnectSpec`, `CacheTypeOK`, ...). In
`OneWorker.cfg` the requests, the operations, the revocations and three of the four
requests of the duplicate filter are the same model values, so that one group of
permutations serves all parts.

## 4. Runs

All fit in the memory and time of a laptop; the slowest takes three minutes.

| Run | Instance | Distinct states | Shows |
|---|---|---|---|
| one_worker | rotation: 3 requests, 1 worker, Redis up, all timers, restarts; capture: 3 operations of any kind, many processes, crashes; access: 1 session, 1 process, 3 revocations of any kind, restarts; duplicate filter: 4 requests, 3 ids, 2 entries, TTL of 2 ticks | 2 940 000 | `DeliveredIsAllowed`, implements `TokenFamily`; `StatusIsBacked`, `IdentityKept`; `ReopenedOnlyByOverwrite`; `OncePerWindow` |
| rotation_two_workers | 2 requests, 2 workers, Redis up, lock timers, restarts, fairness | 225 000 | `ClaimedOnce`, `RevocationHolds`, `DoneHoldsNoLock`; `LockIsFreed` |
| rotation_flaky_redis | 2 requests, 1 worker, any Redis call may fail, all timers | 2 060 000 | `OneInsideGuard`, `NoForeignRelease` |
| third_party | refresh: 3 calls, 2 processes, 2 authorisations, limit 2, all faults; store: 1 flow, 2 callbacks, 2 workers; link: 2 flows, 2 callbacks, 1 account | 2 770 000 | `OneRefreshPerProcess`, `TriesAreLimited`, `LockNotLeftBehind`, `SpentIsReplaced`; `TxOnce`, `StoredIsIdentified` |
| server_parts | guard: 5 requests, limits 1 and 2; capture: 3 operations, one process; llama: 2 checks, 3 streams, 1 outage; cache: 4 callers; music: 3 sockets | 83 000 | `AtMostLimit`, `NeverWaits`, `NothingLeftByOne`, implements `AtomicGuard`; `ErrorIsExplained`, `ProcessingEnds`; `ChecksGoOn`, `RecoveryIsNoticed`; `LoadsApart`, `WaitersAnswered`; `RegisteredIsServed`, `ShutHandlersEnd` |
| rotation_lock_across_workers | 2 requests, 2 workers | violated | `OneRotationPerSession` |
| rotation_use_limit | 3 requests, 1 worker | violated | `AtMostTwoUses` |
| capture_stale_save | 2 operations, one process | violated | `TranscriptionShows` |
| capture_torn_meta | 2 operations, one process, crashes | violated | `ListingAnswers` |
| token_kept | 3 calls, 1 process, no fault | violated | `KeptWhileRefreshable` |
| access_revoked | 1 session, 2 processes, 1 call | violated | `RevokedIsRefused` |
| vendor_status_hangs | 3 requests, 2 vendors | violated | `EveryRequestAnswered` |

Bounds. A race over one key needs the two parties of it; the third request or
operation is the one that arrives while the first two are in the middle of theirs,
or that takes a lock over after it ran out. Two workers are enough for one to lose
the Redis lock. Every request runs once, so a family of three requests sees at most
three rotations: enough for a token to be spent, replayed and re-used after the
grace period. Five requests at the guard fill the limit of two, wait on one lock
object and create the next one while the first is waited for. Three calls in two
processes are two that compete for a lock and one that shares only the row; the limit of
attempts is 2 instead of 3 so that three calls exhaust it.

Two revocations of one session are what it takes for `revoke_family` or an increment to
write a version that was bumped since it was selected; the third closes the token before
that write, so that the run has tokens that are really opened again. More sessions and
processes are the theorem's. One health check and one on demand overlap; the throttle is
2 ticks, the timeout 1, the back-off goes 1, 2, 4 = its limit, and three streams are
what opens the breaker. One outage is enough for a chain to fail, back off or throttle,
and recover. Four callers of the cache are one that loads, one that is next, one that is
cancelled, and one that comes later. Three ids and two entries make one id give way, and
the fourth request comes back with an id that has given way, or one that should not
have; three requests with one id are one that is let in, one that is refused, and one
that comes when the refusal must not count. Three sockets are a connection, its
successor, and the one whose arrival meets the clean-up of both. Two callbacks of one
flow in two workers compete for a transaction, those of two flows for an identity; a
second user would only add the refusal of `upsert_token`, which `DbFails` allows anyway.
The theorems of section 5 remove these bounds from most of the properties.

Deadlock checking is off where each request and operation runs once and the
behaviour ends when all have ended; only `access_revoked` has it on.

### The seven violated runs

1. `acquire_refresh_rotation_lock` falls through to the process-local lock when it
   finds the Redis lock *held*, not only when Redis fails (`token_store.py:253`). Two
   workers then rotate one session at the same time, contrary to
   `docs/race_condition_fix.md:108`. `ClaimedOnce` still holds: the claim is what
   remains between the two.
2. A use that needs no rotation writes the use count 1 (`auth_refresh.py:567`) after
   the replay check counted it up, so the "exactly 2 uses" of line 375 bound nothing:
   a token that needs no rotation is accepted any number of times.
3. `save_session` saves the dictionary it loaded before the uploads
   (`session_manager.py:87` and `:133`), undoing the status a transcription set.
4. `write_text` truncates (`session_store.py:381`); a process that dies there leaves
   an empty `meta.json`, and `list_sessions` raises for every session.
5. `_refresh_spotify_token` reads `refreshed_tokens.scopes` (`auth_store_tokens.py:1623`),
   which `SpotifyTokens` does not have, after the new token was stored. Every successful
   refresh is therefore counted as a failure and answered with `None`, and the third one
   in a process marks the token it has just stored as invalid.
6. `get_current_user_id` raises its refusal of a revoked token (`deps/user.py:576`) inside
   the `try` whose `except Exception` (line 581) is there for a store that cannot be
   asked. The refusal is logged and the user of the token is taken (line 588), contrary
   to the comment at line 573.
7. `get_all_vendor_health_info` holds `_vendor_health_lock` (`health.py:218`) while
   `get_vendor_health_info` takes it again (line 73). With one vendor tracked,
   `/v1/vendor-health` never answers, and since the endpoint runs on the event loop,
   neither does anything else in that process (`docs/ROUTING_MATRIX.md:65`).

### Observations without a run

No run shows these; either no text of the repository says otherwise, or a property says
what the code keeps in spite of them:

- `increment_session_version` is to "invalidate tokens" (`sessions_store.py:157`). It selects
  the version and writes it plus one (lines 163 and 175), whatever it is by then, and sets
  no `revoked_at`. Let it select version 1 of a session whose login goes on, a bump make it
  2, the login mint its token with 2, and the increment write 2: the token it was to
  invalidate is valid. With one more bump before that write the token is closed by then,
  and opened again. It takes a revocation that reaches the row before its login has read
  the version. So "once closed, closed for ever" does not hold, and
  `ReopenedOnlyByOverwrite` says that this write is the only way: neither `revoke_family`,
  which takes versions back as well, nor stale caches and restarts open a token, and one of
  version 1 stays closed even then.
- `remove_connection` (`ws_manager.py:165`) removes whatever is registered for the user. A
  client that connects again while its old handler is leaving, or replaces a connection
  that is still open, has its new connection closed by the clean-up of the old handler
  (`music_ws.py:674`). The registry and the lock survive it: `RegisteredIsServed` and
  `ShutHandlersEnd` hold all the same, because the handler of the closed successor ends
  like any other. That the successor lives on is what no property here says, since it is
  not so.
- With `JWT_MAX_CONCURRENT_REFRESHES=2` a waiter at the guard can outlive the dictionary
  entry of the lock it waits for; it then leaves through the early return of
  `_release_refresh_lock` (line 191) and its lock and count remain, which is why
  `NothingLeftByOne` speaks of the limit one only.
- Nothing calls `reset_refresh_attempts`, so the attempts of a user stay exhausted in a
  process after a new authorisation, and the next refresh there invalidates the new
  token untried. A disconnection during a refresh is undone by the upsert at its end.
- `tag_task` saves at its end the dictionary it loaded at its start (`tasks.py:122` and
  `:134`), and so always replaces the `DONE` or `ERROR` it has just set by
  `PROCESSING_GPT` and drops the error it appended. For this reason tags are not among
  the operations of the capture part of `server_parts`, whose two properties that rewrite
  breaks; they are in `one_worker`.
- The breaker of `llama_integration.py` does not close again. Three failing streams open
  it, the routers then choose another model, and its two minutes are looked at only in
  `ask_llama`, which nobody calls any more; only a stream that began before can still reset it.
- A logout with a session cookie revokes the refresh family of that cookie's id and
  increments no version (see section 3, AccessSessions), so that the access token is
  still valid in the table, where the docstring of `revoke_refresh_family`
  (`token_store.py:456`) says that the session is invalidated. Which id a request carries
  is not modelled; `IncrementMisses` is the case.
- The callback of Spotify does not look at what `upsert_token` returns: a token that
  could not be stored, for instance because another user has the account, still ends in
  the redirect that says "connected" (`api/spotify.py:1950`). The code that would
  fetch an identity inserted by somebody else (`api/spotify.py:554`) is never reached: the
  insert before it reports its refusal by returning, and the outer `except` reads a name
  that does not exist there. The fallback takes its place.
- A transaction that Redis refused is in the memory of one worker, and a callback that
  reaches another ends in `expired_txn`. When only the reply to `put_tx` was lost there are two
  copies, which is why `TxOnce` counts copies.
- A write with an `Idempotency-Key` does not renew the mark of its `X-Request-ID`
  (`middleware_core.py:312`), because every response that comes out of `call_next` is a stream.

### Fairness

- `RefreshRotation`: weak fairness of each request's steps (a coroutine that is ready
  is run, and store calls return or raise) and of `Expire` (a TTL runs out). Logins,
  logouts, arrivals and restarts are not fair. `LockIsFreed` needs the timer: a holder
  that died never releases.
- `CaptureSession`: weak fairness of `Work(a)`: a handler that runs, a thread that was
  joined and a job in the queue go on. Uploads, new requests and crashes are not fair.
- `LlamaHealth`: weak fairness of the scheduler (a due job is run), of the clock, and of
  the end of each request (each has a timeout). Nobody has to ask for the status or a
  stream, and the backend may stay down.
- `AsyncTtlCache`: weak fairness of `Progress(c)`: a loader returns or raises, a waiter
  whose turn it is resumes. Calls and cancellations are not fair.
- `MusicSockets`: weak fairness of `Handler(c)`: a close ends, a lock that is free is
  taken, a closed socket delivers its disconnect. asyncio wakes the waiters of a lock in
  their order, and each of the finitely many handlers takes it at most twice, so weak
  fairness is enough and no stronger than that order. Clients come and go as they like.
- `VendorHealth`: weak fairness of `Work(r)`: the event loop runs what it can run.
- `RefreshGuard`, `TokenRefresh`, `AccessSessions`, `RequestDedup` and `SpotifyConnect` state
  no liveness property and assume no fairness; `NothingLeftByOne` and `LockNotLeftBehind`
  are the safety side of "nobody waits for ever".

## 5. Proofs

All modules check with `tlapm`, no step left out. The assumptions are the named
ASSUMEs of the modules (kinds of constants, distinct names) and, where a theorem says
so, the mode it is about.

- `RefreshRotationProofs`: `TypeCorrect` and `GuardExclusion` for any requests,
  workers, modes, timers and restarts. `OneInsideGuard` is not inductive: the
  guard is a counter. The invariant adds that when a request is past the guard of
  its process, the counter of that process is 1.
  Assuming `SingleStore` (one worker and a single store that answers),
  `DeliveredStaysAllowed` and `ContractKept`, the refinement. The invariant
  `FamilyInv` says where a request stands relative to the one write that switches the
  family: before it, its token is still the current one (`StillAllowed`, which rests
  on the guard); after it, its token is spent and its own one is current or spent
  (`Accounted`, `Minted`). The lemma `StepKinds` sorts every action into the few
  kinds that matter to it.
  `LockReleasedByHolder` in every mode, from "the holder of a
  local lock is alive, in that process and at a place where it will release it"; for
  Redis up, `NoLockLeftBehind`, `ClaimIsExclusive` (a claim leaves a mark that is never
  removed) and `LogoutIsFinal` (a late request is never at a place past the revocation
  check).
- `RefreshGuardProofs`: types and `AtMostLimit` for any limit, from `Counted` (the count
  may be too high, never too low); `NeverWaits` and `NothingLeftByOne` for the limit one,
  from `Sequential` (no lock is waited for, and the locked lock is that of the one
  inside). `GuardContractKept` is the refinement of `AtomicGuard`, step by step: it needs
  `Counted` for an admission and `Sequential` for a refusal.
- `CaptureSessionProofs`: `StatusBacked` for any number of processes that may die.
  The invariant extends the property to every dictionary in anybody's hand, which is
  what makes stale rewrites harmless to it. `IdentityIsKept` needs that a broken file
  raises and is not taken for an empty dictionary. `ErrorExplained` for a single
  process: an operation in the second half of its except clause has just written the
  first. `ProcessingIsAttended` (one process that does not die, no tagging) is the safety
  side of `ProcessingEnds`. That whoever writes a processing status goes on to another
  rewrite does not suffice for it: a `load_meta` that raises ends the operation, so the
  invariant (`Attended`) must say that a file that cannot be read holds no status at all,
  and that no upload has such a status in hand.
- `TokenRefreshProofs`, for any numbers, faults and limit, and with or without rotation:
  types; `RefreshExclusion`, `LimitHolds` and `LockHasHolder` from one invariant
  (`LockInv`): the lock of a process is its one call past it, and a call that is trying
  was let through below the limit. `SpentTokensAreReplaced` needs that a token nobody
  has been given yet, or that only its call has in hand, is neither spent nor in the row
  nor used by anybody (`Unseen`); then the row can hold a spent token only between the
  exchange and the store of the call that spent it, or after a fault.
- `AccessSessionsProofs` (`Absent` is no number): `AccessTypeOK` and
  `OnlyOverwritesReopen`, for any sessions, processes and revocations at a time.
  `ReopenedOnlyByOverwrite` compares a token with a row that `revoke_family` and
  `increment_session_version` may take back to an older version, so the invariant
  (`VersionInv`) says that as long as a row has no `revoked_at` and was not overwritten
  by an increment that had read an older version (`Growing`), its version only grows and
  nothing that is known of it is ahead of it (`NothingIsAhead`): not the token, no
  cache, no version a call is about to cache. Then a closed token is behind its row
  (`ClosedIsBehind`); `revoke_family` sets `revoked_at` in the statement that takes a
  version back; and an increment that reads the newest version makes it grow. That no
  revocation leaves a row at version one (`PastTheFirst`) keeps the first tokens closed
  even where an increment overwrites.
- `LlamaHealthProofs` (the delays are numbers, the first no larger than the largest):
  `LlamaTypeOK` and `ChainNeverEnds`. A skipped job schedules nothing, so `ChecksGoOn`
  needs that a job that comes due is skipped only while a check is running, whose end
  schedules the next; the invariant (`ChainInv`) adds `JobOutlastsThrottle`: while no
  check is running, the job comes due no earlier than the throttle or the back-off ends.
- `SpotifyConnectProofs` (`Nil` is no user, and neither it nor `Unnamed` an account): types,
  `HandedOutOnce` and `IdentityBeforeToken`, for any flows, callbacks, workers and
  accounts. `TxOnce` counts what was handed out; its invariant (`TxInv`) counts what can
  still be: `CopiesAccounted` says that the hand-outs, the copy in Redis and the copy in a
  memory together are no more than were stored. Two things make that inductive. Only the
  worker of the connect has a copy (`OneMemory`). And the transaction that Redis deletes
  under WATCH still is the one that was read over another connection: a key that was not
  there when it was watched is not there later, because nobody stores a transaction twice
  (`UnwatchedIsGone`). `StoredIsIdentified` needs that every callback on its way to the
  token row has the identity behind it (`LinkedHasIdentity`), which lasts because no
  action takes an identity away.
- `ServerPartsProofs`:
  - cache (`Nobody` is no caller, the TTL a number): `CacheTypeCorrect`, which says that
    the lock is held by exactly the caller that loads and that nobody waits twice, and
    `LoadsAreApart`, from `Spaced`: a load that ended less than a TTL ago has left a
    value or an error that lasts as long as the load is recent.
  - duplicate filter (limit and TTL are at least one, as the code clamps them):
    `DedupTypeCorrect`, from `OrderInv`. That the entries never exceed the limit rests
    on there always being an oldest one to give way, which `OldestExists` proves of any
    finite set ordered like the entries, and on its being the only one that does.
    `LetInOncePerWindow` follows from `WindowInv`, which ties the cache to what was
    observed: the time left of an entry and the time since its mark make up the TTL,
    what is newer in the cache was used since, and an id without an entry has no window
    or has had as many others used since as the cache may hold. The last one needs that
    the entry that gives way is one with that many newer ones.
  - music sockets (`NoSocket` is no socket): `MusicTypeCorrect` (the lock is held by
    exactly the handler that closes a connection) and `RegisteredHaveHandlers`, from
    `MusicInv`: what the lock holder closes is what is registered, and the handler of the
    registered connection is serving or on its way to its own clean-up.

Every invariant and action property of a passing run is stated by a theorem. Only
model-checked are

- the liveness properties (`LockIsFreed`, `ProcessingEnds`, `RecoveryIsNoticed`,
  `WaitersAnswered`, `ShutHandlersEnd`), which are out of the prover's reach. What their
  safety sides say is proved: a lock belongs to somebody alive who will release it
  (`LockReleasedByHolder`, `CacheTypeCorrect`, `MusicTypeCorrect`), the chain of checks is
  never without a next one (`ChainNeverEnds`), a processing status has a worker
  (`ProcessingIsAttended`);
- everything the violated runs show.

## 6. Not modelled

- Rotation: the resolution of the family key from several cookies
  (`resolve_session_id`), and in `RefreshRotation` the version increment of
  `revoke_refresh_family`, which is part of `AccessSessions`; the long TTLs of the
  allowed and used jtis and the leeway in decoding; cancellation of a handler by a
  client that disconnects; the legacy format of the last-use key;
  `check_replay_protection(claim=True)`, which the rotation does not use; the lazy
  refresh wrapper in `deps/user.py`.
- Capture: media files, summaries, history and analytics records; errors of the disk
  other than a crash; `search_sessions` and `archive_old_sessions`, which nothing
  calls; `_background_transcribe`, which does not touch `meta.json`.
- Third-party tokens: `_bearer_token_only`, the Google branch of the service, scopes and
  identities, encryption, the API requests themselves.
- Spotify connection: the file in which the transaction store is kept in development,
  the short cuts for test clients, the look-up of a PKCE challenge by session (the states
  of `/connect` carry no session), refusals of the request before the state is decoded.
- Access sessions: devices and their names, `last_seen`, the listing; refresh families are
  those of `RefreshRotation`, and the two writes of `revoke_refresh_family`, to the family and
  to the row, are modelled apart, each in its module.
- Health of the local model: `LLAMA_ENABLED=0` and a missing model name, which end the
  chain at start-up on purpose; the limit of two streams at a time; a scheduler that
  misses a job by so long that it drops it.
- WebSockets: the commands a music connection carries and their cache of results;
  `start()` and `stop()` of the manager with heartbeat and clean-up, which nothing calls;
  the other WebSocket endpoint of the application, which does not use the manager.
- Duplicate filter: the idempotency store, which is never read and, since every response
  is a stream, never written. Vendor health: the recording of failures, which nothing
  calls.
- Care: at this commit an alert cannot be stored (the insert of `create_alert` does not
  fit the table), so no acknowledgement, resolution or SMS follows, and
  `care_daemons.py:23` raises in every round because it makes a `float` of a timestamp. A
  model of what would happen next would describe a program nobody has run.
- `music/circuit.py` and `middleware/idempotency.py` are not used by the application.
- Device pairing codes are read and then deleted (`device_tokens.py:57`), two commands
  that two devices can interleave; a model would repeat the two lines and no more.
- The Google connection (`api/google_oauth.py`).
- Left out for good: prompt routing, skills, memory and vector stores (decisions over
  text and embeddings), rate limits and CSRF (single-step counters and comparisons),
  cookies, configuration, start-up and metrics (formatting and input), the front end
  and migrations.

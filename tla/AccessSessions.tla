----------------------------- MODULE AccessSessions -----------------------------
(***************************************************************************)
(* The access side of a login: the sessions table of app/sessions_store.py *)
(* with its per-process version cache and JTI blacklist, the minting of an *)
(* access token that carries (sid, sess_ver), the calls that revoke it and *)
(* the check get_current_user_id makes of it (app/deps/user.py).           *)
(*                                                                         *)
(* One user, one access token per session, several worker processes on one *)
(* database.  A statement of the database is one action, and so is what a  *)
(* coroutine does between two awaits.                                      *)
(***************************************************************************)
EXTENDS Naturals

CONSTANTS
  Sessions,   \* the session ids the user's logins create
  Processes,    \* the worker processes
  Calls,      \* the revocation calls
  Absent      \* no row, no token, no cache entry, no answer yet

VARIABLES
  ver,        \* sessions.sess_ver of the row, Absent before create_session
  revokedAt,  \* the rows that have a revoked_at
  cached,     \* worker -> session -> _version_cache, Absent when gone or expired
  black,      \* worker -> the sessions whose token is in _jti_blacklist_cache
  mint,       \* session -> [at, on]: where its login is, and in which worker
  carries,    \* session -> the sess_ver its access token carries
  call,       \* call -> [at, kind, ids, on, read]: a revocation and its locals
  answer,     \* the last presentation of a token: [sid, verdict, entered]
  closed,     \* history: the sessions whose token a revocation has closed
  takenBack   \* history: the sessions whose row an increment_session_version has
              \*   overwritten with a version no newer than the one that was there

sessionsVars == <<ver, revokedAt, cached, black, mint, carries, call, answer, closed, takenBack>>

Revocations == {"family", "increment", "bump", "all"}
Refusals == {"session.revoked", "session.version_mismatch", "token.blacklisted"}
Versions == Nat \cup {Absent}
Homes == Processes \cup {Absent}

SessionsTypeOK ==
  /\ ver \in [Sessions -> Versions]
  /\ revokedAt \in SUBSET Sessions
  /\ cached \in [Processes -> [Sessions -> Versions]]
  /\ black \in [Processes -> SUBSET Sessions]
  /\ mint \in [Sessions -> [at : {"start", "created", "read", "minted", "lost"}, on : Homes]]
  /\ carries \in [Sessions -> Versions]
  /\ call \in [Calls -> [at : {"idle", "selected", "written", "reread", "done"},
                         kind : Revocations, ids : SUBSET Sessions, on : Homes, read : Versions]]
  /\ answer \in {Absent} \cup [sid : Sessions, verdict : Refusals \cup {"valid", "error"},
                             entered : BOOLEAN]
  /\ closed \in SUBSET Sessions
  /\ takenBack \in SUBSET Sessions

NoCall == [at |-> "idle", kind |-> "all", ids |-> {}, on |-> Absent, read |-> Absent]

SessionsInit ==
  /\ ver = [s \in Sessions |-> Absent]
  /\ revokedAt = {}
  /\ cached = [w \in Processes |-> [s \in Sessions |-> Absent]]
  /\ black = [w \in Processes |-> {}]
  /\ mint = [s \in Sessions |-> [at |-> "start", on |-> Absent]]
  /\ carries = [s \in Sessions |-> Absent]
  /\ call = [c \in Calls |-> NoCall]
  /\ answer = Absent
  /\ closed = {}
  /\ takenBack = {}

Rows == {s \in Sessions : ver[s] # Absent}

\* A revocation of the rows S takes effect: the tokens that have their version by
\* now are closed.  One minted later carries the new version.
Closing(S) == closed' = closed \cup {s \in S : carries[s] # Absent}

\* revoked_at refuses the later ones, too.
ClosingAll(S) == closed' = closed \cup S

-------------------------------------------------------------------------------
(* A login, an OAuth finish or a refresh: create_session, then             *)
(* get_session_version of the fresh sid, then the token.                   *)

\* The row is inserted with sess_ver 1.
CreateSession(s, w) ==
  /\ mint[s].at = "start"
  /\ mint' = [mint EXCEPT ![s] = [at |-> "created", on |-> w]]
  /\ ver' = [ver EXCEPT ![s] = 1]
  /\ UNCHANGED <<revokedAt, cached, black, carries, call, answer, closed, takenBack>>

\* The version is in the cache of the process: no await, the token is minted.
MintFromCache(s) ==
  LET known == cached[mint[s].on][s] IN
  /\ mint[s].at = "created"
  /\ known # Absent
  /\ mint' = [mint EXCEPT ![s].at = "minted"]
  /\ carries' = [carries EXCEPT ![s] = known]
  /\ UNCHANGED <<ver, revokedAt, cached, black, call, answer, closed, takenBack>>

\* It is not: the row is read.
MintRead(s) ==
  /\ mint[s].at = "created"
  /\ cached[mint[s].on][s] = Absent
  /\ mint' = [mint EXCEPT ![s].at = "read"]
  /\ carries' = [carries EXCEPT ![s] = ver[s]]
  /\ UNCHANGED <<ver, revokedAt, cached, black, call, answer, closed, takenBack>>

\* The version read is cached and the token is minted with it.
MintDone(s) ==
  /\ mint[s].at = "read"
  /\ mint' = [mint EXCEPT ![s].at = "minted"]
  /\ cached' = [cached EXCEPT ![mint[s].on][s] = carries[s]]
  /\ UNCHANGED <<ver, revokedAt, black, carries, call, answer, closed, takenBack>>

-------------------------------------------------------------------------------
(* The revocations.                                                        *)

Advance(c, from, to) ==
  /\ call[c].at = from
  /\ call' = [call EXCEPT ![c].at = to]

Start(c, k, w, ids, read, at) ==
  /\ call[c].at = "idle"
  /\ call' = [call EXCEPT ![c] = [at |-> at, kind |-> k, ids |-> ids, on |-> w, read |-> read]]

\* revoke_family: the version is selected.
FamilySelect(c, w, s) ==
  /\ Start(c, "family", w, {s}, ver[s], "selected")
  /\ s \in Rows
  /\ UNCHANGED <<ver, revokedAt, cached, black, mint, carries, answer, closed, takenBack>>

\* Mutant: the version goes up as in increment_session_version, without revoked_at.
FamilyWriteVersionOnly(c, s) ==
  /\ Advance(c, "selected", "written")
  /\ call[c].kind = "family" /\ s \in call[c].ids
  /\ ver' = [ver EXCEPT ![s] = call[c].read + 1]
  /\ ClosingAll({s})
  /\ UNCHANGED <<revokedAt, cached, black, mint, carries, answer, takenBack>>

\* revoked_at is set, and sess_ver becomes the selected version plus one: a
\* version that was bumped in between may step back.
FamilyWrite(c, s) ==
  /\ Advance(c, "selected", "written")
  /\ call[c].kind = "family" /\ s \in call[c].ids
  /\ ver' = [ver EXCEPT ![s] = call[c].read + 1]
  /\ revokedAt' = revokedAt \cup {s}
  /\ ClosingAll({s})
  /\ UNCHANGED <<cached, black, mint, carries, answer, takenBack>>

\* The new version is cached in this process.
FamilyCache(c, s) ==
  /\ Advance(c, "written", "done")
  /\ call[c].kind = "family" /\ s \in call[c].ids
  /\ cached' = [cached EXCEPT ![call[c].on][s] = call[c].read + 1]
  /\ UNCHANGED <<ver, revokedAt, black, mint, carries, answer, closed, takenBack>>

\* increment_session_version, the last step of revoke_refresh_family (a logout, a
\* replayed refresh token): the version is selected, and a sid without a row ends it.
IncrementSelect(c, w, s) ==
  /\ Start(c, "increment", w, {s}, ver[s], "selected")
  /\ s \in Rows
  /\ UNCHANGED <<ver, revokedAt, cached, black, mint, carries, answer, closed, takenBack>>

IncrementMisses(c, w) ==
  /\ Start(c, "increment", w, {}, Absent, "done")
  /\ UNCHANGED <<ver, revokedAt, cached, black, mint, carries, answer, closed, takenBack>>

\* sess_ver becomes the selected version plus one, whatever it is by now.
IncrementWrite(c, s) ==
  /\ Advance(c, "selected", "written")
  /\ call[c].kind = "increment" /\ s \in call[c].ids
  /\ ver' = [ver EXCEPT ![s] = call[c].read + 1]
  /\ Closing({s})
  /\ takenBack' = IF call[c].read < ver[s] THEN takenBack \cup {s} ELSE takenBack
  /\ UNCHANGED <<revokedAt, cached, black, mint, carries, answer>>

\* The new version is cached in this process.
IncrementCache(c, s) ==
  /\ Advance(c, "written", "done")
  /\ call[c].kind = "increment" /\ s \in call[c].ids
  /\ cached' = [cached EXCEPT ![call[c].on][s] = call[c].read + 1]
  /\ UNCHANGED <<ver, revokedAt, black, mint, carries, answer, closed, takenBack>>

\* bump_session_version: sess_ver + 1 in one statement.
BumpWrite(c, w, s) ==
  /\ Start(c, "bump", w, {s}, Absent, "written")
  /\ s \in Rows
  /\ ver' = [ver EXCEPT ![s] = @ + 1]
  /\ Closing({s})
  /\ UNCHANGED <<revokedAt, cached, black, mint, carries, answer, takenBack>>

\* The cache entry is dropped and the version is read again ...
BumpReread(c, s) ==
  /\ call[c].at = "written" /\ call[c].kind = "bump" /\ s \in call[c].ids
  /\ call' = [call EXCEPT ![c].at = "reread", ![c].read = ver[s]]
  /\ cached' = [cached EXCEPT ![call[c].on][s] = Absent]
  /\ UNCHANGED <<ver, revokedAt, black, mint, carries, answer, closed, takenBack>>

\* ... and cached.
BumpCache(c, s) ==
  /\ Advance(c, "reread", "done")
  /\ s \in call[c].ids
  /\ cached' = [cached EXCEPT ![call[c].on][s] = call[c].read]
  /\ UNCHANGED <<ver, revokedAt, black, mint, carries, answer, closed, takenBack>>

\* revoke_all_user_sessions: the ids of the user's rows are selected ...
AllSelect(c, w) ==
  /\ Start(c, "all", w, Rows, Absent, "selected")
  /\ UNCHANGED <<ver, revokedAt, cached, black, mint, carries, answer, closed, takenBack>>

\* ... one statement revokes every row the user has by now ...
AllWrite(c) ==
  /\ Advance(c, "selected", "written")
  /\ call[c].kind = "all"
  /\ ver' = [s \in Sessions |-> IF s \in Rows THEN ver[s] + 1 ELSE Absent]
  /\ revokedAt' = revokedAt \cup Rows
  /\ ClosingAll(Rows)
  /\ UNCHANGED <<cached, black, mint, carries, answer, takenBack>>

\* ... and the entries of the selected ones are dropped.
AllInvalidate(c) ==
  /\ Advance(c, "written", "done")
  /\ call[c].kind = "all"
  /\ cached' = [cached EXCEPT ![call[c].on] =
                  [s \in Sessions |-> IF s \in call[c].ids THEN Absent ELSE @[s]]]
  /\ UNCHANGED <<ver, revokedAt, black, mint, carries, answer, closed, takenBack>>

\* The database fails before the commit: the call ends, and revoke answers 204.
Fail(c) ==
  /\ Advance(c, "selected", "done")
  /\ UNCHANGED <<ver, revokedAt, cached, black, mint, carries, answer, closed, takenBack>>

\* blacklist_jti: known to this process only.
Blacklist(w, s) ==
  /\ mint[s].at = "minted"
  /\ black' = [black EXCEPT ![w] = @ \cup {s}]
  /\ UNCHANGED <<ver, revokedAt, cached, mint, carries, call, answer, closed, takenBack>>

-------------------------------------------------------------------------------
(* Presenting a token.                                                      *)

\* Mutant: a version mismatch is given a reason get_current_user_id does not know.
VerdictUnknown(w, s) ==
  CASE s \in revokedAt -> "session.revoked"
    [] s \notin revokedAt /\ ver[s] # carries[s] -> "session.not_found"
    [] s \notin revokedAt /\ ver[s] = carries[s] ->
         IF s \in black[w] THEN "token.blacklisted" ELSE "valid"

\* validate_session_token: the row, then the blacklist of this process.
Verdict(w, s) ==
  CASE s \in revokedAt -> "session.revoked"
    [] s \notin revokedAt /\ ver[s] # carries[s] -> "session.version_mismatch"
    [] s \notin revokedAt /\ ver[s] = carries[s] ->
         IF s \in black[w] THEN "token.blacklisted" ELSE "valid"

\* get_current_user_id: a refusal is raised as unauthorized inside the try whose
\* except catches every Exception, so the token's user is taken all the same.
Present(w, s) ==
  /\ mint[s].at = "minted"
  /\ answer' = [sid |-> s, verdict |-> Verdict(w, s), entered |-> TRUE]
  /\ UNCHANGED <<ver, revokedAt, cached, black, mint, carries, call, closed, takenBack>>

\* The store cannot be asked: fail open.
PresentBlind(s) ==
  /\ mint[s].at = "minted"
  /\ answer' = [sid |-> s, verdict |-> "error", entered |-> TRUE]
  /\ UNCHANGED <<ver, revokedAt, cached, black, mint, carries, call, closed, takenBack>>

-------------------------------------------------------------------------------
(* Time and crashes.                                                        *)

\* _cache_ttl_seconds have passed.
VersionExpires(w, s) ==
  /\ cached[w][s] # Absent
  /\ cached' = [cached EXCEPT ![w][s] = Absent]
  /\ UNCHANGED <<ver, revokedAt, black, mint, carries, call, answer, closed, takenBack>>

\* _jti_cache_ttl_seconds have passed, or the clean-up of ttl_seconds ran.
BlacklistExpires(w, s) ==
  /\ s \in black[w]
  /\ black' = [black EXCEPT ![w] = @ \ {s}]
  /\ UNCHANGED <<ver, revokedAt, cached, mint, carries, call, answer, closed, takenBack>>

\* A worker restarts: its caches are gone, and so are the calls it was running.
ProcessRestarts(w) ==
  /\ cached' = [cached EXCEPT ![w] = [s \in Sessions |-> Absent]]
  /\ black' = [black EXCEPT ![w] = {}]
  /\ mint' = [s \in Sessions |->
       IF mint[s].on = w /\ mint[s].at \in {"created", "read"}
       THEN [mint[s] EXCEPT !.at = "lost"] ELSE mint[s]]
  /\ call' = [c \in Calls |->
       IF call[c].on = w THEN [call[c] EXCEPT !.at = "done"] ELSE call[c]]
  /\ UNCHANGED <<ver, revokedAt, carries, answer, closed, takenBack>>

OpenSession == \E s \in Sessions :
  \/ \E w \in Processes : CreateSession(s, w)
  \/ MintFromCache(s) \/ MintRead(s) \/ MintDone(s)

Revoke == \E c \in Calls :
  \/ \E s \in Sessions :
       \/ \E w \in Processes : FamilySelect(c, w, s) \/ IncrementSelect(c, w, s) \/ BumpWrite(c, w, s)
       \/ FamilyWrite(c, s) \/ FamilyCache(c, s) \/ IncrementWrite(c, s) \/ IncrementCache(c, s)
       \/ BumpReread(c, s) \/ BumpCache(c, s)
  \/ \E w \in Processes : AllSelect(c, w) \/ IncrementMisses(c, w)
  \/ AllWrite(c) \/ AllInvalidate(c) \/ Fail(c)

Environment == \E w \in Processes :
  \/ ProcessRestarts(w)
  \/ \E s \in Sessions :
       \/ Blacklist(w, s) \/ BlacklistExpires(w, s) \/ VersionExpires(w, s)
       \/ Present(w, s) \/ PresentBlind(s)

SessionsNext == OpenSession \/ Revoke \/ Environment

SessionsSpec == SessionsInit /\ [][SessionsNext]_sessionsVars

-------------------------------------------------------------------------------
(* "Increment the session version to invalidate tokens"                     *)
(* (sessions_store.py:157): a token that a revocation has closed is refused *)
(* by the sessions table ever after, with one exception that the code has.  *)
(* An increment_session_version may write over a version newer than the one *)
(* it had selected, and so accept again a token minted after an earlier     *)
(* revocation of its session.  revoke_family takes versions back as well,   *)
(* and that, restarts and stale caches of several processes are harmless.   *)
ReopenedOnlyByOverwrite ==
  \A s \in closed :
    s \notin revokedAt /\ ver[s] = carries[s] => s \in takenBack /\ carries[s] > 1

(* "Return unauthorized for session validation failures"                    *)
(* (deps/user.py:573): a token the store has just refused is not let in.    *)
RevokedIsRefused ==
  answer # Absent => ~(answer.verdict \in Refusals /\ answer.entered)
=============================================================================

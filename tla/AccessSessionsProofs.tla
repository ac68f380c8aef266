-------------------------- MODULE AccessSessionsProofs --------------------------
(***************************************************************************)
(* ReopenedOnlyByOverwrite, for every number of sessions, workers and      *)
(* calls.                                                                  *)
(*                                                                         *)
(* As long as its row has no revoked_at and no increment_session_version   *)
(* has taken it back, the version of a session only grows: the token, the  *)
(* caches and the versions that calls are about to cache are never ahead   *)
(* of the row.  revoke_family may take the version back, but it sets       *)
(* revoked_at in the same statement.                                       *)
(***************************************************************************)
EXTENDS AccessSessions, TLAPS

\* A row comes with its login, and nothing is known of a session without one.
RowsComeFirst ==
  \A s \in Sessions :
    /\ mint[s].at = "start" <=> ver[s] = Absent
    /\ mint[s].at = "created" => mint[s].on \in Processes
    /\ mint[s].at \in {"start", "created"} => carries[s] = Absent
    /\ ver[s] = Absent => s \notin revokedAt \cup closed \cup takenBack

\* A call is about rows, and carries a version when its next step needs one.
CallsAreAboutRows ==
  \A c \in Calls :
    /\ call[c].kind # "all" => \A s, t \in call[c].ids : s = t
    /\ call[c].at \in {"selected", "written", "reread"} => call[c].ids \subseteq Rows
    /\ call[c].at \in {"selected", "written"} /\ call[c].kind \in {"family", "increment"}
         => call[c].read \in Nat \ {0}
    /\ call[c].at = "written" /\ call[c].kind = "family" => call[c].ids \subseteq revokedAt
    /\ call[c].at = "reread" => call[c].read \in Nat

\* The sessions whose version has only grown.
Growing == Sessions \ (revokedAt \cup takenBack)

\* What is known of a session whose version only grows is not ahead of its row.
NotAhead(v, s) == v # Absent => ver[s] # Absent /\ v <= ver[s]

NothingIsAhead ==
  \A s \in Growing :
    /\ NotAhead(carries[s], s)
    /\ \A w \in Processes : NotAhead(cached[w][s], s)
    /\ \A c \in Calls : s \in call[c].ids =>
         /\ call[c].at = "reread" => NotAhead(call[c].read, s)
         /\ call[c].at = "written" /\ call[c].kind = "increment" => NotAhead(call[c].read + 1, s)

\* A token that was closed there has fallen behind its row.
ClosedIsBehind ==
  \A s \in closed \cap Growing : carries[s] # Absent /\ ver[s] # Absent /\ carries[s] < ver[s]

\* Rows start at one, and a revocation leaves no row there.
PastTheFirst ==
  \A s \in Sessions :
    /\ ver[s] # Absent => ver[s] >= 1
    /\ s \in closed => ver[s] >= 2

VersionInv ==
  /\ SessionsTypeOK
  /\ RowsComeFirst
  /\ CallsAreAboutRows
  /\ NothingIsAhead
  /\ ClosedIsBehind
  /\ PastTheFirst

-------------------------------------------------------------------------------
(* Absent stands for what is absent: it is no version.                       *)

\* Nothing is known of a session that has no login yet.
LEMMA InitHolds ==
  ASSUME Absent \notin Nat
  PROVE  SessionsInit => VersionInv
BY DEF SessionsInit, VersionInv, SessionsTypeOK, RowsComeFirst, CallsAreAboutRows,
       NothingIsAhead, NotAhead, Growing, ClosedIsBehind, PastTheFirst, NoCall, Rows, Versions,
       Homes, Revocations

\* The steps that write the row of a session, or take its token.
LEMMA CreateKeeps ==
  ASSUME Absent \notin Nat, VersionInv, NEW s \in Sessions, NEW w \in Processes, CreateSession(s, w)
  PROVE  VersionInv'
<1> USE DEF VersionInv, CreateSession, Growing
<1>1. SessionsTypeOK'
  BY DEF SessionsTypeOK, Versions, Homes
<1>2. RowsComeFirst'
  BY DEF SessionsTypeOK, RowsComeFirst
<1>3. Rows \subseteq Rows'
  BY DEF SessionsTypeOK, Rows
<1>4. CallsAreAboutRows'
  BY <1>3 DEF CallsAreAboutRows
<1>5. ver[s] = Absent
  BY DEF RowsComeFirst
<1>6. NothingIsAhead'
  <2>1. \A c \in Calls : call[c].at \in {"reread", "written"} => s \notin call[c].ids
    BY <1>5 DEF CallsAreAboutRows, Rows
  <2> QED
    BY <1>5, <2>1 DEF NothingIsAhead, NotAhead, RowsComeFirst, SessionsTypeOK
<1>7. ClosedIsBehind'
  BY <1>5 DEF ClosedIsBehind, SessionsTypeOK
<1>8. PastTheFirst'
  BY <1>5 DEF PastTheFirst, RowsComeFirst, SessionsTypeOK
<1> QED
  BY <1>1, <1>2, <1>4, <1>6, <1>7, <1>8

\* A token is minted with the version of the row or an older one.
LEMMA MintKeeps ==
  ASSUME Absent \notin Nat, VersionInv, NEW s \in Sessions,
         MintFromCache(s) \/ MintRead(s) \/ MintDone(s)
  PROVE  VersionInv'
<1> USE DEF VersionInv, MintFromCache, MintRead, MintDone, Growing
<1>1. SessionsTypeOK'
  <2>1. CASE MintFromCache(s)
    <3>1. mint[s].on \in Processes
      BY <2>1 DEF RowsComeFirst
    <3>2. cached[mint[s].on][s] \in Versions
      BY <3>1 DEF SessionsTypeOK
    <3> QED
      BY <2>1, <3>2 DEF SessionsTypeOK
  <2>2. CASE MintRead(s)
    BY <2>2 DEF SessionsTypeOK
  <2>3. CASE MintDone(s)
    BY <2>3 DEF SessionsTypeOK
  <2> QED
    BY <2>1, <2>2, <2>3
<1>2. RowsComeFirst'
  BY DEF SessionsTypeOK, RowsComeFirst
<1>3. CallsAreAboutRows'
  BY DEF CallsAreAboutRows, Rows
<1>4. NothingIsAhead'
  <2>1. CASE MintFromCache(s)
    <3>1. mint[s].on \in Processes
      BY <2>1 DEF RowsComeFirst
    <3>2. s \in Growing => NotAhead(cached[mint[s].on][s], s)
      BY <3>1 DEF NothingIsAhead
    <3> QED
      BY <2>1, <3>2 DEF NothingIsAhead, NotAhead, SessionsTypeOK
  <2>2. CASE MintRead(s)
    BY <2>2 DEF NothingIsAhead, NotAhead, SessionsTypeOK, Versions, RowsComeFirst
  <2>3. CASE MintDone(s)
    BY <2>3 DEF NothingIsAhead, NotAhead, SessionsTypeOK, Versions
  <2> QED
    BY <2>1, <2>2, <2>3
<1>5. ClosedIsBehind' /\ PastTheFirst'
  BY DEF ClosedIsBehind, NothingIsAhead, NotAhead, SessionsTypeOK, Versions, RowsComeFirst,
         PastTheFirst
<1> QED
  BY <1>1, <1>2, <1>3, <1>4, <1>5

\* revoke_family.
LEMMA FamilyKeeps ==
  ASSUME Absent \notin Nat, VersionInv, NEW c \in Calls, NEW s \in Sessions,
         \/ \E w \in Processes : FamilySelect(c, w, s)
         \/ FamilyWrite(c, s) \/ FamilyCache(c, s)
  PROVE  VersionInv'
<1> USE DEF VersionInv, Start, Advance, Closing, ClosingAll, Growing
<1>1. CASE \E w \in Processes : FamilySelect(c, w, s)
  <2> PICK w \in Processes : FamilySelect(c, w, s)
    BY <1>1
  <2> USE DEF FamilySelect
  <2>1. SessionsTypeOK'
    BY DEF SessionsTypeOK, Versions, Homes, Revocations
  <2>2. RowsComeFirst' /\ ClosedIsBehind' /\ PastTheFirst'
    BY DEF RowsComeFirst, ClosedIsBehind, PastTheFirst
  <2>3. CallsAreAboutRows'
    BY DEF CallsAreAboutRows, PastTheFirst, Rows, SessionsTypeOK, Versions
  <2>4. NothingIsAhead'
    BY DEF NothingIsAhead, NotAhead, SessionsTypeOK
  <2> QED
    BY <2>1, <2>2, <2>3, <2>4
<1>2. CASE FamilyWrite(c, s)
  <2> USE <1>2 DEF FamilyWrite
  <2>1. call[c].read + 1 \in Nat /\ call[c].read + 1 >= 2 /\ s \in Rows
    BY DEF CallsAreAboutRows
  <2>2. SessionsTypeOK'
    BY <2>1 DEF SessionsTypeOK, Versions
  <2>3. RowsComeFirst'
    BY <2>1 DEF RowsComeFirst, SessionsTypeOK, Rows
  <2>4. Rows' = Rows
    BY <2>1 DEF SessionsTypeOK, Rows
  <2>5. CallsAreAboutRows'
    BY <2>4 DEF CallsAreAboutRows, SessionsTypeOK
  <2>6. NothingIsAhead'
    BY DEF NothingIsAhead, NotAhead, SessionsTypeOK
  <2>7. ClosedIsBehind'
    BY DEF ClosedIsBehind, SessionsTypeOK
  <2>8. PastTheFirst'
    BY <2>1 DEF PastTheFirst, SessionsTypeOK
  <2> QED
    BY <2>2, <2>3, <2>5, <2>6, <2>7, <2>8
<1>3. CASE FamilyCache(c, s)
  <2> USE <1>3 DEF FamilyCache
  <2>1. call[c].read + 1 \in Nat /\ s \in revokedAt
    BY DEF CallsAreAboutRows
  <2>2. SessionsTypeOK'
    BY <2>1 DEF SessionsTypeOK, Versions
  <2>3. RowsComeFirst' /\ ClosedIsBehind' /\ PastTheFirst'
    BY DEF RowsComeFirst, ClosedIsBehind, PastTheFirst
  <2>4. CallsAreAboutRows'
    BY DEF CallsAreAboutRows, Rows, SessionsTypeOK
  <2>5. NothingIsAhead'
    BY <2>1 DEF NothingIsAhead, NotAhead, SessionsTypeOK
  <2> QED
    BY <2>2, <2>3, <2>4, <2>5
<1> QED
  BY <1>1, <1>2, <1>3

\* increment_session_version.  Unless the row is newer than what was selected, the
\* version grows.
LEMMA IncrementKeeps ==
  ASSUME Absent \notin Nat, VersionInv, NEW c \in Calls, NEW s \in Sessions,
         \/ \E w \in Processes : IncrementSelect(c, w, s)
         \/ IncrementWrite(c, s) \/ IncrementCache(c, s)
  PROVE  VersionInv'
<1> USE DEF VersionInv, Start, Advance, Closing, Growing
<1>1. CASE \E w \in Processes : IncrementSelect(c, w, s)
  <2> PICK w \in Processes : IncrementSelect(c, w, s)
    BY <1>1
  <2> USE DEF IncrementSelect
  <2>1. SessionsTypeOK'
    BY DEF SessionsTypeOK, Versions, Homes, Revocations
  <2>2. RowsComeFirst' /\ ClosedIsBehind' /\ PastTheFirst'
    BY DEF RowsComeFirst, ClosedIsBehind, PastTheFirst
  <2>3. CallsAreAboutRows'
    BY DEF CallsAreAboutRows, PastTheFirst, Rows, SessionsTypeOK, Versions
  <2>4. NothingIsAhead'
    BY DEF NothingIsAhead, NotAhead, SessionsTypeOK
  <2> QED
    BY <2>1, <2>2, <2>3, <2>4
<1>2. CASE IncrementWrite(c, s)
  <2> USE <1>2 DEF IncrementWrite
  <2>1. /\ call[c].read \in Nat /\ call[c].read + 1 >= 2
        /\ ver[s] \in Nat
    BY DEF CallsAreAboutRows, Rows, SessionsTypeOK, Versions
  <2>2. SessionsTypeOK'
    <3>1. takenBack' \in SUBSET Sessions
      BY DEF SessionsTypeOK
    <3>2. ver' \in [Sessions -> Versions] /\ closed' \in SUBSET Sessions
      BY <2>1 DEF SessionsTypeOK, Versions
    <3>3. call' \in [Calls -> [at : {"idle", "selected", "written", "reread", "done"},
                              kind : Revocations, ids : SUBSET Sessions, on : Homes,
                              read : Versions]]
      BY DEF SessionsTypeOK
    <3>4. UNCHANGED <<revokedAt, cached, black, mint, carries, answer>>
      OBVIOUS
    <3> HIDE <1>2
    <3> QED
      BY <3>1, <3>2, <3>3, <3>4 DEF SessionsTypeOK
  <2>3. RowsComeFirst'
    BY <2>1 DEF RowsComeFirst, SessionsTypeOK
  <2>4. Rows' = Rows
    BY <2>1 DEF SessionsTypeOK, Rows
  <2>5. CallsAreAboutRows'
    BY <2>4 DEF CallsAreAboutRows, SessionsTypeOK
  <2>6. Growing' \subseteq Growing /\ (s \in Growing' => ver[s] < call[c].read + 1)
    BY <2>1
  <2>7. \A v \in Versions, t \in Growing' : NotAhead(v, t) => NotAhead(v, t)'
    BY <2>1, <2>6 DEF NotAhead, SessionsTypeOK, Versions
  <2>8. NothingIsAhead'
    <3>1. \A t \in Growing' : NotAhead(carries[t], t)'
      BY <2>6, <2>7 DEF NothingIsAhead, SessionsTypeOK
    <3>2. \A t \in Growing', v \in Processes : NotAhead(cached[v][t], t)'
      BY <2>6, <2>7 DEF NothingIsAhead, SessionsTypeOK
    <3>3. \A t \in Growing', d \in Calls \ {c} :
            t \in call[d].ids =>
              /\ call[d].at = "reread" => NotAhead(call[d].read, t)'
              /\ call[d].at = "written" /\ call[d].kind = "increment"
                   => NotAhead(call[d].read + 1, t)'
      <4> SUFFICES ASSUME NEW t \in Growing', NEW d \in Calls \ {c}, t \in call[d].ids
                   PROVE  /\ call[d].at = "reread" => NotAhead(call[d].read, t)'
                          /\ call[d].at = "written" /\ call[d].kind = "increment"
                               => NotAhead(call[d].read + 1, t)'
        BY DEF NotAhead
      <4>1. call'[d] = call[d]
        BY DEF SessionsTypeOK
      <4>2. call[d].read \in Versions
        BY DEF SessionsTypeOK
      <4>3. call[d].at = "written" /\ call[d].kind = "increment" => call[d].read + 1 \in Versions
        BY DEF CallsAreAboutRows, Versions
      <4> QED
        BY <2>6, <2>7, <4>1, <4>2, <4>3 DEF NothingIsAhead
    <3>4. \A t \in call[c].ids : t = s /\ NotAhead(call[c].read + 1, t)'
      BY <2>1 DEF CallsAreAboutRows, NotAhead, SessionsTypeOK
    <3> QED
      BY <3>1, <3>2, <3>3, <3>4 DEF NothingIsAhead, NotAhead, SessionsTypeOK
  <2>9. ClosedIsBehind'
    BY <2>1, <2>6 DEF ClosedIsBehind, NothingIsAhead, NotAhead, SessionsTypeOK, Versions
  <2>10. PastTheFirst'
    BY <2>1 DEF PastTheFirst, SessionsTypeOK
  <2> QED
    BY <2>2, <2>3, <2>5, <2>8, <2>9, <2>10
<1>3. CASE IncrementCache(c, s)
  <2> USE <1>3 DEF IncrementCache
  <2>1. call[c].read + 1 \in Nat
    BY DEF CallsAreAboutRows
  <2>2. SessionsTypeOK'
    <3>1. cached' \in [Processes -> [Sessions -> Versions]]
      BY <2>1 DEF SessionsTypeOK, Versions
    <3>2. call' \in [Calls -> [at : {"idle", "selected", "written", "reread", "done"},
                               kind : Revocations, ids : SUBSET Sessions, on : Homes, read : Versions]]
      BY DEF SessionsTypeOK
    <3> QED
      BY <3>1, <3>2 DEF SessionsTypeOK
  <2>3. RowsComeFirst' /\ ClosedIsBehind' /\ PastTheFirst'
    BY DEF RowsComeFirst, ClosedIsBehind, PastTheFirst
  <2>4. CallsAreAboutRows'
    BY DEF CallsAreAboutRows, Rows, SessionsTypeOK
  <2>5. s \in Growing => NotAhead(call[c].read + 1, s)
    BY DEF NothingIsAhead
  <2>6. NothingIsAhead'
    BY <2>1, <2>5 DEF NothingIsAhead, NotAhead, SessionsTypeOK
  <2> QED
    BY <2>2, <2>3, <2>4, <2>6
<1> QED
  BY <1>1, <1>2, <1>3

\* bump_session_version.
LEMMA BumpKeeps ==
  ASSUME Absent \notin Nat, VersionInv, NEW c \in Calls, NEW s \in Sessions,
         \/ \E w \in Processes : BumpWrite(c, w, s)
         \/ BumpReread(c, s) \/ BumpCache(c, s)
  PROVE  VersionInv'
<1> USE DEF VersionInv, Start, Advance, Closing, Growing
<1>1. CASE \E w \in Processes : BumpWrite(c, w, s)
  <2> PICK w \in Processes : BumpWrite(c, w, s)
    BY <1>1
  <2> USE DEF BumpWrite
  <2>1. ver[s] \in Nat
    BY DEF Rows, SessionsTypeOK, Versions
  <2>2. SessionsTypeOK'
    BY <2>1 DEF SessionsTypeOK, Versions, Homes, Revocations
  <2>3. RowsComeFirst'
    BY <2>1 DEF RowsComeFirst, SessionsTypeOK
  <2>4. Rows' = Rows
    BY <2>1 DEF SessionsTypeOK, Rows
  <2>5. CallsAreAboutRows'
    BY <2>4 DEF CallsAreAboutRows, SessionsTypeOK
  <2>6. \A v \in Versions, t \in Sessions : NotAhead(v, t) => NotAhead(v, t)'
    BY <2>1 DEF NotAhead, SessionsTypeOK, Versions
  <2>7. NothingIsAhead'
    <3>1. \A t \in Growing : NotAhead(carries[t], t)'
      BY <2>6 DEF NothingIsAhead, SessionsTypeOK
    <3>2. \A t \in Growing, v \in Processes : NotAhead(cached[v][t], t)'
      BY <2>6 DEF NothingIsAhead, SessionsTypeOK
    <3>3. \A t \in Growing, d \in Calls :
            call'[d].at = "reread" /\ t \in call'[d].ids => NotAhead(call[d].read, t)' /\ d # c
      BY <2>6 DEF NothingIsAhead, SessionsTypeOK
    <3>4. \A t \in Growing, d \in Calls :
            call'[d].at = "written" /\ call'[d].kind = "increment" /\ t \in call'[d].ids
              => NotAhead(call[d].read + 1, t)' /\ d # c
      BY <2>6 DEF NothingIsAhead, CallsAreAboutRows, SessionsTypeOK, Versions
    <3> QED
      BY <3>1, <3>2, <3>3, <3>4 DEF NothingIsAhead, NotAhead, SessionsTypeOK
  <2>8. ClosedIsBehind'
    BY <2>1 DEF ClosedIsBehind, NothingIsAhead, NotAhead, SessionsTypeOK, Versions
  <2>9. PastTheFirst'
    BY <2>1 DEF PastTheFirst, Rows, SessionsTypeOK
  <2> QED
    BY <2>2, <2>3, <2>5, <2>7, <2>8, <2>9
<1>2. CASE BumpReread(c, s)
  <2> USE <1>2 DEF BumpReread
  <2>1. ver[s] \in Nat
    BY DEF CallsAreAboutRows, Rows, SessionsTypeOK, Versions
  <2>2. SessionsTypeOK'
    <3> DEFINE CallRecords == [at : {"idle", "selected", "written", "reread", "done"},
                               kind : Revocations, ids : SUBSET Sessions, on : Homes,
                               read : Versions]
    <3>1. cached' \in [Processes -> [Sessions -> Versions]]
      BY DEF SessionsTypeOK, Versions
    <3>2. call \in [Calls -> CallRecords] /\ ver[s] \in Versions
      BY <2>1 DEF SessionsTypeOK, Versions
    <3>3. [call[c] EXCEPT !.at = "reread", !.read = ver[s]] \in CallRecords
      BY <3>2
    <3>4. call' \in [Calls -> CallRecords]
      <4> HIDE DEF CallRecords
      <4> QED
        BY <3>2, <3>3
    <3> QED
      BY <3>1, <3>4 DEF SessionsTypeOK
  <2>3. RowsComeFirst' /\ ClosedIsBehind' /\ PastTheFirst'
    BY DEF RowsComeFirst, ClosedIsBehind, PastTheFirst
  <2>4. CallsAreAboutRows'
    BY <2>1 DEF CallsAreAboutRows, Rows, SessionsTypeOK
  <2>5. NothingIsAhead'
    BY <2>1 DEF NothingIsAhead, NotAhead, SessionsTypeOK, CallsAreAboutRows
  <2> QED
    BY <2>2, <2>3, <2>4, <2>5
<1>3. CASE BumpCache(c, s)
  <2> USE <1>3 DEF BumpCache
  <2>1. SessionsTypeOK'
    BY DEF SessionsTypeOK
  <2>2. RowsComeFirst' /\ ClosedIsBehind' /\ PastTheFirst'
    BY DEF RowsComeFirst, ClosedIsBehind, PastTheFirst
  <2>3. CallsAreAboutRows'
    BY DEF CallsAreAboutRows, Rows, SessionsTypeOK
  <2>4. s \in Growing => NotAhead(call[c].read, s)
    BY DEF NothingIsAhead
  <2>5. NothingIsAhead'
    BY <2>4 DEF NothingIsAhead, NotAhead, SessionsTypeOK
  <2> QED
    BY <2>1, <2>2, <2>3, <2>5
<1> QED
  BY <1>1, <1>2, <1>3

\* revoke_all_user_sessions, an increment_session_version that finds no row, and a
\* call the database fails.
LEMMA AllKeeps ==
  ASSUME Absent \notin Nat, VersionInv, NEW c \in Calls,
         \/ \E w \in Processes : AllSelect(c, w) \/ IncrementMisses(c, w)
         \/ AllWrite(c) \/ AllInvalidate(c) \/ Fail(c)
  PROVE  VersionInv'
<1> USE DEF VersionInv, Start, Advance, Closing, ClosingAll, Growing
<1>1. CASE \E w \in Processes : AllSelect(c, w)
  <2> PICK w \in Processes : AllSelect(c, w)
    BY <1>1
  <2> USE DEF AllSelect
  <2>1. SessionsTypeOK'
    BY DEF SessionsTypeOK, Versions, Homes, Revocations, Rows
  <2>2. RowsComeFirst' /\ ClosedIsBehind' /\ PastTheFirst'
    BY DEF RowsComeFirst, ClosedIsBehind, PastTheFirst
  <2>3. CallsAreAboutRows'
    BY DEF CallsAreAboutRows, Rows, SessionsTypeOK
  <2>4. NothingIsAhead'
    BY DEF NothingIsAhead, NotAhead, SessionsTypeOK
  <2> QED
    BY <2>1, <2>2, <2>3, <2>4
<1>2. CASE AllWrite(c)
  <2> USE <1>2 DEF AllWrite
  <2>1. \A s \in Rows : ver[s] + 1 \in Nat
    BY DEF Rows, SessionsTypeOK, Versions
  <2>2. SessionsTypeOK'
    BY <2>1 DEF SessionsTypeOK, Versions, Rows
  <2>3. Rows' = Rows
    BY <2>1 DEF Rows
  <2>4. RowsComeFirst'
    BY <2>1 DEF RowsComeFirst, Rows
  <2>5. CallsAreAboutRows'
    BY <2>3 DEF CallsAreAboutRows, SessionsTypeOK
  <2>6. \A s \in Sessions \ revokedAt' : ver'[s] = ver[s] /\ s \notin Rows
    BY DEF Rows
  <2>7. NothingIsAhead'
    BY <2>6 DEF NothingIsAhead, NotAhead, SessionsTypeOK
  <2>8. ClosedIsBehind'
    BY <2>6 DEF ClosedIsBehind, SessionsTypeOK, Rows
  <2>9. PastTheFirst'
    BY <2>1 DEF PastTheFirst, RowsComeFirst, Rows, SessionsTypeOK, Versions
  <2> QED
    BY <2>2, <2>4, <2>5, <2>7, <2>8, <2>9
<1>3. CASE AllInvalidate(c)
  <2> USE <1>3 DEF AllInvalidate
  <2>1. SessionsTypeOK'
    <3>1. ASSUME NEW v \in Processes
          PROVE  cached'[v] = IF v = call[c].on
                              THEN [s \in Sessions |->
                                      IF s \in call[c].ids THEN Absent ELSE cached[v][s]]
                              ELSE cached[v]
      BY DEF SessionsTypeOK
    <3>2. \A v \in Processes : cached'[v] \in [Sessions -> Versions]
      <4> SUFFICES ASSUME NEW v \in Processes
                   PROVE  cached'[v] \in [Sessions -> Versions]
        OBVIOUS
      <4>1. \A s \in Sessions : cached[v][s] \in Versions /\ Absent \in Versions
        BY DEF SessionsTypeOK, Versions
      <4>2. cached[v] \in [Sessions -> Versions]
        BY DEF SessionsTypeOK
      <4> QED
        BY <3>1, <4>1, <4>2
    <3>3. call' \in [Calls -> [at : {"idle", "selected", "written", "reread", "done"},
                               kind : Revocations, ids : SUBSET Sessions, on : Homes, read : Versions]]
      BY DEF SessionsTypeOK
    <3>4. cached' \in [Processes -> [Sessions -> Versions]]
      BY <3>2 DEF SessionsTypeOK
    <3> QED
      BY <3>3, <3>4 DEF SessionsTypeOK
  <2>2. RowsComeFirst' /\ ClosedIsBehind' /\ PastTheFirst'
    BY DEF RowsComeFirst, ClosedIsBehind, PastTheFirst
  <2>3. CallsAreAboutRows'
    BY DEF CallsAreAboutRows, Rows, SessionsTypeOK
  <2>4. NothingIsAhead'
    BY DEF NothingIsAhead, NotAhead, SessionsTypeOK
  <2> QED
    BY <2>1, <2>2, <2>3, <2>4
<1>4. CASE Fail(c)
  <2> USE <1>4 DEF Fail
  <2>1. SessionsTypeOK'
    BY DEF SessionsTypeOK
  <2>2. RowsComeFirst' /\ ClosedIsBehind' /\ PastTheFirst'
    BY DEF RowsComeFirst, ClosedIsBehind, PastTheFirst
  <2>3. CallsAreAboutRows'
    BY DEF CallsAreAboutRows, Rows, SessionsTypeOK
  <2>4. NothingIsAhead'
    BY DEF NothingIsAhead, NotAhead, SessionsTypeOK
  <2> QED
    BY <2>1, <2>2, <2>3, <2>4
<1>5. CASE \E w \in Processes : IncrementMisses(c, w)
  <2> PICK w \in Processes : IncrementMisses(c, w)
    BY <1>5
  <2> USE DEF IncrementMisses
  <2>1. SessionsTypeOK'
    BY DEF SessionsTypeOK, Versions, Homes, Revocations
  <2>2. RowsComeFirst' /\ ClosedIsBehind' /\ PastTheFirst'
    BY DEF RowsComeFirst, ClosedIsBehind, PastTheFirst
  <2>3. CallsAreAboutRows'
    BY DEF CallsAreAboutRows, Rows, SessionsTypeOK
  <2>4. NothingIsAhead'
    BY DEF NothingIsAhead, NotAhead, SessionsTypeOK
  <2> QED
    BY <2>1, <2>2, <2>3, <2>4
<1> QED
  BY <1>1, <1>2, <1>3, <1>4, <1>5

\* The presentations, the caches' expiry and the restarts write no row.
LEMMA EnvironmentKeeps ==
  ASSUME Absent \notin Nat, VersionInv, NEW w \in Processes,
         \/ ProcessRestarts(w)
         \/ \E s \in Sessions :
              \/ Blacklist(w, s) \/ BlacklistExpires(w, s) \/ VersionExpires(w, s)
              \/ Present(w, s) \/ PresentBlind(s)
  PROVE  VersionInv'
<1> USE DEF VersionInv, Growing
<1>1. CASE ProcessRestarts(w)
  <2> USE <1>1 DEF ProcessRestarts
  <2>1. SessionsTypeOK'
    BY DEF SessionsTypeOK, Versions
  <2>2. RowsComeFirst' /\ ClosedIsBehind' /\ PastTheFirst'
    BY DEF RowsComeFirst, ClosedIsBehind, PastTheFirst, SessionsTypeOK
  <2>3. CallsAreAboutRows'
    BY DEF CallsAreAboutRows, Rows, SessionsTypeOK
  <2>4. NothingIsAhead'
    BY DEF NothingIsAhead, NotAhead, SessionsTypeOK
  <2> QED
    BY <2>1, <2>2, <2>3, <2>4
<1>2. CASE \E s \in Sessions : VersionExpires(w, s)
  BY <1>2 DEF VersionExpires, SessionsTypeOK, Versions, RowsComeFirst, CallsAreAboutRows,
              NothingIsAhead, NotAhead, ClosedIsBehind, PastTheFirst, Rows
<1>3. CASE \E s \in Sessions : \/ Blacklist(w, s) \/ BlacklistExpires(w, s)
                               \/ Present(w, s) \/ PresentBlind(s)
  <2> PICK s \in Sessions : \/ Blacklist(w, s) \/ BlacklistExpires(w, s)
                           \/ Present(w, s) \/ PresentBlind(s)
    BY <1>3
  <2>1. SessionsTypeOK'
    <3>1. CASE Blacklist(w, s) \/ BlacklistExpires(w, s)
      BY <3>1 DEF Blacklist, BlacklistExpires, SessionsTypeOK
    <3>2. CASE Present(w, s) \/ PresentBlind(s)
      <4>1. Verdict(w, s) \in Refusals \cup {"valid"}
        BY DEF Verdict, Refusals
      <4>2. answer' \in [sid : Sessions, verdict : Refusals \cup {"valid", "error"},
                          entered : BOOLEAN]
        <5>1. PICK v \in Refusals \cup {"valid", "error"} :
                answer' = [sid |-> s, verdict |-> v, entered |-> TRUE]
          BY <3>2, <4>1, Zenon DEF Present, PresentBlind
        <5>2. QED
          BY <5>1
      <4>3. UNCHANGED <<ver, revokedAt, cached, black, mint, carries, call, closed, takenBack>>
        BY <3>2 DEF Present, PresentBlind
      <4> QED
        BY <4>2, <4>3 DEF SessionsTypeOK
    <3> QED
      BY <3>1, <3>2
  <2>2. /\ RowsComeFirst' /\ CallsAreAboutRows'
        /\ NothingIsAhead' /\ ClosedIsBehind' /\ PastTheFirst'
    BY DEF Blacklist, BlacklistExpires, Present, PresentBlind, RowsComeFirst,
           CallsAreAboutRows, NothingIsAhead, NotAhead, ClosedIsBehind, PastTheFirst, Rows
  <2> QED
    BY <2>1, <2>2
<1> QED
  BY <1>1, <1>2, <1>3

-------------------------------------------------------------------------------
\* No step of a login, of a revocation or of the environment takes the row of
\* a live session behind what is known of it.
LEMMA NextKeeps ==
  ASSUME Absent \notin Nat, VersionInv, [SessionsNext]_sessionsVars
  PROVE  VersionInv'
<1>1. CASE OpenSession
  BY <1>1, CreateKeeps, MintKeeps DEF OpenSession
<1>2. CASE Revoke
  BY <1>2, FamilyKeeps, IncrementKeeps, BumpKeeps, AllKeeps DEF Revoke
<1>3. CASE Environment
  BY <1>3, EnvironmentKeeps DEF Environment
<1>4. CASE UNCHANGED sessionsVars
  BY <1>4 DEF sessionsVars, VersionInv, SessionsTypeOK, RowsComeFirst, CallsAreAboutRows,
              NothingIsAhead, NotAhead, Growing, ClosedIsBehind, PastTheFirst, Rows
<1> QED
  BY <1>1, <1>2, <1>3, <1>4 DEF SessionsNext

\* The inductive invariant: until a row is revoked or taken back, its version only
\* grows, and whatever is known of it elsewhere is at most that.
THEOREM VersionsGrow == ASSUME Absent \notin Nat PROVE SessionsSpec => []VersionInv
BY InitHolds, NextKeeps, PTL DEF SessionsSpec

\* Type correctness of the sessions, the caches and the calls.
THEOREM AccessTypeOK == ASSUME Absent \notin Nat PROVE SessionsSpec => []SessionsTypeOK
BY VersionsGrow, PTL DEF VersionInv

\* A token that any of the four revocations has closed is refused by
\* validate_session_token ever after, in every worker, unless an
\* increment_session_version overwrites a newer version of the row; and a token
\* with the version its session began with is refused even then.
THEOREM OnlyOverwritesReopen ==
  ASSUME Absent \notin Nat
  PROVE  SessionsSpec => []ReopenedOnlyByOverwrite
<1>1. VersionInv => ReopenedOnlyByOverwrite
  <2> SUFFICES ASSUME VersionInv, NEW s \in closed, s \notin revokedAt, ver[s] = carries[s]
               PROVE  s \in takenBack /\ carries[s] > 1
    BY DEF ReopenedOnlyByOverwrite
  <2>1. s \in Sessions /\ ver[s] \in Nat
    BY DEF VersionInv, SessionsTypeOK, RowsComeFirst, Versions
  <2>2. s \in takenBack
    BY <2>1 DEF VersionInv, ClosedIsBehind, Growing
  <2>3. carries[s] > 1
    BY <2>1 DEF VersionInv, PastTheFirst
  <2> QED
    BY <2>2, <2>3
<1> QED
  BY <1>1, VersionsGrow, PTL
=============================================================================

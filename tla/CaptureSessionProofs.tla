------------------------- MODULE CaptureSessionProofs -------------------------
(***************************************************************************)
(* Theorems about CaptureSession, for any number of operations of one      *)
(* session: what its meta.json can never say, although nobody locks it.    *)
(***************************************************************************)
EXTENDS CaptureSession, TLAPS

\* The rewrites that begin with a load.
Loading == {"processing", "transcribed", "tagged", "summarized", "append", "error"}

\* The empty dictionary is a dictionary, and so is what a rewrite makes of one.
LEMMA MetaTypes ==
  /\ NoMeta \in Meta
  /\ \A a \in Actors, m \in Meta : Updated(a, m) \in Meta
  BY DEF NoMeta, Meta, Statuses, Processing, Updated

\* The initial values have their types.
LEMMA TypeInit == CaptureInit => CaptureTypeOK
<1> SUFFICES ASSUME CaptureInit PROVE CaptureTypeOK
  OBVIOUS
<1>1. [NoMeta EXCEPT !.id = TRUE, !.status = "PENDING"] \in Meta
  BY DEF NoMeta, Meta, Statuses
<1> QED
  BY <1>1, MetaTypes DEF CaptureInit, CaptureTypeOK, Stages, Updates

\* A rewrite keeps the identity and the errors, and sets ERROR only as the
\* second half of an except clause.
LEMMA UpdatedKeeps ==
  ASSUME NEW a \in Actors, NEW m \in Meta, todo[a] \in Loading
  PROVE  /\ Updated(a, m).id = m.id
         /\ Updated(a, m).errors = (m.errors \/ todo[a] = "append")
         /\ Updated(a, m).status = "ERROR" => m.status = "ERROR" \/ todo[a] = "error"
  BY DEF Updated, Meta, Loading

\* Every action keeps the types.
LEMMA TypeStep == CaptureTypeOK /\ [CaptureNext]_captureVars => CaptureTypeOK'
<1> SUFFICES ASSUME CaptureTypeOK, [CaptureNext]_captureVars PROVE CaptureTypeOK'
  OBVIOUS
<1> USE MetaTypes, KindsAssumption DEF CaptureTypeOK, Stages, Updates, Operations, Proceed, Rewrite
<1>1. ASSUME NEW a \in Actors, SaveBegins(a) PROVE CaptureTypeOK'
  BY <1>1 DEF SaveBegins
<1>2. ASSUME NEW a \in Actors, SaveRejected(a) PROVE CaptureTypeOK'
  BY <1>2 DEF SaveRejected
<1>3. ASSUME NEW a \in Actors, SaveUploaded(a) PROVE CaptureTypeOK'
  <2>1. PICK text, tags \in BOOLEAN :
          /\ transcript' = (transcript \/ text)
          /\ tagsFile' = (tagsFile \/ tags)
          /\ held' = [held EXCEPT ![a].status = IF text THEN "TRANSCRIBED" ELSE @,
                                  ![a].tags = @ \/ tags]
    BY <1>3 DEF SaveUploaded
  <2> DEFINE m == [held[a] EXCEPT !.status = IF text THEN "TRANSCRIBED" ELSE @,
                                  !.tags = @ \/ tags]
  <2>2. "TRANSCRIBED" \in Statuses /\ (held[a].tags \/ tags) \in BOOLEAN
    BY DEF Statuses
  <2>3. m \in Meta
    BY <2>2 DEF Meta
  <2>4. held' = [held EXCEPT ![a] = m]
    BY <2>1
  <2>5. transcript' \in BOOLEAN /\ tagsFile' \in BOOLEAN
    BY <2>1
  <2> HIDE DEF m
  <2>6. held' \in [Actors -> Meta]
    BY <2>3, <2>4
  <2> QED
    BY <1>3, <2>5, <2>6 DEF SaveUploaded
<1>4. ASSUME NEW a \in Actors, NEW k \in Kinds, Request(a, k) PROVE CaptureTypeOK'
  BY <1>4 DEF Request
<1>5. ASSUME NEW a \in Actors, Load(a) PROVE CaptureTypeOK'
  <2>1. CASE Readable
    <3>1. held' = [held EXCEPT ![a] = Updated(a, meta)] /\ stage' = [stage EXCEPT ![a] = "truncate"]
      BY <1>5, <2>1 DEF Load
    <3>2. Updated(a, meta) \in Meta
      BY MetaTypes
    <3> QED
      BY ONLY <1>5, <2>1, <3>1, <3>2, CaptureTypeOK DEF Load, CaptureTypeOK, Stages
  <2>2. CASE ~Readable
    BY <1>5, <2>2 DEF Load, Raises
  <2> QED
    BY <2>1, <2>2
<1>6. ASSUME NEW a \in Actors, Truncate(a) PROVE CaptureTypeOK'
  BY <1>6 DEF Truncate
<1>7. ASSUME NEW a \in Actors, Write(a) PROVE CaptureTypeOK'
  BY <1>7 DEF Write, Continue
<1>8. ASSUME NEW a \in Actors, Transcribe(a) PROVE CaptureTypeOK'
  BY <1>8 DEF Transcribe
<1>9. ASSUME NEW a \in Actors, TagBegins(a) PROVE CaptureTypeOK'
  BY <1>9 DEF TagBegins
<1>10. ASSUME NEW a \in Actors, Tag(a) PROVE CaptureTypeOK'
  <2>1. [copy EXCEPT ![a].tags = TRUE] \in [Actors -> Meta]
    BY DEF Meta
  <2> QED
    BY <1>10, <2>1 DEF Tag
<1>11. ASSUME NEW a \in Actors, Summarize(a) PROVE CaptureTypeOK'
  BY <1>11 DEF Summarize
<1>12. ASSUME NEW a \in Actors, Crash(a) PROVE CaptureTypeOK'
  BY <1>12 DEF Crash
<1>13. ASSUME UNCHANGED captureVars PROVE CaptureTypeOK'
  BY <1>13 DEF captureVars
<1> QED
  BY ONLY <1>1, <1>2, <1>3, <1>4, <1>5, <1>6, <1>7, <1>8, <1>9, <1>10, <1>11, <1>12, <1>13,
          [CaptureNext]_captureVars DEF CaptureNext, Work

\* meta.json, the files and the operations stay in their types.
THEOREM TypeCorrect == CaptureSpec => []CaptureTypeOK
  BY TypeInit, TypeStep, PTL DEF CaptureSpec

-------------------------------------------------------------------------------
\* Whatever dictionary is in the file or in somebody's hands is backed by the
\* files, and so is the status that somebody is about to set.
AllBacked ==
  /\ Backed(meta)
  /\ \A a \in Actors :
       /\ Backed(held[a])
       /\ Backed(copy[a])
       /\ todo[a] \in {"transcribed", "tagged", "summarized"} => transcript
       /\ todo[a] \in {"tagged", "summarized"} => tagsFile

\* No action puts a dictionary anywhere that the files do not back.
LEMMA BackedStep == CaptureTypeOK /\ AllBacked /\ [CaptureNext]_captureVars => AllBacked'
<1> SUFFICES ASSUME CaptureTypeOK, AllBacked, [CaptureNext]_captureVars PROVE AllBacked'
  OBVIOUS
<1> USE DEF CaptureTypeOK, AllBacked, Backed, Proceed, Rewrite, NoMeta, Meta
<1>1. ASSUME NEW a \in Actors, SaveBegins(a) PROVE AllBacked'
  BY <1>1 DEF SaveBegins
<1>2. ASSUME NEW a \in Actors, SaveRejected(a) PROVE AllBacked'
  BY <1>2 DEF SaveRejected
<1>3. ASSUME NEW a \in Actors, SaveUploaded(a) PROVE AllBacked'
  <2>1. PICK text, tags \in BOOLEAN :
          /\ transcript' = (transcript \/ text)
          /\ tagsFile' = (tagsFile \/ tags)
          /\ held' = [held EXCEPT ![a].status = IF text THEN "TRANSCRIBED" ELSE @,
                                  ![a].tags = @ \/ tags]
    BY <1>3 DEF SaveUploaded
  <2> QED
    BY <1>3, <2>1 DEF SaveUploaded
<1>4. ASSUME NEW a \in Actors, NEW k \in Kinds, Request(a, k) PROVE AllBacked'
  BY <1>4 DEF Request
<1>5. ASSUME NEW a \in Actors, Load(a) PROVE AllBacked'
  BY <1>5 DEF Load, Raises, Updated
<1>6. ASSUME NEW a \in Actors, Truncate(a) PROVE AllBacked'
  BY <1>6 DEF Truncate
<1>7. ASSUME NEW a \in Actors, Write(a) PROVE AllBacked'
  BY <1>7 DEF Write, Continue
<1>8. ASSUME NEW a \in Actors, Transcribe(a) PROVE AllBacked'
  BY <1>8 DEF Transcribe
<1>9. ASSUME NEW a \in Actors, TagBegins(a) PROVE AllBacked'
  BY <1>9 DEF TagBegins
<1>10. ASSUME NEW a \in Actors, Tag(a) PROVE AllBacked'
  BY <1>10 DEF Tag
<1>11. ASSUME NEW a \in Actors, Summarize(a) PROVE AllBacked'
  BY <1>11 DEF Summarize
<1>12. ASSUME NEW a \in Actors, Crash(a) PROVE AllBacked'
  BY <1>12 DEF Crash
<1>13. ASSUME UNCHANGED captureVars PROVE AllBacked'
  BY <1>13 DEF captureVars
<1> HIDE DEF AllBacked
<1> QED
  BY ONLY <1>1, <1>2, <1>3, <1>4, <1>5, <1>6, <1>7, <1>8, <1>9, <1>10, <1>11, <1>12, <1>13,
          [CaptureNext]_captureVars DEF CaptureNext, Work

\* However handlers and jobs overwrite each other's meta.json and wherever one
\* dies, a status or a tags entry never speaks of a file that is not there.
THEOREM StatusBacked == CaptureSpec => []StatusIsBacked
<1>1. CaptureInit => AllBacked
  <2>1. CaptureInit => Backed(meta) /\ \A a \in Actors : Backed(held[a]) /\ Backed(copy[a])
    BY DEF CaptureInit, Backed, NoMeta
  <2> QED
    BY <2>1 DEF CaptureInit, AllBacked
<1>2. AllBacked => StatusIsBacked
  BY DEF AllBacked, StatusIsBacked
<1> QED
  BY <1>1, <1>2, BackedStep, TypeCorrect, PTL DEF CaptureSpec

-------------------------------------------------------------------------------
\* In a started session the file is never missing, and whatever dictionary
\* somebody is about to write has the identity.
Identified ==
  started =>
    /\ file # "missing"
    /\ file = "whole" => meta.id
    /\ \A a \in Actors :
         /\ stage[a] \in {"upload", "truncate", "write"} => held[a].id
         /\ stage[a] = "tag" => copy[a].id
         /\ stage[a] = "load" => todo[a] \in Loading
         /\ kind[a] = "tag" /\ stage[a] \in {"load", "truncate", "write"} =>
              \/ todo[a] \in {"processing", "saved", "stale"}
              \/ copy[a].id

\* No action writes a dictionary without the identity.
LEMMA IdentityStep == CaptureTypeOK /\ Identified /\ [CaptureNext]_captureVars => Identified'
<1> SUFFICES ASSUME CaptureTypeOK, Identified, [CaptureNext]_captureVars, started' PROVE Identified'
  BY DEF Identified
<1> USE DEF CaptureTypeOK, Proceed, Rewrite, Loading
<1>0. started
  BY DEF CaptureNext, Work, SaveBegins, SaveRejected, SaveUploaded, Request, Load, Truncate, Write,
         Transcribe, TagBegins, Tag, Summarize, Crash, captureVars
<1> USE <1>0 DEF Identified
<1>1. ASSUME NEW a \in Actors, SaveBegins(a) PROVE Identified'
  BY <1>1 DEF SaveBegins, Readable
<1>2. ASSUME NEW a \in Actors, SaveRejected(a) PROVE Identified'
  BY <1>2 DEF SaveRejected
<1>3. ASSUME NEW a \in Actors, SaveUploaded(a) PROVE Identified'
  <2>1. held'[a].id /\ \A b \in Actors \ {a} : held'[b] = held[b]
    BY <1>3 DEF SaveUploaded, Meta
  <2> QED
    BY <1>3, <2>1 DEF SaveUploaded
<1>4. ASSUME NEW a \in Actors, NEW k \in Kinds, Request(a, k) PROVE Identified'
  BY <1>4 DEF Request
<1>5. ASSUME NEW a \in Actors, Load(a) PROVE Identified'
  <2>1. CASE Readable
    <3>1. todo[a] \in Loading /\ held' = [held EXCEPT ![a] = Updated(a, meta)]
      BY <1>5, <2>1 DEF Load
    <3> QED
      BY <1>5, <2>1, <3>1, UpdatedKeeps DEF Load, Readable
  <2>2. CASE ~Readable
    BY <1>5, <2>2 DEF Load, Raises, Readable
  <2> QED
    BY <2>1, <2>2
<1>6. ASSUME NEW a \in Actors, Truncate(a) PROVE Identified'
  BY <1>6 DEF Truncate
<1>7. ASSUME NEW a \in Actors, Write(a) PROVE Identified'
  BY <1>7 DEF Write, Continue
<1>8. ASSUME NEW a \in Actors, Transcribe(a) PROVE Identified'
  BY <1>8 DEF Transcribe
<1>9. ASSUME NEW a \in Actors, TagBegins(a) PROVE Identified'
  BY <1>9 DEF TagBegins, Readable
<1>10. ASSUME NEW a \in Actors, Tag(a) PROVE Identified'
  <2>1. \A b \in Actors : /\ copy'[b].id = copy[b].id
                          /\ copy'[b].status = copy[b].status
                          /\ copy'[b].errors = copy[b].errors
    BY <1>10 DEF Tag, Meta
  <2> QED
    BY <1>10, <2>1 DEF Tag
<1>11. ASSUME NEW a \in Actors, Summarize(a) PROVE Identified'
  BY <1>11 DEF Summarize
<1>12. ASSUME NEW a \in Actors, Crash(a) PROVE Identified'
  BY <1>12 DEF Crash
<1>13. ASSUME UNCHANGED captureVars PROVE Identified'
  BY <1>13 DEF captureVars
<1> QED
  BY ONLY <1>1, <1>2, <1>3, <1>4, <1>5, <1>6, <1>7, <1>8, <1>9, <1>10, <1>11, <1>12, <1>13,
          [CaptureNext]_captureVars DEF CaptureNext, Work

\* A session that was started keeps its session_id and created_at through any
\* interleaving of rewrites, torn reads and crashes.
THEOREM IdentityIsKept == CaptureSpec => []IdentityKept
<1>1. CaptureInit => Identified
  BY DEF CaptureInit, Identified, NoMeta
<1>2. Identified => IdentityKept
  BY DEF Identified, IdentityKept
<1> QED
  BY <1>1, <1>2, IdentityStep, TypeCorrect, PTL DEF CaptureSpec

-------------------------------------------------------------------------------
(* From here on there is one process and no queue.                          *)
Explained(m) == m.status = "ERROR" => m.errors

\* One operation runs at a time.  While it writes, the file is empty; between
\* append_error and the status ERROR the file holds the error.
OneAtATime ==
  /\ \A a, b \in Actors : stage[a] \notin Resting /\ stage[b] \notin Resting => a = b
  /\ Explained(meta)
  /\ \A a \in Actors :
       /\ Explained(held[a]) /\ Explained(copy[a])
       /\ stage[a] = "load" => todo[a] \in Loading
       /\ stage[a] = "write" => file = "empty"
       /\ stage[a] = "load" /\ todo[a] = "error" => file = "whole" /\ meta.errors
       /\ stage[a] \in {"truncate", "write"} /\ todo[a] = "append" => held[a].errors

\* No action breaks it.
LEMMA OneAtATimeStep ==
  ASSUME Exclusive
  PROVE  CaptureTypeOK /\ OneAtATime /\ [CaptureNext]_captureVars => OneAtATime'
<1> SUFFICES ASSUME CaptureTypeOK, OneAtATime, [CaptureNext]_captureVars PROVE OneAtATime'
  OBVIOUS
<1> USE Exclusive DEF CaptureTypeOK, Proceed, Rewrite, MayRun, Resting, OneAtATime, Explained
<1>0. Explained(NoMeta)
  BY DEF NoMeta
<1> USE <1>0 DEF Loading
<1>1. ASSUME NEW a \in Actors, SaveBegins(a) PROVE OneAtATime'
  BY <1>1 DEF SaveBegins
<1>2. ASSUME NEW a \in Actors, SaveRejected(a) PROVE OneAtATime'
  BY <1>2 DEF SaveRejected
<1>3. ASSUME NEW a \in Actors, SaveUploaded(a) PROVE OneAtATime'
  BY <1>3 DEF SaveUploaded
<1>4. ASSUME NEW a \in Actors, NEW k \in Kinds, Request(a, k) PROVE OneAtATime'
  BY <1>4 DEF Request
<1>5. ASSUME NEW a \in Actors, Load(a) PROVE OneAtATime'
  <2>1. CASE Readable
    <3>1. todo[a] \in Loading /\ held' = [held EXCEPT ![a] = Updated(a, meta)]
      BY <1>5, <2>1 DEF Load
    <3>2. /\ stage' = [stage EXCEPT ![a] = "truncate"]
          /\ stage[a] = "load"
          /\ UNCHANGED <<file, meta, todo, copy>>
          /\ \A b \in Actors \ {a} : stage[b] \in Resting
      BY <1>5, <2>1, <3>1 DEF Load
    <3>3. /\ Updated(a, meta).errors = (meta.errors \/ todo[a] = "append")
          /\ Updated(a, meta).status = "ERROR" => meta.status = "ERROR" \/ todo[a] = "error"
      BY <3>1, UpdatedKeeps
    <3>4. Explained(held'[a]) /\ (todo[a] = "append" => held'[a].errors)
      BY <3>1, <3>2, <3>3
    <3> QED
      BY <3>1, <3>2, <3>4
  <2>2. CASE ~Readable
    BY <1>5, <2>2 DEF Load, Raises, Readable
  <2> QED
    BY <2>1, <2>2
<1>6. ASSUME NEW a \in Actors, Truncate(a) PROVE OneAtATime'
  BY <1>6 DEF Truncate
<1>7. ASSUME NEW a \in Actors, Write(a) PROVE OneAtATime'
  <2>1. file' = "whole" /\ meta' = held[a] /\ stage[a] = "write" /\ Explained(held[a])
    BY <1>7 DEF Write, Continue
  <2>2. \A b \in Actors \ {a} : stage'[b] = stage[b] /\ stage[b] \in Resting
    BY <1>7 DEF Write, Continue
  <2>3. todo[a] = "append" => meta'.errors
    BY <2>1
  <2> QED
    BY <1>7, <2>1, <2>2, <2>3 DEF Write, Continue
<1>8. ASSUME NEW a \in Actors, Transcribe(a) PROVE OneAtATime'
  BY <1>8 DEF Transcribe
<1>9. ASSUME NEW a \in Actors, TagBegins(a) PROVE OneAtATime'
  BY <1>9 DEF TagBegins
<1>10. ASSUME NEW a \in Actors, Tag(a) PROVE OneAtATime'
  <2>1. \A b \in Actors : /\ copy'[b].id = copy[b].id
                          /\ copy'[b].status = copy[b].status
                          /\ copy'[b].errors = copy[b].errors
    BY <1>10 DEF Tag, Meta
  <2> QED
    BY <1>10, <2>1 DEF Tag
<1>11. ASSUME NEW a \in Actors, Summarize(a) PROVE OneAtATime'
  BY <1>11 DEF Summarize
<1>12. ASSUME NEW a \in Actors, Crash(a) PROVE OneAtATime'
  BY <1>12 DEF Crash
<1>13. ASSUME UNCHANGED captureVars PROVE OneAtATime'
  BY <1>13 DEF captureVars
<1> HIDE DEF OneAtATime
<1> QED
  BY ONLY <1>1, <1>2, <1>3, <1>4, <1>5, <1>6, <1>7, <1>8, <1>9, <1>10, <1>11, <1>12, <1>13,
          [CaptureNext]_captureVars DEF CaptureNext, Work

\* In one process without a queue a session is in error only together with an
\* error that explains it, also when the process dies and when tag_task puts
\* an old dictionary back.
THEOREM ErrorExplained == ASSUME Exclusive PROVE CaptureSpec => []ErrorIsExplained
<1>1. CaptureInit => OneAtATime
  BY DEF CaptureInit, OneAtATime, Explained, NoMeta, Resting
<1>2. OneAtATime => ErrorIsExplained
  BY DEF OneAtATime, Explained, ErrorIsExplained
<1> QED
  BY <1>1, <1>2, OneAtATimeStep, TypeCorrect, PTL DEF CaptureSpec

-------------------------------------------------------------------------------
\* The safety side of ProcessingEnds: when all operations rest, the status is
\* not a processing one.
ProcessingHasWorker == meta.status \in Processing => \E a \in Actors : stage[a] \notin Resting

\* An upload has loaded no such status, and a dictionary with one is written only
\* by a rewrite that another follows.
Attended ==
  /\ ProcessingHasWorker
  /\ ~Readable => meta.status \notin Processing
  /\ \A a \in Actors :
       /\ kind[a] # "tag"
       /\ stage[a] = "load" => todo[a] \in Loading
       /\ stage[a] = "upload" => held[a].status \notin Processing
       /\ stage[a] \in {"truncate", "write"} /\ held[a].status \in Processing =>
            todo[a] \in {"processing", "append"}

\* What a rewrite makes of the status.
LEMMA UpdatedStatus ==
  ASSUME NEW a \in Actors, NEW m \in Meta, todo[a] \in Loading \ {"processing", "append"}
  PROVE  Updated(a, m).status \notin Processing
  BY DEF Updated, Meta, Loading, Processing

\* No action leaves a processing status to nobody.
LEMMA AttendedStep ==
  ASSUME Exclusive, ~Crashes, "tag" \notin Kinds
  PROVE  CaptureTypeOK /\ Attended /\ [CaptureNext]_captureVars => Attended'
<1> SUFFICES ASSUME CaptureTypeOK, Attended, [CaptureNext]_captureVars PROVE Attended'
  OBVIOUS
<1> USE Exclusive DEF CaptureTypeOK, Proceed, Rewrite, MayRun, Resting, Attended, ProcessingHasWorker,
                      Processing, Loading, Readable
<1>1. ASSUME NEW a \in Actors, SaveBegins(a) PROVE Attended'
  BY <1>1 DEF SaveBegins
<1>2. ASSUME NEW a \in Actors, SaveRejected(a) PROVE Attended'
  BY <1>2 DEF SaveRejected
<1>3. ASSUME NEW a \in Actors, SaveUploaded(a) PROVE Attended'
  <2>1. held'[a].status \in {held[a].status, "TRANSCRIBED"} /\ \A b \in Actors \ {a} : held'[b] = held[b]
    BY <1>3 DEF SaveUploaded, Meta
  <2> QED
    BY <1>3, <2>1 DEF SaveUploaded
<1>4. ASSUME NEW a \in Actors, NEW k \in Kinds, Request(a, k) PROVE Attended'
  BY <1>4, "tag" \notin Kinds DEF Request
<1>5. ASSUME NEW a \in Actors, Load(a) PROVE Attended'
  <2>1. CASE Readable
    <3>1. /\ todo[a] \in Loading /\ held' = [held EXCEPT ![a] = Updated(a, meta)]
          /\ stage' = [stage EXCEPT ![a] = "truncate"]
          /\ UNCHANGED <<meta, kind, todo>>
      BY <1>5, <2>1 DEF Load
    <3>2. todo[a] \notin {"processing", "append"} => held'[a].status \notin Processing
      BY <3>1, UpdatedStatus
    <3>3. ProcessingHasWorker'
      BY <3>1
    <3>4. \A b \in Actors \ {a} : held'[b] = held[b] /\ stage'[b] = stage[b]
      BY <3>1
    <3>5. ASSUME NEW b \in Actors
          PROVE  /\ kind'[b] # "tag"
                 /\ stage'[b] = "load" => todo'[b] \in Loading
                 /\ stage'[b] = "upload" => held'[b].status \notin Processing
                 /\ stage'[b] \in {"truncate", "write"} /\ held'[b].status \in Processing =>
                      todo'[b] \in {"processing", "append"}
      <4>1. CASE b = a
        BY <3>1, <3>2, <4>1
      <4>2. CASE b # a
        BY <3>1, <3>4, <4>2
      <4> QED
        BY <4>1, <4>2
    <3>6. Readable'
      BY <1>5, <2>1 DEF Load, Readable
    <3> QED
      BY <3>3, <3>5, <3>6
  <2>2. CASE ~Readable
    BY <1>5, <2>2 DEF Load, Raises
  <2> QED
    BY <2>1, <2>2
<1>6. ASSUME NEW a \in Actors, Truncate(a) PROVE Attended'
  BY <1>6 DEF Truncate, NoMeta
<1>7. ASSUME NEW a \in Actors, Write(a) PROVE Attended'
  BY <1>7 DEF Write, Continue, NoMeta
<1>8. ASSUME NEW a \in Actors, Transcribe(a) PROVE Attended'
  BY <1>8 DEF Transcribe
<1>9. ASSUME NEW a \in Actors, TagBegins(a) PROVE Attended'
  BY <1>9 DEF TagBegins
<1>10. ASSUME NEW a \in Actors, Tag(a) PROVE Attended'
  BY <1>10 DEF Tag
<1>11. ASSUME NEW a \in Actors, Summarize(a) PROVE Attended'
  BY <1>11 DEF Summarize
<1>12. ASSUME NEW a \in Actors, Crash(a) PROVE FALSE
  BY <1>12, ~Crashes DEF Crash
<1>13. ASSUME UNCHANGED captureVars PROVE Attended'
  BY <1>13 DEF captureVars
<1> HIDE DEF Attended
<1> QED
  BY ONLY <1>1, <1>2, <1>3, <1>4, <1>5, <1>6, <1>7, <1>8, <1>9, <1>10, <1>11, <1>12, <1>13,
          [CaptureNext]_captureVars DEF CaptureNext, Work

\* In one process that does not die, and without the stale save of tag_task, no
\* operation ends in a way that leaves the session in a processing status.
THEOREM ProcessingIsAttended ==
  ASSUME Exclusive, ~Crashes, "tag" \notin Kinds
  PROVE  CaptureSpec => []ProcessingHasWorker
<1>1. CaptureInit => Attended
  BY DEF CaptureInit, Attended, ProcessingHasWorker, NoMeta, Processing, Readable
<1>2. Attended => ProcessingHasWorker
  BY DEF Attended
<1> QED
  BY <1>1, <1>2, AttendedStep, TypeCorrect, PTL DEF CaptureSpec
=============================================================================

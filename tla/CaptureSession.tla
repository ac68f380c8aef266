----------------------------- MODULE CaptureSession -----------------------------
(***************************************************************************)
(* The meta.json of ONE capture session and everybody who rewrites it: the *)
(* /capture/save handler (session_manager.py), the three endpoints that    *)
(* request a transcription, tags or a summary, and the background jobs     *)
(* that do the work (tasks.py), over the load and save of                  *)
(* session_store.py.                                                       *)
(*                                                                         *)
(* Nobody locks the file: an update is a load, a change and a write_text,  *)
(* and write_text truncates the file before it fills it.                   *)
(***************************************************************************)

CONSTANTS
  Actors,      \* the calls of the API; each is one operation with its job
  Kinds,       \* the operations considered
  Exclusive,   \* TRUE: one process, no queue: a request and its job run in one
               \*   piece, and only an upload lets others run.  FALSE: jobs are in
               \*   RQ workers, handlers in several server processes
  Crashes      \* may the process of an operation die

Operations == {"save", "transcribe", "tag", "summarize"}

ASSUME KindsAssumption == Kinds \subseteq Operations
ASSUME ModesAssumption == Exclusive \in BOOLEAN /\ Crashes \in BOOLEAN

Processing == {"PROCESSING_WHISPER", "PROCESSING_GPT"}
Statuses == {"none", "PENDING", "TRANSCRIBED", "DONE", "ERROR"} \cup Processing

\* What the properties tell apart in meta.json: its session_id and created_at,
\* the status, whether "errors" has an entry and whether "tags" is there.
Meta == [id : BOOLEAN, status : Statuses, errors : BOOLEAN, tags : BOOLEAN]
NoMeta == [id |-> FALSE, status |-> "none", errors |-> FALSE, tags |-> FALSE]

\* The rewrites of meta.json an operation goes through.
Updates == {"none", "processing", "transcribed", "tagged", "summarized", "append", "error",
            "saved", "stale"}

Stages == {"idle", "upload", "job", "tag", "load", "truncate", "write", "done", "dead"}

VARIABLES
  file,         \* meta.json: "missing", "whole", "empty" or "garbled"
  meta,         \* its content when it is whole
  transcript,   \* transcript.txt exists
  tagsFile,     \* tags.json exists
  started,      \* the session was created by /capture/start, not by /upload
  kind,         \* actor -> its operation
  stage,        \* actor -> where it is
  todo,         \* actor -> the rewrite it is in
  held,         \* actor -> the dictionary it is about to write
  copy          \* actor -> the dictionary tag_task loaded when it began

captureVars == <<file, meta, transcript, tagsFile, started, kind, stage, todo, held, copy>>

CaptureTypeOK ==
  /\ file \in {"missing", "whole", "empty", "garbled"}
  /\ meta \in Meta
  /\ transcript \in BOOLEAN
  /\ tagsFile \in BOOLEAN
  /\ started \in BOOLEAN
  /\ kind \in [Actors -> Operations \cup {"none"}]
  /\ stage \in [Actors -> Stages]
  /\ todo \in [Actors -> Updates]
  /\ held \in [Actors -> Meta]
  /\ copy \in [Actors -> Meta]

\* create_session writes the first meta.json; an upload makes the directory only.
CaptureInit ==
  /\ started \in BOOLEAN
  /\ file = IF started THEN "whole" ELSE "missing"
  /\ meta = IF started THEN [NoMeta EXCEPT !.id = TRUE, !.status = "PENDING"] ELSE NoMeta
  /\ transcript = FALSE
  /\ tagsFile = FALSE
  /\ kind = [a \in Actors |-> "none"]
  /\ stage = [a \in Actors |-> "idle"]
  /\ todo = [a \in Actors |-> "none"]
  /\ held = [a \in Actors |-> NoMeta]
  /\ copy = [a \in Actors |-> NoMeta]

-------------------------------------------------------------------------------
Resting == {"idle", "upload", "done", "dead"}
MayRun(a) == Exclusive => \A b \in Actors \ {a} : stage[b] \in Resting

Proceed(a, from, to) ==
  /\ MayRun(a)
  /\ stage[a] = from
  /\ stage' = [stage EXCEPT ![a] = to]

\* The next rewrite begins with a load.
Rewrite(a, from, u) ==
  /\ Proceed(a, from, "load")
  /\ todo' = [todo EXCEPT ![a] = u]

\* Mutant: a file that cannot be parsed is an empty dictionary too.
ReadableAlways == TRUE

\* load_meta: a file that is not there is an empty dictionary, one that is
\* being written or was left broken raises.
Readable == file \in {"missing", "whole"}

\* Where an exception out of load_meta leads: inside the try of a job to its
\* except clause, elsewhere out of the operation.
Raises(a) ==
  \/ /\ todo[a] \in {"transcribed", "tagged", "summarized"}
     /\ Rewrite(a, "load", "append")
  \/ /\ todo[a] \in {"processing", "append", "error"}
     /\ Proceed(a, "load", "done")
     /\ UNCHANGED todo

\* Mutant: a status that SessionStatus does not have.
UpdatedFailed(a, m) ==
  [m EXCEPT !.status = IF todo[a] = "error" THEN "FAILED" ELSE "PENDING"]

\* The dictionary after each rewrite that loads it first.
Updated(a, m) ==
  CASE todo[a] = "processing" ->
         [m EXCEPT !.status = IF kind[a] = "transcribe" THEN "PROCESSING_WHISPER"
                                                        ELSE "PROCESSING_GPT"]
    [] todo[a] = "transcribed" -> [m EXCEPT !.status = "TRANSCRIBED"]
    [] todo[a] = "tagged" -> [m EXCEPT !.status = "DONE"]
    [] todo[a] = "summarized" -> [m EXCEPT !.status = "DONE", !.tags = TRUE]
    [] todo[a] = "append" -> [m EXCEPT !.errors = TRUE]
    [] OTHER -> [m EXCEPT !.status = "ERROR"]

\* update_status, append_error, and the end of summary_task: load and change.
Load(a) ==
  /\ \/ /\ Readable
        /\ Proceed(a, "load", "truncate")
        /\ held' = [held EXCEPT ![a] = Updated(a, meta)]
        /\ UNCHANGED todo
     \/ /\ ~Readable
        /\ Raises(a)
        /\ UNCHANGED held
  /\ UNCHANGED <<file, meta, transcript, tagsFile, started, kind, copy>>

\* save_meta: write_text opens the file for writing, which empties it ...
Truncate(a) ==
  /\ Proceed(a, "truncate", "write")
  /\ file' = "empty"
  /\ meta' = NoMeta
  /\ UNCHANGED <<transcript, tagsFile, started, kind, todo, held, copy>>

\* After the write: the job, the second half of an except clause, the save at
\* the end of tag_task, or the end.
Continue(a) ==
  \/ /\ todo[a] = "processing"
     /\ Proceed(a, "write", "job")
     /\ held' = [held EXCEPT ![a] = NoMeta]
     /\ UNCHANGED <<todo, copy>>
  \/ /\ todo[a] = "append"
     /\ Rewrite(a, "write", "error")
     /\ held' = [held EXCEPT ![a] = NoMeta]
     /\ UNCHANGED copy
  \/ /\ todo[a] \in {"tagged", "error"}
     /\ kind[a] = "tag"
     /\ Proceed(a, "write", "truncate")
     /\ todo' = [todo EXCEPT ![a] = "stale"]
     /\ held' = [held EXCEPT ![a] = copy[a]]
     /\ copy' = [copy EXCEPT ![a] = NoMeta]
  \/ /\ todo[a] \in {"transcribed", "summarized", "saved", "stale"} \/ kind[a] # "tag"
     /\ todo[a] \notin {"processing", "append"}
     /\ Proceed(a, "write", "done")
     /\ held' = [held EXCEPT ![a] = NoMeta]
     /\ UNCHANGED <<todo, copy>>

\* ... and then fills it from its beginning.  What another process has written
\* since is overwritten, or its end stays behind the shorter text.
Write(a) ==
  /\ Continue(a)
  /\ \/ file' = "whole" /\ meta' = held[a]
     \/ file # "empty" /\ file' = "garbled" /\ meta' = NoMeta
  /\ UNCHANGED <<transcript, tagsFile, started, kind>>

-------------------------------------------------------------------------------
(* save_session.                                                            *)

\* It loads the dictionary before it awaits the uploads.
SaveBegins(a) ==
  /\ "save" \in Kinds
  /\ kind' = [kind EXCEPT ![a] = "save"]
  /\ \/ Readable /\ Proceed(a, "idle", "upload") /\ held' = [held EXCEPT ![a] = meta]
     \/ ~Readable /\ Proceed(a, "idle", "done") /\ UNCHANGED held
  /\ UNCHANGED <<file, meta, transcript, tagsFile, started, todo, copy>>

\* A wrong type or a file too large ends it; otherwise the transcript and the
\* tags that came with the request are stored, and then the dictionary.
SaveRejected(a) ==
  /\ Proceed(a, "upload", "done")
  /\ held' = [held EXCEPT ![a] = NoMeta]
  /\ UNCHANGED <<file, meta, transcript, tagsFile, started, kind, todo, copy>>

SaveUploaded(a) ==
  /\ Proceed(a, "upload", "truncate")
  /\ todo' = [todo EXCEPT ![a] = "saved"]
  /\ \E text, tags \in BOOLEAN :
       /\ transcript' = (transcript \/ text)
       /\ tagsFile' = (tagsFile \/ tags)
       /\ held' = [held EXCEPT ![a].status = IF text THEN "TRANSCRIBED" ELSE @,
                               ![a].tags = @ \/ tags]
  /\ UNCHANGED <<file, meta, started, kind, copy>>

-------------------------------------------------------------------------------
(* The jobs.                                                                *)

\* enqueue_transcription, enqueue_tag_extraction, enqueue_summary: first the
\* status, then the job.
Request(a, k) ==
  /\ k \in Kinds \ {"save"}
  /\ Rewrite(a, "idle", "processing")
  /\ kind' = [kind EXCEPT ![a] = k]
  /\ UNCHANGED <<file, meta, transcript, tagsFile, started, held, copy>>

\* Mutant: the status is stored before the transcript.
TranscribeStatusFirst(a) ==
  /\ kind[a] = "transcribe"
  /\ Rewrite(a, "job", "transcribed") \/ Rewrite(a, "job", "append")
  /\ UNCHANGED <<file, meta, transcript, tagsFile, started, kind, held, copy>>

\* Mutant: the except clause forgets append_error.
TranscribeUnexplained(a) ==
  /\ kind[a] = "transcribe"
  /\ \/ Rewrite(a, "job", "transcribed") /\ transcript' = TRUE
     \/ Rewrite(a, "job", "error") /\ UNCHANGED transcript
  /\ UNCHANGED <<file, meta, tagsFile, started, kind, held, copy>>

\* Mutant: there is no except clause.
TranscribeUncaught(a) ==
  /\ kind[a] = "transcribe"
  /\ \/ Rewrite(a, "job", "transcribed") /\ transcript' = TRUE
     \/ Proceed(a, "job", "done") /\ UNCHANGED <<todo, transcript>>
  /\ UNCHANGED <<file, meta, tagsFile, started, kind, held, copy>>

\* transcribe_task: the transcript is stored before the status.
Transcribe(a) ==
  /\ kind[a] = "transcribe"
  /\ \/ Rewrite(a, "job", "transcribed") /\ transcript' = TRUE
     \/ Rewrite(a, "job", "append") /\ UNCHANGED transcript
  /\ UNCHANGED <<file, meta, tagsFile, started, kind, held, copy>>

\* tag_task loads the dictionary it will save at its end.
TagBegins(a) ==
  /\ kind[a] = "tag"
  /\ \/ Readable /\ Proceed(a, "job", "tag") /\ copy' = [copy EXCEPT ![a] = meta]
     \/ ~Readable /\ Proceed(a, "job", "done") /\ UNCHANGED copy
  /\ UNCHANGED <<file, meta, transcript, tagsFile, started, kind, todo, held>>

Tag(a) ==
  /\ \/ /\ transcript
        /\ Rewrite(a, "tag", "tagged")
        /\ tagsFile' = TRUE
        /\ copy' = [copy EXCEPT ![a].tags = TRUE]
     \/ /\ Rewrite(a, "tag", "append")
        /\ UNCHANGED <<tagsFile, copy>>
  /\ UNCHANGED <<file, meta, transcript, started, kind, held>>

Summarize(a) ==
  /\ kind[a] = "summarize"
  /\ \/ transcript /\ Rewrite(a, "job", "summarized") /\ tagsFile' = TRUE
     \/ Rewrite(a, "job", "append") /\ UNCHANGED tagsFile
  /\ UNCHANGED <<file, meta, transcript, started, kind, held, copy>>

\* A server or worker process dies, and what it held with it; without a queue
\* all operations are in one process.
Crash(a) ==
  /\ Crashes
  /\ stage[a] \notin {"idle", "done", "dead"}
  /\ LET dies == {b \in Actors : b = a \/ (Exclusive /\ stage[b] \notin {"idle", "done"})}
     IN  /\ stage' = [b \in Actors |-> IF b \in dies THEN "dead" ELSE stage[b]]
         /\ todo' = [b \in Actors |-> IF b \in dies THEN "none" ELSE todo[b]]
         /\ held' = [b \in Actors |-> IF b \in dies THEN NoMeta ELSE held[b]]
         /\ copy' = [b \in Actors |-> IF b \in dies THEN NoMeta ELSE copy[b]]
  /\ UNCHANGED <<file, meta, transcript, tagsFile, started, kind>>

Work(a) ==
  \/ Load(a) \/ Truncate(a) \/ Write(a)
  \/ Transcribe(a) \/ TagBegins(a) \/ Tag(a) \/ Summarize(a)

CaptureNext == \E a \in Actors :
  \/ SaveBegins(a) \/ SaveRejected(a) \/ SaveUploaded(a)
  \/ \E k \in Kinds : Request(a, k)
  \/ Work(a)
  \/ Crash(a)

CaptureSpec == CaptureInit /\ [][CaptureNext]_captureVars

\* A handler that runs, a thread that was joined and a job in the queue go on;
\* nothing is assumed of new requests and of uploads.
CaptureFairSpec == CaptureSpec /\ \A a \in Actors : WF_captureVars(Work(a))

-------------------------------------------------------------------------------
(* Properties.                                                             *)

\* The status never runs ahead of the files, in whatever order the rewrites of
\* handlers and jobs overwrite each other and wherever one of them dies:
\* TRANSCRIBED and DONE mean that there is a transcript to read, DONE and the
\* tags in meta.json that there are tags to search.
Backed(m) ==
  /\ m.status \in {"TRANSCRIBED", "DONE"} => transcript
  /\ m.status = "DONE" \/ m.tags => tagsFile
StatusIsBacked == file = "whole" => Backed(meta)

\* No rewrite loses the session_id and created_at of a session that was
\* started: list_sessions and archive_old_sessions skip a session without them.
IdentityKept == started /\ file = "whole" => meta.id

\* A session is in error only together with the error that explains it.
ErrorIsExplained == file = "whole" /\ meta.status = "ERROR" => meta.errors

\* A session does not stay in a processing status: the operation that set it,
\* or a later one, sets another, even when it fails.
ProcessingEnds ==
  file = "whole" /\ meta.status \in Processing
    ~> file = "whole" /\ meta.status \notin Processing

Quiet == \A a \in Actors : stage[a] \in {"idle", "done", "dead"}

\* When all is done and every transcription of the session succeeded, its
\* status says so ("ensure session status reflects successful transcription",
\* app/tasks.py:103).
TranscriptionShows ==
  /\ Quiet
  /\ \A a \in Actors : kind[a] = "transcribe" => stage[a] = "done" /\ todo[a] = "transcribed"
  /\ \E a \in Actors : kind[a] = "transcribe"
  /\ \A a \in Actors : kind[a] \in {"none", "save", "transcribe"}
  => meta.status = "TRANSCRIBED"

\* When nobody is writing, list_sessions can read the session, or skips it
\* ("Only include sessions with valid metadata", app/session_store.py:444).
ListingAnswers == Quiet => Readable
=============================================================================

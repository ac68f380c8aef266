------------------------------ MODULE MCServerParts ------------------------------
(***************************************************************************)
(* Instances of the small parts of the server for TLC, in one run: part,   *)
(* chosen at the start, is the one that moves, and every other part stays  *)
(* in an initial state.                                                    *)
(***************************************************************************)
EXTENDS RefreshGuard, CaptureSession, LlamaHealth, AsyncTtlCache, MusicSockets, TLC

VARIABLE part

partVars == <<part, vars, captureVars, llamaVars, cacheVars, musicVars>>

Parts == {"guard", "capture", "llama", "cache", "music"}

\* A part that does not move has one initial state.
PartsInit ==
  /\ part \in Parts
  /\ Init /\ CaptureInit /\ LlamaInit /\ CacheInit /\ MusicInit
  /\ part # "guard" => limit = 1
  /\ part # "capture" => started
  /\ part # "llama" => up

Still(p, v) == IF part = p THEN TRUE ELSE UNCHANGED v

PartsNext ==
  /\ UNCHANGED part
  /\ \/ part = "guard" /\ Next
     \/ part = "capture" /\ CaptureNext
     \/ part = "llama" /\ LlamaNext
     \/ part = "cache" /\ CacheNext
     \/ part = "music" /\ MusicNext
  /\ Still("guard", vars)
  /\ Still("capture", captureVars) /\ Still("llama", llamaVars)
  /\ Still("cache", cacheVars) /\ Still("music", musicVars)

\* The fairness of each part, for the part that moves.
PartsFairness ==
  /\ \A a \in Actors : WF_captureVars(part = "capture" /\ Work(a))
  /\ WF_llamaVars(part = "llama" /\ Scheduler)
  /\ WF_llamaVars(part = "llama" /\ Tick)
  /\ \A c \in Checkers : WF_llamaVars(part = "llama" /\ Finish(c))
  /\ \A s \in Streams : WF_llamaVars(part = "llama" /\ Stream(s))
  /\ \A c \in Callers : WF_cacheVars(part = "cache" /\ Progress(c))
  /\ \A s \in Sockets : WF_musicVars(part = "music" /\ Handler(s))

PartsSpec == PartsInit /\ [][PartsNext]_partVars /\ PartsFairness
=============================================================================

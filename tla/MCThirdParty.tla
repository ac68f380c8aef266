------------------------------ MODULE MCThirdParty ------------------------------
(***************************************************************************)
(* Instances of TokenRefresh and SpotifyConnect for TLC, in one run: part, *)
(* chosen at the start, is the one that moves, the other stays in an       *)
(* initial state.  SpotifyConnect has two parts: the callbacks of one flow *)
(* in several workers, which is what the transaction store has to cope     *)
(* with, and those of several flows in one worker, which race for the      *)
(* identity of one account.                                                *)
(***************************************************************************)
EXTENDS MCTokenRefresh, SpotifyConnect

CONSTANTS OneFlow, OneWorker

VARIABLE part

PartsInit ==
  /\ part \in {"refresh", "store", "link"}
  /\ Init /\ ConnectInit
  /\ part # "refresh" => \A c, d \in Calls : process[c] = process[d]

\* Nobody else begins a flow, or is asked.
OnlyOneFlow == \A f \in Flows \ {OneFlow} : owner'[f] = Nil
OnlyOneWorker ==
  /\ \A w \in Workers \ {OneWorker} : memory'[w] = {}
  /\ \A c \in Callbacks : cb'[c].on \in {OneWorker, Nil}

PartsNext ==
  /\ UNCHANGED part
  /\ \/ part = "refresh" /\ Next /\ UNCHANGED connectVars
     \/ part = "store" /\ ConnectNext /\ OnlyOneFlow /\ UNCHANGED vars
     \/ part = "link" /\ ConnectNext /\ OnlyOneWorker /\ UNCHANGED vars

PartsSpec == PartsInit /\ [][PartsNext]_<<part, vars, connectVars>>
===============================================================================

------------------------------ MODULE MusicSockets ------------------------------
(***************************************************************************)
(* The connection registry of app/ws_manager.py (WSConnectionManager) and  *)
(* the handlers of /v1/ws/music that use it (app/api/music_ws.py), for one *)
(* user whose clients connect again and again.  The registry keeps ONE     *)
(* connection per user and is changed under an asyncio.Lock, which is held *)
(* while a socket is being closed.                                         *)
(*                                                                         *)
(* Nothing calls the manager's start or stop: its cleaning and heartbeat   *)
(* loops do not run, and the handlers alone tidy up.                       *)
(***************************************************************************)
EXTENDS FiniteSets

CONSTANTS
  Sockets,    \* the user's connections, each with a handler
  NoSocket    \* nobody holds the lock, nothing is registered

ASSUME SocketsAssumption == NoSocket \notin Sockets

VARIABLES
  reg,        \* _connections[uid], or NoSocket
  socketLock, \* who holds _lock across an await, or NoSocket
  shut,       \* the sockets that have been closed, by either side
  dead,       \* the sockets whose state has is_alive = False
  victim,     \* the connection the lock holder is closing
  handler     \* socket -> where its handler is

musicVars == <<reg, socketLock, shut, dead, victim, handler>>

Registry == Sockets \cup {NoSocket}

\* The lock is held by the one handler that closes a connection, and by nobody else.
MusicTypeOK ==
  /\ reg \in Registry
  /\ socketLock \in Registry
  /\ shut \in SUBSET Sockets
  /\ dead \in SUBSET Sockets
  /\ victim \in Registry
  /\ socketLock = NoSocket <=> victim = NoSocket
  /\ handler \in [Sockets -> {"new", "adding", "replacing", "serving", "unlisted",
                        "leaving", "removing", "gone"}]
  /\ \A c \in Sockets : handler[c] \in {"replacing", "removing"} <=> socketLock = c

MusicInit ==
  /\ reg = NoSocket
  /\ socketLock = NoSocket
  /\ shut = {}
  /\ dead = {}
  /\ victim = NoSocket
  /\ handler = [c \in Sockets |-> "new"]

HandlerMove(c, from, to) ==
  /\ handler[c] = from
  /\ handler' = [handler EXCEPT ![c] = to]

\* Mutant: the lock is left before the close.
StartClosingUnlocked(p) ==
  /\ UNCHANGED socketLock
  /\ victim' = reg

\* WSConnectionState.close is awaited by p, which holds the lock meanwhile.
StartClosing(p) ==
  /\ socketLock' = p
  /\ victim' = reg

\* The close has ended, well or not: the state is not alive any more.
Closed ==
  /\ socketLock' = NoSocket
  /\ victim' = NoSocket
  /\ shut' = shut \cup {victim}
  /\ dead' = dead \cup {victim}

-------------------------------------------------------------------------------
(* The handler.                                                             *)

\* The socket is accepted.
Accept(c) ==
  /\ HandlerMove(c, "new", "adding")
  /\ UNCHANGED <<reg, socketLock, shut, dead, victim>>

\* The hello cannot be sent: the handler returns.
HelloFails(c) ==
  /\ HandlerMove(c, "adding", "gone")
  /\ shut' = shut \cup {c}
  /\ UNCHANGED <<reg, socketLock, dead, victim>>

\* The task that fetches the manager has not run yet: the handler serves a
\* connection that is in no registry, and will remove nothing.
AddSkipped(c) ==
  /\ HandlerMove(c, "adding", "unlisted")
  /\ UNCHANGED <<reg, socketLock, shut, dead, victim>>

UnlistedEnds(c) ==
  /\ HandlerMove(c, "unlisted", "gone")
  /\ shut' = shut \cup {c}
  /\ UNCHANGED <<reg, socketLock, dead, victim>>

\* add_connection, the user has no connection: no await.
AddFirst(c) ==
  /\ socketLock = NoSocket /\ reg = NoSocket
  /\ HandlerMove(c, "adding", "serving")
  /\ reg' = c
  /\ UNCHANGED <<socketLock, shut, dead, victim>>

\* add_connection, the user has one: it is closed first ...
AddReplacing(c) ==
  /\ socketLock = NoSocket /\ reg # NoSocket
  /\ HandlerMove(c, "adding", "replacing")
  /\ StartClosing(c)
  /\ UNCHANGED <<reg, shut, dead>>

\* ... and then replaced.
AddReplaced(c) ==
  /\ HandlerMove(c, "replacing", "serving")
  /\ reg' = c
  /\ Closed

\* The client goes away.
ClientLeaves(c) ==
  /\ handler[c] \in {"adding", "replacing", "serving", "unlisted"}
  /\ c \notin shut
  /\ shut' = shut \cup {c}
  /\ UNCHANGED <<reg, socketLock, dead, victim, handler>>

\* The message loop ends: websocket.disconnect was received, or the last pong is
\* too old and the handler closes the socket itself.
LoopEnds(c) ==
  /\ HandlerMove(c, "serving", "leaving")
  /\ shut' = shut \cup {c}
  /\ UNCHANGED <<reg, socketLock, dead, victim>>

\* Mutant: the handler's clean-up spares a connection that is not alive.
RemoveIfAlive(c) ==
  /\ socketLock = NoSocket
  /\ reg = NoSocket \/ reg \in dead
  /\ HandlerMove(c, "leaving", "gone")
  /\ UNCHANGED <<reg, socketLock, shut, dead, victim>>

\* remove_connection, the user has no connection.
RemoveNothing(c) ==
  /\ socketLock = NoSocket /\ reg = NoSocket
  /\ HandlerMove(c, "leaving", "gone")
  /\ UNCHANGED <<reg, socketLock, shut, dead, victim>>

\* remove_connection, by USER: the registered connection is closed, whichever
\* handler it belongs to ...
RemoveStart(c) ==
  /\ socketLock = NoSocket /\ reg # NoSocket
  /\ HandlerMove(c, "leaving", "removing")
  /\ StartClosing(c)
  /\ UNCHANGED <<reg, shut, dead>>

\* Mutant: the close of a connection removes it again, under the same lock.
RemoveDoneReentrant(c) ==
  /\ socketLock = NoSocket
  /\ HandlerMove(c, "removing", "gone")
  /\ reg' = NoSocket
  /\ Closed

\* ... and forgotten.
RemoveDone(c) ==
  /\ HandlerMove(c, "removing", "gone")
  /\ reg' = NoSocket
  /\ Closed

\* A broadcast to the registered connections fails on a socket that is shut: the
\* state is marked, the entry stays.
SendFails(c) ==
  /\ reg = c
  /\ c \in shut
  /\ dead' = dead \cup {c}
  /\ UNCHANGED <<reg, socketLock, shut, victim, handler>>

Handler(c) ==
  \/ AddFirst(c) \/ AddReplacing(c) \/ AddReplaced(c)
  \/ (c \in shut /\ (LoopEnds(c) \/ UnlistedEnds(c)))
  \/ RemoveNothing(c) \/ RemoveStart(c) \/ RemoveDone(c)

MusicNext ==
  \E c \in Sockets :
    \/ Accept(c) \/ HelloFails(c) \/ AddSkipped(c) \/ AddFirst(c) \/ AddReplacing(c)
    \/ AddReplaced(c) \/ ClientLeaves(c) \/ LoopEnds(c) \/ UnlistedEnds(c)
    \/ RemoveNothing(c) \/ RemoveStart(c) \/ RemoveDone(c) \/ SendFails(c)

MusicSpec == MusicInit /\ [][MusicNext]_musicVars

\* asyncio runs what is ready, a close ends, and a socket that is shut delivers
\* its disconnect.
MusicFairness == \A c \in Sockets : WF_musicVars(Handler(c))
MusicFairSpec == MusicSpec /\ MusicFairness

-------------------------------------------------------------------------------
(* A registered connection has a handler that has still to clean up: no     *)
(* entry outlives its handler, although each handler removes whatever is    *)
(* registered for the user, and a replaced one cleans up after its          *)
(* successor was added.                                                     *)
RegisteredIsServed == reg # NoSocket => handler[reg] # "gone"

(* A handler whose socket is shut ends: the lock that is held across the    *)
(* close of another socket is always given back.                            *)
ShutHandlersEnd == \A c \in Sockets : c \in shut ~> handler[c] = "gone"
=============================================================================

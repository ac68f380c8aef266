------------------------------ MODULE VendorHealth ------------------------------
(***************************************************************************)
(* The vendor health states of app/health.py (VendorHealthTracker) under   *)
(* the endpoints that read and clear them (app/api/health.py).  The        *)
(* endpoints are coroutines that never await, all on the one thread of the *)
(* event loop; _vendor_health_lock is a threading.Lock, which its own      *)
(* holder cannot take again.                                               *)
(*                                                                         *)
(* Failures are not counted: nothing in the running system records one.    *)
(***************************************************************************)
EXTENDS FiniteSets

CONSTANTS
  Requests,   \* the requests to the three endpoints
  Vendors,    \* the vendor names they carry
  None        \* nobody

VARIABLES
  tracked,    \* the vendors that have an entry in _vendor_health_states
  lock,       \* the request that holds _vendor_health_lock, or None
  thread,     \* the request the event loop is running, or None
  todo,       \* the vendors the running status request has still to describe
  at          \* request -> where it is

vars == <<tracked, lock, thread, todo, at>>

TypeOK ==
  /\ tracked \in SUBSET Vendors
  /\ lock \in Requests \cup {None}
  /\ thread \in Requests \cup {None}
  /\ todo \in SUBSET Vendors
  /\ at \in [Requests -> {"new", "asked", "describing", "waiting", "answered"}]

Init ==
  /\ tracked = {}
  /\ lock = None
  /\ thread = None
  /\ todo = {}
  /\ at = [r \in Requests |-> "new"]

Move(r, from, to) ==
  /\ at[r] = from
  /\ at' = [at EXCEPT ![r] = to]

\* A request arrives.
Ask(r) ==
  /\ Move(r, "new", "asked")
  /\ UNCHANGED <<tracked, lock, thread, todo>>

\* GET /v1/ping: get_vendor_health_info, whose get_vendor_state makes an entry
\* for a vendor that has none.  The lock is taken and given back on the way.
Ping(r, v) ==
  /\ thread = None /\ lock = None
  /\ Move(r, "asked", "answered")
  /\ tracked' = tracked \cup {v}
  /\ UNCHANGED <<lock, thread, todo>>

\* GET /v1/ping?clear=true: clear_vendor_health.
Clear(r, v) ==
  /\ thread = None /\ lock = None
  /\ Move(r, "asked", "answered")
  /\ tracked' = tracked \ {v}
  /\ UNCHANGED <<lock, thread, todo>>

\* GET /v1/vendor-health: get_all_vendor_health_info takes the lock ...
Status(r) ==
  /\ thread = None /\ lock = None
  /\ Move(r, "asked", "describing")
  /\ thread' = r
  /\ lock' = r
  /\ todo' = tracked
  /\ UNCHANGED tracked

\* ... asks get_vendor_health_info of each vendor, which waits for the lock
\* before it reads the state ...
DescribeWait(r) ==
  /\ Move(r, "describing", "waiting")
  /\ todo # {}
  /\ UNCHANGED <<tracked, lock, thread, todo>>

Describe(r, v) ==
  /\ Move(r, "waiting", "describing")
  /\ v \in todo
  /\ lock = None
  /\ todo' = todo \ {v}
  /\ UNCHANGED <<tracked, lock, thread>>

\* ... and gives the lock back when every vendor is described.
StatusDone(r) ==
  /\ Move(r, "describing", "answered")
  /\ todo = {}
  /\ thread' = None
  /\ lock' = None
  /\ UNCHANGED <<tracked, todo>>

Work(r) ==
  \/ \E v \in Vendors : Ping(r, v) \/ Clear(r, v) \/ Describe(r, v)
  \/ Status(r) \/ DescribeWait(r) \/ StatusDone(r)

Next == \E r \in Requests : Ask(r) \/ Work(r)

\* The event loop runs what it can run.
Spec == Init /\ [][Next]_vars /\ \A r \in Requests : WF_vars(Work(r))

-------------------------------------------------------------------------------
(* Every request to the health endpoints is answered: the routing table     *)
(* lists /v1/vendor-health as answering 200 with "All vendor health status" *)
(* (docs/ROUTING_MATRIX.md:65).                                             *)
EveryRequestAnswered ==
  \A r \in Requests : at[r] = "asked" ~> at[r] = "answered"
=============================================================================

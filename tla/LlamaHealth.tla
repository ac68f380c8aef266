------------------------------ MODULE LlamaHealth ------------------------------
(***************************************************************************)
(* The health flag of the local model (app/llama_integration.py): the      *)
(* chain of health checks, each of which schedules the next one, the       *)
(* checks asked for in between (get_status), the streams of ask_llama that *)
(* set the flag too, and the circuit breaker the routers look at.          *)
(*                                                                         *)
(* Time is counted in ticks and every clock runs from the last event and   *)
(* stops at the limit it is compared with, so that time itself has no      *)
(* bound.  What a coroutine does between two awaits is one action.         *)
(***************************************************************************)
EXTENDS Naturals, FiniteSets

CONSTANTS
  Checkers,     \* the calls of _check_and_set_flag that may run at a time
  Streams,      \* the calls of ask_llama that may run at a time
  Throttle,     \* success_throttle_delay (60 s)
  FirstDelay,   \* the first next_check_delay (5 s)
  MaxDelay,     \* max_check_delay (300 s)
  Timeout,      \* HEALTH_TIMEOUT: the longest a check takes
  Window,       \* the 60 s after which failures are counted anew
  Cooldown,     \* the 120 s after which an open breaker is reset
  MaxOutages,   \* bound: how often the backend goes down
  Never         \* no job, not running

VARIABLES
  up,           \* whether the backend answers
  outages,      \* how often it went down
  healthy,      \* LLAMA_HEALTHY
  succeeded,    \* has_ever_succeeded
  sinceSuccess, \* time since last_success_ts: the START of the last good check
  sinceCheck,   \* time since last_check_ts
  delay,        \* next_check_delay
  job,          \* time until the job "llama_health_check" is due, or Never
  age,          \* checker -> how long its check has been running, or Never
  launched,     \* init_llama has made the first check
  failures,     \* llama_failures
  open,         \* llama_circuit_open
  sinceFailure, \* time since llama_last_failure_ts
  stream        \* stream -> "idle", "ping" or "tokens"

clocks == <<sinceSuccess, sinceCheck, delay, job, age>>
breaker == <<failures, open, sinceFailure>>
llamaVars == <<up, outages, healthy, succeeded, sinceSuccess, sinceCheck, delay, job, age,
               launched, failures, open, sinceFailure, stream>>

Least(a, b) == IF a <= b THEN a ELSE b

HealthTypeOK ==
  /\ up \in BOOLEAN
  /\ outages \in 0..MaxOutages
  /\ healthy \in BOOLEAN
  /\ succeeded \in BOOLEAN
  /\ sinceSuccess \in 0..Throttle
  /\ sinceCheck \in 0..MaxDelay
  /\ delay \in FirstDelay..MaxDelay
  /\ job \in {Never} \cup 0..(Throttle + MaxDelay)
  /\ age \in [Checkers -> {Never} \cup 0..Timeout]
  /\ launched \in BOOLEAN
  /\ failures \in 0..3
  /\ open \in BOOLEAN
  /\ sinceFailure \in 0..Cooldown
  /\ stream \in [Streams -> {"idle", "ping", "tokens"}]

LlamaInit ==
  /\ up \in BOOLEAN
  /\ outages = 0
  /\ healthy = TRUE
  /\ succeeded = FALSE
  /\ sinceSuccess = Throttle
  /\ sinceCheck = MaxDelay
  /\ delay = FirstDelay
  /\ job = Never
  /\ age = [c \in Checkers |-> Never]
  /\ launched = FALSE
  /\ failures = 0
  /\ open = FALSE
  /\ sinceFailure = Cooldown
  /\ stream = [s \in Streams |-> "idle"]

Running == {c \in Checkers : age[c] # Never}

-------------------------------------------------------------------------------
(* _check_and_set_flag.                                                     *)

\* Mutant: a check is also throttled when the delay has just passed.
ThrottledLonger ==
  IF succeeded THEN sinceSuccess <= Throttle ELSE sinceCheck < delay

\* The two early returns: a success less than Throttle ago, or, before the first
\* success, a check less than the back-off ago.
Throttled ==
  IF succeeded THEN sinceSuccess < Throttle ELSE sinceCheck < delay

\* A check that is not throttled notes the time and asks the backend.
Begin(c) ==
  /\ age[c] = Never
  /\ age' = [age EXCEPT ![c] = 0]
  /\ sinceCheck' = 0
  /\ UNCHANGED <<up, outages, healthy, succeeded, sinceSuccess, delay, breaker, stream>>

\* init_llama makes the first check.
Startup(c) ==
  /\ ~launched
  /\ launched' = TRUE
  /\ Begin(c)
  /\ UNCHANGED job

\* The job is due: it leaves the scheduler and runs a check ...
Fire(c) ==
  /\ job = 0
  /\ ~Throttled
  /\ job' = Never
  /\ Begin(c)
  /\ UNCHANGED launched

\* ... or is skipped, and nothing is scheduled.
FireSkipped ==
  /\ job = 0
  /\ Throttled
  /\ job' = Never
  /\ UNCHANGED <<up, outages, healthy, succeeded, sinceSuccess, sinceCheck, delay, age,
                 launched, breaker, stream>>

\* get_status checks on demand, whatever is scheduled or running.
OnDemand(c) ==
  /\ launched
  /\ ~Throttled
  /\ Begin(c)
  /\ UNCHANGED <<job, launched>>

\* The backend answered: last_success_ts is the time the check BEGAN, and the
\* next check replaces the one that was scheduled.
CheckSucceeds(c) ==
  /\ age[c] # Never
  /\ up
  /\ healthy' = TRUE
  /\ succeeded' = TRUE
  /\ sinceSuccess' = Least(age[c], Throttle)
  /\ delay' = FirstDelay
  /\ age' = [age EXCEPT ![c] = Never]
  /\ job' = Throttle
  /\ UNCHANGED <<up, outages, sinceCheck, launched, breaker, stream>>

\* Mutant: a failed check does not schedule the next one.
CheckFailsLast(c) ==
  /\ age[c] # Never
  /\ ~up
  /\ healthy' = FALSE
  /\ age' = [age EXCEPT ![c] = Never]
  /\ UNCHANGED <<up, outages, succeeded, sinceSuccess, sinceCheck, delay, job, launched,
                 breaker, stream>>

\* Mutant: the back-off doubles without a limit.
CheckFailsUncapped(c) ==
  /\ age[c] # Never
  /\ ~up
  /\ healthy' = FALSE
  /\ delay' = IF succeeded THEN delay ELSE 2 * delay
  /\ age' = [age EXCEPT ![c] = Never]
  /\ job' = IF succeeded THEN Throttle ELSE delay'
  /\ UNCHANGED <<up, outages, succeeded, sinceSuccess, sinceCheck, launched, breaker, stream>>

\* It did not: the back-off doubles until the first success, and the next check
\* replaces the one that was scheduled.
CheckFails(c) ==
  /\ age[c] # Never
  /\ ~up
  /\ healthy' = FALSE
  /\ delay' = IF succeeded THEN delay ELSE Least(2 * delay, MaxDelay)
  /\ age' = [age EXCEPT ![c] = Never]
  /\ job' = IF succeeded THEN Throttle ELSE delay'
  /\ UNCHANGED <<up, outages, succeeded, sinceSuccess, sinceCheck, launched, breaker, stream>>

-------------------------------------------------------------------------------
(* ask_llama and the breaker.                                               *)

\* _record_failure.
RecordFailure ==
  LET n == IF sinceFailure >= Window THEN 1 ELSE Least(failures + 1, 3) IN
  /\ failures' = n
  /\ open' = (open \/ n >= 3)
  /\ sinceFailure' = 0

\* _reset_failures.
ResetFailures ==
  /\ failures' = 0
  /\ open' = FALSE
  /\ sinceFailure' = Cooldown

\* The routers ask only a model that is healthy and whose breaker is closed.
AskLlama(s) ==
  /\ stream[s] = "idle"
  /\ healthy /\ ~open
  /\ stream' = [stream EXCEPT ![s] = "ping"]
  /\ UNCHANGED <<up, outages, healthy, succeeded, clocks, launched, breaker>>

\* The ping fails: no tokens, and no failure is counted.
PingFails(s) ==
  /\ stream[s] = "ping"
  /\ ~up
  /\ healthy' = FALSE
  /\ stream' = [stream EXCEPT ![s] = "idle"]
  /\ UNCHANGED <<up, outages, succeeded, clocks, launched, breaker>>

\* It succeeds: an open breaker lets the stream pass once Cooldown is over.
PingSucceeds(s) ==
  /\ stream[s] = "ping"
  /\ up
  /\ IF open /\ sinceFailure >= Cooldown THEN ResetFailures ELSE UNCHANGED breaker
  /\ stream' = [stream EXCEPT ![s] =
                  IF open /\ sinceFailure < Cooldown THEN "idle" ELSE "tokens"]
  /\ UNCHANGED <<up, outages, healthy, succeeded, clocks, launched>>

\* The stream ends well, or fails with the backend down.
StreamEnds(s) ==
  /\ stream[s] = "tokens"
  /\ up
  /\ healthy' = TRUE
  /\ ResetFailures
  /\ stream' = [stream EXCEPT ![s] = "idle"]
  /\ UNCHANGED <<up, outages, succeeded, clocks, launched>>

StreamFails(s) ==
  /\ stream[s] = "tokens"
  /\ ~up
  /\ healthy' = FALSE
  /\ RecordFailure
  /\ stream' = [stream EXCEPT ![s] = "idle"]
  /\ UNCHANGED <<up, outages, succeeded, clocks, launched>>

-------------------------------------------------------------------------------
(* The environment.                                                         *)

\* A tick.  A due job is run at once, and no check outlives its timeout.
Tick ==
  /\ job # 0
  /\ \A c \in Running : age[c] < Timeout
  /\ sinceSuccess' = Least(sinceSuccess + 1, Throttle)
  /\ sinceCheck' = Least(sinceCheck + 1, MaxDelay)
  /\ sinceFailure' = Least(sinceFailure + 1, Cooldown)
  /\ job' = IF job = Never THEN Never ELSE job - 1
  /\ age' = [c \in Checkers |-> IF age[c] = Never THEN Never ELSE age[c] + 1]
  /\ UNCHANGED <<up, outages, healthy, succeeded, delay, launched, failures, open, stream>>

GoDown ==
  /\ up
  /\ outages < MaxOutages
  /\ up' = FALSE
  /\ outages' = outages + 1
  /\ UNCHANGED <<healthy, succeeded, clocks, launched, breaker, stream>>

ComeUp ==
  /\ ~up
  /\ up' = TRUE
  /\ UNCHANGED <<outages, healthy, succeeded, clocks, launched, breaker, stream>>

Finish(c) == CheckSucceeds(c) \/ CheckFails(c)
Stream(s) == PingFails(s) \/ PingSucceeds(s) \/ StreamEnds(s) \/ StreamFails(s)
Scheduler == FireSkipped \/ \E c \in Checkers : Startup(c) \/ Fire(c)

LlamaNext ==
  \/ Scheduler
  \/ \E c \in Checkers : OnDemand(c) \/ Finish(c)
  \/ \E s \in Streams : AskLlama(s) \/ Stream(s)
  \/ Tick \/ GoDown \/ ComeUp

\* The scheduler, the clock and the network go on; nobody has to ask.
LlamaFairness ==
  /\ WF_llamaVars(Scheduler) /\ WF_llamaVars(Tick)
  /\ \A c \in Checkers : WF_llamaVars(Finish(c))
  /\ \A s \in Streams : WF_llamaVars(Stream(s))

LlamaSpec == LlamaInit /\ [][LlamaNext]_llamaVars
LlamaFairSpec == LlamaSpec /\ LlamaFairness

-------------------------------------------------------------------------------
(* The chain of checks never ends: once it has begun, a check is running or *)
(* one is scheduled.  A skipped job schedules nothing, so this needs that a *)
(* job is skipped only while a later check will schedule the next.          *)
ChecksGoOn == launched => job # Never \/ Running # {}

(* A backend that stays up is found healthy and remains so, without anybody *)
(* asking.                                                                  *)
RecoveryIsNoticed == <>[]up => <>[]healthy
=============================================================================

--------------------------- MODULE LlamaHealthProofs ---------------------------
(***************************************************************************)
(* ChecksGoOn, for every number of checkers and streams and all delays.    *)
(*                                                                         *)
(* A job that is due while its check is throttled schedules nothing.  This *)
(* ends the chain only when no check runs, and then the job was set by the *)
(* last check that ended: by the time it is due the throttle of that check *)
(* is over.                                                                *)
(***************************************************************************)
EXTENDS LlamaHealth, TLAPS

\* The settings are numbers of ticks, the back-off starts below its limit, and
\* Never is no number.
Settings ==
  /\ Throttle \in Nat /\ FirstDelay \in Nat /\ MaxDelay \in Nat
  /\ Timeout \in Nat /\ Cooldown \in Nat /\ MaxOutages \in Nat
  /\ FirstDelay <= MaxDelay
  /\ Never \notin Nat

\* A job that nobody overtakes is not due before its check is allowed.
JobOutlastsThrottle ==
  Running = {} /\ job # Never =>
    IF succeeded THEN sinceSuccess + job >= Throttle ELSE sinceCheck + job >= delay

ChainInv == HealthTypeOK /\ ChecksGoOn /\ JobOutlastsThrottle

-------------------------------------------------------------------------------
\* Before the first check there is no chain to keep.
LEMMA ChainInit == ASSUME Settings PROVE LlamaInit => ChainInv
<1> SUFFICES ASSUME Settings, LlamaInit PROVE ChainInv
  OBVIOUS
<1> USE DEF Settings, LlamaInit
<1>1. up \in BOOLEAN /\ healthy \in BOOLEAN /\ succeeded \in BOOLEAN /\ launched \in BOOLEAN
      /\ open \in BOOLEAN
  OBVIOUS
<1>2. HealthTypeOK
  BY <1>1 DEF HealthTypeOK
<1>3. ChecksGoOn /\ JobOutlastsThrottle
  BY DEF ChecksGoOn, JobOutlastsThrottle
<1> QED
  BY <1>2, <1>3 DEF ChainInv

\* Every check that begins is running, and leaves a type-correct state.
LEMMA BeginKeeps ==
  ASSUME Settings, ChainInv, NEW c \in Checkers, Startup(c) \/ Fire(c) \/ OnDemand(c)
  PROVE  ChainInv'
<1> USE DEF ChainInv, Settings
<1>1. Begin(c)
  BY DEF Startup, Fire, OnDemand
<1>2. age'[c] = 0 /\ c \in Running'
  BY <1>1 DEF Begin, Running, HealthTypeOK
<1>3. launched' \in BOOLEAN /\ job' \in {Never} \cup 0..(Throttle + MaxDelay)
  BY DEF Startup, Fire, OnDemand, HealthTypeOK
<1>4. age' \in [Checkers -> {Never} \cup 0..Timeout] /\ sinceCheck' \in 0..MaxDelay
  BY <1>1 DEF Begin, HealthTypeOK
<1>5. HealthTypeOK'
  BY <1>1, <1>3, <1>4 DEF Begin, breaker, HealthTypeOK
<1>6. ChecksGoOn' /\ JobOutlastsThrottle'
  BY <1>2 DEF ChecksGoOn, JobOutlastsThrottle
<1> QED
  BY <1>6, <1>5

\* A skipped job leaves a running check behind: otherwise it were not skipped.
LEMMA SkipKeeps ==
  ASSUME Settings, ChainInv, FireSkipped
  PROVE  ChainInv'
<1> USE DEF ChainInv, Settings, FireSkipped
<1>1. Running # {}
  BY DEF JobOutlastsThrottle, Throttled, HealthTypeOK
<1>2. HealthTypeOK'
  BY DEF HealthTypeOK, breaker
<1>3. ChecksGoOn' /\ JobOutlastsThrottle'
  BY <1>1 DEF ChecksGoOn, JobOutlastsThrottle, Running
<1> QED
  BY <1>2, <1>3

\* A check that ends sets the job anew.
LEMMA FinishKeeps ==
  ASSUME Settings, ChainInv, NEW c \in Checkers, Finish(c)
  PROVE  ChainInv'
<1> USE DEF ChainInv, Settings
<1>1. CASE CheckSucceeds(c)
  <2> USE <1>1 DEF CheckSucceeds
  <2>1. age[c] \in Nat
    BY DEF HealthTypeOK
  <2>2. sinceSuccess' \in 0..Throttle
    BY <2>1 DEF Least
  <2>3. HealthTypeOK'
    BY <2>2 DEF HealthTypeOK, breaker
  <2>4. ChecksGoOn' /\ JobOutlastsThrottle'
    BY <2>2 DEF ChecksGoOn, JobOutlastsThrottle
  <2> QED
    BY <2>3, <2>4
<1>2. CASE CheckFails(c)
  <2> USE <1>2 DEF CheckFails
  <2>1. delay' \in FirstDelay..MaxDelay
    BY DEF HealthTypeOK, Least
  <2>2. job' \in 0..(Throttle + MaxDelay)
    BY <2>1
  <2>3. HealthTypeOK'
    BY <2>1, <2>2 DEF HealthTypeOK, breaker
  <2>4. ChecksGoOn' /\ JobOutlastsThrottle'
    BY <2>1, <2>2 DEF ChecksGoOn, JobOutlastsThrottle, HealthTypeOK
  <2> QED
    BY <2>3, <2>4
<1> QED
  BY <1>1, <1>2 DEF Finish

\* Time takes from the job what it adds to the clocks, which stop only where
\* the throttle is over.
LEMMA TickKeeps ==
  ASSUME Settings, ChainInv, Tick
  PROVE  ChainInv'
<1> USE DEF ChainInv, Settings, Tick
<1>1. /\ sinceSuccess' \in 0..Throttle
      /\ sinceCheck' \in 0..MaxDelay
      /\ sinceFailure' \in 0..Cooldown
  BY DEF HealthTypeOK, Least
<1>2. job # Never => job' = job - 1 /\ job' \in 0..(Throttle + MaxDelay)
  BY DEF HealthTypeOK
<1>3. age' \in [Checkers -> {Never} \cup 0..Timeout]
  BY DEF HealthTypeOK, Running
<1>4. HealthTypeOK'
  BY <1>1, <1>2, <1>3 DEF HealthTypeOK
<1>5. Running' = Running
  BY DEF Running, HealthTypeOK
<1>6. ChecksGoOn'
  BY <1>2, <1>5 DEF ChecksGoOn
<1>7. JobOutlastsThrottle'
  BY <1>2, <1>5 DEF JobOutlastsThrottle, HealthTypeOK, Least
<1> QED
  BY <1>4, <1>6, <1>7

\* The streams and the backend touch neither the clocks nor the job.
LEMMA StreamsKeep ==
  ASSUME Settings, ChainInv,
         GoDown \/ ComeUp \/ \E s \in Streams : AskLlama(s) \/ Stream(s)
  PROVE  ChainInv'
<1> USE DEF ChainInv, Settings
<1>1. UNCHANGED <<clocks, launched, succeeded>>
  BY DEF GoDown, ComeUp, AskLlama, Stream, PingFails, PingSucceeds, StreamEnds, StreamFails
<1>2. /\ up' \in BOOLEAN /\ healthy' \in BOOLEAN
      /\ outages' \in 0..MaxOutages
      /\ stream' \in [Streams -> {"idle", "ping", "tokens"}]
  <2>1. CASE GoDown \/ ComeUp
    <3>1. outages' \in 0..MaxOutages
      BY <2>1 DEF GoDown, ComeUp, HealthTypeOK
    <3>2. up' \in BOOLEAN /\ UNCHANGED <<healthy, stream>>
      BY <2>1 DEF GoDown, ComeUp
    <3> QED
      BY <3>1, <3>2 DEF HealthTypeOK
  <2>2. ASSUME NEW s \in Streams, AskLlama(s) \/ Stream(s)
        PROVE  /\ up' \in BOOLEAN /\ healthy' \in BOOLEAN
               /\ outages' \in 0..MaxOutages
               /\ stream' \in [Streams -> {"idle", "ping", "tokens"}]
    BY <2>2 DEF AskLlama, Stream, PingFails, PingSucceeds, StreamEnds, StreamFails, HealthTypeOK
  <2> QED
    BY <2>1, <2>2
<1>3. UNCHANGED breaker \/ ResetFailures \/ RecordFailure
  BY DEF GoDown, ComeUp, AskLlama, Stream, PingFails, PingSucceeds, StreamEnds, StreamFails
<1>4. failures' \in 0..3 /\ sinceFailure' \in 0..Cooldown
  BY <1>3 DEF breaker, ResetFailures, RecordFailure, HealthTypeOK, Least
<1>5. open' \in BOOLEAN
  <2>1. CASE UNCHANGED breaker
    <3>1. open' = open
      BY <2>1 DEF breaker
    <3> QED
      BY <3>1, Zenon DEF HealthTypeOK
  <2>2. CASE ResetFailures \/ RecordFailure
    BY <2>2 DEF ResetFailures, RecordFailure
  <2> QED
    BY <1>3, <2>1, <2>2
<1>6. HealthTypeOK'
  BY <1>1, <1>2, <1>4, <1>5 DEF HealthTypeOK, clocks
<1>7. ChecksGoOn' /\ JobOutlastsThrottle'
  BY <1>1 DEF ChecksGoOn, JobOutlastsThrottle, Running, clocks
<1> QED
  BY <1>7, <1>6

\* No step ends the chain.
LEMMA ChainNext == ASSUME Settings, ChainInv, [LlamaNext]_llamaVars PROVE ChainInv'
<1>1. CASE Scheduler
  BY <1>1, SkipKeeps, BeginKeeps DEF Scheduler
<1>2. CASE \E c \in Checkers : OnDemand(c) \/ Finish(c)
  BY <1>2, BeginKeeps, FinishKeeps
<1>3. CASE GoDown \/ ComeUp \/ \E s \in Streams : AskLlama(s) \/ Stream(s)
  BY <1>3, StreamsKeep
<1>4. CASE Tick
  BY <1>4, TickKeeps
<1>5. CASE UNCHANGED llamaVars
  BY <1>5 DEF llamaVars, ChainInv, HealthTypeOK, ChecksGoOn, JobOutlastsThrottle, Running
<1> QED
  BY <1>1, <1>2, <1>3, <1>4, <1>5 DEF LlamaNext

\* The inductive invariant of the chain, for all delays and all numbers of
\* checks and streams.
THEOREM ChainHolds == ASSUME Settings PROVE LlamaSpec => []ChainInv
BY ChainInit, ChainNext, PTL DEF LlamaSpec

\* Type correctness: every clock stays within the limit it is compared with,
\* and the back-off between its first value and its cap.
THEOREM LlamaTypeOK == ASSUME Settings PROVE LlamaSpec => []HealthTypeOK
BY ChainHolds, PTL DEF ChainInv

\* The chain of checks never ends (app/llama_integration.py:135).
THEOREM ChainNeverEnds == ASSUME Settings PROVE LlamaSpec => []ChecksGoOn
BY ChainHolds, PTL DEF ChainInv
=============================================================================

---------------------------- MODULE CircuitBreaker ----------------------------
(***************************************************************************)
(* RedisCircuitBreaker wrapped around a BullMQ worker, as the email, trust *)
(* and watchlist processors do: 'error' calls onError, 'drained' and       *)
(* 'completed' call onHealthy.  The worker is outside the repository; it   *)
(* is modelled by what the breaker and the processors use of it: a fetch   *)
(* loop that pause() stops and resume() restarts, jobs that finish after a *)
(* pause, and errors that also come from the connection itself.            *)
(***************************************************************************)
EXTENDS Naturals

CONSTANTS
    ErrorThreshold,    \* ERROR_THRESHOLD
    InitialBackoff,    \* INITIAL_BACKOFF_MS
    MaxBackoff,        \* MAX_BACKOFF_MS
    Multiplier,        \* BACKOFF_MULTIPLIER
    Concurrency,       \* jobs the worker runs at once
    BackgroundErrors   \* whether 'error' also comes from outside the fetch loop

ASSUME CBAssumption ==
    /\ ErrorThreshold \in Nat \ {0}
    /\ InitialBackoff \in Nat \ {0}
    /\ MaxBackoff \in Nat /\ MaxBackoff >= InitialBackoff
    /\ Multiplier \in Nat /\ Multiplier > 1
    /\ Concurrency \in Nat \ {0}
    /\ BackgroundErrors \in BOOLEAN

VARIABLES
    errors,     \* consecutiveErrors, saturated at ErrorThreshold
    tripped,
    backoff,    \* backoffMs
    timer,      \* resumeTimer is set and has not fired
    paused,     \* the worker's fetch loop is stopped
    fetching,   \* a fetch is waiting for Redis
    active,     \* jobs being processed
    up          \* Redis accepts commands

breakerVars == <<errors, tripped, backoff, timer>>
workerVars == <<paused, fetching, active>>
queueVars == <<errors, tripped, backoff, timer, paused, fetching, active, up>>

BreakerTypeOK ==
    /\ errors \in 0..ErrorThreshold
    /\ tripped \in BOOLEAN
    /\ backoff \in InitialBackoff..MaxBackoff
    /\ timer \in BOOLEAN
    /\ paused \in BOOLEAN
    /\ fetching \in BOOLEAN
    /\ active \in 0..Concurrency
    /\ up \in BOOLEAN

BreakerInit ==
    /\ errors = 0
    /\ tripped = FALSE
    /\ backoff = InitialBackoff
    /\ timer = FALSE
    /\ paused = FALSE
    /\ fetching = FALSE
    /\ active = 0
    /\ up \in BOOLEAN

Least(a, b) == IF a <= b THEN a ELSE b

------------------------------------------------------------------------------
(* onError of a tripped breaker: a longer backoff, and the timer anew; the
   worker is not paused again. *)
ErrorWhileTripped ==
    /\ tripped
    /\ backoff' = Least(backoff * Multiplier, MaxBackoff)
    /\ timer' = TRUE
    /\ errors' = Least(errors + 1, ErrorThreshold)
    /\ UNCHANGED <<tripped, paused>>

(* onError below the threshold only counts. *)
ErrorCounted ==
    /\ ~ tripped
    /\ errors + 1 < ErrorThreshold
    /\ errors' = errors + 1
    /\ UNCHANGED <<tripped, backoff, timer, paused>>

(* Variant carrying a bug: no probe is scheduled. *)
TripWithoutProbe ==
    /\ ~ tripped
    /\ errors + 1 >= ErrorThreshold
    /\ errors' = Least(errors + 1, ErrorThreshold)
    /\ tripped' = TRUE
    /\ paused' = TRUE
    /\ UNCHANGED <<timer, backoff>>

(* onError at the threshold trips, pauses and schedules a probe. *)
Trip ==
    /\ ~ tripped
    /\ errors + 1 >= ErrorThreshold
    /\ errors' = Least(errors + 1, ErrorThreshold)
    /\ tripped' = TRUE
    /\ paused' = TRUE
    /\ timer' = TRUE
    /\ UNCHANGED backoff

OnError == ErrorWhileTripped \/ ErrorCounted \/ Trip

(* onHealthy resets the breaker; it never calls worker.resume(). *)
OnHealthy ==
    /\ errors' = 0
    /\ tripped' = FALSE
    /\ backoff' = InitialBackoff
    /\ timer' = FALSE
    /\ UNCHANGED paused

(* Variant carrying a bug: the probe does not resume the worker. *)
ProbeWithoutResume ==
    /\ timer
    /\ timer' = FALSE
    /\ errors' = 0
    /\ UNCHANGED <<tripped, backoff, paused, fetching, active, up>>

(* The probe: scheduleResume's callback. *)
Probe ==
    /\ timer
    /\ timer' = FALSE
    /\ errors' = 0
    /\ paused' = FALSE
    /\ UNCHANGED <<tripped, backoff, fetching, active, up>>

------------------------------------------------------------------------------
(* The worker: a fetch starts while it is not paused and has a free slot. *)
StartFetch ==
    /\ ~ paused
    /\ ~ fetching
    /\ active < Concurrency
    /\ fetching' = TRUE
    /\ UNCHANGED <<breakerVars, paused, active, up>>

FetchFails ==
    /\ fetching
    /\ ~ up
    /\ fetching' = FALSE
    /\ OnError
    /\ UNCHANGED <<active, up>>

(* A job is found. *)
FetchJob ==
    /\ fetching
    /\ up
    /\ fetching' = FALSE
    /\ active' = active + 1
    /\ UNCHANGED <<breakerVars, paused, up>>

(* The queue is empty: 'drained'. *)
FetchDrained ==
    /\ fetching
    /\ up
    /\ fetching' = FALSE
    /\ OnHealthy
    /\ UNCHANGED <<active, up>>

(* A job ends well: 'completed'. *)
JobCompleted ==
    /\ active > 0
    /\ up
    /\ active' = active - 1
    /\ OnHealthy
    /\ UNCHANGED <<fetching, up>>

(* A job fails, which the processors do not report to the breaker. *)
JobFailed ==
    /\ active > 0
    /\ active' = active - 1
    /\ UNCHANGED <<breakerVars, paused, fetching, up>>

(* The connection, or the renewal of a job's lock, reports an error. *)
BackgroundError ==
    /\ BackgroundErrors
    /\ ~ up
    /\ OnError
    /\ UNCHANGED <<fetching, active, up>>

RedisChanges ==
    /\ up' = ~ up
    /\ UNCHANGED <<breakerVars, workerVars>>

BreakerNext ==
    \/ Probe
    \/ StartFetch
    \/ FetchFails
    \/ FetchJob
    \/ FetchDrained
    \/ JobCompleted
    \/ JobFailed
    \/ BackgroundError
    \/ RedisChanges

(***************************************************************************)
(* Timers fire, the fetch loop goes round, a fetch is answered and a job   *)
(* ends; Redis need never change and nothing else is promised.             *)
(***************************************************************************)
BreakerFairness ==
    /\ WF_queueVars(Probe)
    /\ WF_queueVars(StartFetch)
    /\ WF_queueVars(FetchFails \/ FetchJob \/ FetchDrained)
    /\ WF_queueVars(JobCompleted \/ JobFailed)

BreakerSpec == BreakerInit /\ [][BreakerNext]_queueVars
FairBreakerSpec == BreakerSpec /\ BreakerFairness

------------------------------------------------------------------------------
(***************************************************************************)
(* A tripped breaker always has a way back: a probe is scheduled, or the   *)
(* worker is already running and its next success closes the breaker.      *)
(***************************************************************************)
TrippedHasWayBack == tripped => timer \/ ~ paused

(***************************************************************************)
(* Once Redis stays up the worker is fetching jobs again for good, however *)
(* often the breaker had tripped before, unless something that was still   *)
(* under way when the worker was paused closed the breaker.                *)
(***************************************************************************)
NothingUnderWay == paused => active = 0 /\ ~ fetching

RecoversWithRedis == <>[]up /\ []NothingUnderWay => <>[]~ paused

(* "Redis recovered - resuming normal operation": the log line of onHealthy.
   A closed breaker would mean a worker that is not left paused. *)
ClosedMeansRunning == ~ tripped => ~ paused

==============================================================================

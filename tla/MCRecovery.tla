------------------------------ MODULE MCRecovery ------------------------------
(***************************************************************************)
(* The parts that pick up where something stopped, for TLC: session        *)
(* renewal in the browser, where one tab runs two calls at once and the    *)
(* others one; the circuit breaker of a queue worker, with the program's   *)
(* constants and seconds for milliseconds; and the onboarding wizards,     *)
(* resumed after a reload or on another device.  They share no state: each *)
(* behaviour is about one, and the others rest in an initial state.        *)
(***************************************************************************)
EXTENDS BrowserSession, CircuitBreaker, OnboardingResume

CONSTANT Busy    \* the tab with two calls

MCCalls == [t \in Requests |-> IF t = Busy THEN {"first", "second"} ELSE {"first"}]

VARIABLE turn    \* the part this behaviour is about

(* Tokens are interchangeable, so it does not matter which one the login made. *)
RecoveryInit ==
    /\ turn \in {"browser", "breaker", "wizard"}
    /\ BrowserInit /\ BreakerInit /\ ResumeInit
    /\ turn # "breaker" => up
    /\ token[CHOOSE k \in Tokens : TRUE] = "live"
    /\ turn # "wizard" => wizard = "FOUNDER" /\ question = CHOOSE q \in Questions(wizard) : TRUE

RecoveryNext ==
    /\ IF turn = "browser" THEN BrowserNext ELSE UNCHANGED vars
    /\ IF turn = "breaker" THEN BreakerNext ELSE UNCHANGED queueVars
    /\ IF turn = "wizard" THEN ResumeNext ELSE UNCHANGED resumeVars
    /\ UNCHANGED turn

(* The fairness of the first two parts.  Nothing of BrowserFairness is enabled in the
   browser's initial state; of BreakerFairness, StartFetch is. *)
FairRecoverySpec ==
    /\ RecoveryInit /\ [][RecoveryNext]_<<turn, vars, queueVars, resumeVars>>
    /\ BrowserFairness
    /\ WF_queueVars(Probe)
    /\ WF_queueVars(turn = "breaker" /\ StartFetch)
    /\ WF_queueVars(FetchFails \/ FetchJob \/ FetchDrained)
    /\ WF_queueVars(JobCompleted \/ JobFailed)

\* The breaker and the tabs are well formed, and the calls of a tab that wait for
\* a renewal have one under way, which is over when they go on.
RecoveryIsSound == BreakerTypeOK /\ ClientTypeOK /\ WaitersHaveAFlight
==============================================================================

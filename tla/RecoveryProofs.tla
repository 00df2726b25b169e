---------------------------- MODULE RecoveryProofs -----------------------------
(***************************************************************************)
(* TLAPS proofs about the parts of MCRecovery: the circuit breaker for     *)
(* every threshold, backoff and number of jobs; session renewal in the     *)
(* browser for every set of tabs and calls; and the onboarding wizards,    *)
(* resumed, for every set of roles and number of reloads.                  *)
(***************************************************************************)
EXTENDS MCRecovery, SessionsProofs
------------------------------------------------------------------------------
(* The circuit breaker of a queue worker. *)

(* Doubling and capping keeps a backoff between the first and the largest. *)
LEMMA BackoffStep ==
  ASSUME NEW b \in InitialBackoff..MaxBackoff
  PROVE  /\ Least(b * Multiplier, MaxBackoff) \in InitialBackoff..MaxBackoff
         /\ Least(b * Multiplier, MaxBackoff) >= b
<1>1. b \in Nat /\ b * Multiplier \in Nat /\ b * Multiplier >= b * 1
  BY CBAssumption
<1>2. QED BY <1>1, CBAssumption DEF Least

(* onError keeps the breaker well formed. *)
LEMMA OnErrorTyped ==
  ASSUME BreakerTypeOK, OnError
  PROVE  /\ errors' \in 0..ErrorThreshold /\ tripped' \in BOOLEAN
         /\ backoff' \in InitialBackoff..MaxBackoff
         /\ timer' \in BOOLEAN /\ paused' \in BOOLEAN
<1>1. Least(errors + 1, ErrorThreshold) \in 0..ErrorThreshold
  <2>1. ErrorThreshold \in Nat /\ errors \in Nat /\ errors <= ErrorThreshold
    BY CBAssumption DEF BreakerTypeOK
  <2>2. QED BY <2>1 DEF Least
<1>2. CASE ErrorWhileTripped
  BY <1>1, <1>2, BackoffStep DEF ErrorWhileTripped, BreakerTypeOK
<1>3. CASE ErrorCounted
  BY <1>3, CBAssumption DEF ErrorCounted, BreakerTypeOK
<1>4. CASE Trip
  <2>1. errors' \in 0..ErrorThreshold
    BY <1>1, <1>4 DEF Trip
  <2>2. QED BY <1>4, <2>1 DEF Trip, BreakerTypeOK
<1>5. QED BY <1>2, <1>3, <1>4 DEF OnError

(* A fetch is only waiting while there is a slot for the job it may bring:
   the type invariant is not inductive without it. *)
SlotFree == fetching => active < Concurrency

(* The type invariant of CircuitBreaker. *)
THEOREM TypeCorrect == BreakerSpec => []BreakerTypeOK
<1>1. BreakerInit => BreakerTypeOK /\ SlotFree
  <2>1. BreakerInit => BreakerTypeOK
    <3>1. /\ 0 \in 0..ErrorThreshold /\ 0 \in 0..Concurrency
          /\ InitialBackoff \in InitialBackoff..MaxBackoff
      BY CBAssumption
    <3>2. QED BY <3>1 DEF BreakerInit, BreakerTypeOK
  <2>2. BreakerInit => SlotFree
    BY CBAssumption DEF BreakerInit, SlotFree
  <2>3. QED BY <2>1, <2>2
<1>2. BreakerTypeOK /\ SlotFree /\ [BreakerNext]_queueVars => BreakerTypeOK'
  <2> SUFFICES ASSUME BreakerTypeOK, SlotFree, [BreakerNext]_queueVars PROVE BreakerTypeOK'
    OBVIOUS
  <2>0. /\ 0 \in 0..ErrorThreshold
        /\ InitialBackoff \in InitialBackoff..MaxBackoff
        /\ Concurrency \in Nat
    BY CBAssumption
  <2>1. CASE Probe
    BY <2>0, <2>1 DEF Probe, BreakerTypeOK
  <2>2. CASE StartFetch
    BY <2>0, <2>2 DEF StartFetch, BreakerTypeOK, breakerVars
  <2>3. CASE FetchFails
    BY <2>3, OnErrorTyped DEF FetchFails, BreakerTypeOK
  <2>4. CASE FetchJob
    <3>1. active' \in 0..Concurrency
      BY <2>0, <2>4 DEF FetchJob, SlotFree, BreakerTypeOK
    <3>2. QED BY <2>0, <2>4, <3>1 DEF FetchJob, BreakerTypeOK, breakerVars
  <2>5. CASE FetchDrained
    BY <2>0, <2>5 DEF FetchDrained, OnHealthy, BreakerTypeOK
  <2>6. CASE JobCompleted
    <3>1. active' \in 0..Concurrency
      BY <2>0, <2>6 DEF JobCompleted, BreakerTypeOK
    <3>2. QED BY <2>0, <2>6, <3>1 DEF JobCompleted, OnHealthy, BreakerTypeOK
  <2>7. CASE JobFailed
    BY <2>0, <2>7 DEF JobFailed, BreakerTypeOK, breakerVars
  <2>8. CASE BackgroundError
    BY <2>8, OnErrorTyped DEF BackgroundError, BreakerTypeOK
  <2>9. CASE RedisChanges
    BY <2>9 DEF RedisChanges, BreakerTypeOK, breakerVars, workerVars
  <2>10. CASE UNCHANGED queueVars
    BY <2>10 DEF queueVars, BreakerTypeOK
  <2>11. QED
    BY <2>1, <2>2, <2>3, <2>4, <2>5, <2>6, <2>7, <2>8, <2>9, <2>10 DEF BreakerNext
<1>3. BreakerTypeOK /\ SlotFree /\ [BreakerNext]_queueVars => SlotFree'
  <2> SUFFICES ASSUME BreakerTypeOK, SlotFree, [BreakerNext]_queueVars, fetching' PROVE active' < Concurrency'
    BY DEF SlotFree
  <2>1. active \in Nat /\ Concurrency \in Nat
    BY CBAssumption DEF BreakerTypeOK
  <2>2. CASE StartFetch
    BY <2>2 DEF StartFetch
  <2>3. CASE FetchFails \/ FetchJob \/ FetchDrained
    BY <2>3 DEF FetchFails, FetchJob, FetchDrained
  <2>4. CASE JobCompleted \/ JobFailed
    <3>1. fetching /\ active' = active - 1
      BY <2>4 DEF JobCompleted, JobFailed, breakerVars
    <3>2. QED BY <2>1, <3>1 DEF SlotFree
  <2>5. CASE Probe \/ BackgroundError \/ RedisChanges \/ UNCHANGED queueVars
    <3>1. fetching /\ active' = active
      BY <2>5 DEF Probe, BackgroundError, RedisChanges, workerVars, queueVars
    <3>2. QED BY <3>1 DEF SlotFree
  <2>6. QED BY <2>2, <2>3, <2>4, <2>5 DEF BreakerNext
<1>4. QED BY <1>1, <1>2, <1>3, PTL DEF BreakerSpec

(* A tripped breaker has a probe scheduled or a running worker: the invariant
   is inductive by itself, since only a trip pauses and it sets the timer,
   and only a probe clears the timer of a tripped breaker and it resumes. *)
THEOREM WayBack == BreakerSpec => []TrippedHasWayBack
<1>1. BreakerInit => TrippedHasWayBack
  BY DEF BreakerInit, TrippedHasWayBack
<1>2. TrippedHasWayBack /\ [BreakerNext]_queueVars => TrippedHasWayBack'
  BY DEF TrippedHasWayBack, BreakerNext, queueVars, breakerVars, workerVars, Probe, StartFetch,
         FetchFails, FetchJob, FetchDrained, JobCompleted, JobFailed, BackgroundError,
         RedisChanges, OnError, OnHealthy, ErrorWhileTripped, ErrorCounted, Trip
<1>3. QED BY <1>1, <1>2, PTL DEF BreakerSpec

------------------------------------------------------------------------------
(* Session renewal in the browser. *)

(* A tab's renewal is under way at the API exactly when it was served, and it
   is about the cookie it carries. *)
FlightOK(t) ==
    /\ flight[t] = NoFlight \/ flight[t].step \in {"sent", "served"}
    /\ flight[t].step = "served" <=> ~ At(t, "idle")
    /\ flight[t].step = "served" => authReq[t].from = flight[t].cookie

(* Nothing went wrong: whoever renews does so alone and with the live token, or
   is about to store the live one.  A renewal that never reached the API leaves
   it so, though its tab has sent the user away. *)
TabQuiet(t) ==
    /\ ~ failed[t] => ~ expired[t] /\ ~ blocked[t]
    /\ \A u \in Tabs : flight[t] = NoFlight \/ flight[u] = NoFlight \/ t = u
    /\ flight[t].step = "sent" => flight[t].cookie = jar.refresh /\ Lives(jar.refresh)
    /\ flight[t].step = "served" =>
          /\ authReq[t].step \in {"revoke", "issue", "granted"}
          /\ At(t, "granted") => Lives(authReq[t].issued)
Quiet ==
    /\ \A t \in Tabs : TabQuiet(t)
    /\ (\A t \in Tabs : flight[t] = NoFlight) => Lives(jar.refresh)

(* Two tabs may renew at once and the API may fail, but no answer is lost: a
   token on its way to the jar is live and carried by nobody yet, and the token
   of the jar dies only by a renewal whose answer will replace it. *)
Known(k) == k \in Tokens => token[k] # "none"
Arriving(t, k) == At(t, "granted") /\ authReq[t].issued = k
TabKept(t) ==
    /\ Known(flight[t].cookie)
    /\ At(t, "granted") =>
          /\ Lives(authReq[t].issued) /\ authReq[t].issued # jar.refresh
          /\ \A u \in Tabs : flight[u].cookie # authReq[t].issued
          /\ \A u \in Tabs \ {t} : ~ Arriving(u, authReq[t].issued)
Kept ==
    /\ \A t \in Tabs : TabKept(t)
    /\ Known(jar.refresh)
    /\ jar.refresh \in Tokens =>
          Lives(jar.refresh) \/ \E t \in Tabs : flight[t].step = "served"

(* Whom a lost answer or an empty jar has sent to /login. *)
Told == ~ ended /\ (missed \/ jar.refresh = NoToken) => \E t \in Tabs : expired[t]

CallsOK == call = [t \in Tabs |-> call[t]] /\ \A t \in Tabs : call[t] \in [Calls[t] -> Where]

BrowserInv ==
    /\ SessionsInv
    /\ ClientTypeOK
    /\ CallsOK
    /\ WaitersHaveAFlight
    /\ \A t \in Tabs : FlightOK(t)
    /\ ~ ended /\ ~ clash /\ ~ cut /\ ~ missed => Quiet
    /\ ~ ended /\ ~ missed => Kept
    /\ Told

Flight == [step : {"none", "sent", "served"}, cookie : Cookie]
NoFlightIs == NoFlight \in Flight /\ NoFlight.step = "none"

LEMMA FlightIs == NoFlightIs
BY DEF NoFlightIs, NoFlight, Flight, Cookie

LEMMA NoCookie == NoFlight.cookie = NoToken /\ NoToken \notin Tokens
BY SAssumption DEF NoFlight

(* Does tab t wait for a renewal? *)
Waits(t) == \E c \in Calls[t] : call[t][c] = "waiting"

(* One call of one tab goes on. *)
LEMMA CallMoves ==
  ASSUME CallsOK, NEW t \in Tabs, NEW c \in Calls[t], NEW where \in Where, Moved(t, c, where)
  PROVE  /\ CallsOK'
         /\ call'[t][c] = where /\ \A d \in Calls[t] \ {c} : call'[t][d] = call[t][d]
         /\ \A u \in Tabs \ {t} : call'[u] = call[u]
<1>1. call' = [u \in Tabs |-> IF u = t THEN [call[t] EXCEPT ![c] = where] ELSE call[u]]
  BY DEF CallsOK, Moved
<1>2. [call[t] EXCEPT ![c] = where] \in [Calls[t] -> Where]
  BY DEF CallsOK
<1>3. \A u \in Tabs : call'[u] \in [Calls[u] -> Where]
  BY <1>1, <1>2 DEF CallsOK
<1>4. call' = [u \in Tabs |-> call'[u]]
  BY <1>1
<1>5. QED BY <1>1, <1>3, <1>4 DEF CallsOK

(* A call that did not wait, and does not, leaves the waiting as it was. *)
LEMMA WaitsStay ==
  ASSUME CallsOK, NEW t \in Tabs, NEW c \in Calls[t], NEW where \in Where \ {"waiting"},
         Moved(t, c, where), call[t][c] # "waiting"
  PROVE  CallsOK' /\ \A u \in Tabs : Waits(u)' <=> Waits(u)
<1>1. ASSUME NEW u \in Tabs PROVE Waits(u)' <=> Waits(u)
  <2>1. CASE u = t
    BY <2>1, CallMoves DEF Waits
  <2>2. CASE u # t
    BY <2>2, CallMoves DEF Waits
  <2>3. QED BY <2>1, <2>2
<1>2. QED BY <1>1, CallMoves

(* A call that starts to wait. *)
LEMMA WaitStarts ==
  ASSUME CallsOK, NEW t \in Tabs, NEW c \in Calls[t], Moved(t, c, "waiting")
  PROVE  CallsOK' /\ Waits(t)' /\ \A u \in Tabs \ {t} : Waits(u)' <=> Waits(u)
BY CallMoves DEF Waits, Where

(* All calls of a tab that wait go on together. *)
LEMMA WaitEnds ==
  ASSUME CallsOK, NEW t \in Tabs, NEW where \in Where \ {"waiting"}, Released(t, where)
  PROVE  CallsOK' /\ ~ Waits(t)' /\ \A u \in Tabs \ {t} : Waits(u)' <=> Waits(u)
<1> DEFINE new == [c \in Calls[t] |-> IF call[t][c] = "waiting" THEN where ELSE call[t][c]]
<1>1. call' = [u \in Tabs |-> IF u = t THEN new ELSE call[u]]
  BY DEF CallsOK, Released
<1>2. new \in [Calls[t] -> Where] /\ \A c \in Calls[t] : new[c] # "waiting"
  BY DEF CallsOK
<1> HIDE DEF new
<1>3. CallsOK'
  <2>1. \A u \in Tabs : call'[u] \in [Calls[u] -> Where]
    BY <1>1, <1>2 DEF CallsOK
  <2>2. call' = [u \in Tabs |-> call'[u]]
    BY <1>1
  <2>3. QED BY <2>1, <2>2 DEF CallsOK
<1>4. QED BY <1>1, <1>2, <1>3 DEF Waits

(* A tab's renewal goes on, or ends. *)
LEMMA FlightMoves ==
  ASSUME ClientTypeOK, NEW t \in Tabs, NEW new \in Flight, flight' = [flight EXCEPT ![t] = new]
  PROVE  /\ flight' \in [Tabs -> Flight] /\ flight'[t] = new
         /\ \A u \in Tabs \ {t} : flight'[u] = flight[u]
BY DEF ClientTypeOK, Flight

(* Every step of the browser is one of the API's sessions, or a renewal that
   carries no cookie. *)
LEMMA BrowserServer ==
  ASSUME SessionsInv, ClientTypeOK, [BrowserNext]_vars
  PROVE  SessionsInv'
<1>1. ASSUME NEW t \in Tabs, Serve(t) PROVE SessionsInv'
  <2>1. flight[t].cookie \in Tokens \union {NoToken}
    BY DEF ClientTypeOK, Cookie
  <2>2. QED BY <1>1, <2>1, ReadTokenStep DEF Serve, Tabs
<1>2. ASSUME NEW t \in Tabs, ServerStep(t) \/ Renewed(t) \/ Refused(t)
      PROVE  SessionsInv'
  <2>1. SessionsNext
    BY <1>2 DEF ServerStep, Renewed, Refused, SessionsNext, Session, Tabs
  <2>2. QED BY <2>1, SessionsStep
<1>3. ASSUME NEW t \in Tabs, Lost(t) PROVE SessionsInv'
  <2>1. UNCHANGED serverVars \/ Answer(t)
    BY <1>3 DEF Lost, serverVars, rows, history, Answer
  <2>2. [SessionsNext]_serverVars
    BY <2>1 DEF SessionsNext, Session, Tabs
  <2>3. QED BY <2>2, SessionsStep
<1>4. CASE LogoutClicked
  <2>1. jar.refresh \in Tokens \/ jar.refresh = NoToken
    BY DEF ClientTypeOK, Cookie
  <2>2. [SessionsNext]_serverVars
    BY <1>4, <2>1 DEF LogoutClicked, SessionsNext
  <2>3. QED BY <2>2, SessionsStep
<1>5. CASE EndedElsewhere
  <2>1. SessionsNext
    BY <1>5 DEF EndedElsewhere, SessionsNext
  <2>2. QED BY <2>1, SessionsStep
<1>6. ASSUME UNCHANGED serverVars PROVE SessionsInv'
  BY <1>6, SessionsStep
<1>7. ASSUME NEW t \in Tabs, NEW c \in Calls[t],
             \/ Send(t, c) \/ Answered(t, c) \/ GiveUp(t, c) \/ StartRenewal(t, c)
             \/ JoinRenewal(t, c) \/ Retry(t, c)
      PROVE  SessionsInv'
  BY <1>6, <1>7 DEF Send, Answered, GiveUp, StartRenewal, JoinRenewal, Retry
<1>8. ASSUME NEW t \in Tabs, Unavailable(t) \/ Cooldown(t) PROVE SessionsInv'
  BY <1>6, <1>8 DEF Unavailable, Cooldown
<1>9. CASE AccessExpires \/ UNCHANGED vars
  BY <1>6, <1>9 DEF AccessExpires, vars
<1>10. QED BY <1>1, <1>2, <1>3, <1>4, <1>5, <1>7, <1>8, <1>9 DEF BrowserNext

(* What the tabs themselves hold keeps its type, given what each step does to
   the calls, the renewals and the jar. *)
LEMMA TabsTyped ==
  ASSUME ClientTypeOK, SessionsInv', CallsOK', flight' \in [Tabs -> Flight],
         jar' \in [refresh : Cookie, access : BOOLEAN],
         blocked' = blocked \/ \E t \in Tabs, b \in BOOLEAN : blocked' = [blocked EXCEPT ![t] = b],
         expired' = expired \/ \E t \in Tabs : expired' = [expired EXCEPT ![t] = TRUE],
         failed' = failed \/ \E t \in Tabs : failed' = [failed EXCEPT ![t] = TRUE],
         {ended', clash', cut', missed'} \subseteq BOOLEAN
  PROVE  ClientTypeOK'
<1>1. blocked' \in [Tabs -> BOOLEAN]
  BY DEF ClientTypeOK
<1>2. expired' \in [Tabs -> BOOLEAN]
  BY DEF ClientTypeOK
<1>3. failed' \in [Tabs -> BOOLEAN]
  BY DEF ClientTypeOK
<1>4. QED BY <1>1, <1>2, <1>3 DEF ClientTypeOK, CallsOK, Flight, SessionsInv

(* A user who was sent to /login stays so. *)
LEMMA StillExpired ==
  ASSUME ClientTypeOK,
         expired' = expired \/ \E t \in Tabs : expired' = [expired EXCEPT ![t] = TRUE]
  PROVE  \A u \in Tabs : expired[u] => expired'[u]
BY DEF ClientTypeOK

(* A step of one tab's calls, with the rest of the browser as it was. *)
LEMMA CallStep ==
  ASSUME BrowserInv, BrowserNext, NEW t \in Tabs, NEW c \in Calls[t],
         \/ Send(t, c) \/ Answered(t, c) \/ GiveUp(t, c) \/ StartRenewal(t, c)
         \/ JoinRenewal(t, c) \/ Retry(t, c)
  PROVE  BrowserInv'
<1> USE DEF BrowserInv
<1>1. SessionsInv' /\ UNCHANGED serverVars /\ UNCHANGED <<jar, blocked, ended, cut, missed, failed>>
  BY BrowserServer DEF Send, Answered, GiveUp, StartRenewal, JoinRenewal, Retry, mishaps
<1>2. UNCHANGED <<token, authReq>>
  BY <1>1 DEF serverVars, rows
<1>3. CASE StartRenewal(t, c)
  <2> DEFINE new == [step |-> "sent", cookie |-> jar.refresh]
  <2>1. /\ Moved(t, c, "waiting") /\ flight[t] = NoFlight /\ flight' = [flight EXCEPT ![t] = new]
        /\ clash' = (clash \/ \E x \in Tabs : flight[x] # NoFlight) /\ expired' = expired
    BY <1>3 DEF StartRenewal
  <2>2. new \in Flight /\ new.step = "sent" /\ new.cookie = jar.refresh /\ new # NoFlight
    BY DEF Flight, ClientTypeOK, NoFlight
  <2> HIDE DEF new
  <2>3. /\ flight' \in [Tabs -> Flight] /\ flight'[t] = new
        /\ \A u \in Tabs \ {t} : flight'[u] = flight[u]
    BY <2>1, <2>2, FlightMoves
  <2>4. CallsOK' /\ Waits(t)' /\ \A u \in Tabs \ {t} : Waits(u)' <=> Waits(u)
    BY <2>1, WaitStarts
  <2>5. ClientTypeOK'
    <3>1. /\ jar' \in [refresh : Cookie, access : BOOLEAN]
          /\ {ended', clash', cut', missed'} \subseteq BOOLEAN
      BY <1>1, <2>1 DEF ClientTypeOK
    <3>2. QED BY <1>1, <2>1, <2>3, <2>4, <3>1, TabsTyped
  <2>6. WaitersHaveAFlight'
    BY <2>2, <2>3, <2>4 DEF WaitersHaveAFlight, Waits
  <2>7. At(t, "idle")
    BY <2>1, FlightIs DEF FlightOK, NoFlightIs
  <2>8. \A u \in Tabs : FlightOK(u)'
    BY <1>2, <2>2, <2>3, <2>7 DEF FlightOK, At
  <2>9. ASSUME ~ ended', ~ clash', ~ cut', ~ missed' PROVE Quiet'
    <3>1. /\ \A x \in Tabs : flight[x] = NoFlight /\ Quiet /\ Lives(jar.refresh)
      BY <1>1, <2>1, <2>9 DEF Quiet
    <3>2. \A u \in Tabs : TabQuiet(u)'
      BY <1>1, <1>2, <2>1, <2>2, <2>3, <3>1, FlightIs DEF TabQuiet, Quiet, Lives, At, NoFlightIs
    <3>3. QED BY <2>2, <2>3, <3>2 DEF Quiet
  <2>10. ASSUME ~ ended', ~ missed' PROVE Kept'
    <3>1. Kept
      BY <1>1, <2>10
    <3>2. \A u \in Tabs : TabKept(u)'
      BY <1>1, <1>2, <2>2, <2>3, <2>7, <3>1 DEF TabKept, Kept, Known, Lives, At, Arriving
    <3>3. \A u \in Tabs : flight[u].step = "served" => flight'[u].step = "served"
      BY <2>1, <2>3, FlightIs DEF NoFlightIs
    <3>4. QED BY <1>1, <1>2, <3>1, <3>2, <3>3 DEF Kept, Known, Lives
  <2>11. Told'
    BY <1>1, <2>1 DEF Told
  <2>12. QED BY <1>1, <2>4, <2>5, <2>6, <2>8, <2>9, <2>10, <2>11
<1>4. CASE ~ StartRenewal(t, c)
  <2>1. UNCHANGED <<flight, clash>>
    BY <1>4 DEF Send, Answered, GiveUp, JoinRenewal, Retry
  <2>2. CallsOK' /\ \A u \in Tabs : Waits(u)' <=> (Waits(u) \/ (u = t /\ JoinRenewal(t, c)))
    <3>1. CASE JoinRenewal(t, c)
      BY <3>1, WaitStarts DEF JoinRenewal
    <3>2. CASE ~ JoinRenewal(t, c)
      <4>1. /\ call[t][c] # "waiting"
            /\ \E where \in Where \ {"waiting"} : Moved(t, c, where)
        BY <1>4, <3>2 DEF Send, Answered, GiveUp, Retry, Where
      <4>2. QED BY <3>2, <4>1, WaitsStay
    <3>3. QED BY <3>1, <3>2
  <2>3. \/ expired' = expired
        \/ blocked[t] /\ expired' = [expired EXCEPT ![t] = TRUE]
    BY <1>4 DEF Send, Answered, GiveUp, JoinRenewal, Retry
  <2>4. ClientTypeOK'
    <3>1. /\ jar' \in [refresh : Cookie, access : BOOLEAN]
          /\ {ended', clash', cut', missed'} \subseteq BOOLEAN /\ flight' \in [Tabs -> Flight]
      BY <1>1, <2>1 DEF ClientTypeOK, Flight
    <3>2. QED BY <1>1, <2>1, <2>2, <2>3, <3>1, TabsTyped
  <2>5. WaitersHaveAFlight'
    <3>1. JoinRenewal(t, c) => flight[t] # NoFlight
      BY DEF JoinRenewal
    <3>2. QED BY <2>1, <2>2, <3>1 DEF WaitersHaveAFlight, Waits
  <2>6. \A u \in Tabs : FlightOK(u)'
    BY <1>2, <2>1 DEF FlightOK, At
  <2>7. ASSUME ~ ended', ~ clash', ~ cut', ~ missed' PROVE Quiet'
    <3>1. Quiet
      BY <1>1, <2>1, <2>7
    <3>2. \A u \in Tabs : ~ failed[u] => expired'[u] = expired[u]
      BY <2>3, <3>1 DEF Quiet, TabQuiet, ClientTypeOK
    <3>3. \A u \in Tabs : TabQuiet(u)'
      BY <1>1, <1>2, <2>1, <3>1, <3>2 DEF TabQuiet, Quiet, Lives, At
    <3>4. QED BY <1>1, <1>2, <2>1, <3>1, <3>3 DEF Quiet, Lives
  <2>8. ASSUME ~ ended', ~ missed' PROVE Kept'
    BY <1>1, <1>2, <2>1, <2>8 DEF Kept, TabKept, Known, Lives, At, Arriving
  <2>9. Told'
    BY <1>1, <2>3, StillExpired DEF Told
  <2>10. QED BY <1>1, <2>2, <2>4, <2>5, <2>6, <2>7, <2>8, <2>9
<1>5. QED BY <1>3, <1>4

(* A step of the API on a renewal. *)
LEMMA ServeStep ==
  ASSUME BrowserInv, BrowserNext, NEW t \in Tabs, Serve(t)
  PROVE  BrowserInv'
<1> USE DEF BrowserInv
<1> DEFINE new == [flight[t] EXCEPT !.step = "served"]
<1>1. /\ SessionsInv' /\ UNCHANGED <<rows, history, jar, call, blocked, expired, ended, clash>>
      /\ UNCHANGED <<cut, missed, failed>>
      /\ flight' = [flight EXCEPT ![t] = new] /\ flight[t].step = "sent"
      /\ ReadToken(t, flight[t].cookie)
  BY BrowserServer DEF Serve, ReadToken, mishaps
<1>2. flight[t] \in Flight /\ flight[t] # NoFlight
  BY <1>1, FlightIs DEF ClientTypeOK, Flight, NoFlightIs
<1>3. new \in Flight /\ new.step = "served" /\ new.cookie = flight[t].cookie /\ new # NoFlight
  BY <1>2, FlightIs DEF Flight, NoFlightIs
<1> HIDE DEF new
<1>4. /\ flight' \in [Tabs -> Flight] /\ flight'[t] = new
      /\ \A u \in Tabs \ {t} : flight'[u] = flight[u]
  BY <1>1, <1>3, FlightMoves
<1>5. CallsOK' /\ \A u \in Tabs : Waits(u)' <=> Waits(u)
  BY <1>1 DEF CallsOK, Waits
<1>6. ClientTypeOK'
  <2>1. /\ jar' \in [refresh : Cookie, access : BOOLEAN]
        /\ {ended', clash', cut', missed'} \subseteq BOOLEAN
    BY <1>1 DEF ClientTypeOK
  <2>2. QED BY <1>1, <1>4, <1>5, <2>1, TabsTyped
<1>7. WaitersHaveAFlight'
  BY <1>2, <1>3, <1>4, <1>5 DEF WaitersHaveAFlight, Waits
<1>8. /\ token' = token
      /\ authReq'[t].step = IF Lives(flight[t].cookie) THEN "revoke" ELSE "refused"
      /\ authReq'[t].from = flight[t].cookie
      /\ \A u \in Tabs \ {t} : authReq'[u] = authReq[u]
  <2> DEFINE q == IF Lives(flight[t].cookie)
                  THEN [NoRequest EXCEPT !.step = "revoke", !.from = flight[t].cookie,
                                         !.born = born[flight[t].cookie]]
                  ELSE [NoRequest EXCEPT !.step = "refused", !.from = flight[t].cookie]
  <2>1. Proceed(t, q)
    BY <1>1 DEF ReadToken, Lives
  <2>2. /\ q.step = IF Lives(flight[t].cookie) THEN "revoke" ELSE "refused"
        /\ q.from = flight[t].cookie
    BY DEF NoRequest
  <2> HIDE DEF q
  <2>3. authReq' = [authReq EXCEPT ![t] = q] /\ authReq \in [Tabs -> Request]
    BY <2>1 DEF Proceed, SessionsInv, SessionsTypeOK, Tabs
  <2>4. token' = token
    BY <1>1 DEF rows
  <2>5. QED BY <2>2, <2>3, <2>4
<1>9. \A u \in Tabs : FlightOK(u)'
  BY <1>3, <1>4, <1>8 DEF FlightOK, At
<1>10. ASSUME ~ ended', ~ clash', ~ cut', ~ missed' PROVE Quiet'
  <2>1. Quiet
    BY <1>1, <1>10
  <2>2. flight[t].cookie = jar.refresh /\ Lives(jar.refresh)
    BY <1>1, <2>1 DEF Quiet, TabQuiet
  <2>3. authReq'[t].step = "revoke"
    BY <1>8, <2>2
  <2>4. \A u \in Tabs : TabQuiet(u)'
    BY <1>1, <1>2, <1>3, <1>4, <1>8, <2>1, <2>2, <2>3 DEF TabQuiet, Quiet, Lives, At
  <2>5. QED BY <1>3, <1>4, <2>4 DEF Quiet
<1>11. ASSUME ~ ended', ~ missed' PROVE Kept'
  <2>1. Kept
    BY <1>1, <1>11
  <2>2. \A u \in Tabs : flight'[u].cookie = flight[u].cookie
    BY <1>3, <1>4
  <2>3. \A u \in Tabs, k \in Tokens : At(u, "granted")' /\ authReq'[u].issued = k => Arriving(u, k)
    BY <1>8 DEF At, Arriving
  <2>4. \A u \in Tabs : At(u, "granted")' => u # t /\ At(u, "granted") /\ authReq'[u] = authReq[u]
    BY <1>8 DEF At
  <2>5. \A u \in Tabs : TabKept(u)'
    BY <1>1, <1>8, <2>1, <2>2, <2>4 DEF TabKept, Kept, Known, Lives, Arriving
  <2>6. flight'[t].step = "served"
    BY <1>3, <1>4
  <2>7. QED BY <1>1, <1>8, <2>1, <2>5, <2>6 DEF Kept, Known
<1>12. Told'
  BY <1>1 DEF Told
<1>13. QED BY <1>1, <1>5, <1>6, <1>7, <1>9, <1>10, <1>11, <1>12

(* The API revokes the old token and issues the new one, or fails. *)
LEMMA ServerStepStep ==
  ASSUME BrowserInv, BrowserNext, NEW t \in Tabs, ServerStep(t)
  PROVE  BrowserInv'
<1> USE DEF BrowserInv
<1>1. SessionsInv' /\ UNCHANGED <<jar, call, flight, blocked, expired, ended, clash, missed, failed>>
  BY BrowserServer DEF ServerStep
<1>2. \/ RevokeUsed(t) /\ cut' = cut
      \/ (\E k \in Tokens : Issue(t, k)) /\ cut' = cut
      \/ Abort(t) /\ cut' = TRUE
  BY DEF ServerStep
<1>3. /\ ClientTypeOK' /\ CallsOK' /\ WaitersHaveAFlight'
  <2>1. CallsOK' /\ WaitersHaveAFlight'
    BY <1>1 DEF CallsOK, WaitersHaveAFlight
  <2>2. /\ jar' \in [refresh : Cookie, access : BOOLEAN]
        /\ {ended', clash', cut', missed'} \subseteq BOOLEAN /\ flight' \in [Tabs -> Flight]
    BY <1>1, <1>2 DEF ClientTypeOK, Flight
  <2>3. QED BY <1>1, <2>1, <2>2, TabsTyped
<1>4. authReq \in [Tabs -> Request] /\ authReq' \in [Tabs -> Request]
  BY <1>1 DEF SessionsInv, SessionsTypeOK, Tabs
<1>5. /\ ~ At(t, "idle") /\ \A u \in Tabs \ {t} : authReq'[u] = authReq[u]
      /\ authReq'[t].step # "idle" /\ authReq'[t].from = authReq[t].from
  <2>1. CASE RevokeUsed(t)
    BY <1>4, <2>1 DEF RevokeUsed, Proceed, At, Request
  <2>2. ASSUME NEW k \in Tokens, Issue(t, k) PROVE <1>5!:
    BY <1>4, <2>2 DEF Issue, Proceed, At, Request
  <2>3. CASE Abort(t)
    BY <1>4, <2>3 DEF Abort, Proceed, At, Request, NoRequest
  <2>4. QED BY <1>2, <2>1, <2>2, <2>3
<1>6. \A u \in Tabs : FlightOK(u)'
  BY <1>1, <1>5 DEF FlightOK, At
<1>7. ASSUME ~ ended', ~ clash', ~ cut', ~ missed' PROVE Quiet'
  <2>1. Quiet /\ (RevokeUsed(t) \/ \E k \in Tokens : Issue(t, k))
    BY <1>1, <1>2, <1>7
  <2>2. flight[t].step = "served" /\ flight[t] # NoFlight
    BY <1>5, FlightIs DEF FlightOK, NoFlightIs
  <2>3. /\ authReq'[t].step \in {"issue", "granted"}
        /\ authReq'[t].step = "granted" =>
              authReq'[t].issued \in Tokens /\ token'[authReq'[t].issued] = "live"
    <3>1. CASE RevokeUsed(t)
      BY <1>4, <3>1 DEF RevokeUsed, Proceed, Request
    <3>2. ASSUME NEW k \in Tokens, Issue(t, k) PROVE <2>3!:
      <4>1. authReq'[t].step = "granted" /\ authReq'[t].issued = k
        BY <1>4, <3>2 DEF Issue, Proceed, Request
      <4>2. token'[k] = "live"
        BY <3>2 DEF Issue, SessionsInv, SessionsTypeOK
      <4>3. QED BY <4>1, <4>2
    <3>3. QED BY <2>1, <3>1, <3>2
  <2>4. \A u \in Tabs \ {t} : flight[u] = NoFlight
    BY <2>1, <2>2 DEF Quiet, TabQuiet
  <2>5. \A u \in Tabs : TabQuiet(u)'
    BY <1>1, <2>1, <2>2, <2>3, <2>4, FlightIs DEF TabQuiet, Quiet, Lives, At, NoFlightIs
  <2>6. QED BY <1>1, <2>2, <2>5 DEF Quiet
<1>8. ASSUME ~ ended', ~ missed' PROVE Kept'
  <2>1. Kept /\ flight[t].step = "served" /\ authReq[t].from = flight[t].cookie
    BY <1>1, <1>5, <1>8 DEF FlightOK
  <2>2. token \in [Tokens -> {"none", "live", "revoked", "expired"}]
    BY DEF SessionsInv, SessionsTypeOK
  <2>3. CASE RevokeUsed(t)
    <3>1. /\ token' = [token EXCEPT ![flight[t].cookie] = "revoked"]
          /\ ~ At(t, "granted")'
      BY <1>4, <2>1, <2>3 DEF RevokeUsed, Proceed, At, Request
    <3>2. /\ \A k \in Tokens \ {flight[t].cookie} : token'[k] = token[k]
          /\ \A k : Known(k) => Known(k)'
      BY <2>2, <3>1 DEF Known
    <3>3. \A u \in Tabs : TabKept(u)'
      BY <1>1, <1>5, <2>1, <3>1, <3>2 DEF TabKept, Kept, Lives, At, Arriving
    <3>4. QED BY <1>1, <2>1, <3>2, <3>3 DEF Kept
  <2>4. ASSUME NEW k \in Tokens, Issue(t, k) PROVE Kept'
    <3>1. /\ token' = [token EXCEPT ![k] = "live"] /\ token[k] = "none"
          /\ authReq'[t].issued = k
      BY <1>4, <2>4 DEF Issue, Proceed, Request
    <3>2. /\ \A j \in Tokens : token[j] # "none" => j # k /\ token'[j] = token[j]
          /\ \A j : Known(j) => Known(j)' /\ j # k
          /\ \A j : Lives(j) => Lives(j)'
          /\ Lives(k)'
      BY <2>2, <3>1 DEF Known, Lives
    <3>3. \A u \in Tabs : flight[u].cookie # k
      BY <2>1, <3>2 DEF Kept, TabKept
    <3>4. k # jar.refresh
      BY <2>1, <3>2 DEF Kept
    <3>5. \A u \in Tabs \ {t} : ~ Arriving(u, k)
      BY <2>1, <3>1 DEF Kept, TabKept, Arriving, Lives
    <3>6. \A u \in Tabs : Known(flight[u].cookie)'
      BY <1>1, <2>1, <3>2 DEF Kept, TabKept
    <3>7. ASSUME NEW u \in Tabs, At(u, "granted")' PROVE TabKept(u)'
      <4>1. CASE u = t
        BY <1>1, <1>5, <3>1, <3>2, <3>3, <3>4, <3>5, <3>6, <4>1 DEF TabKept, At, Arriving
      <4>2. CASE u # t
        <5>1. /\ authReq'[u] = authReq[u] /\ At(u, "granted") /\ authReq[u].issued # k
              /\ TabKept(u)
          BY <1>5, <2>1, <3>5, <3>7, <4>2 DEF At, Kept, Arriving
        <5>2. QED BY <1>1, <1>5, <3>1, <3>2, <3>6, <5>1 DEF TabKept, At, Arriving
      <4>3. QED BY <4>1, <4>2
    <3>8. \A u \in Tabs : TabKept(u)'
      BY <3>6, <3>7 DEF TabKept
    <3>9. QED BY <1>1, <2>1, <3>2, <3>8 DEF Kept
  <2>5. CASE Abort(t)
    <3>1. token' = token /\ ~ At(t, "granted")'
      BY <1>4, <2>5 DEF Abort, Proceed, At, Request, NoRequest, rows
    <3>2. \A u \in Tabs : TabKept(u)'
      BY <1>1, <1>5, <2>1, <3>1 DEF TabKept, Kept, Known, Lives, At, Arriving
    <3>3. QED BY <1>1, <2>1, <3>1, <3>2 DEF Kept, Known, Lives
  <2>6. QED BY <1>2, <2>3, <2>4, <2>5
<1>9. Told'
  BY <1>1 DEF Told
<1>10. QED BY <1>1, <1>3, <1>6, <1>7, <1>8, <1>9

(* A renewal ends: its answer arrives, is lost, or never came. *)
LEMMA RenewalEnds ==
  ASSUME BrowserInv, BrowserNext, NEW t \in Tabs,
         Renewed(t) \/ Refused(t) \/ Lost(t) \/ Unavailable(t)
  PROVE  BrowserInv'
<1> USE DEF BrowserInv
<1>1. /\ SessionsInv' /\ flight' = [flight EXCEPT ![t] = NoFlight]
      /\ UNCHANGED <<ended, clash, cut>>
      /\ \E where \in Where \ {"waiting"} : Released(t, where)
  BY BrowserServer DEF Renewed, Refused, Lost, Unavailable, Where, mishaps
<1>2. /\ flight' \in [Tabs -> Flight] /\ flight'[t] = NoFlight
      /\ \A u \in Tabs \ {t} : flight'[u] = flight[u]
  BY <1>1, FlightIs, FlightMoves DEF NoFlightIs
<1>3. CallsOK' /\ ~ Waits(t)' /\ \A u \in Tabs \ {t} : Waits(u)' <=> Waits(u)
  BY <1>1, WaitEnds
<1>4. token' = token
  BY DEF Renewed, Refused, Lost, Unavailable, Answer, serverVars, rows
<1>5. /\ authReq'[t].step = "idle"
      /\ \A u \in Tabs \ {t} : authReq'[u] = authReq[u]
  <2>1. authReq \in [Tabs -> Request]
    BY DEF SessionsInv, SessionsTypeOK, Tabs
  <2>2. CASE Proceed(t, NoRequest)
    BY <2>1, <2>2, NoRequestIs DEF Proceed
  <2>3. CASE authReq' = authReq /\ flight[t].step = "sent"
    BY <2>3 DEF FlightOK, At
  <2>4. QED
    BY <2>2, <2>3 DEF Renewed, Refused, Lost, Unavailable, Answer, serverVars
<1>6. ClientTypeOK'
  <2>1. jar' \in [refresh : Cookie, access : BOOLEAN]
    <3>1. authReq[t].issued \in Cookie
      BY DEF SessionsInv, SessionsTypeOK, Request, Cookie, Tabs
    <3>2. NoToken \in Cookie
      BY DEF Cookie
    <3>3. CASE Renewed(t)
      BY <3>1, <3>3 DEF Renewed
    <3>4. CASE Refused(t)
      BY <3>2, <3>4 DEF Refused, Empty
    <3>5. CASE Lost(t) \/ Unavailable(t)
      BY <3>5 DEF Lost, Unavailable, ClientTypeOK
    <3>6. QED BY <3>3, <3>4, <3>5
  <2>2. /\ blocked' = blocked \/ blocked' = [blocked EXCEPT ![t] = TRUE]
        /\ expired' = expired \/ expired' = [expired EXCEPT ![t] = TRUE]
        /\ failed' = failed \/ failed' = [failed EXCEPT ![t] = TRUE]
        /\ missed' = missed \/ missed' \in BOOLEAN
    BY DEF Renewed, Refused, Lost, Unavailable, mishaps
  <2>3. {ended', clash', cut', missed'} \subseteq BOOLEAN
    BY <1>1, <2>2 DEF ClientTypeOK
  <2>4. QED BY <1>1, <1>2, <1>3, <2>1, <2>2, <2>3, TabsTyped
<1>7. WaitersHaveAFlight'
  BY <1>2, <1>3 DEF WaitersHaveAFlight, Waits
<1>8. \A u \in Tabs : FlightOK(u)'
  BY <1>2, <1>5, FlightIs DEF FlightOK, At, NoFlightIs
<1>9. CASE Lost(t) \/ Unavailable(t)
  <2>1. /\ expired' = [expired EXCEPT ![t] = TRUE] /\ failed' = [failed EXCEPT ![t] = TRUE]
        /\ jar' = jar /\ (blocked' = blocked \/ blocked' = [blocked EXCEPT ![t] = TRUE])
        /\ ~ missed' => ~ missed /\ flight[t].step = "sent"
    <3>1. missed \in BOOLEAN
      BY DEF ClientTypeOK
    <3>2. Lost(t) => flight[t].step \in {"sent", "served"}
      BY DEF Lost
    <3>3. CASE Lost(t)
      <4>1. missed' = (missed \/ flight[t].step = "served")
        BY <3>3 DEF Lost
      <4>2. ~ missed' => ~ missed /\ flight[t].step = "sent"
        BY <3>1, <3>2, <3>3, <4>1
      <4>3. QED BY <3>3, <4>2 DEF Lost
    <3>4. CASE Unavailable(t)
      BY <3>4 DEF Unavailable
    <3>5. QED BY <1>9, <3>3, <3>4
  <2>2. expired'[t] /\ failed'[t]
        /\ \A u \in Tabs \ {t} : UNCHANGED <<expired[u], failed[u], blocked[u]>>
    BY <2>1 DEF ClientTypeOK
  <2>3. ASSUME ~ ended', ~ clash', ~ cut', ~ missed' PROVE Quiet'
    <3>1. Quiet /\ flight[t].step = "sent"
      BY <1>1, <2>1, <2>3
    <3>2. Lives(jar.refresh) /\ flight[t] # NoFlight
      BY <3>1, FlightIs DEF Quiet, TabQuiet, NoFlightIs
    <3>3. \A u \in Tabs : flight'[u] = NoFlight
      BY <1>2, <3>1, <3>2 DEF Quiet, TabQuiet
    <3>4. \A u \in Tabs : TabQuiet(u)'
      BY <2>2, <3>1, <3>3, FlightIs DEF TabQuiet, Quiet, NoFlightIs
    <3>5. QED BY <1>4, <2>1, <3>2, <3>4 DEF Quiet, Lives
  <2>4. ASSUME ~ ended', ~ missed' PROVE Kept'
    <3>1. Kept /\ flight[t].step = "sent" /\ ~ At(t, "granted")
      BY <1>1, <2>1, <2>4 DEF FlightOK, At
    <3>2. \A u \in Tabs : At(u, "granted")' => u # t /\ At(u, "granted") /\ authReq'[u] = authReq[u]
      BY <1>5 DEF At
    <3>3. \A u \in Tabs : TabKept(u)'
      BY <1>2, <1>4, <2>1, <3>1, <3>2, NoCookie DEF TabKept, Kept, Known, Lives, Arriving
    <3>4. \A u \in Tabs : flight[u].step = "served" => flight'[u].step = "served"
      BY <1>2, <3>1
    <3>5. QED BY <1>4, <2>1, <3>1, <3>3, <3>4 DEF Kept, Known, Lives
  <2>5. Told'
    BY <2>2 DEF Told
  <2>6. QED BY <1>1, <1>3, <1>6, <1>7, <1>8, <2>3, <2>4, <2>5
<1>10. CASE Refused(t)
  <2>1. /\ expired' = [expired EXCEPT ![t] = TRUE] /\ jar'.refresh = NoToken
        /\ UNCHANGED <<missed, failed>> /\ At(t, "refused") /\ flight[t].step = "served"
    BY <1>10 DEF Refused, Empty, mishaps
  <2>2. expired'[t]
    BY <2>1 DEF ClientTypeOK
  <2>3. ended' \/ clash' \/ cut' \/ missed'
    BY <1>1, <2>1 DEF Quiet, TabQuiet, At
  <2>4. ASSUME ~ ended', ~ missed' PROVE Kept'
    <3>1. Kept
      BY <1>1, <2>1, <2>4
    <3>2. \A u \in Tabs : At(u, "granted")' => u # t /\ At(u, "granted") /\ authReq'[u] = authReq[u]
      BY <1>5 DEF At
    <3>3. \A u \in Tabs : TabKept(u)'
      BY <1>2, <1>4, <2>1, <3>1, <3>2, NoCookie DEF TabKept, Kept, Known, Lives, Arriving
    <3>4. QED BY <2>1, <3>3, NoCookie DEF Kept, Known
  <2>5. Told'
    BY <2>2 DEF Told
  <2>6. QED BY <1>1, <1>3, <1>6, <1>7, <1>8, <2>3, <2>4, <2>5
<1>11. CASE Renewed(t)
  <2>1. /\ jar'.refresh = authReq[t].issued /\ UNCHANGED <<blocked, expired, missed, failed>>
        /\ At(t, "granted") /\ flight[t].step = "served" /\ flight[t] # NoFlight
    BY <1>11, FlightIs DEF Renewed, mishaps, NoFlightIs
  <2>2. ASSUME ~ ended', ~ clash', ~ cut', ~ missed' PROVE Quiet'
    <3>1. Quiet /\ Lives(authReq[t].issued)
      BY <1>1, <2>1, <2>2 DEF Quiet, TabQuiet
    <3>2. \A u \in Tabs : flight'[u] = NoFlight
      BY <1>2, <2>1, <3>1 DEF Quiet, TabQuiet
    <3>3. \A u \in Tabs : TabQuiet(u)'
      BY <2>1, <3>1, <3>2, FlightIs DEF TabQuiet, Quiet, NoFlightIs
    <3>4. QED BY <1>4, <2>1, <3>1, <3>3 DEF Quiet, Lives
  <2>3. ASSUME ~ ended', ~ missed' PROVE Kept'
    <3>1. Kept /\ Lives(authReq[t].issued)
      BY <1>1, <2>1, <2>3 DEF Kept, TabKept
    <3>2. \A u \in Tabs : At(u, "granted")' => u # t /\ At(u, "granted") /\ authReq'[u] = authReq[u]
      BY <1>5 DEF At
    <3>3. \A u \in Tabs \ {t} : ~ Arriving(u, authReq[t].issued)
      BY <2>1, <3>1 DEF Kept, TabKept
    <3>4. \A u \in Tabs : TabKept(u)'
      BY <1>2, <1>4, <2>1, <3>1, <3>2, <3>3, NoCookie DEF TabKept, Kept, Known, Lives, Arriving
    <3>5. QED BY <1>4, <2>1, <3>1, <3>4 DEF Kept, Known, Lives
  <2>4. Told'
    <3>1. ASSUME ~ ended, ~ missed PROVE jar'.refresh # NoToken
      BY <2>1, <3>1, NoCookie DEF Kept, TabKept, Lives
    <3>2. QED BY <1>1, <2>1, <3>1 DEF Told
  <2>5. QED BY <1>1, <1>3, <1>6, <1>7, <1>8, <2>2, <2>3, <2>4
<1>12. QED BY <1>9, <1>10, <1>11

(* The cooldown and the access token run out, somebody logs out or the session
   is ended elsewhere: no call and no renewal goes on. *)
LEMMA BrowserRests ==
  ASSUME BrowserInv, BrowserNext \/ UNCHANGED vars,
         \/ \E t \in Tabs : Cooldown(t)
         \/ AccessExpires \/ LogoutClicked \/ EndedElsewhere \/ UNCHANGED vars
  PROVE  BrowserInv'
<1> USE DEF BrowserInv
<1>1. /\ SessionsInv' /\ UNCHANGED <<call, flight, expired, clash, cut, missed, failed>>
      /\ authReq' = authReq
  BY BrowserServer
  DEF Cooldown, AccessExpires, LogoutClicked, EndedElsewhere, Logout, Expire, RevokeSession,
      vars, serverVars, clientVars, mishaps
<1>2. /\ ended' = TRUE \/ (ended' = ended /\ token' = token)
      /\ blocked' = blocked \/ \E t \in Tabs : blocked[t] /\ blocked' = [blocked EXCEPT ![t] = FALSE]
  BY DEF Cooldown, AccessExpires, LogoutClicked, EndedElsewhere, vars, serverVars, rows, clientVars
<1>3. /\ jar' \in [refresh : Cookie, access : BOOLEAN]
      /\ ended' = TRUE \/ jar'.refresh = jar.refresh
  <2>1. Empty \in [refresh : Cookie, access : BOOLEAN]
    BY DEF Empty, Cookie
  <2>2. [jar EXCEPT !.access = FALSE] \in [refresh : Cookie, access : BOOLEAN]
        /\ [jar EXCEPT !.access = FALSE].refresh = jar.refresh
    BY DEF ClientTypeOK
  <2>3. QED
    BY <2>1, <2>2
    DEF Cooldown, AccessExpires, LogoutClicked, EndedElsewhere, vars, clientVars, ClientTypeOK
<1>4. ClientTypeOK' /\ CallsOK' /\ WaitersHaveAFlight'
  <2>1. CallsOK' /\ WaitersHaveAFlight'
    BY <1>1 DEF CallsOK, WaitersHaveAFlight
  <2>2. {ended', clash', cut', missed'} \subseteq BOOLEAN /\ flight' \in [Tabs -> Flight]
    BY <1>1, <1>2 DEF ClientTypeOK, Flight
  <2>3. QED BY <1>1, <1>2, <1>3, <2>1, <2>2, TabsTyped
<1>5. \A u \in Tabs : FlightOK(u)'
  BY <1>1 DEF FlightOK, At
<1>6. ASSUME ~ ended', ~ clash', ~ cut', ~ missed' PROVE Quiet'
  <2>1. Quiet /\ token' = token /\ jar'.refresh = jar.refresh
    BY <1>1, <1>2, <1>3, <1>6
  <2>2. \A t \in Tabs : blocked'[t] => blocked[t]
    BY <1>2 DEF ClientTypeOK
  <2>3. \A u \in Tabs : TabQuiet(u)'
    BY <1>1, <2>1, <2>2 DEF TabQuiet, Quiet, Lives, At
  <2>4. QED BY <1>1, <2>1, <2>3 DEF Quiet, Lives
<1>7. ASSUME ~ ended', ~ missed' PROVE Kept'
  <2>1. Kept /\ token' = token /\ jar'.refresh = jar.refresh
    BY <1>1, <1>2, <1>3, <1>7
  <2>2. QED BY <1>1, <2>1 DEF Kept, TabKept, Known, Lives, At, Arriving
<1>8. Told'
  BY <1>1, <1>2, <1>3 DEF Told
<1>9. QED BY <1>1, <1>4, <1>5, <1>6, <1>7, <1>8

LEMMA BrowserInitially == BrowserInit => BrowserInv
<1> SUFFICES ASSUME BrowserInit PROVE BrowserInv
  OBVIOUS
<1>1. PICK k \in Tokens :
          /\ token = [j \in Tokens |-> IF j = k THEN "live" ELSE "none"]
          /\ root = [j \in Tokens |-> IF j = k THEN k ELSE NoToken]
          /\ jar = [refresh |-> k, access |-> TRUE]
  BY DEF BrowserInit
<1>2. SessionsInv
  <2>1. SessionsTypeOK
    BY <1>1, NoRequestIs DEF BrowserInit, SessionsTypeOK
  <2>2. ASSUME NEW s \in Requests PROVE AuthReqOK(authReq[s])
    BY NoRequestIs DEF BrowserInit, AuthReqOK
  <2>3. ASSUME NEW j \in Tokens PROVE TokenUses(j)
    <3>1. Exchanging(j) = {}
      BY NoRequestIs DEF BrowserInit, Exchanging
    <3>2. QED BY <3>1, SomeRequests DEF BrowserInit, TokenUses
  <2>4. ASSUME NEW l \in Links PROVE LinkUses(l)
    <3>1. Resetting(l) = {}
      BY NoRequestIs DEF BrowserInit, Resetting
    <3>2. QED BY <3>1, SomeRequests DEF BrowserInit, LinkUses
  <2>5. QED BY <2>1, <2>2, <2>3, <2>4 DEF SessionsInv
<1>3. CallsOK
  BY DEF BrowserInit, CallsOK, Where
<1>4. ClientTypeOK
  <2>1. jar \in [refresh : Cookie, access : BOOLEAN]
    BY <1>1 DEF Cookie
  <2>2. QED BY <1>2, <1>3, <2>1, FlightIs
            DEF BrowserInit, ClientTypeOK, CallsOK, SessionsInv, NoFlightIs, Flight
<1>5. WaitersHaveAFlight
  BY DEF BrowserInit, WaitersHaveAFlight
<1>6. \A t \in Tabs : FlightOK(t)
  BY FlightIs, NoRequestIs DEF BrowserInit, FlightOK, NoFlightIs, At, Tabs
<1>7. Quiet
  BY <1>1, FlightIs DEF BrowserInit, Quiet, TabQuiet, Lives, NoFlightIs
<1>8. Kept
  <2>1. \A t \in Tabs : TabKept(t)
    BY NoRequestIs, NoCookie DEF BrowserInit, TabKept, Known, At, Tabs
  <2>2. QED BY <1>1, <2>1 DEF Kept, Known, Lives
<1>9. Told
  BY <1>1, NoCookie DEF BrowserInit, Told
<1>10. QED BY <1>2, <1>3, <1>4, <1>5, <1>6, <1>7, <1>8, <1>9 DEF BrowserInv

LEMMA BrowserInvNext == BrowserInv /\ [BrowserNext]_vars => BrowserInv'
<1> SUFFICES ASSUME BrowserInv, [BrowserNext]_vars PROVE BrowserInv'
  OBVIOUS
<1>1. QED
  BY CallStep, ServeStep, ServerStepStep, RenewalEnds, BrowserRests DEF BrowserNext

(* Whatever calls and tabs there are: the types of the browser's state, the
   bookkeeping of the server behind it, and the calls that wait for a renewal
   have one, which no renewal outlives. *)
THEOREM BrowserInvariant == BrowserSpec => []BrowserInv
  BY BrowserInitially, BrowserInvNext, PTL DEF BrowserSpec

(* For any number of tabs and calls: a renewal that succeeds sends nobody to
   /login, and each way to get there has a cause that is named. *)
THEOREM SignedOutTruly == BrowserSpec => []SignedOutForACause
<1>1. BrowserInv => SignedOutForACause
  BY DEF BrowserInv, Quiet, TabQuiet, SignedOutForACause
<1>2. QED BY <1>1, BrowserInvariant, PTL

(* For any number of tabs and calls, two tabs at once and failing renewals
   included: unless an answer was lost, the jar at rest holds the live token or
   none, and none only after a mishap a user was told of. *)
THEOREM JarAtRest == BrowserSpec => []NoDeadCookieIsKept
<1>1. BrowserInv => NoDeadCookieIsKept
  <2> SUFFICES ASSUME BrowserInv, ~ ended, \A t \in Tabs : flight[t] = NoFlight
               PROVE  /\ Lives(jar.refresh) \/ \E t \in Tabs : expired[t]
                      /\ jar.refresh \in Tokens => Lives(jar.refresh) \/ missed
                      /\ jar.refresh = NoToken => cut \/ missed \/ clash
    BY DEF NoDeadCookieIsKept
  <2>1. jar.refresh \in Tokens \/ jar.refresh = NoToken
    BY DEF BrowserInv, ClientTypeOK, Cookie
  <2>2. jar.refresh \in Tokens => Lives(jar.refresh) \/ missed
    BY FlightIs DEF BrowserInv, Kept, NoFlightIs
  <2>3. ~ Lives(jar.refresh) => \E t \in Tabs : expired[t]
    BY <2>1, <2>2 DEF BrowserInv, Told
  <2>4. jar.refresh = NoToken => cut \/ missed \/ clash
    BY NoCookie DEF BrowserInv, Quiet, Lives
  <2>5. QED BY <2>2, <2>3, <2>4
<1>2. QED BY <1>1, BrowserInvariant, PTL
------------------------------------------------------------------------------
(* The forms of the onboarding wizards: their widgets and rules deal in raw
   answers only, every field has a rule, and the publisher understands what
   the rule of the form accepts as the form does. *)
RuleOK(rule) == \A raw \in DOMAIN rule : raw \in Raw /\ rule[raw] \in Raw
WidgetOK(widget) == widget.start \in Raw /\ widget.entries \subseteq Raw
SchemaOK(schema) == \A f \in DOMAIN schema : RuleOK(schema[f])
FormOK(form) == \A f \in DOMAIN form : WidgetOK(form[f])
SameRule(rule, judge) == \A raw \in DOMAIN rule : raw \in DOMAIN judge /\ judge[raw] = rule[raw]
Same(schema, judge) ==
    /\ DOMAIN schema \subseteq DOMAIN judge
    /\ \A f \in DOMAIN schema : SameRule(schema[f], judge[f])
StepOK(step, judge) ==
    /\ FormOK(step.widgets) /\ SchemaOK(step.schema) /\ SchemaOK(judge)
    /\ DOMAIN step.widgets \subseteq DOMAIN step.schema
    /\ Same(step.schema, judge)

LEMMA RulesOK ==
  /\ RuleOK(RequiredText) /\ RuleOK(OptionalText) /\ RuleOK(urlOrEmpty) /\ RuleOK(OneOf)
  /\ RuleOK(MaybeOneOf) /\ RuleOK(Flag) /\ RuleOK(Number) /\ RuleOK(MaybeNumber)
  /\ RuleOK(Positive) /\ RuleOK(AnyOf) /\ RuleOK(SomeOf) /\ RuleOK(RowsOf) /\ RuleOK(LooseRows)
<1>1. /\ RuleOK(RequiredText) /\ RuleOK(OptionalText) /\ RuleOK(urlOrEmpty) /\ RuleOK(OneOf)
      /\ RuleOK(MaybeOneOf) /\ RuleOK(Flag)
  BY DEF RuleOK, Raw, RequiredText, OptionalText, urlOrEmpty, OneOf, MaybeOneOf, Flag
<1>2. RuleOK(Number) /\ RuleOK(MaybeNumber)
  BY DEF RuleOK, Raw, Number, MaybeNumber, ++
<1>3. RuleOK(Positive) /\ RuleOK(AnyOf) /\ RuleOK(SomeOf) /\ RuleOK(RowsOf) /\ RuleOK(LooseRows)
  BY DEF RuleOK, Raw, Positive, AnyOf, SomeOf, RowsOf, LooseRows, ++
<1>4. QED BY <1>1, <1>2, <1>3

LEMMA WidgetsOK ==
  /\ WidgetOK(Input) /\ WidgetOK(Counted) /\ WidgetOK(Select) /\ WidgetOK(Preset)
  /\ WidgetOK(Upload) /\ WidgetOK(Toggles) /\ WidgetOK(Tags) /\ WidgetOK(Rows)
  BY DEF WidgetOK, Widget, Raw, Input, Counted, Select, Preset, Upload, Toggles, Tags, Rows

(* A table of one rule or widget has exactly the fields named. *)
LEMMA OneForAll ==
  ASSUME NEW what, NEW fields
  PROVE  /\ DOMAIN All(what, fields) = fields
         /\ RuleOK(what) => SchemaOK(All(what, fields))
         /\ WidgetOK(what) => FormOK(All(what, fields))
  BY DEF All, SchemaOK, FormOK

(* Two tables in one have the fields of both, and nothing new in them. *)
LEMMA BothTables ==
  ASSUME NEW one, NEW other
  PROVE  /\ DOMAIN (one ++ other) = DOMAIN one \union DOMAIN other
         /\ SchemaOK(one) /\ SchemaOK(other) => SchemaOK(one ++ other)
         /\ FormOK(one) /\ FormOK(other) => FormOK(one ++ other)
  BY DEF ++, SchemaOK, FormOK

LEMMA SameAsItself ==
  ASSUME NEW schema PROVE Same(schema, schema)
  BY DEF Same, SameRule

LEMMA SchemasOK ==
  /\ SchemaOK(personalDetailsInput)
  /\ SchemaOK(startupInfoStep)
  /\ SchemaOK(productStep)
  /\ SchemaOK(marketStep)
  /\ SchemaOK(teamStep)
  /\ SchemaOK(tractionStep)
  /\ SchemaOK(fundingStep)
  /\ SchemaOK(verificationStep)
  /\ SchemaOK(preferencesStep)
  /\ SchemaOK(createInvestorInput)
  /\ SchemaOK(createMentorInput)
  /\ SchemaOK(createIncubatorInput)
  /\ SchemaOK(createUniversityInput)
  /\ SchemaOK(createServiceProviderInput)
  /\ SchemaOK(createJobSeekerInput)
<1>1. SchemaOK(personalDetailsInput)
  BY RulesOK, OneForAll, BothTables DEF personalDetailsInput
<1>2. SchemaOK(startupInfoStep)
  BY RulesOK, OneForAll, BothTables DEF startupInfoStep
<1>3. SchemaOK(productStep)
  BY RulesOK, OneForAll, BothTables DEF productStep
<1>4. SchemaOK(marketStep)
  BY RulesOK, OneForAll, BothTables DEF marketStep
<1>5. SchemaOK(teamStep)
  BY RulesOK, OneForAll, BothTables DEF teamStep
<1>6. SchemaOK(tractionStep)
  BY RulesOK, OneForAll, BothTables DEF tractionStep
<1>7. SchemaOK(fundingStep)
  BY RulesOK, OneForAll, BothTables DEF fundingStep
<1>8. SchemaOK(verificationStep)
  BY RulesOK, OneForAll, BothTables DEF verificationStep
<1>9. SchemaOK(preferencesStep)
  BY RulesOK, OneForAll, BothTables DEF preferencesStep
<1>10. SchemaOK(createInvestorInput)
  BY RulesOK, OneForAll, BothTables DEF createInvestorInput
<1>11. SchemaOK(createMentorInput)
  BY RulesOK, OneForAll, BothTables DEF createMentorInput
<1>12. SchemaOK(createIncubatorInput)
  BY RulesOK, OneForAll, BothTables DEF createIncubatorInput
<1>13. SchemaOK(createUniversityInput)
  BY RulesOK, OneForAll, BothTables DEF createUniversityInput
<1>14. SchemaOK(createServiceProviderInput)
  BY RulesOK, OneForAll, BothTables DEF createServiceProviderInput
<1>15. SchemaOK(createJobSeekerInput)
  BY RulesOK, OneForAll, BothTables DEF createJobSeekerInput
<1>16. QED BY <1>1, <1>2, <1>3, <1>4, <1>5, <1>6, <1>7, <1>8, <1>9, <1>10, <1>11, <1>12, <1>13, <1>14, <1>15

LEMMA AllFormsOK ==
  /\ FormOK(Step1PersonalDetails)
  /\ FormOK(PersonalDetailsStep)
  /\ FormOK(Step2StartupInfo)
  /\ FormOK(Step3Product)
  /\ FormOK(Step4Market)
  /\ FormOK(Step5Team)
  /\ FormOK(Step6Traction)
  /\ FormOK(Step7Funding)
  /\ FormOK(Step8Verification)
  /\ FormOK(Step9Preferences)
  /\ FormOK(InvestorInfoStep)
  /\ FormOK(MentorInfoStep)
  /\ FormOK(IncubatorInfoStep)
  /\ FormOK(UniversityInfoStep)
  /\ FormOK(ServiceProviderInfoStep)
  /\ FormOK(JobSeekerInfoStep)
<1>1. FormOK(Step1PersonalDetails)
  BY WidgetsOK, OneForAll, BothTables DEF Step1PersonalDetails
<1>2. FormOK(PersonalDetailsStep)
  BY WidgetsOK, OneForAll, BothTables DEF PersonalDetailsStep
<1>3. FormOK(Step2StartupInfo)
  BY WidgetsOK, OneForAll, BothTables DEF Step2StartupInfo
<1>4. FormOK(Step3Product)
  BY WidgetsOK, OneForAll, BothTables DEF Step3Product
<1>5. FormOK(Step4Market)
  BY WidgetsOK, OneForAll, BothTables DEF Step4Market
<1>6. FormOK(Step5Team)
  BY WidgetsOK, OneForAll, BothTables DEF Step5Team
<1>7. FormOK(Step6Traction)
  BY WidgetsOK, OneForAll, BothTables DEF Step6Traction
<1>8. FormOK(Step7Funding)
  BY WidgetsOK, OneForAll, BothTables DEF Step7Funding
<1>9. FormOK(Step8Verification)
  BY WidgetsOK, OneForAll, BothTables DEF Step8Verification
<1>10. FormOK(Step9Preferences)
  BY WidgetsOK, OneForAll, BothTables DEF Step9Preferences
<1>11. FormOK(InvestorInfoStep)
  BY WidgetsOK, OneForAll, BothTables DEF InvestorInfoStep
<1>12. FormOK(MentorInfoStep)
  BY WidgetsOK, OneForAll, BothTables DEF MentorInfoStep
<1>13. FormOK(IncubatorInfoStep)
  BY WidgetsOK, OneForAll, BothTables DEF IncubatorInfoStep
<1>14. FormOK(UniversityInfoStep)
  BY WidgetsOK, OneForAll, BothTables DEF UniversityInfoStep
<1>15. FormOK(ServiceProviderInfoStep)
  BY WidgetsOK, OneForAll, BothTables DEF ServiceProviderInfoStep
<1>16. FormOK(JobSeekerInfoStep)
  BY WidgetsOK, OneForAll, BothTables DEF JobSeekerInfoStep
<1>17. QED BY <1>1, <1>2, <1>3, <1>4, <1>5, <1>6, <1>7, <1>8, <1>9, <1>10, <1>11, <1>12, <1>13, <1>14, <1>15, <1>16

LEMMA FieldsHaveRules ==
  /\ DOMAIN Step1PersonalDetails \subseteq DOMAIN personalDetailsInput
  /\ DOMAIN PersonalDetailsStep \subseteq DOMAIN personalDetailsInput
  /\ DOMAIN Step2StartupInfo \subseteq DOMAIN startupInfoStep
  /\ DOMAIN Step3Product \subseteq DOMAIN productStep
  /\ DOMAIN Step4Market \subseteq DOMAIN marketStep
  /\ DOMAIN Step5Team \subseteq DOMAIN teamStep
  /\ DOMAIN Step6Traction \subseteq DOMAIN tractionStep
  /\ DOMAIN Step7Funding \subseteq DOMAIN fundingStep
  /\ DOMAIN Step8Verification \subseteq DOMAIN verificationStep
  /\ DOMAIN Step9Preferences \subseteq DOMAIN preferencesStep
  /\ DOMAIN InvestorInfoStep \subseteq DOMAIN createInvestorInput
  /\ DOMAIN MentorInfoStep \subseteq DOMAIN createMentorInput
  /\ DOMAIN IncubatorInfoStep \subseteq DOMAIN createIncubatorInput
  /\ DOMAIN UniversityInfoStep \subseteq DOMAIN createUniversityInput
  /\ DOMAIN ServiceProviderInfoStep \subseteq DOMAIN createServiceProviderInput
  /\ DOMAIN JobSeekerInfoStep \subseteq DOMAIN createJobSeekerInput
<1>1. DOMAIN Step1PersonalDetails \subseteq DOMAIN personalDetailsInput
  BY DEF All, ++, Step1PersonalDetails, personalDetailsInput
<1>2. DOMAIN PersonalDetailsStep \subseteq DOMAIN personalDetailsInput
  BY DEF All, ++, PersonalDetailsStep, personalDetailsInput
<1>3. DOMAIN Step2StartupInfo \subseteq DOMAIN startupInfoStep
  BY DEF All, ++, Step2StartupInfo, startupInfoStep
<1>4. DOMAIN Step3Product \subseteq DOMAIN productStep
  BY DEF All, ++, Step3Product, productStep
<1>5. DOMAIN Step4Market \subseteq DOMAIN marketStep
  BY DEF All, ++, Step4Market, marketStep
<1>6. DOMAIN Step5Team \subseteq DOMAIN teamStep
  BY DEF All, ++, Step5Team, teamStep
<1>7. DOMAIN Step6Traction \subseteq DOMAIN tractionStep
  BY DEF All, ++, Step6Traction, tractionStep
<1>8. DOMAIN Step7Funding \subseteq DOMAIN fundingStep
  BY DEF All, ++, Step7Funding, fundingStep
<1>9. DOMAIN Step8Verification \subseteq DOMAIN verificationStep
  BY DEF All, ++, Step8Verification, verificationStep
<1>10. DOMAIN Step9Preferences \subseteq DOMAIN preferencesStep
  BY DEF All, ++, Step9Preferences, preferencesStep
<1>11. DOMAIN InvestorInfoStep \subseteq DOMAIN createInvestorInput
  <2>1. \A f \in DOMAIN InvestorInfoStep :
           f \in {"firmName", "designation", "website", "bio", "checkSizeMinAmount",
                  "checkSizeMaxAmount", "location", "investmentThesis"}
                 \union {"investorType", "preferredStages"}
                 \union {"preferredIndustries", "preferredGeography", "portfolioCompanies",
                         "openForPitches"}
    BY DEF All, ++, InvestorInfoStep
  <2>2. {"firmName", "designation", "investmentThesis"} \subseteq DOMAIN createInvestorInput
    BY ZenonT(60) DEF All, ++, createInvestorInput
  <2>3. {"website", "bio", "location"} \subseteq DOMAIN createInvestorInput
    BY ZenonT(60) DEF All, ++, createInvestorInput
  <2>4. {"checkSizeMinAmount", "checkSizeMaxAmount"} \subseteq DOMAIN createInvestorInput
    BY ZenonT(60) DEF All, ++, createInvestorInput
  <2>5. {"investorType", "preferredStages"} \subseteq DOMAIN createInvestorInput
    BY ZenonT(60) DEF All, ++, createInvestorInput
  <2>6. {"preferredIndustries", "preferredGeography"} \subseteq DOMAIN createInvestorInput
    BY ZenonT(60) DEF All, ++, createInvestorInput
  <2>7. {"portfolioCompanies", "openForPitches"} \subseteq DOMAIN createInvestorInput
    BY ZenonT(60) DEF All, ++, createInvestorInput
  <2>8. QED BY <2>1, <2>2, <2>3, <2>4, <2>5, <2>6, <2>7
<1>12. DOMAIN MentorInfoStep \subseteq DOMAIN createMentorInput
  BY DEF All, ++, MentorInfoStep, createMentorInput
<1>13. DOMAIN IncubatorInfoStep \subseteq DOMAIN createIncubatorInput
  BY DEF All, ++, IncubatorInfoStep, createIncubatorInput
<1>14. DOMAIN UniversityInfoStep \subseteq DOMAIN createUniversityInput
  BY DEF All, ++, UniversityInfoStep, createUniversityInput
<1>15. DOMAIN ServiceProviderInfoStep \subseteq DOMAIN createServiceProviderInput
  BY DEF All, ++, ServiceProviderInfoStep, createServiceProviderInput
<1>16. DOMAIN JobSeekerInfoStep \subseteq DOMAIN createJobSeekerInput
  BY DEF All, ++, JobSeekerInfoStep, createJobSeekerInput
<1>17. QED BY <1>1, <1>2, <1>3, <1>4, <1>5, <1>6, <1>7, <1>8, <1>9, <1>10, <1>11, <1>12, <1>13, <1>14, <1>15, <1>16

(* What publish accepts beyond the form, for two sections of the founder, adds
   to the rules and changes none. *)
LEMMA PublishAdds ==
  /\ Same(teamStep, teamStepPublish) /\ Same(preferencesStep, preferencesStepPublish)
  /\ SchemaOK(teamStepPublish) /\ SchemaOK(preferencesStepPublish)
<1>1. /\ SameRule(OneOf, [unset |-> "good"] ++ OneOf)
      /\ SameRule(Positive, [unset |-> "good"] ++ Positive)
  BY DEF SameRule, OneOf, Positive, ++
<1>2. SameRule(SomeOf, AnyOf)
  BY DEF SameRule, SomeOf, AnyOf
<1>3. Same(preferencesStep, preferencesStepPublish)
  BY <1>2 DEF Same, preferencesStep, preferencesStepPublish, All
<1>4. Same(teamStep, teamStepPublish)
  <2>1. DOMAIN teamStep = {"members", "hiringStatus", "openRoles", "teamSize"}
    BY DEF teamStep, All, ++
  <2>2. teamStep["hiringStatus"] = OneOf /\ teamStep["teamSize"] = Positive
    BY DEF teamStep, All, ++
  <2>3. DOMAIN teamStepPublish = {"hiringStatus", "teamSize"} \union DOMAIN teamStep
    BY DEF teamStepPublish, All, ++
  <2>4. /\ teamStepPublish["hiringStatus"] = [unset |-> "good"] ++ OneOf
        /\ teamStepPublish["teamSize"] = [unset |-> "good"] ++ Positive
    BY DEF teamStepPublish, All, ++
  <2>5. teamStepPublish["members"] = teamStep["members"]
    BY <2>1 DEF teamStepPublish, All, ++
  <2>6. teamStepPublish["openRoles"] = teamStep["openRoles"]
    BY <2>1 DEF teamStepPublish, All, ++
  <2>7. \A f \in DOMAIN teamStep : SameRule(teamStep[f], teamStepPublish[f])
    <3> SUFFICES ASSUME NEW f \in DOMAIN teamStep
                 PROVE  SameRule(teamStep[f], teamStepPublish[f])
      OBVIOUS
    <3>1. CASE f \in {"members", "openRoles"}
      BY <2>5, <2>6, <3>1 DEF SameRule
    <3>2. CASE f \in {"hiringStatus", "teamSize"}
      BY <1>1, <2>2, <2>4, <3>2
    <3>3. QED BY <2>1, <3>1, <3>2
  <2>8. QED BY <2>3, <2>7 DEF Same
<1>5. RuleOK([unset |-> "good"] ++ OneOf) /\ RuleOK([unset |-> "good"] ++ Positive)
  BY DEF RuleOK, Raw, OneOf, Positive, ++
<1>6. SchemaOK(teamStepPublish)
  BY <1>5, SchemasOK, OneForAll, BothTables DEF teamStepPublish
<1>7. SchemaOK(preferencesStepPublish)
  BY RulesOK, OneForAll DEF preferencesStepPublish
<1>8. QED BY <1>3, <1>4, <1>6, <1>7

(* The sections that publish forgives, it can do without. *)
LEMMA Forgiven ==
  /\ \A f \in DOMAIN Step5Team : "unset" \in DOMAIN teamStepPublish[f]
  /\ \A f \in DOMAIN Step9Preferences : "unset" \in DOMAIN preferencesStepPublish[f]
<1>1. \A f \in DOMAIN Step9Preferences : "unset" \in DOMAIN preferencesStepPublish[f]
  BY DEF Step9Preferences, preferencesStepPublish, All, AnyOf
<1>2. ASSUME NEW f \in DOMAIN Step5Team PROVE "unset" \in DOMAIN teamStepPublish[f]
  <2>1. f \in {"members", "teamSize", "hiringStatus", "openRoles"}
    BY DEF Step5Team, All, ++
  <2>2. /\ teamStepPublish["hiringStatus"] = [unset |-> "good"] ++ OneOf
        /\ teamStepPublish["teamSize"] = [unset |-> "good"] ++ Positive
    BY DEF teamStepPublish, All, ++
  <2>3. teamStepPublish["members"] = RowsOf /\ teamStepPublish["openRoles"] = AnyOf
    BY DEF teamStepPublish, teamStep, All, ++
  <2>4. QED BY <2>1, <2>2, <2>3 DEF RowsOf, AnyOf, ++
<1>3. QED BY <1>1, <1>2

(* Every step of every wizard: its form, its schema and the publisher's agree. *)
LEMMA PagesOK ==
  ASSUME NEW r \in DOMAIN Page
  PROVE  /\ Len(Page[r]) \in Nat
         /\ DOMAIN Page[r] = 1..Len(Page[r])
         /\ \A i \in DOMAIN Page[r] :
               /\ StepOK(Page[r][i], PublisherOf[r].schema[i])
               /\ i \in PublisherOf[r].lenient =>
                     \A f \in DOMAIN Page[r][i].widgets : "unset" \in DOMAIN PublisherOf[r].schema[i][f]
<1>1. /\ Same(personalDetailsInput, personalDetailsInput)
      /\ \A schema : Same(schema, schema)
  BY SameAsItself
<1>2. ASSUME NEW widgets, NEW schema, FormOK(widgets), SchemaOK(schema),
             DOMAIN widgets \subseteq DOMAIN schema,
             Page[r] = Short(widgets, schema), PublisherOf[r] = Upserting(schema)
      PROVE  /\ Len(Page[r]) \in Nat
             /\ DOMAIN Page[r] = 1..Len(Page[r])
             /\ \A i \in DOMAIN Page[r] : StepOK(Page[r][i], PublisherOf[r].schema[i])
             /\ PublisherOf[r].lenient = {}
  <2>1. /\ Len(Page[r]) = 2 /\ DOMAIN Page[r] = 1..2
        /\ Page[r][1] = FormStep(PersonalDetailsStep, personalDetailsInput)
        /\ Page[r][2] = FormStep(widgets, schema)
        /\ PublisherOf[r].schema[1] = personalDetailsInput
        /\ PublisherOf[r].schema[2] = schema
        /\ PublisherOf[r].lenient = {}
    BY <1>2 DEF Short, Upserting, Publisher
  <2>2. StepOK(Page[r][1], PublisherOf[r].schema[1]) /\ StepOK(Page[r][2], PublisherOf[r].schema[2])
    BY <1>1, <1>2, <2>1, SchemasOK, AllFormsOK, FieldsHaveRules DEF StepOK, FormStep
  <2>3. QED BY <2>1, <2>2
<1>3. CASE r = "FOUNDER"
  <2>1. Page[r] = FounderOnboardingPage /\ PublisherOf[r] = StartupPublisher
    BY <1>3 DEF Page, PublisherOf
  <2>2. Len(Page[r]) = 9 /\ DOMAIN Page[r] = 1..9
    BY <2>1 DEF FounderOnboardingPage
  <2>3. ASSUME NEW i \in 1..9 PROVE StepOK(Page[r][i], PublisherOf[r].schema[i])
    <3>1. /\ i = 1 => /\ Page[r][i] = FormStep(Step1PersonalDetails, personalDetailsInput)
                      /\ PublisherOf[r].schema[i] = personalDetailsInput
          /\ i = 2 => /\ Page[r][i] = FormStep(Step2StartupInfo, startupInfoStep)
                      /\ PublisherOf[r].schema[i] = startupInfoStep
          /\ i = 3 => /\ Page[r][i] = FormStep(Step3Product, productStep)
                      /\ PublisherOf[r].schema[i] = productStep
      BY <2>1 DEF FounderOnboardingPage, StartupPublisher, Publisher
    <3>2. /\ i = 4 => /\ Page[r][i] = FormStep(Step4Market, marketStep)
                      /\ PublisherOf[r].schema[i] = marketStep
          /\ i = 5 => /\ Page[r][i] = FormStep(Step5Team, teamStep)
                      /\ PublisherOf[r].schema[i] = teamStepPublish
          /\ i = 6 => /\ Page[r][i] = FormStep(Step6Traction, tractionStep)
                      /\ PublisherOf[r].schema[i] = tractionStep
      BY <2>1 DEF FounderOnboardingPage, StartupPublisher, Publisher
    <3>3. /\ i = 7 => /\ Page[r][i] = FormStep(Step7Funding, fundingStep)
                      /\ PublisherOf[r].schema[i] = fundingStep
          /\ i = 8 => /\ Page[r][i] = FormStep(Step8Verification, verificationStep)
                      /\ PublisherOf[r].schema[i] = verificationStep
          /\ i = 9 => /\ Page[r][i] = FormStep(Step9Preferences, preferencesStep)
                      /\ PublisherOf[r].schema[i] = preferencesStepPublish
      BY <2>1 DEF FounderOnboardingPage, StartupPublisher, Publisher
    <3>4. i \in {1, 2, 3, 4, 5, 6, 7, 8, 9}
      OBVIOUS
    <3>5. CASE i \in {1, 2, 3}
      BY <3>1, <3>5, <1>1, SchemasOK, AllFormsOK, FieldsHaveRules DEF StepOK, FormStep
    <3>6. CASE i \in {4, 5, 6}
      BY <3>2, <3>6, <1>1, PublishAdds, SchemasOK, AllFormsOK, FieldsHaveRules DEF StepOK, FormStep
    <3>7. CASE i \in {7, 8, 9}
      BY <3>3, <3>7, <1>1, PublishAdds, SchemasOK, AllFormsOK, FieldsHaveRules DEF StepOK, FormStep
    <3>8. QED BY <3>4, <3>5, <3>6, <3>7
  <2>4. PublisherOf[r].lenient = {5, 9}
    BY <2>1 DEF StartupPublisher, Publisher
  <2>5. /\ Page[r][5].widgets = Step5Team /\ PublisherOf[r].schema[5] = teamStepPublish
        /\ Page[r][9].widgets = Step9Preferences /\ PublisherOf[r].schema[9] = preferencesStepPublish
    BY <2>1 DEF FounderOnboardingPage, FormStep, StartupPublisher, Publisher
  <2>6. QED BY <2>2, <2>3, <2>4, <2>5, Forgiven
<1>4. CASE r = "INVESTOR"
  BY <1>2, <1>4, SchemasOK, AllFormsOK, FieldsHaveRules
     DEF Page, PublisherOf, InvestorOnboardingPage, InvestorPublisher
<1>5. CASE r = "MENTOR"
  BY <1>2, <1>5, SchemasOK, AllFormsOK, FieldsHaveRules
     DEF Page, PublisherOf, MentorOnboardingPage, MentorPublisher
<1>6. CASE r = "INCUBATOR"
  BY <1>2, <1>6, SchemasOK, AllFormsOK, FieldsHaveRules
     DEF Page, PublisherOf, IncubatorOnboardingPage, IncubatorPublisher
<1>7. CASE r = "UNIVERSITY"
  BY <1>2, <1>7, SchemasOK, AllFormsOK, FieldsHaveRules
     DEF Page, PublisherOf, UniversityOnboardingPage, UniversityPublisher
<1>8. CASE r = "SERVICE_PROVIDER"
  BY <1>2, <1>8, SchemasOK, AllFormsOK, FieldsHaveRules
     DEF Page, PublisherOf, ServiceProviderOnboardingPage, ServiceProviderPublisher
<1>9. CASE r = "JOB_SEEKER"
  BY <1>2, <1>9, SchemasOK, AllFormsOK, FieldsHaveRules
     DEF Page, PublisherOf, JobSeekerOnboardingPage, JobSeekerPublisher
<1>10. r \in {"FOUNDER", "INVESTOR", "MENTOR", "INCUBATOR", "UNIVERSITY", "JOB_SEEKER",
              "SERVICE_PROVIDER"}
  BY DEF Page
<1>11. QED BY <1>3, <1>4, <1>5, <1>6, <1>7, <1>8, <1>9, <1>10
------------------------------------------------------------------------------
(* The wizards, resumed. *)

(* In the browser that went through the wizard, an empty store means that the
   first step is shown, and past the step of the watched field the store holds
   the reading of an answer its schema accepts: of the one on the server, unless
   a reload saved the blank first form since. *)
StoreOK ==
    /\ ~ begun => shown = 1 /\ savedStep \in {0, 1}
    /\ Home < shown => \E raw \in DOMAIN Rule : stored = Rule[raw]
    /\ Home < shown /\ ~ blanked => saved \in DOMAIN Rule /\ stored = Rule[saved]
ResumeInv ==
    /\ ResumeTypeOK /\ PublishFollowsForm
    /\ verdict = "accepted" => begun
    /\ unsaved => OnForm
    /\ ~ elsewhere => StoreOK

(* What the tables say of the field a behaviour watches. *)
LEMMA Watched ==
  ASSUME wizard \in OnboardingRoles, question \in Questions(wizard)
  PROVE  /\ Len(Pages) \in Nat /\ Home \in 1..Len(Pages)
         /\ Final \in Nat /\ Final \in {Len(Pages), Len(Pages) + 1}
         /\ Field.start \in Raw /\ Field.entries \subseteq Raw
         /\ \A raw \in DOMAIN Rule : raw \in Raw /\ Rule[raw] \in Raw
         /\ \A raw \in DOMAIN Rule : raw \in DOMAIN PublishRule /\ PublishRule[raw] = Rule[raw]
         /\ \A raw \in DOMAIN PublishRule : PublishRule[raw] \in Raw
         /\ Home \in Judge.lenient => "unset" \in DOMAIN PublishRule
<1>1. wizard \in DOMAIN Page
  BY ResumeAssumption
<1>2. PICK i \in DOMAIN Pages :
         \E kind \in {Kind(wizard, i, f) : f \in DOMAIN Pages[i].widgets} :
            question = <<i, CHOOSE f \in DOMAIN Pages[i].widgets : Kind(wizard, i, f) = kind>>
  BY DEF Questions, Pages
<1>3. question[1] = i /\ question[2] \in DOMAIN Pages[i].widgets
  BY <1>2
<1>4. /\ StepOK(Pages[i], PublisherOf[wizard].schema[i])
      /\ i \in PublisherOf[wizard].lenient => "unset" \in DOMAIN PublisherOf[wizard].schema[i][question[2]]
  BY <1>1, <1>3, PagesOK DEF Pages
<1>5. /\ WidgetOK(Field) /\ RuleOK(Rule) /\ SameRule(Rule, PublishRule) /\ RuleOK(PublishRule)
      /\ Home \in Judge.lenient => "unset" \in DOMAIN PublishRule
  BY <1>3, <1>4 DEF StepOK, FormOK, SchemaOK, Same, Field, Rule, PublishRule, Judge, Home
<1>6. Len(Pages) \in Nat /\ Home \in 1..Len(Pages)
  BY <1>1, <1>3, PagesOK DEF Pages, Home
<1>7. QED BY <1>5, <1>6 DEF WidgetOK, RuleOK, SameRule, Final

LEMMA NothingIsNoAnswer == None \notin Raw /\ "unset" \in Raw
  BY DEF None, Raw

(* A form that mounts holds a raw answer exactly when it has the field. *)
LEMMA MountedIs ==
  ASSUME Field.start \in Raw, NEW step, NEW store \in Raw \union {None}
  PROVE  /\ Mounted(step, store) \in Raw \union {None}
         /\ Mounted(step, store) = None <=> step # Home
  BY NothingIsNoAnswer DEF Mounted, None

(* Showing another step keeps the wizard well formed, and saves the form. *)
LEMMA ShowStepTyped ==
  ASSUME ResumeTypeOK, UNCHANGED asked, NEW step \in 1..Final, NEW store \in Raw \union {None},
         ShowStep(step, store)
  PROVE  /\ shown' = step /\ stored' = store
         /\ {answer', stored', saved'} \subseteq Raw \union {None}
         /\ answer' = None <=> shown' # Home
         /\ savedStep' \in 0..Len(Pages) /\ unsaved' = FALSE
         /\ saved' = IF Here THEN answer ELSE saved
         /\ OnForm => savedStep' = shown
         /\ ~ OnForm => savedStep' = savedStep
         /\ blanked' = (blanked /\ ~ Here)
<1>1. /\ Len(Pages) \in Nat /\ Home \in 1..Len(Pages) /\ Field.start \in Raw
  BY Watched DEF ResumeTypeOK
<1>2. /\ shown \in 1..Final /\ answer \in Raw \union {None} /\ saved \in Raw \union {None}
      /\ savedStep \in 0..Len(Pages) /\ Final \in Nat
  BY Watched DEF ResumeTypeOK
<1>3. /\ shown' = step /\ stored' = store /\ answer' = Mounted(step, store) /\ unsaved' = FALSE
  BY DEF ShowStep
<1>4. Here => OnForm
  BY <1>1 DEF Here, OnForm
<1>5. /\ saved' = IF Here THEN answer ELSE saved
      /\ OnForm => savedStep' = shown
      /\ ~ OnForm => savedStep' = savedStep
      /\ blanked' = (blanked /\ ~ Here)
  <2>1. blanked \in BOOLEAN
    BY DEF ResumeTypeOK
  <2>2. QED BY <1>4, <2>1 DEF ShowStep, SaveForm, MergedWith
<1>6. savedStep' \in 0..Len(Pages)
  BY <1>1, <1>2, <1>5 DEF OnForm
<1>7. QED BY <1>1, <1>2, <1>3, <1>5, <1>6, MountedIs

LEMMA AcceptedIs ==
  ASSUME ResumeTypeOK, Valid
  PROVE  /\ Accepted \in Raw \union {None}
         /\ Here => answer \in DOMAIN Rule /\ Accepted = Rule[answer]
         /\ ~ Here => Accepted = stored
  BY Watched DEF ResumeTypeOK, Valid, Accepted

LEMMA ResumeInitially == ResumeInit => ResumeInv
<1> SUFFICES ASSUME ResumeInit PROVE ResumeInv
  OBVIOUS
<1>1. wizard \in OnboardingRoles /\ question \in Questions(wizard)
  BY DEF ResumeInit
<1>2. /\ Len(Pages) \in Nat /\ Home \in 1..Len(Pages) /\ Field.start \in Raw
      /\ Final \in Nat /\ Final \in {Len(Pages), Len(Pages) + 1}
  BY <1>1, Watched
<1>3. /\ answer \in Raw \union {None} /\ (answer = None <=> 1 # Home)
  BY <1>2, MountedIs DEF ResumeInit
<1>4. /\ shown = 1 /\ stored = None /\ saved = None /\ live = None /\ savedStep = 0 /\ loads = 0
      /\ begun = FALSE /\ unsaved = FALSE /\ hydrated = TRUE /\ behind = FALSE /\ elsewhere = FALSE
      /\ blanked = FALSE /\ verdict = None /\ atLoad = "gone"
  BY DEF ResumeInit
<1>5. shown \in 1..Final /\ savedStep \in 0..Len(Pages) /\ loads \in 0..MaxLoads
  BY <1>2, <1>4, ResumeAssumption
<1>6. ResumeTypeOK
  BY <1>1, <1>3, <1>4, <1>5 DEF ResumeTypeOK, Here
<1>7. QED BY <1>2, <1>4, <1>6 DEF ResumeInv, PublishFollowsForm, StoreOK, None

LEMMA ResumeStep == ResumeInv /\ [ResumeNext]_resumeVars => ResumeInv'
<1> SUFFICES ASSUME ResumeInv, [ResumeNext]_resumeVars PROVE ResumeInv'
  OBVIOUS
<1>1. /\ ResumeTypeOK /\ wizard \in OnboardingRoles /\ question \in Questions(wizard)
      /\ shown \in 1..Final /\ savedStep \in 0..Len(Pages) /\ loads \in 0..MaxLoads
      /\ answer \in Raw \union {None} /\ stored \in Raw \union {None}
      /\ saved \in Raw \union {None} /\ live \in Raw \union {None}
      /\ atLoad \in Raw \union {None, "gone"} /\ verdict \in {None, "accepted", "refused"}
      /\ answer = None <=> shown # Home
      /\ begun \in BOOLEAN /\ unsaved \in BOOLEAN /\ hydrated \in BOOLEAN
      /\ blanked \in BOOLEAN /\ behind \in BOOLEAN /\ elsewhere \in BOOLEAN
      /\ unsaved => shown <= Len(Pages)
  BY DEF ResumeInv, ResumeTypeOK, Here, OnForm
<1>2. /\ Len(Pages) \in Nat /\ Home \in 1..Len(Pages)
      /\ Final \in Nat /\ Final \in {Len(Pages), Len(Pages) + 1}
      /\ Field.start \in Raw /\ Field.entries \subseteq Raw
      /\ \A raw \in DOMAIN Rule : raw \in Raw /\ Rule[raw] \in Raw
      /\ \A raw \in DOMAIN Rule : raw \in DOMAIN PublishRule /\ PublishRule[raw] = Rule[raw]
      /\ \A raw \in DOMAIN PublishRule : PublishRule[raw] \in Raw
      /\ Home \in Judge.lenient => "unset" \in DOMAIN PublishRule
  BY <1>1, Watched
<1>3. /\ wizard' = wizard /\ question' = question
  BY DEF ResumeNext, resumeVars, asked, Enter, Autosave, NextStep, EarlierStep, MountAgain,
         ReloadPage, ReturnToWizard, ChangeDevice, Hydrate, PublishProfile
<1>4. /\ Pages' = Pages /\ Home' = Home /\ Final' = Final /\ Rule' = Rule
  BY <1>3 DEF Pages, Home, Final, Rule
<1>5. /\ verdict = "accepted" => begun
      /\ ~ behind /\ ~ elsewhere => verdict # "refused" /\ (verdict = "accepted" => live = stored)
      /\ ~ elsewhere /\ ~ begun => shown = 1 /\ savedStep \in {0, 1}
      /\ ~ elsewhere /\ Home < shown => \E raw \in DOMAIN Rule : stored = Rule[raw]
      /\ ~ elsewhere /\ Home < shown /\ ~ blanked => saved \in DOMAIN Rule /\ stored = Rule[saved]
  BY DEF ResumeInv, PublishFollowsForm, StoreOK
<1>6. SUFFICES
        /\ shown' \in 1..Final /\ savedStep' \in 0..Len(Pages) /\ loads' \in 0..MaxLoads
        /\ {answer', stored', saved', live'} \subseteq Raw \union {None}
        /\ atLoad' \in Raw \union {None, "gone"} /\ verdict' \in {None, "accepted", "refused"}
        /\ answer' = None <=> shown' # Home
        /\ {begun', unsaved', hydrated', blanked', behind', elsewhere'} \subseteq BOOLEAN
        /\ verdict' = "accepted" => begun'
        /\ unsaved' => shown' <= Len(Pages)
        /\ ~ behind' /\ ~ elsewhere' =>
              verdict' # "refused" /\ (verdict' = "accepted" => live' = stored')
        /\ ~ elsewhere' /\ ~ begun' => shown' = 1 /\ savedStep' \in {0, 1}
        /\ ~ elsewhere' /\ Home < shown' => \E raw \in DOMAIN Rule : stored' = Rule[raw]
        /\ ~ elsewhere' /\ Home < shown' /\ ~ blanked' =>
              saved' \in DOMAIN Rule /\ stored' = Rule[saved']
  BY <1>1, <1>3, <1>4 DEF ResumeInv, ResumeTypeOK, PublishFollowsForm, StoreOK, Here, OnForm
<1>7. CASE Enter
  BY <1>7, <1>1, <1>2, <1>5, NothingIsNoAnswer DEF Enter, Here, OnForm, outcome
<1>8. CASE Autosave
  <2>1. /\ saved' = IF Here THEN answer ELSE saved
        /\ savedStep' = shown /\ unsaved /\ unsaved' = FALSE
        /\ blanked' = (blanked /\ ~ Here)
        /\ UNCHANGED <<shown, answer, stored, begun, hydrated, live, verdict, behind, elsewhere,
                       loads, atLoad>>
    BY <1>8 DEF Autosave, SaveForm, MergedWith, outcome
  <2>2. (Home < shown => ~ Here) /\ shown \in 0..Len(Pages)
    BY <2>1, <1>1, <1>2 DEF Here
  <2>3. ~ elsewhere /\ Home < shown /\ ~ blanked' => saved' \in DOMAIN Rule /\ stored' = Rule[saved']
    BY <2>1, <2>2, <1>5
  <2>4. saved' \in Raw \union {None} /\ blanked' \in BOOLEAN /\ savedStep' \in 0..Len(Pages)
    BY <2>1, <2>2, <1>1, <1>2
  <2>5. ~ begun => shown = 1 \/ elsewhere
    BY <1>5
  <2>6. ~ elsewhere /\ Home < shown => \E raw \in DOMAIN Rule : stored' = Rule[raw]
    BY <2>1, <1>5
  <2>7. ~ elsewhere /\ ~ begun => shown = 1 /\ savedStep' \in {0, 1}
    BY <2>1, <2>5
  <2>8. ~ behind /\ ~ elsewhere => verdict # "refused" /\ (verdict = "accepted" => live = stored)
    BY <1>5
  <2>9. verdict = "accepted" => begun
    BY <1>5
  <2>10. /\ shown' \in 1..Final /\ loads' \in 0..MaxLoads
         /\ {answer', stored', saved', live'} \subseteq Raw \union {None}
         /\ atLoad' \in Raw \union {None, "gone"} /\ verdict' \in {None, "accepted", "refused"}
    BY <2>1, <2>4, <1>1
  <2>11. /\ answer' = None <=> shown' # Home
         /\ {begun', unsaved', hydrated', blanked', behind', elsewhere'} \subseteq BOOLEAN
         /\ unsaved' => shown' <= Len(Pages)
    BY <2>1, <2>4, <1>1
  <2>12. /\ verdict' = "accepted" => begun'
         /\ ~ behind' /\ ~ elsewhere' =>
               verdict' # "refused" /\ (verdict' = "accepted" => live' = stored')
         /\ ~ elsewhere' /\ ~ begun' => shown' = 1 /\ savedStep' \in {0, 1}
    BY <2>1, <2>7, <2>8, <2>9
  <2>13. /\ ~ elsewhere' /\ Home < shown' => \E raw \in DOMAIN Rule : stored' = Rule[raw]
         /\ ~ elsewhere' /\ Home < shown' /\ ~ blanked' =>
               saved' \in DOMAIN Rule /\ stored' = Rule[saved']
    BY <2>1, <2>3, <2>6
  <2>14. QED BY <2>4, <2>10, <2>11, <2>12, <2>13
<1>9. CASE NextStep
  <2>1. /\ UNCHANGED <<hydrated, live, verdict, behind, elsewhere, loads>>
        /\ begun' = TRUE /\ atLoad' = "gone" /\ verdict # "accepted"
        /\ shown < Final /\ Valid /\ ShowStep(shown + 1, Accepted)
    BY <1>9 DEF NextStep, outcome
  <2>2. /\ Accepted \in Raw \union {None}
        /\ Here => answer \in DOMAIN Rule /\ Accepted = Rule[answer]
        /\ ~ Here => Accepted = stored
    BY <1>1, <2>1, AcceptedIs
  <2>3. shown + 1 \in 1..Final
    BY <1>1, <1>2, <2>1
  <2>4. /\ shown' = shown + 1 /\ stored' = Accepted
        /\ {answer', stored', saved'} \subseteq Raw \union {None}
        /\ answer' = None <=> shown' # Home
        /\ savedStep' \in 0..Len(Pages) /\ unsaved' = FALSE
        /\ saved' = IF Here THEN answer ELSE saved
        /\ blanked' = (blanked /\ ~ Here)
    BY <1>1, <1>3, <2>1, <2>2, <2>3, ShowStepTyped DEF asked
  <2>5. ~ elsewhere /\ Home < shown' =>
           /\ \E raw \in DOMAIN Rule : stored' = Rule[raw]
           /\ ~ blanked' => saved' \in DOMAIN Rule /\ stored' = Rule[saved']
    <3>1. CASE Here
      BY <3>1, <2>2, <2>4
    <3>2. CASE ~ Here
      <4>1. Home < shown' => Home < shown
        BY <3>2, <2>4, <1>1, <1>2 DEF Here
      <4>2. QED BY <3>2, <4>1, <2>2, <2>4, <1>5
    <3>3. QED BY <3>1, <3>2
  <2>6. QED BY <2>1, <2>3, <2>4, <2>5, <1>1, <1>5
<1>10. CASE EarlierStep
  <2>1. PICK step \in 1..(shown - 1) : ShowStep(step, stored)
    BY <1>10 DEF EarlierStep
  <2>2. /\ UNCHANGED <<begun, hydrated, live, verdict, behind, elsewhere, loads>>
        /\ atLoad' = "gone" /\ verdict # "accepted"
    BY <1>10 DEF EarlierStep, outcome
  <2>3. step \in 1..Final /\ step < shown /\ step \in Nat
    BY <1>1, <1>2
  <2>4. /\ shown' = step /\ stored' = stored
        /\ {answer', stored', saved'} \subseteq Raw \union {None}
        /\ answer' = None <=> shown' # Home
        /\ savedStep' \in 0..Len(Pages) /\ unsaved' = FALSE
        /\ saved' = IF Here THEN answer ELSE saved
        /\ blanked' = (blanked /\ ~ Here)
    BY <1>1, <1>3, <2>1, <2>3, ShowStepTyped DEF asked
  <2>5. Home < shown' => Home < shown /\ ~ Here
    BY <2>3, <2>4, <1>1, <1>2 DEF Here
  <2>6. ~ elsewhere /\ Home < shown' =>
           /\ \E raw \in DOMAIN Rule : stored' = Rule[raw]
           /\ ~ blanked' => saved' \in DOMAIN Rule /\ stored' = Rule[saved']
    BY <2>4, <2>5, <1>5
  <2>7. begun \/ elsewhere
    BY <2>3, <1>1, <1>5
  <2>8. QED BY <2>2, <2>3, <2>4, <2>6, <2>7, <1>1, <1>5
<1>11. ASSUME MountAgain
       PROVE  /\ loads' \in 0..MaxLoads /\ unsaved' = FALSE /\ hydrated' = FALSE
              /\ verdict # "accepted" /\ UNCHANGED <<live, verdict, behind>>
  BY <1>11, <1>1, ResumeAssumption DEF MountAgain, outcome
<1>12. \A step : \A store \in Raw \union {None} :
          /\ Mounted(step, store) \in Raw \union {None}
          /\ Mounted(step, store) = None <=> step # Home
  BY <1>2, MountedIs
<1>13. CASE ReloadPage
  <2>1. /\ MountAgain /\ UNCHANGED <<shown, stored, begun, elsewhere>> /\ atLoad' = "gone"
    BY <1>13 DEF ReloadPage
  <2>2. CASE shown = 1
    <3>1. answer' = Mounted(1, None) /\ UNCHANGED <<saved, savedStep, blanked>>
      BY <1>13, <2>2 DEF ReloadPage
    <3>2. answer' \in Raw \union {None} /\ (answer' = None <=> shown' # Home)
      BY <2>1, <2>2, <3>1, <1>12
    <3>3. QED BY <2>1, <3>1, <3>2, <1>11, <1>1, <1>5
  <2>3. CASE shown # 1
    <3>1. /\ answer' = Mounted(shown, stored) /\ savedStep' = 1
          /\ saved' = IF Home = 1 THEN Mounted(1, None) ELSE saved
          /\ blanked' = (blanked \/ Home = 1)
      BY <1>13, <2>3 DEF ReloadPage
    <3>2. answer' \in Raw \union {None} /\ (answer' = None <=> shown' # Home)
      BY <2>1, <3>1, <1>1, <1>12
    <3>3. saved' \in Raw \union {None} /\ savedStep' \in 0..Len(Pages)
      BY <3>1, <1>1, <1>2, <1>12
    <3>4. ~ blanked' => ~ blanked /\ saved' = saved
      BY <3>1, <1>1
    <3>5. blanked' \in BOOLEAN
      BY <3>1, <1>1
    <3>6. QED BY <2>1, <2>3, <3>1, <3>2, <3>3, <3>4, <3>5, <1>11, <1>1, <1>5
  <2>4. QED BY <2>2, <2>3
<1>14. CASE ReturnToWizard
  <2>1. /\ MountAgain /\ answer' = Mounted(shown, stored) /\ atLoad' = "gone"
        /\ UNCHANGED <<shown, stored, begun, saved, savedStep, blanked, elsewhere>>
    BY <1>14 DEF ReturnToWizard
  <2>2. answer' \in Raw \union {None} /\ (answer' = None <=> shown' # Home)
    BY <2>1, <1>1, <1>12
  <2>3. QED BY <2>1, <2>2, <1>11, <1>1, <1>5
<1>15. CASE ChangeDevice
  <2>1. /\ MountAgain /\ answer' = Mounted(1, None) /\ atLoad' = saved
        /\ shown' = 1 /\ stored' = None /\ begun' = FALSE /\ elsewhere' = TRUE
        /\ UNCHANGED <<saved, savedStep, blanked>>
    BY <1>15 DEF ChangeDevice
  <2>2. answer' \in Raw \union {None} /\ (answer' = None <=> shown' # Home) /\ shown' \in 1..Final
    BY <2>1, <1>1, <1>2, <1>12
  <2>3. QED BY <2>1, <2>2, <1>11, <1>1, <1>5
<1>16. CASE Hydrate
  <2>1. /\ UNCHANGED <<live, verdict, behind, elsewhere, loads, atLoad>> /\ hydrated' = TRUE
    BY <1>16 DEF Hydrate, outcome
  <2>2. CASE ~ begun /\ savedStep # 0 /\ savedStep = shown
    <3>1. /\ begun' = TRUE /\ stored' = saved
          /\ UNCHANGED <<shown, answer, unsaved, saved, savedStep, blanked>>
      BY <1>16, <2>2 DEF Hydrate
    <3>2. QED BY <2>1, <2>2, <3>1, <1>1, <1>2, <1>5
  <2>3. CASE ~ begun /\ savedStep # 0 /\ savedStep # shown
    <3>1. begun' = TRUE /\ ShowStep(savedStep, saved)
      BY <1>16, <2>3 DEF Hydrate
    <3>2. savedStep \in 1..Final
      BY <1>1, <1>2, <2>3
    <3>3. /\ shown' = savedStep /\ stored' = saved
          /\ {answer', stored', saved'} \subseteq Raw \union {None}
          /\ answer' = None <=> shown' # Home
          /\ savedStep' \in 0..Len(Pages) /\ unsaved' = FALSE
          /\ blanked' = (blanked /\ ~ Here)
      BY <1>1, <1>3, <3>1, <3>2, ShowStepTyped DEF asked
    <3>4. elsewhere
      BY <2>3, <1>1, <1>5
    <3>5. QED BY <2>1, <2>3, <3>1, <3>2, <3>3, <3>4, <1>1, <1>5
  <2>4. CASE begun \/ savedStep = 0
    <3>1. UNCHANGED <<shown, answer, stored, begun, unsaved, saved, savedStep, blanked>>
      BY <1>16, <2>4 DEF Hydrate
    <3>2. QED BY <2>1, <3>1, <1>1, <1>5
  <2>5. QED BY <2>2, <2>3, <2>4
<1>17. CASE PublishProfile
  <2>1. /\ UNCHANGED <<shown, answer, unsaved, hydrated, saved, savedStep, blanked, elsewhere, loads>>
        /\ shown = Final /\ Valid /\ stored' = Accepted /\ begun' = TRUE /\ atLoad' = "gone"
        /\ behind' = ((Here /\ saved # answer) \/ blanked) /\ verdict # "accepted"
    BY <1>17 DEF PublishProfile
  <2>2. /\ Accepted \in Raw \union {None}
        /\ Here => answer \in DOMAIN Rule /\ Accepted = Rule[answer]
        /\ ~ Here => Accepted = stored
    BY <1>1, <2>1, AcceptedIs
  <2>3. ~ behind' /\ ~ elsewhere => saved \in DOMAIN Rule /\ saved # None /\ stored' = Rule[saved]
    <3>1. CASE Here
      BY <3>1, <2>1, <2>2, <1>1 DEF Here
    <3>2. CASE ~ Here
      <4>1. Home < shown
        BY <3>2, <2>1, <1>1, <1>2 DEF Here
      <4>2. QED BY <3>2, <4>1, <2>1, <2>2, <1>2, <1>5, NothingIsNoAnswer
    <3>3. QED BY <3>1, <3>2
  <2>4. ~ behind' /\ ~ elsewhere => Passes /\ Written = stored'
    BY <2>3, <1>2 DEF Passes, Written, Offered
  <2>5. ~ elsewhere /\ Home < shown =>
           /\ \E raw \in DOMAIN Rule : stored' = Rule[raw]
           /\ ~ blanked => saved \in DOMAIN Rule /\ stored' = Rule[saved]
    <3>1. Home < shown => stored' = stored
      BY <2>1, <2>2, <1>1, <1>2 DEF Here
    <3>2. QED BY <3>1, <1>5
  <2>6. behind' \in BOOLEAN
    BY <2>1, <1>1 DEF Here
  <2>7. ~ elsewhere' /\ Home < shown' =>
           /\ \E raw \in DOMAIN Rule : stored' = Rule[raw]
           /\ ~ blanked' => saved' \in DOMAIN Rule /\ stored' = Rule[saved']
    BY <2>1, <2>5
  <2>8. CASE Passes
    <3>1. verdict' = "accepted" /\ live' = Written
      BY <1>17, <2>8 DEF PublishProfile
    <3>2. Written \in Raw
      BY <2>8, <1>2 DEF Passes, Written
    <3>3. QED BY <3>1, <3>2, <2>1, <2>2, <2>4, <2>6, <2>7, <1>1
  <2>9. CASE ~ Passes
    <3>1. verdict' = "refused" /\ live' = live
      BY <1>17, <2>9 DEF PublishProfile
    <3>2. QED BY <3>1, <2>1, <2>2, <2>4, <2>6, <2>7, <2>9, <1>1
  <2>10. QED BY <2>8, <2>9
<1>18. CASE UNCHANGED resumeVars
  BY <1>18, <1>1, <1>5 DEF resumeVars
<1>19. QED
  BY <1>7, <1>8, <1>9, <1>10, <1>13, <1>14, <1>15, <1>16, <1>17, <1>18 DEF ResumeNext

(* For every set of roles and number of reloads, on every step and field: what
   a wizard let pass is what publish accepts, and what it writes. *)
LEMMA ResumeInvariant == ResumeSpec => []ResumeInv
  BY ResumeInitially, ResumeStep, PTL DEF ResumeSpec
------------------------------------------------------------------------------
(* The composition. *)
LEMMA RecoveryIsAll == FairRecoverySpec => BrowserSpec /\ BreakerSpec /\ ResumeSpec
<1>1. RecoveryInit => BrowserInit /\ BreakerInit /\ ResumeInit
  BY DEF RecoveryInit
<1>2. [RecoveryNext]_<<turn, vars, queueVars, resumeVars>>
        => [BrowserNext]_vars /\ [BreakerNext]_queueVars /\ [ResumeNext]_resumeVars
  BY DEF RecoveryNext
<1>3. QED BY <1>1, <1>2, PTL DEF FairRecoverySpec, BrowserSpec, BreakerSpec, ResumeSpec

(* The breaker and the tabs, each in a sound state whichever part a behaviour is
   about: no call waits for a renewal that is not under way. *)
THEOREM RecoverySound == FairRecoverySpec => []RecoveryIsSound
<1>1. BreakerTypeOK /\ BrowserInv => RecoveryIsSound
  BY DEF BrowserInv, RecoveryIsSound
<1>2. QED BY <1>1, RecoveryIsAll, TypeCorrect, BrowserInvariant, PTL

(* For every set of roles and every number of reloads, returns and changes of
   device: publish accepts, and writes, what the forms of the wizard let pass,
   with the exceptions the property names, and a reload costs the store nothing. *)
THEOREM FormsSound == FairRecoverySpec => []FormsAreSound
<1>1. ResumeInv => FormsAreSound
  BY DEF ResumeInv, StoreOK, FormsAreSound, StoreKeepsAnswers
<1>2. QED BY <1>1, RecoveryIsAll, ResumeInvariant, PTL
==============================================================================

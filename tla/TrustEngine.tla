------------------------------ MODULE TrustEngine ------------------------------
(***************************************************************************)
(* Trust Score v2 of one startup and the alerts that hang on it: the pure  *)
(* model (trust-model.ts), the snapshots TrustEngineService takes with it, *)
(* and the TRUST_BAND_REACHES triggers that                                *)
(* WatchlistTriggerEvaluatorService checks against the latest snapshot.    *)
(* A recompute reads the facts and the previous band first and inserts its *)
(* snapshot later; the daily job and the founder's preview may overlap.    *)
(* The facts come and go outside this module (documents, verification      *)
(* records that expire, claims), so each recompute takes them as inputs.   *)
(***************************************************************************)
EXTENDS Integers, FiniteSets

CONSTANTS
    Given,       \* signals the startup has throughout
    Facts,       \* signals that come and go
    Stages,      \* stages the startup passes through
    Recomputes,  \* bound: recomputes under way at once
    Evaluators,  \* bound: evaluation jobs under way at once
    Triggers,
    Threshold,   \* Threshold[t]: thresholdBand of t
    NoBand       \* there is no snapshot yet

(* TrustSignals; the engine has no source for the stubbed ones yet. *)
Stubbed == {"founderKyc", "linkedinMatched", "liveUrlVerified", "revenueAttested",
            "seriesContinuity6mo", "customerEvidence", "roundsDocumented", "risksDisclosed"}
Observable == {"emailVerified", "phoneVerified", "workDomainEmail", "demoPresent",
               "mcaVerified", "dpiitVerified", "gstinVerified", "investorTwoSideConfirmed",
               "deckUploaded", "capTableProvided", "metricsFresh45d"}
Signals == Stubbed \union Observable \union {"profileFresh30d", "noExpiredVerifications"}

Stage == {"S0", "S1", "S2", "S3", "S4+"}
Band == {"Starting", "Bronze", "Silver", "Gold", "Platinum"}

ASSUME TEAssumption ==
    /\ Given \subseteq Observable /\ Facts \subseteq Observable
    /\ Stages \subseteq Stage
    /\ IsFiniteSet(Evaluators)
    /\ Threshold \in [Triggers -> Band]
    /\ NoBand \notin Band

VARIABLES
    latest,    \* the last TrustScoreSnapshot, or none
    work,      \* work[w]: the recompute in slot w
    trigger,   \* trigger[t]: the WatchlistTrigger row of t
    job,       \* job[e]: the evaluation in slot e
    alerts,    \* alerts[t]: watchlist-trigger.fired events emitted for t
    reached,   \* history: triggers whose band some snapshot had while they were set
    silenced,  \* history: triggers whose alert an error swallowed
    calm       \* no await fails and the process does not stop

snapshotVars == <<latest, work>>
alertVars == <<trigger, job, alerts, silenced>>
vars == <<snapshotVars, alertVars, reached, calm>>

------------------------------------------------------------------------------
(* trust-model.ts *)
Worth(S, signal, points) == IF signal \in S THEN points ELSE 0

Registration(S) == Worth(S, "emailVerified", 5) + Worth(S, "phoneVerified", 5)
Founder(S) == Worth(S, "founderKyc", 11) + Worth(S, "linkedinMatched", 5) + Worth(S, "workDomainEmail", 4)
Product(S) == Worth(S, "demoPresent", 5) + Worth(S, "liveUrlVerified", 5)
Legal(S) == Worth(S, "mcaVerified", 10) + Worth(S, "dpiitVerified", 6) + Worth(S, "gstinVerified", 4)
Revenue(S) == Worth(S, "revenueAttested", 10) + Worth(S, "seriesContinuity6mo", 6) + Worth(S, "customerEvidence", 4)
Funding(S) == Worth(S, "roundsDocumented", 5) + Worth(S, "investorTwoSideConfirmed", 7)
Transparency(S) == Worth(S, "deckUploaded", 2) + Worth(S, "risksDisclosed", 2) + Worth(S, "capTableProvided", 1)
Freshness(S) == Worth(S, "profileFresh30d", 1) + Worth(S, "metricsFresh45d", 1) + Worth(S, "noExpiredVerifications", 1)

(* APPLICABILITY in tenths, for the components whose weight depends on the stage. *)
Applicable(stage) ==
    CASE stage = "S0" -> [product |-> 2, legal |-> 3, revenue |-> 2, funding |-> 2]
      [] stage = "S1" -> [product |-> 10, legal |-> 6, revenue |-> 5, funding |-> 4]
      [] stage = "S2" -> [product |-> 10, legal |-> 10, revenue |-> 10, funding |-> 8]
      [] OTHER -> [product |-> 10, legal |-> 10, revenue |-> 10, funding |-> 10]

Weighed(stage, full, product, legal, revenue, funding) ==
    LET a == Applicable(stage) IN
    10 * full + a.product * product + a.legal * legal + a.revenue * revenue + a.funding * funding

Earned(S, stage) ==
    Weighed(stage, Registration(S) + Founder(S) + Transparency(S) + Freshness(S),
            Product(S), Legal(S), Revenue(S), Funding(S))
Attainable(stage) == Weighed(stage, 10 + 20 + 5 + 3, 10, 20, 20, 12)

(* penaltyTotal of the two penalties the engine can raise. *)
Penalty(mismatch, dormant) == (IF mismatch THEN 4 ELSE 0) + (IF dormant THEN 5 ELSE 0)

Clamp(n) == IF n < 0 THEN 0 ELSE IF n > 100 THEN 100 ELSE n

(* Variant carrying a bug: the points are not put in relation to the stage. *)
ScoreUnscaled(S, stage, penalty) == Earned(S, stage) - 10 * penalty

(* computeTrust: Math.round rounds halves up. *)
Score(S, stage, penalty) ==
    LET d == Attainable(stage) IN
    Clamp((200 * (Earned(S, stage) - 10 * penalty) + d) \div (2 * d))

Entry(b) ==
    CASE b = "Starting" -> 0
      [] b = "Bronze"   -> 25
      [] b = "Silver"   -> 45
      [] b = "Gold"     -> 65
      [] b = "Platinum" -> 85

Enter(score) ==
    CASE score >= 85 -> "Platinum"
      [] score >= 65 /\ score < 85 -> "Gold"
      [] score >= 45 /\ score < 65 -> "Silver"
      [] score >= 25 /\ score < 45 -> "Bronze"
      [] OTHER -> "Starting"

(* Variants carrying a bug: no hysteresis, and twice as much of it. *)
DeriveBandRaw(score, previous) == Enter(score)
DeriveBandLax(score, previous) ==
    IF previous \in Band /\ score >= Entry(previous) - 8 THEN previous ELSE Enter(score)

(* deriveBand; previous is NoBand before the first snapshot. *)
DeriveBand(score, previous) ==
    IF previous \in Band /\ score >= Entry(previous) - 4 THEN previous ELSE Enter(score)

------------------------------------------------------------------------------
Snapshot == [score : 0..100, band : Band \union {NoBand}]
Idle == [step |-> "idle", score |-> 0, previous |-> NoBand]
Work == [step : {"idle", "create"}, score : 0..100, previous : Band \union {NoBand}]
At == {"idle", "next", "mark", "tell"}
Job == [at : At, todo : SUBSET Triggers, now : SUBSET Triggers]
Resting == [at |-> "idle", todo |-> {}, now |-> {}]

TypeOK ==
    /\ latest \in Snapshot
    /\ work \in [Recomputes -> Work]
    /\ trigger \in [Triggers -> {"none", "set", "fired", "removed"}]
    /\ job \in [Evaluators -> Job]
    /\ alerts \in [Triggers -> Nat]
    /\ reached \subseteq Triggers
    /\ silenced \subseteq Triggers
    /\ calm \in BOOLEAN

Init ==
    /\ latest = [score |-> 0, band |-> NoBand]
    /\ work = [w \in Recomputes |-> Idle]
    /\ trigger = [t \in Triggers |-> "none"]
    /\ job = [e \in Evaluators |-> Resting]
    /\ alerts = [t \in Triggers |-> 0]
    /\ reached = {}
    /\ silenced = {}
    /\ calm \in BOOLEAN

(* isConditionMet *)
ConditionMet(b, t) == b \in Band /\ Entry(b) >= Entry(Threshold[t])
Above(b) == {t \in Triggers : ConditionMet(b, t)}

------------------------------------------------------------------------------
(***************************************************************************)
(* computeAndPersistForStartup.  All its reads are one step: the facts     *)
(* change freely, so reading them a little earlier than the previous band  *)
(* yields no other pair of values.                                         *)
(***************************************************************************)
Read(w, proven, age, stage, mismatch) ==
    LET S == Given \union proven \union {"noExpiredVerifications"}
               \union (IF age = "fresh" THEN {"profileFresh30d"} ELSE {}) IN
    /\ work[w].step = "idle"
    /\ work' = [work EXCEPT ![w] =
                  [step |-> "create", previous |-> latest.band,
                   score |-> Score(S, stage, Penalty(mismatch, age = "dormant"))]]
    /\ UNCHANGED <<latest, alertVars, reached, calm>>

(* The snapshot is inserted, whatever was inserted since the read. *)
Create(w) ==
    LET b == DeriveBand(work[w].score, work[w].previous) IN
    /\ work[w].step = "create"
    /\ latest' = [score |-> work[w].score, band |-> b]
    /\ reached' = reached \union (Above(b) \intersect {t \in Triggers : trigger[t] = "set"})
    /\ work' = [work EXCEPT ![w] = Idle]
    /\ UNCHANGED <<alertVars, calm>>

(* computeAndPersistForStartupSafely swallows the error. *)
RecomputeFails(w) ==
    /\ ~ calm
    /\ work[w].step = "create"
    /\ work' = [work EXCEPT ![w] = Idle]
    /\ UNCHANGED <<latest, alertVars, reached, calm>>

------------------------------------------------------------------------------
(* WatchlistTriggersService *)
CreateTrigger(t) ==
    /\ trigger[t] = "none"
    /\ trigger' = [trigger EXCEPT ![t] = "set"]
    /\ reached' = IF ConditionMet(latest.band, t) THEN reached \union {t} ELSE reached
    /\ UNCHANGED <<snapshotVars, job, alerts, silenced, calm>>

RemoveTrigger(t) ==
    /\ trigger[t] \in {"set", "fired"}
    /\ trigger' = [trigger EXCEPT ![t] = "removed"]
    /\ UNCHANGED <<snapshotVars, job, alerts, silenced, reached, calm>>

Become(e, j) == job' = [job EXCEPT ![e] = j]
Goto(e, at, t) == Become(e, [at |-> at, todo |-> job[e].todo, now |-> {t}])
Onward(e, t) == Become(e, [at |-> "next", todo |-> job[e].todo \ {t}, now |-> {}])

(* evaluateAll reads the triggers that have not fired ... *)
StartEvaluation(e) ==
    /\ job[e] = Resting
    /\ Become(e, [at |-> "next", todo |-> {t \in Triggers : trigger[t] = "set"}, now |-> {}])
    /\ UNCHANGED <<snapshotVars, trigger, alerts, silenced, reached, calm>>

(* Variant carrying a bug: only the very band counts. *)
CheckExact(e, t) ==
    /\ job[e].at = "next"
    /\ t \in job[e].todo
    /\ IF latest.band = Threshold[t]
         THEN Goto(e, "mark", t)
         ELSE Onward(e, t)
    /\ UNCHANGED <<snapshotVars, trigger, alerts, silenced, reached, calm>>

(* ... and takes one after the other, in no particular order. *)
Check(e, t) ==
    /\ job[e].at = "next"
    /\ t \in job[e].todo
    /\ IF ConditionMet(latest.band, t)
         THEN Goto(e, "mark", t)
         ELSE Onward(e, t)
    /\ UNCHANGED <<snapshotVars, trigger, alerts, silenced, reached, calm>>

(* Variant carrying a bug: the row is not marked. *)
MarkNothing(e, t) ==
    /\ job[e].at = "mark"
    /\ t \in job[e].now
    /\ Goto(e, "tell", t)
    /\ UNCHANGED <<snapshotVars, trigger, alerts, silenced, reached, calm>>

(* fire: the update throws when the row is gone, and evaluateAll goes on. *)
Mark(e, t) ==
    /\ job[e].at = "mark"
    /\ t \in job[e].now
    /\ IF trigger[t] = "removed"
         THEN Onward(e, t) /\ UNCHANGED trigger
         ELSE /\ trigger' = [trigger EXCEPT ![t] = "fired"]
              /\ Goto(e, "tell", t)
    /\ UNCHANGED <<snapshotVars, alerts, silenced, reached, calm>>

(* fire: the startup's name, then the event. *)
Tell(e, t) ==
    /\ job[e].at = "tell"
    /\ t \in job[e].now
    /\ alerts' = [alerts EXCEPT ![t] = @ + 1]
    /\ Onward(e, t)
    /\ UNCHANGED <<snapshotVars, trigger, silenced, reached, calm>>

EndEvaluation(e) ==
    /\ job[e].at = "next"
    /\ job[e].todo = {}
    /\ Become(e, Resting)
    /\ UNCHANGED <<snapshotVars, trigger, alerts, silenced, reached, calm>>

(* An await fails and its trigger is skipped, or the process stops and the
   whole evaluation is over. *)
Swallow(e) == silenced' = silenced \union (IF job[e].at = "tell" THEN job[e].now ELSE {})

SkipTrigger(e, t) ==
    /\ ~ calm
    /\ t \in job[e].now \/ (job[e].at = "next" /\ t \in job[e].todo)
    /\ Swallow(e)
    /\ Onward(e, t)
    /\ UNCHANGED <<snapshotVars, trigger, alerts, reached, calm>>

EvaluationDies(e) ==
    /\ ~ calm
    /\ job[e] # Resting
    /\ Swallow(e)
    /\ Become(e, Resting)
    /\ UNCHANGED <<snapshotVars, trigger, alerts, reached, calm>>

WeatherChanges ==
    /\ calm' = ~ calm
    /\ UNCHANGED <<snapshotVars, alertVars, reached>>

Evaluate(e) ==
    \/ \E t \in Triggers : Check(e, t) \/ Mark(e, t) \/ Tell(e, t)
    \/ EndEvaluation(e)

Next ==
    \/ \E w \in Recomputes, proven \in SUBSET Facts, age \in {"fresh", "stale", "dormant"},
          stage \in Stages, mismatch \in BOOLEAN : Read(w, proven, age, stage, mismatch)
    \/ \E w \in Recomputes : Create(w) \/ RecomputeFails(w)
    \/ \E t \in Triggers : CreateTrigger(t) \/ RemoveTrigger(t)
    \/ \E e \in Evaluators : StartEvaluation(e) \/ Evaluate(e) \/ EvaluationDies(e)
    \/ \E e \in Evaluators, t \in Triggers : SkipTrigger(e, t)
    \/ WeatherChanges

(* The scheduler starts an evaluation every hour, and a job that runs goes on. *)
Fairness ==
    \A e \in Evaluators : WF_vars(StartEvaluation(e)) /\ WF_vars(Evaluate(e))

Spec == Init /\ [][Next]_vars
FairSpec == Spec /\ Fairness

------------------------------------------------------------------------------
(***************************************************************************)
(* A band never flatters: whatever recomputes overlap, the score stored    *)
(* with it is at most four points below the band's entry threshold.        *)
(***************************************************************************)
NeverFlatters == latest.band \in Band => latest.score >= Entry(latest.band) - 4

(***************************************************************************)
(* A band does not flicker: a recompute that saw the current band takes it *)
(* away only when the score fell more than four points below its entry.    *)
(***************************************************************************)
DoesNotFlicker ==
    [][\A w \in Recomputes :
          work[w].step = "create" /\ work'[w].step = "idle" /\ latest' # latest
              /\ latest.band \in Band /\ work[w].previous = latest.band
              /\ Entry(latest'.band) < Entry(latest.band)
            => latest'.score < Entry(latest.band) - 4]_vars

(***************************************************************************)
(* An investor is alerted only of a band the startup really had while the  *)
(* trigger was set, once per evaluation that ran at the time, and a        *)
(* trigger is spent without an alert only if an error swallowed it.        *)
(***************************************************************************)
AlertsAreTrue ==
    \A t \in Triggers :
        /\ alerts[t] > 0 => t \in reached /\ trigger[t] # "set"
        /\ alerts[t] <= Cardinality(Evaluators)
        /\ trigger[t] = "fired" =>
              alerts[t] > 0 \/ t \in silenced \/ \E e \in Evaluators : job[e].at = "tell" /\ t \in job[e].now

(***************************************************************************)
(* Once nothing fails any more and the startup stays at or above the band, *)
(* a trigger does not stay set: the hourly evaluation gets round to it.    *)
(***************************************************************************)
AlertsAreTimely ==
    \A t \in Triggers :
        <>[](calm /\ ConditionMet(latest.band, t)) => []<>(trigger[t] # "set")

(* "Bands with 4-point hysteresis", entered at the thresholds of Enter: a
   startup whose latest score has reached a band's entry would be in it. *)
BandsAreReached == latest.band \in Band => Entry(latest.band) >= Entry(Enter(latest.score))
==============================================================================

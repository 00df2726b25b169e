-------------------------- MODULE TrustEngineProofs --------------------------
(***************************************************************************)
(* TLAPS proofs about TrustEngine: type correctness, that a band never     *)
(* flatters and does not flicker, and that alerts are true.                *)
(***************************************************************************)
EXTENDS TrustEngine, FiniteSetTheorems, TLAPS

(* The points of every component are numbers, whatever signals S holds. *)
LEMMA PointsAreNumbers ==
  ASSUME NEW S
  PROVE  /\ Registration(S) \in Int /\ Founder(S) \in Int /\ Product(S) \in Int
         /\ Legal(S) \in Int /\ Revenue(S) \in Int /\ Funding(S) \in Int
         /\ Transparency(S) \in Int /\ Freshness(S) \in Int
<1>1. \A signal : \A n \in Nat : Worth(S, signal, n) \in Int
  BY DEF Worth
<1>2. QED
  BY <1>1 DEF Registration, Founder, Product, Legal, Revenue, Funding, Transparency, Freshness

(* Weights are numbers at every stage. *)
LEMMA WeightsAreNumbers ==
  ASSUME NEW stage \in Stage
  PROVE  /\ Applicable(stage).product \in Nat /\ Applicable(stage).legal \in Nat
         /\ Applicable(stage).revenue \in Nat /\ Applicable(stage).funding \in Nat
<1>1. CASE stage = "S0"
  BY <1>1 DEF Applicable
<1>2. CASE stage = "S1"
  BY <1>2 DEF Applicable
<1>3. CASE stage = "S2"
  BY <1>3 DEF Applicable
<1>4. CASE stage \in {"S3", "S4+"}
  BY <1>4 DEF Applicable
<1>5. QED
  BY <1>1, <1>2, <1>3, <1>4 DEF Stage

(* The weighted sum of numbers is a number. *)
LEMMA WeighedIsNumber ==
  ASSUME NEW stage \in Stage, NEW full \in Int, NEW product \in Int, NEW legal \in Int,
         NEW revenue \in Int, NEW funding \in Int
  PROVE  Weighed(stage, full, product, legal, revenue, funding) \in Int
<1> DEFINE a == Applicable(stage)
<1>1. a.product * product \in Int /\ a.legal * legal \in Int
      /\ a.revenue * revenue \in Int /\ a.funding * funding \in Int
  BY WeightsAreNumbers
<1>2. QED
  BY <1>1 DEF Weighed

(* computeTrust stays on its scale of 0 to 100, whatever the facts. *)
LEMMA ScoreOnScale ==
  ASSUME NEW S, NEW stage \in Stage, NEW penalty \in Nat
  PROVE  Score(S, stage, penalty) \in 0..100
<1> DEFINE d == Attainable(stage)
           x == 200 * (Earned(S, stage) - 10 * penalty) + d
<1>1. Earned(S, stage) \in Int
  <2>1. Registration(S) + Founder(S) + Transparency(S) + Freshness(S) \in Int
    BY PointsAreNumbers
  <2>2. QED
    BY <2>1, PointsAreNumbers, WeighedIsNumber DEF Earned
<1>2. d \in Nat /\ d > 0
  <2> DEFINE a == Applicable(stage)
  <2>1. /\ a.product \in Nat /\ a.legal \in Nat /\ a.revenue \in Nat /\ a.funding \in Nat
    BY WeightsAreNumbers
  <2>2. d = 380 + a.product * 10 + a.legal * 20 + a.revenue * 20 + a.funding * 12
    BY DEF Attainable, Weighed
  <2>3. QED
    BY <2>1, <2>2
<1>3. x \in Int
  BY <1>1, <1>2
<1>4. 2 * d \in Nat /\ 2 * d > 0
  BY <1>2
<1>5. x \div (2 * d) \in Int
  BY <1>3, <1>4
<1>6. \A n \in Int : Clamp(n) \in 0..100
  BY DEF Clamp
<1>7. Score(S, stage, penalty) = Clamp(x \div (2 * d))
  BY DEF Score
<1>8. QED
  BY <1>5, <1>6, <1>7

(* The band that is entered is the one the score reaches. *)
LEMMA EnterReached ==
  ASSUME NEW n \in 0..100
  PROVE  Enter(n) \in Band /\ n >= Entry(Enter(n))
<1>1. CASE n >= 85
  BY <1>1 DEF Enter, Entry, Band
<1>2. CASE n >= 65 /\ n < 85
  BY <1>2 DEF Enter, Entry, Band
<1>3. CASE n >= 45 /\ n < 65
  BY <1>3 DEF Enter, Entry, Band
<1>4. CASE n >= 25 /\ n < 45
  BY <1>4 DEF Enter, Entry, Band
<1>5. CASE n < 25
  BY <1>5 DEF Enter, Entry, Band
<1>6. QED
  BY <1>1, <1>2, <1>3, <1>4, <1>5

LEMMA EntryIsNumber == \A b \in Band : Entry(b) \in Nat
  BY DEF Entry, Band

(* deriveBand: the result is a band no more than four points too good, and a
   band that is lost was missed by more than four points. *)
LEMMA BandEarned ==
  ASSUME NEW n \in 0..100, NEW previous \in Band \union {NoBand}
  PROVE  /\ DeriveBand(n, previous) \in Band
         /\ n >= Entry(DeriveBand(n, previous)) - 4
         /\ previous \in Band /\ DeriveBand(n, previous) # previous => n < Entry(previous) - 4
<1>1. CASE previous \in Band /\ n >= Entry(previous) - 4
  BY <1>1, EntryIsNumber DEF DeriveBand
<1>2. CASE ~ (previous \in Band /\ n >= Entry(previous) - 4)
  <2>1. DeriveBand(n, previous) = Enter(n)
    BY <1>2 DEF DeriveBand
  <2>2. Enter(n) \in Band /\ n >= Entry(Enter(n)) /\ Entry(Enter(n)) \in Nat
    BY EnterReached, EntryIsNumber
  <2>3. previous \in Band => n < Entry(previous) - 4
    BY <1>2, EntryIsNumber
  <2>4. QED
    BY <2>1, <2>2, <2>3
<1>3. QED
  BY <1>1, <1>2

------------------------------------------------------------------------------
(* The jobs an evaluation passes through are well formed. *)
LEMMA JobForms ==
  ASSUME TypeOK, NEW e \in Evaluators, NEW t \in Triggers
  PROVE  /\ \A at \in At : Goto(e, at, t) => job' \in [Evaluators -> Job]
         /\ Onward(e, t) => job' \in [Evaluators -> Job]
         /\ Become(e, Resting) => job' \in [Evaluators -> Job]
<1>1. job[e] \in Job /\ job[e].todo \subseteq Triggers
  BY DEF TypeOK, Job
<1>2. \A at \in At : [at |-> at, todo |-> job[e].todo, now |-> {t}] \in Job
  BY <1>1 DEF Job
<1>3. [at |-> "next", todo |-> job[e].todo \ {t}, now |-> {}] \in Job /\ Resting \in Job
  BY <1>1 DEF Job, At, Resting
<1>4. \A j \in Job : Become(e, j) => job' \in [Evaluators -> Job]
  BY DEF TypeOK, Become
<1>5. QED
  BY <1>2, <1>3, <1>4 DEF Goto, Onward

(* The type invariant of TrustEngine. *)
LEMMA TypeStep == TypeOK /\ [Next]_vars => TypeOK'
<1> SUFFICES ASSUME TypeOK, [Next]_vars PROVE TypeOK'
  OBVIOUS
<1>1. ASSUME NEW w \in Recomputes, NEW proven \in SUBSET Facts,
             NEW age \in {"fresh", "stale", "dormant"}, NEW stage \in Stages,
             NEW mismatch \in BOOLEAN, Read(w, proven, age, stage, mismatch)
      PROVE TypeOK'
  <2> DEFINE S == Given \union proven \union {"noExpiredVerifications"}
                     \union (IF age = "fresh" THEN {"profileFresh30d"} ELSE {})
             p == Penalty(mismatch, age = "dormant")
             r == [step |-> "create", previous |-> latest.band, score |-> Score(S, stage, p)]
  <2>1. p \in Nat /\ stage \in Stage
    BY TEAssumption DEF Penalty
  <2>2. Score(S, stage, p) \in 0..100
    BY <2>1, ScoreOnScale
  <2>3. r \in Work
    BY <2>2 DEF Work, TypeOK, Snapshot
  <2>4. work' = [work EXCEPT ![w] = r]
    BY <1>1 DEF Read
  <2>5. work' \in [Recomputes -> Work]
    BY <2>3, <2>4 DEF TypeOK
  <2>6. QED
    BY <1>1, <2>5 DEF Read, TypeOK, alertVars
<1>2. ASSUME NEW w \in Recomputes, Create(w)
      PROVE TypeOK'
  <2>1. work[w].score \in 0..100 /\ work[w].previous \in Band \union {NoBand}
    BY DEF TypeOK, Work
  <2>2. DeriveBand(work[w].score, work[w].previous) \in Band
    BY <2>1, BandEarned
  <2>3. latest' \in Snapshot
    BY <1>2, <2>1, <2>2 DEF Create, Snapshot
  <2>4. Idle \in Work
    BY DEF Idle, Work
  <2>5. work' \in [Recomputes -> Work] /\ reached' \subseteq Triggers
    BY <1>2, <2>4 DEF Create, TypeOK
  <2>6. QED
    BY <1>2, <2>3, <2>5 DEF Create, TypeOK, alertVars
<1>3. ASSUME NEW w \in Recomputes, RecomputeFails(w)
      PROVE TypeOK'
  <2>1. Idle \in Work
    BY DEF Idle, Work
  <2>2. QED
    BY <1>3, <2>1 DEF RecomputeFails, TypeOK, alertVars
<1>4. ASSUME NEW t \in Triggers, CreateTrigger(t)
      PROVE TypeOK'
  BY <1>4 DEF CreateTrigger, TypeOK, snapshotVars
<1>5. ASSUME NEW t \in Triggers, RemoveTrigger(t)
      PROVE TypeOK'
  BY <1>5 DEF RemoveTrigger, TypeOK, snapshotVars
<1>6. ASSUME NEW e \in Evaluators, StartEvaluation(e)
      PROVE TypeOK'
  <2>1. [at |-> "next", todo |-> {t \in Triggers : trigger[t] = "set"}, now |-> {}] \in Job
    BY DEF Job, At
  <2>2. job' \in [Evaluators -> Job]
    BY <1>6, <2>1 DEF StartEvaluation, Become, TypeOK
  <2>3. QED
    BY <1>6, <2>2 DEF StartEvaluation, TypeOK, snapshotVars
<1>7. ASSUME NEW e \in Evaluators, NEW t \in Triggers, Check(e, t)
      PROVE TypeOK'
  <2>1. job' \in [Evaluators -> Job]
    BY <1>7, JobForms DEF Check, At
  <2>2. QED
    BY <1>7, <2>1 DEF Check, TypeOK, snapshotVars
<1>8. ASSUME NEW e \in Evaluators, NEW t \in Triggers, Mark(e, t)
      PROVE TypeOK'
  <2>1. job' \in [Evaluators -> Job]
    BY <1>8, JobForms DEF Mark, At
  <2>2. QED
    BY <1>8, <2>1 DEF Mark, TypeOK, snapshotVars
<1>9. ASSUME NEW e \in Evaluators, NEW t \in Triggers, Tell(e, t)
      PROVE TypeOK'
  <2>1. job' \in [Evaluators -> Job]
    BY <1>9, JobForms DEF Tell
  <2>2. alerts[t] + 1 \in Nat
    BY DEF TypeOK
  <2>3. QED
    BY <1>9, <2>1, <2>2 DEF Tell, TypeOK, snapshotVars
<1>10. ASSUME NEW e \in Evaluators, EndEvaluation(e)
       PROVE TypeOK'
  <2>1. Resting \in Job
    BY DEF Resting, Job, At
  <2>2. QED
    BY <1>10, <2>1 DEF EndEvaluation, Become, TypeOK, snapshotVars
<1>11. ASSUME NEW e \in Evaluators, NEW t \in Triggers, SkipTrigger(e, t)
       PROVE TypeOK'
  <2>1. job' \in [Evaluators -> Job]
    BY <1>11, JobForms DEF SkipTrigger
  <2>2. silenced' \subseteq Triggers
    BY <1>11 DEF SkipTrigger, Swallow, TypeOK, Job
  <2>3. QED
    BY <1>11, <2>1, <2>2 DEF SkipTrigger, TypeOK, snapshotVars
<1>12. ASSUME NEW e \in Evaluators, EvaluationDies(e)
       PROVE TypeOK'
  <2>1. Resting \in Job
    BY DEF Resting, Job, At
  <2>2. silenced' \subseteq Triggers
    BY <1>12 DEF EvaluationDies, Swallow, TypeOK, Job
  <2>3. QED
    BY <1>12, <2>1, <2>2 DEF EvaluationDies, Become, TypeOK, snapshotVars
<1>13. CASE WeatherChanges
  BY <1>13 DEF WeatherChanges, TypeOK, snapshotVars, alertVars
<1>14. CASE UNCHANGED vars
  BY <1>14 DEF TypeOK, vars, snapshotVars, alertVars
<1>15. QED
  BY <1>1, <1>2, <1>3, <1>4, <1>5, <1>6, <1>7, <1>8, <1>9, <1>10, <1>11, <1>12, <1>13, <1>14
  DEF Next, Evaluate

LEMMA TypeInit == Init => TypeOK
<1>1. /\ [score |-> 0, band |-> NoBand] \in Snapshot
      /\ Idle \in Work
      /\ Resting \in Job
  BY DEF Snapshot, Idle, Work, Resting, Job, At
<1>2. QED
  BY <1>1 DEF Init, TypeOK

(* Every variable keeps its type, whatever the facts, stages and triggers; in
   particular every stored score lies between 0 and 100. *)
THEOREM TypeCorrect == Spec => []TypeOK
BY TypeInit, TypeStep, PTL DEF Spec

(***************************************************************************)
(* However recomputes overlap, the score that is stored with a band is at  *)
(* most four points below its entry threshold.                             *)
(***************************************************************************)
THEOREM NoFlattery == Spec => []NeverFlatters
<1>1. Init => NeverFlatters
  BY TEAssumption DEF Init, NeverFlatters
<1>2. TypeOK /\ NeverFlatters /\ [Next]_vars => NeverFlatters'
  <2> SUFFICES ASSUME TypeOK, NeverFlatters, [Next]_vars PROVE NeverFlatters'
    OBVIOUS
  <2>1. ASSUME NEW w \in Recomputes, Create(w)
        PROVE NeverFlatters'
    <3>1. work[w].score \in 0..100 /\ work[w].previous \in Band \union {NoBand}
      BY DEF TypeOK, Work
    <3>2. /\ latest'.score = work[w].score
          /\ latest'.band = DeriveBand(work[w].score, work[w].previous)
      BY <2>1 DEF Create
    <3>3. latest'.score >= Entry(latest'.band) - 4
      BY <3>1, <3>2, BandEarned
    <3>4. QED
      BY <3>3 DEF NeverFlatters
  <2>2. CASE ~ \E w \in Recomputes : Create(w)
    <3>1. latest' = latest
      BY <2>2 DEF Next, vars, snapshotVars, Read, RecomputeFails, CreateTrigger, RemoveTrigger,
                  StartEvaluation, Evaluate, Check, Mark, Tell, EndEvaluation, EvaluationDies,
                  SkipTrigger, WeatherChanges
    <3>2. QED
      BY <3>1 DEF NeverFlatters
  <2>3. QED
    BY <2>1, <2>2
<1>3. QED
  BY <1>1, <1>2, TypeCorrect, PTL DEF Spec

(***************************************************************************)
(* A recompute that saw the current band takes it away only when the score *)
(* fell more than four points below its entry.                             *)
(***************************************************************************)
THEOREM NoFlicker == Spec => DoesNotFlicker
<1>1. TypeOK /\ [Next]_vars =>
        [\A w \in Recomputes :
          work[w].step = "create" /\ work'[w].step = "idle" /\ latest' # latest
              /\ latest.band \in Band /\ work[w].previous = latest.band
              /\ Entry(latest'.band) < Entry(latest.band)
            => latest'.score < Entry(latest.band) - 4]_vars
  <2> SUFFICES ASSUME TypeOK, Next, NEW w \in Recomputes,
                      work[w].step = "create", work'[w].step = "idle", latest' # latest,
                      latest.band \in Band, work[w].previous = latest.band,
                      Entry(latest'.band) < Entry(latest.band)
               PROVE  latest'.score < Entry(latest.band) - 4
    OBVIOUS
  <2>1. PICK x \in Recomputes : Create(x)
    BY DEF Next, snapshotVars, Read, RecomputeFails, CreateTrigger, RemoveTrigger,
           StartEvaluation, Evaluate, Check, Mark, Tell, EndEvaluation, EvaluationDies,
           SkipTrigger, WeatherChanges
  <2>2. x = w
    BY <2>1 DEF Create, TypeOK
  <2>3. /\ work[w].score \in 0..100
        /\ latest'.score = work[w].score
        /\ latest'.band = DeriveBand(work[w].score, latest.band)
    BY <2>1, <2>2 DEF Create, TypeOK, Work
  <2>4. latest'.band # latest.band
    BY EntryIsNumber
  <2>5. QED
    BY <2>3, <2>4, BandEarned
<1>2. QED
  BY <1>1, TypeCorrect, PTL DEF Spec, DoesNotFlicker

------------------------------------------------------------------------------
(* A job works on one trigger of its list at a time. *)
JobInv ==
    \A e \in Evaluators :
        /\ job[e].now \subseteq job[e].todo
        /\ \A t, u \in job[e].now : t = u

(* What each step of an evaluation knows of trigger t.  AlertsAreTrue says
   nothing of a job that is about to mark or to tell, so it is not inductive. *)
AlertInv(t) ==
    /\ trigger[t] = "none" => \A e \in Evaluators : t \notin job[e].todo
    /\ trigger[t] \in {"none", "set"} => alerts[t] = 0
    /\ trigger[t] = "set" /\ ConditionMet(latest.band, t) => t \in reached
    /\ trigger[t] = "fired" => t \in reached
    /\ alerts[t] > 0 => t \in reached
    /\ \A e \in Evaluators : t \in job[e].now =>
          /\ job[e].at = "mark" => trigger[t] = "removed" \/ t \in reached
          /\ job[e].at = "tell" => t \in reached /\ trigger[t] \in {"fired", "removed"}
    /\ trigger[t] = "fired" =>
          \/ alerts[t] > 0
          \/ t \in silenced
          \/ \E e \in Evaluators : job[e].at = "tell" /\ t \in job[e].now

(* The evaluations that may still alert of t are charged to it already. *)
Holding(t) == {e \in Evaluators : t \in job[e].todo}
CountInv(t) == alerts[t] + Cardinality(Holding(t)) <= Cardinality(Evaluators)

AlertIInv == JobInv /\ \A t \in Triggers : AlertInv(t) /\ CountInv(t)

LEMMA JobsAfter ==
  ASSUME TypeOK, NEW e \in Evaluators, NEW j, Become(e, j)
  PROVE  job'[e] = j /\ \A x \in Evaluators : x # e => job'[x] = job[x]
BY DEF TypeOK, Become

LEMMA HoldingFinite ==
  ASSUME NEW t
  PROVE  /\ IsFiniteSet(Holding(t)) /\ Cardinality(Holding(t)) \in Nat
         /\ IsFiniteSet(Holding(t)') /\ Cardinality(Holding(t)') \in Nat
         /\ Cardinality(Holding(t)') <= Cardinality(Evaluators)
         /\ Cardinality(Evaluators) \in Nat
<1>1. IsFiniteSet(Evaluators) /\ Holding(t) \subseteq Evaluators /\ Holding(t)' \subseteq Evaluators
  BY TEAssumption DEF Holding
<1>2. QED
  BY <1>1, FS_Subset, FS_CardinalityType

(* No new alert and no new evaluation: the count stays. *)
LEMMA CountShrinks ==
  ASSUME TypeOK, NEW t \in Triggers, CountInv(t),
         alerts'[t] = alerts[t], Holding(t)' \subseteq Holding(t)
  PROVE  CountInv(t)'
<1>1. Cardinality(Holding(t)') <= Cardinality(Holding(t))
  BY HoldingFinite, FS_Subset
<1>2. alerts[t] \in Nat
  BY DEF TypeOK
<1>3. QED
  BY <1>1, <1>2, HoldingFinite DEF CountInv

(* A job that moves on or comes to rest holds fewer triggers than before. *)
LEMMA OnwardShrinks ==
  ASSUME TypeOK, JobInv, NEW e \in Evaluators, NEW u \in Triggers,
         \/ Onward(e, u) \/ Become(e, Resting) \/ \E at \in At : Goto(e, at, u) /\ u \in job[e].todo
  PROVE  /\ \A t : Holding(t)' \subseteq Holding(t)
         /\ JobInv'
<1>1. PICK j : /\ Become(e, j) /\ j.todo \subseteq job[e].todo
               /\ j.now \subseteq j.todo /\ \A t, v \in j.now : t = v
  <2>1. CASE Onward(e, u)
    BY <2>1 DEF Onward
  <2>2. CASE Become(e, Resting)
    BY <2>2 DEF Resting
  <2>3. CASE \E at \in At : Goto(e, at, u) /\ u \in job[e].todo
    BY <2>3 DEF Goto
  <2>4. QED
    BY <2>1, <2>2, <2>3
<1>2. job'[e] = j /\ \A x \in Evaluators : x # e => job'[x] = job[x]
  BY <1>1, JobsAfter
<1>3. QED
  BY <1>1, <1>2 DEF Holding, JobInv

------------------------------------------------------------------------------
(* Steps that leave the jobs and the alerts alone. *)
LEMMA SnapshotSteps ==
  ASSUME TypeOK, AlertIInv, UNCHANGED alertVars,
         UNCHANGED <<latest, reached>> \/ \E w \in Recomputes : Create(w)
  PROVE  AlertIInv'
<1>1. JobInv'
  BY DEF AlertIInv, JobInv, alertVars
<1>2. ASSUME NEW t \in Triggers
      PROVE AlertInv(t)'
  <2>1. AlertInv(t)
    BY DEF AlertIInv
  <2>2. CASE UNCHANGED <<latest, reached>>
    BY <2>1, <2>2 DEF AlertInv, alertVars, ConditionMet
  <2>3. CASE \E w \in Recomputes : Create(w)
    <3>1. reached \subseteq reached'
      BY <2>3 DEF Create
    <3>2. trigger[t] = "set" /\ ConditionMet(latest'.band, t) => t \in reached'
      BY <2>3 DEF Create, Above
    <3>3. QED
      BY <2>1, <3>1, <3>2 DEF AlertInv, alertVars, ConditionMet
  <2>4. QED
    BY <2>2, <2>3
<1>3. ASSUME NEW t \in Triggers
      PROVE CountInv(t)'
  BY DEF AlertIInv, CountInv, Holding, alertVars
<1>4. QED
  BY <1>1, <1>2, <1>3 DEF AlertIInv

(* Triggers set and removed. *)
LEMMA TriggerSteps ==
  ASSUME TypeOK, AlertIInv, NEW u \in Triggers, CreateTrigger(u) \/ RemoveTrigger(u)
  PROVE  AlertIInv'
<1>1. UNCHANGED <<latest, job, alerts, silenced>> /\ reached \subseteq reached'
  BY DEF CreateTrigger, RemoveTrigger, snapshotVars
<1>2. JobInv'
  BY <1>1 DEF AlertIInv, JobInv
<1>3. ASSUME NEW t \in Triggers
      PROVE AlertInv(t)'
  <2>1. AlertInv(t)
    BY DEF AlertIInv
  <2>2. CASE t # u
    <3>1. trigger'[t] = trigger[t]
      BY <2>2 DEF CreateTrigger, RemoveTrigger, TypeOK
    <3>2. QED
      BY <1>1, <2>1, <3>1 DEF AlertInv, ConditionMet
  <2>3. CASE t = u /\ CreateTrigger(u)
    <3>1. trigger[t] = "none" /\ trigger'[t] = "set"
      BY <2>3 DEF CreateTrigger, TypeOK
    <3>2. ConditionMet(latest.band, t) => t \in reached'
      BY <2>3 DEF CreateTrigger
    <3>3. alerts'[t] = 0
      BY <1>1, <2>1, <3>1 DEF AlertInv
    <3>4. \A e \in Evaluators : t \notin job[e].now
      BY <2>1, <3>1 DEF AlertInv, AlertIInv, JobInv
    <3>5. QED
      BY <1>1, <3>1, <3>2, <3>3, <3>4 DEF AlertInv, ConditionMet
  <2>4. CASE t = u /\ RemoveTrigger(u)
    <3>1. trigger[t] \in {"set", "fired"} /\ trigger'[t] = "removed"
      BY <2>4 DEF RemoveTrigger, TypeOK
    <3>2. QED
      BY <1>1, <2>1, <3>1 DEF AlertInv
  <2>5. QED
    BY <2>2, <2>3, <2>4
<1>4. ASSUME NEW t \in Triggers
      PROVE CountInv(t)'
  BY <1>1 DEF AlertIInv, CountInv, Holding
<1>5. QED
  BY <1>2, <1>3, <1>4 DEF AlertIInv

------------------------------------------------------------------------------
(* A new evaluation lists the triggers that are set, and those have no alert. *)
LEMMA StartStep ==
  ASSUME TypeOK, AlertIInv, NEW e \in Evaluators, StartEvaluation(e)
  PROVE  AlertIInv'
<1> DEFINE j == [at |-> "next", todo |-> {t \in Triggers : trigger[t] = "set"}, now |-> {}]
<1>1. UNCHANGED <<latest, trigger, alerts, silenced, reached>> /\ job[e] = Resting
  BY DEF StartEvaluation, snapshotVars
<1>2. job'[e] = j /\ \A x \in Evaluators : x # e => job'[x] = job[x]
  BY JobsAfter DEF StartEvaluation
<1>3. JobInv'
  BY <1>2 DEF AlertIInv, JobInv
<1>4. ASSUME NEW t \in Triggers
      PROVE AlertInv(t)'
  <2>1. AlertInv(t)
    BY DEF AlertIInv
  <2>2. \A x \in Evaluators : t \in job'[x].now => x # e /\ job'[x] = job[x]
    BY <1>2
  <2>3. \A x \in Evaluators : t \in job[x].now => x # e /\ job'[x] = job[x]
    BY <1>1, <1>2 DEF Resting
  <2>4. trigger[t] = "none" => \A x \in Evaluators : t \notin job'[x].todo
    BY <1>2, <2>1 DEF AlertInv
  <2>5. QED
    BY <1>1, <2>1, <2>2, <2>3, <2>4 DEF AlertInv, ConditionMet
<1>5. ASSUME NEW t \in Triggers
      PROVE CountInv(t)'
  <2>1. CASE trigger[t] = "set"
    <3>1. alerts'[t] = 0
      BY <1>1, <2>1 DEF AlertIInv, AlertInv
    <3>2. QED
      BY <3>1, HoldingFinite DEF CountInv
  <2>2. CASE trigger[t] # "set"
    <3>1. Holding(t)' \subseteq Holding(t)
      BY <1>2, <2>2 DEF Holding
    <3>2. CountInv(t) /\ alerts'[t] = alerts[t]
      BY <1>1 DEF AlertIInv
    <3>3. QED
      BY <3>1, <3>2, CountShrinks
  <2>3. QED
    BY <2>1, <2>2
<1>6. QED
  BY <1>3, <1>4, <1>5 DEF AlertIInv

(* A trigger whose condition holds is marked next; it has been reached. *)
LEMMA CheckStep ==
  ASSUME TypeOK, AlertIInv, NEW e \in Evaluators, NEW u \in Triggers, Check(e, u)
  PROVE  AlertIInv'
<1>1. /\ UNCHANGED <<latest, trigger, alerts, silenced, reached>>
      /\ u \in job[e].todo /\ job[e].at = "next"
  BY DEF Check, snapshotVars
<1>2. CASE ConditionMet(latest.band, u)
  <2> DEFINE j == [at |-> "mark", todo |-> job[e].todo, now |-> {u}]
  <2>1. Goto(e, "mark", u) /\ "mark" \in At
    BY <1>2 DEF Check, At
  <2>2. job'[e] = j /\ \A x \in Evaluators : x # e => job'[x] = job[x]
    BY <2>1, JobsAfter DEF Goto
  <2>3. JobInv' /\ \A t : Holding(t)' \subseteq Holding(t)
    BY <1>1, <2>1, OnwardShrinks DEF AlertIInv
  <2>4. ASSUME NEW t \in Triggers
        PROVE AlertInv(t)'
    <3>1. AlertInv(t) /\ AlertInv(u)
      BY DEF AlertIInv
    <3>2. trigger[u] \in {"set", "fired", "removed"}
      BY <1>1, <3>1 DEF AlertInv, TypeOK
    <3>3. trigger[u] = "removed" \/ u \in reached
      BY <1>2, <3>1, <3>2 DEF AlertInv
    <3>4. \A x \in Evaluators : t \in job'[x].now =>
             /\ job'[x].at = "mark" => trigger[t] = "removed" \/ t \in reached
             /\ job'[x].at = "tell" => t \in reached /\ trigger[t] \in {"fired", "removed"}
      BY <2>2, <3>1, <3>3 DEF AlertInv
    <3>5. \A x \in Evaluators : job[x].at = "tell" => x # e /\ job'[x] = job[x]
      BY <1>1, <2>2
    <3>6. trigger[t] = "none" => \A x \in Evaluators : t \notin job'[x].todo
      BY <2>2, <3>1 DEF AlertInv
    <3>7. QED
      BY <1>1, <3>1, <3>4, <3>5, <3>6 DEF AlertInv, ConditionMet
  <2>5. ASSUME NEW t \in Triggers
        PROVE CountInv(t)'
    BY <1>1, <2>3, CountShrinks DEF AlertIInv
  <2>6. QED
    BY <2>3, <2>4, <2>5 DEF AlertIInv
<1>3. CASE ~ ConditionMet(latest.band, u)
  <2> DEFINE j == [at |-> "next", todo |-> job[e].todo \ {u}, now |-> {}]
  <2>1. Onward(e, u)
    BY <1>3 DEF Check
  <2>2. job'[e] = j /\ \A x \in Evaluators : x # e => job'[x] = job[x]
    BY <2>1, JobsAfter DEF Onward
  <2>3. JobInv' /\ \A t : Holding(t)' \subseteq Holding(t)
    BY <2>1, OnwardShrinks DEF AlertIInv
  <2>4. ASSUME NEW t \in Triggers
        PROVE AlertInv(t)'
    <3>1. AlertInv(t)
      BY DEF AlertIInv
    <3>2. \A x \in Evaluators : t \in job'[x].now => x # e /\ job'[x] = job[x]
      BY <2>2
    <3>3. \A x \in Evaluators : job[x].at = "tell" => x # e /\ job'[x] = job[x]
      BY <1>1, <2>2
    <3>4. trigger[t] = "none" => \A x \in Evaluators : t \notin job'[x].todo
      BY <2>2, <3>1 DEF AlertInv
    <3>5. QED
      BY <1>1, <3>1, <3>2, <3>3, <3>4 DEF AlertInv, ConditionMet
  <2>5. ASSUME NEW t \in Triggers
        PROVE CountInv(t)'
    BY <1>1, <2>3, CountShrinks DEF AlertIInv
  <2>6. QED
    BY <2>3, <2>4, <2>5 DEF AlertIInv
<1>4. QED
  BY <1>2, <1>3

(* A job moves on without an alert: what it was about to tell was swallowed. *)
LEMMA QuietSteps ==
  ASSUME TypeOK, AlertIInv, NEW e \in Evaluators, NEW u \in Triggers,
         Onward(e, u) \/ Become(e, Resting),
         UNCHANGED <<latest, trigger, alerts, reached>>,
         silenced \subseteq silenced',
         job[e].at = "tell" => job[e].now \subseteq silenced'
  PROVE  AlertIInv'
<1>1. job'[e].now = {} /\ \A x \in Evaluators : x # e => job'[x] = job[x]
  BY JobsAfter DEF Onward, Resting
<1>2. JobInv' /\ \A t : Holding(t)' \subseteq Holding(t)
  BY OnwardShrinks DEF AlertIInv
<1>3. ASSUME NEW t \in Triggers
      PROVE AlertInv(t)'
  <2>1. AlertInv(t)
    BY DEF AlertIInv
  <2>2. \A x \in Evaluators : t \in job'[x].now => x # e /\ job'[x] = job[x]
    BY <1>1
  <2>3. \A x \in Evaluators : job[x].at = "tell" /\ t \in job[x].now =>
           t \in silenced' \/ job'[x] = job[x]
    BY <1>1
  <2>4. trigger[t] = "none" => \A x \in Evaluators : t \notin job'[x].todo
    BY <1>2, <2>1 DEF AlertInv, Holding
  <2>5. QED
    BY <2>1, <2>2, <2>3, <2>4 DEF AlertInv, ConditionMet
<1>4. ASSUME NEW t \in Triggers
      PROVE CountInv(t)'
  BY <1>2, CountShrinks DEF AlertIInv
<1>5. QED
  BY <1>2, <1>3, <1>4 DEF AlertIInv

(* fire marks the row of a trigger that has been reached, or finds it gone. *)
LEMMA MarkStep ==
  ASSUME TypeOK, AlertIInv, NEW e \in Evaluators, NEW u \in Triggers, Mark(e, u)
  PROVE  AlertIInv'
<1>1. /\ UNCHANGED <<latest, alerts, silenced, reached>>
      /\ u \in job[e].now /\ u \in job[e].todo /\ job[e].at = "mark"
  BY DEF Mark, snapshotVars, AlertIInv, JobInv
<1>2. CASE trigger[u] = "removed"
  <2>1. Onward(e, u) /\ UNCHANGED trigger
    BY <1>2 DEF Mark
  <2>2. QED
    BY <1>1, <2>1, QuietSteps
<1>3. CASE trigger[u] # "removed"
  <2> DEFINE j == [at |-> "tell", todo |-> job[e].todo, now |-> {u}]
  <2>1. /\ Goto(e, "tell", u) /\ "tell" \in At
        /\ trigger'[u] = "fired" /\ \A t \in Triggers : t # u => trigger'[t] = trigger[t]
    BY <1>3 DEF Mark, At, TypeOK
  <2>2. job'[e] = j /\ \A x \in Evaluators : x # e => job'[x] = job[x]
    BY <2>1, JobsAfter DEF Goto
  <2>3. JobInv' /\ \A t : Holding(t)' \subseteq Holding(t)
    BY <1>1, <2>1, OnwardShrinks DEF AlertIInv
  <2>4. u \in reached
    BY <1>1, <1>3 DEF AlertIInv, AlertInv
  <2>5. ASSUME NEW t \in Triggers
        PROVE AlertInv(t)'
    <3>1. AlertInv(t)
      BY DEF AlertIInv
    <3>2. CASE t = u
      <4>1. job'[e].at = "tell" /\ t \in job'[e].now
        BY <2>2, <3>2
      <4>2. QED
        BY <1>1, <2>1, <2>4, <3>2, <4>1 DEF AlertInv
    <3>3. CASE t # u
      <4>1. trigger'[t] = trigger[t]
        BY <2>1, <3>3
      <4>2. \A x \in Evaluators : t \in job'[x].now => x # e /\ job'[x] = job[x]
        BY <2>2, <3>3
      <4>3. \A x \in Evaluators : job[x].at = "tell" => job'[x] = job[x]
        BY <1>1, <2>2
      <4>4. trigger[t] = "none" => \A x \in Evaluators : t \notin job'[x].todo
        BY <2>3, <3>1 DEF AlertInv, Holding
      <4>5. QED
        BY <1>1, <3>1, <4>1, <4>2, <4>3, <4>4 DEF AlertInv, ConditionMet
    <3>4. QED
      BY <3>2, <3>3
  <2>6. ASSUME NEW t \in Triggers
        PROVE CountInv(t)'
    BY <1>1, <2>3, CountShrinks DEF AlertIInv
  <2>7. QED
    BY <2>3, <2>5, <2>6 DEF AlertIInv
<1>4. QED
  BY <1>2, <1>3

(* An alert takes the place of an evaluation that was charged with it. *)
LEMMA TellStep ==
  ASSUME TypeOK, AlertIInv, NEW e \in Evaluators, NEW u \in Triggers, Tell(e, u)
  PROVE  AlertIInv'
<1> DEFINE j == [at |-> "next", todo |-> job[e].todo \ {u}, now |-> {}]
<1>1. /\ UNCHANGED <<latest, trigger, silenced, reached>>
      /\ Onward(e, u)
      /\ u \in job[e].now /\ u \in job[e].todo /\ job[e].at = "tell"
  BY DEF Tell, snapshotVars, AlertIInv, JobInv
<1>2. /\ alerts'[u] = alerts[u] + 1 /\ alerts[u] \in Nat
      /\ \A t \in Triggers : t # u => alerts'[t] = alerts[t]
  BY DEF Tell, TypeOK
<1>3. job'[e] = j /\ \A x \in Evaluators : x # e => job'[x] = job[x]
  BY <1>1, JobsAfter DEF Onward
<1>4. JobInv' /\ \A t : Holding(t)' \subseteq Holding(t)
  BY <1>1, OnwardShrinks DEF AlertIInv
<1>5. u \in reached /\ trigger[u] \in {"fired", "removed"}
  BY <1>1 DEF AlertIInv, AlertInv
<1>6. \A t \in job[e].now : t = u
  BY <1>1 DEF AlertIInv, JobInv
<1>7. ASSUME NEW t \in Triggers
      PROVE AlertInv(t)'
  <2>1. AlertInv(t)
    BY DEF AlertIInv
  <2>2. \A x \in Evaluators : t \in job'[x].now => x # e /\ job'[x] = job[x]
    BY <1>3
  <2>3. trigger[t] = "none" => \A x \in Evaluators : t \notin job'[x].todo
    BY <1>4, <2>1 DEF AlertInv, Holding
  <2>4. CASE t = u
    <3>1. alerts'[t] > 0 /\ trigger'[t] \in {"fired", "removed"} /\ t \in reached'
      BY <1>1, <1>2, <1>5, <2>4
    <3>2. \A x \in Evaluators : t \in job'[x].now =>
             /\ job'[x].at = "mark" => trigger'[t] = "removed" \/ t \in reached'
             /\ job'[x].at = "tell" => t \in reached' /\ trigger'[t] \in {"fired", "removed"}
      BY <3>1
    <3>3. QED
      BY <3>1, <3>2 DEF AlertInv
  <2>5. CASE t # u
    <3>1. \A x \in Evaluators : t \in job[x].now => job'[x] = job[x]
      BY <1>3, <1>6, <2>5
    <3>2. alerts'[t] = alerts[t]
      BY <1>2, <2>5
    <3>3. QED
      BY <1>1, <2>1, <2>2, <2>3, <3>1, <3>2 DEF AlertInv, ConditionMet
  <2>6. QED
    BY <2>4, <2>5
<1>8. ASSUME NEW t \in Triggers
      PROVE CountInv(t)'
  <2>1. CASE t = u
    <3>1. Holding(u)' = Holding(u) \ {e} /\ e \in Holding(u)
      BY <1>1, <1>3 DEF Holding
    <3>2. Cardinality(Holding(u)') = Cardinality(Holding(u)) - 1
      BY <3>1, HoldingFinite, FS_RemoveElement
    <3>3. CountInv(u)
      BY DEF AlertIInv
    <3>4. QED
      BY <1>2, <2>1, <3>2, <3>3, HoldingFinite DEF CountInv
  <2>2. CASE t # u
    BY <1>2, <1>4, <2>2, CountShrinks DEF AlertIInv
  <2>3. QED
    BY <2>1, <2>2
<1>9. QED
  BY <1>4, <1>7, <1>8 DEF AlertIInv

(* An evaluation is over: the last step of the job, or the end of the process. *)
LEMMA RestStep ==
  ASSUME TypeOK, AlertIInv, NEW e \in Evaluators, EndEvaluation(e) \/ EvaluationDies(e)
  PROVE  AlertIInv'
<1>1. /\ UNCHANGED <<latest, trigger, alerts, reached>> /\ Become(e, Resting)
      /\ silenced \subseteq silenced'
      /\ job[e].at = "tell" => job[e].now \subseteq silenced'
  BY DEF EndEvaluation, EvaluationDies, Swallow, snapshotVars
<1>2. CASE Triggers = {}
  <2>1. job'[e] = Resting /\ \A x \in Evaluators : x # e => job'[x] = job[x]
    BY <1>1, JobsAfter
  <2>2. JobInv'
    BY <2>1 DEF AlertIInv, JobInv, Resting
  <2>3. QED
    BY <1>2, <2>2 DEF AlertIInv
<1>3. CASE Triggers # {}
  BY <1>1, <1>3, QuietSteps
<1>4. QED
  BY <1>2, <1>3

LEMMA SkipStep ==
  ASSUME TypeOK, AlertIInv, NEW e \in Evaluators, NEW u \in Triggers, SkipTrigger(e, u)
  PROVE  AlertIInv'
<1>1. /\ UNCHANGED <<latest, trigger, alerts, reached>> /\ Onward(e, u)
      /\ silenced \subseteq silenced'
      /\ job[e].at = "tell" => job[e].now \subseteq silenced'
  BY DEF SkipTrigger, Swallow, snapshotVars
<1>2. QED
  BY <1>1, QuietSteps

LEMMA AlertInit ==
  ASSUME Init
  PROVE  AlertIInv
<1>1. JobInv
  BY DEF Init, JobInv, Resting
<1>2. ASSUME NEW t \in Triggers
      PROVE AlertInv(t) /\ CountInv(t)
  <2>1. Holding(t) = {} /\ alerts[t] = 0
    BY DEF Init, Holding, Resting
  <2>2. CountInv(t)
    BY <2>1, FS_EmptySet, HoldingFinite DEF CountInv
  <2>3. AlertInv(t)
    BY DEF Init, AlertInv, Resting
  <2>4. QED
    BY <2>2, <2>3
<1>3. QED
  BY <1>1, <1>2 DEF AlertIInv

LEMMA AlertStep ==
  ASSUME TypeOK, AlertIInv, [Next]_vars
  PROVE  AlertIInv'
<1>1. ASSUME NEW w \in Recomputes, NEW proven, NEW age, NEW stage, NEW mismatch,
             Read(w, proven, age, stage, mismatch)
      PROVE AlertIInv'
  BY <1>1, SnapshotSteps DEF Read
<1>2. ASSUME NEW w \in Recomputes, Create(w)
      PROVE AlertIInv'
  <2>1. UNCHANGED alertVars
    BY <1>2 DEF Create
  <2>2. QED
    BY <1>2, <2>1, SnapshotSteps
<1>3. ASSUME NEW w \in Recomputes, RecomputeFails(w)
      PROVE AlertIInv'
  BY <1>3, SnapshotSteps DEF RecomputeFails
<1>4. ASSUME NEW e \in Evaluators, Evaluate(e)
      PROVE AlertIInv'
  <2>1. CASE EndEvaluation(e)
    BY <2>1, RestStep
  <2>2. ASSUME NEW t \in Triggers, Check(e, t) \/ Mark(e, t) \/ Tell(e, t)
        PROVE AlertIInv'
    BY <2>2, CheckStep, MarkStep, TellStep
  <2>3. QED
    BY <1>4, <2>1, <2>2 DEF Evaluate
<1>5. CASE WeatherChanges
  BY <1>5, SnapshotSteps DEF WeatherChanges, snapshotVars
<1>6. CASE UNCHANGED vars
  BY <1>6, SnapshotSteps DEF vars, snapshotVars
<1>7. QED
  BY <1>1, <1>2, <1>3, <1>4, <1>5, <1>6, TriggerSteps, StartStep, RestStep, SkipStep DEF Next

(***************************************************************************)
(* Whatever evaluations overlap and whichever of them fail, an alert of    *)
(* fire() tells of a band the startup had while the trigger was set, there *)
(* is at most one per evaluation, and a trigger that reads as fired has    *)
(* had its alert, is about to, or lost it to an error.                     *)
(***************************************************************************)
THEOREM AlertsTrue == Spec => []AlertsAreTrue
<1>1. Init => AlertIInv
  BY AlertInit
<1>2. TypeOK /\ AlertIInv /\ [Next]_vars => AlertIInv'
  BY AlertStep
<1>3. TypeOK /\ AlertIInv => AlertsAreTrue
  <2> SUFFICES ASSUME TypeOK, AlertIInv, NEW t \in Triggers
               PROVE  /\ alerts[t] > 0 => t \in reached /\ trigger[t] # "set"
                      /\ alerts[t] <= Cardinality(Evaluators)
                      /\ trigger[t] = "fired" =>
                            \/ alerts[t] > 0
                            \/ t \in silenced
                            \/ \E e \in Evaluators : job[e].at = "tell" /\ t \in job[e].now
    BY DEF AlertsAreTrue
  <2>1. AlertInv(t) /\ CountInv(t) /\ alerts[t] \in Nat
    BY DEF AlertIInv, TypeOK
  <2>2. alerts[t] <= Cardinality(Evaluators)
    BY <2>1, HoldingFinite DEF CountInv
  <2>3. alerts[t] > 0 => t \in reached /\ trigger[t] # "set"
    BY <2>1 DEF AlertInv
  <2>4. QED
    BY <2>1, <2>2, <2>3 DEF AlertInv
<1>4. QED
  BY <1>1, <1>2, <1>3, TypeCorrect, PTL DEF Spec
==============================================================================

-------------------------------- MODULE Scores --------------------------------
(***************************************************************************)
(* The three scores that are sums of weighted yes-or-no facts:             *)
(* TrustScoreService (startups, V1), InvestorTrustService, and the fit of  *)
(* MatchScoreService; with the replica of the first that trust-compare.ts  *)
(* uses to measure the step to V2.  The facts of one subject come and go.  *)
(***************************************************************************)
EXTENDS Naturals, FiniteSets, FiniteSetsExt

CONSTANT ScoreKinds    \* the scores to look at

ASSUME ScoresAssumption == ScoreKinds \subseteq {"startup", "investor", "match"}

VARIABLES
    scored,    \* which of the scores
    facts      \* what is true of the subject

scoreVars == <<scored, facts>>

(* The weights of TrustScoreService and of InvestorTrustService, and the
   reasons of MatchScoreService. *)
V1Weight ==
    [emailVerified |-> 15, phoneProvided |-> 5, website |-> 10, linkedin |-> 10,
     companyRegistered |-> 15, pitchDeck |-> 15, productDemo |-> 10,
     profileCompletion |-> 10, founderDetails |-> 5, timeline |-> 5]
InvestorWeight ==
    [emailVerified |-> 10, workDomainEmail |-> 15, kycDocument |-> 20, sebiVerified |-> 25,
     mcaVerified |-> 10, responseRate |-> 15, profileComplete |-> 5]
MatchWeight ==
    [industry |-> 30, stage |-> 25, funding |-> 20, geography |-> 15, openForPitches |-> 10]

(* What a startup's score and completion are computed from. *)
StartupFact ==
    {"emailVerified", "phone", "website", "linkedin", "registered", "pitchDeck", "demo",
     "bio", "city", "milestone", "recentMilestone", "team", "revenue", "verified"}
FactsOf(kind) ==
    CASE kind = "startup" -> StartupFact
      [] kind = "investor" -> DOMAIN InvestorWeight
      [] OTHER -> DOMAIN MatchWeight

(* ProfileCompletionService: seven checks, as a rounded percentage. *)
CompletionPercent(f) ==
    LET checks == Cardinality(f \intersect {"website", "pitchDeck", "team", "verified",
                                            "demo", "revenue", "recentMilestone"})
    IN (200 * checks + 7) \div 14

ScoresInit ==
    /\ scored \in ScoreKinds
    /\ facts = {}

(* A recent milestone is a milestone. *)
PossibleFacts(f) == "recentMilestone" \in f => "milestone" \in f

FactChanges ==
    \E f \in FactsOf(scored) :
        /\ facts' \in {facts \union {f}, facts \ {f}}
        /\ PossibleFacts(facts')
        /\ UNCHANGED scored

ScoresNext == FactChanges
ScoresSpec == ScoresInit /\ [][ScoresNext]_scoreVars
------------------------------------------------------------------------------
WeightOf(table, earned) == MapThenSumSet(LAMBDA k : table[k], earned)

(* TrustScoreService.calculate's factors. *)
EarnedV1(f) ==
    {k \in DOMAIN V1Weight :
        CASE k = "phoneProvided" -> "phone" \in f
          [] k = "companyRegistered" -> "registered" \in f
          [] k = "productDemo" -> "demo" \in f
          [] k = "profileCompletion" -> CompletionPercent(f) >= 80
          [] k = "founderDetails" -> {"bio", "city"} \subseteq f
          [] k = "timeline" -> "milestone" \in f
          [] OTHER -> k \in f}
V1(f) == WeightOf(V1Weight, EarnedV1(f))

(* computeTrustV1 of a ProfileState with these facts. *)
If(cond, n) == IF cond THEN n ELSE 0

(* Variant carrying a bug: the replica asks for the bio alone. *)
ComputeTrustV1NoCity(f) ==
    If("emailVerified" \in f, 15) + If("phone" \in f, 5) + If("website" \in f, 10)
    + If("linkedin" \in f, 10) + If("registered" \in f, 15) + If("pitchDeck" \in f, 15)
    + If("demo" \in f, 10) + If(CompletionPercent(f) >= 80, 10)
    + If("bio" \in f, 5) + If("milestone" \in f, 5)

ComputeTrustV1(f) ==
    If("emailVerified" \in f, 15) + If("phone" \in f, 5) + If("website" \in f, 10)
    + If("linkedin" \in f, 10) + If("registered" \in f, 15) + If("pitchDeck" \in f, 15)
    + If("demo" \in f, 10) + If(CompletionPercent(f) >= 80, 10)
    + If({"bio", "city"} \subseteq f, 5) + If("milestone" \in f, 5)

(* deriveBand of the two services, as the number of thresholds reached. *)
BandRank(score, thresholds) == Cardinality({x \in thresholds : score >= x})
V1Thresholds == {40, 70, 90}
InvestorThresholds == {25, 45, 65, 85}

Score(f) ==
    CASE scored = "startup" -> V1(f)
      [] scored = "investor" -> WeightOf(InvestorWeight, f)
      [] OTHER -> WeightOf(MatchWeight, f)
Band(score) ==
    CASE scored = "startup" -> BandRank(score, V1Thresholds)
      [] scored = "investor" -> BandRank(score, InvestorThresholds)
      [] OTHER -> 0

ScoresTypeOK ==
    /\ scored \in ScoreKinds
    /\ facts \subseteq FactsOf(scored)
------------------------------------------------------------------------------
(***************************************************************************)
(* A score is a percentage, and one fact more never costs a point or a     *)
(* band; all of them are worth 100, "Weights sum to 100"; and              *)
(* computeTrustV1, a "faithful pure replica", gives the score that the     *)
(* service gives.                                                          *)
(***************************************************************************)
ScoresFollowFacts ==
    [][facts # facts' /\ facts \subseteq facts' =>
          LET before == Score(facts)
              after == Score(facts') IN
          /\ before <= after /\ after <= 100
          /\ Band(before) <= Band(after)
          /\ facts' = FactsOf(scored) => after = 100
          /\ scored = "startup" => ComputeTrustV1(facts') = after]_scoreVars
==============================================================================

SPECIFICATION FairSpec
CONSTANTS
    Given <- MCGiven
    Facts <- MCFacts
    Stages = {"S2"}
    Recomputes = {w1, w2}
    Evaluators = {e1}
    Triggers = {t1}
    Threshold <- MCThreshold
    NoBand = NoBand
INVARIANTS
    TypeOK
    NeverFlatters
    AlertsAreTrue
PROPERTIES
    DoesNotFlicker
    AlertsAreTimely

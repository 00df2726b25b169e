SPECIFICATION Spec
CONSTANTS
    Given <- MCGiven
    Facts <- MCFacts
    Stages = {"S2"}
    Recomputes = {w1}
    Evaluators = {e1}
    Triggers = {t1}
    Threshold <- MCThreshold
    NoBand = NoBand
INVARIANT BandsAreReached

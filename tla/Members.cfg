SPECIFICATION MembersSpec
CONSTANTS
    LastStep = 1
    Required = {0, 1}
    Founder = TRUE
    Slots = {r1, r2}
    MaxEdits = 2
    MaxPublish = 2
    Lossy = TRUE
    Tokens = {k1, k2, k3}
    Links = {l1}
    Requests = {r1, r2}
    NoToken = NoToken
    ScoreKinds = {"startup", "investor", "match"}
SYMMETRY Symmetry
INVARIANTS
    MembersAreSound
    ExchangesBounded
PROPERTIES
    PublishedIsLatest
    EndedStaysEnded
    ScoresFollowFacts
CHECK_DEADLOCK FALSE

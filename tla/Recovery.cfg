SPECIFICATION FairRecoverySpec
CONSTANTS
    Tokens = {k1, k2, k3}
    Links = {l1}
    Requests = {b1, b2}
    NoToken = NoToken
    Busy = b1
    Calls <- MCCalls
    Unlucky = {b1, b2}
    ErrorThreshold = 3
    InitialBackoff = 5
    MaxBackoff = 300
    Multiplier = 2
    Concurrency = 2
    BackgroundErrors = TRUE
    OnboardingRoles = {"FOUNDER", "INVESTOR", "MENTOR", "INCUBATOR", "UNIVERSITY",
                       "SERVICE_PROVIDER", "JOB_SEEKER"}
    MaxLoads = 1
INVARIANTS
    RecoveryIsSound
    FormsAreSound
    SignedOutForACause
    NoDeadCookieIsKept
    TrippedHasWayBack
PROPERTIES
    EveryCallSettles
    RecoversWithRedis
CHECK_DEADLOCK FALSE

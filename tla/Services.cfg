SPECIFICATION ServicesSpec
CONSTANTS
    Deals = {s1}
    DealTabs = {r1, r2}
    MaxCards = 3
    Bookings = {b1}
    MentorTabs = {r1, r2}
    Applicants = {a1}
    HiringTabs = {r1, r2}
    Runs = {r1, r2}
    ExtraCounts = {4, 5}
    CodeTabs = {r1, r2}
    MaxAttempts = 2
    MaxCodes = 2
    MfaTabs = {r1, r2}
    MaxSecrets = 2
    MaxSets = 2
    Members = {m1}
    MemberTabs = {r1, r2}
    Options = {o1, o2}
    MaxWrites = 2
    MaxPresses = 2
    PartsFor <- SiteParts
SYMMETRY Symmetry
INVARIANTS
    ServicesTypeOK
    ClosedDealsAreHeld
    StatusIsEarned
    VerifiedIsOnRecord
    GuessesBounded
    ConfirmedByCode
    SecondFactorIsHeld
    RefreshTakesHold
    RedirectsSettle
    OffersAreHonoured
    LinksLead
    NobodyIsStuck
PROPERTIES
    HistoryIsKept
    DoneStaysDone
CHECK_DEADLOCK FALSE

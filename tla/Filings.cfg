SPECIFICATION FilingsSpec
CONSTANTS
    Founders = {f1}
    Users = {i1, i2, f1}
    Investors = {i1, i2}
    Tabs = {t1, t2}
    FinitePlans = {FREE}
    OtherPlans = {FOUNDER_PRO}
    DefaultLimit = 1
    Limits = {0}
    MaxMonth = 1
    Unlimited = Unlimited
    NoRow = NoRow
    Nobody = Nobody
    Profiles = {i1, i2}
    Claims = {c1, c2}
    OwnerTabs = {t1, t2}
    Nothing = Nothing
SYMMETRY Symmetry
INVARIANTS
    FilingsAreSound
    QuotaOvershootBounded
    NotifiedAtMostOnce
PROPERTIES
    SettledStaysSettled
CHECK_DEADLOCK FALSE

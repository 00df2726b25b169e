SPECIFICATION Spec
CONSTANTS
    Docs = {d1}
    Viewers = {v1}
    Owner = Owner
    Tabs = {t1, t2}
    MaxTime = 2
    MaxDays = 1
    MaxGrants = 2
    MaxViews = 2
SYMMETRY Symmetry
INVARIANTS
    RoomIsSound
    NoFileWithoutConsent
PROPERTY ImplementsAccessPromise
CHECK_DEADLOCK FALSE

SPECIFICATION Spec
CONSTANTS
    Conns = {c1}
    RecipientTabs = {r1, r2}
    RequesterTabs = {q1}
    StrangerTabs = {s1}
SYMMETRY Symmetry
INVARIANT LifecycleIsSound
PROPERTY ImplementsPromise

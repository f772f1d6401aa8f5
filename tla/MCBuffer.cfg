SPECIFICATION FairSpec
CONSTANTS
    Pushes = {a, b, c, d, e}
    Takes = {n1, n2, n3}
    TryTakes = {t1}
    Capacity = 2
    None = None
    Missing = Missing
INVARIANTS
    NoLostWakeup
PROPERTIES
    PromiseKept
    NextReleased

SPECIFICATION StackSpec
CONSTANTS
    Pushes = {a, b, c, d}
    Takes = {n1, n2, n3}
    TryTakes = {t1, t2}
    Capacity = 1
    None = None
    Missing = Missing
SYMMETRY Interchangeable
INVARIANT
    NoLostWakeup
PROPERTY
    LifoKept

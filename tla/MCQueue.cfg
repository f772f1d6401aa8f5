SPECIFICATION Spec
CONSTANTS
    Pushes = {p1, p2}
    PushWaits = {w1}
    Closes = {c1}
    Drains = {d1}
    Runs = {r1, r2}
    Detached = {r2}
    Workers = {g1, g2}
    Size = 1
    FailOnFull = TRUE
    None = None
SYMMETRY Interchangeable
INVARIANTS
    NoPanic
    ExclusiveRun
    FailureDelivered
    RunExplained
PROPERTIES
    CloseIsBarrier
    PromiseKept

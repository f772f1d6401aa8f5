SPECIFICATION FairSpec
CONSTANTS
    Pushes = {p1}
    PushWaits = {w1}
    Closes = {c1}
    Drains = {d1}
    Runs = {r1}
    Detached = {}
    Workers = {g1}
    Size = 1
    FailOnFull = TRUE
    None = None
PROPERTIES
    CallsReturn
    RunEnds

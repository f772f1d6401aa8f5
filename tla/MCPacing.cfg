SPECIFICATION FairSpec
CONSTANTS
    f1 = f1
    f2 = f2
    f3 = f3
    c1 = c1
    Functions = {f1, f2, f3}
    Direct = {c1}
    Calls = {f1, f2, f3, c1}
    Delay = 2
    Interval = 2
    Horizon = 6
    None = None
INVARIANTS
    Debounced
    Throttled
PROPERTY
    LastCallRuns

SPECIFICATION FairSpec
CONSTANTS
    q1 = q1
    q2 = q2
    i1 = i1
    N = 2
    Hooks <- OneHook
    Queued = {q1, q2}
    Immediate = {i1}
    Home <- HomeOf
    HasDeadline = TRUE
    None = None
INVARIANTS
    NeverPanics
    StartupBeforeStop
    InOrder
    ReportsFirst
    CleanReturn
PROPERTY
    RunReturns

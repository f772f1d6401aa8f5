SPECIFICATION Spec
CONSTANTS
    q1 = q1
    q2 = q2
    i1 = i1
    N = 1
    Hooks <- OneHook
    Queued = {q1}
    Immediate = {}
    Home <- HomeOf
    HasDeadline = FALSE
    None = None
PROPERTY
    ParentCauseKept

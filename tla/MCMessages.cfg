SPECIFICATION FairSpec
CONSTANTS
    p1 = p1
    p2 = p2
    p3 = p3
    d1 = d1
    Callers = {p1, p2, p3}
    Dispatches = {d1}
    Ending = {p3}
    Size = 2
    Already = 1
    Registrations = 2
    Handlers = 3
    MoreHandlers = 4
    Inside <- OneInside
    Within <- OneWithin
    None = None
INVARIANTS
    Delivered
    Bounded
    Dispatched
PROPERTY
    PublishReturns

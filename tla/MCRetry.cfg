SPECIFICATION DoFairSpec
CONSTANTS
    Options <- AllOptions
    Widest = 7
    MaxCalls = 4
INVARIANTS
    ResultMeans
    OneLateCall
    LaterWaitsLimited
PROPERTY
    DoReturns

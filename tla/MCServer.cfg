SPECIFICATION FairSpec
CONSTANTS
    r1 = r1
    r2 = r2
    s1 = s1
    s2 = s2
    t1 = t1
    t2 = t2
    Requests = {r1}
    Statuses = {101, 103, 201}
    ErrorStatuses = {200, 404, 700}
    Starts = {s1, s2}
    Stops = {t1, t2}
INVARIANTS
    OneHeader
    ErrorAnswered
    StopTells
PROPERTY
    ServerStops

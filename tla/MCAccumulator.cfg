SPECIFICATION FairSpec
CONSTANTS
    one = one
    two = two
    three = three
    less = less
    Adds = {one, two, three, less}
    Amount <- Amounts
    Threshold = 4
INVARIANTS
    Conserved
PROPERTIES
    FlushesWarranted
    TimelyFlush
    RunStops

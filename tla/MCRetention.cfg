CONSTANTS
    r1 = r1
    r2 = r2
    Replica = {r1, r2}
    NoReplica = NoReplica
    MaxFaults = 2
SPECIFICATION RetentionFairSpec
INVARIANTS
    DrainWindow
    CleanExit
PROPERTIES
    ExitsInTheEnd
    EventuallySwept

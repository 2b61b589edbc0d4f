CONSTANTS
    p1 = p1
    Poller = {p1}
    Wait = 1
    Nothing = Nothing
    Content = {"c", "d"}
    MaxGen = 2
    MaxSent = 3
    MaxFaults = 2
SPECIFICATION GenerationFairSpec
INVARIANTS
    NeverMixed
    NoLostActivation
PROPERTIES
    EventuallyHeld

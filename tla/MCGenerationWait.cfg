CONSTANTS
    p1 = p1
    Poller = {p1}
    Wait = 2
    Nothing = Nothing
    Content = {"c", "d"}
    MaxGen = 2
    MaxSent = 3
    MaxFaults = 0
SPECIFICATION GenerationSpec
INVARIANTS
    WaitsAtMost

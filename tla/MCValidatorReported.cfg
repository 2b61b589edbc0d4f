CONSTANTS
    r1 = r1
    Refresher = {}
    Nobody = Nobody
    Label = {"l1"}
    Content = {"c"}
    MaxGen = 2
    MaxSent = 2
    MaxToggles = 0
    MaxFaults = 0
SPECIFICATION ReloadSpec
INVARIANTS
    ReportedIsBuilt

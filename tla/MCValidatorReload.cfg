CONSTANTS
    r1 = r1
    Refresher = {r1}
    Nobody = Nobody
    Label = {"l1"}
    Content = {"c"}
    MaxGen = 2
    MaxSent = 2
    MaxToggles = 1
    MaxFaults = 2
SPECIFICATION ReloadFairSpec
INVARIANTS
    ReloadTypeOK
    NoLostReload
    RefreshIsFresh
PROPERTIES
    EventuallyCurrent

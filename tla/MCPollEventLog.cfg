CONSTANTS
    u1 = u1
    org1 = org1
    unit1 = unit1
    p1 = p1
    Owner = {u1, org1, unit1}
    Group = {org1, unit1}
    Doc = {1, 2}
    Prop = {3, 4}
    OwnerOf <- MCOwnerOf
    Batches <- MCBatches
    Poller = {p1}
    Tokens <- MCTokens
    PageSize = 1
    MaxId = 3
    MaxFaults = 1
SPECIFICATION PollFairSpec
INVARIANTS
    NoSkip
    NoLostWakeup
    ClaimsAgree
PROPERTIES
    EventuallyDelivered

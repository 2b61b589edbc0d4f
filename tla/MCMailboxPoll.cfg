CONSTANTS
    u1 = u1
    u2 = u2
    unit1 = unit1
    p1 = p1
    Owner = {u1, u2, unit1}
    Group = {unit1}
    Address <- MCAddress
    FeedOf <- MCFeedOf
    Poller = {p1}
    Tokens <- MCTokens
    PageSize = 1
    MaxMail = 3
    Followed = {2}
    MaxFaults = 1
SPECIFICATION MailPollFairSpec
INVARIANTS
    NoMailSkipped
    NoLostMailWakeup
PROPERTIES
    CursorAdvances
    NothingLandsBehind
    MailDelivered

CONSTANTS
    unit = unit
    user = user
    s1 = s1
    s2 = s2
    q1 = q1
    q2 = q2
    c1 = c1
    c2 = c2
    Pusher = {q1, q2}
    Marker = {c1, c2}
    Recipient = {user, unit}
    Uuid = {"u1"}
    Payload = {"a", "b"}
    Subject = {s2}
    Owners <- MCOwners
    MaxId = 2
SYMMETRY Symmetry
SPECIFICATION InboxSpec
INVARIANTS
    NoCollision
    IdempotentPush
    NoOrphanState
PROPERTIES
    InboxIsMailbox
    FlagsApart

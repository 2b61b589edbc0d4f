CONSTANTS
    sa = sa
    sb = sb
    p = p
    q = q
    t1 = t1
    t2 = t2
    t3 = t3
    Client = {t1, t2}
    Schema = {sa}
    SchemaSpec = {p, q}
    Usage = {"settings", "messages"}
    Omitted = Omitted
    Requests <- MCVersions
    MaxGen = 1
    MaxSent = 1
    Content <- MCContent
SYMMETRY Symmetry
SPECIFICATION ConfigSpec
INVARIANTS
    StoredAsSent

CONSTANTS
    sa = sa
    sb = sb
    p = p
    q = q
    t1 = t1
    t2 = t2
    t3 = t3
    Client = {t1, t2}
    Schema = {sa, sb}
    SchemaSpec = {p, q}
    Usage = {"settings"}
    Omitted = Omitted
    Requests <- MCRegistrations
    MaxGen = 3
    MaxSent = 2
    Content <- MCContent
SYMMETRY Symmetry
SPECIFICATION ConfigSpec
INVARIANTS
    IdempotentRegistration
    ActivationHonoured
    RetryFindsGeneration
PROPERTIES
    OneActive
    ActivationsAreAtomic

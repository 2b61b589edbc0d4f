CONSTANTS
    o1 = o1
    o2 = o2
    t1 = t1
    t2 = t2
    t3 = t3
    Tx = {t1, t2}
    Owner = {o1, o2}
    Doc = {1, 4}
    Prop = {2, 3}
    OwnerOf <- MCOwnerOf
    Batches <- MCBatches
    Counter = Counter
    MaxRepeat = 2
    MaxId = 3
SYMMETRY Symmetry
SPECIFICATION Spec
INVARIANTS
    TypeOK
    GaplessLog
    LogExplainsRows
    OwnersExist
    NoDeadlock
    LockOrder
PROPERTIES
    CommitOrdered
    WritesAreAtomic

\* Three requests on two keys.
SPECIFICATION Spec
CONSTANTS
    Threads = {t1, t2, t3}
    Keys = {k1, k2}
    LockIds <- OnePerThread
    Null = Null
INVARIANTS
    TypeOK
    MutualExclusion
    RefsExact
    EntryIffUsed
    BlockedBySameKeyOnly
PROPERTIES
    EveryWaiterEnters
    ImplementsKeyMutex

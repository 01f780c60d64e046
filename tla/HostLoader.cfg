SPECIFICATION MCSpec
CONSTANTS
    f1 = f1
    f2 = f2
    l1 = l1
    l2 = l2
    l3 = l3
    t1 = t1
    t2 = t2
    t3 = t3
    h1 = h1
    h2 = h2
    h3 = h3
    Loaders = {l1, l2, l3}
    Ssc = f1
    Adi = f2
    Content <- Files
    SymbolNames = {"", "a", "b", "c", "e", "u", "ndk_c", "ndk_e"}
    PageSize = 4
    Plain <- PlainNames
    NoLoader = NoLoader
    Hook = Hook
    Null = Null
    LockThreads = {t1, t2, t3}
    GuestLocks = {"g1", "g2"}
    HostLockIds = {h1, h2, h3}
    NoLock = NoLock
    Nobody = Nobody
SYMMETRY MCSymmetry
INVARIANTS
    EverySymbolFound LinkedRight RegistryLive CodeSealed
    LocksSound WriterExcludes
\* Two threads of the library may each wait for a lock the other has.
CHECK_DEADLOCK FALSE

SPECIFICATION Spec
CONSTANTS
    Threads = {t1, t2}
    a1 = a1
    a2 = a2
    i1 = i1
    Accounts = {a1, a2}
    AndroidIds = {i1}
    AndroidIdOf <- SharedId
    Sessions = {1, 2}
    Rinfos = {r1}
    Customs = {NoRinfo}
    BlankRinfo = empty
    NoThread = NoThread
    NoAccount = NoAccount
    NoAndroid = NoAndroid
    NoSession = NoSession
    NoRinfo = NoRinfo
    Absent = Absent
    Empty = Empty
    Calls = {}
    IoFaults = {"make", "read", "write"}
    Storages = {"memory"}
    Overlap = TRUE
    Crashes = FALSE
    MaxCalls = 3
SYMMETRY FullSymmetry
INVARIANTS MemoryLeavesNoFile NewBlobIsOwn PasswordFromOwnBlob
PROPERTY UsesProvider

SPECIFICATION FairSpec
CONSTANTS
    Threads = {t1, t2}
    a1 = a1
    a2 = a2
    i1 = i1
    i2 = i2
    Accounts = {a1}
    AndroidIds = {i1, i2}
    AndroidIdOf <- OneId
    Sessions = {1}
    Rinfos = {}
    NoThread = NoThread
    NoAccount = NoAccount
    NoAndroid = NoAndroid
    NoSession = NoSession
    NoRinfo = NoRinfo
    Absent = Absent
    Empty = Empty
    Calls <- OneAccountCalls
    IoFaults = {"make", "open", "read", "write", "remove"}
    Symbols <- AllSymbols
    Exports <- PoorExports
    PartialSetters = TRUE
    MaxCopies = 5
PROPERTIES MutexReleased

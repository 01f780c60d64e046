SPECIFICATION Spec
CONSTANTS
    Threads = {t1, t2}
    a1 = a1
    a2 = a2
    i1 = i1
    i2 = i2
    Accounts = {a1, a2}
    AndroidIds = {i1, i2}
    AndroidIdOf <- TwoIds
    Sessions = {1}
    Rinfos = {}
    NoThread = NoThread
    NoAccount = NoAccount
    NoAndroid = NoAndroid
    NoSession = NoSession
    NoRinfo = NoRinfo
    Absent = Absent
    Empty = Empty
    Calls <- HeadersCalls
    IoFaults = {}
    Serial = FALSE
    MaxLoaders = 4
SYMMETRY ThreadSymmetry
INVARIANT AnsweredForCaller

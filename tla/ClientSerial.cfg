SPECIFICATION Spec
CONSTANTS
    Threads = {t1, t2}
    a1 = a1
    a2 = a2
    i1 = i1
    Accounts = {a1, a2}
    AndroidIds = {i1}
    AndroidIdOf <- SharedId
    Sessions = {1, 2}
    Rinfos = {r1, r2, empty}
    Customs = {NoRinfo, r2, empty}
    BlankRinfo = empty
    NoThread = NoThread
    NoAccount = NoAccount
    NoAndroid = NoAndroid
    NoSession = NoSession
    NoRinfo = NoRinfo
    Absent = Absent
    Empty = Empty
    Calls = {}
    IoFaults = {"open"}
    Storages = {"disk"}
    Overlap = FALSE
    Crashes = TRUE
    MaxCalls = 3
SYMMETRY FullSymmetry
INVARIANTS DiskStateKept ServerRoutingReturned RoutingSurvivesRestart

SPECIFICATION MCSpec
CONSTANTS
    n1 = n1
    n3 = n3
    Word = 128
    LibBase = 8
    LibSize = 24
    LibAlign = 8
    HeapBase = 48
    HeapSize = 20
    HeapAlign = 4
    ImportBase = 96
    ImportSize = 4
    Stub = 2
    Slack = 2
    ExceptionSlack = 6
    Sizes = {0, 3, 5, 43, 125}
    Spans = {8, 16}
    Names = {n1, n3}
    DataNames = {n3}
    DummySize = 4
    LoadOrder <- LinkOrder
    LinkSymbols = {"a", "b", "common", "ndk_b", "func", "data", "mixed"}
    Defines <- LinkDefines
    Imports <- LinkImports
    DataEntries <- LinkData
    NamedData = {"data"}
    Destroy = "a"
    Plain <- LinkPlain
    MaxImages = 5
    Unbound = Unbound
    CodeStub = CodeStub
    DataDummy = DataDummy
    p1 = p1
    p2 = p2
    HostFds = {10, 11, 12}
    Paths = {p1, p2}
    EEXIST = 17
    EMFILE = 24
    Errors = {17, 24}
    FirstFd = 10
    MaxOpens = 3
    NoFd = 0
    NoPath = NoPath
INVARIANTS
    HandedOut NoOverlap ReallocInHeap StubsHooked
    OneCopyInUse LinkedBeforeRun FirstImporterDecides
    DescriptorsMatch NoneOrphaned ErrnoOfThisCall
PROPERTIES BindingsStable CellsStable

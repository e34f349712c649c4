\* Three readers of one queue, each of another family.
SPECIFICATION MCSpec
CONSTANTS
    Parts = {"replies"}
    None = None
    Replies = {"a", "c"}
    Embedding = {"c"}
    Inside <- MCInside
    NameLen <- MCNameLen
    Notifying = {"c"}
    HrMmi = "a"
    Peers = {"I"}
    AckSlots = 2
    MaxAcks = 2
    MaxAnswers = 2
    RlSenders = {"b1", "b2", "b3"}
    RlCreator = "cr"
    RlProcess <- MCRlProcess
    EVTRING = 2
    RlSlots = 2
    MaxBroadcasts = 4
    RpReaders = {"t1", "t2", "t3"}
    RpFamilies = {"cfg", "sk", "upd"}
    RpPlain = {}
    MaxRequests = 4
    GmTexts <- MCGmTexts
    SaThreshold = 2
    SaSettle = 2
    TrThreads = {"t1", "t2"}
    TrWords = 9
    TrScan = 4
    TrDepth = 4
    TrEnough = 3
    TrShown = 3
    TrBudget = 2
    TrCap = 2
    TrStacks <- MCStacks
    SpEnabled = TRUE
    SpImages = {"x", "y"}
    SpMoved = {"x"}
    SpFirst = {"n", "-o", "", NoArg}
    SpOptions = {"-o"}
    NoArg = NoArg
    SpMore = {0, 2}
    MaxArgs = 4
    FakeNs = TRUE
    FakeChmod = TRUE
    MaxProcs = 3
    MaxSysCalls = 1
    Patchers = {"cfgfix", "hwforce"}
    sitesOf <- MCSitesOf
    retries = {"cfgfix"}
    comparesFirst = {"cfgfix"}
    givesUp = {"hwforce"}
    span <- MCSpan
    EIO_MAX = 2
    Blocks = 2
    MaxEintr = 2
    MaxEio = 2
    FfBlocks = {1, 2, 3}
    regionOf <- MCRegionOf
    FfRegions = {"r1", "r2"}
    FfStart = {"r1"}
    Families = {"huelle", "hilf", "rot3D", "box3D"}
    Channels = {0, 1, 2}
    Containers = {"c1", "c2"}
    Null = Null
    Length = 4
    Slot <- MCSlot
    Edges <- MCEdges
    PbFiles <- MCPbFiles
    PbSizes = {1, 2, 5}
    Closed = Closed
    Word = 256
    MaxPbCalls = 5
    StackSize = 3
    Values = {1, 2}
    Texts <- MCTexts
    HalfWord = 512
    Base = 4
    Ticks = {0, 1, 7, 8, 15, 16, 22}
INVARIANTS
    FamilyReaderWoken
CHECK_DEADLOCK FALSE

\* connects: one reply queue whose client gives its bare name, one embedded.
\* relay: two threads of one process and one of another send, a ring of two.
\* replies: two waiters with the families of two servers, and one without.
\* injects: a call inside q_send, four deep.  traces: two threads, four stacks.
\* spawns: three processes.  patches: one that tries again, one that gives up.
\* files: with readfix and without.  frees: three chunks in two mappings.
\* cursors: four families on two containers of four nodes.
\* binaries: six files.  stack: three values, and one more.
\* The others try each argument of the functions.
SPECIFICATION MCSpec
CONSTANTS
    Parts = {"connects", "relay", "replies", "injects", "traces", "spawns", "patches",
             "files", "frees", "cursors", "binaries", "stack", "texts", "values", "tags",
             "lengths", "figures", "angles"}
    None = None
    Replies = {"a", "c"}
    Embedding = {"c"}
    Inside <- MCInside
    NameLen <- MCNameLen
    Notifying = {"c"}
    HrMmi = "a"
    Peers = {"I"}
    AckSlots = 2
    MaxAcks = 2
    MaxAnswers = 2
    RlSenders = {"b1", "b2", "b3"}
    RlCreator = "cr"
    RlProcess <- MCRlProcess
    EVTRING = 2
    RlSlots = 2
    MaxBroadcasts = 4
    RpReaders = {"t1", "t2", "t3"}
    RpFamilies = {"cfg", "sk"}
    RpPlain = {"t3"}
    MaxRequests = 3
    GmTexts <- MCGmTexts
    SaThreshold = 2
    SaSettle = 2
    TrThreads = {"t1", "t2"}
    TrWords = 9
    TrScan = 4
    TrDepth = 4
    TrEnough = 3
    TrShown = 3
    TrBudget = 2
    TrCap = 2
    TrStacks <- MCStacks
    SpEnabled = TRUE
    SpImages = {"x", "y"}
    SpMoved = {"x"}
    SpFirst = {"n", "-o", "", NoArg}
    SpOptions = {"-o"}
    NoArg = NoArg
    SpMore = {0, 2}
    MaxArgs = 4
    FakeNs = TRUE
    FakeChmod = TRUE
    MaxProcs = 3
    MaxSysCalls = 1
    Patchers = {"cfgfix", "hwforce"}
    sitesOf <- MCSitesOf
    retries = {"cfgfix"}
    comparesFirst = {"cfgfix"}
    givesUp = {"hwforce"}
    span <- MCSpan
    EIO_MAX = 2
    Blocks = 2
    MaxEintr = 2
    MaxEio = 2
    FfBlocks = {1, 2, 3}
    regionOf <- MCRegionOf
    FfRegions = {"r1", "r2"}
    FfStart = {"r1"}
    Families = {"huelle", "hilf", "rot3D", "box3D"}
    Channels = {0, 1, 2}
    Containers = {"c1", "c2"}
    Null = Null
    Length = 4
    Slot <- MCSlot
    Edges <- MCEdges
    PbFiles <- MCPbFiles
    PbSizes = {1, 2, 5}
    Closed = Closed
    Word = 256
    MaxPbCalls = 5
    StackSize = 3
    Values = {1, 2}
    Texts <- MCTexts
    HalfWord = 512
    Base = 4
    Ticks = {0, 1, 7, 8, 15, 16, 22}
INVARIANTS
    ConnectsAnswered
    
    
    
    ChildrenOwn
    
    LibrariesKeep
    LeavesHold
\* Calls are bounded, and an argument is tried once.
CHECK_DEADLOCK FALSE

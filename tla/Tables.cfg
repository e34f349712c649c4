\* tasks: two colliding threads, two alone, and one thread more than entries.
\* queues: two tasks create, look up and delete queues of four names in a table
\* of two slots, so that the table gets full, slots are reused and lookups
\* race; the behaviours end when MaxId queues have been made and deleted.
SPECIFICATION MCSpec
CONSTANTS
    Parts = {"tasks", "queues", "names", "regions", "emu", "options"}
    t1 = t1
    t2 = t2
    t3 = t3
    t4 = t4
    shell = shell
    server = server
    viewer = viewer
    NoThread = NoThread
    Threads = {t1, t2, t3, t4}
    process <- MCProcess
    hash <- MCHash
    MAXTASK = 3
    Proc = Proc
    Queue = Queue
    Hws = Hws
    NotifyBit = NotifyBit
    Clients = {t1, t2}
    Names = {Proc, Queue, Hws, Empty}
    Empty = Empty
    None = None
    Probes = {Hws}
    HostFrames <- MCHostFrames
    Addresses <- MCAddresses
    Masks <- MCMasks
    MAXQ = 2
    MaxId = 3
    NmNames <- MCNames
    Colon = ":"
    NmKeep = 3
    NmShow = 2
    MaxTask = 4
    MaxProc = 3
    RgThreads = {t1, t2}
    RgNames = {"a", "b", "l"}
    LongNames = {"l"}
    RgProcess <- MCOwnProcess
    MaxReg = 3
    MaxMaps = 4
    EmThreads = {t1}
    EmNames = {"a", "b", "long"}
    EmLen <- MCEmLen
    NAMEKEEP = 19
    MAXREG = 3
    EmValue <- MCEmValue
    Unset = Unset
    EmSizes = {1, 8, 9}
    GrantEvents = TRUE
    EmBits = 5
    MaxEmCalls = 6
    EwBits = {"q", "r", "s", "f"}
    SysBits = {"r", "s"}
    Rendezvous = "r"
    FireMask = {"r", "s"}
    FireLimit = 1
    ForceBit = {"f"}
    InjectWant = {"q", "r"}
    InjectBit = {"q"}
    Unblock = TRUE
    YieldAfter = 0
    MaxSent = 1
INVARIANTS
    OneEntryPerThread
    OwnIdentityAlone
    OneQueuePerName
    StandInsAreMarked
    
PROPERTIES
    NotifyOwnerStays
\* The bounds stop every part but the first.
CHECK_DEADLOCK FALSE

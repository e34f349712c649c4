\* The thread ids of t1 and t2 are equal modulo 128; the table has room.
SPECIFICATION MCSpec
CONSTANTS
    Parts = {"tasks"}
    t1 = t1
    t2 = t2
    t3 = t3
    t4 = t4
    shell = shell
    server = server
    viewer = viewer
    NoThread = NoThread
    Threads = {t1, t2, t3}
    process <- MCProcess
    hash <- MCHash
    MAXTASK = 3
    Proc = Proc
    Queue = Queue
    Hws = Hws
    NotifyBit = NotifyBit
    Clients = {t1, t2}
    Names = {Proc, Queue, Hws, Empty}
    Empty = Empty
    None = None
    Probes = {Hws}
    HostFrames <- MCHostFrames
    Addresses <- MCAddresses
    Masks <- MCMasks
    MAXQ = 2
    MaxId = 3
    NmNames <- MCNames
    Colon = ":"
    NmKeep = 3
    NmShow = 2
    MaxTask = 4
    MaxProc = 3
    RgThreads = {t1, t2}
    RgNames = {"a", "b", "l"}
    LongNames = {"l"}
    RgProcess <- MCOwnProcess
    MaxReg = 3
    MaxMaps = 4
    EmThreads = {t1}
    EmNames = {"a", "b", "long"}
    EmLen <- MCEmLen
    NAMEKEEP = 19
    MAXREG = 3
    EmValue <- MCEmValue
    Unset = Unset
    EmSizes = {1, 8, 9}
    GrantEvents = TRUE
    EmBits = 5
    MaxEmCalls = 6
    EwBits = {"q", "r", "s", "f"}
    SysBits = {"r", "s"}
    Rendezvous = "r"
    FireMask = {"r", "s"}
    FireLimit = 1
    ForceBit = {"f"}
    InjectWant = {"q", "r"}
    InjectBit = {"q"}
    Unblock = TRUE
    YieldAfter = 0
    MaxSent = 1
INVARIANTS
    OwnIdentity
CHECK_DEADLOCK FALSE

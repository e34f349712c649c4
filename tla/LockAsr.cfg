\* Two threads, one of which has an async-signal routine that makes heroscalls.
SPECIFICATION MCSpec
CONSTANTS
    Parts = {"lock"}
    Procs = {p1, p2}
    Mortal = {}
    Asr = {p2}
    Threads = {t1, t2, t3}
    Names = {barrier}
    Free = Free
    MAXSEM = 2
    Counts = {0}
    AutoCount = 1
    Units = {1, 2}
    Forced = {t3}
    MaxCount = 2
    a = a
    b = b
    Tasks = {t1, t2, t3}
    Receivers = {t1}
    Bits = {a, b}
    RBit = a
    Wants <- MCWants
    Posts <- MCPosts
    Timeouts = {"none", "finite", "forever"}
    IiThreads = {"i1", "i2", "i3", "i4"}
    iiProcess <- MCProcess
    HwServer = "h"
    AsSenders = {s1, s2}
    AsTarget = tt
    AsBits = {x, y, f, g}
    AsForced = {f, g}
    AsForcedMask = {f}
    TmTasks = {t1, t2}
    TmBits = {x}
    TmCap = 1
    TmLongest = 1
    TmSleeps = {0, 3}
    MaxTmCalls = 3
INVARIANTS
    AsrDrains
CHECK_DEADLOCK FALSE

\* lock: one thread can be killed anywhere, one has an async-signal routine.
\* sem: three threads, one of a process with HEROSCALL_SEM_FORCE_OK; one name,
\* its lookup and its two kinds of creation, requests and releases of one and
\* of two units; the second slot is there to be taken by mistake.
\* event: one receiver, which also posts to itself as the timer calls do, and
\* two senders; the words of different tasks do not depend on each other.
\* set up: three threads of a guest and one of the hardware server.
\* async: two senders, a plain bit and a bit that is always enabled of those
\* the mask looks at, and one of each that it does not.
\* timers: the second of two timers is over the cap.
SPECIFICATION MCFairSpec
CONSTANTS
    Parts = {"lock", "sem", "event", "set up", "async", "timers", "signals"}
    Procs = {p1, p2, p3}
    Mortal = {p1}
    Asr = {p2}
    Threads = {t1, t2, t3}
    Names = {barrier}
    Free = Free
    MAXSEM = 2
    Counts = {0}
    AutoCount = 1
    Units = {1, 2}
    Forced = {t3}
    MaxCount = 2
    a = a
    b = b
    Tasks = {t1, t2, t3}
    Receivers = {t1}
    Bits = {a, b}
    RBit = a
    Wants <- MCWants
    Posts <- MCPosts
    Timeouts = {"none", "finite", "forever"}
    IiThreads = {"i1", "i2", "i3", "i4"}
    iiProcess <- MCProcess
    HwServer = "h"
    AsSenders = {s1, s2}
    AsTarget = tt
    AsBits = {x, y, f, g}
    AsForced = {f, g}
    AsForcedMask = {f}
    TmTasks = {t1, t2}
    TmBits = {x}
    TmCap = 1
    TmLongest = 1
    TmSleeps = {0, 3}
    MaxTmCalls = 3
INVARIANTS
    MutualExclusion
    ReadyBeforeUse
    OneSemPerName
    NoMissedRelease
    NoMissedEvent
    PrimitivesSound
    NothingLost
PROPERTIES
    Handover
    BarrierOpens
    ImplementsCounting
    Delivered
    ImplementsFlags
    EveryoneGoesOn

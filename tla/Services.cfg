\* flows: two processes; menu's file is missing; a queue is looked for twice.
\* winmgr: one client thread reads, one sends, and the timer thread runs.
\* run-up: two senders race for the one record, and two clients connect.
\* devices: descriptors are used again, and one is opened over the noted ones.
\* windows: a client window, both softkey bars, the OEM window.
SPECIFICATION MCFairSpec
CONSTANTS
    Parts = {"flows", "winmgr", "run-up", "devices", "windows"}
    p = p
    q = q
    r = r
    s = s
    a = a
    b = b
    h = h
    d = d
    FlProcesses = {p, q}
    FlPromHide = TRUE
    FlPromNotify = TRUE
    FlSelect = TRUE
    FlRounds = 2
    FlHold = 1
    FlFiles = {"login", "activate"}
    FlTries = 2
    WmReaders = {r}
    WmPosters = {p}
    WmSenders = {s}
    TimerIds = {ta, tb}
    WmAck = FALSE
    WmSlots = 3
    MaxTimers = 2
    MaxWm = 4
    RuPosters = {a, b}
    RuAskers = {h}
    RuServer = d
    RuClients = {c1, c2}
    CFGQ_CAP = 1
    RuReread = TRUE
    Fds = {3, 4, 5}
    MAX_FAKE = 3
    CapOn = TRUE
    PipeOn = TRUE
    MaxOpens = 4
    Clients = {"c"}
    Targets = {"nc", "edit"}
    Oem = "oem"
    Screen = "screen"
    MaxChanges = 6
INVARIANTS
    PostedOnce
    
    DevicesAnswered
PROPERTIES
    DueComes
\* The posts of the flows and of the run-up end, and calls are bounded.
CHECK_DEADLOCK FALSE

\* t1 deletes the queue t2 reads from.
SPECIFICATION FairSpec
CONSTANTS
    d = d
    Rts = Rts
    Client = Client
    rbit = rbit
    NBit = NBit
    Tasks = {d, t1, t2}
    Receivers = {d}
    Bits = {rbit, NBit}
    RBit = rbit
    Wants = {}
    Posts = {}
    Timeouts = {"none", "forever"}
    Clients = {d, t1, t2}
    Names = {Rts, Client}
    Empty = Empty
    None = None
    Probes = {}
    HostFrames = {}
    Addresses = {}
    Masks <- MCMasks
    MAXQ = 2
    MaxId = 2
    Dispatchers = {d}
    inputOf <- MCInputOf
    Kinds <- MCKinds
    clientOf <- MCClientOf
    Modes <- MCModes
    Senders = {t1}
    Readers = {t2}
    outputs <- MCOutputs
    t1 = t1
    t2 = t2
    Levels = {FALSE}
    Early = {}
    QSLOTS = 2
    MaxTail = 2
PROPERTIES
    DeletedReadersReturn
CHECK_DEADLOCK FALSE

\* A dispatcher d with the queue Client; t1 sends softkey replies to Rts, from
\* where they are routed, or to Client, and deletes queues; t2 reads Client
\* too, for ever or for a while with a short buffer.  With QNOTIFY_LEVEL a peer
\* may have created Client, and filled it, before d comes.  Rings of two
\* messages get full with the third.
SPECIFICATION FairSpec
CONSTANTS
    d = d
    Rts = Rts
    Client = Client
    rbit = rbit
    NBit = NBit
    Tasks = {d, t1, t2}
    Receivers = {d}
    Bits = {rbit, NBit}
    RBit = rbit
    Wants = {}
    Posts = {}
    Timeouts = {"none", "forever"}
    Clients = {d, t1, t2}
    Names = {Rts, Client}
    Empty = Empty
    None = None
    Probes = {}
    HostFrames = {}
    Addresses = {}
    Masks <- MCMasks
    MAXQ = 2
    MaxId = 2
    Dispatchers = {d}
    inputOf <- MCInputOf
    Kinds <- MCKinds
    clientOf <- MCClientOf
    Modes <- MCModes
    Senders = {t1}
    Readers = {t2}
    outputs <- MCOutputs
    t1 = t1
    t2 = t2
    Levels = {TRUE, FALSE}
    Early = {TRUE}
    QSLOTS = 2
    MaxTail = 3
INVARIANTS
    BacklogSound
    NoMissedMessage
PROPERTIES
    Drained
\* Nothing makes the tasks go on, and the bounds stop the senders.
CHECK_DEADLOCK FALSE

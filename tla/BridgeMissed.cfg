\* A watcher against a sender of another process; the bit is a queue notify bit.
SPECIFICATION Spec
CONSTANTS
    g1 = g1
    g2 = g2
    r = r
    bit = bit
    None = None
    Tasks = {g1, g2, r}
    Receivers = {g1, g2}
    Senders = {r}
    Bits = {bit}
    RBit = bit
    Wants <- MCSet
    Posts <- MCSet
    Timeouts = {"none"}
    Local = {g1, g2}
    Openers = {g1}
    Gui = {g1, g2}
    device <- MCDevice
    GuiWant <- MCBits
    OwnMask = {bit}
    Masks <- MCMasks
INVARIANTS
    NoSilentPipe

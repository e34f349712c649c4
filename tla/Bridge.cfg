\* Two GUI threads of one process share one pipe, a third task sends from outside.
\* The one bit is a sysevent, which the mask of the device enables or not.
SPECIFICATION FairSpec
CONSTANTS
    g1 = g1
    g2 = g2
    r = r
    bit = bit
    None = None
    Tasks = {g1, g2, r}
    Receivers = {g1, g2}
    Senders = {g2, r}
    Bits = {bit}
    RBit = bit
    Wants <- MCSet
    Posts <- MCSet
    Timeouts = {"none"}
    Local = {g1, g2}
    Openers = {g1}
    Gui = {g1, g2}
    device <- MCDevice
    GuiWant <- MCBits
    OwnMask = {}
    Masks <- MCMasks
INVARIANTS
    NoIdleSpin
PROPERTIES
    EveryoneServed
    

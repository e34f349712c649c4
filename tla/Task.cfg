\* One process creates three tasks in any order, one of them from a context
\* that has no task id yet.
SPECIFICATION FairSpec
CONSTANTS
    p1 = p1
    p2 = p2
    c1 = c1
    c2 = c2
    c3 = c3
    rbit = rbit
    None = None
    Tasks <- MCTasks
    Receivers = {p1}
    Bits = {rbit}
    RBit = rbit
    Wants = {}
    Posts = {}
    Timeouts = {"forever"}
    Children = {c1, c2, c3}
    parent <- MCOneParent
    Orphans = {c2}
INVARIANTS
    StartSound
    NoStrayToken
PROPERTIES
    AllRun
\* The system stops when every child runs, or a parent sleeps beside a token
\* (HerosTask, NoLostRendezvous).
CHECK_DEADLOCK FALSE

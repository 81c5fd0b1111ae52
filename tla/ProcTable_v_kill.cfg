CONSTANTS
    NSlots = 4
    ProcLimit = 4
    Reserved = 1
    MaxChildren = 1
    ReapedMax = 1
    IdleBase = 9
    NIdle = 0
    NServ = 2
    MaxPid = 4
    Level = {0, 2}
    Owner = {}
    Windowed = {}
    Waited = {}
    Killer = {k1, k2}
SPECIFICATION Spec
INVARIANT KillsOnlyFamily
CHECK_DEADLOCK FALSE

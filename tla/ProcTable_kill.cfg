CONSTANTS
    NSlots = 5
    ProcLimit = 5
    Reserved = 1
    MaxChildren = 1
    ReapedMax = 1
    IdleBase = 9
    NIdle = 0
    NServ = 2
    MaxPid = 5
    Level = {2}
    Owner = {}
    Windowed = {4}
    Waited = {}
    Killer = {k1}
SPECIFICATION Spec
INVARIANTS MarksLeast KillsOnlyFamily
PROPERTY KilledChildNeverRuns
CHECK_DEADLOCK FALSE

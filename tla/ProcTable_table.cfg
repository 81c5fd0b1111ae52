CONSTANTS
    NSlots = 4
    ProcLimit = 4
    Reserved = 1
    MaxChildren = 1
    ReapedMax = 2
    IdleBase = 9
    NIdle = 0
    NServ = 1
    MaxPid = 4
    Level = {0, 2}
    Owner = {2}
    Windowed = {}
    Waited = {2}
    Killer = {}
SPECIFICATION Spec
INVARIANTS TypeOK ActiveExact ParentLive ChildCountExact FamilyOrder OwnerNotDead StatusRetained
CHECK_DEADLOCK FALSE

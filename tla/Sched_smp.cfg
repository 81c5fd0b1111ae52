SPECIFICATION Spec
CONSTANTS
    t1 = t1
    t2 = t2
    t3 = t3
    Idle = Idle
    NCpu = 2
    Task = {t1, t2, t3}
    Machine = {t1}
    Boot = {t1, t2}
    Prio <- InitFirst
    Focus = t2
    FocusBoostMax = 1
    MsgQueueMax = 1
    Ops = {"exit", "spawn", "kill"}
INVARIANTS TypeOK Placement RunsOnOneCpu StackExclusive
INVARIANTS FreedOnce FreedUnused

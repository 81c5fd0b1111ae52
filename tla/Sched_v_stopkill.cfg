SPECIFICATION Spec
CONSTANTS
    t1 = t1
    t2 = t2
    t3 = t3
    Idle = Idle
    NCpu = 1
    Task = {t1, t2}
    Machine = {t1}
    Boot = {t1, t2}
    Prio <- FlatPrio
    Focus = Idle
    FocusBoostMax = 1
    MsgQueueMax = 1
    Ops = {"stop", "kill"}
INVARIANT FreedUnused

SPECIFICATION FairSpec
CONSTANTS
    t1 = t1
    t2 = t2
    t3 = t3
    Idle = Idle
    NCpu = 1
    Task = {t1, t2, t3}
    Machine = {t1}
    Boot = {t1, t2}
    Prio <- FlatPrio
    Focus = t2
    FocusBoostMax = 1
    MsgQueueMax = 1
    Ops = {"exit", "recv", "send", "spawn", "kill"}
 
INVARIANT FreedOnce
INVARIANT FreedUnused
 
PROPERTY ReadyRuns
 

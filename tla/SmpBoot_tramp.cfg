SPECIFICATION Spec
CONSTANTS
    NCpu = 3
    MaxCpus = 4
    DynFrom = 8
INVARIANT BootStacksExclusive
CHECK_DEADLOCK FALSE

SPECIFICATION FairSpec
CONSTANTS
    NCpu = 4
    MaxCpus = 4
    DynFrom = 3
INVARIANTS TypeOK HandshakeInv OkMeansThisCpuAcked IrqOnlyWithIdleTask
PROPERTIES BspFinishes 
CHECK_DEADLOCK FALSE

CONSTANTS
    NCPUS = 2
    i1    = i1
    i2    = i2
    Irqs  = {i1, i2}
    NoIrq = NoIrq
    NoCPU = NoCPU
    Works <- MCWorks

SPECIFICATION FairSpec

INVARIANTS
    TypeOK
    IrqSafe
    IpiSafe

PROPERTIES
    LineServed
    CallRuns
    AllBoot

CONSTANTS
    NAGENTS               = 2
    RotorMod              = 2
    None                  = None
    Lines                 = {A}
    CPUs                  = {0}
    DMAs                  = {1}
    MAX_READS             = 2
    DWays                 = {1}
    IWays                 = {}
    L2Sets                = {}
    L2Set                 <- OneL2Set
    DOps                  = {"rd", "wr", "hit_wb"}
    MayKill               = FALSE
    HINT_ICACHE_SHARE     = TRUE
    Val                   = {x, y}
    NO_WRITEBACK_SNOOPING = FALSE

SPECIFICATION FairSpec

INVARIANTS
    Coherent
    DataCurrent
    ReadsFit

PROPERTIES
    AccessServed
    DMAServed

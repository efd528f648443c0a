CONSTANTS
    NAGENTS               = 2
    RotorMod              = 2
    None                  = None
    Lines                 = {A}
    CPUs                  = {0, 1}
    DMAs                  = {}
    MAX_READS             = 1
    DWays                 = {1}
    IWays                 = {2}
    L2Sets                = {}
    L2Set                 <- OneL2Set
    DOps                  = {"wr"}
    MayKill               = FALSE
    HINT_ICACHE_SHARE     = FALSE
    Val                   = {x}
    NO_WRITEBACK_SNOOPING = FALSE

SPECIFICATION FairSpec

INVARIANTS
    Coherent

PROPERTIES
    AccessServed
    FetchServed

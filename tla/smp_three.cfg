CONSTANTS
    NAGENTS               = 3
    RotorMod              = 4
    None                  = None
    Lines                 = {A}
    CPUs                  = {0, 1, 2}
    DMAs                  = {}
    MAX_READS             = 1
    DWays                 = {1}
    IWays                 = {}
    L2Sets                = {}
    L2Set                 <- OneL2Set
    DOps                  = {"rd", "wr"}
    MayKill               = FALSE
    HINT_ICACHE_SHARE     = TRUE
    Val                   = {x}
    NO_WRITEBACK_SNOOPING = FALSE

SPECIFICATION Spec

INVARIANTS
    Coherent
    OneDriver

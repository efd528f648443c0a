CONSTANTS
    NAGENTS               = 3
    RotorMod              = 4
    None                  = None
    Lines                 = {A}
    CPUs                  = {0, 1}
    DMAs                  = {2}
    MAX_READS             = 1
    DWays                 = {1}
    IWays                 = {}
    L2Sets                = {}
    L2Set                 <- OneL2Set
    DOps                  = {"wr"}
    MayKill               = FALSE
    HINT_ICACHE_SHARE     = TRUE
    Val                   = {x, y}
    NO_WRITEBACK_SNOOPING = FALSE

SPECIFICATION Spec

INVARIANTS
    DMASeesLastStore

SYMMETRY LineValueSymmetry

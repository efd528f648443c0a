CONSTANTS
    NAGENTS               = 2
    RotorMod              = 2
    None                  = None
    Lines                 = {A, B}
    CPUs                  = {0, 1}
    DMAs                  = {}
    MAX_READS             = 1
    DWays                 = {1}
    IWays                 = {}
    L2Sets                = {1}
    L2Set                 <- OneL2Set
    DOps                  = {"wr"}
    MayKill               = FALSE
    HINT_ICACHE_SHARE     = TRUE
    Val                   = {x, y}
    NO_WRITEBACK_SNOOPING = FALSE

SPECIFICATION Spec

INVARIANTS
    Coherent
    DataCurrent

SYMMETRY LineValueSymmetry

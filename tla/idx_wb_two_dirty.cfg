CONSTANTS
    NAGENTS               = 2
    RotorMod              = 2
    None                  = None
    Lines                 = {A, B}
    CPUs                  = {0, 1}
    DMAs                  = {}
    MAX_READS             = 1
    DWays                 = {1, 2}
    IWays                 = {}
    L2Sets                = {}
    L2Set                 <- OneL2Set
    DOps                  = {"wr", "idx_wb_inv"}
    MayKill               = FALSE
    HINT_ICACHE_SHARE     = TRUE
    Val                   = {x, y}
    NO_WRITEBACK_SNOOPING = FALSE

SPECIFICATION Spec

INVARIANTS
    RefillsSeeLastStore

SYMMETRY LineValueSymmetry

CONSTANTS
    NAGENTS               = 2
    RotorMod              = 2
    None                  = None
    Lines                 = {A}
    CPUs                  = {0, 1}
    DMAs                  = {}
    MAX_READS             = 1
    DWays                 = {1}
    IWays                 = {}
    L2Sets                = {}
    L2Set                 <- OneL2Set
    DOps                  = {"wr", "ll", "sc", "hit_inv", "idx_wb_inv"}
    MayKill               = TRUE
    HINT_ICACHE_SHARE     = TRUE
    Val                   = {x, y}
    NO_WRITEBACK_SNOOPING = FALSE

SPECIFICATION Spec

INVARIANTS
    TypeOK
    Coherent
    DataCurrent
    ScAtomic

PROPERTIES
    ImplementsCoherence

SYMMETRY LineValueSymmetry

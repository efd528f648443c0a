CONSTANTS
    JTLB_SIZE   = 2
    CAM_LATENCY = 1
    VPN2S       = 2
    SETS        = 2
    Values      = {x, y}
    ItlbPages   <- MCItlbPages
    DtlbPages   <- MCDtlbPages
    None        = None
    Changing    = {0}

SPECIFICATION FairSpec

INVARIANTS
    TypeOK
    TlbCoherent
    NoStaleTranslation

PROPERTIES
    PortsAnswered
    InstructionFinishes

CONSTANTS
    TX_RING_BITS  = 1
    TX_FIFO_DEPTH = 1
    BUS_BYTES     = 4
    LENGTH_BITS   = 4
    s1            = s1
    s2            = s2
    s3            = s3
    SKBs          = {s1, s2, s3}
    Len0          <- MCLen0
    Offset0       <- MCOffset0
    NoSkb         = NoSkb

SPECIFICATION FairSpec

INVARIANTS
    TypeOK
    TxInStep
    TxDataSafe
    KilledMeansIdle

PROPERTIES
    TxLive

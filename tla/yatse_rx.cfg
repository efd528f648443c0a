CONSTANTS
    RX_RING_BITS = 1
    BUS_BYTES    = 2
    RXLEN        = 3
    FrameKinds   <- MCFrameKinds
    SKBs         = {s1, s2, s3}
    NoFrame      = NoFrame
    NoSkb        = NoSkb
    Weight       = 1

SPECIFICATION FairSpec

INVARIANTS
    TypeOK
    RxInStep
    RxBuffersSafe
    StoppedMeansQuiet

PROPERTIES
    RxLive

CONSTANTS
    NAGENTS   = 6
    RotorMod  = 8
    None      = None
    WaitBound = 25

SPECIFICATION EnvSpec

INVARIANTS
    BoundedWait

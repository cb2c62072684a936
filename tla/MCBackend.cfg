SPECIFICATION MCSpec
CONSTANTS
    Backends = {1, 2, 3}
    Confs <- MCReloads
    Scale = 2
    SSTimes = {0, 1}
    MaxConns = 1
    MaxCurrent = 4
    Keys = {0, 1, 4}
    Algors = {"WrrSticky", "WlcSmooth"}
    Callers = {x1, x2, x3}
    NoCaller = NoCaller
    MaxConnsPerHost = 2
    MaxIdles = {0, 1}
SYMMETRY CallerSymmetry
INVARIANTS
    CreditKept
    NoneStarved
    StickySame
    
    PoolSound
CHECK_DEADLOCK FALSE

SPECIFICATION Spec
CONSTANTS
    Requests = {r1}
    b1 = b1
    b2 = b2
    s1 = s1
    s2 = s2
    hole = hole
    Backends <- MCBackends
    SubClusters <- MCSubClusters
    Blackhole = hole
    SubOf <- MCSubOf
    Weight <- MCWeight
    GslbBasics <- MCOneBasic
    LoopLimit = 20
    MaxReinvokes = 1
    None = None
    Temp = Temp
    EppMode = FALSE
    Fcgi = FALSE
    ForwardMayFinish = FALSE
INVARIANTS
    KeyRetryReachesBackend

SPECIFICATION FairSpec
CONSTANTS
    Requests = {r1}
    b1 = b1
    b2 = b2
    s1 = s1
    s2 = s2
    hole = hole
    Backends <- MCBackends
    SubClusters <- MCSubClusters
    Blackhole = hole
    SubOf <- MCSubOf
    Weight <- MCWeightAll
    GslbBasics <- MCOneBasic
    LoopLimit = 3
    MaxReinvokes = 2
    None = None
    Temp = Temp
    EppMode = TRUE
    Fcgi = TRUE
    ForwardMayFinish = TRUE
INVARIANTS
    GivesBack

    

SPECIFICATION Spec
CONSTANTS
    c1 = c1
    c2 = c2
    s1 = s1
    s2 = s2
    NoConf = NoConf
    Clusters = {c1, c2}
    Subs = {s1, s2}
    Reloaders = {p1, p2}
    Requests = {r1}
    MaxReloads = 1
    ServerConfs <- MCTimeouts
    GslbConfs <- MCGslbConfs
SYMMETRY ReloaderSymmetry
INVARIANT DialTimeoutCurrent

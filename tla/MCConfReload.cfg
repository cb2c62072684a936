SPECIFICATION Spec
CONSTANTS
    c1 = c1
    c2 = c2
    s1 = s1
    s2 = s2
    NoConf = NoConf
    Clusters = {c1, c2}
    Subs = {s1, s2}
    Reloaders = {p1, p2}
    Requests = {r1}
    MaxReloads = 3
    ServerConfs <- MCServerConfs
    GslbConfs <- MCGslbConfs
SYMMETRY ReloaderSymmetry
INVARIANTS
    NoOrphanEpp
    TableLive
    TableWhole
    SettledCurrent
    TransportCurrent

SPECIFICATION MCSpec
CONSTANTS
    Backends = {1}
    Confs <- MCSingle
    Scale = 4
    SSTimes = {2}
    MaxConns = 0
    MaxCurrent = 4
    Keys = {}
    Algors = {"WrrSmooth"}
    Callers = {}
    NoCaller = NoCaller
    MaxConnsPerHost = 1
    MaxIdles = {0}
PROPERTIES
    TrafficAtStart

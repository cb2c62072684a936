SPECIFICATION FairSpec
CONSTANTS
    Requests = {r1, r2}
    Checkers = {c1, c2}
    FailThresholds = {2}
    SuccThresholds = {1, 2}
    MaxFails = 2
INVARIANTS
    AtMostOneChecker
    DownIsWatched
    RecoveryIsAnnounced
PROPERTIES
    RecoveryIsEarned
    TakedownIsFresh
    CheckerServes

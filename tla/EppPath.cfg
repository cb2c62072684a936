SPECIFICATION FairPathSpec
CONSTANTS
    N = 2
    FailThresholds = {2}
    SuccessThresholds = {2}
    Cooldown = 2
    Elapsed = {1}
    MaxRun = 2
    Retables = TRUE
    BreakerConfs <- SwitchedConfs
INVARIANTS
    TripsInTime
PROPERTIES
    ReactsForCause
    
    PathHeals

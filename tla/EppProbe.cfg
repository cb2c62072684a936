SPECIFICATION PathSpec
CONSTANTS
    N = 2
    FailThresholds = {1}
    SuccessThresholds = {2}
    Cooldown = 1
    Elapsed = {1}
    MaxRun = 2
    Retables = FALSE
    BreakerConfs <- SwitchedConfs
INVARIANTS
    ProbeInFlight

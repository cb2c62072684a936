SPECIFICATION MCSpec
CONSTANTS
    r1 = r1
    r2 = r2
    r3 = r3
    r4 = r4
    s1 = s1
    c1 = c1
    c2 = c2
    c3 = c3
    k1 = k1
    k2 = k2
    p1 = p1
    p2 = p2
    g1 = g1
    g2 = g2
    NoAi = NoAi
    AiReqs = {r1, r2}
    AiBatch = {r2}
    SessionOf <- MCSession
    Attempts <- MCAttempts
    KeysOf <- MCKeys
    KeyWeight <- MCKeyWeight
    AiPolicies <- MCPolicies
    BatchBound = {k1}
    LReqs = {r1, r2}
    Gateways = {g1, g2}
    GatewayOf <- MCGatewayOf
    Tables <- MCTables
    MaxConcurrency <- MCMaxConcurrency
    MaxRequests <- MCMaxRequests
    TokenLimit <- MCTokenLimit
    UsedQuotas = {2}
    LimitActions = {"FINISH", "PASS"}
    RejectOnRedisError = FALSE
    MaxEpochs = 1
    BReqs = {x1, x2, x3}
    Batches = {y1, y2}
    Quota = 2
    ChatCost = 1
    BatchCost = 2
    ReserveUnits = 1
    NoBatch = NoBatch
    RedisErrors = TRUE
    BodyReqs = {y1, y2}
    BodyLens = {0, 1, 2, 3}
    Accessible = 2
    BufferLimits = {0, 2}
    BodyAttempts = 2
    Streams <- MCStreams
    MReqs = {r1, r2, r3, r4}
    MWorkers = {y1, y2}
    QueueCapacity = 1
    MaxMirrorBody = 1
    FailThreshold = 2
    Cooldown = 2
    MirrorFiles <- MCMirrorFiles
    MirrorBodies <- MCMirrorBodies
    MAttempts <- MCMAttempts
    CacheReqs = {x1, x2, x3}
    CacheKinds <- MCCacheKinds
    UpstreamAnswers <- MCAnswers
    MaxValue = 3
    IntentReqs = {x1, x2, x3}
    IntentKinds <- MCIntentKinds
    IntentCapacity = 1
    IntentFails = 1
    ProbeInterval = 2
    MaxVersions = 2
    StickyClients = {y1, y2}
    StickyBackends = {k1, k2}
    StickyFiles <- MCStickyFiles
    DefaultMask = "dm"
    DefaultStandby = "ds"
    DefaultAge = 2
    StickyCacheSize = 1
    MaxStickyTime = 2
    MaxStickyReloads = 1
    PrisonReqs = {y1, y2}
    Thresholds = {0, 1}
    CheckPeriod = 1
    StayPeriod = 1
    MaxPrisonTime = 2
    MaxPrisonReloads = 1
    Nil = Nil
    NoValue = NoValue
    Addresses = {1, 2, 3, 4}
    MaxPage = 2
    FlushSize = 2
    ImageTokens = 3
    CharsPerToken = 2
    DefaultWindow = 6
    MinReserve = 1
    MaxReserve = 3
    MinutesOfDay = 4
    Weekdays = {0, 1}
    MaxTokens = 2
INVARIANTS
    DeadNotReused
    
    
    BodiesSound
    
PROPERTIES
    MirrorSound
    CachesSound
    
CHECK_DEADLOCK FALSE

SPECIFICATION MCSpec
CONSTANTS
    StreamIds <- MCStreamIds
    AdvMaxStreams = 2
    MaxControl = 2
    W = 4
    InitWindow = 1
    MaxFrame = 2
    RecvWindow = 2
    Windows = {0, 2}
    Increments = {1, 3}
    Bodies = {1, 2}
    Chunk = 2
    Declared = {1}
    Clients <- MCPeers
    SpdyStreams <- MCSpdyStreams
    SpdyMaxStreams = 2
    SpdyW = 4
    SpdyWindow = 1
    SpdyMaxFrame = 2
    SpdyWindows = {0, 2}
    SpdyIncrements = {1, 3}
    SpdyChunk = 2
    SpdyClients <- MCSpdyPeers
    Nil = Nil
    MaxHandshakes = 2
    TlsConfs <- MCTlsConfs
    TlsClients <- MCTlsClients
    k1 = k1
    k2 = k2
    CConns = {k1, k2}
    CKinds <- MCKinds
    CRequests = 2
    MaxOps = 4
    TableLimit = 3
    MaxPlain = 2
    InitPlain = 1
    Threshold = 2
    BlockSize = 2
    MaxEmpty = 1
    BufSize = 2
    MaxPostRead = 2
    PeekLines = 1
    CopySize = 2
    DisableSanitize = TRUE
    FullRate = 2
    DefaultBodySize = 1
    MaxBodySize = 2
    DrawRange = 4
    HashBuckets = 3
    DaySeconds = 4
    AdvancedMode = "ADVANCED_MODE"
INVARIANTS
    
    
    TlsSound
    
    
    
    
CHECK_DEADLOCK FALSE

SPECIFICATION KernelSpec
CONSTANTS
    EvIds = {"a1", "a2", "b1", "b2", "b3", "x", "none"}
    EvCorpus <- EvCorpus5
    EvShardOf <- EvShards5
    EvCost <- EvCosts5
    NoEvent = "none"
    EvPackets <- SomePackets
    EvRecalls <- SomeRecalls
    EvTimelines <- SomeTimelines
    EvCandidates <- SomeCandidates
    EvSims <- SomeSims
    EvTerms <- SomeTerms
    QueryTerms = {"t"}
    EvConfigs <- SomeConfigs
    MinFromTopShard = 3
    ChEvents <- FiveEvents
    ChWorlds <- SomeWorlds
    ProperNouns = {"P", "v"}
    LongTerms = {"s"}
    DfFloor = 3
    TopTopics = 1
    SeedLimit = 3
    MaxExpansionTerms = 3
    Hop2Seeds = 2
    Hop2Terms = 2
    BucketCount = 2
    PerBucket = 1
    RxShards = {1, 2, 3}
    RxTerms <- MCTerms
    RxAlike <- MCAlike
    RxWorlds <- SomeRouterWorlds
    RxAsks = {1, 2}
    MaxDescriptors = 2
    NameTerms = 1
    EventPct = 25
    CtWorlds <- CtSomeWorlds
    CtSolos <- MCSolos
    CtBatches <- MCBatches
    CtRecalls <- MCRecalls
    CtPackets <- MCPackets
    CtTerms = {"q", "r", "s", "amb"}
    CtQuery = {"q", "r"}
    TagCost = 1
    PerEvent = 8
    AnchorScore = 9
    ArMemories <- SomeMemories
    ArQueries <- SomeQueries
    ArFinds <- SomeFinds
    ArLevers <- SomeLevers
    SessionOf <- MCSessionOf
    LongWords = {"long"}
    Limits <- MCLimits
    ChatRetries = 2
    LineKinds = {"content", "reasoning", "both", "message", "comment"}
    MaxLines = 2
    Hints = {0, 5000, 300000}
    Sizes = {1, 2, 5}
    MaxEvents = 4
    ChunkTokens = 3
    SinglePassTokens = 4
    MapConcurrency = 2
    CpSplits <- SomeSplits
    NotGiven = NotGiven
    GdReplies <- SomeGdReplies
    GdContests <- SomeGdContests
    BjRuns <- SomeBjRuns
    BjReplies <- SomeBjReplies
    BjQuotes <- SomeBjQuotes
    BmSlices <- SomeSlices
    BmFlags <- SomeFlags
    BmReturns <- SomeReturns
    ShortTerms = {"of"}
    FacetCap = 3
    Ks = {1, 3}
    Embedders = {1, 2}
    SomeRaw <- MCRaw
    SomeAsked <- MCAsked
    EmbTexts = {"a", "b"}
    MaxEmbKills = 1
    Asks = {a1, a2}
    Entries <- FourEntries
    Score <- TwoScores
    Actives <- TwoActive
    MaxProbe = 3
    MaxCand = 3
    MinProbes = 2
    KeepWithin = 1
INVARIANT BestPassageRanks
CHECK_DEADLOCK FALSE

SPECIFICATION DriveSpec
CONSTANTS
    Asks = {1, 2}
    CacheKeys = {"k"}
    Prompts = {"p", "q", "s"}
    PromptsOf <- MCPromptsOf
    ShortPrompts = {"s"}
    MaxRetries = 1
    Ttl = 2
    Margin = 1
    NegativeFor = 1
    MaxClock = 2
    MaxMishaps = 2
    Selected <- MCSelected
    UnitOf <- MCUnitOf
    Synth = {"a", "b"}
    Unscoped = {3}
    SliceJobs = 2
    MaxStarts = 2
    MaxSpoils = 1
    Users = {u1, u2}
    All = All
    Reqs = {r1}
    Active = {"preference", "fold"}
    Width = 1
    CorpusMax = 1
    CacheMax = 1
    NoBuild = NoBuild
    MaxIngests = 2
    MaxResets = 0
    MaxFailures = 1
    WarmDocs = 3
    ReplayBatch = 2
    MaxServers = 2
    MaxRuns = 2
    MaxLapses = 1
INVARIANTS OwnPrompt BudgetKept RegistrySound SliceSound ArtifactsSound ServesTheLog
PROPERTY EachEnds
CHECK_DEADLOCK FALSE

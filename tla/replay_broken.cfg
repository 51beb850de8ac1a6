SPECIFICATION WarmSpec
CONSTANTS
    WarmDocs = 2
    ReplayBatch = 1
    MaxServers = 2
    MaxRuns = 1
    MaxLapses = 1
INVARIANTS ServesWholeLog
CHECK_DEADLOCK FALSE

SPECIFICATION MCSpec
CONSTANTS
    Callers <- MCCallers
    Keys <- MCKeys
    Items <- MCItems
    Runner <- MCRunner
    MaxJobs = 2
    MaxKills = 1
    Lanes = {1, 2}
    Sizes = {1, 2}
    Questions = {1, 2}
    MaxRuns = 3
    Texts = {"right", "junk"}
    Junk = "junk"
    TooShort = "short"
    Usual = {"right"}
    MaxFaults = 2
    Users = {u1, u2}
    All = All
    Reqs = {r1, r2}
    Active = {"observation"}
    Width = 1
    CorpusMax = 1
    CacheMax = 1
    NoBuild = NoBuild
    MaxIngests = 2
    MaxResets = 1
    MaxFailures = 1
SYMMETRY Interchangeable
INVARIANTS AnswersWhole ArmsPaired SweepResumes BuiltIsFresh AnswersCurrent WorkBounded
PROPERTY NeverBoughtAgain

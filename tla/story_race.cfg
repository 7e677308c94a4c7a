SPECIFICATION PollingSpec
CONSTANTS
    Script <- ShortScript
    Tickers = {p1, p2}
    Keys = {}
    Paths = {}
    Contents = {}
    EffectKeys = {}
    NoKey = NoKey
    Unwritten = Unwritten
    Tombstone = Tombstone
    Absent = Absent
    Facts = {1}
    K = 1
    OverFetch = 1
    MaxRuns = 1
    MaxBranches = 3
    MaxCheckpoints = 7
    MaxEffects = 3
    MaxMemories = 1
    MaxCrashes = 1
INVARIANTS
    StoryTypeOK
    StoryInOrder
    OnlyRecoveryIsAnnounced
PROPERTIES
    StoryIsTold
CHECK_DEADLOCK FALSE

SPECIFICATION DashboardSpec
CONSTANTS
    Keys = {}
    Paths = {}
    Contents = {v1}
    EffectKeys = {}
    NoKey = NoKey
    Unwritten = Unwritten
    Tombstone = Tombstone
    Absent = Absent
    MaxRuns = 1
    MaxBranches = 3
    MaxCheckpoints = 3
    MaxEffects = 1
    Polls = {q1}
    NoTree = NoTree
    NoPlan = NoPlan
PROPERTIES
    CountedAreDiscarded
CHECK_DEADLOCK FALSE

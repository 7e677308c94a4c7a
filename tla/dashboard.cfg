SPECIFICATION DashboardSpec
CONSTANTS
    Keys = {}
    Paths = {}
    Contents = {v1}
    EffectKeys = {}
    NoKey = NoKey
    Unwritten = Unwritten
    Tombstone = Tombstone
    Absent = Absent
    MaxRuns = 1
    MaxBranches = 2
    MaxCheckpoints = 2
    MaxEffects = 1
    Polls = {q1, q2}
    NoTree = NoTree
    NoPlan = NoPlan
INVARIANTS
    DashboardTypeOK
    ViewIsClosed
PROPERTIES
    DiscardsAreExpected
    ViewCatchesUp
CHECK_DEADLOCK FALSE

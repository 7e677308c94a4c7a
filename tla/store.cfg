SPECIFICATION Spec
CONSTANTS
    Keys = {k1}
    Paths = {}
    Contents = {v1, v2}
    EffectKeys = {key1}
    NoKey = NoKey
    Unwritten = Unwritten
    Tombstone = Tombstone
    Absent = Absent
    MaxRuns = 2
    MaxBranches = 3
    MaxCheckpoints = 4
    MaxEffects = 1
SYMMETRY ContentSymmetry
INVARIANTS
    TypeOK
    LineageIsChain
    NoLostCommit
    RunHasActiveBranch
    DiscardsOnlyTheAbandoned
PROPERTIES
    RewindKeepsPending
    ImplementsSnapshots
CHECK_DEADLOCK FALSE

SPECIFICATION MemorySpec
CONSTANTS
    Keys = {}
    Paths = {}
    Contents = {}
    EffectKeys = {}
    NoKey = NoKey
    Unwritten = Unwritten
    Tombstone = Tombstone
    Absent = Absent
    Facts = {1, 2, 4}
    K = 1
    OverFetch = 2
    MaxRuns = 1
    MaxBranches = 3
    MaxCheckpoints = 3
    MaxEffects = 0
    MaxMemories = 3
INVARIANTS
    MemoryTypeOK
    NothingForgotten
    MemoriesAreInherited
    IndexedRecallAgrees
CHECK_DEADLOCK FALSE

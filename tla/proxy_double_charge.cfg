SPECIFICATION ProxySpec
CONSTANTS
    Keys = {}
    Paths = {}
    Contents = {}
    EffectKeys = {key1}
    NoKey = NoKey
    Unwritten = Unwritten
    Tombstone = Tombstone
    Absent = Absent
    Procs = {p1, p2}
    MaxRuns = 1
    MaxBranches = 2
    MaxCheckpoints = 2
    MaxEffects = 2
    MaxFailures = 0
SYMMETRY ProcSymmetry
INVARIANTS
    KeyFiresOnce
CHECK_DEADLOCK FALSE

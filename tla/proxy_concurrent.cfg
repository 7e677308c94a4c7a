SPECIFICATION ProxySpec
CONSTANTS
    Keys = {}
    Paths = {}
    Contents = {}
    EffectKeys = {key1}
    NoKey = NoKey
    Unwritten = Unwritten
    Tombstone = Tombstone
    Absent = Absent
    Procs = {p1, p2}
    MaxRuns = 1
    MaxBranches = 3
    MaxCheckpoints = 2
    MaxEffects = 2
    MaxFailures = 1
SYMMETRY ProcSymmetry
INVARIANTS
    ProxyTypeOK
    FlushStaysOnLineage
    RowsMatchWorld
    FiresAreBounded
PROPERTIES
    ReplayNeverFires
    DiscardIsFinal
CHECK_DEADLOCK FALSE

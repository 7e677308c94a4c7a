SPECIFICATION SaverSpec
CONSTANTS
    Keys = {lg}
    STATE_KEY = lg
    Paths = {}
    Contents = {1, 2, 3, 4}
    EffectKeys = {}
    NoKey = NoKey
    Unwritten = Unwritten
    Tombstone = Tombstone
    Absent = Absent
    Agents = {a1, a2}
    MaxRuns = 2
    MaxBranches = 3
    MaxCheckpoints = 4
    MaxEffects = 0
    Watched = {1}
SYMMETRY AgentSymmetry
INVARIANTS
    SaverTypeOK
    ParentIsAncestor
    CompletedPutsAreFound
PROPERTIES
    ResumeIsClean
CHECK_DEADLOCK FALSE

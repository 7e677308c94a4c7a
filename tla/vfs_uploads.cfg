SPECIFICATION FilesSpec
CONSTANTS
    Keys = {}
    Paths = {path1}
    Contents = {inline, ref1, ref2}
    Blobs = {ref1, ref2}
    Bodies = {body1, body2}
    NoObject = NoObject
    Uploaders = {u1, u2}
    EffectKeys = {}
    NoKey = NoKey
    Unwritten = Unwritten
    Tombstone = Tombstone
    Absent = Absent
    MaxRuns = 1
    MaxBranches = 2
    MaxCheckpoints = 4
    MaxEffects = 0
SYMMETRY UploadSymmetry
INVARIANTS
    FilesTypeOK
    NoDanglingBlob
    BlobWritesStay
PROPERTIES
    InlineFilesNeverChange
CHECK_DEADLOCK FALSE

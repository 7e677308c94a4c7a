SPECIFICATION Spec
CONSTANTS
    Threads = {t1, t2}
    Nobody = Nobody
    Backends = {"sqlite", "postgres"}
    MaxDepth = 2
    MaxUnits = 4
    MaxWrites = 2
SYMMETRY ThreadSymmetry
INVARIANTS
    DatabaseTypeOK
    ReadsAreWhole
PROPERTIES
    ImplementsBlocks

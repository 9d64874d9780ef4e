SPECIFICATION Spec
CONSTANTS
    Sources <- MCSources
    Old <- MCOld
    ChunkSize = 2
    Calls = {c1, c2, c3}
SYMMETRY Symmetry
CHECK_DEADLOCK FALSE
INVARIANTS
    TypeOK
    SavedIsSource
    CopiesKept

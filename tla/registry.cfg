SPECIFICATION FairSpec
CONSTANTS
    Workers = {w1, w2}
    Ids = {n1, n2, n3}
    Addresses = {a1}
    Spaces = {0, 1}
    Counts = {1}
    MaxNodes = 1
    NodeTimeout = 1
    MaxTime = 3
INVARIANTS
    TypeOK
    RegistryBounded
    InactiveMeansSilent
PROPERTY
    SilentNodeDeactivated

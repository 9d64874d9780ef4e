SPECIFICATION Spec
CONSTANTS
    x = x
    y = y
    Uploads = {u1, u2}
    Names = {f}
    Chunks <- MCChunks
    Contents <- MCContents
    Hosts = {h1, h2}
    Ids = {a, b, c}
    ReplicationFactor = 2
    MaxRestarts = 1
SYMMETRY Symmetry
CHECK_DEADLOCK FALSE
INVARIANTS
    TypeOK
    CatalogReplicated
    CatalogWhole
    VisibleUntilRestart
    ListedIdsKnown
PROPERTY
    ImplementsFileStore

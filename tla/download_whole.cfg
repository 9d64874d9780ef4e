SPECIFICATION Spec
CONSTANTS
    x = x
    y = y
    Downloads = {d1}
    Names = {f}
    Chunks <- MCChunks
    Contents <- MCLongContents
    Hosts = {h1, h2}
    Ids = {a, b}
    ReplicationFactor = 2
    Garbage = Garbage
    Restored = {}
INVARIANT DownloadedWhole

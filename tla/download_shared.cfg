SPECIFICATION FairSpec
CONSTANTS
    x = x
    y = y
    Downloads = {d1, d2}
    Names = {f}
    Chunks = {x}
    Contents <- MCShortContents
    Hosts = {h1}
    Ids = {a, b}
    ReplicationFactor = 2
    Garbage = Garbage
    Restored = {}
INVARIANT EveryReplicaAsked
PROPERTY DownloadEnds

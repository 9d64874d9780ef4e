SPECIFICATION Spec
CONSTANTS
    Workers = {w1, w2}
    k1 = k1
    k2 = k2
    h1 = h1
    h2 = h2
    plain = plain
    dotted = dotted
    other = other
    blank = blank
    NoKey = NoKey
    Names = {plain, dotted, other, blank}
    Keys <- MCKeys
    Hashes <- MCHashes
    Sanitize <- MCSanitize
    Bodies <- MCBodies
    Leftovers <- MCLeftovers
    MaxLines = 2
INVARIANT ReplyMatchesHeader

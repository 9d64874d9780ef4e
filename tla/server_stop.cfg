SPECIFICATION Spec
CONSTANTS
    Clients = {c1}
    Platforms = {"windows"}
INVARIANT
    EveryThreadJoined
CHECK_DEADLOCK FALSE

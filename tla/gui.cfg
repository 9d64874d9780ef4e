SPECIFICATION FairSpec
CONSTANTS
    Transfers = {t1, t2}
    MaxSessions = 3
INVARIANTS
    TypeOK
    ListsOfThisServer
    DialogKeepsSession
    CrashNeedsEndedSession
PROPERTIES
    OnlyLateFailureTakesClient
    ResultIsShown
CHECK_DEADLOCK FALSE

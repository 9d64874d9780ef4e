SPECIFICATION FairSpec
CONSTANTS
    Char <- MCChar
    Messages <- MCMessages
    Requests <- MCRequests
    Data <- MCData
    End <- MCEnd
    MaxSize = 4
    MaxLines = 2
CHECK_DEADLOCK FALSE
INVARIANTS
    TypeOK
    LinesAsSent
    AllOrNothing
PROPERTY
    ReaderEnds

SPECIFICATION FairSpec
CHECK_DEADLOCK FALSE
CONSTANTS
    Users = {u1}
    NoUser = nobody
    Sizes <- FileSizes
    Inbound <- SomeFrames
    MaxRequests = 3
    MaxConns = 2
INVARIANTS
    TypeOK
    AnsweredOnce
    OwnConnection
    OwnHeader
    InsideFrame
PROPERTY
    RequestAnswered

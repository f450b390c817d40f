SPECIFICATION Spec
CONSTANTS
    Base = 2
    MaxTime = 6
    DogTime = 2
    Grace = 1
    MaxSubs = 1
    MaxStall = 3
    HandleWifi = TRUE
    Disturbed = TRUE
INVARIANTS
    TypeOK
    SocketNeedsWifi
    OffMeansClosed
    SubsOnlyWhileConnected
    ConnectedIsWatched
    ConnectedIsBaseline
    ClientHasAttempted
PROPERTIES
    NoReconnectStorm
    NoAttemptWhileOff

SPECIFICATION FairSpec
CONSTANTS
    Base = 2
    MaxTime = 3
    DogTime = 2
    Grace = 1
    MaxSubs = 0
    MaxStall = 1
    HandleWifi = TRUE
    Disturbed = FALSE
PROPERTIES
    DeadPeerNoticed
    KeepsConnecting

SPECIFICATION FairSpec
CONSTANTS
    Base = 1
    MaxTime = 2
    DogTime = 1
    Grace = 1
    MaxSubs = 0
    MaxStall = 1
    HandleWifi = TRUE
    Disturbed = FALSE
PROPERTY
    ReturnReconnects

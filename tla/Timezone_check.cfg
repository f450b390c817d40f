SPECIFICATION FairSpec
CONSTANTS
    Zones = {athens, london, odd}
    Valid = {athens, london}
    NoZone = none
INVARIANTS
    TypeOK
    InEffect
    Saved
PROPERTY
    Settles

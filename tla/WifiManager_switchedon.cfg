SPECIFICATION FairSpec
CONSTANTS
    Creds = {home}
    Networks = {home}
    NoCreds = none
    Attempts = 2
    Base = 2
    MaxInterval = 2
    Grace = 1
    MaxStage = 1
    Requests = {"connect"}
    Crashes = FALSE
    Prompt = TRUE
PROPERTY
    OnIsLikeBoot

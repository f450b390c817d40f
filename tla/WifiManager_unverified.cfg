SPECIFICATION Spec
CONSTANTS
    Creds = {home, typo}
    Networks = {home}
    NoCreds = none
    Attempts = 1
    Base = 1
    MaxInterval = 2
    Grace = 1
    MaxStage = 2
    Requests = {"connect", "disconnect", "scan"}
    Crashes = TRUE
    Prompt = FALSE
PROPERTY
    SavedWasJoined

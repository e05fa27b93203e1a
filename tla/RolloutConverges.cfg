CONSTANTS
    NoVersion = none
    Versions = {v1, v2}
    HasRDS = FALSE
    WaitUntilReady = TRUE
    PostMigrate = FALSE
    NewStatusCheck = TRUE
    MaxTries = 2
    MaxEdits = 1
    MaxTouches = 0
    Faults = {}
SPECIFICATION FairSpec
PROPERTY Converges

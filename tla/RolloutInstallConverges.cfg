CONSTANTS
    NoVersion = none
    Versions = {v1}
    HasRDS = TRUE
    WaitUntilReady = TRUE
    PostMigrate = TRUE
    NewStatusCheck = FALSE
    MaxTries = 2
    MaxEdits = 0
    MaxTouches = 1
    Faults = {"database"}
SPECIFICATION FairSpec
PROPERTY Converges

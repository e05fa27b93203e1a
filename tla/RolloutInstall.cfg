CONSTANTS
    NoVersion = none
    Versions = {v1}
    HasRDS = TRUE
    WaitUntilReady = TRUE
    PostMigrate = FALSE
    NewStatusCheck = TRUE
    MaxTries = 2
    MaxEdits = 0
    MaxTouches = 0
    Faults = {"api", "crash", "job", "snapshot", "expiry"}
SPECIFICATION Spec
INVARIANT TypeOK
INVARIANT BackupBeforeMigration
PROPERTY ReadyOnlyWhenServing

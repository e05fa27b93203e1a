CONSTANTS
    NoVersion = none
    Versions = {v1, v2}
    HasRDS = FALSE
    WaitUntilReady = FALSE
    PostMigrate = FALSE
    NewStatusCheck = TRUE
    MaxTries = 2
    MaxEdits = 2
    MaxTouches = 0
    Faults = {"job", "crash", "pods"}
SPECIFICATION Spec
PROPERTY KeepsPromise
INVARIANT MigrateVersionHonest
INVARIANT DeployOnlyMigrated

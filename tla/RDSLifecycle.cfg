CONSTANTS
    EnableFinalizers = TRUE
    DeletedWhile = {"absent", "creating", "available", "busy", "failed", "deleting"}
    MaxTries = 2
    MaxSecrets = 1
    MaxBackups = 1
    MaxTouches = 1
    Faults = {"api", "crash", "break", "drift", "removed"}
SPECIFICATION Spec
INVARIANT TypeOK
PROPERTY KeepsParameterGroup
PROPERTY MadeUnderFinalizer

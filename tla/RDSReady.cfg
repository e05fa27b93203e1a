CONSTANTS
    EnableFinalizers = TRUE
    DeletedWhile = {"available"}
    MaxTries = 2
    MaxSecrets = 2
    MaxBackups = 0
    MaxTouches = 1
    Faults = {"drift"}
SPECIFICATION FairSpec
PROPERTY BecomesReady
PROPERTY DeletionCompletes
PROPERTY KeepsSecurityGroup

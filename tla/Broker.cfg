CONSTANTS
    SkipUsers = {TRUE, FALSE}
    EnableFinalizers = TRUE
    MaxTries = 1
    MaxSpecs = 2
    DeletedWhile = {"Ready"}
    MaxDisturbances = 1
SPECIFICATION FairSpec
INVARIANT TypeOK
INVARIANT UserAnswered
INVARIANT ReadyToConnect
PROPERTY KeepsVhost
 
 
CHECK_DEADLOCK FALSE

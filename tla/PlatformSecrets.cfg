CONSTANTS
    Environments = {"prod", "dev"}
    Full = {"prod"}
    TroubleWhile = {"Ready"}
    Edited = {"role", "mock", "admin", "valid", "dispatch", "redbeat", "auto", "debug"}
    Rotated = {"input", "postgres"}
    Lost = {"input", "key", "app"}
    MaxTries = 2
    MaxDisturbances = 1
SPECIFICATION FairSpec
INVARIANT TypeOK
PROPERTY KeyKept
 
CHECK_DEADLOCK FALSE

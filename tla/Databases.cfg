CONSTANTS
    Configs <- Three
    TroubleWhile = {"Ready"}
    MaxTries = 1
    MaxDisturbances = 1
SPECIFICATION FairSpec
INVARIANT TypeOK
INVARIANT ReadyMeansUsable
 
CHECK_DEADLOCK FALSE

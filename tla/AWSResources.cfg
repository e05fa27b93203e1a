CONSTANTS
    Kinds = {"IAMUser", "IAMRole", "S3Bucket", "ElasticSearch", "RDSSnapshot"}
    EnableFinalizers = TRUE
    MaxTries = 2
    MaxSpecs = 2
    MaxFailures = 1
    MaxTouches = 1
SPECIFICATION FairSpec
INVARIANT TypeOK
INVARIANT OneKey
PROPERTY KeepsAccount
PROPERTY Settles
PROPERTY DeletionCompletes
CHECK_DEADLOCK FALSE

CONSTANTS
    Kinds = {"PostgresUser", "DjangoUser", "MockCarServerTenant", "GCPServiceAccount"}
    EnableFinalizers = TRUE
    MaxTries = 2
    MaxSpecs = 2
    MaxFailures = 1
    MaxTouches = 1
SPECIFICATION FairSpec
INVARIANT TypeOK
PROPERTY KeepsTenant
PROPERTY PasswordKept
 
 
CHECK_DEADLOCK FALSE

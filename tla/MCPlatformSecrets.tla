------------------------- MODULE MCPlatformSecrets --------------------------
\* TLC instances of PlatformSecrets, for the configurations of the project.
EXTENDS PlatformSecrets
=============================================================================

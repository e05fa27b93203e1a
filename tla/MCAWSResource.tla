--------------------------- MODULE MCAWSResource ----------------------------
\* TLC instances of AWSResource, for the configurations of the project.
EXTENDS AWSResource
=============================================================================

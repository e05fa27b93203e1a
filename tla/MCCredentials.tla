-------------------------- MODULE MCCredentials --------------------------
\* TLC instances of Credentials, for the configurations of the project.
EXTENDS Credentials
=============================================================================

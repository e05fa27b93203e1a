-------------------------- MODULE MCRabbitmqBroker --------------------------
\* TLC instances of RabbitmqBroker, for the configurations of the project.
EXTENDS RabbitmqBroker
=============================================================================

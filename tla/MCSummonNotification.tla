------------------------ MODULE MCSummonNotification ------------------------
\* Instances of SummonNotification for TLC; the constants are in the cfg files.
EXTENDS SummonNotification
=============================================================================

---------------------------- MODULE MCDatabases -----------------------------
\* TLC instances of Databases, for the configurations of the project.
EXTENDS Databases

SharedNew == [mode |-> "Shared", local |-> FALSE, adopted |-> FALSE, reports |-> TRUE,
              elsewhere |-> TRUE]
OwnAdopted == [mode |-> "Exclusive", local |-> TRUE, adopted |-> TRUE, reports |-> TRUE,
               elsewhere |-> FALSE]
NoReports == [mode |-> "Exclusive", local |-> FALSE, adopted |-> FALSE, reports |-> FALSE,
              elsewhere |-> TRUE]
Three == {SharedNew, OwnAdopted, NoReports}
=============================================================================

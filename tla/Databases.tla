------------------------------ MODULE Databases ------------------------------
(***************************************************************************)
(* A DbConfig object, a PostgresDatabase object that refers to it, and the *)
(* Postgres cluster both work with.  In Shared mode the DbConfig owns the  *)
(* cluster and the periscope user (a reader for reports), and the database *)
(* copies what the DbConfig's status says; in Exclusive mode the database  *)
(* owns them.  The database then asks for its owner role, creates itself   *)
(* on the cluster, lets periscope read it, and asks for its extension:     *)
(* each step once the status stored by an earlier pass says that the one   *)
(* before is done.                                                         *)
(*                                                                         *)
(* Abstracted: the objects owned (RDSInstance or Postgresql, PostgresUser, *)
(* PostgresExtension) are what their status says, and their caches are     *)
(* current; the exporter with its Service and its ServiceMonitor is one    *)
(* object; the tables are those periscope may read and those it may not.   *)
(***************************************************************************)
EXTENDS Naturals

CONSTANTS
    Configs,         \* the configurations explored
    TroubleWhile,    \* bound: the phases of the database in which there may be trouble
    MaxTries,
    MaxDisturbances  \* bound: failing calls, restarts and trouble of the cluster

\* local: a Postgresql object in the cluster, and not RDS.  adopted: the database has
\* been there before the objects, with its owner and its tables (MigrationOverrides).
\* reports: the database has a periscope user (no NoCreatePeriscopeUser in the DbConfig).
\* elsewhere: the DbConfig is in another namespace than the database.
AllConfigs == [mode : {"Shared", "Exclusive"}, local : BOOLEAN, adopted : BOOLEAN,
               reports : BOOLEAN, elsewhere : BOOLEAN]

ASSUME DatabasesConstantsOK ==
    /\ Configs \subseteq AllConfigs /\ Configs # {}
    /\ TroubleWhile \subseteq {"", "Creating", "Ready", "Error"}
    /\ MaxTries \in Nat \ {0} /\ MaxDisturbances \in Nat

VARIABLES
    config,
    dtop, dview, dpass, dwork, \* the DbConfig object: see ComponentReconciler
    ptop, pview, ppass, pwork, \* the PostgresDatabase object
    owned,        \* the status of the objects owned
    server,       \* what is on the cluster
    copy,         \* the copy of the admin password next to the database
    refused,      \* the last pass of the database could not talk to the cluster
    disturbances

Shared == config.mode = "Shared"

\* The status a child may have, "absent" when there is no object.
Children == {"absent", "", "Ready", "Running", "Error"}
StatusOf(child) == IF child = "absent" THEN "" ELSE child
Up(cluster) == cluster \in {"Ready", "Running"}

\* A modifier of the status.  A sticky one leaves periscope alone once it is Granted.
NoPatch == [phase |-> "keep", cluster |-> "keep", periscope |-> "keep", sticky |-> FALSE,
            owner |-> "keep", database |-> "keep", extension |-> "keep"]

Or(new, old) == IF new = "keep" THEN old ELSE new

Apply(p, o) ==
    [o EXCEPT !.status =
        [phase     |-> Or(p.phase, @.phase),
         message   |-> IF p.phase = "keep" THEN @.message ELSE "",
         cluster   |-> Or(p.cluster, @.cluster),
         periscope |-> IF p.sticky /\ @.periscope = "Granted" THEN "Granted"
                       ELSE Or(p.periscope, @.periscope),
         owner     |-> Or(p.owner, @.owner),
         database  |-> Or(p.database, @.database),
         extension |-> Or(p.extension, @.extension)]]

Then(p, q) ==
    [phase     |-> Or(q.phase, p.phase),
     cluster   |-> Or(q.cluster, p.cluster),
     periscope |-> Or(q.periscope, p.periscope),
     sticky    |-> IF q.periscope = "keep" THEN p.sticky ELSE q.sticky,
     owner     |-> Or(q.owner, p.owner),
     database  |-> Or(q.database, p.database),
     extension |-> Or(q.extension, p.extension)]

Failed(o, message) == [o EXCEPT !.status.phase = "Error", !.status.message = message]

Absent == [gone |-> TRUE]

D == INSTANCE ComponentReconciler
     WITH top <- dtop, view <- dview, pass <- dpass, work <- dwork
P == INSTANCE ComponentReconciler
     WITH top <- ptop, view <- pview, pass <- ppass, work <- pwork

NewObject ==
    [status |-> [phase |-> "", message |-> "", cluster |-> "", periscope |-> "",
                 owner |-> "", database |-> "", extension |-> ""]]

dbconfigVars == <<dtop, dview, dpass>>
databaseVars == <<ptop, pview, ppass>>
vars == <<config, dtop, dview, dpass, dwork, ptop, pview, ppass, pwork,
          owned, server, copy, refused, disturbances>>

Init ==
    /\ config \in Configs
    /\ D!Start(NewObject) /\ P!Start(NewObject)
    /\ owned = [cluster |-> "absent", periscope |-> "absent", owner |-> "absent",
                extension |-> "absent", exporter |-> FALSE]
    /\ copy = "none"
    /\ server = [role |-> config.adopted, database |-> config.adopted, open |-> FALSE,
                 closed |-> config.adopted, default |-> FALSE]
    /\ refused = FALSE /\ disturbances = 0

Disturb == disturbances < MaxDisturbances /\ disturbances' = disturbances + 1

-----------------------------------------------------------------------------
(* Results of a step of a component of the database.                        *)

GoOn(stage, patch) == P!Return(stage, patch, FALSE, FALSE) /\ UNCHANGED disturbances
CallFails(patch, requeue) == Disturb /\ P!ReturnError("call", patch, requeue)

\* With a password that is valid: of a shared cluster in another namespace, its copy.
Copies == Shared /\ config.elsewhere
Reached == Up(owned.cluster) /\ (Copies => copy = "current")

\* A statement for a cluster that is down, or that does not take the password.
Down ==
    /\ ~Reached /\ refused' = TRUE
    /\ P!ReturnError("down", NoPatch, FALSE) /\ UNCHANGED disturbances

\* Which components run is settled by the status the pass began with.
Known == ppass.clean.status
OwnerKnown == Known.owner = "Ready"
DatabaseKnown == Known.database = "Ready"
Gates ==
    [owner     |-> Up(Known.cluster),
     database  |-> Up(Known.cluster) /\ OwnerKnown,
     grant     |-> DatabaseKnown /\ Known.periscope \in {"Ready", "Granted"},
     extension |-> DatabaseKnown,
     status    |-> TRUE]

Order == <<"owner", "database", "grant", "extension", "status">>
After(stages) ==
    LET open == {i \in 1 .. 5 : Order[i] \in stages /\ Gates[Order[i]]}
    IN Order[CHOOSE i \in open : \A j \in open : i <= j]

-----------------------------------------------------------------------------
(* The cluster, its exporter and its periscope user: one component, used by *)
(* both controllers.                                                        *)

Asked(child) == IF child = "absent" THEN "" ELSE child

\* The exporter is asked for once the name of the password is known: of a Postgresql
\* object always, of RDS some time before it is up.
Exported(exporter) ==
    owned.exporter \/ config.local \/ Up(owned.cluster) => exporter

\* What there is when a call of it fails: nothing new, the cluster, or the exporter too.
HalfProvisioned ==
    \/ UNCHANGED owned
    \/ owned' = [owned EXCEPT !.cluster = Asked(@)]
    \/ owned' = [owned EXCEPT !.cluster = Asked(@), !.exporter = TRUE]

Provision ==
    \E exporter \in BOOLEAN :
      /\ Exported(exporter)
      /\ owned' = [owned EXCEPT !.cluster = Asked(@), !.exporter = exporter,
                                !.periscope = IF config.reports THEN Asked(@) ELSE "absent"]

Found ==
    [NoPatch EXCEPT !.cluster = StatusOf(owned.cluster), !.sticky = TRUE,
                    !.periscope = IF config.reports THEN StatusOf(owned.periscope) ELSE "Skipped"]

-----------------------------------------------------------------------------
(* The controller of DbConfig.                                              *)

DBegin ==
    /\ D!Begin("provision")
    /\ UNCHANGED <<config, databaseVars, pwork, owned, server, copy, refused, disturbances>>

\* A shared Postgresql object is Running, and never Ready.
DReady(patch) ==
    Shared => /\ patch.cluster = "Ready"
              /\ patch.periscope \in {"Ready", "Skipped"}

DReturn(patch) ==
    D!Return("save", IF DReady(patch) THEN [patch EXCEPT !.phase = "Ready"] ELSE patch,
             FALSE, FALSE)

DComponents ==
    /\ dpass.at = "provision"
    /\ \/ /\ Shared /\ Provision
          /\ DReturn(Found) /\ UNCHANGED disturbances
       \/ /\ Shared /\ HalfProvisioned
          /\ Disturb /\ D!ReturnError("call", NoPatch, TRUE)
       \/ ~Shared /\ DReturn(NoPatch) /\ UNCHANGED <<owned, disturbances>>
    /\ UNCHANGED <<config, dtop, dview, dwork, databaseVars, pwork, server, copy, refused>>

DSave ==
    /\ D!Save(FALSE)
    /\ UNCHANGED <<config, databaseVars, pwork, owned, server, copy, refused, disturbances>>

-----------------------------------------------------------------------------
(* The controller of PostgresDatabase.                                      *)

PBegin ==
    /\ P!Begin("postgres") /\ refused' = FALSE
    /\ UNCHANGED <<config, dbconfigVars, dwork, owned, server, copy, disturbances>>

Creating(patch) == [patch EXCEPT !.phase = "Creating"]

Postgres ==
    /\ ppass.at = "postgres"
    /\ LET dbconfig == dview.obj
       IN \/ /\ Shared /\ UNCHANGED owned
             /\ GoOn("secret", [NoPatch EXCEPT !.cluster = dbconfig.status.cluster,
                                               !.periscope = dbconfig.status.periscope])
          \/ ~Shared /\ Provision /\ GoOn("secret", Found)
          \/ ~Shared /\ HalfProvisioned /\ CallFails(NoPatch, TRUE)
    /\ UNCHANGED <<server, copy, refused>>

\* The password of a cluster that has not come up may be missing, or its name may be.
Secret ==
    /\ ppass.at = "secret"
    /\ \/ /\ copy' = IF Copies THEN "current" ELSE copy
          /\ GoOn(After({"owner", "database", "grant", "extension", "status"}),
                  Creating(NoPatch))
       \/ /\ Copies /\ ~Up(ppass.obj.status.cluster) /\ UNCHANGED copy
          /\ P!ReturnError("secret", NoPatch, FALSE) /\ UNCHANGED disturbances
       \/ Copies /\ CallFails(NoPatch, FALSE) /\ UNCHANGED copy
    /\ UNCHANGED <<owned, server, refused>>

User ==
    /\ ppass.at = "owner"
    /\ LET found == Creating([NoPatch EXCEPT !.owner = StatusOf(owned.owner)])
       IN \/ /\ owned' = [owned EXCEPT !.owner = Asked(@)]
             /\ GoOn(After({"database", "grant", "extension", "status"}), found)
          \/ CallFails(found, TRUE) /\ UNCHANGED owned
    /\ UNCHANGED <<server, copy, refused>>

\* Without the role there is no database; a database that exists is left alone.
Database ==
    /\ ppass.at = "database"
    /\ \/ /\ server.role /\ Reached
          /\ server' = [server EXCEPT !.database = TRUE] /\ UNCHANGED refused
          /\ GoOn(After({"grant", "extension", "status"}),
                  Creating([NoPatch EXCEPT !.database = "Ready"]))
       \/ Down /\ UNCHANGED server
       \/ CallFails(NoPatch, FALSE) /\ UNCHANGED <<server, refused>>
    /\ UNCHANGED <<owned, copy>>

Granted == GoOn(After({"extension", "status"}), [NoPatch EXCEPT !.periscope = "Granted"])

\* Mutant: tables made from now on are forgotten.
GrantTables ==
    /\ ppass.at = "grant"
    /\ server' = IF server.open THEN server
                 ELSE [server EXCEPT !.open = server.closed, !.closed = FALSE]
    /\ Granted
    /\ UNCHANGED <<owned, copy, refused>>

\* One privilege of periscope on one table, and everything has been granted.
Grant ==
    /\ ppass.at = "grant"
    /\ \/ server.open /\ Reached /\ Granted /\ UNCHANGED <<server, refused>>
       \/ /\ ~server.open /\ Reached
          /\ server' = [server EXCEPT !.open = server.closed, !.closed = FALSE]
          /\ GoOn("default", NoPatch) /\ UNCHANGED refused
       \/ Down /\ UNCHANGED server
       \/ CallFails(NoPatch, FALSE) /\ UNCHANGED <<server, refused>>
    /\ UNCHANGED <<owned, copy>>

\* The second statement: tables made from now on.
GrantDefault ==
    /\ ppass.at = "default"
    /\ \/ /\ Reached /\ server' = [server EXCEPT !.default = TRUE]
          /\ Granted /\ UNCHANGED refused
       \/ Down /\ UNCHANGED server
       \/ CallFails(NoPatch, FALSE) /\ UNCHANGED <<server, refused>>
    /\ UNCHANGED <<owned, copy>>

Extensions ==
    /\ ppass.at = "extension"
    /\ \/ /\ owned' = [owned EXCEPT !.extension = Asked(@)]
          /\ GoOn("status", Creating([NoPatch EXCEPT !.extension = StatusOf(owned.extension)]))
       \/ CallFails(NoPatch, TRUE) /\ UNCHANGED owned
    /\ UNCHANGED <<server, copy, refused>>

\* All is done, as the pass has it now.
Status ==
    /\ ppass.at = "status"
    /\ LET status == ppass.obj.status
           done == /\ Up(status.cluster) /\ status.periscope \in {"Granted", "Skipped"}
                   /\ status.database = "Ready" /\ status.owner = "Ready"
                   /\ status.extension = "Ready"
       IN GoOn("save", IF done THEN [NoPatch EXCEPT !.phase = "Ready"] ELSE NoPatch)
    /\ UNCHANGED <<owned, server, copy, refused>>

PComponents ==
    /\ Postgres \/ Secret \/ User \/ Database \/ Grant \/ GrantDefault \/ Extensions \/ Status
    /\ UNCHANGED <<config, dbconfigVars, dwork, ptop, pview, pwork>>

PSave ==
    /\ P!Save(FALSE)
    /\ UNCHANGED <<config, dbconfigVars, dwork, owned, server, copy, refused, disturbances>>

-----------------------------------------------------------------------------
(* The world around.                                                        *)


\* A change of the DbConfig is an event of every database that refers to it.
DSync ==
    /\ D!Sync /\ P!Event
    /\ UNCHANGED <<config, databaseVars, owned, server, copy, refused, disturbances>>

PSync ==
    /\ P!Sync
    /\ UNCHANGED <<config, dbconfigVars, dwork, owned, server, copy, refused, disturbances>>

\* An event of the cluster or of the periscope user goes to the object that owns it.
OwnerEvent == IF Shared THEN D!Event /\ UNCHANGED pwork ELSE P!Event /\ UNCHANGED dwork

ClusterComesUp ==
    /\ owned.cluster = ""
    /\ owned' = [owned EXCEPT !.cluster = IF config.local THEN "Running" ELSE "Ready"]
    /\ OwnerEvent
    /\ UNCHANGED <<config, dbconfigVars, databaseVars, server, copy, refused, disturbances>>

\* The controllers of PostgresUser and PostgresExtension.
PeriscopeMade ==
    /\ owned.periscope = "" /\ Up(owned.cluster)
    /\ owned' = [owned EXCEPT !.periscope = "Ready"] /\ OwnerEvent
    /\ UNCHANGED <<config, dbconfigVars, databaseVars, server, copy, refused, disturbances>>

OwnerMade ==
    /\ owned.owner \in {"", "Error"} /\ Up(owned.cluster)
    /\ owned' = [owned EXCEPT !.owner = "Ready"]
    /\ server' = [server EXCEPT !.role = TRUE]
    /\ P!Event
    /\ UNCHANGED <<config, dbconfigVars, dwork, databaseVars, copy, refused, disturbances>>

ExtensionMade ==
    /\ owned.extension = "" /\ Up(owned.cluster) /\ server.database
    /\ owned' = [owned EXCEPT !.extension = "Ready"] /\ P!Event
    /\ UNCHANGED <<config, dbconfigVars, dwork, databaseVars, server, copy, refused, disturbances>>

\* The owner of the database makes another table: the application of a new database
\* waits for it to be Ready, that of an adopted one does not.
MakeTable ==
    /\ server.database /\ (config.adopted \/ ptop.status.phase = "Ready")
    /\ server' = IF server.default THEN [server EXCEPT !.open = TRUE]
                 ELSE [server EXCEPT !.closed = TRUE]
    /\ UNCHANGED <<config, dbconfigVars, dwork, databaseVars, pwork, owned, copy, refused,
                   disturbances>>

Crash ==
    /\ Disturb /\ D!Restart /\ P!Restart
    /\ UNCHANGED <<config, owned, server, copy, refused>>

\* Maintenance of the cluster; a PostgresUser in trouble for a while; a new admin
\* password, of which the database gets no event.
Trouble ==
    /\ Disturb /\ ptop.status.phase \in TroubleWhile
    /\ \/ /\ Up(owned.cluster) /\ owned' = [owned EXCEPT !.cluster = ""] /\ OwnerEvent
          /\ UNCHANGED copy
       \/ /\ owned.owner = "Ready" /\ owned' = [owned EXCEPT !.owner = "Error"]
          /\ P!Event /\ UNCHANGED <<dwork, copy>>
       \/ /\ copy = "current" /\ copy' = "old" /\ UNCHANGED <<owned, dwork, pwork>>
    /\ UNCHANGED <<config, dbconfigVars, databaseVars, server, refused>>

DWorker == DBegin \/ DComponents \/ DSave
PWorker == PBegin \/ PComponents \/ PSave
Makers == ClusterComesUp \/ PeriscopeMade \/ OwnerMade \/ ExtensionMade

Next ==
    \/ DWorker \/ PWorker \/ DSync \/ PSync \/ Makers
    \/ MakeTable \/ Crash \/ Trouble

Spec == Init /\ [][Next]_vars

\* Both workers, the informers, the controllers of the objects owned; no resync.
Fairness ==
    /\ WF_vars(DWorker) /\ WF_vars(PWorker) /\ WF_vars(DSync) /\ WF_vars(PSync)
    /\ WF_vars(ClusterComesUp) /\ WF_vars(PeriscopeMade) /\ WF_vars(OwnerMade)
    /\ WF_vars(ExtensionMade)

FairSpec == Spec /\ Fairness

-----------------------------------------------------------------------------
Objects ==
    [status : [phase : {"", "Creating", "Ready", "Error"}, message : {"", "call", "down", "secret"},
               cluster : {"", "Ready", "Running"},
               periscope : {"", "Ready", "Granted", "Skipped"},
               owner : {"", "Ready", "Error"}, database : {"", "Ready"},
               extension : {"", "Ready"}]]

Patches ==
    [phase : {"keep", "Creating", "Ready"}, cluster : {"keep", "", "Ready", "Running"},
     periscope : {"keep", "", "Ready", "Granted", "Skipped"}, sticky : BOOLEAN,
     owner : {"keep", "", "Ready", "Error"}, database : {"keep", "Ready"},
     extension : {"keep", "", "Ready"}]

TypeOK ==
    /\ config \in Configs
    /\ D!TypesOK(Objects, Patches, {"provision"})
    /\ P!TypesOK(Objects, Patches, {"postgres", "secret", "owner", "database", "grant", "default",
                                    "extension", "status"})
    /\ owned \in [cluster : Children, periscope : Children, owner : Children,
                  extension : Children, exporter : BOOLEAN]
    /\ copy \in {"none", "old", "current"}
    /\ server \in [role : BOOLEAN, database : BOOLEAN, open : BOOLEAN, closed : BOOLEAN,
                   default : BOOLEAN]
    /\ refused \in BOOLEAN /\ disturbances \in 0 .. MaxDisturbances

\* What nobody looks for again: a table made while periscope was let in, or tables that
\* came to be readable though the statement for later tables failed.
Unnoticed == server.open /\ (server.closed \/ ~server.default)

\* A database is called Ready only when its role, the database itself, its extension and
\* the password of its administrator are there; and what is called Granted is: every
\* table, also those to come, unless in one of the ways that go unnoticed.
ReadyMeansUsable ==
    LET status == ptop.status IN
    /\ status.phase = "Ready" =>
          /\ server.role /\ server.database /\ owned.extension = "Ready"
          /\ Copies => copy # "none"
    /\ status.periscope = "Granted" => Unnoticed \/ (server.default /\ ~server.closed)

Settled ==
    /\ ptop.status.phase = "Ready"
    /\ ptop.status.periscope \in {"Granted"} \cup (IF config.reports THEN {} ELSE {"Skipped"})
    /\ (Shared /\ config.local) \/ dtop.status.phase = "Ready"

\* However the two objects, their owned objects and the cluster take turns, and whatever
\* fails once, both become Ready in the end and stay so; unless the database last failed
\* to talk to the cluster, of whose recovery it may get no other event.
Settles == <>[]~refused => <>[]Settled
=============================================================================

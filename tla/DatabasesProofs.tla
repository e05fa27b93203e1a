--------------------------- MODULE DatabasesProofs ---------------------------
(***************************************************************************)
(* What holds of Databases for every configuration, and every number of    *)
(* failures, restarts and replays.                                         *)
(***************************************************************************)
EXTENDS Databases, TLAPS

DStages == {"provision"}
PStages == {"postgres", "secret", "owner", "database", "grant", "default", "extension",
            "status"}

DTypes == D!TypesOK(Objects, Patches, DStages)
PTypes == P!TypesOK(Objects, Patches, PStages)

\* The status of each object owned; a role that is called Ready is on the cluster.
OwnedInv ==
    /\ owned.cluster \in {"absent", "", "Ready", "Running"}
    /\ owned.periscope \in {"absent", "", "Ready"}
    /\ owned.owner \in {"absent", "", "Ready", "Error"}
    /\ owned.extension \in {"absent", "", "Ready"}
    /\ owned.owner = "Ready" => server.role

TypeInv == TypeOK /\ OwnedInv /\ D!CacheOK /\ P!CacheOK

\* What a status can speak of, as it is.  Periscope has been let in when it reads some
\* tables or will read all of them; a database that is new has a periscope that will.
World ==
    [reports   |-> config.reports,
     role      |-> server.role,
     database  |-> server.database,
     extension |-> owned.extension = "Ready",
     granted   |-> /\ server.open \/ (server.default /\ ~server.closed)
                   /\ config.adopted \/ server.default,
     usable    |-> /\ server.role /\ server.database /\ owned.extension = "Ready"
                   /\ Copies => copy # "none"
                   /\ config.adopted \/ ~config.reports \/ server.default]

\* What a status, or a modifier of it, says of periscope.
SaysPeriscope(s, reports) ==
    s.periscope \in IF reports THEN {"keep", "", "Ready", "Granted"} ELSE {"keep", "", "Skipped"}

\* A status of the database, or a modifier of it, that says nothing untrue.
Truthful(s, w) ==
    /\ SaysPeriscope(s, w.reports)
    /\ s.owner = "Ready" => w.role
    /\ s.database = "Ready" => w.database
    /\ s.extension = "Ready" => w.extension
    /\ s.periscope = "Granted" => w.granted
    /\ s.phase = "Ready" => w.usable

\* The DbConfig knows whether periscope is there, and never whether it has been let in.
Modest(s) == SaysPeriscope(s, config.reports) /\ s.periscope # "Granted"

SaysInv ==
    /\ Modest(dtop.status) /\ Modest(dview.obj.status)
    /\ dpass # D!Idle => Modest(dpass.obj.status) /\ Modest(dpass.patch)
    /\ Truthful(ptop.status, World) /\ Truthful(pview.obj.status, World)
    /\ ppass # P!Idle => /\ Truthful(ppass.obj.status, World)
                         /\ Truthful(ppass.clean.status, World)
                         /\ Truthful(ppass.patch, World)

\* The tables of a database that has been there before were closed to periscope at first;
\* a new one has none before periscope will read them all.
TablesInv ==
    IF config.adopted THEN server.open \/ server.closed
    ELSE config.reports /\ ~server.default => ~server.open /\ ~server.closed

\* Where a pass of the database is tells what it has done.
StageInv ==
    /\ ppass.at \in {"grant", "default"} => config.reports
    /\ ppass.at = "default" => server.open \/ ~server.closed
    /\ ppass.at \in PStages \ {"postgres", "secret"} => (Copies => copy # "none")

UsableInv == SaysInv /\ TablesInv /\ StageInv


Owned == [cluster : Children, periscope : Children, owner : Children, extension : Children,
          exporter : BOOLEAN]
Servers == [role : BOOLEAN, database : BOOLEAN, open : BOOLEAN, closed : BOOLEAN,
            default : BOOLEAN]
Messages == {"call", "down", "secret"}

\* What DatabasesConstantsOK says, in the forms used.
LEMMA ConstantsType ==
    /\ MaxTries \in Nat \ {0} /\ MaxDisturbances \in Nat /\ 0 \in 0 .. MaxDisturbances
    /\ config \in Configs => config \in AllConfigs
<1>1. MaxTries \in Nat \ {0} /\ MaxDisturbances \in Nat /\ Configs \subseteq AllConfigs
  BY DatabasesConstantsOK
<1>2. QED
  BY <1>1

-----------------------------------------------------------------------------
(* Objects, modifiers and what they say.                                    *)

\* Neither object is ever deleted.
LEMMA Present == Absent \notin Objects
<1>1. SUFFICES ASSUME Absent \in Objects PROVE FALSE
  OBVIOUS
<1>2. DOMAIN Absent = {"gone"}
  BY DEF Absent
<1>3. DOMAIN Absent = {"status"}
  BY <1>1 DEF Objects
<1>4. QED
  BY <1>2, <1>3

\* The status of an object.
Statuses ==
    [phase : {"", "Creating", "Ready", "Error"}, message : {"", "call", "down", "secret"},
     cluster : {"", "Ready", "Running"}, periscope : {"", "Ready", "Granted", "Skipped"},
     owner : {"", "Ready", "Error"}, database : {"", "Ready"}, extension : {"", "Ready"}]

\* The status that a modifier leaves.
LEMMA ApplyStatus ==
    ASSUME NEW p \in Patches, NEW o \in Objects
    PROVE  /\ o.status \in Statuses
           /\ Apply(p, o).status.phase = Or(p.phase, o.status.phase)
           /\ Apply(p, o).status.owner = Or(p.owner, o.status.owner)
           /\ Apply(p, o).status.database = Or(p.database, o.status.database)
           /\ Apply(p, o).status.extension = Or(p.extension, o.status.extension)
           /\ Apply(p, o).status.periscope =
                IF p.sticky /\ o.status.periscope = "Granted" THEN "Granted"
                ELSE Or(p.periscope, o.status.periscope)
           /\ Apply(p, o) \in Objects
<1> DEFINE s == o.status
           r == [phase     |-> Or(p.phase, s.phase),
                 message   |-> IF p.phase = "keep" THEN s.message ELSE "",
                 cluster   |-> Or(p.cluster, s.cluster),
                 periscope |-> IF p.sticky /\ s.periscope = "Granted" THEN "Granted"
                               ELSE Or(p.periscope, s.periscope),
                 owner     |-> Or(p.owner, s.owner),
                 database  |-> Or(p.database, s.database),
                 extension |-> Or(p.extension, s.extension)]
<1>1. o = [status |-> s] /\ s \in Statuses
  BY DEF Objects, Statuses
<1>2. Apply(p, o) = [o EXCEPT !.status = r]
  BY DEF Apply
<1>3. r \in Statuses
  <2>1. /\ r.phase \in {"", "Creating", "Ready", "Error"}
        /\ r.message \in {"", "call", "down", "secret"}
    BY <1>1 DEF Statuses, Patches, Or
  <2>2. r.cluster \in {"", "Ready", "Running"}
    BY <1>1 DEF Statuses, Patches, Or
  <2>3. r.periscope \in {"", "Ready", "Granted", "Skipped"}
    BY <1>1 DEF Statuses, Patches, Or
  <2>4. r.owner \in {"", "Ready", "Error"}
    BY <1>1 DEF Statuses, Patches, Or
  <2>5. r.database \in {"", "Ready"}
    BY <1>1 DEF Statuses, Patches, Or
  <2>6. r.extension \in {"", "Ready"}
    BY <1>1 DEF Statuses, Patches, Or
  <2>7. QED
    BY <2>1, <2>2, <2>3, <2>4, <2>5, <2>6 DEF Statuses
<1> HIDE DEF s
<1>4. Apply(p, o).status = r /\ Apply(p, o) = [status |-> r]
  <2> HIDE DEF r
  <2>1. QED
    BY <1>1, <1>2
<1>5. Apply(p, o) \in Objects
  <2> HIDE DEF r
  <2>1. QED
    <3>1. Objects = [status : Statuses]
      BY DEF Objects, Statuses
    <3>2. QED
      BY <1>3, <1>4, <3>1
<1>6. /\ r.phase = Or(p.phase, s.phase) /\ r.owner = Or(p.owner, s.owner)
      /\ r.database = Or(p.database, s.database)
      /\ r.extension = Or(p.extension, s.extension)
      /\ r.periscope = IF p.sticky /\ s.periscope = "Granted" THEN "Granted"
                       ELSE Or(p.periscope, s.periscope)
  OBVIOUS
<1> HIDE DEF r
<1>7. QED
  BY <1>1, <1>4, <1>5, <1>6 DEF s

\* So does an error.
LEMMA FailedType ==
    ASSUME NEW message \in Messages, NEW o \in Objects PROVE Failed(o, message) \in Objects
BY DEF Failed, Objects, Messages

\* What one modifier after another does.
LEMMA ThenType ==
    ASSUME NEW p \in Patches, NEW q \in Patches
    PROVE  /\ Then(p, q) \in Patches
           /\ Then(p, q).phase = Or(q.phase, p.phase)
           /\ Then(p, q).periscope = Or(q.periscope, p.periscope)
           /\ Then(p, q).owner = Or(q.owner, p.owner)
           /\ Then(p, q).database = Or(q.database, p.database)
           /\ Then(p, q).extension = Or(q.extension, p.extension)
<1> DEFINE r == Then(p, q)
<1>1. r.phase \in {"keep", "Creating", "Ready"} /\ r.phase = Or(q.phase, p.phase)
  BY DEF Then, Patches, Or
<1>2. r.cluster \in {"keep", "", "Ready", "Running"}
  BY DEF Then, Patches, Or
<1>3. /\ r.periscope \in {"keep", "", "Ready", "Granted", "Skipped"} /\ r.sticky \in BOOLEAN
      /\ r.periscope = Or(q.periscope, p.periscope)
  BY DEF Then, Patches, Or
<1>4. r.owner \in {"keep", "", "Ready", "Error"} /\ r.owner = Or(q.owner, p.owner)
  BY DEF Then, Patches, Or
<1>5. r.database \in {"keep", "Ready"} /\ r.database = Or(q.database, p.database)
  BY DEF Then, Patches, Or
<1>6. r.extension \in {"keep", "", "Ready"} /\ r.extension = Or(q.extension, p.extension)
  BY DEF Then, Patches, Or
<1>7. r = [phase |-> r.phase, cluster |-> r.cluster, periscope |-> r.periscope,
           sticky |-> r.sticky, owner |-> r.owner, database |-> r.database,
           extension |-> r.extension]
  BY DEF Then
<1> HIDE DEF r
<1>8. r \in Patches
  BY <1>1, <1>2, <1>3, <1>4, <1>5, <1>6, <1>7 DEF Patches
<1>9. QED
  BY <1>1, <1>3, <1>4, <1>5, <1>6, <1>8 DEF r

\* The modifiers are what both passes ask for.
LEMMA Modifiers ==
    D!ModifiersOK(Objects, Patches, Messages) /\ P!ModifiersOK(Objects, Patches, Messages)
<1>1. MaxTries \in Nat \ {0} /\ NoPatch \in Patches
  BY ConstantsType DEF NoPatch, Patches
<1>2. \A o, s \in Objects : [o EXCEPT !.status = s.status] \in Objects
  BY DEF Objects
<1>3. QED
  BY <1>1, <1>2, Present, ApplyStatus, FailedType, ThenType
     DEF D!ModifiersOK, P!ModifiersOK

\* A world in which whatever was true of the database still is.
Grows(w, x) ==
    /\ x.reports = w.reports
    /\ w.role => x.role
    /\ w.database => x.database
    /\ w.extension => x.extension
    /\ w.granted => x.granted
    /\ w.usable => x.usable

\* What was true to say is true then.
LEMMA StaysTruthful ==
    ASSUME NEW s, NEW w, NEW x, Truthful(s, w), Grows(w, x) PROVE Truthful(s, x)
BY DEF Truthful, Grows

\* Nothing untrue comes of a modifier that says nothing untrue.
LEMMA ApplyTruthful ==
    ASSUME NEW p \in Patches, NEW o \in Objects, NEW w, Truthful(p, w), Truthful(o.status, w)
    PROVE  Truthful(Apply(p, o).status, w)
BY ApplyStatus DEF Or, Truthful, SaysPeriscope

\* Nor of one after another.
LEMMA ThenTruthful ==
    ASSUME NEW p \in Patches, NEW q \in Patches, NEW w, Truthful(p, w), Truthful(q, w)
    PROVE  Truthful(Then(p, q), w)
BY ThenType DEF Or, Truthful, SaysPeriscope

\* An error says nothing of what there is.
LEMMA FailedTruthful ==
    ASSUME NEW message, NEW o \in Objects, NEW w, Truthful(o.status, w)
    PROVE  Truthful(Failed(o, message).status, w)
BY DEF Failed, Objects, Truthful, SaysPeriscope

\* The same of the DbConfig.
LEMMA StaysModest ==
    ASSUME NEW p \in Patches, NEW o \in Objects, Modest(o.status)
    PROVE  /\ Modest(p) => Modest(Apply(p, o).status)
           /\ \A message : Modest(Failed(o, message).status)
           /\ \A q \in Patches : Modest(p) /\ Modest(q) => Modest(Then(p, q))
<1>1. Modest(p) => Modest(Apply(p, o).status)
  BY ApplyStatus DEF Or, Modest, SaysPeriscope
<1>2. \A message : Modest(Failed(o, message).status)
  BY DEF Failed, Objects, Modest, SaysPeriscope
<1>3. \A q \in Patches : Modest(p) /\ Modest(q) => Modest(Then(p, q))
  BY ThenType DEF Or, Modest, SaysPeriscope
<1>4. QED
  BY <1>1, <1>2, <1>3

\* The step that comes next is one of those named, and is due.
LEMMA AfterType ==
    ASSUME NEW stages \in SUBSET {"owner", "database", "grant", "extension", "status"},
           "status" \in stages
    PROVE  After(stages) \in stages /\ Gates[After(stages)]
<1> DEFINE open == {i \in 1 .. 5 : Order[i] \in stages /\ Gates[Order[i]]}
<1>1. 5 \in open
  BY DEF Order, Gates
<1>2. open \subseteq 1 .. 5
  OBVIOUS
<1> HIDE DEF open
<1>3. \E i \in open : \A j \in open : i <= j
  BY <1>1, <1>2
<1>4. (CHOOSE i \in open : \A j \in open : i <= j) \in open
  BY <1>3
<1>5. After(stages) = Order[CHOOSE i \in open : \A j \in open : i <= j]
  BY DEF After, open
<1>6. QED
  BY <1>4, <1>5 DEF open

-----------------------------------------------------------------------------
(* Type correctness.                                                        *)

\* The parts of TypeInv, one by one.
LEMMA TypeParts ==
    TypeInv <=>
    /\ config \in Configs /\ DTypes /\ PTypes /\ D!CacheOK /\ P!CacheOK
    /\ owned \in Owned /\ OwnedInv /\ server \in Servers /\ copy \in {"none", "old", "current"}
    /\ refused \in BOOLEAN /\ disturbances \in 0 .. MaxDisturbances
BY DEF TypeInv, TypeOK, DTypes, PTypes, DStages, PStages, Owned, Servers

\* The initial states are well typed.
LEMMA InitType == Init => TypeInv
<1> SUFFICES ASSUME Init PROVE TypeInv
  OBVIOUS
<1>1. NewObject \in Objects
  BY DEF NewObject, Objects
<1>2. DTypes /\ D!CacheOK
  BY <1>1 DEF Init, D!Start, DTypes, D!TypesOK, D!Passes, D!CacheOK
<1>3. PTypes /\ P!CacheOK
  BY <1>1 DEF Init, P!Start, PTypes, P!TypesOK, P!Passes, P!CacheOK
<1>4. config \in Configs /\ config.adopted \in BOOLEAN
  BY ConstantsType DEF Init, AllConfigs
<1>5. owned \in Owned /\ OwnedInv /\ server \in Servers
  BY <1>4 DEF Init, Owned, OwnedInv, Servers, Children
<1>6. QED
  BY <1>2, <1>3, <1>4, <1>5, ConstantsType, TypeParts DEF Init

\* What a component of the database finds when it runs.
LEMMA Running ==
    ASSUME TypeInv, ppass.at \in PStages
    PROVE  /\ ppass # P!Idle /\ ppass \in P!Passes(Objects, Patches, PStages)
           /\ ppass.obj \in Objects /\ ppass.clean \in Objects /\ ppass.patch \in Patches
<1>1. ppass # P!Idle /\ ppass \in P!Passes(Objects, Patches, PStages)
  BY TypeParts DEF PTypes, P!TypesOK, P!Idle, PStages
<1>2. QED
  BY <1>1 DEF P!Passes

\* The pass of the database goes on to a stage, and says what it said, and a modifier more.
Moved(stage, patch) ==
    /\ ppass' \in P!Passes(Objects, Patches, PStages)
    /\ ppass' # P!Idle /\ ppass'.at = stage /\ ppass'.clean = ppass.clean
    /\ \A w : Truthful(patch, w) /\ Truthful(ppass.obj.status, w) /\ Truthful(ppass.patch, w)
                => Truthful(ppass'.obj.status, w) /\ Truthful(ppass'.patch, w)

\* Whatever a component returns, the pass moves.
LEMMA ReturnsMove ==
    ASSUME TypeInv, ppass.at \in PStages, NEW patch \in Patches
    PROVE  /\ \A stage \in PStages \cup {"save"} :
                GoOn(stage, patch) => Moved(stage, patch) /\ UNCHANGED disturbances
           /\ \A message \in Messages, requeue \in BOOLEAN :
                P!ReturnError(message, patch, requeue) => Moved("save", patch)
           /\ \A requeue \in BOOLEAN :
                CallFails(patch, requeue) =>
                    Moved("save", patch) /\ disturbances' \in 0 .. MaxDisturbances
<1>1. /\ ppass \in P!Passes(Objects, Patches, PStages) /\ ppass # P!Idle
      /\ ppass.obj \in Objects /\ ppass.patch \in Patches /\ "call" \in Messages
      /\ disturbances \in 0 .. MaxDisturbances /\ MaxDisturbances \in Nat
  BY Running, ConstantsType, TypeParts DEF Messages
<1>2. ASSUME NEW w, Truthful(patch, w), Truthful(ppass.obj.status, w), Truthful(ppass.patch, w)
      PROVE  /\ Truthful(Apply(patch, ppass.obj).status, w)
             /\ Truthful(Then(ppass.patch, patch), w)
             /\ \A m \in Messages : Truthful(Failed(Apply(patch, ppass.obj), m).status, w)
  BY <1>1, <1>2, ApplyTruthful, ThenTruthful, FailedTruthful, ApplyStatus
<1>3. ASSUME NEW stage \in PStages \cup {"save"}, GoOn(stage, patch)
      PROVE  Moved(stage, patch) /\ UNCHANGED disturbances
  <2>1. /\ ppass'.at = stage /\ ppass'.clean = ppass.clean
        /\ ppass'.obj = Apply(patch, ppass.obj) /\ ppass'.patch = Then(ppass.patch, patch)
    BY <1>1, <1>3 DEF GoOn, P!Return, P!Passes
  <2>2. ppass' # P!Idle
    BY <2>1 DEF P!Idle, PStages
  <2>3. ppass' \in P!Passes(Objects, Patches, PStages)
    BY <1>1, <1>3, Modifiers, P!ReturnTypes DEF GoOn
  <2>4. QED
    BY <1>2, <1>3, <2>1, <2>2, <2>3 DEF Moved, GoOn
<1>4. ASSUME NEW message \in Messages, NEW requeue \in BOOLEAN,
             P!ReturnError(message, patch, requeue)
      PROVE  Moved("save", patch)
  <2>1. /\ ppass'.at = "save" /\ ppass'.clean = ppass.clean
        /\ ppass'.obj = Failed(Apply(patch, ppass.obj), message)
        /\ ppass'.patch = Then(ppass.patch, patch)
    BY <1>1, <1>4 DEF P!ReturnError, P!Passes
  <2>2. ppass' # P!Idle
    BY <2>1 DEF P!Idle
  <2>3. ppass' \in P!Passes(Objects, Patches, PStages)
    BY <1>1, <1>4, Modifiers, P!ErrorTypes
  <2>4. QED
    BY <1>2, <2>1, <2>2, <2>3 DEF Moved
<1>5. ASSUME NEW requeue \in BOOLEAN, CallFails(patch, requeue)
      PROVE  Moved("save", patch) /\ disturbances' \in 0 .. MaxDisturbances
  <2>1. P!ReturnError("call", patch, requeue) /\ disturbances' = disturbances + 1
        /\ disturbances < MaxDisturbances
    BY <1>5 DEF CallFails, Disturb
  <2>2. QED
    BY <1>1, <1>4, <2>1
<1>6. QED
  BY <1>3, <1>4, <1>5

\* The modifiers of the components.
LEMMA PatchTypes ==
    ASSUME TypeInv
    PROVE  /\ NoPatch \in Patches /\ Found \in Patches
           /\ \A p \in Patches : Creating(p) \in Patches /\ [p EXCEPT !.phase = "Ready"] \in Patches
           /\ [NoPatch EXCEPT !.owner = StatusOf(owned.owner)] \in Patches
           /\ [NoPatch EXCEPT !.extension = StatusOf(owned.extension)] \in Patches
           /\ [NoPatch EXCEPT !.database = "Ready"] \in Patches
           /\ [NoPatch EXCEPT !.periscope = "Granted"] \in Patches
           /\ \A o \in Objects : [NoPatch EXCEPT !.cluster = o.status.cluster,
                                                 !.periscope = o.status.periscope] \in Patches
<1>1. NoPatch \in Patches
  BY DEF NoPatch, Patches
<1>2. OwnedInv
  BY TypeParts
<1>3. Found \in Patches
  BY <1>2 DEF Found, NoPatch, Patches, StatusOf, OwnedInv
<1>4. \A p \in Patches : Creating(p) \in Patches /\ [p EXCEPT !.phase = "Ready"] \in Patches
  BY DEF Creating, Patches
<1>5. /\ [NoPatch EXCEPT !.owner = StatusOf(owned.owner)] \in Patches
      /\ [NoPatch EXCEPT !.extension = StatusOf(owned.extension)] \in Patches
  BY <1>2 DEF NoPatch, Patches, StatusOf, OwnedInv
<1>6. /\ [NoPatch EXCEPT !.database = "Ready"] \in Patches
      /\ [NoPatch EXCEPT !.periscope = "Granted"] \in Patches
  BY DEF NoPatch, Patches
<1>7. \A o \in Objects : [NoPatch EXCEPT !.cluster = o.status.cluster,
                                         !.periscope = o.status.periscope] \in Patches
  BY DEF NoPatch, Patches, Objects
<1>8. QED
  BY <1>1, <1>3, <1>4, <1>5, <1>6, <1>7

\* What is provisioned, in part or whole, is asked for, and nothing else changes.
LEMMA ProvisionType ==
    ASSUME TypeInv, Provision \/ HalfProvisioned
    PROVE  /\ owned' \in Owned /\ owned'.owner = owned.owner
           /\ owned'.extension = owned.extension
           /\ owned'.cluster \in {"absent", "", "Ready", "Running"}
           /\ owned'.periscope \in {"absent", "", "Ready"}
<1>1. owned \in Owned /\ OwnedInv
  BY TypeParts
<1>2. CASE Provision
  BY <1>1, <1>2 DEF Provision, Owned, OwnedInv, Asked, Children
<1>3. CASE HalfProvisioned
  BY <1>1, <1>3 DEF HalfProvisioned, Owned, OwnedInv, Asked, Children
<1>4. QED
  BY <1>2, <1>3

\* What the components of the database leave in the world is well typed.
LEMMA ComponentsWorld ==
    ASSUME TypeInv, PComponents
    PROVE  /\ owned' \in Owned /\ OwnedInv' /\ server' \in Servers
           /\ copy' \in {"none", "old", "current"} /\ refused' \in BOOLEAN
<1>1. /\ owned \in Owned /\ OwnedInv /\ server \in Servers
      /\ copy \in {"none", "old", "current"} /\ refused \in BOOLEAN
  BY TypeParts
<1>2. CASE Postgres
  <2>1. UNCHANGED <<server, copy, refused>>
    BY <1>2 DEF Postgres
  <2>2. CASE UNCHANGED owned
    BY <1>1, <2>1, <2>2 DEF OwnedInv
  <2>3. CASE Provision \/ HalfProvisioned
    BY <1>1, <2>1, <2>3, ProvisionType DEF OwnedInv
  <2>4. QED
    BY <1>2, <2>2, <2>3 DEF Postgres
<1>3. CASE Secret
  <2>1. UNCHANGED <<owned, server, refused>> /\ copy' \in {copy, "current"}
    BY <1>3 DEF Secret
  <2>2. QED
    BY <1>1, <2>1 DEF OwnedInv
<1>4. CASE User \/ Extensions
  <2>1. UNCHANGED <<server, copy, refused>>
    BY <1>4 DEF User, Extensions
  <2>2. \/ owned' = owned
        \/ owned' = [owned EXCEPT !.owner = Asked(@)]
        \/ owned' = [owned EXCEPT !.extension = Asked(@)]
    BY <1>4 DEF User, Extensions
  <2>3. owned' \in Owned /\ OwnedInv'
    BY <1>1, <2>1, <2>2 DEF Owned, OwnedInv, Asked, Children
  <2>4. QED
    BY <1>1, <2>1, <2>3
<1>5. CASE Database \/ Grant \/ GrantDefault
  <2>1. UNCHANGED <<owned, copy>> /\ refused' \in {refused, TRUE}
    BY <1>5 DEF Database, Grant, GrantDefault, Down
  <2>2. \/ server' = server
        \/ server' = [server EXCEPT !.database = TRUE]
        \/ server' = [server EXCEPT !.open = server.closed, !.closed = FALSE]
        \/ server' = [server EXCEPT !.default = TRUE]
    BY <1>5 DEF Database, Grant, GrantDefault
  <2>3. server' \in Servers /\ server'.role = server.role
    BY <1>1, <2>2 DEF Servers
  <2>4. QED
    BY <1>1, <2>1, <2>3 DEF OwnedInv
<1>6. CASE Status
  BY <1>1, <1>6 DEF Status, OwnedInv
<1>7. QED
  BY <1>2, <1>3, <1>4, <1>5, <1>6 DEF PComponents

\* The stages a component can lead to.
LEMMA NextStage ==
    /\ After({"owner", "database", "grant", "extension", "status"}) \in PStages
    /\ After({"database", "grant", "extension", "status"}) \in PStages
    /\ After({"grant", "extension", "status"}) \in PStages
    /\ After({"extension", "status"}) \in PStages
<1>1. After({"owner", "database", "grant", "extension", "status"})
        \in {"owner", "database", "grant", "extension", "status"}
  BY AfterType
<1>2. After({"database", "grant", "extension", "status"})
        \in {"database", "grant", "extension", "status"}
  BY AfterType
<1>3. After({"grant", "extension", "status"}) \in {"grant", "extension", "status"}
  BY AfterType
<1>4. After({"extension", "status"}) \in {"extension", "status"}
  BY AfterType
<1>5. QED
  BY <1>1, <1>2, <1>3, <1>4 DEF PStages

\* A component goes on to a stage, or is the last of the pass.
Returned ==
    \E patch \in Patches :
        \/ \E stage \in PStages \cup {"save"} : GoOn(stage, patch)
        \/ \E message \in Messages, requeue \in BOOLEAN :
              P!ReturnError(message, patch, requeue) /\ UNCHANGED disturbances
        \/ \E requeue \in BOOLEAN : CallFails(patch, requeue)

\* Every component of the database does.
LEMMA ComponentsReturn ==
    ASSUME TypeInv, PComponents PROVE ppass.at \in PStages /\ Returned
<1>1. ppass.at \in PStages
  BY DEF PComponents, Postgres, Secret, User, Database, Grant, GrantDefault, Extensions,
         Status, PStages
<1>2. \A patch \in Patches, stage \in PStages \cup {"save"} : GoOn(stage, patch) => Returned
  BY DEF Returned
<1>3. \A patch \in Patches, requeue \in BOOLEAN : CallFails(patch, requeue) => Returned
  BY DEF Returned
<1>4. \A message \in Messages, requeue \in BOOLEAN :
        P!ReturnError(message, NoPatch, requeue) /\ UNCHANGED disturbances => Returned
  BY PatchTypes DEF Returned
<1>5. Down => Returned
  BY <1>4 DEF Down, Messages
<1>6. {"secret", "default", "status"} \subseteq PStages
  BY DEF PStages
<1> SUFFICES Returned
  BY <1>1
<1>7. CASE Postgres
  <2>1. CASE /\ Shared
             /\ GoOn("secret", [NoPatch EXCEPT !.cluster = dview.obj.status.cluster,
                                               !.periscope = dview.obj.status.periscope])
    <3>1. dview.obj \in Objects
      BY TypeParts DEF DTypes, D!TypesOK
    <3>2. QED
      BY <1>2, <1>6, <2>1, <3>1, PatchTypes
  <2>2. CASE GoOn("secret", Found) \/ CallFails(NoPatch, TRUE)
    BY <1>2, <1>3, <1>6, <2>2, PatchTypes
  <2>3. QED
    BY <1>7, <2>1, <2>2 DEF Postgres
<1>8. CASE Secret
  <2>1. CASE GoOn(After({"owner", "database", "grant", "extension", "status"}),
                  Creating(NoPatch))
    BY <1>2, <2>1, NextStage, PatchTypes
  <2>2. CASE P!ReturnError("secret", NoPatch, FALSE) /\ UNCHANGED disturbances
    BY <1>4, <2>2 DEF Messages
  <2>3. CASE CallFails(NoPatch, FALSE)
    BY <1>3, <2>3, PatchTypes
  <2>4. QED
    BY <1>8, <2>1, <2>2, <2>3 DEF Secret
<1>9. CASE User
  <2>1. Creating([NoPatch EXCEPT !.owner = StatusOf(owned.owner)]) \in Patches
    BY PatchTypes
  <2>2. QED
    BY <1>2, <1>3, <1>9, <2>1, NextStage DEF User
<1>10. CASE Database
  <2>1. Creating([NoPatch EXCEPT !.database = "Ready"]) \in Patches /\ NoPatch \in Patches
    BY PatchTypes
  <2>2. QED
    BY <1>2, <1>3, <1>5, <1>10, <2>1, NextStage DEF Database
<1>11. CASE Grant \/ GrantDefault
  <2>1. [NoPatch EXCEPT !.periscope = "Granted"] \in Patches /\ NoPatch \in Patches
    BY PatchTypes
  <2>2. Granted => Returned
    BY <1>2, <2>1, NextStage DEF Granted
  <2>3. QED
    BY <1>2, <1>3, <1>5, <1>6, <1>11, <2>1, <2>2 DEF Grant, GrantDefault
<1>12. CASE Extensions
  <2>1. /\ Creating([NoPatch EXCEPT !.extension = StatusOf(owned.extension)]) \in Patches
        /\ NoPatch \in Patches
    BY PatchTypes
  <2>2. QED
    BY <1>2, <1>3, <1>6, <1>12, <2>1 DEF Extensions
<1>13. CASE Status
  <2>1. PICK patch \in {[NoPatch EXCEPT !.phase = "Ready"], NoPatch} : GoOn("save", patch)
    BY <1>13 DEF Status
  <2>2. patch \in Patches
    BY PatchTypes
  <2>3. QED
    BY <1>2, <2>1, <2>2
<1>14. QED
  BY <1>7, <1>8, <1>9, <1>10, <1>11, <1>12, <1>13 DEF PComponents

\* The components of the database keep the types.
LEMMA PComponentsType == TypeInv /\ PComponents => TypeInv'
<1> SUFFICES ASSUME TypeInv, PComponents PROVE TypeInv'
  OBVIOUS
<1>1. UNCHANGED <<config, dtop, dview, dpass, dwork, ptop, pview, pwork>>
  BY DEF PComponents, dbconfigVars
<1>2. /\ config \in Configs /\ DTypes /\ D!CacheOK /\ PTypes /\ P!CacheOK
      /\ disturbances \in 0 .. MaxDisturbances
  BY TypeParts
<1>3. /\ ppass' \in P!Passes(Objects, Patches, PStages)
      /\ disturbances' \in 0 .. MaxDisturbances
  BY <1>2, ComponentsReturn, ReturnsMove DEF Returned, Moved
<1>4. PTypes' /\ P!CacheOK' /\ DTypes' /\ D!CacheOK'
  BY <1>1, <1>2, <1>3 DEF PTypes, P!TypesOK, P!CacheOK, DTypes, D!TypesOK, D!CacheOK
<1>5. /\ config' \in Configs /\ owned' \in Owned /\ OwnedInv' /\ server' \in Servers
      /\ copy' \in {"none", "old", "current"} /\ refused' \in BOOLEAN
  BY <1>1, <1>2, ComponentsWorld
<1>6. QED
  BY <1>3, <1>4, <1>5
     DEF TypeInv, TypeOK, DTypes, PTypes, DStages, PStages, Owned, Servers

\* The component of the DbConfig goes on to write the status, with what it found.
LEMMA DComponentDoes ==
    ASSUME TypeInv, DComponents
    PROVE  /\ dpass # D!Idle /\ dpass.obj \in Objects /\ dpass.patch \in Patches
           /\ dpass' \in D!Passes(Objects, Patches, DStages)
           /\ disturbances' \in 0 .. MaxDisturbances
           /\ \E patch \in Patches :
                /\ patch.periscope \in {NoPatch.periscope, Found.periscope}
                /\ dpass'.patch = Then(dpass.patch, patch)
                /\ \/ dpass'.obj = Apply(patch, dpass.obj)
                   \/ \E m \in Messages : dpass'.obj = Failed(Apply(patch, dpass.obj), m)
<1>1. /\ dpass \in D!Passes(Objects, Patches, DStages) /\ dpass # D!Idle
      /\ disturbances \in 0 .. MaxDisturbances
  BY TypeParts DEF DTypes, D!TypesOK, DComponents, D!Idle
<1>2. dpass.obj \in Objects /\ dpass.patch \in Patches
  BY <1>1 DEF D!Passes
<1>3. ASSUME NEW found \in {NoPatch, Found}, DReturn(found), disturbances' = disturbances
      PROVE  /\ dpass' \in D!Passes(Objects, Patches, DStages)
             /\ \E patch \in Patches :
                  /\ patch.periscope \in {NoPatch.periscope, Found.periscope}
                  /\ dpass'.patch = Then(dpass.patch, patch)
                  /\ dpass'.obj = Apply(patch, dpass.obj)
  <2>1. PICK patch \in {found, [found EXCEPT !.phase = "Ready"]} :
          D!Return("save", patch, FALSE, FALSE)
    BY <1>3 DEF DReturn
  <2>2. patch \in Patches /\ found \in Patches /\ patch.periscope = found.periscope
    <3>1. NoPatch \in Patches /\ Found \in Patches
      BY PatchTypes
    <3>2. \A p \in Patches : [p EXCEPT !.phase = "Ready"].periscope = p.periscope
      BY DEF Patches
    <3>3. QED
      BY <3>1, <3>2, PatchTypes
  <2>3. dpass' \in D!Passes(Objects, Patches, DStages)
    BY <1>1, <2>1, <2>2, Modifiers, D!ReturnTypes
  <2>4. dpass'.patch = Then(dpass.patch, patch) /\ dpass'.obj = Apply(patch, dpass.obj)
    BY <1>1, <2>1 DEF D!Return, D!Passes
  <2>5. QED
    BY <2>2, <2>3, <2>4
<1>4. CASE /\ disturbances < MaxDisturbances /\ disturbances' = disturbances + 1
           /\ D!ReturnError("call", NoPatch, TRUE)
  <2>1. NoPatch \in Patches /\ "call" \in Messages /\ MaxDisturbances \in Nat
    BY PatchTypes, ConstantsType DEF Messages
  <2>2. dpass' \in D!Passes(Objects, Patches, DStages)
    BY <1>1, <1>4, <2>1, Modifiers, D!ErrorTypes
  <2>3. /\ dpass'.patch = Then(dpass.patch, NoPatch)
        /\ dpass'.obj = Failed(Apply(NoPatch, dpass.obj), "call")
    BY <1>1, <1>4 DEF D!ReturnError, D!Passes
  <2>4. disturbances' \in 0 .. MaxDisturbances
    BY <1>1, <1>4, <2>1
  <2>5. QED
    BY <1>1, <1>2, <2>1, <2>2, <2>3, <2>4
<1>5. CASE DReturn(Found) /\ UNCHANGED disturbances
  BY <1>1, <1>2, <1>3, <1>5
<1>6. CASE DReturn(NoPatch) /\ UNCHANGED disturbances
  BY <1>1, <1>2, <1>3, <1>6
<1>7. QED
  BY <1>4, <1>5, <1>6 DEF DComponents, Disturb

\* What it leaves in the world.
LEMMA DComponentWorld ==
    ASSUME TypeInv, DComponents
    PROVE  /\ UNCHANGED <<config, dtop, dview, dwork, ptop, pview, ppass, pwork>>
           /\ UNCHANGED <<server, copy, refused>>
           /\ owned' \in Owned /\ OwnedInv' /\ owned'.extension = owned.extension
<1>1. /\ UNCHANGED <<config, dtop, dview, dwork, ptop, pview, ppass, pwork>>
      /\ UNCHANGED <<server, copy, refused>>
  BY DEF DComponents, databaseVars
<1>2. owned \in Owned /\ OwnedInv
  BY TypeParts
<1>3. owned' = owned \/ Provision \/ HalfProvisioned
  BY DEF DComponents
<1>4. owned' \in Owned /\ OwnedInv' /\ owned'.extension = owned.extension
  BY <1>1, <1>2, <1>3, ProvisionType DEF OwnedInv
<1>5. QED
  BY <1>1, <1>4

\* The component of the DbConfig keeps the types.
LEMMA DComponentsType == TypeInv /\ DComponents => TypeInv'
<1> SUFFICES ASSUME TypeInv, DComponents PROVE TypeInv'
  OBVIOUS
<1>1. /\ config \in Configs /\ DTypes /\ D!CacheOK /\ PTypes /\ P!CacheOK
      /\ copy \in {"none", "old", "current"} /\ server \in Servers /\ refused \in BOOLEAN
  BY TypeParts
<1>2. PTypes' /\ P!CacheOK' /\ DTypes' /\ D!CacheOK'
  BY <1>1, DComponentDoes, DComponentWorld
     DEF PTypes, P!TypesOK, P!CacheOK, DTypes, D!TypesOK, D!CacheOK
<1>3. /\ config' \in Configs /\ owned' \in Owned /\ OwnedInv' /\ server' \in Servers
      /\ copy' \in {"none", "old", "current"} /\ refused' \in BOOLEAN
      /\ disturbances' \in 0 .. MaxDisturbances
  BY <1>1, DComponentDoes, DComponentWorld
<1>4. QED
  BY <1>2, <1>3
     DEF TypeInv, TypeOK, DTypes, PTypes, DStages, PStages, Owned, Servers

\* A pass that begins or writes the status, and an informer that catches up, keep the types.
LEMMA PassType == TypeInv /\ (DBegin \/ DSave \/ PBegin \/ PSave \/ DSync \/ PSync) => TypeInv'
<1> SUFFICES ASSUME TypeInv, DBegin \/ DSave \/ PBegin \/ PSave \/ DSync \/ PSync
             PROVE  TypeInv'
  OBVIOUS
<1>1. /\ config \in Configs /\ DTypes /\ D!CacheOK /\ PTypes /\ P!CacheOK
      /\ owned \in Owned /\ OwnedInv /\ server \in Servers
      /\ copy \in {"none", "old", "current"} /\ refused \in BOOLEAN
      /\ disturbances \in 0 .. MaxDisturbances
  BY TypeParts
<1>2. UNCHANGED <<config, owned, server, copy, disturbances>> /\ refused' \in {refused, FALSE}
  BY DEF DBegin, DSave, PBegin, PSave, DSync, PSync
<1>3. OwnedInv'
  BY <1>1, <1>2 DEF OwnedInv
<1>4. ASSUME DTypes', D!CacheOK', PTypes', P!CacheOK' PROVE TypeInv'
  BY <1>1, <1>2, <1>3, <1>4
     DEF TypeInv, TypeOK, DTypes, PTypes, DStages, PStages, Owned, Servers
<1>5. UNCHANGED <<dtop, dview, dpass, dwork>> => DTypes' /\ D!CacheOK'
  BY <1>1 DEF DTypes, D!TypesOK, D!CacheOK
<1>6. UNCHANGED <<ptop, pview, ppass, pwork>> => PTypes' /\ P!CacheOK'
  BY <1>1 DEF PTypes, P!TypesOK, P!CacheOK
<1>7. CASE DBegin
  <2>1. D!Begin("provision") /\ "provision" \in DStages \cup {"save"}
    BY <1>7 DEF DBegin, DStages
  <2>2. DTypes'
    BY <1>1, <2>1, Modifiers, D!BeginTypes DEF DTypes
  <2>3. D!CacheOK'
    BY <1>1, <2>1 DEF D!Begin, D!CacheOK
  <2>4. QED
    BY <1>4, <1>6, <1>7, <2>2, <2>3 DEF DBegin, databaseVars
<1>8. CASE PBegin
  <2>1. P!Begin("postgres") /\ "postgres" \in PStages \cup {"save"}
    BY <1>8 DEF PBegin, PStages
  <2>2. PTypes'
    BY <1>1, <2>1, Modifiers, P!BeginTypes DEF PTypes
  <2>3. P!CacheOK'
    BY <1>1, <2>1 DEF P!Begin, P!CacheOK
  <2>4. QED
    BY <1>4, <1>5, <1>8, <2>2, <2>3 DEF PBegin, dbconfigVars
<1>9. CASE DSave
  <2>1. D!Save(FALSE) /\ FALSE \in BOOLEAN
    BY <1>9 DEF DSave
  <2>2. DTypes'
    BY <1>1, <2>1, Modifiers, D!SaveTypes DEF DTypes
  <2>3. D!CacheOK'
    BY <1>1, <2>1, Modifiers, D!SaveEffect DEF DTypes, D!CacheOK
  <2>4. QED
    BY <1>4, <1>6, <1>9, <2>2, <2>3 DEF DSave, databaseVars
<1>10. CASE PSave
  <2>1. P!Save(FALSE) /\ FALSE \in BOOLEAN
    BY <1>10 DEF PSave
  <2>2. PTypes'
    BY <1>1, <2>1, Modifiers, P!SaveTypes DEF PTypes
  <2>3. P!CacheOK'
    BY <1>1, <2>1, Modifiers, P!SaveEffect DEF PTypes, P!CacheOK
  <2>4. QED
    BY <1>4, <1>5, <1>10, <2>2, <2>3 DEF PSave, dbconfigVars
<1>11. CASE DSync
  <2>1. DTypes' /\ D!CacheOK'
    BY <1>1, <1>11, D!SyncTypes DEF DSync, DTypes
  <2>2. PTypes' /\ P!CacheOK'
    BY <1>1, <1>11 DEF DSync, databaseVars, P!Event, PTypes, P!TypesOK, P!CacheOK
  <2>3. QED
    BY <1>4, <2>1, <2>2
<1>12. CASE PSync
  <2>1. PTypes' /\ P!CacheOK'
    BY <1>1, <1>12, P!SyncTypes DEF PSync, PTypes
  <2>2. QED
    BY <1>4, <1>5, <1>12, <2>1 DEF PSync, dbconfigVars
<1>13. QED
  BY <1>7, <1>8, <1>9, <1>10, <1>11, <1>12

\* So does what happens around them.
LEMMA AroundType == TypeInv /\ (Makers \/ MakeTable \/ Crash \/ Trouble) => TypeInv'
<1> SUFFICES ASSUME TypeInv, Makers \/ MakeTable \/ Crash \/ Trouble PROVE TypeInv'
  OBVIOUS
<1>1. /\ config \in Configs /\ DTypes /\ D!CacheOK /\ PTypes /\ P!CacheOK
      /\ owned \in Owned /\ OwnedInv /\ server \in Servers
      /\ copy \in {"none", "old", "current"} /\ refused \in BOOLEAN
      /\ disturbances \in 0 .. MaxDisturbances /\ MaxDisturbances \in Nat
  BY TypeParts, ConstantsType
<1>2. UNCHANGED <<config, refused>>
  BY DEF Makers, ClusterComesUp, PeriscopeMade, OwnerMade, ExtensionMade, MakeTable, Crash,
         Trouble
<1>3. \/ disturbances' = disturbances
      \/ disturbances < MaxDisturbances /\ disturbances' = disturbances + 1
  BY DEF Makers, ClusterComesUp, PeriscopeMade, OwnerMade, ExtensionMade, MakeTable, Crash,
         Trouble, Disturb
<1>4. disturbances' \in 0 .. MaxDisturbances
  BY <1>1, <1>3
<1>5. ASSUME DTypes', D!CacheOK', PTypes', P!CacheOK', owned' \in Owned, OwnedInv',
             server' \in Servers, copy' \in {"none", "old", "current"}
      PROVE  TypeInv'
  BY <1>1, <1>2, <1>4, <1>5
     DEF TypeInv, TypeOK, DTypes, PTypes, DStages, PStages, Owned, Servers
<1>6. CASE Crash
  <2>1. D!Restart /\ P!Restart /\ UNCHANGED <<owned, server, copy>>
    BY <1>6 DEF Crash
  <2>2. DTypes' /\ D!CacheOK' /\ PTypes' /\ P!CacheOK'
    BY <1>1, <2>1, D!RestartTypes, P!RestartTypes DEF DTypes, PTypes
  <2>3. QED
    BY <1>1, <1>5, <2>1, <2>2 DEF OwnedInv
<1>7. CASE Makers \/ MakeTable \/ Trouble
  <2>1. /\ UNCHANGED <<dtop, dview, dpass, ptop, pview, ppass>>
        /\ dwork' = dwork \/ D!Event
        /\ pwork' = pwork \/ P!Event
    BY <1>7 DEF Makers, ClusterComesUp, PeriscopeMade, OwnerMade, ExtensionMade, MakeTable,
                Trouble, OwnerEvent, dbconfigVars, databaseVars
  <2>2. DTypes' /\ D!CacheOK' /\ PTypes' /\ P!CacheOK'
    BY <1>1, <2>1
       DEF DTypes, D!TypesOK, D!CacheOK, D!Event, PTypes, P!TypesOK, P!CacheOK, P!Event
  <2>3. /\ \/ owned' = owned
           \/ \E status \in {"", "Ready", "Running"} :
                owned' = [owned EXCEPT !.cluster = status]
           \/ owned' = [owned EXCEPT !.periscope = "Ready"]
           \/ owned' = [owned EXCEPT !.owner = "Ready"] /\ server' = [server EXCEPT !.role = TRUE]
           \/ owned' = [owned EXCEPT !.owner = "Error"]
           \/ owned' = [owned EXCEPT !.extension = "Ready"]
        /\ \/ server' = server
           \/ server' = [server EXCEPT !.role = TRUE]
           \/ server' = [server EXCEPT !.open = TRUE]
           \/ server' = [server EXCEPT !.closed = TRUE]
        /\ copy' \in {copy, "old"}
    BY <1>7 DEF Makers, ClusterComesUp, PeriscopeMade, OwnerMade, ExtensionMade, MakeTable,
                Trouble
  <2>4. server' \in Servers /\ (server.role => server'.role)
    BY <1>1, <2>3 DEF Servers
  <2>5. owned' \in Owned /\ OwnedInv'
    BY <1>1, <2>3, <2>4 DEF Owned, OwnedInv, Children, Servers
  <2>6. QED
    BY <1>1, <1>5, <2>2, <2>3, <2>4, <2>5
<1>8. QED
  BY <1>6, <1>7

\* Every step keeps the types.
LEMMA NextType == TypeInv /\ [Next]_vars => TypeInv'
<1> SUFFICES ASSUME TypeInv, [Next]_vars PROVE TypeInv'
  OBVIOUS
<1>1. CASE UNCHANGED vars
  <2>1. /\ config \in Configs /\ DTypes /\ D!CacheOK /\ PTypes /\ P!CacheOK
        /\ owned \in Owned /\ OwnedInv /\ server \in Servers
        /\ copy \in {"none", "old", "current"} /\ refused \in BOOLEAN
        /\ disturbances \in 0 .. MaxDisturbances
    BY TypeParts
  <2>2. DTypes' /\ D!CacheOK' /\ PTypes' /\ P!CacheOK' /\ OwnedInv'
    <3>1. DTypes' /\ D!CacheOK'
      BY <1>1, <2>1 DEF vars, DTypes, D!TypesOK, D!CacheOK
    <3>2. PTypes' /\ P!CacheOK'
      BY <1>1, <2>1 DEF vars, PTypes, P!TypesOK, P!CacheOK
    <3>3. QED
      BY <1>1, <2>1, <3>1, <3>2 DEF vars, OwnedInv
  <2>3. QED
    BY <1>1, <2>1, <2>2
       DEF vars, TypeInv, TypeOK, DTypes, PTypes, DStages, PStages, Owned, Servers
<1>2. CASE Next
  BY <1>2, DComponentsType, PComponentsType, PassType, AroundType DEF Next, DWorker, PWorker
<1>3. QED
  BY <1>1, <1>2

\* TypeInv is an invariant.
LEMMA TypeInvariant == Spec => []TypeInv
BY InitType, NextType, PTL DEF Spec

\* Every variable of Databases keeps its type, for every configuration and every bound:
\* modifyStatus stops after MaxTries replays, and neither object loses its status.
THEOREM DatabasesTypeCorrect == Spec => []TypeOK
<1>1. TypeInv => TypeOK
  BY DEF TypeInv
<1>2. QED
  BY <1>1, TypeInvariant, PTL

-----------------------------------------------------------------------------
(* A database that is called Ready can be used.                             *)

\* What a step that keeps the world makes of it.
LEMMA SameWorld ==
    ASSUME config' = config, server' = server, copy' = copy,
           owned'.extension = owned.extension
    PROVE  Grows(World, World')
BY DEF Grows, World, Copies, Shared

\* While the world grows the object, its copies and the pass go on saying nothing untrue.
LEMMA StillTruthful ==
    ASSUME Grows(World, World')
    PROVE  \A s : Truthful(s, World) => Truthful(s, World')
BY StaysTruthful

\* SaysInv, once for each of the two objects.
SaysD ==
    /\ Modest(dtop.status) /\ Modest(dview.obj.status)
    /\ dpass # D!Idle => Modest(dpass.obj.status) /\ Modest(dpass.patch)

SaysP(w) ==
    /\ Truthful(ptop.status, w) /\ Truthful(pview.obj.status, w)
    /\ ppass # P!Idle => /\ Truthful(ppass.obj.status, w)
                         /\ Truthful(ppass.clean.status, w)
                         /\ Truthful(ppass.patch, w)

\* It is the two of them.
LEMMA SaysParts == SaysInv <=> SaysD /\ SaysP(World)
BY DEF SaysInv, SaysD, SaysP

\* An object that is left alone still says the truth of a world that grows.
LEMMA PRests ==
    ASSUME SaysP(World), Grows(World, World'), UNCHANGED <<ptop, pview, ppass>>
    PROVE  SaysP(World)'
BY StillTruthful DEF SaysP

\* So does the DbConfig.
LEMMA DRests ==
    ASSUME SaysD, UNCHANGED <<config, dtop, dview, dpass>> PROVE SaysD'
BY DEF SaysD, Modest

\* Where the pass of the database is stays true when the cluster and the copy are left alone.
LEMMA StageRests ==
    ASSUME StageInv, UNCHANGED <<config, ppass, server, copy>> PROVE StageInv'
BY DEF StageInv, Copies, Shared

\* So do the tables.
LEMMA TablesRest ==
    ASSUME TablesInv, UNCHANGED <<config, server>> PROVE TablesInv'
BY DEF TablesInv

\* Nothing is said at first.
LEMMA InitUsable == Init => UsableInv
<1> SUFFICES ASSUME Init PROVE UsableInv
  OBVIOUS
<1>1. /\ dtop = NewObject /\ dview.obj = NewObject /\ dpass = D!Idle
      /\ ptop = NewObject /\ pview.obj = NewObject /\ ppass = P!Idle
  BY DEF Init, D!Start, P!Start
<1>2. Modest(NewObject.status) /\ Truthful(NewObject.status, World)
  BY DEF NewObject, Modest, Truthful, SaysPeriscope
<1>3. config.adopted \in BOOLEAN
  BY ConstantsType DEF Init, AllConfigs
<1>4. TablesInv
  BY <1>3 DEF TablesInv, Init
<1>5. StageInv
  BY <1>1 DEF StageInv, P!Idle, PStages
<1>6. QED
  BY <1>1, <1>2, <1>4, <1>5 DEF UsableInv, SaysInv

\* A pass that begins says nothing yet.
LEMMA NothingSaid == Modest(NoPatch) /\ \A w : Truthful(NoPatch, w)
BY DEF NoPatch, Modest, Truthful, SaysPeriscope

\* Passes that begin, and informers that catch up.
LEMMA BeginSyncUsable ==
    TypeInv /\ UsableInv /\ (DBegin \/ PBegin \/ DSync \/ PSync) => UsableInv'
<1> SUFFICES ASSUME TypeInv, UsableInv, DBegin \/ PBegin \/ DSync \/ PSync PROVE UsableInv'
  OBVIOUS
<1>1. UNCHANGED <<config, owned, server, copy>>
  BY DEF DBegin, PBegin, DSync, PSync
<1>2. Grows(World, World') /\ SaysD /\ SaysP(World) /\ TablesInv' /\ World' = World
  BY <1>1, SameWorld, SaysParts, TablesRest DEF UsableInv, World, Copies, Shared
<1>3. UNCHANGED <<dtop, dview, dpass>> => SaysD'
  BY <1>1, <1>2, DRests
<1>4. UNCHANGED <<ptop, pview, ppass>> => SaysP(World)' /\ StageInv'
  BY <1>1, <1>2, PRests, StageRests DEF UsableInv
<1>5. CASE DBegin
  <2>1. /\ UNCHANGED <<dtop, dview, databaseVars>>
        /\ \/ dpass' = D!Idle
           \/ dpass'.obj = dview.obj /\ dpass'.patch = NoPatch
    BY <1>5 DEF DBegin, D!Begin, D!Fresh
  <2>2. SaysD'
    BY <1>1, <1>2, <2>1, NothingSaid DEF SaysD, Modest
  <2>3. QED
    BY <1>2, <1>4, <2>1, <2>2 DEF databaseVars, UsableInv, SaysInv, SaysD, SaysP
<1>6. CASE PBegin
  <2>1. /\ UNCHANGED <<ptop, pview, dbconfigVars>>
        /\ \/ ppass' = P!Idle
           \/ /\ ppass'.at = "postgres" /\ ppass'.obj = pview.obj
              /\ ppass'.clean = pview.obj /\ ppass'.patch = NoPatch
    BY <1>6 DEF PBegin, P!Begin, P!Fresh
  <2>2. SaysP(World)'
    BY <1>2, <2>1, NothingSaid DEF SaysP
  <2>3. StageInv'
    BY <2>1 DEF StageInv, P!Idle, PStages
  <2>4. QED
    BY <1>2, <1>3, <2>1, <2>2, <2>3 DEF dbconfigVars, UsableInv, SaysInv, SaysD, SaysP
<1>7. CASE DSync
  <2>1. UNCHANGED <<dtop, dpass, databaseVars>> /\ dview'.obj = dtop
    BY <1>7 DEF DSync, D!Sync
  <2>2. SaysD'
    BY <1>1, <1>2, <2>1 DEF SaysD, Modest
  <2>3. QED
    BY <1>2, <1>4, <2>1, <2>2 DEF databaseVars, UsableInv, SaysInv, SaysD, SaysP
<1>8. CASE PSync
  <2>1. UNCHANGED <<ptop, ppass, dbconfigVars>> /\ pview'.obj = ptop
    BY <1>8 DEF PSync, P!Sync
  <2>2. SaysP(World)' /\ StageInv'
    BY <1>1, <1>2, <2>1, StageRests DEF SaysP, UsableInv
  <2>3. QED
    BY <1>2, <1>3, <2>1, <2>2 DEF dbconfigVars, UsableInv, SaysInv, SaysD, SaysP
<1>9. QED
  BY <1>5, <1>6, <1>7, <1>8

\* The status written of the DbConfig.
LEMMA DSaveUsable == TypeInv /\ UsableInv /\ DSave => UsableInv'
<1> SUFFICES ASSUME TypeInv, UsableInv, DSave PROVE UsableInv'
  OBVIOUS
<1>1. UNCHANGED <<config, owned, server, copy, ptop, pview, ppass>> /\ D!Save(FALSE)
  BY DEF DSave, databaseVars
<1>2. /\ SaysD /\ SaysP(World) /\ TablesInv' /\ StageInv' /\ SaysP(World)'
  BY <1>1, SameWorld, SaysParts, TablesRest, StageRests, PRests DEF UsableInv
<1>3. /\ D!TypesOK(Objects, Patches, DStages) /\ D!CacheOK /\ FALSE \in BOOLEAN
  BY TypeParts DEF DTypes
<1>4. /\ \/ dtop' = dtop
         \/ /\ dtop # Absent /\ dpass.current
            /\ dtop' = [dtop EXCEPT !.status = dpass.obj.status]
         \/ /\ dview.obj # Absent /\ dview.current
            /\ dtop' = [dtop EXCEPT !.status = Apply(dpass.patch, dview.obj).status]
      /\ \/ dpass' = D!Idle
         \/ /\ dpass'.obj = dpass.obj /\ dpass'.patch = dpass.patch
            /\ dpass'.current = dpass.current /\ dpass'.clean = dpass.clean
            /\ UNCHANGED <<dtop, dview>>
  BY <1>1, <1>3, D!SaveStatus
<1>5. /\ dpass # D!Idle /\ dview'.obj = dview.obj
  BY <1>1, <1>3, Modifiers, D!SaveEffect
<1>6. dtop \in Objects /\ dview.obj \in Objects /\ dpass.patch \in Patches
  BY <1>3, <1>5 DEF D!TypesOK, D!Passes
<1>7. /\ Modest(dtop.status) /\ Modest(dview.obj.status)
      /\ Modest(dpass.obj.status) /\ Modest(dpass.patch)
  BY <1>2, <1>5 DEF SaysD
<1>8. Modest(Apply(dpass.patch, dview.obj).status)
  BY <1>6, <1>7, StaysModest
<1>9. dtop'.status \in {dtop.status, dpass.obj.status, Apply(dpass.patch, dview.obj).status}
  BY <1>4, <1>6 DEF Objects
<1>10. SaysD'
  BY <1>1, <1>4, <1>5, <1>7, <1>8, <1>9 DEF SaysD, Modest
<1>11. QED
  BY <1>2, <1>10 DEF UsableInv, SaysInv, SaysD, SaysP

\* The status written of the database.
LEMMA PSaveUsable == TypeInv /\ UsableInv /\ PSave => UsableInv'
<1> SUFFICES ASSUME TypeInv, UsableInv, PSave PROVE UsableInv'
  OBVIOUS
<1>1. UNCHANGED <<config, owned, server, copy, dtop, dview, dpass>> /\ P!Save(FALSE)
  BY DEF PSave, dbconfigVars
<1>2. /\ SaysD /\ SaysP(World) /\ TablesInv' /\ SaysD' /\ World' = World
  BY <1>1, SaysParts, TablesRest, DRests DEF UsableInv, World, Copies, Shared
<1>3. /\ P!TypesOK(Objects, Patches, PStages) /\ P!CacheOK /\ FALSE \in BOOLEAN
  BY TypeParts DEF PTypes
<1>4. /\ \/ ptop' = ptop
         \/ /\ ptop # Absent /\ ppass.current
            /\ ptop' = [ptop EXCEPT !.status = ppass.obj.status]
         \/ /\ pview.obj # Absent /\ pview.current
            /\ ptop' = [ptop EXCEPT !.status = Apply(ppass.patch, pview.obj).status]
      /\ \/ ppass' = P!Idle
         \/ /\ ppass'.obj = ppass.obj /\ ppass'.patch = ppass.patch
            /\ ppass'.current = ppass.current /\ ppass'.clean = ppass.clean
            /\ UNCHANGED <<ptop, pview>>
  BY <1>1, <1>3, P!SaveStatus
<1>5. /\ ppass # P!Idle /\ pview'.obj = pview.obj
      /\ ppass' = P!Idle \/ ppass'.at = "replay"
  BY <1>1, <1>3, Modifiers, P!SaveEffect
<1>6. ptop \in Objects /\ pview.obj \in Objects /\ ppass.patch \in Patches
  BY <1>3, <1>5 DEF P!TypesOK, P!Passes
<1>7. /\ Truthful(ptop.status, World) /\ Truthful(pview.obj.status, World)
      /\ Truthful(ppass.obj.status, World) /\ Truthful(ppass.clean.status, World)
      /\ Truthful(ppass.patch, World)
  BY <1>2, <1>5 DEF SaysP
<1>8. Truthful(Apply(ppass.patch, pview.obj).status, World)
  BY <1>6, <1>7, ApplyTruthful
<1>9. ptop'.status \in {ptop.status, ppass.obj.status, Apply(ppass.patch, pview.obj).status}
  BY <1>4, <1>6 DEF Objects
<1>10. SaysP(World)'
  BY <1>2, <1>4, <1>5, <1>7, <1>8, <1>9 DEF SaysP
<1>11. StageInv'
  BY <1>5 DEF StageInv, P!Idle, PStages
<1>12. QED
  BY <1>2, <1>10, <1>11 DEF UsableInv, SaysInv, SaysD, SaysP

\* The component of the DbConfig.
LEMMA DComponentsUsable == TypeInv /\ UsableInv /\ DComponents => UsableInv'
<1> SUFFICES ASSUME TypeInv, UsableInv, DComponents PROVE UsableInv'
  OBVIOUS
<1>1. /\ UNCHANGED <<config, server, copy, dtop, dview, ptop, pview, ppass>>
      /\ owned'.extension = owned.extension
  BY DComponentWorld
<1>2. /\ SaysD /\ SaysP(World) /\ TablesInv' /\ StageInv' /\ SaysP(World)'
  BY <1>1, SameWorld, SaysParts, TablesRest, StageRests, PRests DEF UsableInv
<1>3. /\ dpass # D!Idle /\ dpass.obj \in Objects /\ dpass.patch \in Patches
  BY DComponentDoes
<1>4. PICK patch \in Patches :
        /\ patch.periscope \in {NoPatch.periscope, Found.periscope}
        /\ dpass'.patch = Then(dpass.patch, patch)
        /\ \/ dpass'.obj = Apply(patch, dpass.obj)
           \/ \E m \in Messages : dpass'.obj = Failed(Apply(patch, dpass.obj), m)
  BY DComponentDoes
<1>5. Modest(patch)
  <2>1. OwnedInv
    BY TypeParts
  <2>2. NoPatch.periscope = "keep"
    BY DEF NoPatch
  <2>3. Found.periscope = IF config.reports THEN StatusOf(owned.periscope) ELSE "Skipped"
    BY DEF Found, NoPatch
  <2>4. QED
    BY <1>4, <2>1, <2>2, <2>3 DEF Modest, SaysPeriscope, StatusOf, OwnedInv
<1>6. Modest(dpass.obj.status) /\ Modest(dpass.patch)
  BY <1>2, <1>3 DEF SaysD
<1>7. Modest(dpass'.obj.status) /\ Modest(dpass'.patch)
  <2>1. Modest(Apply(patch, dpass.obj).status) /\ Apply(patch, dpass.obj) \in Objects
    BY <1>3, <1>5, <1>6, StaysModest, ApplyStatus
  <2>2. \A m : Modest(Failed(Apply(patch, dpass.obj), m).status)
    BY <1>4, <2>1, StaysModest
  <2>3. Modest(Then(dpass.patch, patch))
    BY <1>3, <1>5, <1>6, StaysModest
  <2>4. QED
    BY <1>4, <2>1, <2>2, <2>3
<1>8. SaysD'
  BY <1>1, <1>2, <1>7 DEF SaysD, Modest
<1>9. QED
  BY <1>2, <1>8 DEF UsableInv, SaysInv, SaysD, SaysP

\* What happens around the objects.
LEMMA AroundUsable == TypeInv /\ UsableInv /\ (Makers \/ MakeTable \/ Trouble) => UsableInv'
<1> SUFFICES ASSUME TypeInv, UsableInv, Makers \/ MakeTable \/ Trouble PROVE UsableInv'
  OBVIOUS
<1>1. UNCHANGED <<config, dtop, dview, dpass, ptop, pview, ppass>>
  BY DEF Makers, ClusterComesUp, PeriscopeMade, OwnerMade, ExtensionMade, MakeTable, Trouble,
         dbconfigVars, databaseVars
<1>2. /\ SaysD /\ SaysP(World) /\ TablesInv /\ StageInv /\ SaysD'
      /\ owned \in Owned /\ server \in Servers
  BY <1>1, SaysParts, DRests, TypeParts DEF UsableInv
<1>3. ASSUME Grows(World, World'), TablesInv', StageInv' PROVE UsableInv'
  <2>1. SaysP(World)'
    BY <1>1, <1>2, <1>3, PRests
  <2>2. QED
    BY <1>2, <1>3, <2>1 DEF UsableInv, SaysInv, SaysD, SaysP
<1>4. CASE MakeTable
  <2>1. UNCHANGED <<config, owned, copy, ppass>>
    BY <1>4 DEF MakeTable, databaseVars
  <2>2. server' = IF server.default THEN [server EXCEPT !.open = TRUE]
                  ELSE [server EXCEPT !.closed = TRUE]
    BY <1>4 DEF MakeTable
  <2>3. \* A new database has no table before it is Ready, and periscope reads what comes.
        ~config.adopted => ~config.reports \/ server.default
    <3>1. ~config.adopted => Truthful(ptop.status, World) /\ ptop.status.phase = "Ready"
      BY <1>2, <1>4 DEF MakeTable, SaysP
    <3>2. QED
      BY <3>1 DEF Truthful, World
  <2>4. Grows(World, World')
    BY <1>2, <2>1, <2>2 DEF Grows, World, Servers, Copies, Shared, TablesInv
  <2>5. TablesInv'
    BY <1>2, <2>1, <2>2, <2>3 DEF TablesInv, Servers
  <2>6. StageInv'
    BY <1>2, <2>1, <2>2, <2>3 DEF StageInv, TablesInv, Servers, Copies, Shared
  <2>7. QED
    BY <1>3, <2>4, <2>5, <2>6
<1>5. CASE Makers \/ Trouble
  <2>1. /\ server' = server \/ server' = [server EXCEPT !.role = TRUE]
        /\ copy' = copy \/ (copy = "current" /\ copy' = "old")
        /\ \/ owned' = owned
           \/ \E status \in {"", "Ready", "Running"} :
                owned' = [owned EXCEPT !.cluster = status]
           \/ owned' = [owned EXCEPT !.periscope = "Ready"]
           \/ \E status \in {"Ready", "Error"} : owned' = [owned EXCEPT !.owner = status]
           \/ owned' = [owned EXCEPT !.extension = "Ready"]
    BY <1>5 DEF Makers, ClusterComesUp, PeriscopeMade, OwnerMade, ExtensionMade, Trouble
  <2>2. /\ server'.open = server.open /\ server'.closed = server.closed
        /\ server'.default = server.default /\ server'.database = server.database
        /\ server.role => server'.role
    BY <1>2, <2>1 DEF Servers
  <2>3. owned.extension = "Ready" => owned'.extension = "Ready"
    BY <1>2, <2>1 DEF Owned
  <2>4. copy # "none" => copy' # "none"
    BY <2>1
  <2>5. Grows(World, World')
    BY <1>1, <2>2, <2>3, <2>4 DEF Grows, World, Copies, Shared
  <2>6. TablesInv' /\ StageInv'
    BY <1>1, <1>2, <2>2, <2>4 DEF TablesInv, StageInv, Copies, Shared
  <2>7. QED
    BY <1>3, <2>5, <2>6
<1>6. QED
  BY <1>4, <1>5

\* A new process forgets what the passes knew.
LEMMA CrashUsable == TypeInv /\ UsableInv /\ Crash => UsableInv'
<1> SUFFICES ASSUME TypeInv, UsableInv, Crash PROVE UsableInv'
  OBVIOUS
<1>1. UNCHANGED <<config, owned, server, copy>> /\ D!Restart /\ P!Restart
  BY DEF Crash
<1>2. SaysD /\ SaysP(World) /\ TablesInv' /\ World' = World
  BY <1>1, SaysParts, TablesRest DEF UsableInv, World, Copies, Shared
<1>3. SaysD'
  BY <1>1, <1>2 DEF SaysD, D!Restart, Modest
<1>4. SaysP(World)'
  BY <1>1, <1>2 DEF SaysP, P!Restart
<1>5. StageInv'
  BY <1>1 DEF StageInv, P!Restart, P!Idle, PStages
<1>6. QED
  BY <1>2, <1>3, <1>4, <1>5 DEF UsableInv, SaysInv, SaysD, SaysP

\* A component of the database goes on without saying anything untrue.
Advances ==
    /\ \E stage \in PStages \cup {"save"}, patch \in Patches :
          Moved(stage, patch) /\ Truthful(patch, World')
    /\ Grows(World, World') /\ TablesInv' /\ StageInv'

\* What a modifier says that only speaks of the cluster and of periscope.
LEMMA ModestTruthful ==
    ASSUME NEW p, Modest(p), p.phase \in {"keep", "Creating"}, p.owner # "Ready",
           p.database # "Ready", p.extension # "Ready"
    PROVE  \A w : w.reports = config.reports => Truthful(p, w)
BY DEF Modest, Truthful, SaysPeriscope

\* Without a step that lets periscope in, the pass goes on as it should.
LEMMA StageAfter ==
    ASSUME UsableInv, ppass # P!Idle, ppass' # P!Idle, UNCHANGED config,
           copy = "none" \/ copy' # "none",
           ppass.at \in PStages,
           \/ ppass.at \notin {"postgres", "secret"}
           \/ ppass'.at \in {"secret", "save"}
           \/ Copies => copy' # "none",
           ppass'.at # "default",
           \/ ppass'.at \in {"secret", "save", "status"}
           \/ \E stages \in SUBSET {"owner", "database", "grant", "extension", "status"} :
                "status" \in stages /\ ppass'.at = After(stages)
    PROVE  StageInv'
<1>1. ppass'.at = "grant" => config.reports
  <2>1. SUFFICES ASSUME ppass'.at = "grant" PROVE config.reports
    OBVIOUS
  <2>2. Gates["grant"]
    BY <2>1, AfterType
  <2>3. ppass.clean.status.periscope \in {"Ready", "Granted"}
    BY <2>2 DEF Gates, Known
  <2>4. Truthful(ppass.clean.status, World)
    BY DEF UsableInv, SaysInv
  <2>5. QED
    BY <2>3, <2>4 DEF Truthful, SaysPeriscope, World
<1>2. StageInv
  BY DEF UsableInv
<1>3. Copies' = Copies
  BY DEF Copies, Shared
<1>4. ppass'.at \in PStages \ {"postgres", "secret"} => (Copies => copy' # "none")
  BY <1>2 DEF StageInv, PStages
<1>5. QED
  BY <1>1, <1>3, <1>4 DEF StageInv

\* The cluster of the database, and its administrator's password.
LEMMA FirstAdvance == TypeInv /\ UsableInv /\ PComponents /\ (Postgres \/ Secret) => Advances
<1> SUFFICES ASSUME TypeInv, UsableInv, PComponents, Postgres \/ Secret PROVE Advances
  OBVIOUS
<1>1. /\ ppass.at \in PStages /\ ppass # P!Idle /\ config' = config /\ server' = server
      /\ World'.reports = config.reports
  BY Running, ComponentsReturn DEF PComponents, Postgres, Secret, World
<1>2. TablesInv'
  BY <1>1, TablesRest DEF UsableInv
<1>3. CASE Postgres
  <2>1. copy' = copy /\ owned'.extension = owned.extension
    BY <1>3, ProvisionType DEF Postgres
  <2>2. Grows(World, World')
    BY <1>1, <2>1, SameWorld
  <2>3. \E stage \in {"secret", "save"}, patch \in Patches :
          Moved(stage, patch) /\ Truthful(patch, World')
    <3>1. CASE /\ Shared
               /\ GoOn("secret", [NoPatch EXCEPT !.cluster = dview.obj.status.cluster,
                                                 !.periscope = dview.obj.status.periscope])
      <4> DEFINE p == [NoPatch EXCEPT !.cluster = dview.obj.status.cluster,
                                      !.periscope = dview.obj.status.periscope]
      <4>1. p \in Patches
        BY PatchTypes, TypeParts DEF DTypes, D!TypesOK
      <4>2. Modest(dview.obj.status)
        BY DEF UsableInv, SaysInv
      <4>3. /\ Modest(p) /\ p.phase = "keep" /\ p.owner = "keep" /\ p.database = "keep"
            /\ p.extension = "keep"
        BY <4>2 DEF NoPatch, Modest, SaysPeriscope
      <4>4. GoOn("secret", p)
        BY <3>1
      <4> HIDE DEF p
      <4>5. Moved("secret", p)
        BY <1>1, <4>1, <4>4, ReturnsMove DEF PStages
      <4>6. Truthful(p, World')
        BY <1>1, <4>3, ModestTruthful
      <4>7. QED
        BY <4>1, <4>5, <4>6
    <3>2. CASE GoOn("secret", Found)
      <4>1. Found \in Patches /\ OwnedInv
        BY PatchTypes, TypeParts
      <4>2. /\ Modest(Found) /\ Found.phase = "keep" /\ Found.owner = "keep"
            /\ Found.database = "keep" /\ Found.extension = "keep"
        BY <4>1 DEF Found, NoPatch, Modest, SaysPeriscope, StatusOf, OwnedInv
      <4>3. Moved("secret", Found)
        BY <1>1, <3>2, <4>1, ReturnsMove DEF PStages
      <4>4. Truthful(Found, World')
        BY <1>1, <4>2, ModestTruthful
      <4>5. QED
        BY <4>1, <4>3, <4>4
    <3>3. CASE CallFails(NoPatch, TRUE)
      BY <1>1, <3>3, PatchTypes, ReturnsMove, NothingSaid
    <3>4. QED
      BY <1>3, <3>1, <3>2, <3>3 DEF Postgres
  <2>4. ppass' # P!Idle /\ ppass'.at \in {"secret", "save"}
    BY <2>3 DEF Moved
  <2>5. StageInv'
    BY <1>1, <2>1, <2>4, StageAfter
  <2>6. QED
    BY <1>2, <2>2, <2>3, <2>5 DEF Advances, PStages
<1>4. CASE Secret
  <2>1. owned' = owned /\ copy' \in {copy, "current"}
    BY <1>4 DEF Secret
  <2>2. Grows(World, World')
    BY <1>1, <2>1 DEF Grows, World, Copies, Shared
  <2>3. CASE /\ copy' = IF Copies THEN "current" ELSE copy
             /\ GoOn(After({"owner", "database", "grant", "extension", "status"}),
                     Creating(NoPatch))
    <3> DEFINE stage == After({"owner", "database", "grant", "extension", "status"})
    <3>1. stage \in {"owner", "database", "grant", "extension", "status"}
      BY AfterType
    <3>2. Creating(NoPatch) \in Patches /\ \A w : Truthful(Creating(NoPatch), w)
      BY PatchTypes DEF Creating, NoPatch, Truthful, SaysPeriscope
    <3>3. Moved(stage, Creating(NoPatch))
      BY <1>1, <2>3, <3>1, <3>2, ReturnsMove DEF PStages
    <3>4. StageInv'
      <4>1. ppass' # P!Idle /\ ppass'.at = stage
        BY <3>3 DEF Moved
      <4>2. Copies => copy' # "none"
        BY <2>3
      <4>3. QED
        BY <1>1, <2>1, <3>1, <4>1, <4>2, StageAfter
    <3>5. QED
      BY <1>2, <2>2, <3>1, <3>2, <3>3, <3>4 DEF Advances, PStages
  <2>4. CASE P!ReturnError("secret", NoPatch, FALSE) \/ CallFails(NoPatch, FALSE)
    <3>1. Moved("save", NoPatch) /\ NoPatch \in Patches
      BY <1>1, <2>4, PatchTypes, ReturnsMove DEF Messages
    <3>2. StageInv'
      BY <1>1, <2>1, <3>1, StageAfter DEF Moved
    <3>3. QED
      BY <1>2, <2>2, <3>1, <3>2, NothingSaid DEF Advances
  <2>5. QED
    BY <1>4, <2>3, <2>4 DEF Secret
<1>5. QED
  BY <1>3, <1>4

\* A component that says nothing, and stops the pass.
LEMMA StopAdvance ==
    ASSUME TypeInv, UsableInv, PComponents, UNCHANGED <<server, copy>>,
           owned'.extension = owned.extension, NEW patch \in Patches,
           Moved("save", patch), Truthful(patch, World')
    PROVE  Advances
<1>1. config' = config /\ ppass.at \in PStages /\ ppass # P!Idle
  BY Running, ComponentsReturn DEF PComponents
<1>2. Grows(World, World') /\ TablesInv'
  BY <1>1, SameWorld, TablesRest DEF UsableInv
<1>3. StageInv'
  BY <1>1, StageAfter DEF Moved
<1>4. QED
  BY <1>2, <1>3 DEF Advances

\* The owner role and the extension are what their objects say.
LEMMA RoleAdvance == TypeInv /\ UsableInv /\ PComponents /\ (User \/ Extensions) => Advances
<1> SUFFICES ASSUME TypeInv, UsableInv, PComponents, User \/ Extensions PROVE Advances
  OBVIOUS
<1>1. /\ ppass.at \in {"owner", "extension"} /\ ppass.at \in PStages /\ ppass # P!Idle
      /\ config' = config /\ server' = server /\ copy' = copy
  BY Running, ComponentsReturn DEF PComponents, User, Extensions
<1>2. owned \in Owned /\ OwnedInv
  BY TypeParts
<1>3. owned'.extension = "Ready" <=> owned.extension = "Ready"
  BY <1>2 DEF User, Extensions, Owned, Asked
<1>4. World' = World /\ TablesInv'
  BY <1>1, <1>3, TablesRest DEF World, Copies, Shared, UsableInv
<1>5. Grows(World, World')
  BY <1>4 DEF Grows
<1>6. ASSUME NEW patch \in Patches, Truthful(patch, World), NEW stage \in PStages \cup {"save"},
             Moved(stage, patch),
             \/ stage \in {"save", "status"}
             \/ stage = After({"database", "grant", "extension", "status"}) /\ stage # "default"
      PROVE  Advances
  <2>1. StageInv'
    BY <1>1, <1>6, StageAfter DEF Moved
  <2>2. QED
    BY <1>4, <1>5, <1>6, <2>1 DEF Advances
<1>7. CASE User
  <2> DEFINE found == Creating([NoPatch EXCEPT !.owner = StatusOf(owned.owner)])
             next == After({"database", "grant", "extension", "status"})
  <2>1. found \in Patches /\ next \in PStages /\ next # "default"
    <3>1. next \in {"database", "grant", "extension", "status"}
      BY AfterType
    <3>2. QED
      BY <3>1, PatchTypes DEF PStages
  <2>2. Truthful(found, World)
    BY <1>2 DEF Creating, NoPatch, Truthful, SaysPeriscope, StatusOf, OwnedInv, World
  <2>3. GoOn(next, found) \/ CallFails(found, TRUE)
    BY <1>7 DEF User
  <2> HIDE DEF found
  <2>4. CASE GoOn(next, found)
    BY <1>1, <1>6, <2>1, <2>2, <2>4, ReturnsMove
  <2>5. CASE CallFails(found, TRUE)
    BY <1>1, <1>6, <2>1, <2>2, <2>5, ReturnsMove
  <2>6. QED
    BY <2>3, <2>4, <2>5
<1>8. CASE Extensions
  <2> DEFINE found == Creating([NoPatch EXCEPT !.extension = StatusOf(owned.extension)])
  <2>1. found \in Patches /\ NoPatch \in Patches
    BY PatchTypes
  <2>2. Truthful(found, World)
    BY <1>2 DEF Creating, NoPatch, Truthful, SaysPeriscope, StatusOf, OwnedInv, World
  <2>3. GoOn("status", found) \/ CallFails(NoPatch, TRUE)
    BY <1>8 DEF Extensions
  <2> HIDE DEF found
  <2>4. CASE GoOn("status", found)
    BY <1>1, <1>6, <2>1, <2>2, <2>4, ReturnsMove DEF PStages
  <2>5. CASE CallFails(NoPatch, TRUE)
    BY <1>1, <1>6, <2>1, <2>5, ReturnsMove, NothingSaid
  <2>6. QED
    BY <2>3, <2>4, <2>5
<1>9. QED
  BY <1>7, <1>8

\* The database is created for a role that is there.
LEMMA DatabaseAdvance == TypeInv /\ UsableInv /\ PComponents /\ Database => Advances
<1> SUFFICES ASSUME TypeInv, UsableInv, PComponents, Database PROVE Advances
  OBVIOUS
<1>1. /\ ppass.at = "database" /\ ppass.at \in PStages /\ ppass # P!Idle
      /\ config' = config /\ owned' = owned /\ copy' = copy
  BY Running, ComponentsReturn DEF PComponents, Database
<1>2. CASE /\ server' = [server EXCEPT !.database = TRUE]
           /\ GoOn(After({"grant", "extension", "status"}),
                   Creating([NoPatch EXCEPT !.database = "Ready"]))
  <2> DEFINE made == Creating([NoPatch EXCEPT !.database = "Ready"])
             next == After({"grant", "extension", "status"})
  <2>1. made \in Patches /\ next \in PStages /\ next # "default"
    <3>1. next \in {"grant", "extension", "status"}
      BY AfterType
    <3>2. QED
      BY <3>1, PatchTypes DEF PStages
  <2>2. /\ server'.database /\ server'.role = server.role /\ server'.open = server.open
        /\ server'.closed = server.closed /\ server'.default = server.default
    BY <1>2, TypeParts DEF Servers
  <2>3. Grows(World, World') /\ TablesInv'
    BY <1>1, <2>2 DEF Grows, World, Copies, Shared, UsableInv, TablesInv
  <2>4. Truthful(made, World')
    BY <2>2 DEF Creating, NoPatch, Truthful, SaysPeriscope, World
  <2>5. Moved(next, made)
    <3>1. GoOn(next, made)
      BY <1>2
    <3> HIDE DEF made
    <3>2. QED
      BY <1>1, <2>1, <3>1, ReturnsMove
  <2>6. StageInv'
    BY <1>1, <2>1, <2>5, StageAfter DEF Moved
  <2>7. QED
    BY <2>1, <2>3, <2>4, <2>5, <2>6 DEF Advances
<1>3. CASE server' = server /\ (P!ReturnError("down", NoPatch, FALSE) \/ CallFails(NoPatch, FALSE))
  <2>1. Moved("save", NoPatch) /\ NoPatch \in Patches
    BY <1>1, <1>3, PatchTypes, ReturnsMove DEF Messages
  <2>2. QED
    BY <1>1, <1>3, <2>1, NothingSaid, StopAdvance
<1>4. QED
  BY <1>2, <1>3 DEF Database, Down

\* Periscope is let in by two statements.
LEMMA GrantAdvance == TypeInv /\ UsableInv /\ PComponents /\ (Grant \/ GrantDefault) => Advances
<1> SUFFICES ASSUME TypeInv, UsableInv, PComponents, Grant \/ GrantDefault PROVE Advances
  OBVIOUS
<1>1. /\ ppass.at \in {"grant", "default"} /\ ppass.at \in PStages /\ ppass # P!Idle
      /\ config' = config /\ owned' = owned /\ copy' = copy
      /\ server \in Servers /\ config \in AllConfigs
  BY Running, ComponentsReturn, TypeParts, ConstantsType DEF PComponents, Grant, GrantDefault
<1>2. /\ config.reports /\ TablesInv /\ StageInv
      /\ ppass.at = "default" => server.open \/ ~server.closed
  BY <1>1 DEF UsableInv, StageInv
<1> DEFINE letIn == [NoPatch EXCEPT !.periscope = "Granted"]
           next == After({"extension", "status"})
<1>3. letIn \in Patches /\ next \in {"extension", "status"}
  BY PatchTypes, AfterType
<1>4. ASSUME Granted, Grows(World, World'), TablesInv', World'.granted
      PROVE  Advances
  <2>1. Truthful(letIn, World')
    BY <1>1, <1>2, <1>4 DEF NoPatch, Truthful, SaysPeriscope, World
  <2>2. Moved(next, letIn)
    <3>1. GoOn(next, letIn)
      BY <1>4 DEF Granted
    <3> HIDE DEF letIn
    <3>2. QED
      BY <1>1, <1>3, <3>1, ReturnsMove DEF PStages
  <2>3. StageInv'
    BY <1>1, <1>3, <2>2, StageAfter DEF Moved
  <2>4. QED
    BY <1>3, <1>4, <2>1, <2>2, <2>3 DEF Advances, PStages
<1>5. CASE server' = server /\ (P!ReturnError("down", NoPatch, FALSE) \/ CallFails(NoPatch, FALSE))
  <2>1. Moved("save", NoPatch) /\ NoPatch \in Patches
    BY <1>1, <1>5, PatchTypes, ReturnsMove DEF Messages
  <2>2. QED
    BY <1>1, <1>5, <2>1, NothingSaid, StopAdvance
<1>6. CASE ppass.at = "grant" /\ server.open /\ Granted /\ UNCHANGED server
  <2>1. Grows(World, World') /\ TablesInv'
    BY <1>1, <1>2, <1>6, SameWorld, TablesRest
  <2>2. World'.granted
    BY <1>1, <1>2, <1>6 DEF World, TablesInv, AllConfigs
  <2>3. QED
    BY <1>4, <1>6, <2>1, <2>2
<1>7. CASE /\ ppass.at = "grant" /\ ~server.open
           /\ server' = [server EXCEPT !.open = server.closed, !.closed = FALSE]
           /\ GoOn("default", NoPatch)
  <2>1. /\ server'.open = server.closed /\ ~server'.closed /\ server'.role = server.role
        /\ server'.database = server.database /\ server'.default = server.default
    BY <1>1, <1>7 DEF Servers
  <2>2. Grows(World, World')
    BY <1>1, <1>7, <2>1 DEF Grows, World, Copies, Shared
  <2>3. TablesInv'
    BY <1>1, <1>2, <1>7, <2>1 DEF TablesInv
  <2>4. Moved("default", NoPatch) /\ NoPatch \in Patches
    BY <1>1, <1>7, PatchTypes, ReturnsMove DEF PStages
  <2>5. StageInv'
    BY <1>1, <1>2, <1>7, <2>1, <2>4 DEF Moved, StageInv, Copies, Shared
  <2>6. QED
    BY <2>2, <2>3, <2>4, <2>5, NothingSaid DEF Advances, PStages
<1>8. CASE ppass.at = "default" /\ server' = [server EXCEPT !.default = TRUE] /\ Granted
  <2>1. /\ server'.open = server.open /\ server'.closed = server.closed
        /\ server'.role = server.role /\ server'.database = server.database /\ server'.default
    BY <1>1, <1>8 DEF Servers
  <2>2. Grows(World, World') /\ TablesInv' /\ World'.granted
    BY <1>1, <1>2, <1>8, <2>1 DEF Grows, World, Copies, Shared, TablesInv
  <2>3. QED
    BY <1>4, <1>8, <2>2
<1>9. QED
  BY <1>5, <1>6, <1>7, <1>8 DEF Grant, GrantDefault, Down

\* The database is called Ready when all that it needs is.
LEMMA StatusAdvance == TypeInv /\ UsableInv /\ PComponents /\ Status => Advances
<1> SUFFICES ASSUME TypeInv, UsableInv, PComponents, Status PROVE Advances
  OBVIOUS
<1>1. /\ ppass.at = "status" /\ ppass.at \in PStages /\ ppass # P!Idle
      /\ UNCHANGED <<config, owned, server, copy>>
  BY Running, ComponentsReturn DEF PComponents, Status
<1>2. World' = World
  BY <1>1 DEF World, Copies, Shared
<1>3. Truthful(ppass.obj.status, World) /\ (Copies => copy # "none")
  BY <1>1 DEF UsableInv, SaysInv, StageInv, PStages
<1>4. PICK patch \in {[NoPatch EXCEPT !.phase = "Ready"], NoPatch} :
        /\ GoOn("save", patch)
        /\ patch # NoPatch =>
             LET status == ppass.obj.status
             IN /\ status.periscope \in {"Granted", "Skipped"}
                /\ status.database = "Ready" /\ status.owner = "Ready"
                /\ status.extension = "Ready"
  BY <1>1 DEF Status
<1>5. patch \in Patches /\ NoPatch \in Patches
  BY PatchTypes
<1>6. patch # NoPatch => World.usable
  <2>1. config.reports \in BOOLEAN
    BY TypeParts, ConstantsType DEF AllConfigs
  <2>2. QED
    BY <1>3, <1>4, <2>1 DEF Truthful, SaysPeriscope, World
<1>7. Truthful(patch, World')
  <2>1. /\ \A w : w.usable => Truthful([NoPatch EXCEPT !.phase = "Ready"], w)
        /\ NoPatch # [NoPatch EXCEPT !.phase = "Ready"]
    BY DEF NoPatch, Truthful, SaysPeriscope
  <2>2. QED
    BY <1>2, <1>4, <1>6, <2>1, NothingSaid
<1>8. Moved("save", patch)
  BY <1>1, <1>4, <1>5, ReturnsMove
<1>9. QED
  BY <1>1, <1>5, <1>7, <1>8, StopAdvance

\* Every component of the database keeps what is said true.
LEMMA PComponentsUsable == TypeInv /\ UsableInv /\ PComponents => UsableInv'
<1> SUFFICES ASSUME TypeInv, UsableInv, PComponents PROVE UsableInv'
  OBVIOUS
<1>1. Advances
  BY FirstAdvance, RoleAdvance, DatabaseAdvance, GrantAdvance, StatusAdvance DEF PComponents
<1>2. UNCHANGED <<config, dtop, dview, dpass, ptop, pview>> /\ ppass # P!Idle
  BY Running, ComponentsReturn DEF PComponents, dbconfigVars
<1>3. SaysD' /\ SaysP(World)
  BY <1>2, SaysParts, DRests DEF UsableInv
<1>4. \A s : Truthful(s, World) => Truthful(s, World')
  BY <1>1, StillTruthful DEF Advances
<1>5. SaysP(World)'
  <2>1. PICK stage \in PStages \cup {"save"} :
          \E patch \in Patches : Moved(stage, patch) /\ Truthful(patch, World')
    BY <1>1 DEF Advances
  <2>2. PICK patch \in Patches : Moved(stage, patch) /\ Truthful(patch, World')
    BY <2>1
  <2>3. /\ Truthful(ptop.status, World') /\ Truthful(pview.obj.status, World')
        /\ Truthful(ppass.obj.status, World') /\ Truthful(ppass.clean.status, World')
        /\ Truthful(ppass.patch, World')
    BY <1>2, <1>3, <1>4 DEF SaysP
  <2>4. Truthful(ppass'.obj.status, World') /\ Truthful(ppass'.patch, World')
    BY <2>2, <2>3 DEF Moved
  <2>5. QED
    BY <1>2, <2>2, <2>3, <2>4 DEF SaysP, Moved
<1>6. QED
  BY <1>1, <1>3, <1>5 DEF Advances, UsableInv, SaysInv, SaysD, SaysP

\* Every step does.
LEMMA NextUsable == TypeInv /\ UsableInv /\ [Next]_vars => UsableInv'
<1> SUFFICES ASSUME TypeInv, UsableInv, [Next]_vars PROVE UsableInv'
  OBVIOUS
<1>1. CASE UNCHANGED vars
  <2>1. /\ UNCHANGED <<config, dtop, dview, dpass, ptop, pview, ppass>>
        /\ UNCHANGED <<owned, server, copy>>
    BY <1>1 DEF vars
  <2>2. SaysD' /\ SaysP(World)' /\ TablesInv' /\ StageInv'
    BY <2>1, SameWorld, SaysParts, DRests, PRests, TablesRest, StageRests DEF UsableInv
  <2>3. QED
    BY <2>2 DEF UsableInv, SaysInv, SaysD, SaysP
<1>2. CASE Next
  BY <1>2, BeginSyncUsable, DSaveUsable, PSaveUsable, DComponentsUsable, PComponentsUsable,
     AroundUsable, CrashUsable DEF Next, DWorker, PWorker
<1>3. QED
  BY <1>1, <1>2

\* However the two objects, their owned objects, the cluster and the application take
\* turns, and whatever fails, is stale or restarts: a database that is called Ready has its
\* role, its extension, the copy of the password and itself; and periscope is called
\* Granted only when it reads every table, also those to come, but for the two ways that
\* go unnoticed.
THEOREM ReadyMeansUsableCorrect == Spec => []ReadyMeansUsable
<1>1. UsableInv => ReadyMeansUsable
  <2>1. SUFFICES ASSUME UsableInv PROVE ReadyMeansUsable
    OBVIOUS
  <2>2. Truthful(ptop.status, World)
    BY <2>1 DEF UsableInv, SaysInv
  <2>3. ptop.status.phase = "Ready" => World.usable
    BY <2>2 DEF Truthful
  <2>4. ptop.status.periscope = "Granted" => World.granted
    BY <2>2 DEF Truthful
  <2>5. World.granted => Unnoticed \/ (server.default /\ ~server.closed)
    BY DEF World, Unnoticed
  <2>6. QED
    BY <2>3, <2>4, <2>5 DEF ReadyMeansUsable, World
<1>2. Spec => []UsableInv
  <2>1. Init => UsableInv
    BY InitUsable
  <2>2. TypeInv /\ UsableInv /\ [Next]_vars => UsableInv'
    BY NextUsable
  <2>3. QED
    BY <2>1, <2>2, TypeInvariant, PTL DEF Spec
<1>3. QED
  BY <1>1, <1>2, PTL
=============================================================================

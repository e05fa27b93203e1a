------------------------ MODULE SummonRolloutProofs ------------------------
(***************************************************************************)
(* What holds of SummonRollout for every set of versions, every bound and  *)
(* every combination of failures.                                          *)
(***************************************************************************)
EXTENDS SummonRollout, TLAPS

-----------------------------------------------------------------------------
(* Patches.                                                                 *)

\* The empty modifier is a modifier.
LEMMA NoPatchType == NoPatch \in Patches
BY ConstantsOK DEF NoPatch, Patches, Phases, DependencyStatus, Deadlines

\* Running modifiers keeps the types and Spec.Version; the MigrateVersion is
\* the old one or the captured one.
LEMMA ApplyType ==
    ASSUME NEW p \in Patches, NEW o \in Objects
    PROVE  /\ Apply(p, o) \in Objects
           /\ Apply(p, o).version = o.version
           /\ Apply(p, o).migrateV \in {o.migrateV, p.migrateV}
<1>1. /\ Or(p.phase, o.phase) \in Phases
      /\ Or(p.pg, o.pg) \in DependencyStatus
      /\ Or(p.pull, o.pull) \in DependencyStatus
      /\ Or(p.until, o.until) \in Deadlines
  BY DEF Or, Patches, Objects
<1>2. /\ (IF p.backup THEN o.version ELSE o.backupV) \in Versions \cup {NoVersion}
      /\ (IF p.migrateV = NoVersion THEN o.migrateV ELSE p.migrateV)
           \in Versions \cup {NoVersion}
  BY DEF Patches, Objects
<1>3. QED
  BY <1>1, <1>2 DEF Apply, Objects

\* Modifiers run one after the other are modifiers.
LEMMA ThenType ==
    ASSUME NEW p \in Patches, NEW q \in Patches
    PROVE  /\ Then(p, q) \in Patches
           /\ Then(p, q).migrateV \in {p.migrateV, q.migrateV}
BY DEF Then, Or, Patches

-----------------------------------------------------------------------------
(* Type correctness.                                                        *)

\* A SummonPlatform that nothing was reported of yet is well typed.
LEMMA NewObjectType ==
    ASSUME NEW v \in Versions \cup {NoVersion}
    PROVE  NewObject(v) \in Objects /\ NewObject(v).version = v
BY DEF NewObject, Objects, Phases, DependencyStatus, Deadlines

\* What ConstantsOK says of the numbers and of PostMigrate, in the forms used.
LEMMA BoundsType ==
    /\ MaxTries \in Nat \ {0} /\ MaxEdits \in Nat /\ MaxTouches \in Nat
    /\ PostMigrate \in BOOLEAN
<1>1. MaxTries \in Nat \ {0} /\ MaxEdits \in Nat /\ MaxTouches \in Nat
  BY ConstantsOK
<1>2. PostMigrate \in BOOLEAN
  BY ConstantsOK
<1>3. QED
  BY <1>1, <1>2

\* The initial states are well typed.
LEMMA InitType == Init => TypeOK
<1> SUFFICES ASSUME Init PROVE TypeOK
  OBVIOUS
<1>1. ClusterTypeOK
  <2>1. depl \in [template : Versions \cup {NoVersion},
                 running : Versions \cup {NoVersion},
                 updated : BOOLEAN, available : BOOLEAN]
    BY DEF Init
  <2>2. snap \in [Versions -> SnapshotStates]
    BY DEF Init, SnapshotStates
  <2>3. QED
    BY <2>1, <2>2 DEF Init, ClusterTypeOK, DependencyStatus
<1>2. OperatorTypeOK
  <2>1. PICK v \in Versions : top = NewObject(v)
    BY DEF Init
  <2>2. /\ top \in Objects /\ cache \in Objects
        /\ top.version \in Versions /\ cache.version \in Versions
    BY <2>1, NewObjectType DEF Init
  <2>3. mem \in Objects /\ clean \in Objects
    BY NewObjectType DEF Init
  <2>4. 0 \in 0 .. MaxTries
    BY BoundsType
  <2>5. QED
    BY <2>2, <2>3, <2>4, NoPatchType DEF Init, OperatorTypeOK, Gated
<1>3. BoundTypeOK
  <2>1. edits = 0 /\ touches = 0 /\ migrated = {} /\ backedUp = {}
    BY DEF Init
  <2>2. 0 \in 0 .. MaxEdits /\ 0 \in 0 .. MaxTouches
    BY BoundsType
  <2>3. QED
    BY <2>1, <2>2 DEF BoundTypeOK
<1>4. QED
  BY <1>1, <1>2, <1>3 DEF TypeOK

\* A component step, or an error of one, keeps the operator's types whatever
\* well-typed modifier the component returned.
LEMMA StepType ==
    ASSUME OperatorTypeOK, BoundTypeOK, NEW from, NEW to \in Stages \cup {"save"},
           NEW p \in Patches, NEW rq \in BOOLEAN, NEW aft \in BOOLEAN,
           Step(from, to, p, rq, aft), from # "idle"
    PROVE  OperatorTypeOK' /\ BoundTypeOK'
<1>1. mem' \in Objects /\ mem'.version = mem.version
  BY ApplyType DEF Step, Merge, OperatorTypeOK
<1>2. patch' \in Patches
  BY ThenType DEF Step, Merge, OperatorTypeOK
<1>3. requeue' \in BOOLEAN /\ after' \in BOOLEAN
  BY DEF Step, Merge, OperatorTypeOK
<1>4. QED
  BY <1>1, <1>2, <1>3
     DEF Step, OperatorTypeOK, BoundTypeOK, historyVars, boundVars

\* The same of a component that returns an error.
LEMMA StepErrorType ==
    ASSUME OperatorTypeOK, BoundTypeOK, NEW from, NEW p \in Patches,
           NEW rq \in BOOLEAN, StepError(from, p, rq), from # "idle"
    PROVE  OperatorTypeOK' /\ BoundTypeOK'
<1>1. mem' \in Objects /\ mem'.version = mem.version
  BY ApplyType DEF StepError, OperatorTypeOK, Objects, Phases
<1>2. patch' \in Patches
  BY ThenType DEF StepError, OperatorTypeOK
<1>3. requeue' \in BOOLEAN
  BY DEF StepError, OperatorTypeOK
<1>4. QED
  BY <1>1, <1>2, <1>3
     DEF StepError, OperatorTypeOK, BoundTypeOK, historyVars, boundVars

\* The stage that follows another one is a stage or the end of the pass.
LEMMA StagesType ==
    /\ ToBackup \in Stages \cup {"save"} /\ ToMigrations \in Stages \cup {"save"}
    /\ ToMigrateWait \in Stages \cup {"save"}
    /\ ToDeployment \in Stages \cup {"save"}
BY DEF ToBackup, ToMigrations, ToMigrateWait, ToDeployment, Stages

\* Every modifier a component returns is well typed.
LEMMA PatchTypes ==
    /\ \A p \in Phases \ {""} : SetPhase(p) \in Patches
    /\ RecordBackup \in Patches
    /\ \A v \in Versions : [NoPatch EXCEPT !.phase = "PostMigrateWait",
                                          !.migrateV = v] \in Patches
    /\ [NoPatch EXCEPT !.until = "waiting"] \in Patches
    /\ [NoPatch EXCEPT !.phase = "Deploying", !.until = ""] \in Patches
    /\ [NoPatch EXCEPT !.phase = "CreatingBackup"] \in Patches
    /\ ClusterTypeOK => PullSecretPatch \in Patches /\ PostgresPatch \in Patches
BY DEF SetPhase, RecordBackup, NoPatch, Patches, Phases, DependencyStatus,
       Deadlines, ClusterTypeOK, PullSecretPatch, PostgresPatch

\* The components keep the types.
LEMMA ComponentsType == TypeOK /\ (Components \/ Fail) => TypeOK'
<1> SUFFICES ASSUME TypeOK, Components \/ Fail PROVE TypeOK'
  OBVIOUS
<1>0. ClusterTypeOK /\ OperatorTypeOK /\ BoundTypeOK
  BY DEF TypeOK
<1> USE <1>0, StepType, StepErrorType, StagesType, PatchTypes, NoPatchType
<1>1. CASE PullSecret
  BY <1>1 DEF PullSecret, TypeOK, ClusterTypeOK, clusterVars, Stages
<1>2. CASE Postgres
  BY <1>2 DEF Postgres, TypeOK, ClusterTypeOK, clusterVars
<1>3. CASE Backup
  <2>1. ASSUME BackupSkipped PROVE TypeOK'
    BY <1>3, <2>1 DEF Backup, BackupSkipped, TypeOK, ClusterTypeOK
  <2>2. ASSUME BackupTaken PROVE TypeOK'
    <3>1. snap' \in [Versions -> SnapshotStates]
      BY <2>2 DEF BackupTaken, ClusterTypeOK, SnapshotStates
    <3>2. OperatorTypeOK' /\ BoundTypeOK'
      <4>1. CASE Step("backup", ToMigrations, RecordBackup, FALSE, FALSE)
        BY <4>1
      <4>2. CASE Step("backup", ToMigrations, NoPatch, FALSE, FALSE)
        BY <4>2
      <4>3. CASE Step("backup", ToMigrations,
                      [NoPatch EXCEPT !.phase = "CreatingBackup"], FALSE, FALSE)
        BY <4>3
      <4>4. CASE Step("backup", ToMigrations, NoPatch, FALSE, TRUE)
        BY <4>4
      <4>5. QED
        BY <2>2, <4>1, <4>2, <4>3, <4>4 DEF BackupTaken
    <3>3. QED
      BY <1>3, <3>1, <3>2 DEF Backup, TypeOK, ClusterTypeOK
  <2>3. QED
    BY <1>3, <2>1, <2>2 DEF Backup
<1>4. CASE Migrations
  <2>1. ASSUME MigrationNeeded, pc = "migrations"
        PROVE  mem.version \in Versions
    BY <2>1 DEF OperatorTypeOK
  <2>2. job' \in Jobs \cup {NoJob}
    <3>1. CASE MigrationsCreate
      <4>1. CASE job = NoJob
        <5>1. mem.version \in Versions
          BY <3>1, <4>1, <2>1 DEF MigrationsCreate, Step
        <5>2. job' = [version |-> mem.version, state |-> "running"]
          BY <3>1, <4>1 DEF MigrationsCreate
        <5>3. QED
          BY <5>1, <5>2 DEF Jobs, JobStates
      <4>2. CASE job # NoJob
        BY <3>1, <4>2 DEF MigrationsCreate, ClusterTypeOK
      <4>3. QED
        BY <4>1, <4>2
    <3>2. CASE ~MigrationsCreate
      BY <1>4, <3>2
         DEF Migrations, MigrationsNotNeeded, MigrationsReplace,
             MigrationsSucceeded, MigrationsUnfinished, ClusterTypeOK
    <3>3. QED
      BY <3>1, <3>2
  <2>3. OperatorTypeOK' /\ BoundTypeOK'
    <3>1. CASE MigrationsNotNeeded
      BY <3>1 DEF MigrationsNotNeeded, Phases
    <3>2. CASE MigrationsCreate
      BY <3>2 DEF MigrationsCreate, Phases
    <3>3. CASE MigrationsReplace
      BY <3>3 DEF MigrationsReplace
    <3>4. CASE MigrationsSucceeded
      BY <3>4, <2>1 DEF MigrationsSucceeded, Step
    <3>5. CASE MigrationsUnfinished
      BY <3>5 DEF MigrationsUnfinished, Phases
    <3>6. QED
      BY <1>4, <3>1, <3>2, <3>3, <3>4, <3>5 DEF Migrations
  <2>4. QED
    BY <1>4, <2>2, <2>3 DEF Migrations, TypeOK, ClusterTypeOK, clusterVars
<1>5. CASE MigrateWait
  <2>1. PostMigrate \in BOOLEAN
    BY BoundsType
  <2>2. OperatorTypeOK' /\ BoundTypeOK'
    <3>1. CASE Step("migratewait", ToDeployment, NoPatch, FALSE, FALSE)
      BY <3>1
    <3>2. CASE Step("migratewait", ToDeployment,
                    [NoPatch EXCEPT !.until = "waiting"], FALSE, PostMigrate)
      BY <3>2, <2>1
    <3>3. CASE Step("migratewait", ToDeployment,
                    [NoPatch EXCEPT !.phase = "Deploying", !.until = ""],
                    FALSE, FALSE)
      BY <3>3
    <3>4. QED
      BY <1>5, <3>1, <3>2, <3>3 DEF MigrateWait
  <2>3. QED
    BY <1>5, <2>2 DEF MigrateWait, TypeOK, ClusterTypeOK, clusterVars
<1>6. CASE Deployment
  <2>1. depl' \in [template : Versions \cup {NoVersion},
                 running : Versions \cup {NoVersion},
                 updated : BOOLEAN, available : BOOLEAN]
    BY <1>6 DEF Deployment, ClusterTypeOK, OperatorTypeOK, Objects
  <2>2. OperatorTypeOK' /\ BoundTypeOK'
    BY <1>6 DEF Deployment, Stages
  <2>3. QED
    BY <1>6, <2>1, <2>2 DEF Deployment, TypeOK, ClusterTypeOK
<1>7. CASE Status
  BY <1>7 DEF Status, TypeOK, ClusterTypeOK, clusterVars, Phases
<1>8. CASE Fail
  <2>1. CASE \E c \in Stages, rq \in BOOLEAN : StepError(c, NoPatch, rq)
    <3>1. PICK c \in Stages, rq \in BOOLEAN : StepError(c, NoPatch, rq)
      BY <2>1
    <3>2. OperatorTypeOK' /\ BoundTypeOK'
      BY <3>1 DEF Stages
    <3>3. QED
      BY <1>8, <3>2 DEF Fail, TypeOK, ClusterTypeOK, clusterVars
  <2>2. CASE StepError("pullsecret", PullSecretPatch, TRUE)
    BY <1>8, <2>2 DEF Fail, TypeOK, ClusterTypeOK, clusterVars
  <2>3. CASE StepError("postgres", PostgresPatch, TRUE)
    BY <1>8, <2>3 DEF Fail, TypeOK, ClusterTypeOK, clusterVars
  <2>4. QED
    BY <1>8, <2>1, <2>2, <2>3 DEF Fail
<1>9. QED
  BY <1>1, <1>2, <1>3, <1>4, <1>5, <1>6, <1>7, <1>8 DEF Components

\* Forgetting the pass leaves its variables well typed.
LEMMA ClearPassType ==
    ASSUME ClearPass, NEW v \in Versions
    PROVE  /\ pc' = "idle" /\ mem' \in Objects /\ clean' \in Objects
           /\ memOK' = FALSE /\ ready' = {} /\ patch' \in Patches
           /\ requeue' = FALSE /\ after' = FALSE /\ tries' \in 0 .. MaxTries
<1>1. 0 \in 0 .. MaxTries
  BY BoundsType
<1>2. QED
  BY <1>1, NewObjectType, NoPatchType DEF ClearPass

\* Writing a well-typed object of the right version ends the pass.
LEMMA FinishType ==
    ASSUME TypeOK, Finish, top' \in Objects, top'.version \in Versions,
           cacheOK' \in BOOLEAN
    PROVE  TypeOK'
<1>1. ClusterTypeOK'
  BY DEF TypeOK, ClusterTypeOK, Finish, clusterVars
<1>2. BoundTypeOK'
  BY DEF TypeOK, BoundTypeOK, Finish, boundVars, historyVars
<1>3. /\ pc' = "idle" /\ mem' \in Objects /\ clean' \in Objects
      /\ memOK' = FALSE /\ ready' = {} /\ patch' \in Patches
      /\ requeue' = FALSE /\ after' = FALSE /\ tries' \in 0 .. MaxTries
  BY ClearPassType DEF Finish, TypeOK, OperatorTypeOK
<1>4. OperatorTypeOK'
  BY <1>3 DEF Finish, TypeOK, OperatorTypeOK
<1>5. QED
  BY <1>1, <1>2, <1>4 DEF TypeOK

\* The end of the pass keeps the types; in particular modifyStatus never tries
\* more than MaxTries times.
LEMMA SaveType == TypeOK /\ Save => TypeOK'
<1> SUFFICES ASSUME TypeOK, Save PROVE TypeOK'
  OBVIOUS
<1>0. ClusterTypeOK /\ OperatorTypeOK /\ BoundTypeOK
  BY DEF TypeOK
<1>1. CASE SaveNothing
  BY <1>1, <1>0, FinishType DEF SaveNothing, OperatorTypeOK
<1>2. CASE SaveFast
  BY <1>2, <1>0, FinishType DEF SaveFast, OperatorTypeOK
<1>3. CASE SaveConflict
  BY <1>3, <1>0
     DEF SaveConflict, TypeOK, ClusterTypeOK, OperatorTypeOK, BoundTypeOK,
         clusterVars, passVars, boundVars, historyVars
<1>4. CASE Replay
  <2>1. top' \in Objects /\ top'.version = cache.version
    BY <1>4, <1>0, ApplyType DEF Replay, OperatorTypeOK
  <2>2. QED
    BY <1>4, <1>0, <2>1, FinishType DEF Replay, OperatorTypeOK
<1>5. CASE ReplayConflict
  <2>1. tries' \in 0 .. MaxTries
    BY <1>5, <1>0, BoundsType DEF ReplayConflict, OperatorTypeOK
  <2>2. QED
    BY <1>5, <1>0, <2>1
       DEF ReplayConflict, TypeOK, ClusterTypeOK, OperatorTypeOK, BoundTypeOK,
           clusterVars, boundVars, historyVars
<1>6. CASE ReplayGiveUp
  <2>1. /\ pc' = "idle" /\ mem' \in Objects /\ clean' \in Objects
        /\ memOK' = FALSE /\ ready' = {} /\ patch' \in Patches
        /\ requeue' = FALSE /\ after' = FALSE /\ tries' \in 0 .. MaxTries
    BY <1>6, <1>0, ClearPassType DEF ReplayGiveUp, OperatorTypeOK
  <2>2. OperatorTypeOK'
    BY <1>6, <1>0, <2>1 DEF ReplayGiveUp, OperatorTypeOK
  <2>3. QED
    BY <1>6, <1>0, <2>2
       DEF ReplayGiveUp, TypeOK, ClusterTypeOK, BoundTypeOK, clusterVars,
           boundVars, historyVars
<1>7. QED
  BY <1>1, <1>2, <1>3, <1>4, <1>5, <1>6 DEF Save

\* Watch events, timers, the start of a pass and restarts keep the types.
LEMMA WatchesType ==
    TypeOK /\ (Begin \/ Watches \/ OtherEvent \/ Crash) => TypeOK'
<1> SUFFICES ASSUME TypeOK, Begin \/ Watches \/ OtherEvent \/ Crash
             PROVE  TypeOK'
  OBVIOUS
<1>0. ClusterTypeOK /\ OperatorTypeOK /\ BoundTypeOK
  BY DEF TypeOK
<1>1. CASE Begin
  BY <1>1, <1>0
     DEF Begin, TypeOK, ClusterTypeOK, OperatorTypeOK, BoundTypeOK, ReadySet,
         Stages, clusterVars, boundVars, historyVars
<1>2. CASE Watches
  BY <1>2, <1>0
     DEF Watches, SyncTop, SyncJob, TimerFires, TypeOK, ClusterTypeOK,
         OperatorTypeOK, BoundTypeOK, operatorIdle, passVars, clusterVars,
         boundVars, historyVars
<1>3. CASE OtherEvent
  BY <1>3, <1>0
     DEF OtherEvent, TypeOK, ClusterTypeOK, OperatorTypeOK, BoundTypeOK,
         operatorIdle, passVars, clusterVars, boundVars, historyVars
<1>4. CASE Crash
  <2>1. /\ pc' = "idle" /\ mem' \in Objects /\ clean' \in Objects
        /\ memOK' = FALSE /\ ready' = {} /\ patch' \in Patches
        /\ requeue' = FALSE /\ after' = FALSE /\ tries' \in 0 .. MaxTries
    BY <1>4, <1>0, ClearPassType DEF Crash, OperatorTypeOK
  <2>2. OperatorTypeOK'
    BY <1>4, <1>0, <2>1 DEF Crash, OperatorTypeOK, ClusterTypeOK
  <2>3. QED
    BY <1>4, <1>0, <2>2
       DEF Crash, TypeOK, ClusterTypeOK, BoundTypeOK, clusterVars, boundVars,
           historyVars
<1>5. QED
  BY <1>1, <1>2, <1>3, <1>4

\* The user, the clock and the other controllers keep the types.
LEMMA EnvironmentType ==
    TypeOK /\ (EditVersion \/ Touch \/ Tick \/ Cluster) => TypeOK'
<1> SUFFICES ASSUME TypeOK, EditVersion \/ Touch \/ Tick \/ Cluster
             PROVE  TypeOK'
  OBVIOUS
<1>0. ClusterTypeOK /\ OperatorTypeOK /\ BoundTypeOK
  BY DEF TypeOK
<1>1. CASE EditVersion
  <2>1. top' \in Objects /\ top'.version \in Versions
    BY <1>1, <1>0 DEF EditVersion, OperatorTypeOK, Objects
  <2>2. edits' \in 0 .. MaxEdits
    BY <1>1, <1>0, BoundsType DEF EditVersion, BoundTypeOK
  <2>3. OperatorTypeOK'
    BY <1>1, <1>0, <2>1 DEF EditVersion, OperatorTypeOK
  <2>4. ClusterTypeOK' /\ BoundTypeOK'
    BY <1>1, <1>0, <2>2
       DEF EditVersion, ClusterTypeOK, BoundTypeOK, clusterVars, historyVars
  <2>5. QED
    BY <2>3, <2>4 DEF TypeOK
<1>2. CASE Touch
  <2>1. touches' \in 0 .. MaxTouches
    BY <1>2, <1>0, BoundsType DEF Touch, BoundTypeOK
  <2>2. OperatorTypeOK'
    BY <1>2, <1>0 DEF Touch, OperatorTypeOK
  <2>3. ClusterTypeOK' /\ BoundTypeOK'
    BY <1>2, <1>0, <2>1
       DEF Touch, ClusterTypeOK, BoundTypeOK, clusterVars, historyVars
  <2>4. QED
    BY <2>2, <2>3 DEF TypeOK
<1>3. CASE Tick
  <2>1. ASSUME NEW o \in Objects
        PROVE  /\ [o EXCEPT !.until = Elapse(@)] \in Objects
               /\ [o EXCEPT !.until = Elapse(@)].version = o.version
    BY DEF Objects, Elapse, Deadlines
  <2>2. patch' \in Patches
    BY <1>3, <1>0 DEF Tick, OperatorTypeOK, Patches, Elapse, Deadlines
  <2>3. /\ top' \in Objects /\ cache' \in Objects
        /\ mem' \in Objects /\ clean' \in Objects
        /\ top'.version = top.version /\ cache'.version = cache.version
        /\ mem'.version = mem.version
    BY <1>3, <1>0, <2>1 DEF Tick, OperatorTypeOK
  <2>4. QED
    BY <1>3, <1>0, <2>2, <2>3
       DEF Tick, TypeOK, ClusterTypeOK, OperatorTypeOK, BoundTypeOK,
           clusterVars, boundVars, historyVars
<1>4. CASE Cluster
  <2>1. OperatorTypeOK'
    BY <1>4, <1>0
       DEF Cluster, DatabaseMoves, PullSecretMoves, SnapshotMoves, JobSucceeds,
           JobFails, DeploymentMoves, OperatorTypeOK, operatorVars, copies
  <2>2. BoundTypeOK'
    <3>1. CASE JobSucceeds
      BY <1>0, <3>1
         DEF JobSucceeds, BoundTypeOK, ClusterTypeOK, Jobs, NoJob, boundVars
    <3>2. CASE ~JobSucceeds
      BY <1>4, <1>0, <3>2
         DEF Cluster, DatabaseMoves, PullSecretMoves, SnapshotMoves, JobFails,
             DeploymentMoves, BoundTypeOK, boundVars, historyVars
    <3>3. QED
      BY <3>1, <3>2
  <2>3. ClusterTypeOK'
    <3>1. CASE DatabaseMoves \/ PullSecretMoves
      BY <1>0, <3>1
         DEF DatabaseMoves, PullSecretMoves, ClusterTypeOK, DependencyStatus
    <3>2. CASE SnapshotMoves
      BY <1>0, <3>2 DEF SnapshotMoves, ClusterTypeOK, SnapshotStates
    <3>3. CASE JobSucceeds \/ JobFails
      BY <1>0, <3>3
         DEF JobSucceeds, JobFails, ClusterTypeOK, Jobs, JobStates, NoJob,
             clusterVars
    <3>4. CASE DeploymentMoves
      BY <1>0, <3>4 DEF DeploymentMoves, ClusterTypeOK
    <3>5. QED
      BY <1>4, <3>1, <3>2, <3>3, <3>4 DEF Cluster
  <2>4. QED
    BY <2>1, <2>2, <2>3 DEF TypeOK
<1>5. QED
  BY <1>1, <1>2, <1>3, <1>4

\* TypeOK is inductive.
LEMMA NextType == TypeOK /\ [Next]_vars => TypeOK'
<1> SUFFICES ASSUME TypeOK, [Next]_vars PROVE TypeOK'
  OBVIOUS
<1>1. CASE UNCHANGED vars
  BY <1>1
     DEF vars, TypeOK, ClusterTypeOK, OperatorTypeOK, BoundTypeOK
<1>2. CASE Next
  BY <1>2, ComponentsType, SaveType, WatchesType, EnvironmentType DEF Next
<1>3. QED
  BY <1>1, <1>2

\* Every variable of the rollout keeps its type; in particular the version a
\* pass works on is never empty once the pass has begun.
THEOREM TypeCorrect == Spec => []TypeOK
<1>1. Init => TypeOK
  BY InitType
<1>2. TypeOK /\ [Next]_vars => TypeOK'
  BY NextType
<1>3. QED
  BY <1>1, <1>2, PTL DEF Spec

-----------------------------------------------------------------------------
(* The recorded migrations.  A MigrateVersion reaches the stored object from *)
(* ctx.Top, from the modifiers or from a cached copy, and is first taken     *)
(* from a cached Job; so all of these have to be honest together.            *)

Done == migrated \cup {NoVersion}

RecordsHonest ==
    /\ top.migrateV \in Done /\ cache.migrateV \in Done
    /\ mem.migrateV \in Done /\ patch.migrateV \in Done

JobsHonest ==
    /\ job.state = "succeeded" => job.version \in migrated
    /\ jobCache.state = "succeeded" => jobCache.version \in migrated

MigrateInv == TypeOK /\ RecordsHonest /\ JobsHonest

\* Deadlines can be trusted while no wait is configured, for then there are none,
\* and until the user first changes Spec.Version.
Steady == ~PostMigrate \/ edits = 0

\* Until then every copy has the one version there is.
OneVersion ==
    edits = 0 =>
        /\ cache.version = top.version
        /\ pc # "idle" => mem.version = top.version

\* No deadline exists unless a wait is configured and, while deadlines can be
\* trusted, the version was migrated.
NoDeadlines ==
    /\ top.until = "" /\ cache.until = "" /\ mem.until = ""
    /\ patch.until \in {"keep", ""}

DeadlinesHonest ==
    \/ NoDeadlines
    \/ PostMigrate /\ (edits = 0 => top.version \in migrated)

\* A database that has no status yet keeps every gated component from running.
NoDatabaseYet ==
    pgStatus = "" => /\ top.pg = "" /\ cache.pg = "" /\ mem.pg = ""
                     /\ patch.pg \in {"keep", ""}
                     /\ ready = {}

\* A pass that is about to deploy has seen its version migrated.
DeployingHonest ==
    pc \in Gated /\ mem.phase \in {"Deploying", "PostMigrateWait"}
        => mem.version \in migrated

DeployInv ==
    /\ MigrateInv /\ OneVersion /\ DeadlinesHonest /\ NoDatabaseYet
    /\ Steady => DeployingHonest /\ DeployOnlyMigrated

-----------------------------------------------------------------------------
(* What every component step has in common.                                 *)

\* What a component's modifier may assign, in the state it runs in: a version
\* only if the cached Job of that version succeeded, a database status only as
\* the database has it, a deadline only if a wait is configured or pending, and one
\* that is not pending only after a migration, Ready
\* only if pods are available, and, where backups are waited for, a backup only if it
\* is there or was recorded.
Modest(p) ==
    /\ p \in Patches
    /\ p.migrateV # NoVersion
         => jobCache = [version |-> p.migrateV, state |-> "succeeded"]
    /\ p.pg \in {"keep", pgStatus}
    /\ ~PostMigrate /\ mem.until = "" => p.until \in {"keep", ""}
    /\ \/ p.until \in {"keep", ""} \/ mem.until # ""
       \/ pc \in Gated /\ mem.phase = "PostMigrateWait"
    /\ p.phase = "Ready" => depl.available
    /\ p.backup /\ HasRDS /\ WaitUntilReady
         => mem.backupV = mem.version \/ snap[mem.version] = "ready"

\* What a component step with modifier p does, field by field.
LEMMA StepEffect ==
    ASSUME OperatorTypeOK, NEW from, NEW to, NEW p \in Patches, NEW rq, NEW aft,
           Step(from, to, p, rq, aft)
    PROVE  /\ pc = from /\ pc' = to
           /\ mem'.version = mem.version
           /\ mem'.phase = Or(p.phase, mem.phase)
           /\ mem'.pg = Or(p.pg, mem.pg)
           /\ mem'.until = Or(p.until, mem.until)
           /\ mem'.migrateV \in {mem.migrateV, p.migrateV}
           /\ p.migrateV = NoVersion => mem'.migrateV = mem.migrateV
           /\ mem'.backupV = IF p.backup THEN mem.version ELSE mem.backupV
           /\ patch'.backup = (patch.backup \/ p.backup)
           /\ patch'.phase = Or(p.phase, patch.phase)
           /\ patch'.pg = Or(p.pg, patch.pg)
           /\ patch'.until = Or(p.until, patch.until)
           /\ patch'.migrateV \in {patch.migrateV, p.migrateV}
           /\ UNCHANGED <<top, cache, jobCache, ready, migrated, backedUp, edits>>
<1>1. mem' = Apply(p, mem) /\ patch' = Then(patch, p)
  BY DEF Step, Merge
<1>2. /\ mem'.version = mem.version
      /\ mem'.phase = Or(p.phase, mem.phase)
      /\ mem'.pg = Or(p.pg, mem.pg)
      /\ mem'.until = Or(p.until, mem.until)
      /\ mem'.migrateV \in {mem.migrateV, p.migrateV}
      /\ p.migrateV = NoVersion => mem'.migrateV = mem.migrateV
      /\ mem'.backupV = IF p.backup THEN mem.version ELSE mem.backupV
  BY <1>1 DEF Apply, OperatorTypeOK, Objects
<1>3. /\ patch'.phase = Or(p.phase, patch.phase)
      /\ patch'.pg = Or(p.pg, patch.pg)
      /\ patch'.until = Or(p.until, patch.until)
      /\ patch'.migrateV \in {patch.migrateV, p.migrateV}
      /\ patch'.backup = (patch.backup \/ p.backup)
  BY <1>1 DEF Then
<1>4. QED
  BY <1>2, <1>3 DEF Step, boundVars, historyVars

\* What a failing component step with modifier p does, field by field.
LEMMA StepErrorEffect ==
    ASSUME OperatorTypeOK, NEW from, NEW p \in Patches, NEW rq,
           StepError(from, p, rq)
    PROVE  /\ pc = from /\ pc' = "save"
           /\ mem'.version = mem.version /\ mem'.phase = "Error"
           /\ mem'.pg = Or(p.pg, mem.pg)
           /\ mem'.until = Or(p.until, mem.until)
           /\ mem'.migrateV \in {mem.migrateV, p.migrateV}
           /\ p.migrateV = NoVersion => mem'.migrateV = mem.migrateV
           /\ mem'.backupV = IF p.backup THEN mem.version ELSE mem.backupV
           /\ patch'.backup = (patch.backup \/ p.backup)
           /\ patch'.phase = Or(p.phase, patch.phase)
           /\ patch'.pg = Or(p.pg, patch.pg)
           /\ patch'.until = Or(p.until, patch.until)
           /\ patch'.migrateV \in {patch.migrateV, p.migrateV}
           /\ UNCHANGED <<top, cache, jobCache, ready, migrated, backedUp, edits>>
<1>1. mem' = [Apply(p, mem) EXCEPT !.phase = "Error"] /\ patch' = Then(patch, p)
  BY DEF StepError
<1>2. /\ mem'.version = mem.version /\ mem'.phase = "Error"
      /\ mem'.pg = Or(p.pg, mem.pg)
      /\ mem'.until = Or(p.until, mem.until)
      /\ mem'.migrateV \in {mem.migrateV, p.migrateV}
      /\ p.migrateV = NoVersion => mem'.migrateV = mem.migrateV
      /\ mem'.backupV = IF p.backup THEN mem.version ELSE mem.backupV
  BY <1>1 DEF Apply, OperatorTypeOK, Objects
<1>3. /\ patch'.phase = Or(p.phase, patch.phase)
      /\ patch'.pg = Or(p.pg, patch.pg)
      /\ patch'.until = Or(p.until, patch.until)
      /\ patch'.migrateV \in {patch.migrateV, p.migrateV}
      /\ patch'.backup = (patch.backup \/ p.backup)
  BY <1>1 DEF Then
<1>4. QED
  BY <1>2, <1>3 DEF StepError, boundVars, historyVars

\* A step by a modest modifier.
ModestStep ==
    \E p \in Patches, from \in Stages, rq \in BOOLEAN :
        /\ Modest(p)
        /\ \/ StepError(from, p, rq)
           \/ \E to \in Stages \cup {"save"}, aft \in BOOLEAN :
                 Step(from, to, p, rq, aft)

\* The modifiers of the components are modest.
LEMMA ModestPatches ==
    /\ Modest(NoPatch)
    /\ ~HasRDS \/ ~WaitUntilReady \/ mem.backupV = mem.version
         \/ snap[mem.version] = "ready" => Modest(RecordBackup)
    /\ \A ph \in Phases \ {""} :
          (ph = "Ready" => depl.available) => Modest(SetPhase(ph))
    /\ Modest([NoPatch EXCEPT !.phase = "CreatingBackup"])
    /\ Modest([NoPatch EXCEPT !.phase = "Deploying", !.until = ""])
    /\ (\/ mem.until # ""
        \/ PostMigrate /\ pc \in Gated /\ mem.phase = "PostMigrateWait")
         => Modest([NoPatch EXCEPT !.until = "waiting"])
    /\ ClusterTypeOK => Modest(PullSecretPatch) /\ Modest(PostgresPatch)
    /\ \A v \in Versions : jobCache = [version |-> v, state |-> "succeeded"]
         => Modest([NoPatch EXCEPT !.phase = "PostMigrateWait", !.migrateV = v])
BY PatchTypes, NoPatchType
   DEF Modest, NoPatch, RecordBackup, SetPhase, PullSecretPatch, PostgresPatch

\* Every component step is a step or an error with a modest modifier.
LEMMA ComponentsModest ==
    TypeOK /\ (Components \/ Fail) => ModestStep
<1> SUFFICES ASSUME TypeOK, Components \/ Fail PROVE ModestStep
  OBVIOUS
<1>0. ClusterTypeOK /\ OperatorTypeOK
  BY DEF TypeOK
<1> USE <1>0, ModestPatches, StagesType
<1>a. ASSUME NEW p, Modest(p), NEW from \in Stages,
             NEW to \in Stages \cup {"save"}, NEW rq \in BOOLEAN,
             NEW aft \in BOOLEAN, Step(from, to, p, rq, aft)
      PROVE  ModestStep
  <2>1. \E t \in Stages \cup {"save"}, a \in BOOLEAN : Step(from, t, p, rq, a)
    BY <1>a
  <2>2. p \in Patches
    BY <1>a DEF Modest
  <2>3. QED
    BY <1>a, <2>1, <2>2 DEF ModestStep
<1>b. ASSUME NEW p, Modest(p), NEW from \in Stages, NEW rq \in BOOLEAN,
             StepError(from, p, rq)
      PROVE  ModestStep
  BY <1>b DEF ModestStep, Modest
<1>s. Stages = {"pullsecret", "postgres", "backup", "migrations", "migratewait",
                "deployment", "status"}
  BY DEF Stages
<1>1. CASE PullSecret
  BY <1>1, <1>a, <1>s DEF PullSecret
<1>2. CASE Postgres
  BY <1>2, <1>a, <1>b, <1>s DEF Postgres
<1>3. CASE Backup
  <2>1. CASE /\ \/ ~HasRDS \/ ~WaitUntilReady
                \/ mem.backupV = mem.version \/ snap[mem.version] = "ready"
             /\ Step("backup", ToMigrations, RecordBackup, FALSE, FALSE)
    <3>1. Modest(RecordBackup)
      BY <2>1
    <3>2. QED
      BY <2>1, <3>1, <1>a, <1>s
  <2>2. CASE Step("backup", ToMigrations, NoPatch, FALSE, FALSE)
    BY <2>2, <1>a, <1>s
  <2>3. CASE Step("backup", ToMigrations,
                  [NoPatch EXCEPT !.phase = "CreatingBackup"], FALSE, FALSE)
    BY <2>3, <1>a, <1>s
  <2>4. CASE Step("backup", ToMigrations, NoPatch, FALSE, TRUE)
    BY <2>4, <1>a, <1>s
  <2>5. QED
    BY <1>3, <2>1, <2>2, <2>3, <2>4 DEF Backup, BackupSkipped, BackupTaken
<1>4. CASE Migrations
  <2>1. CASE MigrationsSucceeded
    <3>1. CASE StepError("migrations", NoPatch, TRUE)
      BY <3>1, <1>b, <1>s
    <3>2. CASE Step("migrations", ToMigrateWait,
                    [NoPatch EXCEPT !.phase = "PostMigrateWait",
                                    !.migrateV = mem.version], FALSE, FALSE)
      <4>1. mem.version \in Versions
        BY <3>2 DEF Step, OperatorTypeOK
      <4>2. Modest([NoPatch EXCEPT !.phase = "PostMigrateWait",
                                   !.migrateV = mem.version])
        BY <2>1, <4>1 DEF MigrationsSucceeded
      <4>3. QED
        BY <3>2, <4>2, <1>a, <1>s
    <3>3. QED
      BY <2>1, <3>1, <3>2 DEF MigrationsSucceeded
  <2>2. CASE MigrationsNotNeeded
    BY <2>2, <1>a, <1>s DEF MigrationsNotNeeded, Phases
  <2>3. CASE MigrationsCreate
    BY <2>3, <1>a, <1>b, <1>s DEF MigrationsCreate, Phases
  <2>4. CASE MigrationsReplace
    BY <2>4, <1>a, <1>b, <1>s DEF MigrationsReplace
  <2>5. CASE MigrationsUnfinished
    BY <2>5, <1>a, <1>b, <1>s DEF MigrationsUnfinished, Phases
  <2>6. QED
    BY <1>4, <2>1, <2>2, <2>3, <2>4, <2>5 DEF Migrations
<1>5. CASE MigrateWait
  <2>1. CASE Step("migratewait", ToDeployment, NoPatch, FALSE, FALSE)
    BY <2>1, <1>a, <1>s
  <2>2. CASE /\ mem.phase = "PostMigrateWait" \/ mem.until # ""
             /\ ~WaitOver
             /\ Step("migratewait", ToDeployment,
                     [NoPatch EXCEPT !.until = "waiting"], FALSE, PostMigrate)
    <3>1. \/ mem.until # ""
          \/ PostMigrate /\ pc \in Gated /\ mem.phase = "PostMigrateWait"
      BY <2>2 DEF WaitOver, Step, Gated
    <3>2. QED
      BY <2>2, <3>1, <1>a, <1>s, BoundsType
  <2>3. CASE Step("migratewait", ToDeployment,
                  [NoPatch EXCEPT !.phase = "Deploying", !.until = ""],
                  FALSE, FALSE)
    BY <2>3, <1>a, <1>s
  <2>4. QED
    BY <1>5, <2>1, <2>2, <2>3 DEF MigrateWait
<1>6. CASE Deployment
  BY <1>6, <1>a, <1>s DEF Deployment
<1>7. CASE Status
  BY <1>7, <1>a, <1>s DEF Status, DeploymentsReady, Phases
<1>8. CASE Fail
  BY <1>8, <1>b, <1>s DEF Fail
<1>9. QED
  BY <1>1, <1>2, <1>3, <1>4, <1>5, <1>6, <1>7, <1>8 DEF Components

-----------------------------------------------------------------------------
(* MigrateInv is inductive.                                                 *)

\* MigrateInv holds initially.
LEMMA MigrateInit == Init => MigrateInv
<1> SUFFICES ASSUME Init PROVE MigrateInv
  OBVIOUS
<1>1. TypeOK
  BY InitType
<1>2. RecordsHonest
  <2>1. PICK v \in Versions : top = NewObject(v)
    BY DEF Init
  <2>2. top.migrateV = NoVersion /\ cache = top
    BY <2>1 DEF Init, NewObject
  <2>3. mem.migrateV = NoVersion /\ patch.migrateV = NoVersion
    BY DEF Init, NewObject, NoPatch
  <2>4. QED
    BY <2>2, <2>3 DEF RecordsHonest, Done
<1>3. JobsHonest
  BY DEF Init, JobsHonest, NoJob
<1>4. QED
  BY <1>1, <1>2, <1>3 DEF MigrateInv

\* What a component does to the migration Job: leave it, delete it, create it.
LEMMA ComponentsJob ==
    Components \/ Fail => job' = job \/ job'.state # "succeeded"
<1>1. ASSUME Migrations PROVE job' = job \/ job'.state # "succeeded"
  <2>1. \/ job' = job \/ job' = NoJob
        \/ job' = [version |-> mem.version, state |-> "running"]
    BY <1>1 DEF Migrations, MigrationsNotNeeded, MigrationsCreate,
                MigrationsReplace, MigrationsSucceeded, MigrationsUnfinished
  <2>2. QED
    BY <2>1 DEF NoJob
<1>2. QED
  BY <1>1 DEF Components, PullSecret, Postgres, Backup, MigrateWait, Deployment,
              Status, Fail

\* The components record only successes and start only unfinished Jobs.
LEMMA ComponentsMigrate ==
    MigrateInv /\ (Components \/ Fail) => RecordsHonest' /\ JobsHonest'
<1> SUFFICES ASSUME MigrateInv, Components \/ Fail
             PROVE  RecordsHonest' /\ JobsHonest'
  OBVIOUS
<1>0. TypeOK /\ OperatorTypeOK /\ RecordsHonest /\ JobsHonest
  BY DEF MigrateInv, TypeOK
<1>1. PICK p \in Patches, from \in Stages, rq \in BOOLEAN :
        /\ Modest(p)
        /\ \/ StepError(from, p, rq)
           \/ \E to \in Stages \cup {"save"}, aft \in BOOLEAN :
                 Step(from, to, p, rq, aft)
  BY <1>0, ComponentsModest DEF ModestStep
<1>2. /\ mem'.migrateV \in {mem.migrateV, p.migrateV}
      /\ patch'.migrateV \in {patch.migrateV, p.migrateV}
      /\ UNCHANGED <<top, cache, jobCache, migrated>>
  BY <1>0, <1>1, StepEffect, StepErrorEffect
<1>3. p.migrateV \in Done
  <2>1. CASE p.migrateV = NoVersion
    BY <2>1 DEF Done
  <2>2. CASE p.migrateV # NoVersion
    <3>1. jobCache = [version |-> p.migrateV, state |-> "succeeded"]
      BY <1>1, <2>2 DEF Modest
    <3>2. jobCache.state = "succeeded" /\ jobCache.version = p.migrateV
      BY <3>1
    <3>3. QED
      BY <1>0, <3>2 DEF JobsHonest, Done
  <2>3. QED
    BY <2>1, <2>2
<1>4. RecordsHonest'
  BY <1>0, <1>2, <1>3 DEF RecordsHonest, Done
<1>5. JobsHonest'
  BY <1>0, <1>2, ComponentsJob DEF JobsHonest
<1>6. QED
  BY <1>4, <1>5

\* Writing or replaying the status keeps the records honest.
LEMMA SaveMigrate == MigrateInv /\ Save => RecordsHonest' /\ JobsHonest'
<1> SUFFICES ASSUME MigrateInv, Save PROVE RecordsHonest' /\ JobsHonest'
  OBVIOUS
<1>0. TypeOK /\ OperatorTypeOK /\ RecordsHonest /\ JobsHonest
  BY DEF MigrateInv, TypeOK
<1>1. ASSUME ClearPass
      PROVE  mem'.migrateV = NoVersion /\ patch'.migrateV = NoVersion
  BY <1>1 DEF ClearPass, NewObject, NoPatch
<1>2. ASSUME Finish, top'.migrateV \in Done
      PROVE  RecordsHonest' /\ JobsHonest'
  BY <1>0, <1>1, <1>2
     DEF Finish, RecordsHonest, JobsHonest, Done, historyVars
<1>3. CASE SaveNothing
  BY <1>0, <1>2, <1>3 DEF SaveNothing, RecordsHonest
<1>4. CASE SaveFast
  BY <1>0, <1>2, <1>4 DEF SaveFast, RecordsHonest
<1>5. CASE SaveConflict
  BY <1>0, <1>5
     DEF SaveConflict, RecordsHonest, JobsHonest, Done, passVars, historyVars
<1>6. CASE Replay
  <2>1. top'.migrateV \in {cache.migrateV, patch.migrateV}
    BY <1>0, <1>6, ApplyType DEF Replay, OperatorTypeOK
  <2>2. QED
    BY <1>0, <1>2, <1>6, <2>1 DEF Replay, RecordsHonest
<1>7. CASE ReplayConflict
  BY <1>0, <1>7 DEF ReplayConflict, RecordsHonest, JobsHonest, Done, historyVars
<1>8. CASE ReplayGiveUp
  BY <1>0, <1>1, <1>8
     DEF ReplayGiveUp, RecordsHonest, JobsHonest, Done, historyVars
<1>9. QED
  BY <1>3, <1>4, <1>5, <1>6, <1>7, <1>8 DEF Save

\* So do watches, the start of a pass and restarts.
LEMMA WatchesMigrate ==
    MigrateInv /\ (Begin \/ Watches \/ OtherEvent \/ Crash)
        => RecordsHonest' /\ JobsHonest'
<1> SUFFICES ASSUME MigrateInv, Begin \/ Watches \/ OtherEvent \/ Crash
             PROVE  RecordsHonest' /\ JobsHonest'
  OBVIOUS
<1>0. RecordsHonest /\ JobsHonest
  BY DEF MigrateInv
<1>1. CASE Begin
  BY <1>0, <1>1 DEF Begin, RecordsHonest, JobsHonest, Done, historyVars
<1>2. CASE Watches \/ OtherEvent
  BY <1>0, <1>2
     DEF Watches, SyncTop, SyncJob, TimerFires, OtherEvent, RecordsHonest,
         JobsHonest, Done, operatorIdle, passVars, historyVars
<1>3. CASE Crash
  <2>1. mem'.migrateV = NoVersion /\ patch'.migrateV = NoVersion
    BY <1>3 DEF Crash, ClearPass, NewObject, NoPatch
  <2>2. QED
    BY <1>0, <1>3, <2>1 DEF Crash, RecordsHonest, JobsHonest, Done, historyVars
<1>4. QED
  BY <1>1, <1>2, <1>3

\* So do the user, the clock and the other controllers: a success of the Job
\* is never forgotten.
LEMMA EnvironmentMigrate ==
    MigrateInv /\ (EditVersion \/ Touch \/ Tick \/ Cluster)
        => RecordsHonest' /\ JobsHonest'
<1> SUFFICES ASSUME MigrateInv, EditVersion \/ Touch \/ Tick \/ Cluster
             PROVE  RecordsHonest' /\ JobsHonest'
  OBVIOUS
<1>0. RecordsHonest /\ JobsHonest /\ OperatorTypeOK /\ ClusterTypeOK
  BY DEF MigrateInv, TypeOK
<1>1. CASE EditVersion \/ Touch
  <2>1. top'.migrateV = top.migrateV
    BY <1>0, <1>1 DEF EditVersion, Touch, OperatorTypeOK, Objects
  <2>2. QED
    BY <1>0, <1>1, <2>1
       DEF EditVersion, Touch, RecordsHonest, JobsHonest, Done, historyVars
<1>2. CASE Tick
  <2>1. /\ top'.migrateV = top.migrateV /\ cache'.migrateV = cache.migrateV
        /\ mem'.migrateV = mem.migrateV /\ patch'.migrateV = patch.migrateV
    BY <1>0, <1>2 DEF Tick, OperatorTypeOK, Objects, Patches
  <2>2. QED
    BY <1>0, <1>2, <2>1 DEF Tick, RecordsHonest, JobsHonest, Done, historyVars
<1>3. CASE JobSucceeds
  <2>1. /\ job'.version = job.version
        /\ job'.version \in migrated' /\ migrated \subseteq migrated'
    BY <1>0, <1>3 DEF JobSucceeds, ClusterTypeOK, Jobs, NoJob
  <2>2. UNCHANGED <<top, cache, mem, patch, jobCache>>
    BY <1>3 DEF JobSucceeds, operatorVars, copies
  <2>3. QED
    BY <1>0, <2>1, <2>2 DEF RecordsHonest, JobsHonest, Done
<1>4. CASE JobFails
  <2>1. job'.state # "succeeded"
    BY <1>0, <1>4 DEF JobFails, ClusterTypeOK, Jobs, NoJob
  <2>2. UNCHANGED <<top, cache, mem, patch, jobCache, migrated>>
    BY <1>4 DEF JobFails, operatorVars, copies, historyVars
  <2>3. QED
    BY <1>0, <2>1, <2>2 DEF RecordsHonest, JobsHonest, Done
<1>5. CASE DatabaseMoves \/ PullSecretMoves \/ SnapshotMoves \/ DeploymentMoves
  <2>1. UNCHANGED <<top, cache, mem, patch, job, jobCache, migrated>>
    BY <1>5
       DEF DatabaseMoves, PullSecretMoves, SnapshotMoves, DeploymentMoves,
           operatorVars, copies, historyVars
  <2>2. QED
    BY <1>0, <2>1 DEF RecordsHonest, JobsHonest, Done
<1>6. QED
  BY <1>1, <1>2, <1>3, <1>4, <1>5 DEF Cluster

\* MigrateInv is inductive.
LEMMA MigrateNext == MigrateInv /\ [Next]_vars => MigrateInv'
<1> SUFFICES ASSUME MigrateInv, [Next]_vars PROVE MigrateInv'
  OBVIOUS
<1>1. TypeOK'
  BY NextType DEF MigrateInv
<1>2. RecordsHonest' /\ JobsHonest'
  <2>1. CASE UNCHANGED vars
    BY <2>1 DEF vars, MigrateInv, RecordsHonest, JobsHonest, Done
  <2>2. CASE Next
    BY <2>2, ComponentsMigrate, SaveMigrate, WatchesMigrate, EnvironmentMigrate
       DEF Next
  <2>3. QED
    BY <2>1, <2>2
<1>3. QED
  BY <1>1, <1>2 DEF MigrateInv

\* Whatever fails, restarts, is edited or is read stale, the MigrateVersion in
\* the API server names a version whose migration Job succeeded.
THEOREM MigrateVersionCorrect == Spec => []MigrateVersionHonest
<1>1. Init => MigrateInv
  BY MigrateInit
<1>2. MigrateInv /\ [Next]_vars => MigrateInv'
  BY MigrateNext
<1>3. MigrateInv => MigrateVersionHonest
  BY DEF MigrateInv, RecordsHonest, Done, MigrateVersionHonest
<1>4. QED
  BY <1>1, <1>2, <1>3, PTL DEF Spec

-----------------------------------------------------------------------------
(* DeployInv is inductive.                                                  *)

\* DeployInv holds initially.
LEMMA DeployInit == Init => DeployInv
<1> SUFFICES ASSUME Init PROVE DeployInv
  OBVIOUS
<1>1. MigrateInv
  BY MigrateInit
<1>2. PICK v \in Versions : top = NewObject(v)
  BY DEF Init
<1>3. top.until = "" /\ top.pg = "" /\ cache = top
  BY <1>2 DEF Init, NewObject
<1>4. /\ mem.until = "" /\ mem.pg = ""
      /\ patch.until = "keep" /\ patch.pg = "keep"
  BY DEF Init, NewObject, NoPatch
<1>5. ready = {} /\ pc = "idle"
  BY DEF Init
<1>6. depl.template = NoVersion
  BY DEF Init
<1>7. DeployingHonest /\ DeployOnlyMigrated
  BY <1>5, <1>6 DEF DeployingHonest, DeployOnlyMigrated, Gated
<1>8. DeadlinesHonest /\ NoDatabaseYet
  BY <1>3, <1>4, <1>5 DEF DeadlinesHonest, NoDeadlines, NoDatabaseYet
<1>9. OneVersion
  BY <1>3, <1>5 DEF OneVersion
<1>10. QED
  BY <1>1, <1>7, <1>8, <1>9 DEF DeployInv

\* Only an edit is counted as one.
LEMMA EditsCount ==
    ASSUME TypeOK, Next
    PROVE  /\ ~EditVersion => edits' = edits
           /\ EditVersion => edits' # 0
<1>1. CASE Components \/ Fail
  <2>1. ModestStep
    BY <1>1, ComponentsModest
  <2>2. edits' = edits
    BY <2>1 DEF ModestStep, Step, StepError, boundVars
  <2>3. QED
    BY <2>2 DEF TypeOK, BoundTypeOK, EditVersion
<1>2. CASE Save
  <2>1. edits' = edits
    BY <1>2 DEF Save, SaveNothing, SaveFast, SaveConflict, Replay,
                ReplayConflict, ReplayGiveUp, Finish, boundVars
  <2>2. QED
    BY <2>1 DEF TypeOK, BoundTypeOK, EditVersion
<1>3. CASE Begin \/ Watches \/ OtherEvent \/ Crash \/ Touch \/ Tick \/ Cluster
  <2>1. edits' = edits
    BY <1>3 DEF Begin, Watches, SyncTop, SyncJob, TimerFires, OtherEvent, Crash,
                Touch, Tick, Cluster, DatabaseMoves, PullSecretMoves,
                SnapshotMoves, JobSucceeds, JobFails, DeploymentMoves, boundVars
  <2>2. QED
    BY <2>1 DEF TypeOK, BoundTypeOK, EditVersion
<1>4. CASE EditVersion
  BY <1>4 DEF EditVersion, TypeOK, BoundTypeOK
<1>5. QED
  BY <1>1, <1>2, <1>3, <1>4 DEF Next

\* Writing the status, events and the rest of the cluster leave the one version
\* what it is until the user changes it, and no migration is ever undone.
LEMMA NextOneVersion ==
    ASSUME TypeOK, OneVersion, [Next]_vars
    PROVE  /\ OneVersion'
           /\ edits' = 0 => edits = 0 /\ top'.version = top.version
           /\ migrated \subseteq migrated'
<1>0. OperatorTypeOK
  BY DEF TypeOK
<1>1. CASE UNCHANGED vars
  BY <1>1 DEF vars, OneVersion
<1>2. CASE Components \/ Fail
  <2>1. PICK p \in Patches, from \in Stages, rq \in BOOLEAN :
          \/ StepError(from, p, rq)
          \/ \E to \in Stages \cup {"save"}, aft \in BOOLEAN :
               Step(from, to, p, rq, aft)
    BY <1>2, ComponentsModest DEF ModestStep
  <2>2. /\ pc # "idle" /\ mem'.version = mem.version
        /\ UNCHANGED <<top, cache, edits, migrated>>
    BY <1>0, <2>1, StepEffect, StepErrorEffect DEF Stages
  <2>3. QED
    BY <2>2 DEF OneVersion
<1>3. CASE Save
  <2>1. UNCHANGED <<edits, cache, migrated>>
    BY <1>3 DEF Save, SaveNothing, SaveFast, SaveConflict, Replay, ReplayConflict,
                ReplayGiveUp, Finish, boundVars, historyVars
  <2>2. CASE SaveNothing \/ SaveFast \/ Replay \/ ReplayGiveUp
    <3>1. pc' = "idle" /\ pc # "idle"
      BY <2>2 DEF SaveNothing, SaveFast, Replay, ReplayGiveUp, Finish, ClearPass
    <3>2. top' \in {top, mem, Apply(patch, cache)}
      BY <2>2 DEF SaveNothing, SaveFast, Replay, ReplayGiveUp
    <3>3. Apply(patch, cache).version = cache.version
      BY <1>0, ApplyType DEF OperatorTypeOK
    <3>4. edits = 0 => top'.version = top.version
      BY <3>1, <3>2, <3>3 DEF OneVersion
    <3>5. QED
      BY <2>1, <3>1, <3>4 DEF OneVersion
  <2>3. CASE SaveConflict \/ ReplayConflict
    <3>1. pc # "idle" /\ UNCHANGED <<top, mem>>
      BY <2>3 DEF SaveConflict, ReplayConflict, passVars
    <3>2. QED
      BY <2>1, <3>1 DEF OneVersion
  <2>4. QED
    BY <1>3, <2>2, <2>3 DEF Save
<1>4. CASE Begin \/ Watches \/ OtherEvent \/ Crash \/ Touch
  <2>1. UNCHANGED <<edits, migrated, top>>
    BY <1>4 DEF Begin, Watches, SyncTop, SyncJob, TimerFires, OtherEvent, Crash,
                Touch, boundVars, historyVars
  <2>2. \/ pc' = "idle"
        \/ mem' = cache /\ cache' = cache
        \/ pc' = pc /\ mem' = mem
    <3>1. CASE Begin
      BY <3>1 DEF Begin
    <3>2. CASE Watches \/ OtherEvent \/ Touch
      BY <3>2 DEF Watches, SyncTop, SyncJob, TimerFires, OtherEvent, Touch,
                  operatorIdle, passVars
    <3>3. CASE Crash
      BY <3>3 DEF Crash, ClearPass
    <3>4. QED
      BY <1>4, <3>1, <3>2, <3>3
  <2>3. cache' \in {cache, top}
    BY <1>4 DEF Begin, Watches, SyncTop, SyncJob, TimerFires, OtherEvent, Crash, Touch
  <2>4. QED
    BY <2>1, <2>2, <2>3 DEF OneVersion
<1>5. CASE Tick
  <2>1. /\ top'.version = top.version /\ cache'.version = cache.version
        /\ mem'.version = mem.version /\ UNCHANGED <<pc, edits, migrated>>
    BY <1>0, <1>5 DEF Tick, OperatorTypeOK, Objects, boundVars, historyVars
  <2>2. QED
    BY <2>1 DEF OneVersion
<1>6. CASE Cluster
  <2>1. /\ UNCHANGED <<top, cache, mem, pc, edits>>
        /\ migrated \subseteq migrated'
    BY <1>6
       DEF Cluster, DatabaseMoves, PullSecretMoves, SnapshotMoves, JobSucceeds,
           JobFails, DeploymentMoves, operatorVars, copies, boundVars, historyVars
  <2>2. QED
    BY <2>1 DEF OneVersion
<1>7. CASE EditVersion
  <2>1. edits' # 0
    BY <1>7, EditsCount DEF Next
  <2>2. QED
    BY <1>7, <2>1 DEF EditVersion, OneVersion, historyVars
<1>8. QED
  BY <1>1, <1>2, <1>3, <1>4, <1>5, <1>6, <1>7 DEF Next

\* No component sets a deadline without a wait to make and a migration behind it,
\* and none reports a database that does not exist.
LEMMA ComponentsDeadlines ==
    ASSUME TypeOK, NoDatabaseYet, Components \/ Fail
    PROVE  /\ NoDatabaseYet'
           /\ NoDeadlines =>
                \/ NoDeadlines'
                \/ PostMigrate /\ pc \in Gated /\ mem.phase = "PostMigrateWait"
<1>0. OperatorTypeOK
  BY DEF TypeOK
<1>1. PICK p \in Patches, from \in Stages, rq \in BOOLEAN :
        /\ Modest(p)
        /\ \/ StepError(from, p, rq)
           \/ \E to \in Stages \cup {"save"}, aft \in BOOLEAN :
                 Step(from, to, p, rq, aft)
  BY ComponentsModest DEF ModestStep
<1>2. /\ mem'.pg = Or(p.pg, mem.pg) /\ mem'.until = Or(p.until, mem.until)
      /\ patch'.pg = Or(p.pg, patch.pg)
      /\ patch'.until = Or(p.until, patch.until)
      /\ UNCHANGED <<top, cache, ready>>
  BY <1>0, <1>1, StepEffect, StepErrorEffect
<1>3. p.pg \in {"keep", pgStatus}
  BY <1>1 DEF Modest
<1>4. pgStatus' = pgStatus
  BY DEF Components, PullSecret, Postgres, Backup, Migrations, MigrateWait,
         Deployment, Status, Fail, clusterVars
<1>5. NoDatabaseYet'
  BY <1>2, <1>3, <1>4 DEF NoDatabaseYet, Or
<1>6. ASSUME NoDeadlines
      PROVE  \/ NoDeadlines'
             \/ PostMigrate /\ pc \in Gated /\ mem.phase = "PostMigrateWait"
  <2>1. \/ p.until \in {"keep", ""}
        \/ PostMigrate /\ pc \in Gated /\ mem.phase = "PostMigrateWait"
    BY <1>1, <1>6 DEF Modest, NoDeadlines
  <2>2. p.until \in {"keep", ""} => NoDeadlines'
    BY <1>2, <1>6 DEF NoDeadlines, Or
  <2>3. QED
    BY <2>1, <2>2
<1>7. QED
  BY <1>5, <1>6

\* Nor does any other step.
LEMMA OtherDeadlines ==
    ASSUME TypeOK, NoDatabaseYet, Next, ~Components, ~Fail
    PROVE  NoDatabaseYet' /\ (NoDeadlines => NoDeadlines')
<1>0. OperatorTypeOK
  BY DEF TypeOK
<1>1. ASSUME ClearPass
      PROVE  /\ mem'.until = "" /\ mem'.pg = ""
             /\ patch'.until = "keep" /\ patch'.pg = "keep" /\ ready' = {}
  BY <1>1 DEF ClearPass, NewObject, NoPatch
<1>2. ASSUME Finish, NoDeadlines => top'.until = "", pgStatus = "" => top'.pg = ""
      PROVE  NoDatabaseYet' /\ (NoDeadlines => NoDeadlines')
  BY <1>1, <1>2 DEF Finish, NoDeadlines, NoDatabaseYet, clusterVars
<1>3. CASE Begin
  <2>1. pgStatus = "" => ready' = {}
    BY <1>3
       DEF Begin, NoDatabaseYet, ReadySet, Gated, BackupReady, MigrationsReady,
           MigrateWaitReady, DeploymentReady
  <2>2. QED
    BY <1>3, <2>1 DEF Begin, NoDeadlines, NoDatabaseYet, clusterVars
<1>4. CASE SaveNothing
  BY <1>2, <1>4 DEF SaveNothing, NoDeadlines, NoDatabaseYet
<1>5. CASE SaveFast
  BY <1>2, <1>5 DEF SaveFast, NoDeadlines, NoDatabaseYet
<1>6. CASE SaveConflict
  BY <1>6 DEF SaveConflict, NoDeadlines, NoDatabaseYet, passVars, clusterVars
<1>7. CASE Replay
  <2>1. /\ top'.until = Or(patch.until, cache.until)
        /\ top'.pg = Or(patch.pg, cache.pg)
    BY <1>0, <1>7 DEF Replay, Apply, OperatorTypeOK, Objects
  <2>2. QED
    BY <1>2, <1>7, <2>1 DEF Replay, Or, NoDeadlines, NoDatabaseYet
<1>8. CASE ReplayConflict
  BY <1>8 DEF ReplayConflict, NoDeadlines, NoDatabaseYet, clusterVars
<1>9. CASE ReplayGiveUp
  BY <1>1, <1>9 DEF ReplayGiveUp, NoDeadlines, NoDatabaseYet, clusterVars
<1>10. CASE Watches \/ OtherEvent
  BY <1>10
     DEF Watches, SyncTop, SyncJob, TimerFires, OtherEvent, NoDeadlines,
         NoDatabaseYet, operatorIdle, passVars, clusterVars
<1>11. CASE Crash
  BY <1>1, <1>11 DEF Crash, NoDeadlines, NoDatabaseYet, clusterVars
<1>12. CASE EditVersion \/ Touch
  <2>1. top'.until = top.until /\ top'.pg = top.pg
    BY <1>0, <1>12 DEF EditVersion, Touch, OperatorTypeOK, Objects
  <2>2. QED
    BY <1>12, <2>1 DEF EditVersion, Touch, NoDeadlines, NoDatabaseYet, clusterVars
<1>13. CASE Tick
  <2>1. ~NoDeadlines
    BY <1>13 DEF Tick, NoDeadlines
  <2>2. /\ top'.pg = top.pg /\ cache'.pg = cache.pg /\ mem'.pg = mem.pg
        /\ patch'.pg = patch.pg /\ UNCHANGED <<pgStatus, ready>>
    BY <1>0, <1>13 DEF Tick, OperatorTypeOK, Objects, Patches, clusterVars
  <2>3. QED
    BY <2>1, <2>2 DEF NoDatabaseYet
<1>14. CASE Cluster
  <2>1. UNCHANGED <<top, cache, mem, patch, ready>>
    BY <1>14
       DEF Cluster, DatabaseMoves, PullSecretMoves, SnapshotMoves, JobSucceeds,
           JobFails, DeploymentMoves, operatorVars, copies
  <2>2. pgStatus' = "" => pgStatus = ""
    BY <1>14
       DEF Cluster, DatabaseMoves, PullSecretMoves, SnapshotMoves, JobSucceeds,
           JobFails, DeploymentMoves, clusterVars
  <2>3. QED
    BY <2>1, <2>2 DEF NoDeadlines, NoDatabaseYet
<1>15. QED
  BY <1>3, <1>4, <1>5, <1>6, <1>7, <1>8, <1>9, <1>10, <1>11, <1>12, <1>13,
     <1>14 DEF Next, Save

\* A pass that keeps the phase it had keeps its promise; one that sets a phase
\* other than the two keeps it trivially.
LEMMA StepDeploying ==
    ASSUME OperatorTypeOK, DeployingHonest, NEW from \in Gated, NEW to,
           NEW p \in Patches, NEW rq, NEW aft, Step(from, to, p, rq, aft),
           p.phase \in {"Deploying", "PostMigrateWait"} => mem.version \in migrated
    PROVE  DeployingHonest'
<1>1. /\ pc = from /\ mem'.version = mem.version
      /\ mem'.phase = Or(p.phase, mem.phase) /\ migrated' = migrated
  BY StepEffect
<1>2. QED
  BY <1>1 DEF DeployingHonest, Or

\* A component that sets the phase to Deploying, or rewrites the Deployments,
\* does so for a version that was migrated.
LEMMA ComponentsDeploying ==
    ASSUME DeployInv, Steady, Components \/ Fail
    PROVE  DeployingHonest' /\ DeployOnlyMigrated'
<1>0. /\ OperatorTypeOK /\ ClusterTypeOK /\ RecordsHonest /\ JobsHonest
      /\ NoDatabaseYet /\ DeployingHonest /\ DeployOnlyMigrated
  BY DEF DeployInv, MigrateInv, TypeOK
<1>g. Gated = {"backup", "migrations", "migratewait", "deployment"}
  BY DEF Gated
<1>k. ASSUME migrated' = migrated, depl' = depl PROVE DeployOnlyMigrated'
  BY <1>0, <1>k DEF DeployOnlyMigrated
<1>m. migrated' = migrated
  BY <1>0, ComponentsModest, StepEffect, StepErrorEffect
     DEF ModestStep, DeployInv, MigrateInv
<1>1. CASE PullSecret
  BY <1>1, <1>g, <1>k, <1>m DEF PullSecret, Step, DeployingHonest, clusterVars
<1>2. CASE Postgres
  <2>1. DeployOnlyMigrated'
    BY <1>2, <1>k, <1>m DEF Postgres, clusterVars
  <2>2. CASE StepError("postgres", NoPatch, FALSE)
    BY <2>1, <2>2, <1>g DEF StepError, DeployingHonest
  <2>3. CASE Step("postgres", ToBackup, PostgresPatch, FALSE, FALSE)
    <3>1. CASE pgStatus = ""
      <4>1. pc' = "status"
        BY <1>0, <2>3, <3>1
           DEF NoDatabaseYet, Step, ToBackup, ToMigrations, ToMigrateWait,
               ToDeployment
      <4>2. QED
        BY <2>1, <4>1, <1>g DEF DeployingHonest
    <3>2. CASE pgStatus # ""
      <4>1. PostgresPatch \in Patches /\ PostgresPatch.phase = "Initializing"
        BY <1>0, <3>2, PatchTypes DEF PostgresPatch, NoPatch
      <4>2. mem'.phase = "Initializing"
        BY <1>0, <2>3, <4>1, StepEffect DEF Or
      <4>3. QED
        BY <2>1, <4>2 DEF DeployingHonest
    <3>3. QED
      BY <3>1, <3>2
  <2>4. QED
    BY <1>2, <2>2, <2>3 DEF Postgres
<1>3. CASE Backup
  <2>1. DeployOnlyMigrated'
    BY <1>3, <1>k, <1>m DEF Backup
  <2>2. CASE Step("backup", ToMigrations, RecordBackup, FALSE, FALSE)
    BY <1>0, <1>g, <2>1, <2>2, StepDeploying, PatchTypes DEF RecordBackup, NoPatch
  <2>3. CASE Step("backup", ToMigrations, NoPatch, FALSE, FALSE)
    BY <1>0, <1>g, <2>1, <2>3, StepDeploying, NoPatchType DEF NoPatch
  <2>4. CASE Step("backup", ToMigrations,
                  [NoPatch EXCEPT !.phase = "CreatingBackup"], FALSE, FALSE)
    BY <1>0, <1>g, <2>1, <2>4, StepDeploying, PatchTypes DEF NoPatch
  <2>5. CASE Step("backup", ToMigrations, NoPatch, FALSE, TRUE)
    BY <1>0, <1>g, <2>1, <2>5, StepDeploying, NoPatchType DEF NoPatch
  <2>6. QED
    BY <1>3, <2>2, <2>3, <2>4, <2>5 DEF Backup, BackupSkipped, BackupTaken
<1>4. CASE Migrations
  <2>1. DeployOnlyMigrated'
    BY <1>4, <1>k, <1>m DEF Migrations, clusterVars
  <2>2. ASSUME NEW rq, StepError("migrations", NoPatch, rq)
        PROVE  DeployingHonest'
    BY <2>2, <1>g DEF StepError, DeployingHonest
  <2>3. ASSUME NEW rq, Step("migrations", ToMigrateWait, NoPatch, rq, FALSE)
        PROVE  DeployingHonest'
    BY <1>0, <1>g, <2>3, StepDeploying, NoPatchType DEF NoPatch
  <2>4. ASSUME Step("migrations", ToMigrateWait, SetPhase("Migrating"), FALSE, FALSE)
        PROVE  DeployingHonest'
    <3>1. SetPhase("Migrating") \in Patches
      BY PatchTypes DEF Phases
    <3>2. SetPhase("Migrating").phase = "Migrating"
      BY DEF SetPhase, NoPatch
    <3>3. QED
      BY <1>0, <1>g, <2>4, <3>1, <3>2, StepDeploying
  <2>5. ASSUME pc = "migrations" PROVE mem.version \in Versions
    BY <1>0, <2>5 DEF OperatorTypeOK
  <2>6. CASE /\ mem.version = mem.migrateV
             /\ Step("migrations", ToMigrateWait, SetPhase("Deploying"), FALSE, FALSE)
    <3>1. SetPhase("Deploying") \in Patches
      BY PatchTypes DEF Phases
    <3>2. pc = "migrations"
      BY <2>6 DEF Step
    <3>3. mem.version \in migrated
      BY <1>0, <2>5, <2>6, <3>2, ConstantsOK DEF RecordsHonest, Done
    <3>4. QED
      BY <1>0, <1>g, <2>1, <2>6, <3>1, <3>3, StepDeploying
  <2>7. CASE /\ jobCache = [version |-> mem.version, state |-> "succeeded"]
             /\ Step("migrations", ToMigrateWait,
                     [NoPatch EXCEPT !.phase = "PostMigrateWait",
                                     !.migrateV = mem.version], FALSE, FALSE)
    <3>1. pc = "migrations"
      BY <2>7 DEF Step
    <3>2. [NoPatch EXCEPT !.phase = "PostMigrateWait",
                          !.migrateV = mem.version] \in Patches
      BY <2>5, <3>1, PatchTypes
    <3>3. mem.version \in migrated
      BY <1>0, <2>7 DEF JobsHonest
    <3>4. QED
      BY <1>0, <1>g, <2>1, <2>7, <3>2, <3>3, StepDeploying
  <2>8. QED
    BY <1>4, <2>1, <2>2, <2>3, <2>4, <2>6, <2>7
       DEF Migrations, MigrationsNotNeeded, MigrationsCreate, MigrationsReplace,
           MigrationsSucceeded, MigrationsUnfinished
<1>5. CASE MigrateWait
  <2>1. DeployOnlyMigrated'
    BY <1>5, <1>k, <1>m DEF MigrateWait, clusterVars
  <2>2. CASE Step("migratewait", ToDeployment, NoPatch, FALSE, FALSE)
    BY <1>0, <1>g, <2>1, <2>2, StepDeploying, NoPatchType DEF NoPatch
  <2>3. CASE Step("migratewait", ToDeployment,
                  [NoPatch EXCEPT !.until = "waiting"], FALSE, PostMigrate)
    BY <1>0, <1>g, <2>1, <2>3, StepDeploying, PatchTypes DEF NoPatch
  <2>4. CASE /\ mem.phase = "PostMigrateWait" \/ mem.until # ""
             /\ Step("migratewait", ToDeployment,
                     [NoPatch EXCEPT !.phase = "Deploying", !.until = ""],
                     FALSE, FALSE)
    <3>1. mem.version \in migrated
      <4>1. pc = "migratewait"
        BY <2>4 DEF Step
      <4>2. CASE mem.until = ""
        BY <1>0, <1>g, <2>4, <4>1, <4>2 DEF DeployingHonest
      <4>3. CASE mem.until # ""
        BY <4>1, <4>3 DEF DeployInv, DeadlinesHonest, NoDeadlines, OneVersion, Steady
      <4>4. QED
        BY <4>2, <4>3
    <3>2. QED
      BY <1>0, <1>g, <2>1, <2>4, <3>1, StepDeploying, PatchTypes
  <2>5. QED
    BY <1>5, <2>2, <2>3, <2>4 DEF MigrateWait
<1>6. CASE Deployment
  <2>1. pc = "deployment" /\ pc' = "status"
    BY <1>6 DEF Deployment, Step
  <2>2. DeployingHonest'
    BY <2>1, <1>g DEF DeployingHonest
  <2>3. depl'.template \in {depl.template, mem.version}
        /\ (depl'.template # depl.template => mem.phase = "Deploying")
    BY <1>0, <1>6 DEF Deployment, ClusterTypeOK
  <2>4. QED
    BY <1>0, <1>g, <1>m, <2>1, <2>2, <2>3 DEF DeployingHonest, DeployOnlyMigrated
<1>7. CASE Status
  BY <1>7, <1>g, <1>k, <1>m DEF Status, Step, DeployingHonest, clusterVars
<1>8. CASE Fail
  <2>1. pc' = "save" /\ depl' = depl
    BY <1>8 DEF Fail, StepError, clusterVars
  <2>2. QED
    BY <2>1, <1>g, <1>k, <1>m DEF DeployingHonest
<1>9. QED
  BY <1>1, <1>2, <1>3, <1>4, <1>5, <1>6, <1>7, <1>8 DEF Components

\* No other step rewrites the Deployments, and one that starts or ends a pass
\* leaves it before any gated component.
LEMMA OtherDeploying ==
    ASSUME DeployInv, Steady, Next, ~Components, ~Fail
    PROVE  DeployingHonest' /\ DeployOnlyMigrated'
<1>0. /\ OperatorTypeOK /\ ClusterTypeOK
      /\ DeployingHonest /\ DeployOnlyMigrated
  BY DEF DeployInv, MigrateInv, TypeOK
<1>g. Gated = {"backup", "migrations", "migratewait", "deployment"}
  BY DEF Gated
<1>1. CASE Begin \/ Save \/ Crash
  <2>1. UNCHANGED <<depl, migrated>>
    BY <1>1
       DEF Begin, Save, SaveNothing, SaveFast, SaveConflict, Replay,
           ReplayConflict, ReplayGiveUp, Crash, Finish, clusterVars, historyVars
  <2>2. pc' \in {"pullsecret", "idle", "replay"}
    BY <1>1
       DEF Begin, Save, SaveNothing, SaveFast, SaveConflict, Replay,
           ReplayConflict, ReplayGiveUp, Crash, Finish, ClearPass
  <2>3. QED
    BY <1>0, <1>g, <2>1, <2>2 DEF DeployingHonest, DeployOnlyMigrated
<1>2. CASE Watches \/ OtherEvent \/ EditVersion \/ Touch
  <2>1. UNCHANGED <<depl, migrated, pc, mem>>
    BY <1>2
       DEF Watches, SyncTop, SyncJob, TimerFires, OtherEvent, EditVersion, Touch,
           operatorIdle, passVars, clusterVars, historyVars
  <2>2. QED
    BY <1>0, <2>1 DEF DeployingHonest, DeployOnlyMigrated
<1>3. CASE Tick
  <2>1. /\ UNCHANGED <<depl, migrated, pc>>
        /\ mem'.phase = mem.phase /\ mem'.version = mem.version
    BY <1>0, <1>3 DEF Tick, OperatorTypeOK, Objects, clusterVars, historyVars
  <2>2. QED
    BY <1>0, <2>1 DEF DeployingHonest, DeployOnlyMigrated
<1>4. CASE Cluster
  <2>1. /\ UNCHANGED <<pc, mem>> /\ migrated \subseteq migrated'
        /\ depl'.template = depl.template
    BY <1>0, <1>4
       DEF Cluster, DatabaseMoves, PullSecretMoves, SnapshotMoves, JobSucceeds,
           JobFails, DeploymentMoves, operatorVars, copies, clusterVars,
           historyVars, ClusterTypeOK
  <2>2. QED
    BY <1>0, <2>1 DEF DeployingHonest, DeployOnlyMigrated
<1>5. QED
  BY <1>1, <1>2, <1>3, <1>4 DEF Next

\* DeployInv is inductive.
LEMMA DeployNext == DeployInv /\ [Next]_vars => DeployInv'
<1> SUFFICES ASSUME DeployInv, [Next]_vars PROVE DeployInv'
  OBVIOUS
<1>0. TypeOK /\ OneVersion /\ DeadlinesHonest /\ NoDatabaseYet /\ MigrateInv
  BY DEF DeployInv, MigrateInv
<1>1. MigrateInv'
  BY <1>0, MigrateNext
<1>2. /\ OneVersion'
      /\ edits' = 0 => edits = 0 /\ top'.version = top.version
      /\ migrated \subseteq migrated'
  BY <1>0, NextOneVersion
<1>3. Steady' => Steady
  BY <1>2 DEF Steady
<1>4. CASE UNCHANGED vars
  BY <1>1, <1>2, <1>4
     DEF vars, DeployInv, Steady, DeadlinesHonest, NoDeadlines, NoDatabaseYet,
         DeployingHonest, DeployOnlyMigrated
<1>5. CASE Components \/ Fail
  <2>1. Steady => DeployingHonest' /\ DeployOnlyMigrated'
    BY <1>5, ComponentsDeploying
  <2>2. NoDatabaseYet'
    BY <1>0, <1>5, ComponentsDeadlines
  <2>3. DeadlinesHonest'
    <3>1. CASE PostMigrate /\ (edits = 0 => top.version \in migrated)
      BY <1>2, <3>1 DEF DeadlinesHonest
    <3>2. CASE PostMigrate /\ pc \in Gated /\ mem.phase = "PostMigrateWait"
      <4>1. edits = 0 => mem.version \in migrated
        BY <3>2 DEF DeployInv, Steady, DeployingHonest
      <4>2. edits = 0 => mem.version = top.version
        BY <1>0, <3>2 DEF OneVersion, Gated
      <4>3. QED
        BY <3>1, <3>2, <4>1, <4>2
    <3>3. CASE NoDeadlines /\ NoDeadlines'
      BY <3>3 DEF DeadlinesHonest
    <3>4. QED
      BY <1>0, <1>5, <3>1, <3>2, <3>3, ComponentsDeadlines DEF DeadlinesHonest
  <2>4. QED
    BY <1>1, <1>2, <1>3, <2>1, <2>2, <2>3 DEF DeployInv
<1>6. CASE Next /\ ~Components /\ ~Fail
  <2>1. Steady => DeployingHonest' /\ DeployOnlyMigrated'
    BY <1>6, OtherDeploying
  <2>2. NoDatabaseYet' /\ (NoDeadlines => NoDeadlines')
    BY <1>0, <1>6, OtherDeadlines
  <2>3. DeadlinesHonest'
    BY <1>0, <1>2, <2>2 DEF DeadlinesHonest
  <2>4. QED
    BY <1>1, <1>2, <1>3, <2>1, <2>2, <2>3 DEF DeployInv
<1>7. QED
  BY <1>4, <1>5, <1>6 DEF Next

\* Where no post-migration wait is configured, no Deployment is ever given a
\* version that was not migrated: rollbacks, edits during a pass, stale caches,
\* conflicts and restarts included.  Where one is, none is until the user changes
\* Spec.Version for the first time.  (Afterwards it is not so: a deadline left
\* over from one version lets the next one pass, see migrate_wait.go:64.)
THEOREM DeployOnlyMigratedCorrect ==
    Spec => [](~PostMigrate \/ edits = 0 => DeployOnlyMigrated)
<1>1. Init => DeployInv
  BY DeployInit
<1>2. DeployInv /\ [Next]_vars => DeployInv'
  BY DeployNext
<1>3. DeployInv => (~PostMigrate \/ edits = 0 => DeployOnlyMigrated)
  BY DEF DeployInv, Steady
<1>4. QED
  BY <1>1, <1>2, <1>3, PTL DEF Spec

-----------------------------------------------------------------------------
(* The refinement of VersionRollout: no step forgets a recorded migration,  *)
(* moves Spec.Version or does two things at once.  A write of the status is *)
(* only accepted from a copy that is up to date, of which this much is      *)
(* needed.                                                                  *)

CopiesTrue ==
    /\ cacheOK => cache = top
    /\ memOK /\ pc # "idle" =>
         /\ mem.version = top.version
         /\ mem.migrateV = top.migrateV \/ mem.migrateV \in migrated

\* The components record on an up-to-date copy what has been migrated, or nothing.
LEMMA ComponentsTrue ==
    MigrateInv /\ CopiesTrue /\ (Components \/ Fail) => CopiesTrue'
<1> SUFFICES ASSUME MigrateInv, CopiesTrue, Components \/ Fail PROVE CopiesTrue'
  OBVIOUS
<1>0. TypeOK /\ OperatorTypeOK /\ JobsHonest
  BY DEF MigrateInv, TypeOK
<1>1. PICK p \in Patches, from \in Stages, rq \in BOOLEAN :
        /\ Modest(p)
        /\ \/ StepError(from, p, rq)
           \/ \E to \in Stages \cup {"save"}, aft \in BOOLEAN :
                 Step(from, to, p, rq, aft)
  BY <1>0, ComponentsModest DEF ModestStep
<1>2. /\ mem'.version = mem.version /\ pc = from
      /\ mem'.migrateV \in {mem.migrateV, p.migrateV}
      /\ p.migrateV = NoVersion => mem'.migrateV = mem.migrateV
      /\ UNCHANGED <<top, cache, cacheOK, memOK, migrated>>
  <2>1. UNCHANGED <<cacheOK, memOK>>
    BY <1>1 DEF Step, StepError
  <2>2. QED
    BY <1>0, <1>1, <2>1, StepEffect, StepErrorEffect
<1>3. p.migrateV # NoVersion => p.migrateV \in migrated
  <2>1. SUFFICES ASSUME p.migrateV # NoVersion PROVE p.migrateV \in migrated
    OBVIOUS
  <2>2. jobCache = [version |-> p.migrateV, state |-> "succeeded"]
    BY <1>1, <2>1 DEF Modest
  <2>3. jobCache.state = "succeeded" /\ jobCache.version = p.migrateV
    BY <2>2
  <2>4. QED
    BY <1>0, <2>3 DEF JobsHonest
<1>4. pc # "idle"
  BY <1>2 DEF Stages
<1>5. QED
  BY <1>2, <1>3, <1>4 DEF CopiesTrue

\* What is written is what the API server had, or of a version that was migrated.
LEMMA SaveTrue ==
    ASSUME MigrateInv, CopiesTrue, Save
    PROVE  /\ CopiesTrue'
           /\ top'.version = top.version
           /\ top'.migrateV = top.migrateV \/ top'.migrateV \in migrated
           /\ UNCHANGED <<migrated, depl>>
<1>0. OperatorTypeOK /\ RecordsHonest
  BY DEF MigrateInv, TypeOK
<1>1. Finish \/ ReplayGiveUp => pc' = "idle" /\ UNCHANGED <<cache, migrated, depl>>
  BY DEF Finish, ReplayGiveUp, ClearPass, clusterVars, historyVars
<1>2. CASE SaveNothing
  BY <1>1, <1>2 DEF SaveNothing, CopiesTrue
<1>3. CASE SaveFast
  BY <1>1, <1>3 DEF SaveFast, CopiesTrue
<1>4. CASE SaveConflict \/ ReplayConflict
  <2>1. UNCHANGED <<top, cache, cacheOK, mem, memOK, migrated, depl>> /\ pc # "idle"
    BY <1>4 DEF SaveConflict, ReplayConflict, passVars, clusterVars, historyVars
  <2>2. QED
    BY <2>1 DEF CopiesTrue
<1>5. CASE Replay
  <2>1. /\ top = cache /\ top' = Apply(patch, cache) /\ cacheOK' = (top' = top)
        /\ pc' = "idle" /\ UNCHANGED <<cache, migrated, depl>>
    BY <1>1, <1>5 DEF Replay, CopiesTrue
  <2>2. /\ top'.version = top.version
        /\ top'.migrateV = IF patch.migrateV = NoVersion THEN top.migrateV ELSE patch.migrateV
    BY <1>0, <2>1 DEF Apply, OperatorTypeOK, Objects
  <2>3. patch.migrateV \in migrated \cup {NoVersion}
    BY <1>0 DEF RecordsHonest, Done
  <2>4. CopiesTrue'
    BY <2>1 DEF CopiesTrue
  <2>5. QED
    BY <2>1, <2>2, <2>3, <2>4
<1>6. CASE ReplayGiveUp
  BY <1>1, <1>6 DEF ReplayGiveUp, CopiesTrue
<1>7. QED
  BY <1>2, <1>3, <1>4, <1>5, <1>6 DEF Save

\* Copies stay true whatever goes on around the operator; the recorded migration is not
\* touched, and only the user moves Spec.Version.
LEMMA WorldTrue ==
    ASSUME MigrateInv, CopiesTrue,
           \/ Begin \/ Watches \/ OtherEvent \/ Crash \/ EditVersion \/ Touch \/ Tick
           \/ Cluster
    PROVE  /\ CopiesTrue'
           /\ top'.migrateV = top.migrateV /\ depl'.template = depl.template
           /\ \/ top'.version = top.version /\ UNCHANGED migrated
              \/ top'.version \in Versions /\ UNCHANGED migrated
              \/ /\ top'.version = top.version
                 /\ \E v \in Versions : migrated' = migrated \cup {v}
<1>0. OperatorTypeOK /\ ClusterTypeOK
  BY DEF MigrateInv, TypeOK
<1>1. CASE Begin \/ Crash
  <2>1. UNCHANGED <<top, depl, migrated>>
    BY <1>1 DEF Begin, Crash, clusterVars, historyVars
  <2>2. CASE Begin
    BY <2>1, <2>2 DEF Begin, CopiesTrue
  <2>3. CASE Crash
    BY <2>1, <2>3 DEF Crash, ClearPass, CopiesTrue
  <2>4. QED
    BY <1>1, <2>1, <2>2, <2>3
<1>2. CASE Watches \/ OtherEvent
  <2>1. UNCHANGED <<top, mem, memOK, pc, depl, migrated>>
    BY <1>2 DEF Watches, SyncTop, SyncJob, TimerFires, OtherEvent, operatorIdle, passVars,
       clusterVars, historyVars
  <2>2. cacheOK' => cache' = top
    BY <1>2 DEF Watches, SyncTop, SyncJob, TimerFires, OtherEvent, CopiesTrue
  <2>3. QED
    BY <2>1, <2>2 DEF CopiesTrue
<1>3. CASE EditVersion \/ Touch
  <2>1. /\ top'.migrateV = top.migrateV
        /\ top'.version = top.version \/ top'.version \in Versions
        /\ ~cacheOK' /\ ~memOK' /\ UNCHANGED <<depl, migrated>>
    BY <1>0, <1>3 DEF EditVersion, Touch, OperatorTypeOK, Objects, clusterVars, historyVars
  <2>2. QED
    BY <2>1 DEF CopiesTrue
<1>4. CASE Tick
  <2>1. /\ top'.version = top.version /\ top'.migrateV = top.migrateV
        /\ mem'.version = mem.version /\ mem'.migrateV = mem.migrateV
        /\ UNCHANGED <<depl, migrated, pc, memOK, cacheOK>>
    BY <1>0, <1>4 DEF Tick, OperatorTypeOK, Objects, clusterVars, historyVars
  <2>2. cache = top => cache' = top'
    BY <1>4 DEF Tick
  <2>3. QED
    BY <2>1, <2>2 DEF CopiesTrue
<1>5. CASE Cluster
  <2>1. /\ UNCHANGED <<top, cache, cacheOK, mem, memOK, pc>>
        /\ depl'.template = depl.template
    BY <1>0, <1>5
       DEF Cluster, DatabaseMoves, PullSecretMoves, SnapshotMoves, JobSucceeds,
           JobFails, DeploymentMoves, operatorVars, copies, clusterVars,
           historyVars, ClusterTypeOK
  <2>2. CASE JobSucceeds
    <3>1. job.version \in Versions /\ migrated' = migrated \cup {job.version}
      BY <1>0, <2>2 DEF JobSucceeds, ClusterTypeOK, Jobs, NoJob
    <3>2. QED
      BY <2>1, <3>1 DEF CopiesTrue
  <2>3. CASE ~JobSucceeds
    <3>1. UNCHANGED migrated
      BY <1>5, <2>3
         DEF Cluster, DatabaseMoves, PullSecretMoves, SnapshotMoves, JobFails,
             DeploymentMoves, historyVars
    <3>2. QED
      BY <2>1, <3>1 DEF CopiesTrue
  <2>4. QED
    BY <2>2, <2>3
<1>6. QED
  BY <1>1, <1>2, <1>3, <1>4, <1>5

\* Only the deployment component gives the Deployments a version, one that was migrated.
LEMMA ComponentsDeploy ==
    ASSUME DeployInv, Steady, Components \/ Fail
    PROVE  /\ UNCHANGED <<top, migrated>>
           /\ depl'.template = depl.template \/ depl'.template \in migrated
<1>0. TypeOK /\ OperatorTypeOK /\ ClusterTypeOK /\ DeployingHonest
  BY DEF DeployInv, MigrateInv, TypeOK
<1>1. UNCHANGED <<top, migrated>>
  <2>1. PICK p \in Patches, from \in Stages, rq \in BOOLEAN :
          \/ StepError(from, p, rq)
          \/ \E to \in Stages \cup {"save"}, aft \in BOOLEAN : Step(from, to, p, rq, aft)
    BY <1>0, ComponentsModest DEF ModestStep
  <2>2. QED
    BY <2>1 DEF Step, StepError, historyVars
<1>2. CASE Deployment
  <2>1. pc = "deployment"
    BY <1>2 DEF Deployment, Step
  <2>2. mem.phase = "Deploying" => mem.version \in migrated
    BY <1>0, <2>1 DEF DeployingHonest, Gated
  <2>3. QED
    BY <1>0, <1>1, <1>2, <2>2 DEF Deployment, ClusterTypeOK
<1>3. CASE ~Deployment
  <2>1. UNCHANGED depl
    BY <1>3 DEF Components, PullSecret, Postgres, Backup, Migrations, MigrateWait, Status, Fail,
       clusterVars
  <2>2. QED
    BY <1>1, <2>1
<1>4. QED
  BY <1>2, <1>3

\* Every step of the operator and of the world around it is a step of the promise, or
\* none of it.
LEMMA StepKeepsPromise ==
    ASSUME DeployInv, Steady, CopiesTrue, [Next]_vars
    PROVE  CopiesTrue' /\ [Promise!Next]_(Promise!vars)
<1>0. MigrateInv
  BY DEF DeployInv
<1>1. CASE UNCHANGED vars
  BY <1>1 DEF vars, CopiesTrue, Promise!vars
<1>2. CASE Components \/ Fail
  <2>1. /\ UNCHANGED <<top, migrated>>
        /\ depl'.template = depl.template \/ depl'.template \in migrated
    BY <1>2, ComponentsDeploy
  <2>2. CopiesTrue'
    BY <1>0, <1>2, ComponentsTrue
  <2>3. QED
    BY <2>1, <2>2 DEF Promise!Next, Promise!Deploy, Promise!vars
<1>3. CASE Save
  <2>1. /\ CopiesTrue' /\ top'.version = top.version
        /\ top'.migrateV = top.migrateV \/ top'.migrateV \in migrated
        /\ UNCHANGED <<migrated, depl>>
    BY <1>0, <1>3, SaveTrue
  <2>2. QED
    BY <2>1 DEF Promise!Next, Promise!Record, Promise!vars
<1>4. CASE \/ Begin \/ Watches \/ OtherEvent \/ Crash \/ EditVersion \/ Touch \/ Tick
           \/ Cluster
  <2>1. /\ CopiesTrue'
        /\ top'.migrateV = top.migrateV /\ depl'.template = depl.template
        /\ \/ top'.version = top.version /\ UNCHANGED migrated
           \/ top'.version \in Versions /\ UNCHANGED migrated
           \/ /\ top'.version = top.version
              /\ \E v \in Versions : migrated' = migrated \cup {v}
    BY <1>0, <1>4, WorldTrue
  <2>2. QED
    BY <2>1 DEF Promise!Next, Promise!Ask, Promise!Migrate, Promise!vars
<1>5. QED
  BY <1>1, <1>2, <1>3, <1>4 DEF Next

\* Where no post-migration wait is configured, and with one on an installation, whose
\* Spec.Version nobody changes, the operator keeps what VersionRollout promises: it
\* reports and deploys migrated versions only, does one thing at a time, and never takes
\* a report back, whatever fails, is edited, replayed or read stale.
THEOREM KeepsPromiseCorrect ==
    ASSUME ~PostMigrate \/ MaxEdits = 0
    PROVE  Spec => KeepsPromise
<1>1. Init => DeployInv /\ CopiesTrue /\ Promise!Init
  <2>1. SUFFICES ASSUME Init PROVE DeployInv /\ CopiesTrue /\ Promise!Init
    OBVIOUS
  <2>2. PICK v \in Versions : top = NewObject(v)
    BY <2>1 DEF Init
  <2>3. top.version \in Versions /\ top.migrateV = NoVersion
    BY <2>2 DEF NewObject
  <2>4. cache = top /\ pc = "idle" /\ migrated = {} /\ depl.template = NoVersion
    BY <2>1 DEF Init
  <2>5. QED
    BY <2>1, <2>3, <2>4, DeployInit DEF CopiesTrue, Promise!Init
<1>2. DeployInv /\ CopiesTrue /\ [Next]_vars
        => (DeployInv /\ CopiesTrue)' /\ [Promise!Next]_(Promise!vars)
  <2>1. DeployInv => Steady
    BY DEF DeployInv, MigrateInv, TypeOK, BoundTypeOK, Steady
  <2>2. QED
    BY <2>1, DeployNext, StepKeepsPromise
<1>3. QED
  BY <1>1, <1>2, PTL DEF Spec, KeepsPromise, Promise!Spec
-----------------------------------------------------------------------------
(* A backup before the migration.  The backup modifiers copy Spec.Version of *)
(* the object they are applied to, so that an edit between a pass and its    *)
(* replay records a version that was not backed up; until the first edit     *)
(* every copy has the one version there is.                                  *)

BackedUp == backedUp \cup {NoVersion}

\* Until the user changes Spec.Version: every copy is of that version, the
\* snapshots recorded, about to be recorded or reported complete are, and so is
\* the one of the version a Job migrates to.
BackupInv ==
    edits = 0 =>
        /\ cache.version = top.version
        /\ pc # "idle" => mem.version = top.version
        /\ {top.backupV, cache.backupV, mem.backupV} \subseteq BackedUp
        /\ patch.backup => top.version \in backedUp
        /\ \A v \in Versions : snap[v] = "ready" => v \in backedUp
        /\ job # NoJob => job.version \in backedUp

\* BackupInv holds initially.
LEMMA BackupInit == Init => BackupInv
<1> SUFFICES ASSUME Init PROVE BackupInv
  OBVIOUS
<1>1. PICK v \in Versions : top = NewObject(v)
  BY DEF Init
<1>2. top.backupV = NoVersion /\ mem.backupV = NoVersion /\ ~patch.backup
  BY <1>1 DEF Init, NewObject, NoPatch
<1>3. QED
  BY <1>2 DEF Init, BackupInv, BackedUp

\* A component creates a Job only for a version recorded as backed up, and never
\* makes a snapshot complete.
LEMMA ComponentsJobBackup ==
    ASSUME TypeOK, Components \/ Fail
    PROVE  /\ \/ job' = job \/ job' = NoJob
              \/ job'.version = mem.version /\ mem.backupV = mem.version
           /\ \A v \in Versions : snap'[v] = "ready" => snap[v] = "ready"
<1>1. CASE Migrations
  <2>1. UNCHANGED snap
    BY <1>1 DEF Migrations, clusterVars
  <2>2. \/ job' = job \/ job' = NoJob
        \/ job' = [version |-> mem.version, state |-> "running"] /\ MigrationNeeded
    BY <1>1 DEF Migrations, MigrationsNotNeeded, MigrationsCreate,
                MigrationsReplace, MigrationsSucceeded, MigrationsUnfinished
  <2>3. QED
    BY <2>1, <2>2 DEF MigrationNeeded
<1>2. CASE Backup
  <2>1. UNCHANGED job
    BY <1>2 DEF Backup
  <2>2. CASE BackupTaken
    <3>1. snap \in [Versions -> SnapshotStates]
      BY DEF TypeOK, ClusterTypeOK
    <3>2. snap' = [snap EXCEPT ![mem.version] = IF snap[mem.version] = "absent"
                                                THEN "new" ELSE snap[mem.version]]
      BY <2>2 DEF BackupTaken
    <3>3. QED
      BY <2>1, <3>1, <3>2
  <2>3. CASE BackupSkipped
    BY <2>1, <2>3 DEF BackupSkipped
  <2>4. QED
    BY <1>2, <2>2, <2>3 DEF Backup
<1>3. CASE ~Migrations /\ ~Backup
  BY <1>3 DEF Components, PullSecret, Postgres, MigrateWait, Deployment, Status,
              Fail, clusterVars
<1>4. QED
  BY <1>1, <1>2, <1>3

\* The components keep BackupInv: what they record is there or was recorded.
LEMMA ComponentsBackup ==
    ASSUME HasRDS, WaitUntilReady, TypeOK, BackupInv, edits = 0, Components \/ Fail
    PROVE  BackupInv'
<1>0. OperatorTypeOK
  BY DEF TypeOK
<1>1. PICK p \in Patches, from \in Stages, rq \in BOOLEAN :
        /\ Modest(p)
        /\ \/ StepError(from, p, rq)
           \/ \E to \in Stages \cup {"save"}, aft \in BOOLEAN :
                 Step(from, to, p, rq, aft)
  BY ComponentsModest DEF ModestStep
<1>2. /\ pc = from /\ mem'.version = mem.version
      /\ mem'.backupV = IF p.backup THEN mem.version ELSE mem.backupV
      /\ patch'.backup = (patch.backup \/ p.backup)
      /\ UNCHANGED <<top, cache, backedUp, edits>>
  BY <1>0, <1>1, StepEffect, StepErrorEffect
<1>3. /\ mem.version = top.version /\ mem.version \in Versions
      /\ mem.version # NoVersion
  <2>1. pc # "idle"
    BY <1>2 DEF Stages
  <2>2. QED
    BY <1>0, <2>1, BoundsType, ConstantsOK DEF BackupInv, OperatorTypeOK
<1>4. p.backup => mem.version \in backedUp
  <2>1. SUFFICES ASSUME p.backup PROVE mem.version \in backedUp
    OBVIOUS
  <2>2. mem.backupV = mem.version \/ snap[mem.version] = "ready"
    BY <1>1, <2>1 DEF Modest
  <2>3. QED
    BY <1>3, <2>2 DEF BackupInv, BackedUp
<1>5. job' # NoJob => job'.version \in backedUp
  <2>1. \/ job' = job \/ job' = NoJob
        \/ job'.version = mem.version /\ mem.backupV = mem.version
    BY ComponentsJobBackup
  <2>2. QED
    BY <1>3, <2>1 DEF BackupInv, BackedUp
<1>6. \A v \in Versions : snap'[v] = "ready" => v \in backedUp
  BY ComponentsJobBackup DEF BackupInv
<1>7. {top'.backupV, cache'.backupV, mem'.backupV} \subseteq BackedUp'
  BY <1>2, <1>4 DEF BackupInv, BackedUp
<1>8. patch'.backup => top'.version \in backedUp'
  BY <1>2, <1>3, <1>4 DEF BackupInv
<1>9. QED
  BY <1>2, <1>3, <1>5, <1>6, <1>7, <1>8 DEF BackupInv

\* Writing or replaying the status keeps BackupInv: what is replayed is applied to
\* an object of the version it was collected for.
LEMMA SaveBackup ==
    ASSUME TypeOK, BackupInv, edits = 0, Save
    PROVE  BackupInv'
<1>0. OperatorTypeOK
  BY DEF TypeOK
<1>1. ASSUME ClearPass
      PROVE  pc' = "idle" /\ mem'.backupV = NoVersion /\ ~patch'.backup
  BY <1>1 DEF ClearPass, NewObject, NoPatch
<1>2. ASSUME Finish, top'.version = top.version, top'.backupV \in BackedUp
      PROVE  BackupInv'
  <2>1. ClearPass /\ UNCHANGED <<job, snap, cache, edits, backedUp>>
    BY <1>2 DEF Finish, clusterVars, boundVars, historyVars
  <2>2. QED
    BY <1>1, <1>2, <2>1 DEF BackupInv, BackedUp
<1>3. CASE SaveNothing
  BY <1>2, <1>3 DEF SaveNothing, BackupInv
<1>4. CASE SaveFast
  BY <1>2, <1>4 DEF SaveFast, BackupInv
<1>5. CASE SaveConflict \/ ReplayConflict
  <2>1. /\ UNCHANGED <<top, cache, mem, patch, job, snap, edits, backedUp>>
        /\ pc # "idle"
    BY <1>5 DEF SaveConflict, ReplayConflict, passVars, clusterVars, boundVars,
                historyVars
  <2>2. QED
    BY <2>1 DEF BackupInv, BackedUp
<1>6. CASE Replay
  <2>1. /\ top'.version = cache.version
        /\ top'.backupV = IF patch.backup THEN cache.version ELSE cache.backupV
    BY <1>0, <1>6 DEF Replay, Apply, OperatorTypeOK, Objects
  <2>2. QED
    BY <1>2, <1>6, <2>1 DEF Replay, BackupInv, BackedUp
<1>7. CASE ReplayGiveUp
  <2>1. ClearPass /\ UNCHANGED <<top, cache, job, snap, edits, backedUp>>
    BY <1>7 DEF ReplayGiveUp, clusterVars, boundVars, historyVars
  <2>2. QED
    BY <1>1, <2>1 DEF BackupInv, BackedUp
<1>8. QED
  BY <1>3, <1>4, <1>5, <1>6, <1>7 DEF Save

\* So do the start of a pass, watches, restarts, the clock and the controllers: a
\* snapshot is complete only once it has been completed.
LEMMA WorldBackup ==
    ASSUME TypeOK, BackupInv, edits = 0,
           \/ Begin \/ Watches \/ OtherEvent \/ Crash \/ Touch \/ Tick \/ Cluster
    PROVE  BackupInv'
<1>0. OperatorTypeOK /\ ClusterTypeOK
  BY DEF TypeOK
<1>1. CASE Begin
  BY <1>1 DEF Begin, clusterVars, boundVars, historyVars, BackupInv, BackedUp
<1>2. CASE Crash
  <2>1. pc' = "idle" /\ mem'.backupV = NoVersion /\ ~patch'.backup
    BY <1>2 DEF Crash, ClearPass, NewObject, NoPatch
  <2>2. cache' = top /\ UNCHANGED <<top, job, snap, edits, backedUp>>
    BY <1>2 DEF Crash, clusterVars, boundVars, historyVars
  <2>3. QED
    BY <2>1, <2>2 DEF BackupInv, BackedUp
<1>3. CASE Watches \/ OtherEvent
  <2>1. /\ UNCHANGED <<top, pc, mem, patch, job, snap, edits, backedUp>>
        /\ cache' \in {cache, top}
    BY <1>3 DEF Watches, SyncTop, SyncJob, TimerFires, OtherEvent, operatorIdle,
                passVars, clusterVars, boundVars, historyVars
  <2>2. QED
    BY <2>1 DEF BackupInv, BackedUp
<1>4. CASE Touch
  BY <1>4 DEF Touch, clusterVars, historyVars, BackupInv, BackedUp
<1>5. CASE Tick
  <2>1. /\ top'.version = top.version /\ top'.backupV = top.backupV
        /\ cache'.version = cache.version /\ cache'.backupV = cache.backupV
        /\ mem'.version = mem.version /\ mem'.backupV = mem.backupV
        /\ patch'.backup = patch.backup
        /\ UNCHANGED <<pc, job, snap, edits, backedUp>>
    BY <1>0, <1>5 DEF Tick, OperatorTypeOK, Objects, Patches, clusterVars,
                      boundVars, historyVars
  <2>2. QED
    BY <2>1 DEF BackupInv, BackedUp
<1>6. CASE SnapshotMoves
  <2>1. UNCHANGED <<top, cache, pc, mem, patch, job, edits>>
    BY <1>6 DEF SnapshotMoves, operatorVars, copies, boundVars
  <2>2. backedUp \subseteq backedUp'
    BY <1>6 DEF SnapshotMoves
  <2>3. \A v \in Versions : snap'[v] = "ready" => v \in backedUp'
    <3>1. PICK w \in Versions :
            \/ snap' = [snap EXCEPT ![w] = "creating"]
            \/ snap' = [snap EXCEPT ![w] = "ready"] /\ w \in backedUp'
            \/ snap' = [snap EXCEPT ![w] = "error"]
            \/ snap' = [snap EXCEPT ![w] = "absent"]
      BY <1>6 DEF SnapshotMoves
    <3>2. \A v \in Versions : snap[v] = "ready" => v \in backedUp
      BY DEF BackupInv
    <3>3. QED
      BY <1>0, <2>2, <3>1, <3>2 DEF ClusterTypeOK
  <2>4. QED
    BY <2>1, <2>2, <2>3 DEF BackupInv, BackedUp
<1>7. CASE \/ DatabaseMoves \/ PullSecretMoves \/ JobSucceeds \/ JobFails
           \/ DeploymentMoves
  <2>1. UNCHANGED <<top, cache, pc, mem, patch, snap, edits, backedUp>>
    BY <1>7 DEF DatabaseMoves, PullSecretMoves, JobSucceeds, JobFails,
                DeploymentMoves, operatorVars, copies, boundVars, historyVars,
                clusterVars
  <2>2. job' = NoJob \/ (job # NoJob /\ job'.version = job.version) \/ job' = job
    <3>1. job.state \in {"running", "failed"} => job # NoJob /\ job \in Jobs
      BY <1>0 DEF ClusterTypeOK, NoJob
    <3>2. CASE JobSucceeds \/ JobFails
      BY <3>1, <3>2 DEF JobSucceeds, JobFails, Jobs
    <3>3. CASE DatabaseMoves \/ PullSecretMoves \/ DeploymentMoves
      BY <3>3 DEF DatabaseMoves, PullSecretMoves, DeploymentMoves
    <3>4. QED
      BY <1>7, <3>2, <3>3
  <2>3. QED
    BY <2>1, <2>2 DEF BackupInv, BackedUp
<1>8. QED
  BY <1>1, <1>2, <1>3, <1>4, <1>5, <1>6, <1>7 DEF Cluster

\* BackupInv is inductive where RDS backups are waited for.
LEMMA BackupNext ==
    ASSUME HasRDS, WaitUntilReady, TypeOK, BackupInv, [Next]_vars
    PROVE  BackupInv'
<1>1. CASE UNCHANGED vars
  BY <1>1 DEF vars, BackupInv, BackedUp
<1>2. CASE EditVersion
  <2>1. edits' # 0
    BY <1>2, EditsCount DEF Next
  <2>2. QED
    BY <2>1 DEF BackupInv
<1>3. CASE Next /\ ~EditVersion
  <2>1. edits' = edits
    BY <1>3, EditsCount
  <2>2. CASE edits # 0
    BY <2>1, <2>2 DEF BackupInv
  <2>3. CASE edits = 0
    BY <1>3, <2>3, ComponentsBackup, SaveBackup, WorldBackup DEF Next
  <2>4. QED
    BY <2>2, <2>3
<1>4. QED
  BY <1>1, <1>2, <1>3

\* Where the operator waits for RDS backups, no migration Job exists for a version
\* whose snapshot never completed, until the user changes Spec.Version for the first
\* time: whatever fails, expires, is replayed or is read stale.
THEOREM BackupBeforeMigrationCorrect ==
    ASSUME HasRDS, WaitUntilReady
    PROVE  Spec => [](edits = 0 => BackupBeforeMigration)
<1>1. Init => TypeOK /\ BackupInv
  BY InitType, BackupInit
<1>2. TypeOK /\ BackupInv /\ [Next]_vars => (TypeOK /\ BackupInv)'
  BY NextType, BackupNext
<1>3. BackupInv => (edits = 0 => BackupBeforeMigration)
  BY DEF BackupInv, BackupBeforeMigration
<1>4. QED
  BY <1>1, <1>2, <1>3, PTL DEF Spec
-----------------------------------------------------------------------------
(* Ready means serving, while nobody changes Spec.Version.  On an upgrade it *)
(* does not: Status counts the replicas of the Deployment before its own     *)
(* write.                                                                    *)

\* There is one version, in every copy, in the Deployments and in the pods; pods are
\* available only of it; and wherever the platform is called Ready, or is going to
\* be, they run it.
ServingInv ==
    /\ cache.version = top.version
    /\ pc # "idle" => mem.version = top.version
    /\ {depl.template, depl.running} \subseteq {NoVersion, top.version}
    /\ depl.available => depl.running = top.version
    /\ "Ready" \in {top.phase, cache.phase, mem.phase, patch.phase}
         => depl.running = top.version

\* ServingInv holds initially.
LEMMA ServingInit == Init => ServingInv
<1> SUFFICES ASSUME Init PROVE ServingInv
  OBVIOUS
<1>1. PICK v \in Versions : top = NewObject(v)
  BY DEF Init
<1>2. top.phase = "" /\ mem.phase = "" /\ patch.phase = "keep"
  BY <1>1 DEF Init, NewObject, NoPatch
<1>3. QED
  BY <1>2 DEF Init, ServingInv

\* The components give the Deployments the version of the pass, and call the
\* platform Ready only when its pods are available.
LEMMA ComponentsServing ==
    ASSUME TypeOK, ServingInv, Components \/ Fail
    PROVE  ServingInv'
<1>0. OperatorTypeOK /\ ClusterTypeOK
  BY DEF TypeOK
<1>1. PICK p \in Patches, from \in Stages, rq \in BOOLEAN :
        /\ Modest(p)
        /\ \/ StepError(from, p, rq)
           \/ \E to \in Stages \cup {"save"}, aft \in BOOLEAN :
                 Step(from, to, p, rq, aft)
  BY ComponentsModest DEF ModestStep
<1>2. /\ pc = from /\ mem'.version = mem.version
      /\ mem'.phase \in {mem.phase, p.phase, "Error"}
      /\ patch'.phase \in {patch.phase, p.phase}
      /\ UNCHANGED <<top, cache>>
  BY <1>0, <1>1, StepEffect, StepErrorEffect DEF Or
<1>3. mem.version = top.version
  BY <1>2 DEF ServingInv, Stages
<1>4. /\ depl'.template \in {depl.template, top.version}
      /\ depl'.running = depl.running /\ depl'.available = depl.available
  <2>1. CASE Deployment
    BY <1>0, <1>3, <2>1 DEF Deployment, ClusterTypeOK
  <2>2. CASE ~Deployment
    BY <2>2 DEF Components, PullSecret, Postgres, Backup, Migrations, MigrateWait, Status,
                Fail, clusterVars
  <2>3. QED
    BY <2>1, <2>2
<1>5. p.phase = "Ready" => depl.running = top.version
  BY <1>1 DEF Modest, ServingInv
<1>6. QED
  BY <1>2, <1>3, <1>4, <1>5 DEF ServingInv

\* What the end of a pass writes is called Ready only if it was known to be serving.
LEMMA SaveServing ==
    ASSUME TypeOK, ServingInv, Save
    PROVE  /\ ServingInv'
           /\ top'.phase = "Ready" => top' = top \/ depl.running = mem.version
<1>0. OperatorTypeOK
  BY DEF TypeOK
<1>1. ASSUME ClearPass
      PROVE  pc' = "idle" /\ mem'.phase = "" /\ patch'.phase = "keep"
  BY <1>1 DEF ClearPass, NewObject, NoPatch
<1>2. ASSUME Finish, top'.version = top.version,
             top'.phase = "Ready" => depl.running = top.version
      PROVE  ServingInv'
  <2>1. ClearPass /\ UNCHANGED <<depl, cache>>
    BY <1>2 DEF Finish, clusterVars
  <2>2. QED
    BY <1>1, <1>2, <2>1 DEF ServingInv
<1>3. CASE SaveNothing
  BY <1>2, <1>3 DEF SaveNothing, ServingInv
<1>4. CASE SaveFast
  BY <1>2, <1>4 DEF SaveFast, ServingInv
<1>5. CASE SaveConflict \/ ReplayConflict
  <2>1. UNCHANGED <<top, cache, mem, patch, depl>> /\ pc # "idle"
    BY <1>5 DEF SaveConflict, ReplayConflict, passVars, clusterVars
  <2>2. QED
    BY <2>1 DEF ServingInv
<1>6. CASE Replay
  <2>1. /\ top'.version = cache.version
        /\ top'.phase \in {patch.phase, cache.phase}
    BY <1>0, <1>6 DEF Replay, Apply, Or, OperatorTypeOK, Objects
  <2>2. pc # "idle"
    BY <1>6 DEF Replay
  <2>3. QED
    BY <1>2, <1>6, <2>1, <2>2 DEF Replay, ServingInv
<1>7. CASE ReplayGiveUp
  <2>1. ClearPass /\ UNCHANGED <<top, cache, depl>>
    BY <1>7 DEF ReplayGiveUp, clusterVars
  <2>2. QED
    BY <1>1, <2>1 DEF ServingInv
<1>8. QED
  BY <1>3, <1>4, <1>5, <1>6, <1>7 DEF Save

\* Whatever goes on around the operator, pods are replaced by pods of the one version,
\* and what the object says of the phase does not change.
LEMMA WorldServing ==
    ASSUME TypeOK, ServingInv,
           \/ Begin \/ Watches \/ OtherEvent \/ Crash \/ Touch \/ Tick \/ Cluster
    PROVE  ServingInv' /\ top'.phase = top.phase
<1>0. OperatorTypeOK /\ ClusterTypeOK
  BY DEF TypeOK
<1>1. CASE Begin
  BY <1>1 DEF Begin, clusterVars, ServingInv
<1>2. CASE Crash
  <2>1. pc' = "idle" /\ mem'.phase = "" /\ patch'.phase = "keep"
    BY <1>2 DEF Crash, ClearPass, NewObject, NoPatch
  <2>2. cache' = top /\ UNCHANGED <<top, depl>>
    BY <1>2 DEF Crash, clusterVars
  <2>3. QED
    BY <2>1, <2>2 DEF ServingInv
<1>3. CASE Watches \/ OtherEvent
  <2>1. UNCHANGED <<top, pc, mem, patch, depl>> /\ cache' \in {cache, top}
    BY <1>3 DEF Watches, SyncTop, SyncJob, TimerFires, OtherEvent, operatorIdle,
                passVars, clusterVars
  <2>2. QED
    BY <2>1 DEF ServingInv
<1>4. CASE Touch
  BY <1>4 DEF Touch, clusterVars, ServingInv
<1>5. CASE Tick
  <2>1. /\ top'.version = top.version /\ top'.phase = top.phase
        /\ cache'.version = cache.version /\ cache'.phase = cache.phase
        /\ mem'.version = mem.version /\ mem'.phase = mem.phase
        /\ patch'.phase = patch.phase /\ UNCHANGED <<pc, depl>>
    BY <1>0, <1>5 DEF Tick, OperatorTypeOK, Objects, Patches, clusterVars
  <2>2. QED
    BY <2>1 DEF ServingInv
<1>6. CASE DeploymentMoves
  <2>1. UNCHANGED <<top, cache, pc, mem, patch>>
    BY <1>6 DEF DeploymentMoves, operatorVars, copies
  <2>2. /\ depl'.template = depl.template
        /\ \/ depl'.running = depl.running
           \/ depl.template # NoVersion /\ depl'.running = depl.template
        /\ depl'.available => \/ depl.available \/ depl'.running # NoVersion
    BY <1>0, <1>6 DEF DeploymentMoves, ClusterTypeOK
  <2>3. top.version # NoVersion
    BY <1>0, ConstantsOK DEF OperatorTypeOK
  <2>4. QED
    BY <2>1, <2>2, <2>3 DEF ServingInv
<1>7. CASE Cluster /\ ~DeploymentMoves
  <2>1. UNCHANGED <<top, cache, pc, mem, patch, depl>>
    BY <1>7 DEF Cluster, DatabaseMoves, PullSecretMoves, SnapshotMoves, JobSucceeds,
                JobFails, operatorVars, copies, clusterVars
  <2>2. QED
    BY <2>1 DEF ServingInv
<1>8. QED
  BY <1>1, <1>2, <1>3, <1>4, <1>5, <1>6, <1>7

\* A step that makes the platform Ready.
ReadyStep ==
    top'.phase = "Ready" /\ top.phase # "Ready" => depl.running = mem.version

\* ServingInv is inductive, and no step makes the platform Ready too early.
LEMMA ServingNext ==
    ASSUME MaxEdits = 0, TypeOK, ServingInv, [Next]_vars
    PROVE  ServingInv' /\ ReadyStep
<1>1. CASE UNCHANGED vars
  BY <1>1 DEF vars, ServingInv, ReadyStep
<1>2. CASE Components \/ Fail
  <2>1. UNCHANGED top
    BY <1>2, ComponentsModest DEF ModestStep, Step, StepError
  <2>2. QED
    BY <1>2, <2>1, ComponentsServing DEF ReadyStep
<1>3. CASE Save
  BY <1>3, SaveServing DEF ReadyStep
<1>4. CASE Begin \/ Watches \/ OtherEvent \/ Crash \/ Touch \/ Tick \/ Cluster
  BY <1>4, WorldServing DEF ReadyStep
<1>5. ~EditVersion
  BY DEF EditVersion, TypeOK, BoundTypeOK
<1>6. QED
  BY <1>1, <1>2, <1>3, <1>4, <1>5 DEF Next

\* A platform whose Spec.Version is not changed, that is its installation, is
\* declared Ready only when the pods that run are those of the version the reconcile
\* worked on: whatever fails, restarts, is replayed or is read stale.
THEOREM ReadyOnlyWhenServingCorrect ==
    ASSUME MaxEdits = 0
    PROVE  Spec => ReadyOnlyWhenServing
<1>1. Init => TypeOK /\ ServingInv
  BY InitType, ServingInit
<1>2. TypeOK /\ ServingInv /\ [Next]_vars => (TypeOK /\ ServingInv)' /\ [ReadyStep]_top
  BY NextType, ServingNext
<1>3. QED
  BY <1>1, <1>2, PTL DEF Spec, ReadyOnlyWhenServing, ReadyStep
=============================================================================

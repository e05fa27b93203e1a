--------------------------- MODULE SummonRollout ---------------------------
(***************************************************************************)
(* How the operator takes one SummonPlatform from the version its user     *)
(* asks for to running Deployments: dependencies, backup, migration job,   *)
(* post-migration wait, rollout, status.  It is the control flow of        *)
(* pkg/controller/summon/components/{pull_secret,postgres,backup,          *)
(* migrations,migrate_wait,deployment,status}.go run by                    *)
(* pkg/components/reconciler.go.                                           *)
(*                                                                         *)
(* A reconcile is not atomic.  It reads the SummonPlatform once, from the  *)
(* informer cache, works on that copy component by component, and at the   *)
(* end writes the status back under optimistic concurrency; between any    *)
(* two of its steps the user edits the object, the job, snapshot and       *)
(* deployment controllers make progress, time passes, an API call fails or *)
(* the operator restarts.                                                  *)
(*                                                                         *)
(* Abstracted: the Deployments and the StatefulSet the Status component    *)
(* looks at are one "depl"; Status.Message and the connection fields are   *)
(* left out; the components in between that neither read nor write the     *)
(* fields below appear only through the failures they can report (Fail).   *)
(***************************************************************************)
EXTENDS Naturals, FiniteSets

CONSTANTS
    Versions,        \* the values Spec.Version takes
    NoVersion,       \* the empty version string
    HasRDS,          \* PostgresDatabase.Status.RDSInstanceID # ""
    WaitUntilReady,  \* Spec.Backup.WaitUntilReady, after defaulting
    PostMigrate,     \* Spec.Waits.PostMigrate is longer than zero
    NewStatusCheck,  \* ENABLE_NEW_STATUS_CHECK == "true"
    MaxTries,        \* replays modifyStatus attempts after a conflict (5)
    MaxEdits,        \* bound: how often the user changes Spec.Version
    MaxTouches,      \* bound: other writes to the SummonPlatform
    Faults           \* which kinds of failure happen: subset of FaultKinds

FaultKinds == {"api", "crash", "job", "snapshot", "database", "pods", "expiry"}

ASSUME ConstantsOK ==
    /\ NoVersion \notin Versions
    /\ {HasRDS, WaitUntilReady, PostMigrate, NewStatusCheck} \subseteq BOOLEAN
    /\ MaxTries \in Nat \ {0}
    /\ MaxEdits \in Nat
    /\ MaxTouches \in Nat
    /\ Faults \subseteq FaultKinds

Phases == {"", "Initializing", "CreatingBackup", "Migrating",
           "PostMigrateWait", "Deploying", "Ready", "Error"}
DependencyStatus == {"", "Creating", "Ready", "Error"}
Deadlines == {"", "waiting", "elapsed"}  \* Status.Wait.Until, seen from now

\* The part of a SummonPlatform the rollout reads and writes: Spec.Version and
\* the status fields.
Objects == [version  : Versions \cup {NoVersion},
            phase    : Phases,
            pg       : DependencyStatus,
            pull     : DependencyStatus,
            backupV  : Versions \cup {NoVersion},
            migrateV : Versions \cup {NoVersion},
            until    : Deadlines]

NewObject(v) == [version |-> v, phase |-> "", pg |-> "", pull |-> "",
                 backupV |-> NoVersion, migrateV |-> NoVersion, until |-> ""]

\* What the status modifiers collected so far assign when they are run, in
\* order, on some copy of the object.  "keep" (NoVersion for migrateV): not
\* assigned.  The backup modifiers do not capture a version: they copy the
\* Spec.Version of the object they are applied to.
Patches == [phase    : (Phases \ {""}) \cup {"keep"},
            pg       : DependencyStatus \cup {"keep"},
            pull     : DependencyStatus \cup {"keep"},
            backup   : BOOLEAN,
            migrateV : Versions \cup {NoVersion},
            until    : Deadlines \cup {"keep"}]

NoPatch == [phase |-> "keep", pg |-> "keep", pull |-> "keep", backup |-> FALSE,
            migrateV |-> NoVersion, until |-> "keep"]

Or(new, old) == IF new = "keep" THEN old ELSE new

\* Mutant: the migration modifier reads the version off the object it is applied
\* to, as the backup modifiers do, instead of capturing it.
ApplyUncaptured(p, o) ==
    [o EXCEPT !.phase    = Or(p.phase, @),
              !.pg       = Or(p.pg, @),
              !.pull     = Or(p.pull, @),
              !.backupV  = IF p.backup THEN o.version ELSE @,
              !.migrateV = IF p.migrateV = NoVersion THEN @ ELSE o.version,
              !.until    = Or(p.until, @)]

Apply(p, o) ==
    [o EXCEPT !.phase    = Or(p.phase, @),
              !.pg       = Or(p.pg, @),
              !.pull     = Or(p.pull, @),
              !.backupV  = IF p.backup THEN o.version ELSE @,
              !.migrateV = IF p.migrateV = NoVersion THEN @ ELSE p.migrateV,
              !.until    = Or(p.until, @)]

\* Running the modifiers of p and then those of q.
Then(p, q) ==
    [phase    |-> Or(q.phase, p.phase),
     pg       |-> Or(q.pg, p.pg),
     pull     |-> Or(q.pull, p.pull),
     backup   |-> p.backup \/ q.backup,
     migrateV |-> IF q.migrateV = NoVersion THEN p.migrateV ELSE q.migrateV,
     until    |-> Or(q.until, p.until)]

Stages == {"pullsecret", "postgres", "backup", "migrations", "migratewait",
           "deployment", "status"}
Gated == {"backup", "migrations", "migratewait", "deployment"}

JobStates == {"running", "succeeded", "failed"}
Jobs == [version : Versions, state : JobStates]
NoJob == [version |-> NoVersion, state |-> "none"]

SnapshotStates == {"absent", "new", "creating", "ready", "error"}

VARIABLES
    \* -- the cluster ------------------------------------------------------
    top,        \* the SummonPlatform as the API server holds it
    pgStatus,   \* PostgresDatabase.Status.Status
    pullStatus, \* PullSecret.Status.Status
    snap,       \* version -> state of its RDSSnapshot
    job,        \* the migration Job
    depl,       \* the Deployments: pod template version, version of the
                \* running pods, published UpdatedReplicas = Replicas and
                \* AvailableReplicas = Replicas
    \* -- the operator process ---------------------------------------------
    cache,      \* the SummonPlatform in the informer cache
    cacheOK,    \* ... has the resourceVersion of top
    jobCache,   \* the Job in the informer cache
    queued,     \* the work queue holds the SummonPlatform's key
    timer,      \* a RequeueAfter is pending
    pc,         \* "idle", a stage, "save" or "replay"
    mem,        \* ctx.Top
    memOK,      \* ... has the resourceVersion of top
    clean,      \* cleanTop
    ready,      \* gated components found reconcilable when the pass began
    patch,      \* the status modifiers collected
    requeue,    \* result.Requeue
    after,      \* result.RequeueAfter # 0
    tries,      \* replays done
    \* -- bounds and history -----------------------------------------------
    edits,      \* Spec.Version changes so far
    touches,    \* other writes so far
    migrated,   \* history: versions whose migration Job has succeeded
    backedUp    \* history: versions whose RDSSnapshot has completed

clusterVars == <<pgStatus, pullStatus, snap, depl>>
passVars == <<mem, memOK, clean, ready, patch, requeue, after, tries>>
boundVars == <<edits, touches>>
historyVars == <<migrated, backedUp>>
vars == <<top, pgStatus, pullStatus, snap, job, depl, cache, cacheOK, jobCache,
          queued, timer, pc, mem, memOK, clean, ready, patch, requeue, after,
          tries, edits, touches, migrated, backedUp>>

-----------------------------------------------------------------------------
Init ==
    /\ \E v \in Versions : top = NewObject(v)
    /\ pgStatus = "" /\ pullStatus = ""
    /\ snap = [v \in Versions |-> "absent"]
    /\ job = NoJob /\ jobCache = NoJob
    /\ depl = [template |-> NoVersion, running |-> NoVersion,
               updated |-> FALSE, available |-> FALSE]
    /\ cache = top /\ cacheOK = TRUE
    /\ queued = TRUE /\ timer = FALSE
    /\ pc = "idle"
    /\ mem = NewObject(NoVersion) /\ memOK = FALSE
    /\ clean = NewObject(NoVersion)
    /\ ready = {} /\ patch = NoPatch
    /\ requeue = FALSE /\ after = FALSE /\ tries = 0
    /\ edits = 0 /\ touches = 0
    /\ migrated = {} /\ backedUp = {}

-----------------------------------------------------------------------------
(* The reconciler: reconciler.go Reconcile, reconcileComponents.            *)

\* IsReconcilable of the gated components, all evaluated on the stored object
\* before the first component runs.
BackupReady(o) == o.pg = "Ready"
MigrationsReady(o) == o.pg = "Ready" /\ o.pull = "Ready"
MigrateWaitReady(o) ==
    o.pg = "Ready" /\ o.pull = "Ready" /\ o.backupV = o.version

\* Mutant: a platform that is Ready is not rolled out again.
DeploymentReadyOnce(o) ==
    o.pull = "Ready" /\ o.pg = "Ready" /\ o.phase = "Deploying"

DeploymentReady(o) ==
    /\ o.pull = "Ready" /\ o.pg = "Ready"
    /\ o.phase \in {"Ready", "Deploying"}

ReadySet(o) ==
    {c \in Gated : \/ c = "backup" /\ BackupReady(o)
                   \/ c = "migrations" /\ MigrationsReady(o)
                   \/ c = "migratewait" /\ MigrateWaitReady(o)
                   \/ c = "deployment" /\ DeploymentReady(o)}

\* The stage to run next, in the order of controller.go, skipping what was not
\* reconcilable.
ToDeployment == IF "deployment" \in ready THEN "deployment" ELSE "status"
ToMigrateWait == IF "migratewait" \in ready THEN "migratewait" ELSE ToDeployment
ToMigrations == IF "migrations" \in ready THEN "migrations" ELSE ToMigrateWait
ToBackup == IF "backup" \in ready THEN "backup" ELSE ToMigrations

Begin ==
    /\ pc = "idle" /\ queued
    /\ queued' = FALSE
    /\ pc' = "pullsecret"
    /\ mem' = cache /\ memOK' = cacheOK /\ clean' = cache
    /\ ready' = ReadySet(cache)
    /\ UNCHANGED <<top, job, clusterVars, cache, cacheOK, jobCache, timer, patch,
                   requeue, after, tries, boundVars, historyVars>>

\* mergeResult: run the component's status modifier on ctx.Top, remember it,
\* fold its requeue wishes into the result.
Merge(p, rq, aft) ==
    /\ mem' = Apply(p, mem)
    /\ patch' = Then(patch, p)
    /\ requeue' = (requeue \/ rq)
    /\ after' = (after \/ aft)

Step(from, to, p, rq, aft) ==
    /\ pc = from
    /\ pc' = to
    /\ Merge(p, rq, aft)
    /\ UNCHANGED <<top, cache, cacheOK, jobCache, queued, timer, memOK, clean,
                   ready, tries, boundVars, historyVars>>

\* A component returns an error: what it merged stays, the remaining
\* components are skipped and SetErrorStatus marks the in-memory object only,
\* not the modifiers.
StepError(from, p, rq) ==
    /\ pc = from
    /\ pc' = "save"
    /\ mem' = [Apply(p, mem) EXCEPT !.phase = "Error"]
    /\ patch' = Then(patch, p)
    /\ requeue' = (requeue \/ rq)
    /\ UNCHANGED <<after, top, cache, cacheOK, jobCache, queued, timer, memOK,
                   clean, ready, tries, boundVars, historyVars>>

-----------------------------------------------------------------------------
(* The components.                                                          *)

PullSecretPatch == [NoPatch EXCEPT !.pull = pullStatus]

PullSecret ==
    /\ Step("pullsecret", "postgres", PullSecretPatch, FALSE, FALSE)
    /\ UNCHANGED <<job, clusterVars>>

\* A database in error stops the pass; otherwise its status is copied and, once
\* it has one, the phase restarts from Initializing on every pass.
PostgresPatch ==
    [NoPatch EXCEPT !.pg = pgStatus,
                    !.phase = IF pgStatus = "" THEN "keep" ELSE "Initializing"]

Postgres ==
    /\ IF pgStatus = "Error"
       THEN StepError("postgres", NoPatch, FALSE)
       ELSE Step("postgres", ToBackup, PostgresPatch, FALSE, FALSE)
    /\ UNCHANGED <<job, clusterVars>>

\* The three identical modifiers of backup.go.
RecordBackup == [NoPatch EXCEPT !.phase = "Migrating", !.backup = TRUE]

BackupSkipped ==
    /\ mem.backupV = mem.version \/ ~HasRDS
    /\ Step("backup", ToMigrations, RecordBackup, FALSE, FALSE)
    /\ UNCHANGED snap

\* CreateOrUpdate the RDSSnapshot named after the version, then look at its
\* status.  For an errored snapshot the code wraps a nil error, which is nil:
\* the component returns an empty result.
BackupTaken ==
    LET v == mem.version
        state == IF snap[v] = "absent" THEN "new" ELSE snap[v]
        creating == [NoPatch EXCEPT !.phase = "CreatingBackup"]
    IN  /\ mem.backupV # v /\ HasRDS
        /\ snap' = [snap EXCEPT ![v] = state]
        /\ \/ /\ ~WaitUntilReady \/ state = "ready"
              /\ Step("backup", ToMigrations, RecordBackup, FALSE, FALSE)
           \/ /\ WaitUntilReady
              /\ \/ /\ state = "error"
                    /\ Step("backup", ToMigrations, NoPatch, FALSE, FALSE)
                 \/ /\ state = "creating"
                    /\ Step("backup", ToMigrations, creating, FALSE, FALSE)
                 \/ /\ state = "new"
                    /\ Step("backup", ToMigrations, NoPatch, FALSE, TRUE)

Backup ==
    /\ BackupSkipped \/ BackupTaken
    /\ UNCHANGED <<job, pgStatus, pullStatus, depl>>

SetPhase(p) == [NoPatch EXCEPT !.phase = p]

MigrationsNotNeeded ==
    /\ \/ /\ mem.backupV # mem.version
          /\ Step("migrations", ToMigrateWait, NoPatch, FALSE, FALSE)
       \/ /\ mem.backupV = mem.version /\ mem.version = mem.migrateV
          /\ Step("migrations", ToMigrateWait, SetPhase("Deploying"), FALSE, FALSE)
    /\ UNCHANGED job

\* Mutant: migrate without looking at the backup.
MigrationNeededUnsafe == mem.version # mem.migrateV

MigrationNeeded ==
    mem.backupV = mem.version /\ mem.version # mem.migrateV

\* No Job in the cache: create it.  The create is refused when one exists.
MigrationsCreate ==
    /\ MigrationNeeded /\ jobCache = NoJob
    /\ IF job = NoJob
       THEN /\ job' = [version |-> mem.version, state |-> "running"]
            /\ Step("migrations", ToMigrateWait, SetPhase("Migrating"), FALSE, FALSE)
       ELSE /\ StepError("migrations", NoPatch, TRUE)
            /\ UNCHANGED job

\* A Job labelled with another version: delete whatever bears the name, requeue.
\* Deleting a Job that is gone is an error.
MigrationsReplace ==
    /\ MigrationNeeded /\ jobCache # NoJob /\ jobCache.version # mem.version
    /\ job' = NoJob
    /\ IF job = NoJob
       THEN StepError("migrations", NoPatch, TRUE)
       ELSE Step("migrations", ToMigrateWait, NoPatch, TRUE, FALSE)

\* Mutant: take a Job of another version for this one's.
MigrationsSucceededAnyVersion ==
    /\ MigrationNeeded
    /\ jobCache.state = "succeeded"
    /\ job' = NoJob
    /\ IF job = NoJob
       THEN StepError("migrations", NoPatch, TRUE)
       ELSE Step("migrations", ToMigrateWait,
                 [NoPatch EXCEPT !.phase = "PostMigrateWait",
                                 !.migrateV = mem.version], FALSE, FALSE)

\* A Job of this version that succeeded: delete it and record the version the
\* pass was working on.
MigrationsSucceeded ==
    /\ MigrationNeeded
    /\ jobCache = [version |-> mem.version, state |-> "succeeded"]
    /\ job' = NoJob
    /\ IF job = NoJob
       THEN StepError("migrations", NoPatch, TRUE)
       ELSE Step("migrations", ToMigrateWait,
                 [NoPatch EXCEPT !.phase = "PostMigrateWait",
                                 !.migrateV = mem.version], FALSE, FALSE)

MigrationsUnfinished ==
    /\ MigrationNeeded
    /\ \/ /\ jobCache = [version |-> mem.version, state |-> "failed"]
          /\ StepError("migrations", NoPatch, FALSE)
       \/ /\ jobCache = [version |-> mem.version, state |-> "running"]
          /\ Step("migrations", ToMigrateWait, SetPhase("Migrating"), FALSE, FALSE)
    /\ UNCHANGED job

Migrations ==
    /\ \/ MigrationsNotNeeded \/ MigrationsCreate \/ MigrationsReplace
       \/ MigrationsSucceeded \/ MigrationsUnfinished
    /\ UNCHANGED clusterVars

\* The clock is real: a zero wait is over by the time it is compared.
WaitOver ==
    IF mem.until = "" THEN ~PostMigrate ELSE mem.until = "elapsed"

MigrateWait ==
    /\ \/ /\ mem.phase # "PostMigrateWait" /\ mem.until = ""
          /\ Step("migratewait", ToDeployment, NoPatch, FALSE, FALSE)
       \/ /\ mem.phase = "PostMigrateWait" \/ mem.until # ""
          /\ ~WaitOver
          /\ Step("migratewait", ToDeployment,
                  [NoPatch EXCEPT !.until = "waiting"], FALSE, PostMigrate)
       \/ /\ mem.phase = "PostMigrateWait" \/ mem.until # ""
          /\ WaitOver
          /\ Step("migratewait", ToDeployment,
                  [NoPatch EXCEPT !.phase = "Deploying", !.until = ""], FALSE, FALSE)
    /\ UNCHANGED <<job, clusterVars>>

\* Writing a Deployment changes its template; what its status says about
\* replicas changes when the deployment controller gets to it.
Deployment ==
    /\ Step("deployment", "status", NoPatch, FALSE, FALSE)
    /\ depl' = IF mem.phase = "Deploying"
               THEN [depl EXCEPT !.template = mem.version] ELSE depl
    /\ UNCHANGED <<job, pgStatus, pullStatus, snap>>

\* Mutant: drop the test Spec.Replicas # nil, so that a Deployment that was not
\* found has as many replicas ready as it wants: none.
DeploymentsReadyUnfound ==
    depl.template = NoVersion
      \/ (depl.available /\ (NewStatusCheck => depl.updated))

DeploymentsReady ==
    depl.available /\ (NewStatusCheck => depl.updated)

Status ==
    /\ Step("status", "save",
            IF mem.phase = "Deploying" /\ DeploymentsReady
            THEN SetPhase("Ready") ELSE NoPatch, FALSE, FALSE)
    /\ UNCHANGED <<job, clusterVars>>

\* Any component, the ones not modelled here included, can fail on an API call;
\* some ask for an immediate requeue, most do not.  The first two merge their
\* modifier even then.
Fail ==
    /\ "api" \in Faults
    /\ \/ \E c \in Stages, rq \in BOOLEAN : StepError(c, NoPatch, rq)
       \/ StepError("pullsecret", PullSecretPatch, TRUE)
       \/ StepError("postgres", PostgresPatch, TRUE)
    /\ UNCHANGED <<job, clusterVars>>

-----------------------------------------------------------------------------
(* The end of the pass: reconciler.go Reconcile, modifyStatus, updateStatus.*)

ClearPass ==
    /\ pc' = "idle"
    /\ mem' = NewObject(NoVersion) /\ memOK' = FALSE
    /\ clean' = NewObject(NoVersion)
    /\ ready' = {} /\ patch' = NoPatch
    /\ requeue' = FALSE /\ after' = FALSE /\ tries' = 0

\* The work queue acts on the result; RequeueAfter takes precedence.
Finish ==
    /\ ClearPass
    /\ timer' = (timer \/ after)
    /\ queued' = (queued \/ (requeue /\ ~after))
    /\ UNCHANGED <<job, clusterVars, cache, jobCache, boundVars, historyVars>>

SaveNothing ==
    /\ pc = "save" /\ mem = clean
    /\ Finish
    /\ UNCHANGED <<top, cacheOK>>

\* Mutant: write without optimistic concurrency.
SaveFastBlind ==
    /\ pc = "save" /\ mem # clean
    /\ top' = mem
    /\ cacheOK' = FALSE
    /\ Finish

\* The fast path writes the status of ctx.Top if nobody wrote in between.
SaveFast ==
    /\ pc = "save" /\ mem # clean /\ memOK
    /\ top' = mem
    /\ cacheOK' = FALSE
    /\ Finish

SaveConflict ==
    /\ pc = "save" /\ mem # clean
    /\ ~memOK \/ "api" \in Faults
    /\ pc' = "replay"
    /\ UNCHANGED <<top, job, clusterVars, cache, cacheOK, jobCache, queued, timer,
                   passVars, boundVars, historyVars>>

\* The slow path fetches a copy (from the cache again), runs every modifier on
\* it and writes that.  An error status is not among the modifiers.
Replay ==
    /\ pc = "replay" /\ cacheOK
    /\ top' = Apply(patch, cache)
    /\ cacheOK' = (top' = top)
    /\ Finish

ReplayRefused == ~cacheOK \/ "api" \in Faults

\* Mutant: never give up.
ReplayConflictForever ==
    /\ pc = "replay" /\ ReplayRefused
    /\ tries' = tries + 1
    /\ UNCHANGED <<top, job, clusterVars, cache, cacheOK, jobCache, queued, timer,
                   pc, mem, memOK, clean, ready, patch, requeue, after,
                   boundVars, historyVars>>

ReplayConflict ==
    /\ pc = "replay" /\ ReplayRefused /\ tries + 1 < MaxTries
    /\ tries' = tries + 1
    /\ UNCHANGED <<top, job, clusterVars, cache, cacheOK, jobCache, queued, timer,
                   pc, mem, memOK, clean, ready, patch, requeue, after,
                   boundVars, historyVars>>

\* Too many failures: the error goes to the work queue, which retries.
ReplayGiveUp ==
    /\ pc = "replay" /\ ReplayRefused /\ tries + 1 = MaxTries
    /\ ClearPass
    /\ queued' = TRUE
    /\ UNCHANGED <<top, job, clusterVars, cache, cacheOK, jobCache, timer,
                   boundVars, historyVars>>

-----------------------------------------------------------------------------
(* Watches, timers and restarts.                                            *)

operatorIdle == <<pc, passVars>>

\* A watch event refreshes the cache and queues the key.
SyncTop ==
    /\ ~cacheOK
    /\ cache' = top /\ cacheOK' = TRUE
    /\ queued' = TRUE
    /\ UNCHANGED <<top, job, clusterVars, jobCache, timer, operatorIdle,
                   boundVars, historyVars>>

SyncJob ==
    /\ jobCache # job
    /\ jobCache' = job
    /\ queued' = TRUE
    /\ UNCHANGED <<top, job, clusterVars, cache, cacheOK, timer, operatorIdle,
                   boundVars, historyVars>>

TimerFires ==
    /\ timer
    /\ timer' = FALSE /\ queued' = TRUE
    /\ UNCHANGED <<top, job, clusterVars, cache, cacheOK, jobCache, operatorIdle,
                   boundVars, historyVars>>

\* An event of another owned object, or the periodic resync.
OtherEvent ==
    /\ ~queued
    /\ queued' = TRUE
    /\ UNCHANGED <<top, job, clusterVars, cache, cacheOK, jobCache, timer,
                   operatorIdle, boundVars, historyVars>>

\* The process dies and starts again: caches are refilled by a list, every
\* object is queued, pending timers are gone.  It can die at any point; the
\* PullSecret component brings it down itself when its CreateOrUpdate fails
\* before the mutate function has run, because its modifier then dereferences
\* a nil PullSecret.
Crash ==
    /\ "crash" \in Faults \/ ("api" \in Faults /\ pc = "pullsecret")
    /\ ClearPass
    /\ cache' = top /\ cacheOK' = TRUE /\ jobCache' = job
    /\ queued' = TRUE /\ timer' = FALSE
    /\ UNCHANGED <<top, job, clusterVars, boundVars, historyVars>>

-----------------------------------------------------------------------------
(* The rest of the cluster.                                                 *)

operatorVars == <<cacheOK, jobCache, timer, pc, ready, requeue, after, tries>>
copies == <<cache, mem, memOK, clean, patch>>

\* The user asks for another version.
EditVersion ==
    /\ edits < MaxEdits
    /\ \E v \in Versions \ {top.version} : top' = [top EXCEPT !.version = v]
    /\ edits' = edits + 1
    /\ cacheOK' = FALSE /\ memOK' = FALSE
    /\ UNCHANGED <<job, clusterVars, cache, jobCache, queued, timer, pc, mem,
                   clean, ready, patch, requeue, after, tries, touches,
                   historyVars>>

\* Somebody writes another field of the SummonPlatform.
Touch ==
    /\ touches < MaxTouches
    /\ touches' = touches + 1
    /\ cacheOK' = FALSE /\ memOK' = FALSE
    /\ UNCHANGED <<top, job, clusterVars, cache, jobCache, queued, timer, pc, mem,
                   clean, ready, patch, requeue, after, tries, edits,
                   historyVars>>

\* The deadlines set so far pass.
Elapse(d) == IF d = "waiting" THEN "elapsed" ELSE d

Tick ==
    /\ "waiting" \in {top.until, cache.until, mem.until, patch.until}
    /\ top' = [top EXCEPT !.until = Elapse(@)]
    /\ cache' = [cache EXCEPT !.until = Elapse(@)]
    /\ mem' = [mem EXCEPT !.until = Elapse(@)]
    /\ clean' = [clean EXCEPT !.until = Elapse(@)]
    /\ patch' = [patch EXCEPT !.until = Elapse(@)]
    /\ UNCHANGED <<job, clusterVars, cacheOK, jobCache, queued, timer, pc, memOK,
                   ready, requeue, after, tries, boundVars, historyVars>>

\* The PostgresDatabase and PullSecret controllers.
DatabaseMoves ==
    /\ \/ pgStatus = "" /\ pgStatus' = "Creating"
       \/ pgStatus \in {"Creating", "Error"} /\ pgStatus' = "Ready"
       \/ "database" \in Faults /\ pgStatus \in {"Creating", "Ready"} /\ pgStatus' = "Error"
    /\ queued' = TRUE
    /\ UNCHANGED <<top, job, pullStatus, snap, depl, operatorVars, copies,
                   boundVars, historyVars>>

PullSecretMoves ==
    /\ pullStatus = "" /\ pullStatus' = "Ready"
    /\ queued' = TRUE
    /\ UNCHANGED <<top, job, pgStatus, snap, depl, operatorVars, copies,
                   boundVars, historyVars>>

\* Mutant: the backup component does not watch its RDSSnapshots.
SnapshotMovesUnwatched ==
    /\ \E v \in Versions :
         \/ snap[v] = "new" /\ snap' = [snap EXCEPT ![v] = "creating"]
              /\ UNCHANGED backedUp
         \/ snap[v] = "creating" /\ snap' = [snap EXCEPT ![v] = "ready"]
              /\ backedUp' = backedUp \cup {v}
    /\ UNCHANGED <<top, job, pgStatus, pullStatus, depl, queued, operatorVars,
                   copies, boundVars, migrated>>

\* The RDSSnapshot controller; a completed snapshot deletes itself after its
\* TTL.
SnapshotMoves ==
    /\ \E v \in Versions :
         \/ snap[v] = "new" /\ snap' = [snap EXCEPT ![v] = "creating"]
              /\ UNCHANGED backedUp
         \/ snap[v] = "creating" /\ snap' = [snap EXCEPT ![v] = "ready"]
              /\ backedUp' = backedUp \cup {v}
         \/ "snapshot" \in Faults /\ snap[v] \in {"new", "creating"}
              /\ snap' = [snap EXCEPT ![v] = "error"] /\ UNCHANGED backedUp
         \/ "expiry" \in Faults /\ snap[v] = "ready"
              /\ snap' = [snap EXCEPT ![v] = "absent"] /\ UNCHANGED backedUp
    /\ queued' = TRUE
    /\ UNCHANGED <<top, job, pgStatus, pullStatus, depl, operatorVars, copies,
                   boundVars, migrated>>

\* The Job controller, and the user who clears a failed Job.
JobSucceeds ==
    /\ job.state = "running"
    /\ job' = [job EXCEPT !.state = "succeeded"]
    /\ migrated' = migrated \cup {job.version}
    /\ UNCHANGED <<top, clusterVars, operatorVars, queued, copies, boundVars,
                   backedUp>>

JobFails ==
    /\ "job" \in Faults
    /\ \/ job.state = "running" /\ job' = [job EXCEPT !.state = "failed"]
       \/ job.state = "failed" /\ job' = NoJob
    /\ UNCHANGED <<top, clusterVars, operatorVars, queued, copies, boundVars,
                   historyVars>>

\* The deployment controller: notice a new template, finish the rollout, lose
\* and regain pods.
DeploymentMoves ==
    /\ \/ /\ depl.template # depl.running /\ depl.updated
          /\ depl' = [depl EXCEPT !.updated = FALSE]
       \/ /\ depl.template # NoVersion /\ ~depl.updated
          /\ depl' = [depl EXCEPT !.running = depl.template, !.updated = TRUE,
                                  !.available = TRUE]
       \/ /\ "pods" \in Faults /\ depl.available
          /\ depl' = [depl EXCEPT !.available = FALSE]
       \/ /\ depl.running # NoVersion /\ ~depl.available
          /\ depl' = [depl EXCEPT !.available = TRUE]
    /\ queued' = TRUE
    /\ UNCHANGED <<top, job, pgStatus, pullStatus, snap, operatorVars, copies,
                   boundVars, historyVars>>

-----------------------------------------------------------------------------
Components ==
    PullSecret \/ Postgres \/ Backup \/ Migrations \/ MigrateWait \/ Deployment
      \/ Status

Save == SaveNothing \/ SaveFast \/ SaveConflict \/ Replay \/ ReplayConflict
          \/ ReplayGiveUp

Watches == SyncTop \/ SyncJob \/ TimerFires

Cluster == DatabaseMoves \/ PullSecretMoves \/ SnapshotMoves \/ JobSucceeds
             \/ JobFails \/ DeploymentMoves

Next ==
    \/ Begin \/ Components \/ Fail \/ Save
    \/ Watches \/ OtherEvent \/ Crash
    \/ EditVersion \/ Touch \/ Tick
    \/ Cluster

Spec == Init /\ [][Next]_vars

\* The work queue hands out queued keys, informers deliver what changed, the
\* other controllers do their work, which is not to fail, and time passes.
\* Nothing is assumed of the user, of unrelated events, of failures or of restarts.
Fairness ==
    /\ WF_vars(Begin) /\ WF_vars(Components) /\ WF_vars(Save)
    /\ WF_vars(SyncTop) /\ WF_vars(SyncJob) /\ WF_vars(TimerFires)
    /\ WF_vars(Tick)
    /\ WF_vars(DatabaseMoves /\ pgStatus' # "Error") /\ WF_vars(PullSecretMoves)
    /\ WF_vars(SnapshotMoves /\ \A v \in Versions : snap'[v] \in {snap[v], "creating", "ready"})
    /\ WF_vars(JobSucceeds)
    /\ WF_vars(DeploymentMoves /\ (depl.available => depl'.available))

FairSpec == Spec /\ Fairness

-----------------------------------------------------------------------------
ClusterTypeOK ==
    /\ pgStatus \in DependencyStatus /\ pullStatus \in DependencyStatus
    /\ snap \in [Versions -> SnapshotStates]
    /\ job \in Jobs \cup {NoJob}
    /\ depl \in [template : Versions \cup {NoVersion},
                 running : Versions \cup {NoVersion},
                 updated : BOOLEAN, available : BOOLEAN]

OperatorTypeOK ==
    /\ top \in Objects /\ cache \in Objects
    /\ mem \in Objects /\ clean \in Objects
    /\ top.version \in Versions /\ cache.version \in Versions
    /\ pc # "idle" => mem.version \in Versions
    /\ cacheOK \in BOOLEAN /\ memOK \in BOOLEAN
    /\ jobCache \in Jobs \cup {NoJob}
    /\ queued \in BOOLEAN /\ timer \in BOOLEAN
    /\ pc \in Stages \cup {"idle", "save", "replay"}
    /\ ready \subseteq Gated
    /\ patch \in Patches
    /\ requeue \in BOOLEAN /\ after \in BOOLEAN
    /\ tries \in 0 .. MaxTries

BoundTypeOK ==
    /\ edits \in 0 .. MaxEdits /\ touches \in 0 .. MaxTouches
    /\ migrated \subseteq Versions /\ backedUp \subseteq Versions

\* The variables keep their types: the status fields hold declared constants, a
\* pass under way has a version to work on, and modifyStatus gives up in time.
TypeOK == ClusterTypeOK /\ OperatorTypeOK /\ BoundTypeOK

\* "Previous version for which migrations ran successfully": whatever fails, is
\* replayed, is stale or is edited meanwhile, the stored MigrateVersion never
\* names a version whose migration Job did not succeed.
MigrateVersionHonest == top.migrateV \in migrated \cup {NoVersion}

\* "Previous version for which a backup was made": the stored BackupVersion
\* names a version whose snapshot completed.
BackupVersionHonest == top.backupV \in backedUp \cup {NoVersion}

\* Where the operator waits for RDS backups, no migration Job exists for a
\* version whose snapshot never completed.
BackupBeforeMigration == job # NoJob => job.version \in backedUp

\* No Deployment is given the image of a version that was not migrated.
DeployOnlyMigrated == depl.template \in migrated \cup {NoVersion}

\* What the operator promises of versions (see VersionRollout), with the stored
\* object, the history of the Jobs and the pod templates in its terms.  It says
\* more than the two invariants above: no step of the operator touches
\* Spec.Version, forgets a recorded migration, or does two things at once.
Promise == INSTANCE VersionRollout
             WITH wanted <- top.version, recorded <- top.migrateV,
                  deployed <- depl.template

KeepsPromise == Promise!Spec

\* The platform is declared Ready only when the pods that run are those of the
\* version the reconcile worked on.
ReadyOnlyWhenServing ==
    [][top'.phase = "Ready" /\ top.phase # "Ready"
         => depl.running = mem.version]_top

\* No Deployment is rewritten while the recorded post-migration wait of the
\* object being reconciled has not passed.
WaitRespected ==
    [][depl'.template # depl.template => mem.until # "waiting"]_depl

\* Once the user leaves the version alone it is migrated, rolled out and
\* reported Ready, and stays so, provided that from some time on the informers
\* have delivered what was written before a pass begins and the database does not
\* fail again.  (The informers usually have, but nothing makes them: passes that
\* keep starting from stale copies can run the migration again and again, each
\* losing the success of the one before.)
PromptInformers ==
    <>[][pc = "idle" /\ pc' # "idle" => cacheOK /\ jobCache = job]_vars

Converged ==
    /\ top.phase = "Ready" /\ top.migrateV = top.version
    /\ depl.template = top.version /\ depl.running = top.version

Converges == PromptInformers /\ <>[](pgStatus # "Error") => <>[]Converged
=============================================================================

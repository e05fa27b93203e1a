# A TLA+ verification of ridecell-operator

ridecell-operator is a Kubernetes operator. It runs Ridecell's Summon platforms
and the cloud resources they need (RDS databases and snapshots, S3 buckets, IAM
users, RabbitMQ vhosts, Postgres databases and users, secrets, ...). Each kind of
object has a controller; each controller is a list of *components* run, in order,
by one generic reconciler. This directory models the operator in TLA+, checks the
models with TLC and proves theorems about them with TLAPS.

`PROJECT.json` is the index: it names, for every definition, the lines of `src/`
it stands for, every run with its properties, a mutant of the code's definitions
for every property, and the hazards the properties are aimed at. Paths below are
relative to `src/`.

## 1. The system

### The component reconciler (`pkg/components`)

`Reconcile` (reconciler.go:122) serves one key of a work queue:

 1. `newContext` reads the top object from the informer cache, a copy that may be
    behind the API server;
 2. `reconcileComponents` asks every component `IsReconcilable` on that *stored*
    object, before any of them runs, then runs the ones that said yes in order;
    each returns a `Result`: requeue wishes and a *status modifier*. `mergeResult`
    applies the modifier to the in-memory object and remembers it;
 3. a component that fails ends the pass; `SetErrorStatus` marks the in-memory
    object, not the list of modifiers. The error is logged and *not* returned to
    the work queue: unless the result asks for a requeue nothing is retried until
    an event or a resync;
 4. if the object changed, `modifyStatus` writes the status under optimistic
    concurrency; after a conflict it fetches a copy again and replays the
    modifiers on it, up to five times.

State: the work queue, the informer caches, the context of the pass, the list of
modifiers. What makes it right: a status write never undoes a concurrent edit, a
replay records nothing that is false of the object it is replayed on, an object
that is not as it should be is eventually worked on again.

### The controllers

| component | state it keeps | operations | interacts with | correct when | model |
|---|---|---|---|---|---|
| Summon rollout (`controller/summon/components`: pull_secret, postgres, backup, migrations, migrate_wait, deployment, status) | `Status.{Status, BackupVersion, MigrateVersion, Wait}`, a Job, an RDSSnapshot per version, Deployments | take backup, run migration Job, wait, write Deployments, declare Ready | PostgresDatabase, PullSecret, RDSSnapshot, Job and Deployment controllers, the user | backup before migration, migration before deployment, Ready when serving, every requested version eventually served | `SummonRollout` |
| Summon autodeploy, image watch (`autodeploy.go`, `utils/gcr`), notifications (`notification.go`) | global tag cache; `Status.Notification`, in-memory duplicate cache | pick the newest image, set Spec.Version in memory; post to Slack, deploy status, regression suite | registry, external services, all other components | newest version announced, what is recorded was announced and is not repeated | `SummonNotification` |
| Summon secrets (`app_secrets.go`, `secret_key.go`, `newrelic.go`, `superuser.go`), ConfigMap, scheduler, autoscaler, budget | one object each, hashes in the pod templates | gather, derive, create or update | the controllers that make the credentials, their secrets, the pods | pods have the current credentials, generated keys stable | `PlatformSecrets` |
| other owned objects (services, ingresses, volumes, buckets, monitors) | one object each | render, create or update | the rollout waits for them only by failing | output equals the function of the input | as failures (`Fail`) |
| RDS instance (`controller/rds`) | finalizers, AWS database, parameter group, security group, password | create, modify, delete in order | AWS, PostgresDatabase | the finalizer outlives the resource, nothing leaks | `RDSInstance` |
| RDS snapshot, IAM user, IAM role, S3 bucket, Elasticsearch | finalizer, AWS resource; access key and secret; TTL | create, synchronise, expire, delete | AWS, the rollout | as for RDS; one key, the secret holds it; expires once | `AWSResource` |
| DbConfig, PostgresDatabase (with extension and periscope user) | chain of statuses, shared cluster object | create in order | RDS instance or Postgres operator | Ready means that everything is there | `Databases` |
| PostgresUser, Django user, mock car server tenant, GCP service account | account elsewhere and a secret | create, push the password or store the key, delete | Postgres, application database, HTTP API, GCP | the secret opens the account and is not replaced | `Credentials` |
| dbpool | process-wide map of handles | open | every component that talks SQL | one handle per key | what a pooled connection hides: `Credentials` |
| RabbitMQ vhost and user | broker, password, policies, two finalizers | synchronise, delete | RabbitMQ API, each other | Ready means one can connect, nothing is left behind | `RabbitmqBroker` |
| PostgresOperatorDB, CloudAMQP rules, Alertmanager config, monitor | maps in shared objects; external rules | merge, rebuild, delete | siblings, HTTP APIs | ends as the merge of all | none yet |
| GCP project | chain of long operations | poll | GCP | each operation started once | none yet |
| Encrypted secret, pull secret, ingress, vulnerability report | one output each | render or upsert | | output equals the function of the input | none |

The remaining entries of `PROJECT.json` (manager, init container, web UI, clean-up
script, templates) are start-up code or pure I/O.

### What is hard

 - every pass is a read-modify-write over several objects, interleaved with
   users, other controllers and other passes;
 - every input is a cache that may be old, and the gates of a pass are evaluated
   on a different copy (the stored one) than the work (the copy being modified);
 - a modifier is a closure that may run twice, on two different objects;
 - a crash between an external effect and the record of it; records kept in
   memory only;
 - waiting is done by returning and being woken: a missing watch or a swallowed
   error is a platform that hangs;
 - deletion order, held together by finalizers.

The list with lines is under `hazards` in `PROJECT.json`; a hazard that no property
covers says why.

## 2. Plan

| # | module | what | abstract spec it implements | state |
|---|---|---|---|---|
| 1 | `SummonRollout` | the rollout run by the reconciler | `VersionRollout` | modelled, proved |
| 2 | `ComponentReconciler` | the generic pass: cache, modifiers and replay for any object and any list of components | | modelled, with lemmas for any controller; every module below is built on it |
| 3 | `RDSInstance` | life cycle of database, groups and finalizers | `ExternalResource` | modelled, proved |
| 4 | `AWSResource` | snapshot, IAM user and role, bucket, search domain | `ExternalResource` | modelled, proved |
| 5 | `Databases`, `Credentials` | DbConfig and PostgresDatabase; logins with their secrets | `ExternalResource` (tenant) | modelled, proved |
| 6 | `SummonNotification` | duplicate cache, partial channel failure, replay, autodeploy | | modelled, proved |
| 7 | `RabbitmqBroker` | vhost, user, policies, two controllers | `ExternalResource` (vhost) | modelled, proved |
| 8 | `PlatformSecrets` | from credentials to pods | | modelled, proved |
| 9 | Alertmanager configuration | many objects, cached lists, one shared secret | the merge of all | left |
| 10 | GCP project, monitor, CloudAMQP, encrypted secrets, operator databases | | | left; section 6 says why they are last |

Order: first what decides which version a customer's data is migrated to, then
the reconciler all controllers share, then what deletes data, then the credentials
and the rest. `SummonRollout` and `RDSInstance` were written before
`ComponentReconciler` and have the pass written out; the proofs are about them as they are.

Runs: one per question, and questions that share an instance share a run, so that the set
stays small (a dozen) and can be run after every change; two versions when the
question is about edits, one when it is about failures. Composition:
`SummonRollout` sees the snapshot and the database through their statuses only
(`SnapshotMoves`, `DatabaseMoves`), which `AWSResource` and `Databases` detail;
`PlatformSecrets` sees the objects that make credentials through their statuses and secrets,
which `Databases`, `Credentials`, `RabbitmqBroker` and `AWSResource` detail;
`RabbitmqBroker` and `Databases` put two controllers side by side.

## 3. Modules

| module | what it is |
|---|---|
| `ComponentReconciler` | one pass of the reconciler over one object, for any components; instantiated (`R`, or one instance per controller) by the modules below that say so. Its lemmas (`BeginTypes` to `RestartTypes`) say of any components what each step of a pass does |
| `SummonRollout` | the rollout of one SummonPlatform and the passes that run it |
| `VersionRollout` | what the rollout promises of versions; `SummonRollout` implements it (`KeepsPromise`) |
| `SummonRolloutProofs` | theorems about `SummonRollout`, checked by TLAPS |
| `RDSInstance` | the life of one RDSInstance and the passes that run it |
| `ExternalResource` | what a finalizer promises of one resource; implemented by the parameter group and (while no call fails) the security group of `RDSInstance`, not by its database, and by the accounts of `AWSResource`, the tenant of `Credentials` and the vhost of `RabbitmqBroker` |
| `RDSInstanceProofs` | theorems about `RDSInstance`, checked by TLAPS |
| `SummonNotification` | which version is asked for, and who is told; on `ComponentReconciler` |
| `AWSResource` | five controllers with the same plan for something in AWS; on `ComponentReconciler` |
| `Credentials` | four controllers that make a login and a secret; on `ComponentReconciler` |
| `RabbitmqBroker` | two objects, two controllers, one broker; on two instances of `ComponentReconciler` |
| `Databases` | DbConfig and PostgresDatabase, two controllers; on two instances of `ComponentReconciler` |
| `PlatformSecrets` | how secrets and configuration reach the pods; on `ComponentReconciler` |
| `AWSResourceProofs`, `CredentialsProofs`, `RabbitmqBrokerProofs`, `DatabasesProofs` | theorems about the modules they are named after, checked by TLAPS with the lemmas of `ComponentReconciler` |
| `SummonPlatformProofs` | the same about two models of the SummonPlatform controller, `SummonNotification` and `PlatformSecrets` |
| `MC...` | the instances TLC checks; the constants are in the cfg files |

### ComponentReconciler and the code

State. `top` is the object in the API server, `view` the informer's copy and whether any
write is missing from it, `pass` the pass under way (where it is, `obj` = `ctx.Top` with
whether its resourceVersion is still the stored one, `clean` = `cleanTop`, the modifiers collected, the merged
result, the replays done), `work` the queue: the key is in it, a RequeueAfter is pending.

Actions and steps. `Begin` is newContext; `Return`, `ReturnError` are what a component
returns and what mergeResult does with it, `Finish` and the write, conflict and replay steps
are the end of Reconcile. They leave the rest of the state to the module that uses them: a
component is `R!Return(...)` or `R!ReturnError(...)` together with what the component changes
elsewhere. `Apply`, `Then`, `NoPatch`, `Failed` (SetErrorStatus) are parameters, because which fields there are,
and what a modifier captures, is the controller's business. `TypesOK` is the part of each
type invariant that is about the pass.

### SummonRollout and the code

State. `top` is the SummonPlatform in the API server, cut down to Spec.Version and
the six status fields that steer the rollout. `cache` is the informer's copy;
`cacheOK` says that its resourceVersion is still the stored one, `memOK` the same
of the pass's copy `mem` (`ctx.Top`). These two booleans are all the code ever asks
of a resourceVersion. `clean` is `cleanTop`; `ready` is the result of all
`IsReconcilable` calls; `patch` is the list of status modifiers, composed: every
modifier either assigns a constant to a field or (the three in backup.go) copies
Spec.Version of whatever object it runs on, so a list of them is a record saying
what each field ends up as, and `Apply` runs it on a copy. `requeue` and `after`
are the merged result, `queued` and `timer` the work queue. `job` and `jobCache` are
the migration Job and the informer's view of it; `snap` has an RDSSnapshot state per
version (the object is named after the version); `depl` is the Deployments as one:
the version in the pod template, the version of the running pods, and what the
published counts say.

Actions. `Begin` is `newContext` and the readiness loop. Then one action per
component: `PullSecret`, `Postgres`, `Backup` (`BackupSkipped`, `BackupTaken`),
`Migrations` (no need, create the Job, replace another version's, record a success,
wait or fail), `MigrateWait`, `Deployment`, `Status`; each is one call of
`Reconcile` with everything it writes. `Fail` is a component that returns an
error, including the ones that are not modelled; pullsecret and postgres merge a
modifier even then. `Save*` and `Replay*` are the end of the pass. `SyncTop`, `SyncJob`, `TimerFires`,
`OtherEvent` feed the queue; `Crash` is a restart, and also the nil dereference in
pull_secret.go:59. `EditVersion`, `Touch`, `Tick` and the `...Moves`/`Job...` actions are
the user, other writers, time and the other controllers.

Left out. Messages and connection data (no control depends on them). The
`rabbitmq` component, which sets phase Initializing between postgres and backup, where
postgres has just set it. The several Deployments are one, because Status requires all of them and
every Deployment component is gated alike. The error handlers and AutoDeploy (`SummonNotification`; here Spec.Version is never empty). Deletion of the
SummonPlatform. A clock: a deadline is pending or passed. Concurrent passes on one key: the work queue excludes them.

### RDSInstance and the code

State. `top`, `cache`, `cacheOK`, `mem`, `memOK`, `clean`, `patch`, `requeue`, `after`,
`queued`, `timer` and `tries` are those of `SummonRollout`; the object is cut down to its
deletion timestamp, its three finalizers, Status.Status and whether Status.SecurityGroupID is
known. `secret` and `secretCache` are the password secret (a password is the number of the
secret it was generated for, 0 is none). `group` and `db` are what is in AWS: a group is
absent, as it should be, or *drifted* (parameters or rules to be changed); the database has
its status, its master password and the backup retention. `noise` says that Status.Message
holds an AWS request id: such a message differs from the one before, so that repeating the
same error is still a change of the status, a write, an event and another pass. It is what
keeps a deletion going, so it is part of the model.

Actions. A component that owns something in AWS is two steps, because the object and AWS
change in between: `Finalizers` is the first half of Reconcile (write the finalizer, or
decide to take down), `External` the second (make and update, or destroy); taking the
finalizer off (`RemoveFinalizer`) is a third, after destroying. `WriteFinalizers` is
`ctx.Update(ctx.Context, instance.DeepCopy())`: the reply goes to the copy, so `memOK` is false
afterwards and every later write of the pass is refused (`WriteRefused`). `Secret` is the
secret component; `CreateDatabase` and `UpdateDatabase` are the two halves of the
database's. The password is tried only if the status says Ready (`WrongPassword`), the
database is changed only if it is available. The end of the pass is as in `SummonRollout`.

AWS. A group in use by a database cannot be deleted; a database is deleted, with a last
snapshot, only while it is available (otherwise InvalidDBInstanceState). A database being
created or modified becomes available (`DatabaseMoves`), or fails (`DatabaseBreaks`);
a backup makes it busy (`AutomatedBackup`).

Left out. Tags; single ingress rules and parameters; Status.Connection and the message
texts but for `noise`; the annotations that skip a reconcile or the finalizers (the latter
is `EnableFinalizers` = FALSE, which no run uses: the type and `MadeUnderFinalizer`
theorems cover both values); errors of the SDK that are not AWS errors; an object
created again under the name of one that is gone.

### SummonNotification and the code

State. `top` carries Spec.Version per announced part, AutoDeploy, the phase and the versions of
Status.Notification. `newest` is the newest image in the registry, `tags` the global cache of
gcr.go with whether it is due for another fetch; `dup` the caches in memory of notification.go (done per part, the webhook,
the error per version); `rollout` is what the components in between come to. `told`, `replayed`
and `repeated` are history: what was last announced, the parts whose record was last changed by the replay of a
status write, and what was announced again although it was on record by other means than a replay.

Actions. `DefaultsRefuse` (exactly one of version and AutoDeploy), `AutoDeploy`, `Rollout`,
`NotifySuccess` (per part what is due, one call after another, any of which may fail; then the suite), `NotifyError`
(ReconcileError, also for the errors of the other components), `NotifyNothing`; `TagsExpire`, `WatchForImages`,
`ImagePushed`, `RolloutMoves`/`RolloutEnds`, `EditVersion`, `Crash`, which empties both caches. Left out: texts,
the Slack channels one by one, names of images (a version is a build number).

### AWSResource and the code

State. `kind` says which of the five controllers the object belongs to; `cloud` is the account (user, role, bucket, domain, snapshot), its tag,
the version of the Spec its policies were made from, the access keys, whether it has content that forbids
deletion, and the security group of a domain; `secret` what the secret holds in the API server and in the cache; `fresh` the key made
by this pass; `expired` the time to live. `unseen` is history: AWS was changed since the last pass began.

Actions. Per kind the calls of its components in the order of the code, every call to AWS or the API server a step:
`Finalizer`, `MakeAccount`, `Tag`, `PutPolicies`, `Rotate` and `Store` (the access key), the three `Empty...`, `Destroy`, `Release`;
`SecurityGroup` is the first component of Elasticsearch; `SnapshotExpiry`, `Snapshot` and
its deletion are the RDS snapshot, with the two modifiers that change the captured instance (`Captured`).
Every call may fail; the message of an AWS error carries a request id (`Failed`), so that it changes the status and
makes another pass. `CloudMoves` is AWS finishing, `WatchTTL` the polling goroutine, `Drift` and
`DeleteSecret` somebody else. Left out: single policies and single keys of a bucket, the size of a domain.

### Credentials and the code

State. `kind` as above; `account` is what there is at the other end (there or not, its password, the Spec it was made from,
for Google Cloud its keys), `secret` as above, `pool` the passwords for which dbpool holds an authenticated connection.

Actions. `Secret` (generate and write), `DjangoSecret` (its Update carries no resourceVersion), `User` and
`Login` (PostgresUser: make the role, try the password, change it), `Row` (Django), `Tenant`, `Push`,
`Destroy`, `Unsecret`, `Release` (mock car server), `ServiceAccount` and `Key` (Google Cloud). Left out: the contents of the row, roles of an account.

### RabbitmqBroker and the code

Two objects, each with its own copy of the reconciler's state (`v...` for the vhost, `u...` for the user object it
owns), one `broker`, one password `secret`. Both controllers run side by side, as goroutines with
one worker each. `UserObject`, `VhostFinalizer`, `Vhost`, `DestroyVhost`, `ReleaseVhost` are the components of the vhost,
`Secret`, `UserFinalizer`, `User`, `DestroyUser` those of the user; `VSync` and `USync` the informers with their
watches, `CollectUser` the garbage collector. Several calls of one pass to the broker are one step when nobody could see
them apart. Left out: single policies, the connection data in the status.

### Databases and the code

State. `config` is the configuration (shared or exclusive, RDS or local, adopted or new, with reports, DbConfig
elsewhere). `d...` is the DbConfig's copy of the reconciler's state, `p...` the PostgresDatabase's; `owned` the statuses of
the objects they own, `server` what is on the cluster (role, database, tables periscope may read and may not, the
statement for later tables), `copy` the copied admin password. `refused` is history: the last pass of the database could not talk to the cluster.

Actions. `Postgres`, `Secret`, `User`, `Database`, `Grant`/`GrantDefault`, `Extensions`, `Status` are the components of the database,
each gated (`Gates`) on the status as stored before the pass; `DComponents` the one of the DbConfig, which
provisions cluster, exporter and periscope user, and `DSync` its watch that carries a change of the
DbConfig to its databases. `Makers` are the controllers of the objects owned, `MakeTable` the application, `Trouble` a cluster that
breaks, a role that fails, a new admin password.

### PlatformSecrets and the code

State. `children` are the objects asked for (database, vhost, IAM user, tenant, superuser); `stored` and `cached` the secrets in the API
server and in the cache, `made` what this pass found; `deployed` what the pod templates were made from; `around`
the two schedulers, the autoscaler, whether it has scaled, the disruption budget. The content of a secret is
a number, a derived secret or a hash the record of the contents it is made from.

Actions. One per component, in the order of controller.go, from `Defaults` to `Status`; `Watched` is the list
of watches: which changed secret wakes the platform. Around it the controllers that make credentials, late or
in trouble; the user, who edits the Spec, provides, rotates or deletes secrets; the autoscaler (`Scale`). Left out: the rollout
(the version asked for is migrated), components that only render one object, the names and URLs defaults.go fills in.

### Bounds

| constant | values | why enough |
|---|---|---|
| `Versions`, `MaxVersion` | 1 or 2 | the code only compares versions for equality; a third would have to differ from both in the same way the second does. Two for edits and rollbacks, one when only failures are asked about |
| `MaxSpecs` | 2 | a Spec and the one it is edited to; what is made from a Spec is compared with the newest only |
| `MaxEdits` | 0 to 2 | one edit during every step of a pass; two for there and back again |
| `MaxTouches` | 0 or 1 | one unrelated write suffices to make any one status write conflict; in `AWSResource` and `Credentials` one intervention from outside, at any moment |
| `MaxFailures`, `MaxDisturbances` | 1 | one failing call, restart or disturbance, of every kind and at every step; what follows is the code's recovery, and a second would meet a state like one the first can make. In the runs of `SummonRollout` and `RDSInstance` failures are unlimited |
| `MaxTries` | 1 or 2 | the code's 5: the first and the last replay are the cases that differ; 1 where two controllers run |
| `MaxSecrets` | 1 or 2 | passwords: the first, and a second after the secret was lost |
| `MaxBackups` | 0 or 1 | backups of the database nobody asked for |
| `DeletedWhile` | per run | states in which the user deletes the object: in `RDSLifecycle` all, in `RDSReady` only available (section 4 says why), in `Broker` when it is Ready |
| `TroubleWhile` | Ready | in `PlatformSecrets` every disturbance, in `Databases` the trouble of the cluster, comes when the object is Ready: the passes that follow go through the same components as the first ones, with more state to be wrong about. Late answers are possible at all times |
| `Kinds`, `Configs`, `Environments` with `Full`, `SkipUsers`, `Modes` | all kinds, three configurations that cover both values of each field, a platform of prod that starts with everything optional and one of dev that starts with nothing, both values, both modes | the initial state chooses; one run explores them all |
| `Parts`, `Outcomes` | 2 parts; waiting, Ready, fault | the platform and one part beside it; the other outcomes differ only in what is reported |
| `Edited`, `Rotated`, `Lost` | every field, one secret of the user's and one of a controller, secrets of the three kinds (given, generated, gathered) | the others are treated by the same lines |
| `Faults` | per run | see the cfg; each kind can happen at every step and without limit, `drift` and `removed` up to `MaxTouches` times |

The crash, api, job, pods, database, snapshot and expiry faults are unlimited in number; TLC closes the state space because the model keeps no counters of them.

## 4. Runs

| run | checks | shows |
|---|---|---|
| `RolloutInstall` | `TypeOK`, `BackupBeforeMigration`, `ReadyOnlyWhenServing` | one version from nothing to Ready with backup under failing calls, restarts, failing Jobs, snapshots that fail or expire |
| `RolloutUpgrade` | `KeepsPromise`, `MigrateVersionHonest`, `DeployOnlyMigrated` | without a post-migration wait `SummonRollout` implements `VersionRollout`: two edits (forward and back) anywhere, restarts, failing Jobs, dying pods |
| `RolloutConverges` | `Converges` | upgrade of a platform, from any point an edit can reach |
| `RolloutInstallConverges` | `Converges` | the same through backup, snapshot and wait, with a database that breaks and a conflict |
| `RDSLifecycle` | `TypeOK`, `KeepsParameterGroup`, `MadeUnderFinalizer` | creation, update and deletion at any moment under all faults |
| `RDSReady` | `BecomesReady`, `DeletionCompletes`, `KeepsSecurityGroup` | lost secret, changed retention or group, a conflicting write; deletion while the database is available, no call failing |
| `Announcements` | `TypeOK`, `NoRepeatOnceRecorded`, `HonestWithoutConflict`, `NewestAnnounced` | versions chosen by the user or by autodeploy, announced by two parts, with failing channels, stale caches, conflicts, restarts |
| `AWSResources` | `TypeOK`, `KeepsAccount`, `OneKey`, `Settles`, `DeletionCompletes` | five kinds of resource, made, edited, tampered with, expired, deleted |
| `Credentials` | `TypeOK`, `KeepsTenant`, `PasswordKept`, `Settles`, `DeletionCompletes` | four kinds of login and its secret |
| `Broker` | `TypeOK`, `UserAnswered`, `ReadyToConnect`, `KeepsVhost`, `Settles`, `DeletionCompletes` | vhost, user and broker, with and without the user |
| `Databases` | `TypeOK`, `ReadyMeansUsable`, `Settles` | DbConfig and database in three configurations |
| `PlatformSecrets` | `TypeOK`, `KeyKept`, `Settles` | a platform in prod and in dev, its credentials edited, rotated, lost, late |

`CHECK_DEADLOCK FALSE` in five of them: an object that is gone, or settled with no event left, is
the end of the story there.

`KeepsParameterGroup`, `KeepsSecurityGroup`, `KeepsDatabase`, `KeepsAccount`, `KeepsTenant` and `KeepsVhost` are one specification,
`ExternalResource`, under six refinement mappings. In `RDSReady` deletion is checked with finalizers only
for an object deleted while its database is available: otherwise the database is left behind and uses
the groups for ever. A Ready instance is polled by nobody; if its database is deleted in AWS the
operator notices at the next event or resync, which is why `RDSReady` does not include that fault
(`RDSLifecycle` does).

`ReadyOnlyWhenServing` holds with one version (an installation: counts published for
nothing are not Ready) and fails with two. `BackupBeforeMigration` is checked with one version,
because with an edit `BackupVersion` is not honest and nothing that rests on it can be.
`DeployOnlyMigrated` and `KeepsPromise` hold without a post-migration wait, and with one until Spec.Version is first changed.

### Where the code does something else

The models define the properties below, or the ones above have them as a named exemption. No run
checks what the code does not have; to see a trace, put the property into the cfg named.

 1. *A backup recorded but not made* (backup.go:114; the field's comment, summonplatform_types.go:391,
    calls it the version for which a backup was made). The modifier copies Spec.Version of the
    object it runs on. Pass begins at v1; the user asks for v2; the status write
    conflicts; the replay runs on the v2 object and sets `BackupVersion = v2`. The
    next pass migrates v2 without a backup. `BackupVersionHonest` with two versions and `HasRDS`.
 2. *The wait is skipped* (migrations.go:82, summonplatform_types.go:362). The pass that starts the wait also makes
    `MigrateVersion = Spec.Version` visible; the next pass (any event is enough)
    sets Deploying before `migrate_wait` looks. `WaitRespected` with `PostMigrate`. With
    AutoDeploy the wait never happens at all: migrate_wait.go:53 compares a stored Spec.Version that is empty.
 3. *Ready too early* (status.go:161, against status.go:58). On an upgrade Status reads counts its own pass has
    outdated. `ReadyOnlyWhenServing` with two versions.
 4. *An unmigrated version deployed* (migrate_wait.go:64). With `PostMigrate` and one edit. v1 is migrated and its wait is
    pending; the next pass sets Deploying (item 2), and its status write conflicts with the edit to v2; the replay puts
    Deploying on the v2 object, whose deadline is still that of v1. Once that has passed, the next pass deploys v2 without
    a migration: `DeployOnlyMigrated` with two versions and `PostMigrate`.
 5. *A snapshot in error goes unreported.* backup.go:101 wraps a nil error: the platform stays without an
    error for ever.
 6. *A database left behind* (rds_instance.go:93, against :338). The user deletes an RDSInstance whose database is still being
    created (or modified, or backed up). AWS refuses to delete it, deleteDependencies
    returns "retry in a minute" and no error, Reconcile drops that result and removes the
    finalizer. `KeepsDatabase` in `RDSLifecycle`.
 7. *A security group left behind* (rds/components/security_group.go:288, and elasticsearch's :199). One failing describe during deletion
    is taken for "no group". `KeepsSecurityGroup` with the `api` fault.
 8. *An announcement recorded but not made* (notification.go:281, summonplatform_types.go:328). The success modifier is
    item 1 again: after a conflict with an edit the new version counts as announced. `NotifiedHonest` in `Announcements`.
 9. *Permissions lost for good* (rabbitmquser/components/user.go:130): the status code of the answer is not looked at.
    `LostPermissions`.
10. *Periscope let in by halves* (periscopeuser.go:78): the check before the two statements looks for an effect of the
    first only. `Unnoticed` in `Databases`.
11. *What a pooled connection hides* and *keys nobody deletes* (postgresuser.go:104, key.go:101): `Unnoticed` and `Full` in `Credentials`.
12. *An announcement repeated* (notification.go:281). Item 8 also records by chance what another process announced:
    a version is announced, recorded, withdrawn and recorded as none; the process restarts; the version is asked
    for again while a status write conflicts. The replay records the version, which this process has not announced; the
    next pass reads a cache that still says none, and announces it a second time. It takes three edits and two disturbances,
    more than `Announcements` allows: the proof of `NoRepeatOnceRecorded` found it. Hence `replayed`: the property is about records that a pass made itself.
13. `extra["debug"]` in deployment.go:121 reflects that the key is present, whatever its value; utils/rabbitmq.go:96 parses a
    port as a signed number of 16 bits. Seen while reading; neither has state to model.

### Fairness

`FairSpec` assumes weak fairness of: the worker taking a queued key and finishing
the pass (`Begin`, `Components`, `Save`: goroutines of the process), the informers and
timers delivering (`Sync...`, `TimerFires`), time (`Tick`), and the other
controllers and services making progress on what they were asked to, of which failing is no part (`DatabaseMoves`,
`PullSecretMoves`, `SnapshotMoves`, `JobSucceeds`, `DeploymentMoves`, `CloudMoves`, `RolloutEnds`, `CollectUser`,
`MakeCredentials`, `ChildReady`, `TenantGone`, `ClusterComesUp`, `PeriscopeMade`, `OwnerMade`, `ExtensionMade`). Where the process has
a goroutine that polls, it polls (`WatchTTL`, `WatchForImages`, `TagsExpire`). Nothing is
assumed of the user, of unrelated events or of the resync. `Components` is one
condition, not one per component: in a pass exactly one is enabled at a time.

Two modules assume more of the secret cache, because without it TLC finds a livelock that
the code permits: each pass works on a secret read before the last write was seen, undoes it, and
wakes itself. `AWSResource` has strong fairness of the cache learning of a key that is still alive;
`Credentials` has `CachesCatchUp`: passes do not for ever follow each other so closely that a cache is behind in each.

The premises of the liveness properties are part of what they say:

 - `Converges`: `PromptInformers`, from some time on a pass begins with
   caches that are up to date, and the database is not for ever in error. Without the first TLC finds a livelock: the Job is deleted,
   the success is lost to a write conflict or read back from a stale
   cache, the Job runs again, for ever. Informers normally lag by
   milliseconds, but nothing in the code enforces it.
 - `Settles` of `AWSResource` and `Credentials`: nobody changed the account since a pass last looked (`unseen`), because nobody
   polls; not `Disowned` (a role without the operator's tag is refused), not `Unnoticed` or `Full`.
 - `Settles` of `RabbitmqBroker`: not `LostPermissions`. Of `Databases`: the last pass was not `refused`, because a cluster
   that comes back is an event of the database only if its status changed. Of `PlatformSecrets`: `Wanted`, a valid Spec and complete inputs.
 - `NewestAnnounced`: the platform stays on AutoDeploy and there is an image.

## 5. Proofs

All proofs are checked by `tlapm` with SMT, Zenon and LS4. Each module of proofs extends the module it is about (`SummonPlatformProofs` is
about two, and instantiates the second), and rests on the one assumption that module makes of its constants (`ConstantsOK`, `RDSConstantsOK`, ...), so that a theorem
holds for every number of versions, edits, failures, restarts, interventions and replays, where a run has one or two. The
tables name the further assumptions.

A theorem about a run's property has an invariant of its own, which is inductive; TLC checked each one
before it was proved. Most have the same core: *what a copy of the object tells of the object itself*. A pass works on a
copy out of a cache that may be old, other passes and users write in between, and after a conflict the modifiers are
replayed on yet another copy; so a property of the stored object is only preserved if every copy that can reach it
(cache, pass, clean copy, collected modifiers) has it too, in the form that age does not spoil.

### The reconciler

`ComponentReconciler` has its lemmas next to its definitions, for any set of objects, modifiers, components and
messages that satisfies `ModifiersOK` (the modifiers and the error status keep the type): `BeginTypes`, `ReturnTypes`,
`ErrorTypes`, `UpdateTypes`, `LeaveTypes`, `SaveTypes`, `SyncTypes`, `WriteTypes`, `RestartTypes` (every step of a pass
keeps the types), `SaveEffect` and `SaveStatus` (all that the end of a pass can do to the object: nothing, write the status of the
copy, or write what the modifiers make of the copy in the cache). The five newer modules prove `ModifiersOK` of
their modifiers (`Modifiers`) and cite the rest. `CacheOK`, a cache that misses no write holds the object, is needed for the replay.

### SummonRolloutProofs

| theorem | assumes | says | argument |
|---|---|---|---|
| `TypeCorrect` | | `Spec => []TypeOK` | inductive as it stands. `ApplyType`/`ThenType` (modifiers keep types and Spec.Version), `StepType`/`StepErrorType` (any component step), then one step per component |
| `MigrateVersionCorrect` | | `Spec => []MigrateVersionHonest` | `MigrateInv`: every copy of the status (stored, cached, in the pass) and the collected modifiers name migrated versions only (`RecordsHonest`), and a Job seen as succeeded, in the cluster or in the cache, has put its version into the history (`JobsHonest`). The copies are needed because any of them can become the stored object |
| `DeployOnlyMigratedCorrect` | | `Spec => [](~PostMigrate \/ edits = 0 => DeployOnlyMigrated)` | `DeployInv` adds: until the first edit every copy is of the one version (`OneVersion`); a deadline exists, in whatever copy or modifier, only if a wait is configured and, until the first edit, the version is migrated (`DeadlinesHonest`); a database without a status opens no gate (`NoDatabaseYet`), so that postgres has reset the phase before any gated component looks at it; between backup and deployment a phase Deploying or PostMigrateWait means that the version in hand is migrated (`DeployingHonest`). The last part is claimed only without a wait or before an edit (`Steady`) |
| `KeepsPromiseCorrect` | `~PostMigrate` or `MaxEdits = 0` | `Spec => KeepsPromise` | the refinement of `VersionRollout`. `DeployInv` makes a write of the Deployments a step of it; `CopiesTrue` says that every copy names versions that were asked for |
| `BackupBeforeMigrationCorrect` | `HasRDS`, `WaitUntilReady` | `Spec => [](edits = 0 => BackupBeforeMigration)` | `BackupInv`: until the first edit every copy is of the one version, and what is recorded, about to be recorded, reported complete, or the business of a Job is backed up. After an edit it is not, because the modifiers of backup.go copy the version of the object they are replayed on (section 4, item 1); without `WaitUntilReady` the code does not wait for the snapshot |
| `ReadyOnlyWhenServingCorrect` | `MaxEdits = 0` | `Spec => ReadyOnlyWhenServing` | `ServingInv`: there is one version, in every copy, in the Deployments and in the pods; pods are available only of it; and wherever Ready is stored, cached, in the pass or about to be replayed, they run it. For an upgrade it is false (section 4, item 3), hence no edits; failures, restarts and lost pods are allowed |

Component steps are handled by one notion, `Modest(p)`: what a modifier may assign in
the state it is created in. `ComponentsModest` shows that every component's modifier is
modest, `StepEffect` what a step with a modest modifier does to the copies; the
invariants follow without looking at the components again, except for `DeployingHonest`,
which depends on their order. `Steady` is as far as it goes: with a wait and an edit section 4, item 4, is the counterexample.

### RDSInstanceProofs

| theorem | assumes | says | argument |
|---|---|---|---|
| `RDSTypeCorrect` | | `Spec => []TypeOK` | `TypeInv` adds that while there is no secret another password may be generated |
| `MadeUnderFinalizerCorrect` | | `Spec => MadeUnderFinalizer` | `FinalizerInv`: a copy with the right resourceVersion has the stored finalizers; while the object is not deleted finalizers are only added, so that an older copy has a subset of them; once a pass or the cache has seen the deletion, no later pass sees the object live again. Without the last part a pass with an old cache could make what another has just taken down |
| `KeepsParameterGroupCorrect` | `EnableFinalizers` | `Spec => KeepsParameterGroup` | `OrphanInv`: without the finalizer there is no group, a gone object has no finalizers, and when the component is about to take the finalizer off the group is gone. Every step is then a step of `ExternalResource` (`FinalizersRefine`, `ExternalRefines`, `OthersRefine`) or leaves its variables alone (`AsideStutters`). `Resource(g)` is that specification for either group |
| `KeepsSecurityGroupCorrect` | `EnableFinalizers`, `"api" \notin Faults` | `Spec => KeepsSecurityGroup` | the same lemmas with `g` the security group, deleted in whatever state its database is. They ask `Reliable(g)`: a failing call must not pass for "no group". Section 4, item 7, is the counterexample without it; restarts, conflicts, stale copies and refusals of AWS are all allowed |

### SummonPlatformProofs

| theorem | says | argument |
|---|---|---|
| `NotificationTypeCorrect` | `Spec => []TypeOK` | with the lemmas of the reconciler |
| `NoRepeatCorrect` | `Spec => []NoRepeatOnceRecorded` | `RecordInv`: what this process has announced of a part is what was announced last, or nothing (`AnnouncedByUs`); a pass leaves the record alone until it notifies (`PassRecord`); if an announcement on record was made by another process, no copy is so old that it does not show it (`RecordSeen`), because a new process lists everything first |
| `HonestCorrect` | `Spec => HonestWithoutConflict` | the record a component makes is what the process has in its duplicate cache, and that was announced |
| `PlatformTypeCorrect` | `Spec => []TypeOK` of `PlatformSecrets` | `PlatformInv` gives each variable its exact range, which adds that app secrets are never made of an input that cannot be used; `Leaves(stages)` says of a component where the pass goes next and that what it leaves is in range, once for each of the 21 components |
| `KeyKeptCorrect` | `Spec => KeyKept` of `PlatformSecrets` | `KeyInv`. A pass decides to make a key because the cache has none, and makes it in a later step, when the cache may have caught up; other steps put the key into the app secrets out of that same cache. So: while a key is about to be made, or the cache does not hold the key there is, either there is none or the app secrets do not hold it; and the app secrets a pass is about to write, if gathered from an older cache, do not hold it either. `Bystander` covers the components that touch neither |

The last two assume `PlatformConstantsOK`. Of `NotificationConstantsOK`, which the module rests on for the others, they
use only that `MaxTries` is positive, which `PlatformConstantsOK` says too.

### AWSResourceProofs

| theorem | assumes | says | argument |
|---|---|---|---|
| `AWSTypeCorrect` | | `Spec => []TypeOK` | `PassCurrent`: a pass that has missed no write works on a copy of the object |
| `OneKeyCorrect` | | `Spec => []OneKey` | a key is made only after all keys but the one of the secret are deleted, within one pass; the passes of one object do not overlap |
| `KeepsAccountCorrect` | `TakesDown` | `Spec => KeepsAccount` | `FinalizerInv` (`TellsOf`: the finalizer that an old copy of a live object shows is still there, and a deletion is not taken back; `DeletionSeen`; `Placed`) and `AccountInv` (an account has an object that carries its finalizer; when it is about to be released the account is gone). `DomainThere` is needed for search domains, which are tagged and configured in later steps |

`TakesDown` is `EnableFinalizers`, or the three kinds whose component never looks at ENABLE_FINALIZERS; for the two
others turning it off means that the account is left behind on purpose.

### CredentialsProofs

| theorem | assumes | says | argument |
|---|---|---|---|
| `CredentialsTypeCorrect` | | `Spec => []TypeOK` | `TypeInv` adds that a pass is in a stage of its controller (`OwnStage`), on which the types of its steps depend |
| `PasswordKeptCorrect` | | `Spec => PasswordKept` | `SeenInUse`: a password that opens an account came out of the cache, so that the cache shows it, and a pass that sees a password makes none |
| `KeepsTenantCorrect` | `EnableFinalizers`, or no tenant among `Kinds` | `Spec => KeepsTenant` | `KnownInv` (`Tells`, `Placed`) and `TenantAnswered`; the tenant's component reads its object again in the middle of the pass (`Reread`), so that what the pass knew before it is of no use |

### RabbitmqBrokerProofs

| theorem | assumes | says | argument |
|---|---|---|---|
| `BrokerTypeCorrect` | | `Spec => []TypeOK` | both instances of the reconciler |
| `UserAnsweredCorrect` | `EnableFinalizers` | `Spec => []UserAnswered` | `UserInv`, as `FinalizerInv` above, for the user object, which only the garbage collector deletes |
| `KeepsVhostCorrect` | `EnableFinalizers` | `Spec => KeepsVhost` | `VhostInv` and `VhostAnswered` |
| `ReadyToConnectCorrect` | | `Spec => []ReadyToConnect` | `OutlivesInv`: a user object is deleted only after the vhost object is gone, and wherever a user is said to be Ready it is there or the vhost object is gone; `ReadyInv`: the same of what is said of the vhost, across the two controllers |

### DatabasesProofs

| theorem | says | argument |
|---|---|---|
| `DatabasesTypeCorrect` | `Spec => []TypeOK` | `OwnedInv` adds that a role called Ready is on the cluster |
| `ReadyMeansUsableCorrect` | `Spec => []ReadyMeansUsable` | `UsableInv`. `Truthful(s, w)`: a status, or a modifier of it, says nothing that is untrue in the world `w`; `World` is what a status can speak of. The world only grows (`Grows`), so that what was true when it was read is true when it is written, however late; `ApplyTruthful`, `ThenTruthful` and `FailedTruthful` carry it through the modifiers and `Modest` says the same of the DbConfig, which the database reads. `TablesInv` and `StageInv` are the two steps of letting periscope in: between them either there is an effect of the first or no table to be read |

### What is not proved

 - The liveness properties (`Converges`, `BecomesReady`, `DeletionCompletes`, `NewestAnnounced`, `Settles`): liveness under
   fairness is out of the prover's reach. Every invariant and every action property of a run has its theorem.
 - What the code does not have (section 4) is not proved either, and no assumption was made to get it.

## 6. Not modelled

 - *Alertmanager configuration.* Many objects, each rebuilding one shared secret from a cached list of all; a
   module of its own, with the merge of all as the abstract specification.
 - *GCP project.* A chain of long-running operations polled across passes, each on its own record in the status.
 - *Monitor*, *CloudAMQP firewall*: further clients of external interfaces, with the life cycle `ExternalResource` describes, or with one
   call that overwrites the whole rule set.
 - *PostgresOperatorDB*: one conditional write to an object no other controller here writes.
 - *dbpool*: three statements over a sync.Map; what it can hide is in `Credentials`.
 - *Encrypted secret, pull secret, ingress, vulnerability report, the owned objects that only render a template*: one output each, a function of the input.
 - *The deletion of a SummonPlatform*: garbage collection of what it owns; the operator does nothing.
 - Text rendering, start-up code, the web UI and the clean-up script are left
   out for good: they keep no state another part depends on.

`PROJECT.json` gives the state of each component.

## 7. Running

    for c in RolloutInstall RolloutUpgrade RolloutConverges RolloutInstallConverges; do
      tlc -workers 2 -config $c.cfg MCSummonRollout; done
    for c in RDSLifecycle RDSReady; do tlc -workers 2 -config $c.cfg MCRDSInstance; done
    tlc -workers 2 -config Announcements.cfg MCSummonNotification
    tlc -workers 2 -config AWSResources.cfg MCAWSResource
    tlc -workers 2 -config Credentials.cfg MCCredentials
    tlc -workers 2 -config Broker.cfg MCRabbitmqBroker
    tlc -workers 2 -config Databases.cfg MCDatabases
    tlc -workers 2 -config PlatformSecrets.cfg MCPlatformSecrets
    for m in ComponentReconciler SummonRolloutProofs RDSInstanceProofs SummonPlatformProofs \
             AWSResourceProofs CredentialsProofs RabbitmqBrokerProofs DatabasesProofs; do tlapm $m.tla; done

Each run takes between half a minute and four minutes on two workers, the proofs between one and three minutes each.

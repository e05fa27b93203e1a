----------------------------- MODULE AWSResource -----------------------------
(***************************************************************************)
(* The life of an IAMUser, IAMRole, S3Bucket, ElasticSearch or RDSSnapshot *)
(* object and of what it stands for in AWS.  The five controllers share a  *)
(* plan: write the finalizer; make the account (user, role, bucket,        *)
(* domain, snapshot), its tags, its policies; set Ready; and, once         *)
(* deleted, empty the account, delete it, take the finalizer off.  An      *)
(* IAMUser also owns an access key and the secret that holds it, an        *)
(* ElasticSearch a security group with a finalizer of its own and a domain *)
(* that AWS takes time over, and an RDSSnapshot deletes itself when its    *)
(* time is up.                                                             *)
(*                                                                         *)
(* Abstracted: inline policies, trust policy, bucket policy and domain     *)
(* configuration are one number, the version of the Spec they were made    *)
(* from; a key is a number that may be used again; the message of an AWS   *)
(* error holds a request id, so that it differs from the one before, that  *)
(* of any other error does not.                                            *)
(***************************************************************************)
EXTENDS Naturals, FiniteSets

CONSTANTS
    Kinds,            \* which of AllKinds are explored
    EnableFinalizers, \* ENABLE_FINALIZERS == "true"
    MaxTries,
    MaxSpecs,         \* bound: versions of the Spec
    MaxFailures,      \* bound: failing AWS calls and restarts
    MaxTouches        \* bound: interventions from outside

AllKinds == {"IAMUser", "IAMRole", "S3Bucket", "ElasticSearch", "RDSSnapshot"}

ASSUME AWSConstantsOK ==
    /\ Kinds \subseteq AllKinds /\ Kinds # {}
    /\ EnableFinalizers \in BOOLEAN
    /\ MaxTries \in Nat \ {0} /\ MaxSpecs \in Nat \ {0}
    /\ MaxFailures \in Nat /\ MaxTouches \in Nat

NoKey == 0
Keys == 1 .. 3  \* enough for one in AWS, one stored, one cached

VARIABLES
    kind,
    top, view, pass, work, \* see ComponentReconciler
    cloud,    \* the account, its tags, policies, keys, content; the security group
    secret,   \* the key in the secret: stored, cached, and whether the cache is current
    fresh,    \* the key made by this pass
    unseen,   \* somebody changed AWS since the last pass began
    expired,  \* the time to live of a snapshot is over
    failures, touches

NoPatch == "keep"
Phases == {"", "Processing", "Creating", "Ready", "Error"}
Patches == {"keep", "Processing", "Ready"}

Apply(p, o) == IF p = "keep" THEN o
               ELSE [o EXCEPT !.status = [phase |-> p, message |-> ""]]
Then(p, q) == IF q = "keep" THEN p ELSE q

Messages == {"", "aws", "aws again", "conflict", "refused", "snapshot", "self"}

\* Mutant: the message of an AWS error does not change from one call to the next.
FailedAlike(o, message) == [o EXCEPT !.status = [phase |-> "Error", message |-> message]]

Failed(o, message) ==
    [o EXCEPT !.status = [phase |-> "Error",
                          message |-> IF message = "aws" /\ @.message = "aws"
                                      THEN "aws again" ELSE message]]

Absent == [life |-> "gone"]

R == INSTANCE ComponentReconciler

Finalizers == {"account", "group"}
Accounts == {"absent", "busy", "present", "failed", "going"}

Objects == {Absent} \cup
    [life : {"live", "deleting"}, fins : SUBSET Finalizers, spec : 1 .. MaxSpecs,
     status : [phase : Phases, message : Messages]]

Clouds == [account : Accounts, tagged : BOOLEAN, policy : 0 .. MaxSpecs,
           keys : SUBSET Keys, content : BOOLEAN, group : {"absent", "bare", "ok"}]

NewObject == [life |-> "live", fins |-> {}, spec |-> 1,
              status |-> [phase |-> "", message |-> ""]]
NoCloud == [account |-> "absent", tagged |-> FALSE, policy |-> 0, keys |-> {},
            content |-> FALSE, group |-> "absent"]

secretVars == <<secret, fresh>>
boundVars == <<failures, touches>>
vars == <<kind, top, view, pass, work, cloud, secret, fresh, unseen, expired, failures,
          touches>>

Init ==
    /\ kind \in Kinds
    /\ R!Start(NewObject)
    /\ cloud = NoCloud
    /\ secret = [stored |-> NoKey, cached |-> NoKey, current |-> TRUE] /\ fresh = NoKey
    /\ unseen = FALSE /\ expired = FALSE /\ failures = 0 /\ touches = 0

-----------------------------------------------------------------------------
(* Results of a step of a component.                                        *)

GoOn(stage) == R!Return(stage, NoPatch, FALSE, FALSE) /\ UNCHANGED failures
Finish(phase, after) == R!Return("save", phase, FALSE, after) /\ UNCHANGED failures

\* AWS refuses, or cannot be reached.
Refused == R!ReturnError("aws", NoPatch, FALSE) /\ UNCHANGED failures
CallFails == /\ failures < MaxFailures /\ failures' = failures + 1
             /\ R!ReturnError("aws", NoPatch, FALSE)

\* The Update with the finalizers is refused when somebody has written since.  Only
\* S3Bucket asks for another try.
Conflict == /\ ~pass.current /\ UNCHANGED <<top, view, failures>>
            /\ R!ReturnError("conflict", NoPatch, kind = "S3Bucket")

\* The API server removes a deleted object with its last finalizer.
WriteFinalizers(fins, stage, copied, requeue) ==
    LET o == [pass.obj EXCEPT !.fins = fins] IN
    /\ R!Update(IF fins = {} /\ o.life = "deleting" THEN Absent
                ELSE [o EXCEPT !.status = top.status],
                IF copied THEN o ELSE [o EXCEPT !.status = top.status],
                stage, copied, requeue)
    /\ UNCHANGED failures

Begin ==
    /\ R!Begin(IF kind = "ElasticSearch" THEN "groupfinalizer" ELSE "finalizer")
    /\ unseen' = FALSE
    /\ UNCHANGED <<kind, cloud, secretVars, expired, boundVars>>

Live == pass.obj.life = "live"
Carries(f) == f \in pass.obj.fins

-----------------------------------------------------------------------------
(* The security group of an ElasticSearch domain.                           *)

GroupFinalizer ==
    /\ pass.at = "groupfinalizer"
    /\ \/ Live /\ Carries("group") /\ GoOn("group") /\ UNCHANGED <<top, view>>
       \/ /\ Live /\ ~Carries("group")
          /\ WriteFinalizers(pass.obj.fins \cup {"group"}, "group", TRUE, FALSE)
       \/ Live /\ ~Carries("group") /\ Conflict
       \/ ~Live /\ ~Carries("group") /\ GoOn("finalizer") /\ UNCHANGED <<top, view>>
       \/ /\ ~Live /\ Carries("group") /\ Carries("account")
          /\ R!Return("finalizer", NoPatch, FALSE, TRUE) /\ UNCHANGED <<top, view, failures>>
       \/ /\ ~Live /\ Carries("group") /\ ~Carries("account")
          /\ GoOn(IF EnableFinalizers THEN "destroygroup" ELSE "releasegroup")
          /\ UNCHANGED <<top, view>>
    /\ UNCHANGED cloud

\* The id of a group just created is known only in the next pass.
Group ==
    /\ pass.at = "group"
    /\ \/ /\ cloud.group = "absent" /\ cloud' = [cloud EXCEPT !.group = "bare"]
          /\ R!Return("finalizer", NoPatch, TRUE, FALSE) /\ UNCHANGED failures
       \/ /\ cloud.group # "absent" /\ cloud' = [cloud EXCEPT !.group = "ok"]
          /\ R!Return("finalizer", "Processing", FALSE, FALSE) /\ UNCHANGED failures
       \/ CallFails /\ UNCHANGED cloud
    /\ UNCHANGED <<top, view>>

\* AWS keeps a group as long as the domain uses it.  An error of describing the
\* group is dropped, and reads as no group.
DestroyGroup ==
    /\ pass.at = "destroygroup"
    /\ \/ cloud.group = "absent" /\ GoOn("releasegroup") /\ UNCHANGED cloud
       \/ /\ cloud.group # "absent" /\ cloud.account = "absent"
          /\ cloud' = [cloud EXCEPT !.group = "absent"] /\ GoOn("releasegroup")
       \/ cloud.group # "absent" /\ cloud.account # "absent" /\ Refused /\ UNCHANGED cloud
       \/ CallFails /\ UNCHANGED cloud
    /\ UNCHANGED <<top, view>>

\* A call that fails to describe the group.
GroupUnseen ==
    /\ pass.at = "destroygroup" /\ failures < MaxFailures /\ failures' = failures + 1
    /\ R!Return("releasegroup", NoPatch, FALSE, FALSE)
    /\ UNCHANGED <<cloud, top, view>>

ReleaseGroup ==
    /\ pass.at = "releasegroup"
    /\ \/ WriteFinalizers(pass.obj.fins \ {"group"}, "finalizer", TRUE, FALSE)
       \/ Conflict
    /\ UNCHANGED cloud

SecurityGroup == GroupFinalizer \/ Group \/ DestroyGroup \/ GroupUnseen \/ ReleaseGroup

-----------------------------------------------------------------------------
(* The account: finalizer first.                                            *)

\* Mutant: the finalizer is written later.
FinalizerLate(takesDown) ==
    /\ pass.at = "finalizer"
    /\ \/ Live /\ GoOn("account") /\ UNCHANGED <<top, view>>
       \/ ~Live /\ ~Carries("account") /\ Finish(NoPatch, FALSE) /\ UNCHANGED <<top, view>>
       \/ /\ ~Live /\ Carries("account")
          /\ GoOn(IF takesDown THEN "empty" ELSE "release") /\ UNCHANGED <<top, view>>
    /\ UNCHANGED cloud

Finalizer(takesDown) ==
    /\ pass.at = "finalizer"
    /\ \/ Live /\ Carries("account") /\ GoOn("account") /\ UNCHANGED <<top, view>>
       \/ /\ Live /\ ~Carries("account")
          /\ WriteFinalizers(pass.obj.fins \cup {"account"}, "save", FALSE, TRUE)
       \/ Live /\ ~Carries("account") /\ Conflict
       \/ ~Live /\ ~Carries("account") /\ Finish(NoPatch, FALSE) /\ UNCHANGED <<top, view>>
       \/ /\ ~Live /\ Carries("account")
          /\ GoOn(IF takesDown THEN "empty" ELSE "release") /\ UNCHANGED <<top, view>>
    /\ UNCHANGED cloud

\* The skip-finalizer annotation is ENABLE_FINALIZERS for one object; users and roles
\* heed the annotation only.
UserFinalizer   == kind = "IAMUser" /\ Finalizer(TRUE)
RoleFinalizer   == kind = "IAMRole" /\ Finalizer(TRUE)
BucketFinalizer == kind = "S3Bucket" /\ Finalizer(EnableFinalizers)
DomainFinalizer == kind = "ElasticSearch" /\ Finalizer(EnableFinalizers)

MakeAccount(tagged) ==
    /\ pass.at = "account"
    /\ \/ /\ cloud.account = "absent" /\ GoOn("tag")
          /\ cloud' = [cloud EXCEPT !.account = "present", !.tagged = tagged]
       \/ cloud.account = "present" /\ GoOn("tag") /\ UNCHANGED cloud
       \/ CallFails /\ UNCHANGED cloud
    /\ UNCHANGED <<top, view>>

\* A role is made with its tags and its trust policy; a bucket and a user are not tagged.
User   == kind = "IAMUser" /\ MakeAccount(FALSE)
Role   == kind = "IAMRole" /\ MakeAccount(TRUE)
Bucket == kind = "S3Bucket" /\ MakeAccount(FALSE)

\* A domain is made with its configuration; while AWS is at work on it, it is looked at
\* again in a minute.
Domain ==
    /\ pass.at = "account" /\ kind = "ElasticSearch"
    /\ \/ /\ cloud.account = "absent" /\ Finish("Processing", TRUE)
          /\ cloud' = [cloud EXCEPT !.account = "busy", !.policy = pass.obj.spec]
       \/ /\ cloud.account \in {"busy", "going"}
          /\ Finish("Processing", TRUE) /\ UNCHANGED cloud
       \/ cloud.account = "present" /\ GoOn("tag") /\ UNCHANGED cloud
       \/ CallFails /\ UNCHANGED cloud
    /\ UNCHANGED <<top, view>>

Tag ==
    /\ pass.at = "tag"
    /\ \/ cloud' = [cloud EXCEPT !.tagged = TRUE] /\ GoOn("policy")
       \/ CallFails /\ UNCHANGED cloud
    /\ UNCHANGED <<top, view>>

UserTag   == kind = "IAMUser" /\ Tag
BucketTag == kind = "S3Bucket" /\ Tag
DomainTag == kind = "ElasticSearch" /\ Tag

\* A role without the operator's tag is somebody else's.
RoleTag ==
    /\ pass.at = "tag" /\ kind = "IAMRole"
    /\ \/ cloud.tagged /\ GoOn("policy")
       \/ ~cloud.tagged /\ R!ReturnError("refused", NoPatch, FALSE) /\ UNCHANGED failures
       \/ CallFails
    /\ UNCHANGED <<cloud, top, view>>

\* Mutant: only an account without policies gets them.
PoliciesOnce == IF cloud.policy = 0 THEN pass.obj.spec ELSE cloud.policy

\* Policies that are not in the Spec go, the others are put unless they are equal.
Policies == pass.obj.spec

PutPolicies ==
    \/ /\ cloud' = [cloud EXCEPT !.policy = Policies]
       /\ IF kind = "IAMUser" THEN GoOn("keys") ELSE Finish("Ready", FALSE)
    \/ CallFails /\ UNCHANGED cloud

UserPolicies ==
    /\ pass.at = "policy" /\ kind = "IAMUser" /\ PutPolicies
    /\ UNCHANGED <<top, view>>

RolePolicies ==
    /\ pass.at = "policy" /\ kind = "IAMRole" /\ PutPolicies
    /\ UNCHANGED <<top, view>>

BucketPolicy ==
    /\ pass.at = "policy" /\ kind = "S3Bucket" /\ PutPolicies
    /\ UNCHANGED <<top, view>>

\* A domain whose configuration changes is processed again.
DomainConfig ==
    /\ pass.at = "policy" /\ kind = "ElasticSearch"
    /\ \/ cloud.policy = Policies /\ Finish("Ready", FALSE) /\ UNCHANGED cloud
       \/ /\ cloud.policy # Policies /\ Finish("Processing", TRUE)
          /\ cloud' = [cloud EXCEPT !.policy = Policies, !.account = "busy"]
       \/ CallFails /\ UNCHANGED cloud
    /\ UNCHANGED <<top, view>>

AccountSteps ==
    \/ UserFinalizer \/ RoleFinalizer \/ BucketFinalizer \/ DomainFinalizer
    \/ User \/ Role \/ Bucket \/ Domain
    \/ UserTag \/ RoleTag \/ BucketTag \/ DomainTag
    \/ UserPolicies \/ RolePolicies \/ BucketPolicy \/ DomainConfig

-----------------------------------------------------------------------------
(* The access key of an IAMUser.  The secret is read from the cache; every  *)
(* key it does not name is deleted.                                         *)

Unused == Keys \ (cloud.keys \cup {secret.stored, secret.cached})

\* Mutant: keys that are not in the secret are left alone.
RotateWithoutDeleting ==
    /\ pass.at = "keys"
    /\ \/ /\ secret.cached \in cloud.keys
          /\ Finish("Ready", FALSE) /\ UNCHANGED <<cloud, fresh>>
       \/ /\ secret.cached \notin cloud.keys
          /\ \E k \in Unused : /\ fresh' = k
                               /\ cloud' = [cloud EXCEPT !.keys = @ \cup {k}]
          /\ GoOn("store")
    /\ UNCHANGED <<top, view, secret>>

Rotate ==
    /\ pass.at = "keys"
    /\ \/ /\ secret.cached \in cloud.keys
          /\ cloud' = [cloud EXCEPT !.keys = {secret.cached}]
          /\ Finish("Ready", FALSE) /\ UNCHANGED fresh
       \/ /\ secret.cached \notin cloud.keys
          /\ \E k \in Unused : fresh' = k /\ cloud' = [cloud EXCEPT !.keys = {k}]
          /\ GoOn("store")
       \/ /\ CallFails /\ UNCHANGED fresh
          /\ \E deleted \in SUBSET (cloud.keys \ {secret.cached}) :
               cloud' = [cloud EXCEPT !.keys = @ \ deleted]
    /\ UNCHANGED <<top, view, secret>>

\* Create, or update, as the cache has it.
Writable == IF secret.cached = NoKey THEN secret.stored = NoKey ELSE secret.current

Store ==
    /\ pass.at = "store"
    /\ \/ /\ Writable
          /\ secret' = [secret EXCEPT !.stored = fresh, !.current = FALSE]
          /\ Finish("Ready", FALSE)
       \/ /\ ~Writable /\ UNCHANGED <<secret, failures>>
          /\ R!ReturnError("conflict", NoPatch, FALSE)
    /\ fresh' = NoKey
    /\ UNCHANGED <<top, view, cloud>>

Credentials == Rotate \/ Store

-----------------------------------------------------------------------------
(* deleteDependencies.                                                      *)

\* Keys and policies of a user, one call after the other: what has been deleted when
\* one fails is deleted.
EmptyUser ==
    /\ pass.at = "empty" /\ kind = "IAMUser"
    /\ \/ cloud' = [cloud EXCEPT !.keys = {}, !.policy = 0] /\ GoOn("destroy")
       \/ CallFails /\ cloud' \in {cloud, [cloud EXCEPT !.keys = {}]}
    /\ UNCHANGED <<top, view>>

EmptyRole ==
    /\ pass.at = "empty" /\ kind = "IAMRole"
    /\ \/ cloud' = [cloud EXCEPT !.policy = 0] /\ GoOn("destroy")
       \/ CallFails /\ UNCHANGED cloud
    /\ UNCHANGED <<top, view>>

EmptyBucket ==
    /\ pass.at = "empty" /\ kind = "S3Bucket"
    /\ \/ cloud' = [cloud EXCEPT !.content = FALSE] /\ GoOn("destroy")
       \/ CallFails /\ cloud' \in {cloud, [cloud EXCEPT !.content = FALSE]}
    /\ UNCHANGED <<top, view>>

\* AWS does not delete what is not empty.
Destroy(full) ==
    /\ pass.at = "destroy"
    /\ \/ cloud.account = "absent" /\ GoOn("release") /\ UNCHANGED cloud
       \/ cloud.account = "present" /\ ~full /\ cloud' = NoCloud /\ GoOn("release")
       \/ cloud.account = "present" /\ full /\ Refused /\ UNCHANGED cloud
       \/ CallFails /\ UNCHANGED cloud
    /\ UNCHANGED <<top, view>>

DestroyUser   == kind = "IAMUser" /\ Destroy(cloud.keys # {} \/ cloud.policy # 0)
DestroyRole   == kind = "IAMRole" /\ Destroy(cloud.policy # 0)
DestroyBucket == kind = "S3Bucket" /\ Destroy(cloud.content)

\* A domain takes its time to go.
DestroyDomain ==
    /\ pass.at = "empty" /\ kind = "ElasticSearch"
    /\ \/ cloud.account \in {"absent", "going"} /\ GoOn("release") /\ UNCHANGED cloud
       \/ /\ cloud.account \in {"present", "busy"} /\ GoOn("release")
          /\ cloud' = [cloud EXCEPT !.account = "going"]
       \/ CallFails /\ UNCHANGED cloud
    /\ UNCHANGED <<top, view>>

Release ==
    /\ pass.at = "release" /\ kind # "RDSSnapshot"
    /\ \/ WriteFinalizers(pass.obj.fins \ {"account"}, "save", FALSE, FALSE)
       \/ Conflict
    /\ UNCHANGED cloud

TakeDown ==
    \/ EmptyUser \/ EmptyRole \/ EmptyBucket
    \/ DestroyUser \/ DestroyRole \/ DestroyBucket \/ DestroyDomain \/ Release

-----------------------------------------------------------------------------
(* The snapshot of a database.                                              *)

\* The pass goes on with the object it has just written.
SnapshotFinalizer ==
    /\ pass.at = "finalizer" /\ kind = "RDSSnapshot"
    /\ \/ Live /\ Carries("account") /\ GoOn("expiry") /\ UNCHANGED <<top, view>>
       \/ /\ Live /\ ~Carries("account")
          /\ WriteFinalizers(pass.obj.fins \cup {"account"}, "expiry", FALSE, FALSE)
       \/ Live /\ ~Carries("account") /\ Conflict
       \/ ~Live /\ ~Carries("account") /\ Finish(NoPatch, FALSE) /\ UNCHANGED <<top, view>>
       \/ ~Live /\ Carries("account") /\ GoOn("empty") /\ UNCHANGED <<top, view>>
    /\ UNCHANGED cloud

\* A snapshot whose time is up deletes its own object.
SnapshotExpiry ==
    /\ pass.at = "expiry"
    /\ \/ ~expired /\ GoOn("account") /\ UNCHANGED <<top, view>>
       \/ /\ expired /\ top # Absent /\ top' = [top EXCEPT !.life = "deleting"]
          /\ view' = [view EXCEPT !.current = FALSE]
          /\ pass' = [pass EXCEPT !.at = "save", !.current = FALSE, !.requeue = TRUE]
          /\ UNCHANGED failures
       \/ /\ expired /\ top = Absent /\ R!ReturnError("self", NoPatch, FALSE)
          /\ UNCHANGED <<top, view, failures>>
    /\ UNCHANGED cloud

\* These modifiers change the copy of the pass, whatever object they are given: run
\* again after a conflict they change nothing.
Captured(phase, after) ==
    /\ pass' = [pass EXCEPT !.at = "save", !.after = @ \/ after,
                            !.obj.status = [phase |-> phase, message |-> "snapshot"]]
    /\ UNCHANGED failures

Snapshot ==
    /\ pass.at = "account" /\ kind = "RDSSnapshot"
    /\ \/ /\ cloud.account \in {"absent", "busy"} /\ Captured("Creating", TRUE)
          /\ cloud' = [cloud EXCEPT !.account = "busy"]
       \/ cloud.account = "failed" /\ Captured("Error", FALSE) /\ UNCHANGED cloud
       \/ cloud.account = "present" /\ Finish("Ready", FALSE) /\ UNCHANGED cloud
       \/ CallFails /\ UNCHANGED cloud
    /\ UNCHANGED <<top, view>>

\* AWS does not delete a snapshot that is being made.
DestroySnapshot ==
    /\ pass.at = "empty" /\ kind = "RDSSnapshot"
    /\ \/ cloud.account \in {"absent", "present", "failed"} /\ cloud' = NoCloud
          /\ GoOn("release")
       \/ cloud.account = "busy" /\ Refused /\ UNCHANGED cloud
       \/ CallFails /\ UNCHANGED cloud
    /\ UNCHANGED <<top, view>>

ReleaseSnapshot ==
    /\ pass.at = "release" /\ kind = "RDSSnapshot"
    /\ \/ WriteFinalizers(pass.obj.fins \ {"account"}, "save", TRUE, FALSE)
       \/ Conflict
    /\ UNCHANGED cloud

SnapshotSteps ==
    SnapshotFinalizer \/ SnapshotExpiry \/ Snapshot \/ DestroySnapshot \/ ReleaseSnapshot

Components ==
    /\ \/ (SecurityGroup \/ AccountSteps \/ TakeDown \/ SnapshotSteps) /\ UNCHANGED secretVars
       \/ Credentials
    /\ UNCHANGED <<kind, work, unseen, expired, touches>>

Save ==
    /\ R!Save(FALSE)
    /\ UNCHANGED <<kind, cloud, secretVars, unseen, expired, boundVars>>

-----------------------------------------------------------------------------
(* The world around.                                                        *)

Sync == R!Sync /\ UNCHANGED <<kind, cloud, secretVars, unseen, expired, boundVars>>

SyncSecret ==
    /\ ~secret.current
    /\ secret' = [secret EXCEPT !.cached = secret.stored, !.current = TRUE] /\ R!Event
    /\ UNCHANGED <<kind, top, view, pass, cloud, fresh, unseen, expired, boundVars>>

TimerFires == R!TimerFires /\ UNCHANGED <<kind, cloud, secretVars, unseen, expired, boundVars>>

CloudMoves ==
    /\ \/ cloud.account = "busy" /\ cloud' = [cloud EXCEPT !.account = "present"]
       \/ /\ cloud.account = "going"
          /\ cloud' = [NoCloud EXCEPT !.group = cloud.group]
       \/ /\ cloud.account = "busy" /\ kind = "RDSSnapshot"
          /\ cloud' = [cloud EXCEPT !.account = "failed"]
    /\ UNCHANGED <<kind, top, view, pass, work, secretVars, unseen, expired, boundVars>>

\* watchTTL looks for snapshots whose time is up every minute.
Expire ==
    /\ kind = "RDSSnapshot" /\ ~expired /\ expired' = TRUE
    /\ UNCHANGED <<kind, top, view, pass, work, cloud, secretVars, unseen, boundVars>>

WatchTTL ==
    /\ expired /\ view.obj # Absent /\ ~work.queued /\ R!Event
    /\ UNCHANGED <<kind, top, view, pass, cloud, secretVars, unseen, expired, boundVars>>

Crash ==
    /\ failures < MaxFailures /\ failures' = failures + 1
    /\ R!Restart
    /\ secret' = [secret EXCEPT !.cached = secret.stored, !.current = TRUE] /\ fresh' = NoKey
    /\ UNCHANGED <<kind, cloud, unseen, expired, touches>>

DeleteObject ==
    /\ top # Absent /\ top.life = "live"
    /\ R!Write(IF top.fins = {} THEN Absent ELSE [top EXCEPT !.life = "deleting"])
    /\ UNCHANGED <<kind, work, cloud, secretVars, unseen, expired, boundVars>>

Touch == touches < MaxTouches /\ touches' = touches + 1

EditObject ==
    /\ Touch /\ top # Absent
    /\ \E v \in 1 .. MaxSpecs : R!Write([top EXCEPT !.spec = v])
    /\ UNCHANGED <<kind, work, cloud, secretVars, unseen, expired, failures>>

DeleteSecret ==
    /\ Touch /\ secret.stored # NoKey
    /\ secret' = [secret EXCEPT !.stored = NoKey, !.current = FALSE]
    /\ UNCHANGED <<kind, top, view, pass, work, cloud, fresh, unseen, expired, failures>>

Drift ==
    /\ Touch /\ cloud.account = "present" /\ unseen' = TRUE
    /\ \/ cloud.tagged /\ cloud' = [cloud EXCEPT !.tagged = FALSE]
       \/ cloud.policy # 0 /\ cloud' = [cloud EXCEPT !.policy = 0]
       \/ cloud.keys # {} /\ cloud' = [cloud EXCEPT !.keys = {}]
       \/ kind = "S3Bucket" /\ cloud' = [cloud EXCEPT !.content = TRUE]
       \/ cloud.group = "ok" /\ cloud' = [cloud EXCEPT !.group = "bare"]
    /\ UNCHANGED <<kind, top, view, pass, work, secretVars, expired, failures>>

Next ==
    \/ Begin \/ Components \/ Save \/ Sync \/ SyncSecret \/ TimerFires \/ CloudMoves
    \/ Expire \/ WatchTTL \/ Crash \/ DeleteObject \/ EditObject \/ DeleteSecret \/ Drift

Spec == Init /\ [][Next]_vars

\* The worker, the informers, the timers; AWS finishes what it has begun.  No resync.
\* The strong fairness says that the cache of secrets does not for ever learn of a key
\* after a pass, which makes several calls to AWS first, has deleted that key.
Fairness ==
    /\ WF_vars(Begin) /\ WF_vars(Components) /\ WF_vars(Save) /\ WF_vars(Sync)
    /\ WF_vars(SyncSecret) /\ SF_vars(SyncSecret /\ secret.stored \in cloud.keys)
    /\ WF_vars(TimerFires) /\ WF_vars(CloudMoves) /\ WF_vars(WatchTTL)

FairSpec == Spec /\ Fairness

-----------------------------------------------------------------------------
TypeOK ==
    /\ kind \in Kinds
    /\ R!TypesOK(Objects, Patches,
                 {"groupfinalizer", "group", "destroygroup", "releasegroup", "finalizer",
                  "expiry", "account", "tag", "policy", "keys", "store", "empty",
                  "destroy", "release"})
    /\ cloud \in Clouds
    /\ secret \in [stored : Keys \cup {NoKey}, cached : Keys \cup {NoKey},
                   current : BOOLEAN]
    /\ fresh \in Keys \cup {NoKey}
    /\ unseen \in BOOLEAN /\ expired \in BOOLEAN
    /\ failures \in 0 .. MaxFailures /\ touches \in 0 .. MaxTouches

Life == IF top = Absent THEN "gone" ELSE top.life

LifeOf(account) ==
    CASE account = "absent" -> "absent" [] account = "going" -> "going"
      [] OTHER -> "present"

Answered == INSTANCE ExternalResource
    WITH object <- Life, guarded <- top # Absent /\ "account" \in top.fins,
         resource <- LifeOf(cloud.account)

\* An account is made, kept and deleted as a finalizer promises: none is left behind
\* in AWS, whenever the object is deleted, a call fails or the operator restarts.
KeepsAccount == Answered!Spec

\* An IAM user never has two access keys, of which AWS allows no third: a key whose
\* secret could not be written is deleted before another is made.
OneKey == Cardinality(cloud.keys) <= 1

Settled ==
    IF kind = "RDSSnapshot"
    THEN <<top.status.phase, cloud.account>> \in {<<"Ready", "present">>, <<"Error", "failed">>}
    ELSE /\ top.status.phase = "Ready" /\ cloud.account = "present"
         /\ cloud.policy = top.spec /\ cloud.tagged
         /\ kind = "IAMUser" => cloud.keys = {secret.stored}

Disowned == kind = "IAMRole" /\ cloud.account = "present" /\ ~cloud.tagged

\* An object that is left alone gets its account, as its Spec says, and for an IAM user
\* the secret holds the one live key; unless AWS was changed behind the operator's back
\* since it last looked, or a role lost the tag that makes it the operator's.
Settles ==
    <>[](Life = "live" /\ ~unseen /\ ~Disowned) => <>[](Life = "live" /\ Settled)

\* A deleted object goes away, and so does a snapshot whose time is up.
DeletionCompletes == Life = "deleting" \/ expired ~> Life = "gone"
=============================================================================

---------------------------- MODULE RDSInstance ----------------------------
(***************************************************************************)
(* The life of one RDSInstance: its parameter group, its security group,   *)
(* the secret with the master password and the database itself, made in    *)
(* this order and taken down behind three finalizers.  It is the control   *)
(* flow of pkg/controller/rds/components run by pkg/components.            *)
(*                                                                         *)
(* Every component that owns something in AWS works in separate steps,     *)
(* because a crash, a deletion or a change in AWS can come between them:   *)
(* write the finalizer, then make or update the thing; or destroy it, then *)
(* take the finalizer off.  The finalizer is written with a copy of the    *)
(* object, so that the pass goes on with a resourceVersion that is out of  *)
(* date, and whatever it writes next is refused.                           *)
(*                                                                         *)
(* Abstracted: tags, security group rules for port 5432 and the parameters *)
(* themselves; a password is the number of the secret it was generated     *)
(* for; Status.Message appears only as "noise": the text of an AWS error   *)
(* holds a request id, so that the status differs from the one before.     *)
(***************************************************************************)
EXTENDS Naturals, FiniteSets

CONSTANTS
    EnableFinalizers, \* ENABLE_FINALIZERS == "true", no skip-finalizer annotation
    DeletedWhile,     \* states of the database in which the user deletes the object
    MaxTries,         \* replays modifyStatus attempts after a conflict (5)
    MaxSecrets,       \* bound: passwords generated
    MaxBackups,       \* bound: automated backups
    MaxTouches,       \* bound: interventions from outside
    Faults            \* which kinds of failure happen: subset of FaultKinds

DatabaseStates == {"absent", "creating", "available", "busy", "failed", "deleting"}

FaultKinds == {"api", "crash", "break", "drift", "removed"}

ASSUME RDSConstantsOK ==
    /\ EnableFinalizers \in BOOLEAN
    /\ DeletedWhile \subseteq DatabaseStates
    /\ MaxTries \in Nat \ {0} /\ MaxSecrets \in Nat \ {0}
    /\ MaxBackups \in Nat /\ MaxTouches \in Nat
    /\ Faults \subseteq FaultKinds

\* The three things in AWS, each with a component and a finalizer.
Owned == {"parametergroup", "securitygroup", "database"}
Groups == Owned \ {"database"}

Statuses == {"", "Creating", "Modifying", "Ready", "Error", "Unknown"}

\* An RDSInstance: deletion, finalizers, Status.Status, Status.SecurityGroupID.
Objects == [life : {"live", "deleting", "gone"}, fins : SUBSET Owned,
            status : Statuses, sgID : BOOLEAN]

NewInstance == [life |-> "live", fins |-> {}, status |-> "", sgID |-> FALSE]

\* The status modifiers of a pass: at most the security group's and the
\* database's.
Patches == [status : (Statuses \ {"", "Error"}) \cup {"keep"}, sgID : BOOLEAN]
NoPatch == [status |-> "keep", sgID |-> FALSE]

Apply(p, o) == [o EXCEPT !.status = IF p.status = "keep" THEN @ ELSE p.status,
                         !.sgID   = @ \/ p.sgID]

Then(p, q) == [status |-> IF q.status = "keep" THEN p.status ELSE q.status,
               sgID   |-> p.sgID \/ q.sgID]

GroupStates == {"absent", "drifted", "ok"}
Passwords == 0 .. MaxSecrets  \* 0: none
Databases == [state : DatabaseStates, password : Passwords, retention : BOOLEAN]
NoDatabase == [state |-> "absent", password |-> 0, retention |-> TRUE]

VARIABLES
    \* -- the cluster and AWS ----------------------------------------------
    top,         \* the RDSInstance as the API server holds it
    secret,      \* the password in the secret
    generated,   \* passwords generated so far
    group,       \* parameter group and security group
    db,          \* the database: state, master password, 7 days of backups
    \* -- the operator process ---------------------------------------------
    cache,       \* the RDSInstance in the informer cache
    cacheOK,     \* ... has the resourceVersion of top
    secretCache, \* the password in the informer cache
    queued,      \* the work queue holds the key
    timer,       \* a RequeueAfter is pending
    pc,          \* "idle", a component, "save" or "replay"
    part,        \* the step the component is at
    mem,         \* ctx.Top
    memOK,       \* ... has the resourceVersion of top
    clean,       \* cleanTop
    noise,       \* Status.Message holds a new request id
    patch,       \* the status modifiers collected
    requeue,     \* result.Requeue
    after,       \* result.RequeueAfter # 0
    tries,       \* replays done
    \* -- bounds -----------------------------------------------------------
    backups, touches

awsVars == <<group, db>>
secretVars == <<secret, generated>>
cacheVars == <<cache, cacheOK, secretCache>>
queueVars == <<queued, timer>>
resultVars == <<noise, patch, requeue, after>>
boundVars == <<backups, touches>>
passVars == <<pc, part, mem, memOK, clean, noise, patch, requeue, after, tries>>
vars == <<top, secret, generated, group, db, cache, cacheOK, secretCache, queued,
          timer, pc, part, mem, memOK, clean, noise, patch, requeue, after,
          tries, backups, touches>>

Init ==
    /\ top = NewInstance /\ secret = 0 /\ generated = 0
    /\ group = [g \in Groups |-> "absent"] /\ db = NoDatabase
    /\ cache = top /\ cacheOK = TRUE /\ secretCache = 0
    /\ queued = TRUE /\ timer = FALSE
    /\ pc = "idle" /\ part = "finalizer"
    /\ mem = NewInstance /\ memOK = FALSE /\ clean = NewInstance
    /\ noise = FALSE /\ patch = NoPatch /\ requeue = FALSE /\ after = FALSE
    /\ tries = 0 /\ backups = 0 /\ touches = 0

Failing == "api" \in Faults

-----------------------------------------------------------------------------
(* The reconciler.                                                          *)

ComponentAfter ==
    [c \in Owned \cup {"secret"} |->
       CASE c = "parametergroup" -> "securitygroup"
         [] c = "securitygroup"  -> "secret"
         [] c = "secret"         -> "database"
         [] c = "database"       -> "save"]

\* A key whose object is gone from the cache needs nothing.
Begin ==
    /\ pc = "idle" /\ queued
    /\ queued' = FALSE
    /\ IF cache.life = "gone"
       THEN UNCHANGED <<pc, mem, memOK, clean>>
       ELSE pc' = "parametergroup" /\ mem' = cache /\ memOK' = cacheOK /\ clean' = cache
    /\ UNCHANGED <<top, secretVars, awsVars, cacheVars, timer, part, resultVars,
                   tries, boundVars>>

\* The component goes on to its next step.
GoOn(p) ==
    /\ part' = p
    /\ UNCHANGED <<top, pc, mem, memOK, cacheOK, resultVars>>

\* The component returns a result (mergeResult).
Return(p, rq, aft) ==
    /\ pc' = ComponentAfter[pc] /\ part' = "finalizer"
    /\ mem' = Apply(p, mem) /\ patch' = Then(patch, p)
    /\ requeue' = (requeue \/ rq) /\ after' = (after \/ aft)
    /\ UNCHANGED <<top, memOK, cacheOK, noise>>

\* The component returns an error: the pass is over and SetErrorStatus marks
\* the copy of the pass.
ReturnError(rq, requestID) ==
    /\ pc' = "save" /\ part' = "finalizer"
    /\ mem' = [mem EXCEPT !.status = "Error"]
    /\ noise' = (noise \/ requestID) /\ requeue' = (requeue \/ rq)
    /\ UNCHANGED <<top, memOK, cacheOK, patch, after>>

\* ctx.Update(instance.DeepCopy()): refused unless nobody has written since.  The
\* API server removes a deleted object with its last finalizer.
WriteFinalizers(fs) ==
    /\ memOK
    /\ top' = IF fs = {} /\ top.life = "deleting"
              THEN [top EXCEPT !.fins = {}, !.life = "gone"]
              ELSE [top EXCEPT !.fins = fs]
    /\ mem' = [mem EXCEPT !.fins = fs]
    /\ memOK' = FALSE /\ cacheOK' = FALSE
    /\ UNCHANGED resultVars

WriteRefused == (~memOK \/ Failing) /\ ReturnError(FALSE, FALSE)

-----------------------------------------------------------------------------
(* The finalizers: the first half of the three Reconcile methods.           *)

\* Mutant: carry on although the finalizer could not be written.
AddFinalizerUnchecked(c) ==
    /\ pc = c /\ part = "finalizer" /\ mem.life = "live"
    /\ \/ (c \in mem.fins \/ ~memOK \/ Failing) /\ GoOn("make")
       \/ c \notin mem.fins /\ WriteFinalizers(mem.fins \cup {c})
          /\ part' = "make" /\ UNCHANGED pc

AddFinalizer(c) ==
    /\ pc = c /\ part = "finalizer" /\ mem.life = "live"
    /\ \/ c \in mem.fins /\ GoOn("make")
       \/ c \notin mem.fins /\ WriteFinalizers(mem.fins \cup {c})
          /\ part' = "make" /\ UNCHANGED pc
       \/ c \notin mem.fins /\ WriteRefused

\* The groups wait for the finalizer of the database to be gone.
TakeDown(c) ==
    /\ pc = c /\ part = "finalizer" /\ mem.life = "deleting"
    /\ \/ c \notin mem.fins /\ Return(NoPatch, FALSE, FALSE)
       \/ /\ c \in mem.fins /\ c \in Groups /\ "database" \in mem.fins
          /\ Return(NoPatch, FALSE, TRUE)
       \/ /\ c \in mem.fins /\ (c \in Groups => "database" \notin mem.fins)
          /\ GoOn(IF EnableFinalizers THEN "destroy" ELSE "release")

RemoveFinalizer(c) ==
    /\ pc = c /\ part = "release"
    /\ \/ /\ WriteFinalizers(mem.fins \ {c})
          /\ pc' = ComponentAfter[c] /\ part' = "finalizer"
       \/ WriteRefused

Finalizers ==
    /\ \E c \in Owned : AddFinalizer(c) \/ TakeDown(c) \/ RemoveFinalizer(c)
    /\ UNCHANGED <<secretVars, awsVars, cache, secretCache, queueVars, clean,
                   tries, boundVars>>

-----------------------------------------------------------------------------
(* Making and destroying: the second half.  AWS refuses to delete a group the *)
(* database uses, and a database of which it cannot take a last snapshot.     *)

\* Parameters that differ from the specification or the default are changed,
\* which AWS may put off, and looked at again; a call that fails mid-way may have
\* created the group already.
MakeParameterGroup ==
    /\ pc = "parametergroup" /\ part = "make"
    /\ LET state == group[pc] IN
       \/ /\ state # "drifted" /\ group' = [group EXCEPT ![pc] = "ok"]
          /\ Return(NoPatch, FALSE, FALSE)
       \/ /\ state # "ok" /\ \E s \in {"drifted", "ok"} : group' = [group EXCEPT ![pc] = s]
          /\ Return(NoPatch, FALSE, TRUE)
       \/ /\ Failing /\ ReturnError(FALSE, TRUE)
          /\ \/ UNCHANGED group
             \/ state = "absent" /\ group' = [group EXCEPT ![pc] = "drifted"]
    /\ UNCHANGED db

\* A new group, or one with rules for other ports (drifted), is looked at again
\* in the next pass; its id becomes known only then.
MakeSecurityGroup ==
    /\ pc = "securitygroup" /\ part = "make"
    /\ \/ /\ group[pc] # "ok" /\ group' = [group EXCEPT ![pc] = "ok"]
          /\ Return(NoPatch, TRUE, FALSE)
       \/ /\ group[pc] = "ok" /\ UNCHANGED group
          /\ Return([NoPatch EXCEPT !.sgID = TRUE], FALSE, FALSE)
       \/ Failing /\ UNCHANGED group /\ ReturnError(FALSE, TRUE)
    /\ UNCHANGED db

\* Mutant: a refusal of AWS counts as done.
DestroyParameterGroupOnce ==
    /\ pc = "parametergroup" /\ part = "destroy"
    /\ \/ /\ db.state # "absent" \/ group[pc] = "absent"
          /\ UNCHANGED group /\ GoOn("release")
       \/ /\ group[pc] # "absent" /\ db.state = "absent"
          /\ group' = [group EXCEPT ![pc] = "absent"] /\ GoOn("release")
       \/ Failing /\ UNCHANGED group /\ ReturnError(FALSE, TRUE)
    /\ UNCHANGED db

DestroyParameterGroup ==
    /\ pc = "parametergroup" /\ part = "destroy"
    /\ \/ group[pc] = "absent" /\ UNCHANGED group /\ GoOn("release")
       \/ /\ group[pc] # "absent" /\ db.state = "absent"
          /\ group' = [group EXCEPT ![pc] = "absent"] /\ GoOn("release")
       \/ /\ Failing \/ (group[pc] # "absent" /\ db.state # "absent")
          /\ UNCHANGED group /\ ReturnError(FALSE, TRUE)
    /\ UNCHANGED db

\* The error of describing the group is dropped: no answer reads as no group.
DestroySecurityGroup ==
    /\ pc = "securitygroup" /\ part = "destroy"
    /\ \/ /\ Failing \/ group[pc] = "absent"
          /\ UNCHANGED group /\ GoOn("release")
       \/ /\ group[pc] # "absent" /\ db.state = "absent"
          /\ group' = [group EXCEPT ![pc] = "absent"] /\ GoOn("release")
       \/ /\ group[pc] # "absent" /\ (Failing \/ db.state # "absent")
          /\ UNCHANGED group /\ ReturnError(FALSE, TRUE)
    /\ UNCHANGED db

\* deleteDependencies asks for a retry in a minute when AWS refuses because of
\* the database's state; the caller looks at the error only and releases it.
DestroyDatabase ==
    /\ pc = "database" /\ part = "destroy"
    /\ \/ db.state = "deleting" /\ UNCHANGED db /\ Return(NoPatch, FALSE, TRUE)
       \/ /\ db.state = "available" /\ db' = [db EXCEPT !.state = "deleting"]
          /\ GoOn("release")
       \/ /\ db.state \in {"absent", "creating", "busy", "failed"} /\ UNCHANGED db
          /\ GoOn("release")
       \/ Failing /\ UNCHANGED db /\ ReturnError(FALSE, TRUE)
    /\ UNCHANGED group

\* Create the secret, with a new password, unless the cache has one.
Secret ==
    /\ pc = "secret"
    /\ \/ secretCache # 0 /\ UNCHANGED secretVars /\ Return(NoPatch, FALSE, FALSE)
       \/ /\ secretCache = 0 /\ secret = 0
          /\ secret' = generated + 1 /\ generated' = generated + 1
          /\ Return(NoPatch, FALSE, FALSE)
       \/ /\ secretCache = 0 /\ (secret # 0 \/ Failing)
          /\ UNCHANGED secretVars /\ ReturnError(TRUE, FALSE)
    /\ UNCHANGED <<awsVars, cache, secretCache, queueVars, clean, tries, boundVars>>

\* An instance that was Ready has no server yet to try the password on.
CreateDatabase ==
    /\ db.state = "absent"
    /\ IF mem.sgID /\ \A g \in Groups : group[g] # "absent"
       THEN /\ db' = [state |-> "creating", password |-> secretCache,
                      retention |-> TRUE]
            /\ \/ /\ mem.status # "Ready"
                  /\ Return([NoPatch EXCEPT !.status = "Creating"], FALSE, TRUE)
               \/ (mem.status = "Ready" \/ Failing) /\ ReturnError(FALSE, TRUE)
       ELSE UNCHANGED db /\ ReturnError(FALSE, TRUE)

\* The password is tried only when the instance is Ready; a connection that
\* fails for another reason is an error.
Connects == mem.status = "Ready" => db.state \in {"available", "busy"}

\* Mutant: never try the password.
WrongPasswordUntried == FALSE

WrongPassword == mem.status = "Ready" /\ db.password # secretCache

UpdateDatabase ==
    /\ db.state # "absent" /\ Connects
    /\ \/ /\ db.state = "available" /\ (~db.retention \/ WrongPassword)
          /\ db' = [state |-> "busy", retention |-> TRUE,
                    password |-> IF WrongPassword THEN secretCache ELSE db.password]
          /\ Return(NoPatch, FALSE, TRUE)
       \/ /\ db.state = "available" /\ db.retention /\ ~WrongPassword
          /\ UNCHANGED db
          /\ Return([NoPatch EXCEPT !.status = "Ready"], FALSE, FALSE)
       \/ /\ db.state = "busy" /\ UNCHANGED db
          /\ Return([NoPatch EXCEPT !.status = "Modifying"], FALSE, TRUE)
       \/ /\ db.state = "creating" /\ UNCHANGED db
          /\ Return([NoPatch EXCEPT !.status = "Creating"], FALSE, TRUE)
       \/ /\ db.state = "deleting" /\ UNCHANGED db
          /\ Return([NoPatch EXCEPT !.status = "Unknown"], FALSE, TRUE)
       \/ db.state = "failed" /\ UNCHANGED db /\ ReturnError(FALSE, FALSE)

MakeDatabase ==
    /\ pc = "database" /\ part = "make"
    /\ \/ secretCache # 0 /\ (CreateDatabase \/ UpdateDatabase)
       \/ /\ UNCHANGED db
          /\ secretCache = 0 \/ (db.state # "absent" /\ ~Connects)
          /\ ReturnError(FALSE, FALSE)
       \/ Failing /\ UNCHANGED db /\ ReturnError(FALSE, TRUE)
    /\ UNCHANGED group

External ==
    /\ MakeParameterGroup \/ MakeSecurityGroup \/ MakeDatabase
         \/ DestroyParameterGroup \/ DestroySecurityGroup \/ DestroyDatabase
    /\ UNCHANGED <<secretVars, cache, secretCache, queueVars, clean, tries,
                   boundVars>>

-----------------------------------------------------------------------------
(* The end of the pass.                                                     *)

ClearPass ==
    /\ pc' = "idle" /\ part' = "finalizer"
    /\ mem' = NewInstance /\ memOK' = FALSE /\ clean' = NewInstance
    /\ noise' = FALSE /\ patch' = NoPatch /\ requeue' = FALSE /\ after' = FALSE
    /\ tries' = 0

Finish ==
    /\ ClearPass
    /\ timer' = (timer \/ after)
    /\ queued' = (queued \/ (requeue /\ ~after))
    /\ UNCHANGED <<secretVars, awsVars, cache, secretCache, boundVars>>

\* Mutant: an error that only repeats the one before is not written.
StatusChangedQuiet == mem.status # clean.status \/ mem.sgID # clean.sgID

StatusChanged == noise \/ mem.status # clean.status \/ mem.sgID # clean.sgID

SaveNothing ==
    /\ pc = "save" /\ ~StatusChanged
    /\ Finish /\ UNCHANGED <<top, cacheOK>>

SaveFast ==
    /\ pc = "save" /\ StatusChanged /\ memOK
    /\ top' = [top EXCEPT !.status = mem.status, !.sgID = mem.sgID]
    /\ cacheOK' = FALSE
    /\ Finish

SaveConflict ==
    /\ pc = "save" /\ StatusChanged /\ (~memOK \/ Failing)
    /\ pc' = "replay"
    /\ UNCHANGED <<top, secretVars, awsVars, cacheVars, queueVars, part, mem,
                   memOK, clean, resultVars, tries, boundVars>>

\* Replay the modifiers on the copy in the cache; an object that is gone from
\* there is left alone.
Replay ==
    /\ pc = "replay"
    /\ \/ /\ cacheOK /\ cache.life # "gone"
          /\ top' = Apply(patch, cache) /\ cacheOK' = (top' = top)
       \/ cache.life = "gone" /\ UNCHANGED <<top, cacheOK>>
    /\ Finish

ReplayRefused == cache.life # "gone" /\ (~cacheOK \/ Failing)

\* Mutant: no limit to the replays.
ReplayConflictForever ==
    /\ pc = "replay" /\ ReplayRefused
    /\ tries' = tries + 1
    /\ UNCHANGED <<top, secretVars, awsVars, cacheVars, queueVars, pc, part, mem,
                   memOK, clean, resultVars, boundVars>>

ReplayConflict ==
    /\ pc = "replay" /\ ReplayRefused /\ tries + 1 < MaxTries
    /\ tries' = tries + 1
    /\ UNCHANGED <<top, secretVars, awsVars, cacheVars, queueVars, pc, part, mem,
                   memOK, clean, resultVars, boundVars>>

ReplayGiveUp ==
    /\ pc = "replay" /\ ReplayRefused /\ tries + 1 = MaxTries
    /\ ClearPass
    /\ queued' = TRUE
    /\ UNCHANGED <<top, secretVars, awsVars, cacheVars, timer, boundVars>>

Save == SaveNothing \/ SaveFast \/ SaveConflict \/ Replay \/ ReplayConflict
          \/ ReplayGiveUp

-----------------------------------------------------------------------------
(* Watches, timers, restarts.                                               *)

SyncTop ==
    /\ ~cacheOK
    /\ cache' = top /\ cacheOK' = TRUE /\ queued' = TRUE
    /\ UNCHANGED <<top, secretVars, awsVars, secretCache, timer, passVars, boundVars>>

SyncSecret ==
    /\ secretCache # secret
    /\ secretCache' = secret /\ queued' = TRUE
    /\ UNCHANGED <<top, secretVars, awsVars, cache, cacheOK, timer, passVars,
                   boundVars>>

TimerFires ==
    /\ timer
    /\ timer' = FALSE /\ queued' = TRUE
    /\ UNCHANGED <<top, secretVars, awsVars, cacheVars, passVars, boundVars>>

OtherEvent ==
    /\ ~queued
    /\ queued' = TRUE
    /\ UNCHANGED <<top, secretVars, awsVars, cacheVars, timer, passVars, boundVars>>

Crash ==
    /\ "crash" \in Faults
    /\ ClearPass
    /\ cache' = top /\ cacheOK' = TRUE /\ secretCache' = secret
    /\ queued' = TRUE /\ timer' = FALSE
    /\ UNCHANGED <<top, secretVars, awsVars, boundVars>>

-----------------------------------------------------------------------------
(* The user and AWS.                                                        *)

operatorVars == <<cache, secretCache, queued, timer, pc, part, mem, clean, noise,
                  patch, requeue, after, tries>>

DeleteInstance ==
    /\ top.life = "live" /\ db.state \in DeletedWhile
    /\ top' = [top EXCEPT !.life = IF top.fins = {} THEN "gone" ELSE "deleting"]
    /\ cacheOK' = FALSE /\ memOK' = FALSE
    /\ UNCHANGED <<secretVars, awsVars, operatorVars, boundVars>>

Touch ==
    /\ top.life # "gone" /\ touches < MaxTouches
    /\ touches' = touches + 1
    /\ cacheOK' = FALSE /\ memOK' = FALSE
    /\ UNCHANGED <<top, secretVars, awsVars, operatorVars, backups>>

DeleteSecret ==
    /\ secret # 0 /\ generated < MaxSecrets
    /\ secret' = 0
    /\ UNCHANGED <<top, generated, awsVars, operatorVars, cacheOK, memOK, boundVars>>

\* Somebody changes parameters or rules, the database's backup retention, or
\* deletes the database.
Drift ==
    /\ touches < MaxTouches
    /\ touches' = touches + 1
    /\ \/ /\ "drift" \in Faults /\ UNCHANGED db
          /\ \E g \in Groups : /\ group[g] = "ok"
                              /\ group' = [group EXCEPT ![g] = "drifted"]
       \/ /\ "drift" \in Faults /\ db.state = "available" /\ UNCHANGED group
          /\ db' = [db EXCEPT !.retention = FALSE]
       \/ /\ "removed" \in Faults /\ db.state = "available" /\ UNCHANGED group
          /\ db' = [db EXCEPT !.state = "deleting"]
    /\ UNCHANGED <<top, secretVars, operatorVars, cacheOK, memOK, backups>>

DatabaseMoves ==
    /\ \/ /\ db.state \in {"creating", "busy"}
          /\ db' = [db EXCEPT !.state = "available"]
       \/ db.state = "deleting" /\ db' = NoDatabase
    /\ UNCHANGED <<top, secretVars, group, operatorVars, cacheOK, memOK, boundVars>>

DatabaseBreaks ==
    /\ "break" \in Faults
    /\ \/ db.state \in {"creating", "busy"} /\ db' = [db EXCEPT !.state = "failed"]
       \/ db.state = "failed" /\ db' = [db EXCEPT !.state = "available"]
    /\ UNCHANGED <<top, secretVars, group, operatorVars, cacheOK, memOK, boundVars>>

AutomatedBackup ==
    /\ db.state = "available" /\ backups < MaxBackups
    /\ backups' = backups + 1
    /\ db' = [db EXCEPT !.state = "busy"]
    /\ UNCHANGED <<top, secretVars, group, operatorVars, cacheOK, memOK, touches>>

-----------------------------------------------------------------------------
Components == Finalizers \/ External \/ Secret

Next ==
    \/ Begin \/ Components \/ Save
    \/ SyncTop \/ SyncSecret \/ TimerFires \/ OtherEvent \/ Crash
    \/ DeleteInstance \/ Touch \/ DeleteSecret \/ Drift
    \/ DatabaseMoves \/ DatabaseBreaks \/ AutomatedBackup

Spec == Init /\ [][Next]_vars

\* As in SummonRollout; AWS finishes what it has begun.
Fairness ==
    /\ WF_vars(Begin) /\ WF_vars(Components) /\ WF_vars(Save)
    /\ WF_vars(SyncTop) /\ WF_vars(SyncSecret) /\ WF_vars(TimerFires)
    /\ WF_vars(DatabaseMoves)

FairSpec == Spec /\ Fairness

-----------------------------------------------------------------------------
\* The variables keep their types; the passwords stay within their bound and
\* modifyStatus gives up in time.
TypeOK ==
    /\ top \in Objects /\ cache \in Objects /\ mem \in Objects /\ clean \in Objects
    /\ secret \in Passwords /\ secretCache \in Passwords /\ generated \in Passwords
    /\ group \in [Groups -> GroupStates] /\ db \in Databases
    /\ {cacheOK, memOK, queued, timer, noise, requeue, after} \subseteq BOOLEAN
    /\ pc \in Owned \cup {"idle", "secret", "save", "replay"}
    /\ part \in {"finalizer", "make", "destroy", "release"}
    /\ patch \in Patches
    /\ tries \in 0 .. MaxTries
    /\ backups \in 0 .. MaxBackups /\ touches \in 0 .. MaxTouches

LifeOf(state) ==
    CASE state = "absent" -> "absent" [] state = "deleting" -> "going"
      [] OTHER -> "present"

ParameterGroup == INSTANCE ExternalResource
    WITH object <- top.life, guarded <- "parametergroup" \in top.fins,
         resource <- LifeOf(group["parametergroup"])

SecurityGroup == INSTANCE ExternalResource
    WITH object <- top.life, guarded <- "securitygroup" \in top.fins,
         resource <- LifeOf(group["securitygroup"])

Database == INSTANCE ExternalResource
    WITH object <- top.life, guarded <- "database" \in top.fins,
         resource <- LifeOf(db.state)

\* The parameter group is never left behind: restarts, conflicts, stale copies,
\* failing calls and a deletion at any moment included.
KeepsParameterGroup == ParameterGroup!Spec

\* The same of the security group, as long as no call to AWS fails: an error of
\* describing it is dropped (security_group.go:288).
KeepsSecurityGroup == SecurityGroup!Spec

\* The same of the database.  The code asks for a retry when AWS cannot delete it
\* yet (rds_instance.go:338), and drops it.
KeepsDatabase == Database!Spec

\* Nothing is made in AWS for an object that does not carry, in the API server,
\* the finalizer that will take it down.
MadeUnderFinalizer ==
    [][/\ \A g \in Groups :
            group[g] = "absent" /\ group'[g] # "absent" => g \in top.fins
       /\ (db.state = "absent" /\ db'.state # "absent") => "database" \in top.fins]_awsVars

\* A deleted RDSInstance goes away, unless it has already lost sight of its database
\* (see KeepsDatabase), which then keeps using the groups.
DatabaseInSight == "database" \in top.fins \/ db.state \in {"absent", "deleting"}
DeletionCompletes ==
    []DatabaseInSight => (top.life = "deleting" ~> top.life = "gone")

\* An RDSInstance that is not deleted ends up Ready, with the database at the
\* password of the secret: a lost secret, drift, a conflict and backups included.
BecomesReady ==
    <>[](top.life = "live")
      => <>[](/\ top.status = "Ready" /\ db.state = "available"
              /\ secret # 0 /\ db.password = secret)
=============================================================================

--------------------------- MODULE RabbitmqBroker ---------------------------
(***************************************************************************)
(* A RabbitmqVhost object, the RabbitmqUser object it owns and the broker  *)
(* both work on.  Two controllers of one process, with one worker each and *)
(* the same informer caches: that of the vhost writes the user object,     *)
(* makes the vhost and its policies and waits for the user; that of the    *)
(* user invents a password, makes the user on the broker and gives it its  *)
(* permissions.  Each takes down what it made, behind a finalizer; the     *)
(* user object is deleted once the vhost object is gone.                   *)
(*                                                                         *)
(* The calls of one pass to the broker are one step when nobody could see  *)
(* them apart.  Abstracted: the policies are the version of the Spec they  *)
(* come from, the password is there or not, the permissions are those on   *)
(* this vhost.                                                             *)
(***************************************************************************)
EXTENDS Naturals

CONSTANTS
    SkipUsers,        \* the values of Spec.SkipUser that are explored
    EnableFinalizers, \* ENABLE_FINALIZERS == "true"
    MaxTries,
    MaxSpecs,         \* bound: versions of the Spec of the vhost
    DeletedWhile,     \* bound: the states in which the vhost object may be deleted
    MaxDisturbances   \* bound: failing calls, restarts and edits of the Spec

ASSUME BrokerConstantsOK ==
    /\ SkipUsers \subseteq BOOLEAN /\ SkipUsers # {} /\ EnableFinalizers \in BOOLEAN
    /\ MaxTries \in Nat \ {0} /\ MaxSpecs \in Nat \ {0}
    /\ DeletedWhile \subseteq {"", "Ready", "Error"}
    /\ MaxDisturbances \in Nat

VARIABLES
    skipUser,
    vtop, vview, vpass, vwork, \* the vhost object: see ComponentReconciler
    utop, uview, upass, uwork, \* the user object; uview is the cache of both controllers
    secret,   \* the password: stored in its secret; in the cache
    broker,   \* the vhost, its policies; the user; its permissions
    disturbances

NoPatch == [phase |-> "keep", ref |-> FALSE]
Ready == [phase |-> "Ready", ref |-> FALSE]
Recorded == [phase |-> "keep", ref |-> TRUE]
Patches == [phase : {"keep", "Ready"}, ref : BOOLEAN]

Apply(p, o) ==
    [o EXCEPT !.status =
        [phase   |-> IF p.phase = "keep" THEN @.phase ELSE p.phase,
         message |-> IF p.phase = "keep" THEN @.message ELSE "",
         ref     |-> @.ref \/ p.ref]]

Then(p, q) == [phase |-> IF q.phase = "keep" THEN p.phase ELSE q.phase,
               ref   |-> p.ref \/ q.ref]

Messages == {"", "call", "conflict", "no secret", "no user"}

Failed(o, message) == [o EXCEPT !.status.phase = "Error", !.status.message = message]

Absent == [life |-> "gone"]

V == INSTANCE ComponentReconciler
     WITH top <- vtop, view <- vview, pass <- vpass, work <- vwork
U == INSTANCE ComponentReconciler
     WITH top <- utop, view <- uview, pass <- upass, work <- uwork

Objects == {Absent} \cup
    [life : {"live", "deleting"}, fin : BOOLEAN, spec : 1 .. MaxSpecs,
     status : [phase : {"", "Ready", "Error"}, message : Messages, ref : BOOLEAN]]

Brokers == [vhost : BOOLEAN, policies : 0 .. MaxSpecs, user : BOOLEAN, permissions : BOOLEAN]

NewObject == [life |-> "live", fin |-> FALSE, spec |-> 1,
              status |-> [phase |-> "", message |-> "", ref |-> FALSE]]

vhostVars == <<vtop, vview, vpass>>
userVars == <<utop, uview, upass>>
vars == <<skipUser, vtop, vview, vpass, vwork, utop, uview, upass, uwork,
          secret, broker, disturbances>>

\* The broker without the vhost, without the user.
WithoutVhost == [broker EXCEPT !.vhost = FALSE, !.policies = 0, !.permissions = FALSE]
WithoutUser == [broker EXCEPT !.user = FALSE, !.permissions = FALSE]

Init ==
    /\ skipUser \in SkipUsers
    /\ V!Start(NewObject) /\ U!Start(Absent)
    /\ secret = [stored |-> FALSE, cached |-> FALSE]
    /\ broker = [vhost |-> FALSE, policies |-> 0, user |-> FALSE, permissions |-> FALSE]
    /\ disturbances = 0

Disturb == disturbances < MaxDisturbances /\ disturbances' = disturbances + 1

-----------------------------------------------------------------------------
(* The controller of RabbitmqVhost.                                         *)

VGoOn(stage, patch) == V!Return(stage, patch, FALSE, FALSE) /\ UNCHANGED disturbances
VFail(message, requeue) == V!ReturnError(message, NoPatch, requeue) /\ UNCHANGED disturbances
VCallFails == Disturb /\ V!ReturnError("call", NoPatch, FALSE)

\* Where the pass goes with a finalizer, without, and on an object in deletion.
After(o, next) ==
    CASE o.life = "live" /\ o.fin  -> next
      [] o.life = "live" /\ ~o.fin -> "finalizer"
      [] o.life # "live" /\ ~o.fin -> "save"
      [] OTHER                      -> "destroy"

VBegin ==
    /\ V!Begin(IF ~skipUser \/ vview.obj = Absent THEN "user" ELSE After(vview.obj, "vhost"))
    /\ UNCHANGED <<skipUser, userVars, uwork, secret, broker, disturbances>>

\* The user object, in deletion or not; nothing else writes its Spec.
UserObject ==
    /\ vpass.at = "user"
    /\ \/ /\ uview.obj # Absent /\ VGoOn(After(vpass.obj, "vhost"), NoPatch)
          /\ UNCHANGED userVars
       \/ /\ uview.obj = Absent /\ utop = Absent
          /\ U!Write(NewObject) /\ VGoOn(After(vpass.obj, "vhost"), NoPatch)
       \/ uview.obj = Absent /\ utop # Absent /\ VFail("conflict", TRUE) /\ UNCHANGED userVars
    /\ UNCHANGED <<vtop, vview, uwork, secret, broker>>

\* The Update goes through a copy, and the pass goes on.
VWriteFinalizer(fin, stage) ==
    LET o == [vpass.obj EXCEPT !.fin = fin] IN
    /\ V!Update(IF ~fin THEN Absent ELSE [o EXCEPT !.status = vtop.status],
                o, stage, TRUE, FALSE)
    /\ UNCHANGED disturbances

VConflict == ~vpass.current /\ VFail("conflict", FALSE) /\ UNCHANGED <<vtop, vview>>

VhostFinalizer ==
    /\ vpass.at = "finalizer"
    /\ VWriteFinalizer(TRUE, "vhost") \/ VConflict
    /\ UNCHANGED <<userVars, uwork, secret, broker>>

\* Mutant: a vhost that cannot be deleted is forgotten.
DestroyVhostOnce ==
    /\ vpass.at = "destroy"
    /\ broker' \in {broker, WithoutVhost} /\ VGoOn("release", NoPatch)
    /\ UNCHANGED <<vtop, vview, userVars, uwork, secret>>


\* What is on a vhost goes with it.
DestroyVhost ==
    /\ vpass.at = "destroy"
    /\ \/ /\ broker' = IF EnableFinalizers THEN WithoutVhost ELSE broker
          /\ VGoOn("release", NoPatch)
       \/ EnableFinalizers /\ VCallFails /\ UNCHANGED broker
    /\ UNCHANGED <<vtop, vview, userVars, uwork, secret>>

ReleaseVhost ==
    /\ vpass.at = "release"
    /\ VWriteFinalizer(FALSE, "save") \/ VConflict
    /\ UNCHANGED <<userVars, uwork, secret, broker>>

\* Unless there is to be no user, the object is Ready with its user.
Await ==
    \/ ~skipUser /\ uview.obj = Absent /\ VFail("no user", FALSE)
    \/ /\ ~skipUser /\ uview.obj # Absent /\ uview.obj.status.phase # "Ready"
       /\ VGoOn("save", NoPatch)
    \/ /\ skipUser \/ (uview.obj # Absent /\ uview.obj.status.phase = "Ready")
       /\ VGoOn("save", Ready)

\* What is done when a call fails is done (0: neither the old policies nor the new).
VhostCallFails ==
    /\ VCallFails
    /\ \/ UNCHANGED broker
       \/ \E n \in {broker.policies} \cup ({0} \ {vpass.obj.spec}) :
            broker' = [broker EXCEPT !.vhost = TRUE, !.policies = n]

\* Mutant: the user object is looked at only to see that it exists.
VhostWithoutWaiting ==
    /\ vpass.at = "vhost"
    /\ \/ /\ broker' = [broker EXCEPT !.vhost = TRUE, !.policies = vpass.obj.spec]
          /\ IF skipUser \/ uview.obj # Absent THEN VGoOn("save", Ready)
             ELSE VFail("no user", FALSE)
       \/ VhostCallFails
    /\ UNCHANGED <<vtop, vview, userVars, uwork, secret>>

\* The vhost is made when it is missing; every policy of the Spec is put, every other
\* deleted.
Vhost ==
    /\ vpass.at = "vhost"
    /\ \/ /\ broker' = [broker EXCEPT !.vhost = TRUE, !.policies = vpass.obj.spec]
          /\ Await
       \/ VhostCallFails
    /\ UNCHANGED <<vtop, vview, userVars, uwork, secret>>

VhostComponents ==
    /\ UserObject \/ VhostFinalizer \/ DestroyVhost \/ ReleaseVhost \/ Vhost
    /\ UNCHANGED <<skipUser, vwork>>

VSave ==
    /\ V!Save(FALSE)
    /\ UNCHANGED <<skipUser, userVars, uwork, secret, broker, disturbances>>

-----------------------------------------------------------------------------
(* The controller of RabbitmqUser.                                          *)

UGoOn(stage, patch, after) == U!Return(stage, patch, FALSE, after) /\ UNCHANGED disturbances
UFail(message, patch, requeue) ==
    U!ReturnError(message, patch, requeue) /\ UNCHANGED disturbances
UCallFails == Disturb /\ U!ReturnError("call", NoPatch, FALSE)

UBegin ==
    /\ U!Begin("secret")
    /\ UNCHANGED <<skipUser, vhostVars, vwork, secret, broker, disturbances>>

\* A password is made when the cache shows none, and stored unless there is one.
Secret ==
    /\ upass.at = "secret"
    /\ \/ secret.cached /\ UGoOn(After(upass.obj, "put"), Recorded, FALSE) /\ UNCHANGED secret
       \/ /\ ~secret.cached /\ ~secret.stored
          /\ secret' = [secret EXCEPT !.stored = TRUE]
          /\ UGoOn(After(upass.obj, "put"), Recorded, FALSE)
       \/ /\ ~secret.cached /\ secret.stored
          /\ UFail("conflict", Recorded, TRUE) /\ UNCHANGED secret
    /\ UNCHANGED <<utop, uview, broker>>

UWriteFinalizer(fin, stage) ==
    LET o == [upass.obj EXCEPT !.fin = fin] IN
    /\ U!Update(IF ~fin THEN Absent ELSE [o EXCEPT !.status = utop.status],
                o, stage, TRUE, FALSE)
    /\ UNCHANGED disturbances

UConflict == ~upass.current /\ UFail("conflict", NoPatch, FALSE) /\ UNCHANGED <<utop, uview>>

UserFinalizer ==
    /\ upass.at = "finalizer"
    /\ UWriteFinalizer(TRUE, "put") \/ UConflict
    /\ UNCHANGED <<secret, broker>>

\* Mutant: the finalizer goes while the user is there.
DestroyUserOnce ==
    /\ upass.at = "destroy"
    /\ broker' \in {broker, WithoutUser} /\ UWriteFinalizer(FALSE, "save")
    /\ UNCHANGED secret

DestroyUser ==
    /\ upass.at = "destroy"
    /\ \/ /\ broker' = IF EnableFinalizers THEN WithoutUser ELSE broker
          /\ UWriteFinalizer(FALSE, "save") \/ UConflict
       \/ EnableFinalizers /\ UCallFails /\ UNCHANGED <<broker, utop, uview>>
    /\ UNCHANGED secret

\* A user that has just been made gets its permissions in another pass.  Whether the
\* broker took them is not looked at: without the vhost nothing is given, and the user
\* is Ready.
User ==
    /\ upass.at = "put"
    /\ \/ ~secret.cached /\ UFail("no secret", NoPatch, FALSE) /\ UNCHANGED broker
       \/ /\ secret.cached /\ ~broker.user
          /\ broker' = [broker EXCEPT !.user = TRUE] /\ UGoOn("save", NoPatch, TRUE)
       \/ /\ secret.cached /\ broker.user
          /\ broker' = [broker EXCEPT !.permissions = broker.vhost]
          /\ UGoOn("save", Ready, FALSE)
       \/ UCallFails /\ UNCHANGED broker
    /\ UNCHANGED <<utop, uview, secret>>

UserComponents ==
    /\ Secret \/ UserFinalizer \/ DestroyUser \/ User
    /\ UNCHANGED <<skipUser, vhostVars, vwork, uwork>>

USave ==
    /\ U!Save(FALSE)
    /\ UNCHANGED <<skipUser, vhostVars, vwork, secret, broker, disturbances>>

-----------------------------------------------------------------------------
(* The world around.                                                        *)

VSync ==
    /\ V!Sync
    /\ UNCHANGED <<skipUser, userVars, uwork, secret, broker, disturbances>>


\* An event of the user object is one of its owner, too.
USync ==
    /\ U!Sync /\ V!Event
    /\ UNCHANGED <<skipUser, vhostVars, secret, broker, disturbances>>

SyncSecret ==
    /\ secret.cached # secret.stored
    /\ secret' = [secret EXCEPT !.cached = secret.stored] /\ U!Event
    /\ UNCHANGED <<skipUser, vhostVars, vwork, userVars, broker, disturbances>>

TimerFires ==
    /\ U!TimerFires
    /\ UNCHANGED <<skipUser, vhostVars, vwork, secret, broker, disturbances>>

\* The garbage collector: the owner is gone.
CollectUser ==
    /\ vtop = Absent /\ utop # Absent /\ utop.life = "live"
    /\ U!Write(IF utop.fin THEN [utop EXCEPT !.life = "deleting"] ELSE Absent)
    /\ UNCHANGED <<skipUser, vhostVars, vwork, uwork, secret, broker, disturbances>>

Crash ==
    /\ Disturb /\ V!Restart /\ U!Restart
    /\ secret' = [secret EXCEPT !.cached = secret.stored]
    /\ UNCHANGED <<skipUser, broker>>

DeleteVhost ==
    /\ vtop # Absent /\ vtop.life = "live" /\ vtop.status.phase \in DeletedWhile
    /\ V!Write(IF vtop.fin THEN [vtop EXCEPT !.life = "deleting"] ELSE Absent)
    /\ UNCHANGED <<skipUser, vwork, userVars, uwork, secret, broker, disturbances>>

EditVhost ==
    /\ Disturb /\ vtop # Absent
    /\ \E n \in 1 .. MaxSpecs \ {vtop.spec} : V!Write([vtop EXCEPT !.spec = n])
    /\ UNCHANGED <<skipUser, vwork, userVars, uwork, secret, broker>>

VWorker == VBegin \/ VhostComponents \/ VSave
UWorker == UBegin \/ UserComponents \/ USave

Next ==
    \/ VWorker \/ UWorker \/ VSync \/ USync
    \/ SyncSecret \/ TimerFires \/ CollectUser
    \/ Crash \/ DeleteVhost \/ EditVhost

Spec == Init /\ [][Next]_vars

\* Both workers, the informers, the timers, the garbage collector; no resync.
Fairness ==
    /\ WF_vars(VWorker) /\ WF_vars(UWorker) /\ WF_vars(VSync) /\ WF_vars(USync)
    /\ WF_vars(SyncSecret) /\ WF_vars(TimerFires) /\ WF_vars(CollectUser)

FairSpec == Spec /\ Fairness

-----------------------------------------------------------------------------
Stages == {"user", "secret", "finalizer", "vhost", "put", "destroy", "release"}

TypeOK ==
    /\ skipUser \in SkipUsers
    /\ V!TypesOK(Objects, Patches, Stages) /\ U!TypesOK(Objects, Patches, Stages)
    /\ secret \in [stored : BOOLEAN, cached : BOOLEAN] /\ broker \in Brokers
    /\ disturbances \in 0 .. MaxDisturbances

Life(o) == IF o = Absent THEN "gone" ELSE o.life

Answered == INSTANCE ExternalResource
    WITH object <- Life(vtop), guarded <- vtop # Absent /\ vtop.fin,
         resource <- IF broker.vhost THEN "present" ELSE "absent"

\* A vhost is made, kept and deleted as its finalizer promises, whatever fails or restarts,
\* though the user object and its controller come and go beside it.
KeepsVhost == Answered!Spec

\* A user on the broker has an object that answers for it: the one its vhost made, live
\* or in deletion, also when the vhost object is gone before its user is.
UserAnswered == broker.user => utop # Absent /\ utop.fin

\* An application is told to connect (the vhost object is Ready) only when there is the
\* vhost to connect to and the user to connect as.
ReadyToConnect ==
    vtop # Absent /\ vtop.life = "live" /\ vtop.status.phase = "Ready" =>
        broker.vhost /\ (skipUser \/ broker.user)

\* What nobody notices: the permissions were put while the vhost was missing, the
\* broker refused them, and the user is Ready all the same.
LostPermissions ==
    /\ utop # Absent /\ utop.status.phase = "Ready"
    /\ broker.vhost /\ broker.user /\ ~broker.permissions

Settled ==
    /\ vtop.status.phase = "Ready" /\ broker.vhost /\ broker.policies = vtop.spec
    /\ ~skipUser => /\ utop # Absent /\ utop.status.phase = "Ready"
                    /\ broker.user /\ broker.permissions

\* A vhost that is left alone is made, with its policies and its user, and the user may
\* use it; unless the permissions were lost.
Settles ==
    <>[](Life(vtop) = "live" /\ ~LostPermissions) => <>[](Life(vtop) = "live" /\ Settled)

\* After a vhost its user goes, on the broker and in the cluster.
DeletionCompletes ==
    Life(vtop) = "deleting" ~> vtop = Absent /\ utop = Absent /\ ~broker.user
=============================================================================

---------------------------- MODULE Credentials ----------------------------
(***************************************************************************)
(* Four controllers that make an account somewhere and keep what opens it  *)
(* in a secret: PostgresUser (a role of a Postgres server), DjangoUser (a  *)
(* row in the database of a Summon platform), MockCarServerTenant (a       *)
(* tenant of the mock car server) and GCPServiceAccount (an account of     *)
(* Google Cloud, with its keys).  The first three invent a password, store *)
(* it and push it; the last gets a key and stores it.  Only the tenant is  *)
(* taken down with its object.                                             *)
(*                                                                         *)
(* Abstracted: a password, a key or the six keys of a tenant are a number; *)
(* what else is pushed is the version of the Spec.                         *)
(***************************************************************************)
EXTENDS Naturals, FiniteSets

CONSTANTS
    Kinds,            \* which of AllKinds are explored
    EnableFinalizers, \* ENABLE_FINALIZERS == "true"
    MaxTries,
    MaxSpecs,         \* bound: versions of the Spec
    MaxFailures,      \* bound: failing calls and restarts
    MaxTouches        \* bound: interventions from outside

AllKinds == {"PostgresUser", "DjangoUser", "MockCarServerTenant", "GCPServiceAccount"}

ASSUME CredentialsConstantsOK ==
    /\ Kinds \subseteq AllKinds /\ Kinds # {} /\ EnableFinalizers \in BOOLEAN
    /\ MaxTries \in Nat \ {0} /\ MaxSpecs \in Nat \ {0}
    /\ MaxFailures \in Nat /\ MaxTouches \in Nat

None == 0
Passwords == 1 .. 4  \* an account of Google Cloud has room for that many keys

VARIABLES
    kind,
    top, view, pass, work, \* see ComponentReconciler
    secret,   \* what the secret holds: stored, cached, and whether the cache is current
    account,  \* the account: there or not, the password and Spec it has, its keys
    pool,     \* passwords with an authenticated connection in the pool of dbpool
    unseen,   \* somebody changed the account since the last pass began
    failures, touches

NoPatch == [phase |-> "keep", ref |-> FALSE]
Ready == [phase |-> "Ready", ref |-> FALSE]
Recorded == [phase |-> "keep", ref |-> TRUE]
Patches == [phase : {"keep", "Ready"}, ref : BOOLEAN]

Apply(p, o) ==
    [o EXCEPT !.status =
        [phase   |-> IF p.phase = "keep" THEN @.phase ELSE p.phase,
         message |-> IF p.phase = "keep" THEN @.message ELSE "",
         ref     |-> @.ref \/ p.ref]]

Then(p, q) == [phase |-> IF q.phase = "keep" THEN p.phase ELSE q.phase,
               ref   |-> p.ref \/ q.ref]

Messages == {"", "call", "conflict", "no secret", "full", "gone"}

Failed(o, message) == [o EXCEPT !.status.phase = "Error", !.status.message = message]

Absent == [life |-> "gone"]

R == INSTANCE ComponentReconciler

Objects == {Absent} \cup
    [life : {"live", "deleting"}, fin : BOOLEAN, spec : 1 .. MaxSpecs,
     status : [phase : {"", "Ready", "Error"}, message : Messages, ref : BOOLEAN]]

Accounts == [there : BOOLEAN, password : Passwords \cup {None}, spec : 0 .. MaxSpecs,
             keys : SUBSET Passwords]

NoAccount == [there |-> FALSE, password |-> None, spec |-> 0, keys |-> {}]
NewObject == [life |-> "live", fin |-> FALSE, spec |-> 1,
              status |-> [phase |-> "", message |-> "", ref |-> FALSE]]

worldVars == <<secret, account, pool>>
boundVars == <<failures, touches>>
vars == <<kind, top, view, pass, work, secret, account, pool, unseen, failures, touches>>

Init ==
    /\ kind \in Kinds
    /\ R!Start(NewObject)
    /\ secret = [stored |-> None, cached |-> None, current |-> TRUE]
    /\ account = NoAccount /\ pool = {}
    /\ unseen = FALSE /\ failures = 0 /\ touches = 0

-----------------------------------------------------------------------------
(* Results of a step of a component.                                        *)

GoOn(stage, patch) == R!Return(stage, patch, FALSE, FALSE) /\ UNCHANGED failures
Fail(message, patch, requeue) ==
    R!ReturnError(message, patch, requeue) /\ UNCHANGED failures
CallFails == /\ failures < MaxFailures /\ failures' = failures + 1
             /\ R!ReturnError("call", NoPatch, FALSE)

Begin ==
    /\ R!Begin(IF kind = "GCPServiceAccount" THEN "account" ELSE "secret")
    /\ unseen' = FALSE
    /\ UNCHANGED <<kind, worldVars, boundVars>>

\* Nobody chooses a password that exists already.
Unused == Passwords \ ({secret.stored, secret.cached, account.password}
                         \cup pool \cup account.keys)
New(p) == p = CHOOSE q \in Unused : TRUE

Stored(p) == secret' = [secret EXCEPT !.stored = p, !.current = FALSE]

-----------------------------------------------------------------------------
(* The secret.                                                              *)

\* CreateOrUpdate: a password is made when the cache shows none; one that exists
\* after all stops the creation.
Generate ==
    /\ secret.cached = None /\ secret.stored = None /\ Unused # {}
    /\ \E p \in Unused : New(p) /\ Stored(p)

Exists == secret.cached = None /\ secret.stored # None

\* Mutant: a password is made in every pass until the object is Ready.
SecretAgain ==
    /\ pass.at = "secret" /\ kind \in {"PostgresUser", "MockCarServerTenant"}
    /\ \/ pass.obj.status.phase = "Ready" /\ UNCHANGED secret
       \/ /\ pass.obj.status.phase # "Ready"
          /\ \E p \in Unused : New(p) /\ Stored(p)
    /\ GoOn(IF kind = "PostgresUser" THEN "user" ELSE "tenant", Recorded)
    /\ UNCHANGED <<top, view, account, pool>>

Secret ==
    /\ pass.at = "secret" /\ kind \in {"PostgresUser", "MockCarServerTenant"}
    /\ \/ /\ Generate \/ (secret.cached # None /\ UNCHANGED secret)
          /\ GoOn(IF kind = "PostgresUser" THEN "user" ELSE "tenant", Recorded)
       \/ /\ Exists /\ UNCHANGED secret
          /\ IF kind = "PostgresUser" THEN Fail("conflict", Recorded, TRUE)
             ELSE Fail("conflict", NoPatch, FALSE)
    /\ UNCHANGED <<top, view, account, pool>>

\* The secret of a DjangoUser is written without a resourceVersion: what the cache
\* does not show is overwritten.
DjangoSecret ==
    /\ pass.at = "secret" /\ kind = "DjangoUser"
    /\ \/ secret.cached # None /\ UNCHANGED secret
       \/ secret.cached = None /\ \E p \in Unused : New(p) /\ Stored(p)
    /\ GoOn("row", NoPatch)
    /\ UNCHANGED <<top, view, account, pool>>

-----------------------------------------------------------------------------
(* PostgresUser.                                                            *)

\* The role is made when it is missing.
User ==
    /\ pass.at = "user"
    /\ \/ /\ secret.cached = None /\ UNCHANGED account
          /\ Fail("no secret", NoPatch, FALSE)
       \/ /\ secret.cached # None /\ GoOn("login", NoPatch)
          /\ account' = IF account.there THEN account
                        ELSE [NoAccount EXCEPT !.there = TRUE, !.password = secret.cached]
       \/ secret.cached # None /\ CallFails /\ UNCHANGED account
    /\ UNCHANGED <<top, view, secret, pool>>

\* A connection of the pool was authenticated when it was opened, perhaps with a
\* password that has been changed since.
LogsIn(p) == p \in pool \/ (account.there /\ account.password = p)


\* The password read is tried, and set when it is refused; setting it fails when the
\* role has been dropped meanwhile.
Login ==
    /\ pass.at = "login"
    /\ \/ /\ secret.cached # None /\ LogsIn(secret.cached)
          /\ pool' = pool \cup {secret.cached}
          /\ GoOn("save", Ready) /\ UNCHANGED account
       \/ /\ secret.cached # None /\ ~LogsIn(secret.cached) /\ account.there
          /\ account' = [account EXCEPT !.password = secret.cached]
          /\ GoOn("save", Ready) /\ UNCHANGED pool
       \/ /\ secret.cached # None /\ ~LogsIn(secret.cached) /\ ~account.there
          /\ Fail("gone", NoPatch, FALSE) /\ UNCHANGED <<account, pool>>
       \/ /\ secret.cached = None
          /\ Fail("no secret", NoPatch, FALSE) /\ UNCHANGED <<account, pool>>
       \/ CallFails /\ UNCHANGED <<account, pool>>
    /\ UNCHANGED <<top, view, secret>>

-----------------------------------------------------------------------------
(* DjangoUser: one upsert after another, with the Spec and the password.    *)

Row ==
    /\ pass.at = "row"
    /\ LET written == [NoAccount EXCEPT !.there = TRUE, !.password = secret.cached,
                                        !.spec = pass.obj.spec]
       IN \/ /\ secret.cached = None /\ Fail("no secret", NoPatch, TRUE)
             /\ UNCHANGED account
          \/ /\ secret.cached # None /\ account' = written /\ GoOn("save", Ready)
          \/ /\ secret.cached # None /\ CallFails /\ account' \in {account, written}
    /\ UNCHANGED <<top, view, secret, pool>>

-----------------------------------------------------------------------------
(* MockCarServerTenant.                                                     *)

\* The update with the finalizer goes through a copy: the pass goes on, and its status
\* write meets a conflict.
WriteFinalizer(read, fin, stage) ==
    LET o == [read EXCEPT !.fin = fin] IN
    /\ top' = IF ~fin /\ o.life = "deleting" THEN Absent
              ELSE [o EXCEPT !.status = top.status]
    /\ view' = [view EXCEPT !.current = FALSE]
    /\ pass' = [pass EXCEPT !.at = stage, !.obj = o, !.current = FALSE]
    /\ UNCHANGED failures

\* The component reads the object again, and what the secret component noted is gone
\* from the copy of the pass.
Tenant ==
    /\ pass.at = "tenant"
    /\ LET read == view.obj
           Reread(stage) == /\ UNCHANGED <<top, view, failures>>
                            /\ pass' = [pass EXCEPT !.at = stage, !.obj = read,
                                                    !.current = view.current]
           Stale == /\ UNCHANGED <<top, view, failures>>
                    /\ pass' = [pass EXCEPT !.at = "save", !.current = FALSE,
                                            !.obj = Failed(read, "conflict")]
       IN \/ read = Absent /\ Fail("gone", NoPatch, FALSE) /\ UNCHANGED <<top, view>>
          \/ /\ read # Absent /\ read.life = "live"
             /\ \/ read.fin /\ Reread("push")
                \/ ~read.fin /\ view.current /\ WriteFinalizer(read, TRUE, "push")
                \/ ~read.fin /\ ~view.current /\ Stale
          \/ /\ read # Absent /\ read.life = "deleting"
             /\ Reread(IF ~read.fin THEN "save"
                       ELSE IF EnableFinalizers THEN "destroy" ELSE "release")
    /\ UNCHANGED <<secret, account, pool>>

Push ==
    /\ pass.at = "push"
    /\ \/ /\ secret.cached = None /\ Fail("no secret", NoPatch, FALSE) /\ UNCHANGED account
       \/ /\ secret.cached # None
          /\ account' = [NoAccount EXCEPT !.there = TRUE, !.password = secret.cached,
                                          !.spec = pass.obj.spec]
          /\ GoOn("save", Ready)
       \/ CallFails /\ UNCHANGED account
    /\ UNCHANGED <<top, view, secret, pool>>

\* Mutant: a tenant that cannot be deleted is forgotten.
DestroyOnce ==
    /\ pass.at = "destroy"
    /\ \/ account' = NoAccount /\ GoOn("unsecret", NoPatch)
       \/ /\ failures < MaxFailures /\ failures' = failures + 1
          /\ R!Return("unsecret", NoPatch, FALSE, FALSE) /\ UNCHANGED account
    /\ UNCHANGED <<top, view, secret, pool>>

Destroy ==
    /\ pass.at = "destroy"
    /\ \/ account' = NoAccount /\ GoOn("unsecret", NoPatch)
       \/ CallFails /\ UNCHANGED account
    /\ UNCHANGED <<top, view, secret, pool>>


\* The secret component has just made one, if there was none.
Unsecret ==
    /\ pass.at = "unsecret"
    /\ \/ secret.cached = None /\ GoOn("release", NoPatch) /\ UNCHANGED secret
       \/ /\ secret.cached # None /\ secret.stored # None
          /\ Stored(None) /\ GoOn("release", NoPatch)
       \/ /\ secret.cached # None /\ secret.stored = None
          /\ Fail("gone", NoPatch, FALSE) /\ UNCHANGED secret
    /\ UNCHANGED <<top, view, account, pool>>

Release ==
    /\ pass.at = "release"
    /\ \/ pass.current /\ WriteFinalizer(pass.obj, FALSE, "save")
       \/ /\ ~pass.current /\ Fail("conflict", NoPatch, FALSE) /\ UNCHANGED <<top, view>>
    /\ UNCHANGED <<secret, account, pool>>

-----------------------------------------------------------------------------
(* GCPServiceAccount.                                                       *)

ServiceAccount ==
    /\ pass.at = "account"
    /\ \/ account' = [account EXCEPT !.there = TRUE] /\ GoOn("key", Recorded)
       \/ CallFails /\ UNCHANGED account
    /\ UNCHANGED <<top, view, secret, pool>>

\* A key is made when the cache shows no secret; old keys are never deleted, and an
\* account has room for only so many.
Key ==
    /\ pass.at = "key"
    /\ \/ secret.cached # None /\ GoOn("save", Ready) /\ UNCHANGED <<account, secret>>
       \/ /\ secret.cached = None /\ Unused # {}
          /\ \E k \in Unused :
               /\ New(k) /\ account' = [account EXCEPT !.keys = @ \cup {k}]
               /\ \/ secret.stored = None /\ Stored(k) /\ GoOn("save", Ready)
                  \/ /\ secret.stored # None /\ UNCHANGED secret
                     /\ Fail("conflict", NoPatch, FALSE)
                  \/ CallFails /\ UNCHANGED secret
       \/ /\ secret.cached = None /\ Unused = {}
          /\ Fail("full", NoPatch, FALSE) /\ UNCHANGED <<account, secret>>
       \/ CallFails /\ UNCHANGED <<account, secret>>
    /\ UNCHANGED <<top, view, pool>>

Components ==
    /\ \/ Secret \/ DjangoSecret \/ User \/ Login \/ Row \/ Tenant \/ Push
       \/ Destroy \/ Unsecret \/ Release \/ ServiceAccount \/ Key
    /\ UNCHANGED <<kind, work, unseen, touches>>

Save ==
    /\ R!Save(FALSE)
    /\ UNCHANGED <<kind, worldVars, unseen, boundVars>>

-----------------------------------------------------------------------------
(* The world around.                                                        *)

Sync == R!Sync /\ UNCHANGED <<kind, worldVars, unseen, boundVars>>

SyncSecret ==
    /\ ~secret.current
    /\ secret' = [secret EXCEPT !.cached = secret.stored, !.current = TRUE] /\ R!Event
    /\ UNCHANGED <<kind, top, view, pass, account, pool, unseen, boundVars>>

Crash ==
    /\ failures < MaxFailures /\ failures' = failures + 1
    /\ R!Restart /\ pool' = {}
    /\ secret' = [secret EXCEPT !.cached = secret.stored, !.current = TRUE]
    /\ UNCHANGED <<kind, account, unseen, touches>>

DeleteObject ==
    /\ top # Absent /\ top.life = "live"
    /\ R!Write(IF top.fin THEN [top EXCEPT !.life = "deleting"] ELSE Absent)
    /\ UNCHANGED <<kind, work, worldVars, unseen, boundVars>>

Touch == touches < MaxTouches /\ touches' = touches + 1

EditObject ==
    /\ Touch /\ top # Absent
    /\ \E v \in 1 .. MaxSpecs : R!Write([top EXCEPT !.spec = v])
    /\ UNCHANGED <<kind, work, worldVars, unseen, failures>>

DeleteSecret ==
    /\ Touch /\ secret.stored # None /\ Stored(None)
    /\ UNCHANGED <<kind, top, view, pass, work, account, pool, unseen, failures>>

\* Somebody gives the account another password, or removes it (no tenant, which the
\* operator keeps to itself).
Drift ==
    /\ Touch /\ account.there /\ unseen' = TRUE
    /\ \/ account' = [account EXCEPT !.password = None]
       \/ kind # "MockCarServerTenant" /\ account' = NoAccount
    /\ UNCHANGED <<kind, top, view, pass, work, secret, pool, failures>>

Next ==
    \/ Begin \/ Components \/ Save \/ Sync \/ SyncSecret
    \/ Crash \/ DeleteObject \/ EditObject \/ DeleteSecret \/ Drift

Spec == Init /\ [][Next]_vars

\* The worker and the informers; no resync.  CachesCatchUp says that passes do not for
\* ever follow each other so closely that one cache or the other is behind in each.
CachesCatchUp == []<>(pass.at = "idle" /\ view.current /\ secret.current)

Fairness ==
    /\ WF_vars(Begin) /\ WF_vars(Components) /\ WF_vars(Save)
    /\ WF_vars(Sync) /\ WF_vars(SyncSecret) /\ CachesCatchUp

FairSpec == Spec /\ Fairness

-----------------------------------------------------------------------------
TypeOK ==
    /\ kind \in Kinds
    /\ R!TypesOK(Objects, Patches,
                 {"secret", "user", "login", "row", "tenant", "push", "destroy",
                  "unsecret", "release", "account", "key"})
    /\ secret \in [stored : Passwords \cup {None}, cached : Passwords \cup {None},
                   current : BOOLEAN]
    /\ account \in Accounts /\ pool \in SUBSET Passwords
    /\ unseen \in BOOLEAN
    /\ failures \in 0 .. MaxFailures /\ touches \in 0 .. MaxTouches

Life == IF top = Absent THEN "gone" ELSE top.life
IsTenant == kind = "MockCarServerTenant"

Answered == INSTANCE ExternalResource
    WITH object <- IF IsTenant THEN Life ELSE "live",
         guarded <- IsTenant /\ top # Absent /\ top.fin,
         resource <- IF IsTenant /\ account.there THEN "present" ELSE "absent"

\* A tenant is made, kept and deleted as a finalizer promises: none is left on the
\* server, whenever the object is deleted, a call fails or the operator restarts.
KeepsTenant == Answered!Spec

InUse(p) == p # None /\ IF kind = "GCPServiceAccount" THEN p \in account.keys
                        ELSE account.there /\ account.password = p

\* What opens the account is only replaced in the secret after somebody deleted it
\* from there: nobody who holds the password is locked out by the operator.
PasswordKept ==
    [][InUse(secret.stored) => secret'.stored \in {secret.stored, None}]_vars

Settled ==
    /\ top.status.phase = "Ready" /\ account.there /\ InUse(secret.stored)
    /\ kind \in {"DjangoUser", "MockCarServerTenant"} => account.spec = top.spec
    /\ kind = "PostgresUser" => top.status.ref

\* What the operator never notices: the password in the secret no longer opens the role,
\* but a pooled connection hides it; the account in Google Cloud was removed and made
\* again, and the key in the secret is one of the old account.
Unnoticed ==
    /\ secret.stored # None /\ ~InUse(secret.stored)
    /\ kind = "GCPServiceAccount" \/ (kind = "PostgresUser" /\ secret.stored \in pool)

\* There is no room for another key.
Full == Cardinality(account.keys) = Cardinality(Passwords)

\* An object that is left alone gets its account, the secret holds what opens it, and
\* what the Spec says is on the account; unless somebody changed the account since the
\* operator last looked, or in one of the ways it never notices.
Settles ==
    <>[](Life = "live" /\ ~unseen /\ ~Unnoticed /\ ~Full) => <>[](Life = "live" /\ Settled)

\* A deleted tenant goes away, its secret before it.
DeletionCompletes == Life = "deleting" ~> Life = "gone"
=============================================================================

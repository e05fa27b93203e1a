-------------------------- MODULE CredentialsProofs --------------------------
(***************************************************************************)
(* What holds of Credentials for every number of Specs, failures, restarts *)
(* and interventions, and for each of the four controllers.                *)
(***************************************************************************)
EXTENDS Credentials, TLAPS

\* The stages of each controller.
StagesOf ==
    [PostgresUser        |-> {"secret", "user", "login"},
     DjangoUser          |-> {"secret", "row"},
     MockCarServerTenant |-> {"secret", "tenant", "push", "destroy", "unsecret", "release"},
     GCPServiceAccount   |-> {"account", "key"}]

Stages == {"secret", "user", "login", "row", "tenant", "push", "destroy", "unsecret",
           "release", "account", "key"}

Types == R!TypesOK(Objects, Patches, Stages)

Alike(o, p) == o.life = p.life /\ o.fin = p.fin /\ o.spec = p.spec

\* A pass that has missed no write works on a copy of the object, which is there.
Current ==
    pass # R!Idle /\ pass.current =>
        view.current /\ view.obj # Absent /\ Alike(pass.obj, view.obj)

\* A pass is in a stage of its controller.
OwnStage == pass.at \in StagesOf[kind] \cup {"idle", "save", "replay"}

TypeInv == TypeOK /\ R!CacheOK /\ Current /\ OwnStage

\* The password that opens an account is not one the operator has yet to see: it came
\* out of the cache.
SeenInUse ==
    kind # "GCPServiceAccount" /\ InUse(secret.stored) => secret.cached = secret.stored

\* What a copy of the object with the finalizer tells of the object itself, however old
\* it is.
Tells(o, object) ==
    o # Absent /\ o.fin =>
        IF o.life = "live" THEN object # Absent /\ object.fin
        ELSE object = Absent \/ (object.life = "deleting" /\ object.fin)

\* The steps on the tenant run on objects that are in the state they are for.
Placed ==
    /\ pass.at = "push" => pass.obj.life = "live" /\ pass.obj.fin
    /\ pass.at \in {"destroy", "unsecret", "release"} =>
           pass.obj.life = "deleting" /\ pass.obj.fin

KnownInv == Tells(view.obj, top) /\ (pass # R!Idle => Tells(pass.obj, top)) /\ Placed

\* With finalizers, a tenant has an object that answers for it, until it is destroyed.
TenantAnswered ==
    IsTenant => /\ account.there => top # Absent /\ top.fin
                /\ pass.at \in {"unsecret", "release"} => ~account.there

\* What CredentialsConstantsOK says of the numbers, in the forms used.
LEMMA BoundsType ==
    /\ 1 \in 1 .. MaxSpecs /\ 0 \in 0 .. MaxSpecs /\ 1 .. MaxSpecs \subseteq 0 .. MaxSpecs
    /\ 0 \in 0 .. MaxFailures /\ 0 \in 0 .. MaxTouches
    /\ MaxFailures \in Nat /\ MaxTouches \in Nat /\ MaxTries \in Nat \ {0}
<1>1. /\ MaxSpecs \in Nat \ {0} /\ MaxFailures \in Nat /\ MaxTouches \in Nat
      /\ MaxTries \in Nat \ {0}
  BY CredentialsConstantsOK
<1>2. QED
  BY <1>1

\* The kinds explored are some of those there are.
LEMMA KindsType == kind \in Kinds => kind \in AllKinds
BY CredentialsConstantsOK

\* None is no password.
LEMMA NonePassword == None \notin Passwords
BY DEF None, Passwords

-----------------------------------------------------------------------------
(* Objects, modifiers and passwords.                                        *)

\* An object that is there is not Absent.
LEMMA Present ==
    /\ Absent \in Objects
    /\ \A o \in Objects : o # Absent <=> o.life \in {"live", "deleting"}
<1>1. Absent.life = "gone"
  BY DEF Absent
<1>2. \A o \in Objects \ {Absent} : o.life \in {"live", "deleting"}
  BY DEF Objects
<1>3. Absent \in Objects
  BY DEF Objects
<1>4. QED
  BY <1>1, <1>2, <1>3

\* A modifier changes the status only, and keeps the types.
LEMMA ApplyType ==
    ASSUME NEW p \in Patches, NEW o \in Objects \ {Absent}
    PROVE  Apply(p, o) \in Objects \ {Absent} /\ Alike(Apply(p, o), o)
BY Present DEF Apply, Patches, Objects, Messages, Absent, Alike

\* So does an error.
LEMMA FailedType ==
    ASSUME NEW message \in Messages, NEW o \in Objects \ {Absent}
    PROVE  Failed(o, message) \in Objects \ {Absent} /\ Alike(Failed(o, message), o)
BY Present DEF Failed, Objects, Messages, Absent, Alike

\* The modifiers are what the pass asks for.
LEMMA Modifiers == R!ModifiersOK(Objects, Patches, Messages)
<1>1. MaxTries \in Nat \ {0}
  BY BoundsType
<1>2. NoPatch \in Patches /\ \A p, q \in Patches : Then(p, q) \in Patches
  BY DEF NoPatch, Patches, Then
<1>3. \A o, s \in Objects \ {Absent} : [o EXCEPT !.status = s.status] \in Objects \ {Absent}
  BY DEF Objects, Absent
<1>4. QED
  BY <1>1, <1>2, <1>3, ApplyType, FailedType DEF R!ModifiersOK

\* The modifiers and the messages of the components.
LEMMA PatchTypes ==
    /\ {NoPatch, Ready, Recorded} \subseteq Patches
    /\ {"call", "conflict", "no secret", "full", "gone"} \subseteq Messages
BY DEF NoPatch, Ready, Recorded, Patches, Messages

\* A new password is one that nothing knows of yet.
LEMMA UnusedType ==
    /\ Unused \subseteq Passwords
    /\ \A p \in Unused : p # None /\ p # account.password /\ p \notin account.keys
BY NonePassword DEF Unused

-----------------------------------------------------------------------------
(* Type correctness.                                                        *)

\* The initial states are well typed.
LEMMA InitType == Init => TypeInv
<1> SUFFICES ASSUME Init PROVE TypeInv
  OBVIOUS
<1>1. NewObject \in Objects
  BY BoundsType, Present DEF NewObject, Objects, Messages
<1>2. Types
  BY <1>1 DEF Init, R!Start, Types, R!TypesOK, R!Passes
<1>3. account \in Accounts /\ failures \in 0 .. MaxFailures /\ touches \in 0 .. MaxTouches
  BY BoundsType DEF Init, Accounts, NoAccount
<1>4. /\ secret \in [stored : Passwords \cup {None}, cached : Passwords \cup {None},
                     current : BOOLEAN]
      /\ kind \in Kinds /\ pool \in SUBSET Passwords /\ unseen \in BOOLEAN
  BY DEF Init
<1>5. TypeOK
  BY <1>2, <1>3, <1>4 DEF TypeOK, Types, Stages
<1>6. pass = R!Idle /\ view.obj = top
  BY DEF Init, R!Start
<1>7. QED
  BY <1>5, <1>6 DEF TypeInv, R!CacheOK, R!Idle, Current, OwnStage

\* What a component finds when it runs.
LEMMA Running ==
    ASSUME TypeOK, pass.at \in Stages
    PROVE  /\ pass # R!Idle /\ pass \in R!Passes(Objects, Patches, Stages)
           /\ pass.obj \in Objects \ {Absent} /\ pass.obj.spec \in 1 .. MaxSpecs
           /\ pass.current \in BOOLEAN
<1>1. pass # R!Idle /\ pass \in R!Passes(Objects, Patches, Stages)
  BY DEF TypeOK, R!TypesOK, R!Idle, Stages
<1>2. QED
  BY <1>1, Present DEF R!Passes, Objects, Absent

\* The pass goes on to a stage, and no more than the status of its copy changes.
Moved(stage) ==
    /\ pass' \in R!Passes(Objects, Patches, Stages)
    /\ pass' # R!Idle /\ pass'.at = stage /\ pass'.current = pass.current
    /\ Alike(pass'.obj, pass.obj)
    /\ failures' \in 0 .. MaxFailures

\* Whatever a component returns, the pass moves.
LEMMA ReturnsMove ==
    ASSUME TypeOK, pass.at \in Stages
    PROVE  /\ \A stage \in Stages \cup {"save"}, patch \in Patches :
                GoOn(stage, patch) => Moved(stage)
           /\ \A message \in Messages, patch \in Patches, requeue \in BOOLEAN :
                Fail(message, patch, requeue) => Moved("save")
           /\ CallFails => Moved("save")
<1>1. /\ pass \in R!Passes(Objects, Patches, Stages) /\ pass # R!Idle
      /\ pass.obj \in Objects \ {Absent} /\ failures \in 0 .. MaxFailures
  BY Running DEF TypeOK
<1>2. failures < MaxFailures /\ failures' = failures + 1 => failures' \in 0 .. MaxFailures
  BY <1>1, BoundsType
<1>3. ASSUME NEW stage \in Stages \cup {"save"}, NEW patch \in Patches, GoOn(stage, patch)
      PROVE  Moved(stage)
  <2>1. /\ pass'.at = stage /\ pass'.current = pass.current
        /\ pass'.obj = Apply(patch, pass.obj) /\ failures' = failures
    BY <1>1, <1>3 DEF GoOn, R!Return, R!Passes
  <2>2. pass' # R!Idle
    BY <2>1 DEF R!Idle, Stages
  <2>3. pass' \in R!Passes(Objects, Patches, Stages)
    BY <1>1, <1>3, Modifiers, R!ReturnTypes DEF GoOn
  <2>4. QED
    BY <1>1, <2>1, <2>2, <2>3, ApplyType DEF Moved
<1>4. ASSUME NEW message \in Messages, NEW patch \in Patches, NEW requeue \in BOOLEAN,
             R!ReturnError(message, patch, requeue), failures' \in 0 .. MaxFailures
      PROVE  Moved("save")
  <2>1. /\ pass'.at = "save" /\ pass'.current = pass.current
        /\ pass'.obj = Failed(Apply(patch, pass.obj), message)
    BY <1>1, <1>4 DEF R!ReturnError, R!Passes
  <2>2. pass' # R!Idle
    BY <2>1 DEF R!Idle
  <2>3. pass' \in R!Passes(Objects, Patches, Stages)
    BY <1>1, <1>4, Modifiers, R!ErrorTypes
  <2>4. Alike(pass'.obj, pass.obj)
    BY <1>1, <2>1, ApplyType, FailedType DEF Alike
  <2>5. QED
    BY <1>4, <2>1, <2>2, <2>3, <2>4 DEF Moved
<1>5. QED
  BY <1>1, <1>2, <1>3, <1>4, PatchTypes DEF Fail, CallFails

\* The stage tells the controller.
LEMMA StageKind ==
    ASSUME TypeInv
    PROVE  /\ pass.at \in {"user", "login"} => kind = "PostgresUser"
           /\ pass.at = "row" => kind = "DjangoUser"
           /\ pass.at \in {"tenant", "push", "destroy", "unsecret", "release"} => IsTenant
           /\ pass.at \in {"account", "key"} => kind = "GCPServiceAccount"
           /\ pass.at = "secret" => kind # "GCPServiceAccount"
BY KindsType DEF TypeInv, TypeOK, OwnStage, StagesOf, AllKinds, IsTenant

\* The stages of each controller, one by one.
LEMMA OwnStages ==
    /\ kind = "PostgresUser" => {"user", "login"} \subseteq StagesOf[kind]
    /\ kind = "DjangoUser" => "row" \in StagesOf[kind]
    /\ IsTenant => {"tenant", "push", "destroy", "unsecret", "release"} \subseteq StagesOf[kind]
    /\ kind = "GCPServiceAccount" => "key" \in StagesOf[kind]
    /\ kind \in AllKinds => StagesOf[kind] \subseteq Stages
BY DEF StagesOf, IsTenant, AllKinds, Stages

\* A component that keeps to the copy of the pass.  The steps of taking a tenant down
\* follow each other.
Stepped ==
    /\ UNCHANGED <<top, view>>
    /\ \E stage \in (StagesOf[kind] \cup {"save"}) \ {"push", "destroy"} :
          /\ Moved(stage)
          /\ stage = "unsecret" => pass.at = "destroy" /\ account' = NoAccount
          /\ stage = "release" => pass.at = "unsecret" /\ account' = account

\* All components do, but for the tenant's, which read the object again or write it.
LEMMA ComponentsStep ==
    ASSUME TypeInv, Components
    PROVE  Stepped \/ Tenant \/ (pass.current /\ Release)
<1>1. TypeOK /\ pass.at \in Stages
  BY DEF TypeInv, Components, Secret, DjangoSecret, User, Login, Row, Tenant, Push, Destroy,
         Unsecret, Release, ServiceAccount, Key, Stages
<1>2. ASSUME NEW stage \in StagesOf[kind] \cup {"save"}, NEW patch \in Patches,
             GoOn(stage, patch), UNCHANGED <<top, view>>,
             stage \notin {"push", "destroy", "unsecret", "release"}
      PROVE  Stepped
  <2>1. stage \in Stages \cup {"save"}
    BY <1>1, KindsType, OwnStages DEF TypeOK
  <2>2. Moved(stage)
    BY <1>1, <1>2, <2>1, ReturnsMove
  <2>3. QED
    BY <1>2, <2>2 DEF Stepped
<1>3. ASSUME Moved("save"), UNCHANGED <<top, view>>
      PROVE  Stepped
  BY <1>3 DEF Stepped
<1>4. ASSUME \/ CallFails
             \/ \E message \in Messages, patch \in Patches, requeue \in BOOLEAN :
                   Fail(message, patch, requeue)
      PROVE  Moved("save")
  BY <1>1, <1>4, ReturnsMove
<1> USE PatchTypes
<1>5. CASE Secret
  <2>1. UNCHANGED <<top, view>>
    BY <1>5 DEF Secret
  <2>2. CASE \/ kind = "PostgresUser" /\ GoOn("user", Recorded)
             \/ IsTenant /\ GoOn("tenant", Recorded)
    BY <1>2, <2>1, <2>2, OwnStages
  <2>3. CASE Fail("conflict", Recorded, TRUE) \/ Fail("conflict", NoPatch, FALSE)
    BY <1>3, <1>4, <2>1, <2>3
  <2>4. QED
    BY <1>5, <2>2, <2>3 DEF Secret, IsTenant
<1>6. CASE DjangoSecret
  BY <1>2, <1>6, OwnStages DEF DjangoSecret
<1>7. CASE User
  <2>1. kind = "PostgresUser" /\ UNCHANGED <<top, view>>
    BY <1>7, StageKind DEF User
  <2>2. CASE GoOn("login", NoPatch)
    BY <1>2, <2>1, <2>2, OwnStages
  <2>3. CASE Fail("no secret", NoPatch, FALSE) \/ CallFails
    BY <1>3, <1>4, <2>1, <2>3
  <2>4. QED
    BY <1>7, <2>2, <2>3 DEF User
<1>8. CASE Login \/ Row \/ Push
  <2>1. UNCHANGED <<top, view>>
    BY <1>8 DEF Login, Row, Push
  <2>2. CASE GoOn("save", Ready)
    BY <1>2, <2>1, <2>2
  <2>3. CASE \/ CallFails
             \/ Fail("gone", NoPatch, FALSE) \/ Fail("no secret", NoPatch, FALSE)
             \/ Fail("no secret", NoPatch, TRUE)
    BY <1>3, <1>4, <2>1, <2>3
  <2>4. QED
    BY <1>8, <2>2, <2>3 DEF Login, Row, Push
<1>9. CASE Destroy
  <2>1. IsTenant /\ pass.at = "destroy" /\ UNCHANGED <<top, view>>
    BY <1>9, StageKind DEF Destroy
  <2>2. CASE account' = NoAccount /\ GoOn("unsecret", NoPatch)
    <3>1. Moved("unsecret")
      BY <1>1, <2>2, ReturnsMove DEF Stages
    <3>2. account' = NoAccount /\ "unsecret" \in StagesOf[kind]
      BY <2>1, <2>2, OwnStages
    <3>3. "unsecret" \in (StagesOf[kind] \cup {"save"}) \ {"push", "destroy"}
      BY <3>2
    <3>4. "unsecret" = "release" => account' = account
      OBVIOUS
    <3>5. QED
      BY <2>1, <3>1, <3>2, <3>3, <3>4, Zenon DEF Stepped
  <2>3. CASE CallFails
    BY <1>3, <1>4, <2>1, <2>3
  <2>4. QED
    BY <1>9, <2>2, <2>3 DEF Destroy
<1>10. CASE Unsecret
  <2>1. IsTenant /\ pass.at = "unsecret" /\ UNCHANGED <<top, view, account>>
    BY <1>10, StageKind DEF Unsecret
  <2>2. CASE GoOn("release", NoPatch)
    <3>1. Moved("release")
      BY <1>1, <2>2, ReturnsMove DEF Stages
    <3>2. QED
      BY <2>1, <3>1, OwnStages DEF Stepped
  <2>3. CASE Fail("gone", NoPatch, FALSE)
    BY <1>3, <1>4, <2>1, <2>3
  <2>4. QED
    BY <1>10, <2>2, <2>3 DEF Unsecret
<1>11. CASE Release
  <2>1. CASE Fail("conflict", NoPatch, FALSE) /\ UNCHANGED <<top, view>>
    BY <1>3, <1>4, <2>1
  <2>2. QED
    BY <1>11, <2>1 DEF Release
<1>12. CASE ServiceAccount
  <2>1. kind = "GCPServiceAccount" /\ UNCHANGED <<top, view>>
    BY <1>12, StageKind DEF ServiceAccount
  <2>2. CASE GoOn("key", Recorded)
    BY <1>2, <2>1, <2>2, OwnStages
  <2>3. CASE CallFails
    BY <1>3, <1>4, <2>1, <2>3
  <2>4. QED
    BY <1>12, <2>2, <2>3 DEF ServiceAccount
<1>13. CASE Key
  <2>1. UNCHANGED <<top, view>>
    BY <1>13 DEF Key
  <2>2. CASE GoOn("save", Ready)
    BY <1>2, <2>1, <2>2
  <2>3. CASE CallFails \/ Fail("conflict", NoPatch, FALSE) \/ Fail("full", NoPatch, FALSE)
    BY <1>3, <1>4, <2>1, <2>3
  <2>4. QED
    BY <1>13, <2>2, <2>3 DEF Key
<1>14. QED
  BY <1>5, <1>6, <1>7, <1>8, <1>9, <1>10, <1>11, <1>12, <1>13 DEF Components

\* What the components do to the secret: a password that is stored comes from nowhere,
\* and takes the place of one only where a DjangoUser does not see it.
LEMMA ComponentsSecret ==
    ASSUME TypeInv, Components
    PROVE  /\ secret' \in [stored : Passwords \cup {None}, cached : Passwords \cup {None},
                           current : BOOLEAN]
           /\ secret'.cached = secret.cached
           /\ \/ secret'.stored \in {secret.stored, None}
              \/ /\ secret.cached = None /\ secret'.stored \in Unused
                 /\ secret.stored = None \/ kind = "DjangoUser"
<1>1. secret \in [stored : Passwords \cup {None}, cached : Passwords \cup {None},
                  current : BOOLEAN]
  BY DEF TypeInv, TypeOK
<1>2. \/ secret' = secret \/ Stored(None)
      \/ \E p \in Unused : /\ Stored(p) /\ secret.cached = None
                           /\ secret.stored = None \/ kind = "DjangoUser"
  BY DEF Components, Secret, Generate, DjangoSecret, User, Login, Row, Tenant, Push, Destroy,
         Unsecret, Release, ServiceAccount, Key
<1>3. QED
  BY <1>1, <1>2, UnusedType DEF Stored

\* What the components do to the account: its password comes out of the cache, and a
\* tenant is made by a push and goes by a destroy.
LEMMA ComponentsAccount ==
    ASSUME TypeInv, Components
    PROVE  /\ account' \in Accounts /\ pool' \in SUBSET Passwords
           /\ \/ account' = account \/ kind = "GCPServiceAccount"
              \/ account'.password \in {None, secret.cached}
           /\ IsTenant => \/ account' = account
                          \/ pass.at = "push" /\ account'.there
                          \/ pass.at = "destroy" /\ account' = NoAccount
<1>1. /\ account \in Accounts /\ pool \in SUBSET Passwords
      /\ secret.cached \in Passwords \cup {None}
      /\ TypeOK
  BY DEF TypeInv, TypeOK
<1>2. NoAccount \in Accounts /\ NoAccount.password = None
  BY BoundsType DEF NoAccount, Accounts
<1>3. CASE UNCHANGED <<account, pool>>
  BY <1>1, <1>3
<1>4. CASE User /\ account' # account
  <2>1. account' = [NoAccount EXCEPT !.there = TRUE, !.password = secret.cached]
    BY <1>4 DEF User
  <2>2. account' \in Accounts /\ account'.password = secret.cached
    BY <1>1, <1>2, <2>1 DEF NoAccount, Accounts
  <2>3. kind = "PostgresUser" /\ UNCHANGED pool
    BY <1>4, StageKind DEF User
  <2>4. QED
    BY <1>1, <2>2, <2>3 DEF IsTenant
<1>5. CASE Login
  <2>1. \/ account' = account
        \/ account' = [account EXCEPT !.password = secret.cached]
    BY <1>5 DEF Login
  <2>2. account' \in Accounts /\ (account' = account \/ account'.password = secret.cached)
    BY <1>1, <2>1 DEF Accounts
  <2>3. pool' \in SUBSET Passwords
    BY <1>1, <1>5 DEF Login
  <2>4. kind = "PostgresUser"
    BY <1>5, StageKind DEF Login
  <2>5. QED
    BY <2>2, <2>3, <2>4 DEF IsTenant
<1>6. CASE (Row \/ Push) /\ account' # account
  <2>1. pass.obj.spec \in 0 .. MaxSpecs
    BY <1>1, <1>6, Running, BoundsType DEF Row, Push, Stages
  <2>2. account' = [NoAccount EXCEPT !.there = TRUE, !.password = secret.cached,
                                     !.spec = pass.obj.spec]
    BY <1>6 DEF Row, Push
  <2>3. account' \in Accounts /\ account'.password = secret.cached /\ account'.there
    BY <1>1, <1>2, <2>1, <2>2 DEF NoAccount, Accounts
  <2>4. UNCHANGED pool /\ (kind = "DjangoUser" \/ pass.at = "push")
    BY <1>6, StageKind DEF Row, Push
  <2>5. QED
    BY <1>1, <2>3, <2>4 DEF IsTenant
<1>7. CASE Destroy
  BY <1>1, <1>2, <1>7 DEF Destroy
<1>8. CASE ServiceAccount
  <2>1. account' = account \/ account' = [account EXCEPT !.there = TRUE]
    BY <1>8 DEF ServiceAccount
  <2>2. account' \in Accounts
    BY <1>1, <2>1 DEF Accounts
  <2>3. kind = "GCPServiceAccount" /\ UNCHANGED pool
    BY <1>8, StageKind DEF ServiceAccount
  <2>4. QED
    BY <1>1, <2>2, <2>3 DEF IsTenant
<1>9. CASE Key
  <2>1. \/ account' = account
        \/ \E k \in Unused : account' = [account EXCEPT !.keys = @ \cup {k}]
    BY <1>9 DEF Key
  <2>2. account' \in Accounts
    BY <1>1, <2>1, UnusedType DEF Accounts
  <2>3. kind = "GCPServiceAccount" /\ UNCHANGED pool
    BY <1>9, StageKind DEF Key
  <2>4. QED
    BY <1>1, <2>2, <2>3 DEF IsTenant
<1>10. QED
  BY <1>3, <1>4, <1>5, <1>6, <1>7, <1>8, <1>9
     DEF Components, Secret, DjangoSecret, User, Row, Tenant, Push, Unsecret, Release

\* The tenant's component reads the object again, from the cache, and goes where the
\* object it finds belongs.
Reread ==
    /\ UNCHANGED <<top, view, failures>> /\ view.obj # Absent
    /\ pass' \in R!Passes(Objects, Patches, Stages) /\ pass' # R!Idle
    /\ Alike(pass'.obj, view.obj) /\ (pass'.current => view.current)
    /\ \/ pass'.at = "save"
       \/ pass'.at = "push" /\ view.obj.life = "live" /\ view.obj.fin
       \/ /\ pass'.at \in {"destroy", "release"}
          /\ view.obj.life = "deleting" /\ view.obj.fin
          /\ pass'.at = "release" => ~EnableFinalizers

\* The finalizer is written by a pass that has missed no write; the last one takes a
\* deleted object with it.
Wrote(fin, stage) ==
    /\ top = view.obj /\ top # Absent
    /\ Types' /\ view'.obj = view.obj /\ ~view'.current
    /\ pass' # R!Idle /\ pass'.at = stage /\ ~pass'.current
    /\ pass'.obj.life = top.life /\ pass'.obj.fin = fin
    /\ IF fin \/ top.life = "live"
       THEN top' # Absent /\ top'.life = top.life /\ top'.fin = fin
       ELSE top' = Absent
    /\ failures' \in 0 .. MaxFailures

\* What a write of the finalizer does, to the object and to the copy of the pass.
LEMMA WriteEffect ==
    ASSUME TypeInv, pass.at \in Stages, NEW read \in Objects \ {Absent}, NEW fin \in BOOLEAN,
           NEW stage \in Stages \cup {"save"}, top = view.obj, top # Absent,
           Alike(read, top), WriteFinalizer(read, fin, stage), work' = work
    PROVE  Wrote(fin, stage)
<1> DEFINE o == [read EXCEPT !.fin = fin]
<1>1. /\ pass \in R!Passes(Objects, Patches, Stages) /\ pass # R!Idle
      /\ top \in Objects \ {Absent} /\ failures \in 0 .. MaxFailures
      /\ view \in [obj : Objects, current : BOOLEAN]
      /\ work \in [queued : BOOLEAN, timer : BOOLEAN]
  BY Running DEF TypeInv, TypeOK, R!TypesOK
<1>2. /\ o \in Objects \ {Absent} /\ o.life = top.life /\ o.fin = fin
      /\ o.life \in {"live", "deleting"}
  BY Present DEF Objects, Absent, Alike
<1>3. /\ [o EXCEPT !.status = top.status] \in Objects \ {Absent}
      /\ [o EXCEPT !.status = top.status].life = o.life
      /\ [o EXCEPT !.status = top.status].fin = o.fin
  <2>1. [o EXCEPT !.status = top.status] \in Objects \ {Absent}
    BY <1>1, <1>2, Modifiers DEF R!ModifiersOK
  <2>2. QED
    BY <1>1, <1>2, <2>1 DEF Objects, Absent
<1>4. /\ top' = IF ~fin /\ o.life = "deleting" THEN Absent
                ELSE [o EXCEPT !.status = top.status]
      /\ view' = [view EXCEPT !.current = FALSE]
      /\ pass' = [pass EXCEPT !.at = stage, !.obj = o, !.current = FALSE]
      /\ failures' = failures
  BY DEF WriteFinalizer
<1> HIDE DEF o
<1>5. /\ view'.obj = view.obj /\ ~view'.current
      /\ view' \in [obj : Objects, current : BOOLEAN]
  BY <1>1, <1>4
<1>6. /\ pass'.at = stage /\ ~pass'.current /\ pass'.obj = o
      /\ pass' \in R!Passes(Objects, Patches, Stages)
  BY <1>1, <1>2, <1>4 DEF R!Passes
<1>7. pass' # R!Idle
  BY <1>6 DEF R!Idle, Stages
<1>8. IF fin \/ top.life = "live"
      THEN top' # Absent /\ top'.life = top.life /\ top'.fin = fin
      ELSE top' = Absent
  BY <1>2, <1>3, <1>4
<1>9. top' \in Objects
  BY <1>3, <1>4, Present
<1>10. Types'
  BY <1>1, <1>5, <1>6, <1>9 DEF Types, R!TypesOK
<1>11. QED
  BY <1>1, <1>2, <1>4, <1>5, <1>6, <1>7, <1>8, <1>10 DEF Wrote

\* What the tenant's component does.
LEMMA TenantDoes ==
    ASSUME TypeInv, Tenant, work' = work
    PROVE  \/ Moved("save") /\ UNCHANGED <<top, view>>
           \/ Reread
           \/ top.life = "live" /\ Wrote(TRUE, "push")
<1>1. /\ TypeOK /\ pass.at \in Stages /\ view.obj \in Objects /\ view.current \in BOOLEAN
      /\ pass \in R!Passes(Objects, Patches, Stages) /\ pass # R!Idle
  BY Running DEF TypeInv, TypeOK, R!TypesOK, Tenant, Stages
<1>2. ASSUME view.obj # Absent, UNCHANGED <<top, view, failures>>,
             NEW stage \in {"push", "destroy", "release", "save"},
             NEW o \in Objects \ {Absent}, Alike(o, view.obj), NEW current \in BOOLEAN,
             current => view.current,
             pass' = [pass EXCEPT !.at = stage, !.obj = o, !.current = current],
             \/ stage = "save"
             \/ stage = "push" /\ view.obj.life = "live" /\ view.obj.fin
             \/ /\ stage \in {"destroy", "release"}
                /\ view.obj.life = "deleting" /\ view.obj.fin
                /\ stage = "release" => ~EnableFinalizers
      PROVE  Reread
  <2>1. /\ pass' \in R!Passes(Objects, Patches, Stages)
        /\ pass'.at = stage /\ pass'.obj = o /\ pass'.current = current
    BY <1>1, <1>2 DEF R!Passes, Stages
  <2>2. pass' # R!Idle
    BY <2>1 DEF R!Idle
  <2>3. QED
    BY <1>2, <2>1, <2>2 DEF Reread
<1>3. Alike(view.obj, view.obj)
  BY DEF Alike
<1>4. CASE view.obj = Absent
  BY <1>1, <1>4, ReturnsMove, PatchTypes DEF Tenant
<1>5. CASE view.obj # Absent /\ view.obj.life = "live" /\ view.obj.fin
  BY <1>1, <1>2, <1>3, <1>5 DEF Tenant
<1>6. CASE view.obj # Absent /\ view.obj.life = "live" /\ ~view.obj.fin
  <2>1. CASE view.current /\ WriteFinalizer(view.obj, TRUE, "push")
    BY <1>1, <1>3, <1>6, <2>1, WriteEffect DEF TypeInv, R!CacheOK, Stages
  <2>2. CASE /\ UNCHANGED <<top, view, failures>>
             /\ pass' = [pass EXCEPT !.at = "save", !.current = FALSE,
                                     !.obj = Failed(view.obj, "conflict")]
    <3>1. /\ Failed(view.obj, "conflict") \in Objects \ {Absent}
          /\ Alike(Failed(view.obj, "conflict"), view.obj)
      BY <1>1, <1>6, FailedType, PatchTypes
    <3>2. pass' = [pass EXCEPT !.at = "save", !.obj = Failed(view.obj, "conflict"),
                               !.current = FALSE]
      BY <1>1, <2>2 DEF R!Passes
    <3>3. QED
      BY <1>2, <1>6, <2>2, <3>1, <3>2
  <2>3. QED
    BY <1>6, <2>1, <2>2 DEF Tenant
<1>7. CASE view.obj # Absent /\ view.obj.life = "deleting"
  BY <1>1, <1>2, <1>3, <1>7 DEF Tenant
<1>8. QED
  BY <1>1, <1>4, <1>5, <1>6, <1>7, Present

\* What any component does.
LEMMA ComponentsDo ==
    ASSUME TypeInv, Components
    PROVE  \/ Stepped
           \/ pass.at = "tenant" /\ UNCHANGED account
              /\ (Reread \/ (top.life = "live" /\ Wrote(TRUE, "push")))
           \/ /\ pass.at = "release" /\ Alike(pass.obj, top) /\ UNCHANGED account
              /\ Wrote(FALSE, "save")
<1>0. work' = work /\ TypeOK
  BY DEF Components, TypeInv
<1>1. CASE Stepped
  BY <1>1
<1>2. CASE Tenant
  <2>1. pass.at = "tenant" /\ UNCHANGED account
    BY <1>2 DEF Tenant
  <2>2. CASE Moved("save") /\ UNCHANGED <<top, view>>
    <3>1. Stepped
      BY <2>2 DEF Stepped
    <3>2. QED
      BY <3>1
  <2>3. QED
    BY <1>0, <1>2, <2>1, <2>2, TenantDoes
<1>3. CASE pass.current /\ Release
  <2>1. pass.at = "release" /\ UNCHANGED account /\ WriteFinalizer(pass.obj, FALSE, "save")
    BY <1>3 DEF Release
  <2>2. pass.at \in Stages
    BY <2>1 DEF Stages
  <2>3. pass # R!Idle /\ pass.obj \in Objects \ {Absent}
    BY <1>0, <2>2, Running
  <2>4. top = view.obj /\ top # Absent /\ Alike(pass.obj, top)
    BY <1>3, <2>3 DEF TypeInv, Current, R!CacheOK
  <2>5. QED
    BY <1>0, <2>1, <2>2, <2>3, <2>4, WriteEffect
<1>4. QED
  BY <1>1, <1>2, <1>3, ComponentsStep

\* The components keep the types, and what a pass under way knows of the object.
LEMMA ComponentsType == TypeInv /\ Components => TypeInv'
<1> SUFFICES ASSUME TypeInv, Components PROVE TypeInv'
  OBVIOUS
<1>1. /\ secret' \in [stored : Passwords \cup {None}, cached : Passwords \cup {None},
                      current : BOOLEAN]
      /\ account' \in Accounts /\ pool' \in SUBSET Passwords
  BY ComponentsSecret, ComponentsAccount
<1>2. UNCHANGED <<kind, work, unseen, touches>>
  BY DEF Components
<1>3. /\ kind \in AllKinds /\ failures \in 0 .. MaxFailures
      /\ top \in Objects /\ view \in [obj : Objects, current : BOOLEAN]
      /\ work \in [queued : BOOLEAN, timer : BOOLEAN]
  BY KindsType DEF TypeInv, TypeOK, R!TypesOK
<1>4. ASSUME Types', failures' \in 0 .. MaxFailures, R!CacheOK', Current',
             pass'.at \in StagesOf[kind] \cup {"save"}
      PROVE  TypeInv'
  BY <1>1, <1>2, <1>4 DEF TypeInv, TypeOK, Types, Stages, OwnStage
<1>5. \* The object and its cache are left alone.
      ASSUME UNCHANGED <<top, view>>, pass' \in R!Passes(Objects, Patches, Stages)
      PROVE  Types' /\ R!CacheOK'
  BY <1>2, <1>3, <1>5 DEF Types, R!TypesOK, TypeInv, R!CacheOK
<1>6. CASE Stepped
  <2>1. PICK stage \in StagesOf[kind] \cup {"save"} : Moved(stage)
    BY <1>6 DEF Stepped
  <2>2. UNCHANGED <<top, view>>
    BY <1>6 DEF Stepped
  <2>3. pass # R!Idle
    <3>1. pass.at \in Stages
      BY DEF Components, Secret, DjangoSecret, User, Login, Row, Tenant, Push, Destroy,
             Unsecret, Release, ServiceAccount, Key, Stages
    <3>2. QED
      BY <3>1 DEF R!Idle, Stages
  <2>4. Current'
    BY <2>1, <2>2, <2>3 DEF Moved, TypeInv, Current, Alike
  <2>5. QED
    BY <1>4, <1>5, <2>1, <2>2, <2>4 DEF Moved
<1>7. CASE pass.at = "tenant" /\ Reread
  <2>1. pass'.at \in StagesOf[kind] \cup {"save"}
    BY <1>7, StageKind, OwnStages DEF Reread
  <2>2. Current'
    BY <1>7 DEF Reread, Current, Alike
  <2>3. QED
    BY <1>3, <1>4, <1>5, <1>7, <2>1, <2>2 DEF Reread
<1>8. CASE \/ pass.at = "tenant" /\ Wrote(TRUE, "push")
           \/ Wrote(FALSE, "save")
  <2>1. pass'.at \in StagesOf[kind] \cup {"save"}
    BY <1>8, StageKind, OwnStages DEF Wrote
  <2>2. Types' /\ failures' \in 0 .. MaxFailures /\ ~view'.current /\ ~pass'.current
    BY <1>8 DEF Wrote
  <2>3. R!CacheOK' /\ Current'
    BY <2>2 DEF R!CacheOK, Current
  <2>4. QED
    BY <1>4, <2>1, <2>2, <2>3
<1>9. QED
  BY <1>6, <1>7, <1>8, ComponentsDo

\* A pass that begins, or writes the status, keeps the types.
LEMMA PassType == TypeInv /\ (Begin \/ Save) => TypeInv'
<1> SUFFICES ASSUME TypeInv, Begin \/ Save PROVE TypeInv'
  OBVIOUS
<1>1. ASSUME Types', R!CacheOK', Current', OwnStage'
      PROVE  TypeInv'
  BY <1>1 DEF Begin, Save, worldVars, boundVars, TypeInv, TypeOK, Types, Stages
<1>2. kind' = kind /\ kind \in AllKinds /\ R!TypesOK(Objects, Patches, Stages) /\ R!CacheOK
  BY KindsType DEF Begin, Save, TypeInv, TypeOK, Stages
<1>3. CASE Begin
  <2>1. PICK stage \in {"account", "secret"} :
          R!Begin(stage) /\ (stage = "account" <=> kind = "GCPServiceAccount")
    BY <1>3 DEF Begin
  <2>2. stage \in StagesOf[kind] /\ stage \in Stages \cup {"save"}
    BY <1>2, <2>1 DEF StagesOf, AllKinds, Stages
  <2>3. Types'
    BY <1>2, <2>1, <2>2, Modifiers, R!BeginTypes DEF Types
  <2>4. R!CacheOK' /\ Current' /\ OwnStage'
    BY <1>2, <2>1, <2>2
       DEF R!Begin, R!Fresh, R!Idle, R!CacheOK, Current, Alike, OwnStage
  <2>5. QED
    BY <1>1, <2>3, <2>4
<1>4. CASE Save
  <2>1. R!Save(FALSE) /\ FALSE \in BOOLEAN
    BY <1>4 DEF Save
  <2>2. Types'
    BY <1>2, <2>1, Modifiers, R!SaveTypes DEF Types
  <2>3. /\ pass # R!Idle /\ (pass' = R!Idle \/ pass'.at = "replay")
        /\ view'.obj = view.obj /\ (view'.current => view.current /\ top' = top)
    BY <1>2, <2>1, Modifiers, R!SaveEffect
  <2>4. \/ pass' = R!Idle
        \/ /\ pass'.obj = pass.obj /\ pass'.current = pass.current
           /\ UNCHANGED <<top, view>>
    BY <1>2, <2>1, R!SaveStatus
  <2>5. R!CacheOK' /\ Current' /\ OwnStage'
    BY <1>2, <2>3, <2>4 DEF TypeInv, R!CacheOK, R!Idle, Current, Alike, OwnStage
  <2>6. QED
    BY <1>1, <2>2, <2>5
<1>5. QED
  BY <1>3, <1>4

\* Who writes the object from outside gives it a type, and makes every copy an old one.
LEMMA OutsideType ==
    ASSUME TypeInv, UNCHANGED <<kind, work>>, NEW o \in Objects, R!Write(o)
    PROVE  /\ Types' /\ R!CacheOK' /\ Current' /\ OwnStage'
           /\ pass' = R!Idle <=> pass = R!Idle
           /\ pass'.at = pass.at /\ (pass # R!Idle => pass'.obj = pass.obj)
           /\ top' = o /\ view'.obj = view.obj
<1>1. /\ R!TypesOK(Objects, Patches, Stages)
      /\ pass \in R!Passes(Objects, Patches, Stages) /\ OwnStage
  BY DEF TypeInv, TypeOK, R!TypesOK, Stages
<1>2. Types' /\ R!CacheOK'
  BY <1>1, R!WriteTypes DEF Types, R!TypesOK
<1>3. top' = o /\ view'.obj = view.obj
  BY <1>1 DEF R!Write, R!TypesOK
<1>4. CASE pass.at = "idle"
  <2>1. pass = R!Idle
    BY <1>1, <1>4 DEF R!Passes, Stages
  <2>2. pass' = pass
    BY <1>4 DEF R!Write
  <2>3. QED
    BY <1>1, <1>2, <1>3, <2>1, <2>2 DEF Current, OwnStage
<1>5. CASE pass.at # "idle"
  <2>1. pass # R!Idle
    BY <1>5 DEF R!Idle
  <2>2. /\ pass'.at = pass.at /\ pass'.obj = pass.obj /\ ~pass'.current
    BY <1>1, <1>5, <2>1 DEF R!Write, R!Passes
  <2>3. pass' # R!Idle
    BY <1>5, <2>2 DEF R!Idle
  <2>4. QED
    BY <1>1, <1>2, <1>3, <2>1, <2>2, <2>3 DEF Current, OwnStage
<1>6. QED
  BY <1>4, <1>5

\* So does the world around.
LEMMA WorldType ==
    TypeInv /\ (Sync \/ SyncSecret \/ Crash \/ DeleteObject \/ EditObject \/ DeleteSecret
                  \/ Drift)
        => TypeInv'
<1> SUFFICES ASSUME TypeInv,
                    \/ Sync \/ SyncSecret \/ Crash \/ DeleteObject \/ EditObject
                    \/ DeleteSecret \/ Drift
             PROVE  TypeInv'
  OBVIOUS
<1>0. /\ TypeOK /\ R!TypesOK(Objects, Patches, Stages) /\ kind' = kind /\ OwnStage
      /\ touches \in 0 .. MaxTouches /\ MaxTouches \in Nat
      /\ failures \in 0 .. MaxFailures /\ MaxFailures \in Nat
      /\ account \in Accounts /\ NoAccount \in Accounts /\ pool \in SUBSET Passwords
      /\ secret \in [stored : Passwords \cup {None}, cached : Passwords \cup {None},
                     current : BOOLEAN]
  BY BoundsType
     DEF TypeInv, TypeOK, Stages, Sync, SyncSecret, Crash, DeleteObject, EditObject,
         DeleteSecret, Drift, NoAccount, Accounts
<1>1. Touch => touches' \in 0 .. MaxTouches
  BY <1>0 DEF Touch
<1>2. ASSUME Types', R!CacheOK', Current', OwnStage',
             touches' \in 0 .. MaxTouches, failures' \in 0 .. MaxFailures,
             account' \in Accounts, pool' \in SUBSET Passwords, unseen' \in BOOLEAN,
             secret' \in [stored : Passwords \cup {None}, cached : Passwords \cup {None},
                          current : BOOLEAN]
      PROVE  TypeInv'
  BY <1>0, <1>2 DEF TypeInv, TypeOK, Types, Stages
<1>3. UNCHANGED <<top, view, pass>> /\ work' \in [queued : BOOLEAN, timer : BOOLEAN]
        => Types' /\ R!CacheOK' /\ Current' /\ OwnStage'
  BY <1>0 DEF TypeInv, Types, R!TypesOK, R!CacheOK, Current, OwnStage
<1>4. /\ [secret EXCEPT !.cached = secret.stored, !.current = TRUE] \in
            [stored : Passwords \cup {None}, cached : Passwords \cup {None},
             current : BOOLEAN]
      /\ [secret EXCEPT !.stored = None, !.current = FALSE] \in
            [stored : Passwords \cup {None}, cached : Passwords \cup {None},
             current : BOOLEAN]
  BY <1>0
<1>5. /\ work \in [queued : BOOLEAN, timer : BOOLEAN]
      /\ R!Event => work' \in [queued : BOOLEAN, timer : BOOLEAN]
  BY <1>0 DEF R!TypesOK, R!Event
<1>6. CASE Sync
  <2>1. Types' /\ R!CacheOK'
    BY <1>0, <1>6, R!SyncTypes DEF Sync, Types
  <2>2. pass' = pass /\ (pass # R!Idle => ~pass.current)
    BY <1>6 DEF Sync, R!Sync, TypeInv, Current
  <2>3. Current' /\ OwnStage'
    BY <1>0, <2>2 DEF Current, OwnStage
  <2>4. QED
    BY <1>0, <1>2, <1>6, <2>1, <2>3 DEF Sync, worldVars, boundVars, TypeOK
<1>7. CASE SyncSecret
  BY <1>0, <1>2, <1>3, <1>4, <1>5, <1>7 DEF SyncSecret, boundVars, TypeOK
<1>8. CASE Crash
  <2>1. Types' /\ R!CacheOK'
    BY <1>0, <1>8, R!RestartTypes DEF Crash, Types
  <2>2. Current' /\ OwnStage'
    BY <1>0, <1>8 DEF Crash, R!Restart, R!Idle, Current, OwnStage
  <2>3. failures' \in 0 .. MaxFailures
    BY <1>0, <1>8 DEF Crash
  <2>4. QED
    BY <1>0, <1>2, <1>4, <1>8, <2>1, <2>2, <2>3 DEF Crash, TypeOK
<1>9. CASE DeleteObject
  <2>1. PICK o \in Objects : R!Write(o)
    <3>1. (IF top.fin THEN [top EXCEPT !.life = "deleting"] ELSE Absent) \in Objects
      BY <1>0, <1>9, Present DEF DeleteObject, R!TypesOK, Objects, Absent
    <3>2. QED
      BY <1>9, <3>1 DEF DeleteObject
  <2>2. Types' /\ R!CacheOK' /\ Current' /\ OwnStage'
    BY <1>0, <1>9, <2>1, OutsideType DEF DeleteObject
  <2>3. QED
    BY <1>0, <1>2, <1>9, <2>2 DEF DeleteObject, worldVars, boundVars, TypeOK
<1>10. CASE EditObject
  <2>1. PICK o \in Objects : R!Write(o)
    <3>1. \A v \in 1 .. MaxSpecs : [top EXCEPT !.spec = v] \in Objects
      BY <1>0, <1>10 DEF EditObject, R!TypesOK, Objects, Absent
    <3>2. QED
      BY <1>10, <3>1 DEF EditObject
  <2>2. Types' /\ R!CacheOK' /\ Current' /\ OwnStage'
    BY <1>0, <1>10, <2>1, OutsideType DEF EditObject
  <2>3. QED
    BY <1>0, <1>1, <1>2, <1>10, <2>2 DEF EditObject, worldVars, TypeOK
<1>11. CASE DeleteSecret
  BY <1>0, <1>1, <1>2, <1>3, <1>4, <1>5, <1>11 DEF DeleteSecret, Stored, TypeOK
<1>12. CASE Drift
  <2>1. account' \in Accounts
    <3>1. [account EXCEPT !.password = None] \in Accounts
      BY <1>0 DEF Accounts
    <3>2. QED
      BY <1>0, <1>12, <3>1 DEF Drift
  <2>2. QED
    BY <1>0, <1>1, <1>2, <1>3, <1>5, <1>12, <2>1 DEF Drift, TypeOK
<1>13. QED
  BY <1>6, <1>7, <1>8, <1>9, <1>10, <1>11, <1>12

\* TypeInv is inductive.
LEMMA NextType == TypeInv /\ [Next]_vars => TypeInv'
<1>1. TypeInv /\ UNCHANGED vars => TypeInv'
  BY DEF vars, TypeInv, TypeOK, R!TypesOK, R!CacheOK, Current, OwnStage
<1>2. QED
  BY <1>1, ComponentsType, PassType, WorldType DEF Next

\* TypeInv always holds.
LEMMA TypeAlways == Spec => []TypeInv
<1>1. Init => TypeInv
  BY InitType
<1>2. QED
  BY <1>1, NextType, PTL DEF Spec

\* In every reachable state the variables have their types, for each of the four
\* controllers and whatever fails, is changed from outside or restarts.
THEOREM CredentialsTypeCorrect == Spec => []TypeOK
<1>1. TypeInv => TypeOK
  BY DEF TypeInv
<1>2. QED
  BY <1>1, TypeAlways, PTL

-----------------------------------------------------------------------------
(* The password is kept.                                                    *)

\* SeenInUse is inductive.
LEMMA SeenNext == TypeInv /\ SeenInUse /\ [Next]_vars => SeenInUse'
<1> SUFFICES ASSUME TypeInv, SeenInUse, [Next]_vars PROVE SeenInUse'
  OBVIOUS
<1>1. /\ secret \in [stored : Passwords \cup {None}, cached : Passwords \cup {None},
                     current : BOOLEAN]
      /\ account \in Accounts
  BY DEF TypeInv, TypeOK
<1>2. CASE UNCHANGED <<kind, secret, account>>
  BY <1>2 DEF SeenInUse, InUse
<1>3. CASE Components
  <2>1. kind' = kind /\ secret'.cached = secret.cached
    BY <1>3, ComponentsSecret DEF Components
  <2>2. SUFFICES ASSUME kind # "GCPServiceAccount", account'.there,
                        account'.password = secret'.stored, secret'.stored # None
                 PROVE  secret.cached = secret'.stored
    BY <2>1 DEF SeenInUse, InUse
  <2>3. account' = account \/ account'.password = secret.cached
    BY <1>3, <2>2, ComponentsAccount
  <2>4. secret'.stored = secret.stored \/ secret'.stored # account.password
    BY <1>3, <2>2, ComponentsSecret, UnusedType
  <2>5. QED
    BY <2>2, <2>3, <2>4 DEF SeenInUse, InUse
<1>4. CASE SyncSecret \/ Crash
  BY <1>1, <1>4 DEF SyncSecret, Crash, SeenInUse
<1>5. CASE DeleteSecret
  <2>1. secret'.stored = None
    BY <1>1, <1>5 DEF DeleteSecret, Stored
  <2>2. QED
    BY <1>5, <2>1 DEF DeleteSecret, SeenInUse, InUse
<1>6. CASE Drift
  <2>1. account'.password = None
    BY <1>1, <1>6 DEF Drift, NoAccount, Accounts
  <2>2. QED
    BY <1>6, <2>1 DEF Drift, SeenInUse, InUse
<1>7. QED
  BY <1>2, <1>3, <1>4, <1>5, <1>6
     DEF Next, Begin, Save, Sync, DeleteObject, EditObject, worldVars, vars

\* No step puts another password in the place of one that opens the account.
LEMMA KeptStep ==
    ASSUME TypeInv, SeenInUse, [Next]_vars, InUse(secret.stored)
    PROVE  secret'.stored \in {secret.stored, None}
<1>1. secret \in [stored : Passwords \cup {None}, cached : Passwords \cup {None},
                  current : BOOLEAN]
  BY DEF TypeInv, TypeOK
<1>2. CASE Components
  <2>1. SUFFICES ASSUME secret.cached = None,
                        secret.stored = None \/ kind = "DjangoUser"
                 PROVE  FALSE
    BY <1>2, ComponentsSecret
  <2>2. QED
    BY <2>1 DEF SeenInUse, InUse
<1>3. CASE SyncSecret \/ Crash \/ DeleteSecret
  BY <1>1, <1>3 DEF SyncSecret, Crash, DeleteSecret, Stored
<1>4. QED
  BY <1>2, <1>3
     DEF Next, Begin, Save, Sync, DeleteObject, EditObject, Drift, worldVars, vars

\* What opens an account is only replaced in the secret after somebody deleted it from
\* there, whatever the caches have missed, whatever fails and whenever the operator
\* restarts.
THEOREM PasswordKeptCorrect == Spec => PasswordKept
<1>1. Init => SeenInUse
  BY DEF Init, SeenInUse, InUse, NoAccount
<1>2. TypeInv /\ SeenInUse /\ [Next]_vars
        => [InUse(secret.stored) => secret'.stored \in {secret.stored, None}]_vars
  BY KeptStep
<1>3. QED
  BY <1>1, <1>2, SeenNext, TypeAlways, PTL DEF Spec, PasswordKept

-----------------------------------------------------------------------------
(* A tenant has an object that answers for it.                              *)

\* The object is there, live or not, and guarded as before.
Same(o, p) ==
    /\ p = Absent <=> o = Absent
    /\ o # Absent => p.life = o.life /\ p.fin = o.fin

\* What the steps that are no component's do to the object, the cache, the pass and the
\* account of a tenant.
LEMMA AsideDoes ==
    ASSUME TypeInv, [Next]_vars, ~Components
    PROVE  /\ kind' = kind /\ (IsTenant => account'.there = account.there)
           /\ \/ Same(top, top')
              \/ /\ top # Absent /\ top.life = "live"
                 /\ IF top.fin THEN top' # Absent /\ top'.life = "deleting" /\ top'.fin
                    ELSE top' = Absent
           /\ view'.obj = view.obj \/ (view'.obj = top /\ top' = top)
           /\ \/ pass' = R!Idle
              \/ /\ pass # R!Idle /\ pass'.obj = pass.obj
                 /\ pass'.at = pass.at \/ pass'.at = "replay"
              \/ pass'.obj = view.obj /\ top' = top /\ pass'.at \in {"account", "secret"}
<1>1. /\ R!TypesOK(Objects, Patches, Stages) /\ R!CacheOK /\ account \in Accounts
      /\ top \in Objects
  BY DEF TypeInv, TypeOK, Stages, R!TypesOK
<1>2. ASSUME UNCHANGED <<top, view, pass>> \/ (UNCHANGED <<top, pass>> /\ view'.obj = top)
      PROVE  /\ Same(top, top')
             /\ view'.obj = view.obj \/ (view'.obj = top /\ top' = top)
             /\ \/ pass' = R!Idle
                \/ pass # R!Idle /\ pass'.obj = pass.obj /\ pass'.at = pass.at
  BY <1>2 DEF Same
<1>3. CASE UNCHANGED vars \/ Sync \/ SyncSecret \/ DeleteSecret \/ Drift
  <2>1. UNCHANGED <<top, view, pass>> \/ (UNCHANGED <<top, pass>> /\ view'.obj = top)
    <3>1. CASE Sync
      BY <3>1 DEF Sync, R!Sync
    <3>2. CASE UNCHANGED vars \/ SyncSecret \/ DeleteSecret \/ Drift
      BY <3>2 DEF vars, SyncSecret, DeleteSecret, Drift
    <3>3. QED
      BY <1>3, <3>1, <3>2
  <2>2. kind' = kind /\ (IsTenant => account'.there = account.there)
    BY <1>1, <1>3
       DEF vars, Sync, worldVars, SyncSecret, DeleteSecret, Drift, IsTenant, Accounts
  <2>3. QED
    BY <1>2, <2>1, <2>2
<1>4. CASE Begin
  <2>1. UNCHANGED <<top, view, kind, account>>
    BY <1>4 DEF Begin, R!Begin, worldVars
  <2>2. \/ pass' = R!Idle
        \/ pass'.obj = view.obj /\ pass'.at \in {"account", "secret"}
    BY <1>4 DEF Begin, R!Begin, R!Fresh
  <2>3. QED
    BY <2>1, <2>2 DEF Same
<1>5. CASE Save
  <2>1. R!Save(FALSE) /\ FALSE \in BOOLEAN /\ UNCHANGED <<kind, account>>
    BY <1>5 DEF Save, worldVars
  <2>2. /\ pass # R!Idle /\ view'.obj = view.obj
        /\ pass' = R!Idle \/ pass'.at = "replay"
        /\ R!StatusWritten(top, top')
    BY <1>1, <2>1, Modifiers, R!SaveEffect
  <2>3. Same(top, top')
    BY <1>1, <2>2 DEF R!StatusWritten, Same, Objects
  <2>4. pass' = R!Idle \/ pass'.obj = pass.obj
    BY <1>1, <2>1, R!SaveStatus
  <2>5. QED
    BY <2>1, <2>2, <2>3, <2>4
<1>6. CASE Crash
  <2>1. UNCHANGED <<kind, account, top>> /\ pass' = R!Idle /\ view'.obj = top
    BY <1>6 DEF Crash, R!Restart
  <2>2. QED
    BY <2>1 DEF Same
<1>7. CASE DeleteObject \/ EditObject
  <2>1. UNCHANGED <<kind, work, account>> /\ top # Absent
    BY <1>7 DEF DeleteObject, EditObject, worldVars
  <2>2. PICK o \in Objects :
          /\ R!Write(o)
          /\ \/ Same(top, o)
             \/ /\ top.life = "live"
                /\ IF top.fin THEN o # Absent /\ o.life = "deleting" /\ o.fin ELSE o = Absent
    <3>1. CASE EditObject
      <4>1. \A v \in 1 .. MaxSpecs : [top EXCEPT !.spec = v] \in Objects \ {Absent}
        BY <1>1, <2>1 DEF Objects, Absent
      <4>2. \A v \in 1 .. MaxSpecs : Same(top, [top EXCEPT !.spec = v])
        BY <1>1, <2>1, <4>1 DEF Objects, Absent, Same
      <4>3. QED
        BY <3>1, <4>1, <4>2 DEF EditObject
    <3>2. CASE DeleteObject /\ top.fin
      <4>1. /\ [top EXCEPT !.life = "deleting"] \in Objects \ {Absent}
            /\ [top EXCEPT !.life = "deleting"].life = "deleting"
            /\ [top EXCEPT !.life = "deleting"].fin
        BY <1>1, <2>1, <3>2 DEF Objects, Absent
      <4>2. QED
        BY <3>2, <4>1 DEF DeleteObject
    <3>3. CASE DeleteObject /\ ~top.fin
      BY <3>3, Present DEF DeleteObject
    <3>4. QED
      BY <1>7, <3>1, <3>2, <3>3
  <2>3. /\ top' = o /\ view'.obj = view.obj
        /\ pass' = R!Idle <=> pass = R!Idle
        /\ pass'.at = pass.at /\ (pass # R!Idle => pass'.obj = pass.obj)
    BY <2>1, <2>2, OutsideType
  <2>4. QED
    BY <2>1, <2>2, <2>3
<1>8. QED
  BY <1>3, <1>4, <1>5, <1>6, <1>7 DEF Next

\* What is known of an object stays known: it only goes by way of the finalizer.
LEMMA KnownNext == TypeInv /\ KnownInv /\ [Next]_vars => KnownInv'
<1> SUFFICES ASSUME TypeInv, KnownInv, [Next]_vars PROVE KnownInv'
  OBVIOUS
<1>1. CASE ~Components
  <2>1. \A o : Tells(o, top) => Tells(o, top')
    BY <1>1, AsideDoes DEF Tells, Same
  <2>2. Tells(top, top)
    BY DEF Tells, TypeInv, TypeOK, R!TypesOK, Objects
  <2>3. Tells(view'.obj, top')
    BY <1>1, <2>1, <2>2, AsideDoes DEF KnownInv
  <2>4. pass' # R!Idle => Tells(pass'.obj, top')
    BY <1>1, <2>1, AsideDoes DEF KnownInv
  <2>5. Placed'
    BY <1>1, AsideDoes DEF KnownInv, Placed, R!Idle
  <2>6. QED
    BY <2>3, <2>4, <2>5 DEF KnownInv
<1>2. CASE Components /\ Stepped
  <2>1. PICK stage \in (StagesOf[kind] \cup {"save"}) \ {"push", "destroy"} :
          /\ Moved(stage)
          /\ stage \in {"unsecret", "release"} => pass.at \in {"destroy", "unsecret"}
    BY <1>2 DEF Stepped
  <2>2. UNCHANGED <<top, view>> /\ pass # R!Idle
    BY <1>2, Running
       DEF Stepped, TypeInv, Components, Secret, DjangoSecret, User, Login, Row, Tenant, Push,
           Destroy, Unsecret, Release, ServiceAccount, Key, Stages
  <2>3. /\ pass'.at = stage /\ pass' # R!Idle
        /\ pass'.obj.life = pass.obj.life /\ pass'.obj.fin = pass.obj.fin
    BY <2>1 DEF Moved, Alike
  <2>4. pass.obj # Absent
    BY <1>2, Running
       DEF TypeInv, Components, Secret, DjangoSecret, User, Login, Row, Tenant, Push,
           Destroy, Unsecret, Release, ServiceAccount, Key, Stages
  <2>5. Tells(pass'.obj, top')
    BY <2>2, <2>3, <2>4 DEF KnownInv, Tells
  <2>6. Placed'
    BY <2>1, <2>3 DEF KnownInv, Placed
  <2>7. QED
    BY <2>2, <2>5, <2>6 DEF KnownInv
<1>3. CASE Reread
  <2>1. /\ UNCHANGED <<top, view>> /\ view.obj # Absent
        /\ pass'.obj.life = view.obj.life /\ pass'.obj.fin = view.obj.fin
    BY <1>3 DEF Reread, Alike
  <2>2. Tells(pass'.obj, top')
    BY <2>1 DEF KnownInv, Tells
  <2>3. Placed'
    BY <1>3, <2>1 DEF Reread, Placed
  <2>4. QED
    BY <2>1, <2>2, <2>3 DEF KnownInv
<1>4. CASE top.life = "live" /\ Wrote(TRUE, "push")
  <2>1. Tells(view'.obj, top') /\ Tells(pass'.obj, top')
    BY <1>4 DEF Wrote, KnownInv, Tells
  <2>2. Placed'
    BY <1>4 DEF Wrote, Placed
  <2>3. QED
    BY <2>1, <2>2 DEF KnownInv
<1>5. CASE pass.at = "release" /\ Alike(pass.obj, top) /\ Wrote(FALSE, "save")
  <2>1. top.life = "deleting" /\ view'.obj = top /\ top' = Absent
    BY <1>5 DEF KnownInv, Placed, Alike, Wrote
  <2>2. Tells(view'.obj, top') /\ Tells(pass'.obj, top')
    BY <1>5, <2>1 DEF Wrote, Tells
  <2>3. Placed'
    BY <1>5 DEF Wrote, Placed
  <2>4. QED
    BY <2>2, <2>3 DEF KnownInv
<1>6. QED
  BY <1>1, <1>2, <1>3, <1>4, <1>5, ComponentsDo

\* What the abstract specification makes of a step that leaves the object and the tenant
\* as they are.
LEMMA AsideStutters ==
    ASSUME kind' = kind, IsTenant => Same(top, top') /\ account'.there = account.there,
           top \in Objects, top' \in Objects
    PROVE  UNCHANGED Answered!vars
BY Present DEF Answered!vars, Same, Life, IsTenant

\* Every step is one of ExternalResource or none, and a tenant stays answered for.
LEMMA StepKeepsTenant ==
    ASSUME EnableFinalizers \/ "MockCarServerTenant" \notin Kinds,
           TypeInv, KnownInv, TenantAnswered, [Next]_vars
    PROVE  TenantAnswered' /\ [Answered!Next]_(Answered!vars)
<1>1. /\ kind' = kind /\ top \in Objects /\ top' \in Objects
      /\ account \in Accounts /\ (IsTenant => EnableFinalizers)
  BY NextType, AsideDoes DEF TypeInv, TypeOK, R!TypesOK, Components, IsTenant
<1>2. CASE ~IsTenant
  BY <1>1, <1>2, AsideStutters DEF TenantAnswered, IsTenant
<1>3. CASE IsTenant /\ ~Components
  <2>1. account'.there = account.there
    BY <1>3, AsideDoes
  <2>2. pass'.at \in {"unsecret", "release"} => pass'.at = pass.at
    BY <1>3, AsideDoes DEF R!Idle
  <2>3. CASE Same(top, top')
    BY <1>1, <1>3, <2>1, <2>2, <2>3, AsideStutters DEF TenantAnswered, Same, IsTenant
  <2>4. CASE /\ top # Absent /\ top.life = "live"
             /\ IF top.fin THEN top' # Absent /\ top'.life = "deleting" /\ top'.fin
                ELSE top' = Absent
    <3>1. TenantAnswered'
      BY <1>1, <1>3, <2>1, <2>2, <2>4 DEF TenantAnswered, IsTenant
    <3>2. Answered!Delete
      <4>1. top.fin \in BOOLEAN
        BY <1>1, <2>4 DEF Objects
      <4>2. QED
        BY <1>1, <1>3, <2>1, <2>4, <4>1 DEF Answered!Delete, Life, IsTenant
    <3>3. QED
      BY <3>1, <3>2 DEF Answered!Next
  <2>5. QED
    BY <1>3, <2>3, <2>4, AsideDoes
<1>4. CASE IsTenant /\ Components /\ Stepped
  <2>1. UNCHANGED top
    BY <1>4 DEF Stepped
  <2>2. pass # R!Idle /\ pass.obj # Absent
    BY <1>4, Running
       DEF TypeInv, Components, Secret, DjangoSecret, User, Login, Row, Tenant, Push,
           Destroy, Unsecret, Release, ServiceAccount, Key, Stages
  <2>3. pass'.at \in {"unsecret", "release"} => ~account'.there
    BY <1>4 DEF Stepped, Moved, TenantAnswered, NoAccount
  <2>4. CASE account' = account
    BY <1>1, <1>4, <2>1, <2>3, <2>4, AsideStutters DEF TenantAnswered, Same, IsTenant
  <2>5. CASE pass.at = "push" /\ account'.there
    <3>1. top # Absent /\ top.fin
      BY <2>2, <2>5 DEF KnownInv, Placed, Tells
    <3>2. TenantAnswered'
      BY <2>1, <2>3, <3>1 DEF TenantAnswered
    <3>3. Answered!Make \/ UNCHANGED Answered!vars
      BY <1>1, <1>4, <2>1, <2>5, <3>1 DEF Answered!Make, Answered!vars, Life, IsTenant
    <3>4. QED
      BY <3>2, <3>3 DEF Answered!Next
  <2>6. CASE pass.at = "destroy" /\ account' = NoAccount
    <3>1. ~account'.there
      BY <2>6 DEF NoAccount
    <3>2. account.there => top # Absent /\ top.fin /\ top.life = "deleting"
      BY <1>4, <2>2, <2>6 DEF TenantAnswered, KnownInv, Placed, Tells
    <3>3. Answered!Destroy \/ UNCHANGED Answered!vars
      BY <1>1, <1>4, <2>1, <3>1, <3>2 DEF Answered!Destroy, Answered!vars, Life, IsTenant
    <3>4. QED
      BY <3>1, <3>3 DEF Answered!Next, TenantAnswered
  <2>7. QED
    BY <1>4, <2>4, <2>5, <2>6, ComponentsAccount
<1>5. CASE IsTenant /\ Reread /\ UNCHANGED account
  <2>1. UNCHANGED top /\ pass'.at \notin {"unsecret", "release"}
    BY <1>1, <1>5 DEF Reread
  <2>2. QED
    BY <1>1, <1>5, <2>1, AsideStutters DEF TenantAnswered, Same, IsTenant
<1>6. CASE IsTenant /\ top.life = "live" /\ Wrote(TRUE, "push") /\ UNCHANGED account
  <2>1. TenantAnswered'
    BY <1>6 DEF Wrote, TenantAnswered
  <2>2. Answered!Guard
    BY <1>1, <1>6 DEF Wrote, Answered!Guard, Life, IsTenant
  <2>3. QED
    BY <2>1, <2>2 DEF Answered!Next
<1>7. CASE /\ IsTenant /\ pass.at = "release" /\ Alike(pass.obj, top)
           /\ Wrote(FALSE, "save") /\ UNCHANGED account
  <2>1. /\ top # Absent /\ top.life = "deleting" /\ top' = Absent
        /\ ~account.there
    BY <1>7 DEF KnownInv, Placed, Alike, Wrote, TenantAnswered
  <2>2. TenantAnswered'
    BY <1>7, <2>1 DEF TenantAnswered
  <2>3. Answered!Release
    BY <1>1, <1>7, <2>1 DEF Answered!Release, Life, IsTenant
  <2>4. QED
    BY <2>2, <2>3 DEF Answered!Next
<1>8. QED
  BY <1>2, <1>3, <1>4, <1>5, <1>6, <1>7, ComponentsDo

\* With finalizers enabled, a tenant is made, kept and deleted as a finalizer promises:
\* none is left on the server without an object, whenever the object is deleted, a call
\* fails or the operator restarts.  The other three controllers promise nothing.
THEOREM KeepsTenantCorrect ==
    ASSUME EnableFinalizers \/ "MockCarServerTenant" \notin Kinds
    PROVE  Spec => KeepsTenant
<1>1. Init => KnownInv /\ TenantAnswered /\ Answered!Init
  <2>1. SUFFICES ASSUME Init PROVE KnownInv /\ TenantAnswered /\ Answered!Init
    OBVIOUS
  <2>2. /\ top = NewObject /\ view.obj = NewObject /\ pass = R!Idle
        /\ ~account.there /\ NewObject.life = "live" /\ ~NewObject.fin
    BY <2>1 DEF Init, R!Start, NoAccount, NewObject
  <2>3. top # Absent
    BY <2>2 DEF Absent
  <2>4. QED
    BY <2>2, <2>3
       DEF KnownInv, Tells, Placed, R!Idle, TenantAnswered, Answered!Init, Life, IsTenant
<1>2. TypeInv /\ KnownInv /\ TenantAnswered /\ [Next]_vars
        => TenantAnswered' /\ [Answered!Next]_(Answered!vars)
  BY StepKeepsTenant
<1>3. QED
  BY <1>1, <1>2, KnownNext, TypeAlways, PTL DEF Spec, KeepsTenant, Answered!Spec
=============================================================================

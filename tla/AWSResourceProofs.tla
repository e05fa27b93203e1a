-------------------------- MODULE AWSResourceProofs --------------------------
(***************************************************************************)
(* What holds of the five kinds of AWSResource for every number of         *)
(* versions, failures, interventions and replays.                          *)
(***************************************************************************)
EXTENDS AWSResource, FiniteSetTheorems, TLAPS

Stages == {"groupfinalizer", "group", "destroygroup", "releasegroup", "finalizer",
           "expiry", "account", "tag", "policy", "keys", "store", "empty",
           "destroy", "release"}

Alike(o, p) == o.life = p.life /\ o.fins = p.fins

\* A component that runs on the latest version of the object has its deletion and its
\* finalizers right.
PassCurrent ==
    pass # R!Idle /\ pass.at \in Stages /\ pass.current =>
        top # Absent /\ Alike(pass.obj, top)

TypeInv == TypeOK /\ R!CacheOK /\ PassCurrent

\* What AWSConstantsOK says of the numbers, in the forms used.
LEMMA BoundsType ==
    /\ 1 \in 1 .. MaxSpecs /\ 0 \in 0 .. MaxSpecs /\ MaxTries \in Nat \ {0}
    /\ 0 \in 0 .. MaxFailures /\ 0 \in 0 .. MaxTouches
    /\ MaxFailures \in Nat /\ MaxTouches \in Nat
<1>1. /\ MaxSpecs \in Nat \ {0} /\ MaxTries \in Nat \ {0}
      /\ MaxFailures \in Nat /\ MaxTouches \in Nat
  BY AWSConstantsOK
<1>2. QED
  BY <1>1

\* An object that is there is not Absent.
LEMMA Present ==
    /\ Absent \in Objects
    /\ \A o \in Objects : o # Absent <=> o.life \in {"live", "deleting"}
<1>1. Absent.life = "gone"
  BY DEF Absent
<1>2. \A o \in Objects \ {Absent} : o.life \in {"live", "deleting"}
  BY DEF Objects
<1>3. Absent \in Objects
  BY DEF Objects
<1>4. QED
  BY <1>1, <1>2, <1>3

\* A modifier changes the status only, and keeps the types.
LEMMA ApplyType ==
    ASSUME NEW p \in Patches, NEW o \in Objects \ {Absent}
    PROVE  Apply(p, o) \in Objects \ {Absent} /\ Alike(Apply(p, o), o)
BY Present DEF Apply, Patches, Objects, Phases, Messages, Absent, Alike

\* So does an error.
LEMMA FailedType ==
    ASSUME NEW message \in Messages, NEW o \in Objects \ {Absent}
    PROVE  Failed(o, message) \in Objects \ {Absent} /\ Alike(Failed(o, message), o)
BY Present DEF Failed, Objects, Phases, Messages, Absent, Alike

\* A write of the status keeps the rest of the object.
LEMMA StatusType ==
    ASSUME NEW o \in Objects \ {Absent}, NEW s \in Objects \ {Absent}
    PROVE  /\ [o EXCEPT !.status = s.status] \in Objects \ {Absent}
           /\ Alike([o EXCEPT !.status = s.status], o)
BY DEF Objects, Absent, Alike

\* The modifiers are what the pass asks for.
LEMMA Modifiers == R!ModifiersOK(Objects, Patches, Messages)
<1>1. MaxTries \in Nat \ {0}
  BY BoundsType
<1>2. NoPatch \in Patches /\ \A p, q \in Patches : Then(p, q) \in Patches
  BY DEF NoPatch, Patches, Then
<1>3. QED
  BY <1>1, <1>2, ApplyType, FailedType, StatusType DEF R!ModifiersOK

-----------------------------------------------------------------------------
(* What a component does to the object and to its pass.                     *)

\* What a component finds when it runs.
LEMMA Running ==
    ASSUME TypeOK, pass.at \in Stages
    PROVE  /\ pass # R!Idle /\ pass \in R!Passes(Objects, Patches, Stages)
           /\ pass.obj \in Objects \ {Absent} /\ pass.obj.life \in {"live", "deleting"}
           /\ pass.obj.fins \subseteq Finalizers /\ pass.obj.spec \in 1 .. MaxSpecs
<1>1. pass # R!Idle /\ pass \in R!Passes(Objects, Patches, Stages)
  BY DEF TypeOK, R!TypesOK, R!Idle, Stages
<1>2. QED
  BY <1>1, Present DEF R!Passes, Objects, Absent

\* It returns: the object is left alone, and the pass goes on with a copy like the one
\* it had.
Returns(stage) ==
    /\ UNCHANGED <<top, view>> /\ failures' \in 0 .. MaxFailures
    /\ pass' \in R!Passes(Objects, Patches, Stages) /\ pass' # R!Idle
    /\ pass'.at = stage /\ pass'.current = pass.current /\ Alike(pass'.obj, pass.obj)

\* It writes the finalizers, on the latest version of the object.
Rewrites(fins, stage) ==
    /\ top # Absent /\ Alike(pass.obj, top)
    /\ IF fins = {} /\ top.life = "deleting" THEN top' = Absent
       ELSE top' # Absent /\ top'.life = top.life /\ top'.fins = fins
    /\ top' \in Objects /\ view' \in [obj : Objects, current : BOOLEAN]
    /\ view'.obj = view.obj /\ ~view'.current
    /\ pass' \in R!Passes(Objects, Patches, Stages) /\ pass' # R!Idle
    /\ pass'.at = stage /\ pass'.obj.life = pass.obj.life /\ pass'.obj.fins = fins
    /\ UNCHANGED failures

\* The results of components are of the first kind.
LEMMA ReturnsDo ==
    ASSUME TypeOK, pass.at \in Stages, UNCHANGED <<top, view>>
    PROVE  /\ \A stage \in Stages \cup {"save"}, patch \in Patches,
               requeue \in BOOLEAN, after \in BOOLEAN :
                R!Return(stage, patch, requeue, after) /\ failures' \in 0 .. MaxFailures =>
                    Returns(stage)
           /\ \A message \in Messages, requeue \in BOOLEAN :
                R!ReturnError(message, NoPatch, requeue) /\ failures' \in 0 .. MaxFailures =>
                    Returns("save")
<1>1. /\ pass \in R!Passes(Objects, Patches, Stages) /\ pass # R!Idle
      /\ pass.obj \in Objects \ {Absent}
  BY Running
<1>2. NoPatch \in Patches
  BY DEF NoPatch, Patches
<1>3. ASSUME NEW stage \in Stages \cup {"save"}, NEW patch \in Patches,
             NEW requeue \in BOOLEAN, NEW after \in BOOLEAN,
             R!Return(stage, patch, requeue, after), failures' \in 0 .. MaxFailures
      PROVE  Returns(stage)
  <2>1. /\ pass'.at = stage /\ pass'.current = pass.current
        /\ pass'.obj = Apply(patch, pass.obj)
    BY <1>1, <1>3 DEF R!Return, R!Passes
  <2>2. pass' # R!Idle
    BY <2>1 DEF R!Idle, Stages
  <2>3. pass' \in R!Passes(Objects, Patches, Stages)
    BY <1>1, <1>3, Modifiers, R!ReturnTypes
  <2>4. QED
    BY <1>1, <1>3, <2>1, <2>2, <2>3, ApplyType DEF Returns
<1>4. ASSUME NEW message \in Messages, NEW requeue \in BOOLEAN,
             R!ReturnError(message, NoPatch, requeue), failures' \in 0 .. MaxFailures
      PROVE  Returns("save")
  <2>1. /\ pass'.at = "save" /\ pass'.current = pass.current
        /\ pass'.obj = Failed(Apply(NoPatch, pass.obj), message)
    BY <1>1, <1>4 DEF R!ReturnError, R!Passes
  <2>2. pass' # R!Idle
    BY <2>1 DEF R!Idle
  <2>3. pass' \in R!Passes(Objects, Patches, Stages)
    BY <1>1, <1>2, <1>4, Modifiers, R!ErrorTypes
  <2>4. Alike(pass'.obj, pass.obj)
    BY <1>1, <1>2, <1>4, <2>1, ApplyType, FailedType DEF Alike
  <2>5. QED
    BY <1>4, <2>1, <2>2, <2>3, <2>4 DEF Returns
<1>5. QED
  BY <1>3, <1>4

\* The same of the results by name.
LEMMA ResultsDo ==
    ASSUME TypeOK, pass.at \in Stages, UNCHANGED <<top, view>>
    PROVE  /\ \A stage \in Stages \cup {"save"} : GoOn(stage) => Returns(stage)
           /\ \A phase \in Patches, after \in BOOLEAN : Finish(phase, after) => Returns("save")
           /\ Refused \/ CallFails \/ Conflict => Returns("save")
           /\ \A phase \in Phases, after \in BOOLEAN : Captured(phase, after) => Returns("save")
<1>1. /\ NoPatch \in Patches /\ "aws" \in Messages /\ "conflict" \in Messages
      /\ (kind = "S3Bucket") \in BOOLEAN
  BY DEF NoPatch, Patches, Messages
<1>2. /\ UNCHANGED failures => failures' \in 0 .. MaxFailures
      /\ failures < MaxFailures /\ failures' = failures + 1 => failures' \in 0 .. MaxFailures
  BY BoundsType DEF TypeOK
<1>3. /\ \A stage \in Stages \cup {"save"} : GoOn(stage) => Returns(stage)
      /\ \A phase \in Patches, after \in BOOLEAN : Finish(phase, after) => Returns("save")
  BY <1>1, <1>2, ReturnsDo DEF GoOn, Finish
<1>4. Refused \/ CallFails => Returns("save")
  BY <1>1, <1>2, ReturnsDo DEF Refused, CallFails
<1>5. Conflict => Returns("save")
  BY <1>1, <1>2, ReturnsDo DEF Conflict
<1>6. ASSUME NEW phase \in Phases, NEW after \in BOOLEAN, Captured(phase, after)
      PROVE  Returns("save")
  <2>1. /\ pass \in R!Passes(Objects, Patches, Stages) /\ pass # R!Idle
        /\ pass.obj \in Objects \ {Absent}
    BY Running
  <2>2. DEFINE o == [pass.obj EXCEPT !.status = [phase |-> phase, message |-> "snapshot"]]
  <2>3. o \in Objects \ {Absent} /\ Alike(o, pass.obj)
    BY <2>1 DEF Objects, Messages, Absent, Alike
  <2>4. pass' = [pass EXCEPT !.at = "save", !.after = @ \/ after, !.obj = o]
    BY <1>6, <2>1 DEF Captured, R!Passes
  <2>5. /\ pass' \in R!Passes(Objects, Patches, Stages) /\ pass'.at = "save"
        /\ pass'.current = pass.current /\ pass'.obj = o
    BY <2>1, <2>3, <2>4 DEF R!Passes
  <2>6. pass' # R!Idle
    BY <2>5 DEF R!Idle
  <2>7. QED
    BY <1>2, <1>6, <2>3, <2>5, <2>6 DEF Captured, Returns
<1>7. QED
  BY <1>3, <1>4, <1>5, <1>6

\* A write of the finalizers is of the second.
LEMMA WritesDo ==
    ASSUME TypeInv, pass.at \in Stages, NEW fins \in SUBSET Finalizers,
           NEW stage \in Stages \cup {"save"}, NEW copied \in BOOLEAN, NEW requeue \in BOOLEAN,
           WriteFinalizers(fins, stage, copied, requeue), work' = work
    PROVE  /\ Rewrites(fins, stage)
           /\ copied => ~pass'.current
<1> DEFINE o == [pass.obj EXCEPT !.fins = fins]
           n == IF fins = {} /\ o.life = "deleting" THEN Absent
                ELSE [o EXCEPT !.status = top.status]
           m == IF copied THEN o ELSE [o EXCEPT !.status = top.status]
<1>1. /\ pass \in R!Passes(Objects, Patches, Stages) /\ pass # R!Idle
      /\ pass.obj \in Objects \ {Absent}
      /\ R!TypesOK(Objects, Patches, Stages)
  BY Running DEF TypeInv, TypeOK, Stages
<1>2. pass.current /\ R!Update(n, m, stage, copied, requeue) /\ UNCHANGED failures
  BY DEF WriteFinalizers, R!Update
<1>3. top # Absent /\ Alike(pass.obj, top) /\ top \in Objects
  BY <1>1, <1>2 DEF TypeInv, PassCurrent, R!TypesOK
<1>4. o \in Objects \ {Absent} /\ o.life = pass.obj.life /\ o.fins = fins
  BY <1>1 DEF Objects, Absent
<1>5. /\ [o EXCEPT !.status = top.status] \in Objects \ {Absent}
      /\ Alike([o EXCEPT !.status = top.status], o)
  BY <1>3, <1>4, StatusType
<1>6. n \in Objects /\ m \in Objects \ {Absent} /\ Alike(m, o)
  BY <1>4, <1>5, Present DEF Alike
<1>7. R!TypesOK(Objects, Patches, Stages)'
  BY <1>1, <1>2, <1>6, R!UpdateTypes
<1>8. /\ top' = n /\ view'.obj = view.obj /\ ~view'.current
      /\ pass'.at = stage /\ pass'.obj = m /\ pass'.current = ~copied
  BY <1>1, <1>2 DEF R!Update, R!Passes, R!TypesOK
<1>9. pass' # R!Idle
  BY <1>8 DEF R!Idle, Stages
<1>10. QED
  BY <1>2, <1>3, <1>4, <1>5, <1>6, <1>7, <1>8, <1>9 DEF Rewrites, Alike, R!TypesOK

\* Where a component goes with a copy like the one it had.
Leads(stage) ==
    \/ stage \in {"save", "finalizer", "group"}
    \/ /\ stage \in {"expiry", "account", "tag", "policy", "keys", "store"}
       /\ \/ pass.at \in {"expiry", "account", "tag", "policy", "keys"}
          \/ pass.obj.life = "live" /\ "account" \in pass.obj.fins
    \/ /\ stage \in {"empty", "destroy", "release"}
       /\ pass.at \in {"empty", "destroy"} \/ pass.obj.life = "deleting"
    \/ /\ stage \in {"destroygroup", "releasegroup"}
       /\ \/ pass.at = "destroygroup"
          \/ pass.obj.life = "deleting" /\ "account" \notin pass.obj.fins

\* Which finalizers it writes, and where it goes then.
Writes(fins, stage) ==
    \/ /\ pass.obj.life = "live" /\ fins = pass.obj.fins \cup {"group"}
       /\ stage = "group" /\ ~pass'.current
    \/ /\ pass.obj.life = "live" /\ fins = pass.obj.fins \cup {"account"}
       /\ stage \in {"save", "expiry"}
    \/ /\ pass.at = "releasegroup" /\ fins = pass.obj.fins \ {"group"}
       /\ stage = "finalizer" /\ ~pass'.current
    \/ /\ pass.at = "release" /\ fins = pass.obj.fins \ {"account"}
       /\ stage = "save"

\* A snapshot whose time is up deletes its object.
Expires ==
    /\ pass.at = "expiry" /\ top # Absent /\ top' = [top EXCEPT !.life = "deleting"]
    /\ view' = [view EXCEPT !.current = FALSE]
    /\ pass' = [pass EXCEPT !.at = "save", !.current = FALSE, !.requeue = TRUE]
    /\ UNCHANGED failures

Step ==
    \/ \E stage \in Stages \cup {"save"} : Returns(stage) /\ Leads(stage)
    \/ \E fins \in SUBSET Finalizers, stage \in Stages \cup {"save"} :
         Rewrites(fins, stage) /\ Writes(fins, stage)
    \/ Expires

\* The names of the stages and of the modifiers, for the steps below.
LEMMA Names ==
    /\ {"groupfinalizer", "group", "destroygroup", "releasegroup", "finalizer", "expiry",
        "account", "tag", "policy", "keys", "store", "empty", "destroy", "release"}
         \subseteq Stages
    /\ NoPatch \in Patches /\ "Processing" \in Patches /\ "Ready" \in Patches
    /\ {"refused", "self", "conflict"} \subseteq Messages
BY DEF Stages, NoPatch, Patches, Messages

\* Components of the security group of a domain.
LEMMA SecurityGroupStep ==
    ASSUME TypeInv, SecurityGroup, work' = work
    PROVE  Step
<1>1. pass.at \in Stages /\ TypeOK
  BY DEF SecurityGroup, GroupFinalizer, Group, DestroyGroup, GroupUnseen, ReleaseGroup, Stages,
         TypeInv
<1>2. /\ pass.obj.life \in {"live", "deleting"} /\ pass.obj.fins \subseteq Finalizers
      /\ {"group"} \subseteq Finalizers
      /\ failures \in 0 .. MaxFailures
  BY <1>1, Running DEF Finalizers, TypeOK
<1>3. CASE GroupFinalizer
  <2>1. CASE Live /\ WriteFinalizers(pass.obj.fins \cup {"group"}, "group", TRUE, FALSE)
    <3>1. /\ Rewrites(pass.obj.fins \cup {"group"}, "group") /\ ~pass'.current
          /\ pass.obj.fins \cup {"group"} \in SUBSET Finalizers
      BY <1>1, <1>2, <2>1, WritesDo, Names
    <3>2. QED
      BY <2>1, <3>1, Names DEF Step, Writes, Live
  <2>2. CASE Live /\ UNCHANGED <<top, view>> /\ (GoOn("group") \/ Conflict)
    BY <1>1, <2>2, ResultsDo, Names DEF Step, Leads
  <2>3. CASE /\ ~Live /\ UNCHANGED <<top, view>>
             /\ GoOn("finalizer") \/ (R!Return("finalizer", NoPatch, FALSE, TRUE)
                                        /\ UNCHANGED failures)
    BY <1>1, <1>2, <2>3, ReturnsDo, ResultsDo, Names DEF Step, Leads
  <2>4. CASE /\ ~Live /\ ~Carries("account") /\ UNCHANGED <<top, view>>
             /\ GoOn(IF EnableFinalizers THEN "destroygroup" ELSE "releasegroup")
    <3>1. PICK stage \in {"destroygroup", "releasegroup"} : GoOn(stage)
      BY <2>4
    <3>2. QED
      BY <1>1, <1>2, <2>4, <3>1, ResultsDo, Names DEF Step, Leads, Live, Carries
  <2>5. QED
    BY <1>3, <2>1, <2>2, <2>3, <2>4 DEF GroupFinalizer, Conflict
<1>4. CASE Group
  <2>1. \/ R!Return("finalizer", NoPatch, TRUE, FALSE) /\ UNCHANGED failures
        \/ R!Return("finalizer", "Processing", FALSE, FALSE) /\ UNCHANGED failures
        \/ CallFails
    BY <1>4 DEF Group
  <2>2. UNCHANGED <<top, view>>
    BY <1>4 DEF Group
  <2>3. QED
    BY <1>1, <1>2, <2>1, <2>2, ReturnsDo, ResultsDo, Names DEF Step, Leads
<1>5. CASE DestroyGroup
  BY <1>1, <1>5, ResultsDo, Names DEF DestroyGroup, Step, Leads
<1>6. CASE GroupUnseen
  <2>1. failures' \in 0 .. MaxFailures
    BY <1>2, <1>6, BoundsType DEF GroupUnseen
  <2>2. QED
    BY <1>1, <1>6, <2>1, ReturnsDo, Names DEF GroupUnseen, Step, Leads
<1>7. CASE ReleaseGroup
  <2>1. CASE WriteFinalizers(pass.obj.fins \ {"group"}, "finalizer", TRUE, FALSE)
    <3>1. /\ Rewrites(pass.obj.fins \ {"group"}, "finalizer") /\ ~pass'.current
          /\ pass.obj.fins \ {"group"} \in SUBSET Finalizers
      BY <1>1, <1>2, <2>1, WritesDo, Names
    <3>2. QED
      BY <1>7, <3>1, Names DEF ReleaseGroup, Step, Writes
  <2>2. CASE Conflict
    BY <1>1, <2>2, ResultsDo DEF Conflict, Step, Leads
  <2>3. QED
    BY <1>7, <2>1, <2>2 DEF ReleaseGroup
<1>8. QED
  BY <1>3, <1>4, <1>5, <1>6, <1>7 DEF SecurityGroup

\* Components of the account.
LEMMA AccountStep ==
    ASSUME TypeInv, AccountSteps, work' = work
    PROVE  Step
<1>1. pass.at \in Stages /\ TypeOK
  BY DEF AccountSteps, UserFinalizer, RoleFinalizer, BucketFinalizer, DomainFinalizer, Finalizer,
         User, Role, Bucket, MakeAccount, Domain, UserTag, RoleTag, BucketTag, DomainTag, Tag,
         UserPolicies, RolePolicies, BucketPolicy, DomainConfig, Stages, TypeInv
<1>2. /\ pass.obj.life \in {"live", "deleting"} /\ pass.obj.fins \subseteq Finalizers
      /\ {"account"} \subseteq Finalizers
  BY <1>1, Running DEF Finalizers
<1>3. UNCHANGED <<top, view>> /\ (Refused \/ CallFails \/ Conflict) => Step
  BY <1>1, ResultsDo DEF Step, Leads
<1>4. \A phase \in Patches, after \in BOOLEAN :
        UNCHANGED <<top, view>> /\ Finish(phase, after) => Step
  BY <1>1, ResultsDo DEF Step, Leads
<1>5. ASSUME NEW stage \in {"account", "tag", "policy", "keys"}, GoOn(stage),
             pass.at \in {"account", "tag", "policy"}, UNCHANGED <<top, view>>
      PROVE  Step
  <2>1. stage \in Stages \cup {"save"} /\ Returns(stage)
    BY <1>1, <1>5, ResultsDo, Names
  <2>2. Leads(stage)
    BY <1>5 DEF Leads
  <2>3. QED
    BY <2>1, <2>2 DEF Step
<1>6. ASSUME NEW takesDown \in BOOLEAN, Finalizer(takesDown)
      PROVE  Step
  <2>1. CASE Live /\ WriteFinalizers(pass.obj.fins \cup {"account"}, "save", FALSE, TRUE)
    <3>1. /\ Rewrites(pass.obj.fins \cup {"account"}, "save")
          /\ pass.obj.fins \cup {"account"} \in SUBSET Finalizers
      BY <1>1, <1>2, <2>1, WritesDo
    <3>2. QED
      BY <2>1, <3>1 DEF Step, Writes, Live
  <2>2. CASE Live /\ Carries("account") /\ GoOn("account") /\ UNCHANGED <<top, view>>
    BY <1>1, <2>2, ResultsDo, Names DEF Step, Leads, Live, Carries
  <2>3. CASE Conflict \/ (Finish(NoPatch, FALSE) /\ UNCHANGED <<top, view>>)
    BY <1>3, <1>4, <2>3, Names DEF Conflict
  <2>4. CASE /\ ~Live /\ Carries("account") /\ UNCHANGED <<top, view>>
             /\ GoOn(IF takesDown THEN "empty" ELSE "release")
    <3>1. PICK stage \in {"empty", "release"} : GoOn(stage)
      BY <2>4
    <3>2. QED
      BY <1>1, <1>2, <2>4, <3>1, ResultsDo, Names DEF Step, Leads, Live
  <2>5. QED
    BY <1>6, <2>1, <2>2, <2>3, <2>4 DEF Finalizer
<1>7. CASE UserFinalizer \/ RoleFinalizer \/ BucketFinalizer \/ DomainFinalizer
  <2>1. TRUE \in BOOLEAN /\ EnableFinalizers \in BOOLEAN
    BY AWSConstantsOK
  <2>2. QED
    BY <1>6, <1>7, <2>1 DEF UserFinalizer, RoleFinalizer, BucketFinalizer, DomainFinalizer
<1>8. CASE User \/ Role \/ Bucket
  BY <1>3, <1>5, <1>8 DEF User, Role, Bucket, MakeAccount
<1>9. CASE Domain
  BY <1>3, <1>4, <1>5, <1>9, Names DEF Domain
<1>10. CASE UserTag \/ BucketTag \/ DomainTag
  BY <1>3, <1>5, <1>10 DEF UserTag, BucketTag, DomainTag, Tag
<1>11. CASE RoleTag
  <2>1. CASE R!ReturnError("refused", NoPatch, FALSE) /\ UNCHANGED failures
    <3>1. failures' \in 0 .. MaxFailures
      BY <1>1, <2>1 DEF TypeOK
    <3>2. QED
      BY <1>1, <1>11, <2>1, <3>1, ReturnsDo, Names DEF RoleTag, Step, Leads
  <2>2. QED
    BY <1>3, <1>5, <1>11, <2>1 DEF RoleTag
<1>12. CASE UserPolicies \/ RolePolicies \/ BucketPolicy
  BY <1>3, <1>4, <1>5, <1>12, Names DEF UserPolicies, RolePolicies, BucketPolicy, PutPolicies
<1>13. CASE DomainConfig
  BY <1>3, <1>4, <1>13, Names DEF DomainConfig
<1>14. QED
  BY <1>7, <1>8, <1>9, <1>10, <1>11, <1>12, <1>13 DEF AccountSteps

\* The key of a user, and what takes an account down.
LEMMA TakeDownStep ==
    ASSUME TypeInv, Credentials \/ TakeDown, work' = work
    PROVE  Step
<1>1. pass.at \in Stages /\ TypeOK
  BY DEF Credentials, Rotate, Store, TakeDown, EmptyUser, EmptyRole, EmptyBucket, DestroyUser,
         DestroyRole, DestroyBucket, Destroy, DestroyDomain, Release, Stages, TypeInv
<1>2. pass.obj.fins \subseteq Finalizers
  BY <1>1, Running
<1>3. UNCHANGED <<top, view>> /\ (Refused \/ CallFails \/ Conflict) => Step
  BY <1>1, ResultsDo DEF Step, Leads
<1>4. \A stage \in {"destroy", "release"} :
        pass.at \in {"empty", "destroy"} /\ UNCHANGED <<top, view>> /\ GoOn(stage) => Step
  BY <1>1, ResultsDo, Names DEF Step, Leads
<1>5. CASE Rotate
  <2>1. CASE Finish("Ready", FALSE)
    BY <1>1, <1>5, <2>1, ResultsDo, Names DEF Rotate, Step, Leads
  <2>2. CASE GoOn("store")
    BY <1>1, <1>5, <2>2, ResultsDo, Names DEF Rotate, Step, Leads
  <2>3. QED
    BY <1>3, <1>5, <2>1, <2>2 DEF Rotate
<1>6. CASE Store
  <2>1. CASE R!ReturnError("conflict", NoPatch, FALSE) /\ UNCHANGED failures
    <3>1. failures' \in 0 .. MaxFailures
      BY <1>1, <2>1 DEF TypeOK
    <3>2. QED
      BY <1>1, <1>6, <2>1, <3>1, ReturnsDo, Names DEF Store, Step, Leads
  <2>2. CASE Finish("Ready", FALSE)
    BY <1>1, <1>6, <2>2, ResultsDo, Names DEF Store, Step, Leads
  <2>3. QED
    BY <1>6, <2>1, <2>2 DEF Store
<1>7. CASE EmptyUser \/ EmptyRole \/ EmptyBucket
  BY <1>3, <1>4, <1>7 DEF EmptyUser, EmptyRole, EmptyBucket
<1>8. CASE DestroyUser \/ DestroyRole \/ DestroyBucket
  BY <1>3, <1>4, <1>8 DEF DestroyUser, DestroyRole, DestroyBucket, Destroy
<1>9. CASE DestroyDomain
  BY <1>3, <1>4, <1>9 DEF DestroyDomain
<1>10. CASE Release
  <2>1. CASE WriteFinalizers(pass.obj.fins \ {"account"}, "save", FALSE, FALSE)
    <3>1. /\ Rewrites(pass.obj.fins \ {"account"}, "save")
          /\ pass.obj.fins \ {"account"} \in SUBSET Finalizers
      BY <1>1, <1>2, <2>1, WritesDo
    <3>2. QED
      BY <1>10, <3>1 DEF Release, Step, Writes
  <2>2. QED
    BY <1>3, <1>10, <2>1 DEF Release, Conflict
<1>11. QED
  BY <1>5, <1>6, <1>7, <1>8, <1>9, <1>10 DEF Credentials, TakeDown

\* Components of a snapshot.
LEMMA SnapshotStep ==
    ASSUME TypeInv, SnapshotSteps, work' = work
    PROVE  Step
<1>1. pass.at \in Stages /\ TypeOK
  BY DEF SnapshotSteps, SnapshotFinalizer, SnapshotExpiry, Snapshot, DestroySnapshot,
         ReleaseSnapshot, Stages, TypeInv
<1>2. /\ pass.obj.life \in {"live", "deleting"} /\ pass.obj.fins \subseteq Finalizers
      /\ {"account"} \subseteq Finalizers
  BY <1>1, Running DEF Finalizers
<1>3. UNCHANGED <<top, view>> /\ (Refused \/ CallFails \/ Conflict) => Step
  BY <1>1, ResultsDo DEF Step, Leads
<1>4. \A phase \in Patches, after \in BOOLEAN :
        UNCHANGED <<top, view>> /\ Finish(phase, after) => Step
  BY <1>1, ResultsDo DEF Step, Leads
<1>5. CASE SnapshotFinalizer
  <2>1. CASE Live /\ WriteFinalizers(pass.obj.fins \cup {"account"}, "expiry", FALSE, FALSE)
    <3>1. /\ Rewrites(pass.obj.fins \cup {"account"}, "expiry")
          /\ pass.obj.fins \cup {"account"} \in SUBSET Finalizers
      BY <1>1, <1>2, <2>1, WritesDo, Names
    <3>2. QED
      BY <2>1, <3>1, Names DEF Step, Writes, Live
  <2>2. CASE Live /\ Carries("account") /\ GoOn("expiry") /\ UNCHANGED <<top, view>>
    BY <1>1, <2>2, ResultsDo, Names DEF Step, Leads, Live, Carries
  <2>3. CASE Conflict \/ (Finish(NoPatch, FALSE) /\ UNCHANGED <<top, view>>)
    BY <1>3, <1>4, <2>3, Names DEF Conflict
  <2>4. CASE ~Live /\ GoOn("empty") /\ UNCHANGED <<top, view>>
    BY <1>1, <1>2, <2>4, ResultsDo, Names DEF Step, Leads, Live
  <2>5. QED
    BY <1>5, <2>1, <2>2, <2>3, <2>4 DEF SnapshotFinalizer
<1>6. CASE SnapshotExpiry
  <2>1. CASE GoOn("account") /\ UNCHANGED <<top, view>>
    BY <1>1, <1>6, <2>1, ResultsDo, Names DEF SnapshotExpiry, Step, Leads
  <2>2. CASE R!ReturnError("self", NoPatch, FALSE) /\ UNCHANGED <<top, view, failures>>
    <3>1. failures' \in 0 .. MaxFailures
      BY <1>1, <2>2 DEF TypeOK
    <3>2. QED
      BY <1>1, <2>2, <3>1, ReturnsDo, Names DEF Step, Leads
  <2>3. QED
    BY <1>6, <2>1, <2>2 DEF SnapshotExpiry, Step, Expires
<1>7. CASE Snapshot
  <2>1. CASE Captured("Creating", TRUE) \/ Captured("Error", FALSE)
    <3>1. "Creating" \in Phases /\ "Error" \in Phases
      BY DEF Phases
    <3>2. QED
      BY <1>1, <1>7, <2>1, <3>1, ResultsDo DEF Snapshot, Step, Leads
  <2>2. QED
    BY <1>3, <1>4, <1>7, <2>1, Names DEF Snapshot
<1>8. CASE DestroySnapshot
  <2>1. CASE GoOn("release")
    BY <1>1, <1>8, <2>1, ResultsDo, Names DEF DestroySnapshot, Step, Leads
  <2>2. QED
    BY <1>3, <1>8, <2>1 DEF DestroySnapshot
<1>9. CASE ReleaseSnapshot
  <2>1. CASE WriteFinalizers(pass.obj.fins \ {"account"}, "save", TRUE, FALSE)
    <3>1. /\ Rewrites(pass.obj.fins \ {"account"}, "save")
          /\ pass.obj.fins \ {"account"} \in SUBSET Finalizers
      BY <1>1, <1>2, <2>1, WritesDo
    <3>2. QED
      BY <1>9, <3>1 DEF ReleaseSnapshot, Step, Writes
  <2>2. QED
    BY <1>3, <1>9, <2>1 DEF ReleaseSnapshot, Conflict
<1>10. QED
  BY <1>5, <1>6, <1>7, <1>8, <1>9 DEF SnapshotSteps

\* Every component does one of the three.
LEMMA ComponentsStep == TypeInv /\ Components => Step
BY SecurityGroupStep, AccountStep, TakeDownStep, SnapshotStep DEF Components

-----------------------------------------------------------------------------
(* Type correctness.                                                        *)

KeyTypes ==
    /\ secret \in [stored : Keys \cup {NoKey}, cached : Keys \cup {NoKey}, current : BOOLEAN]
    /\ fresh \in Keys \cup {NoKey}

\* What AWS holds is of its type after every call of a component, and so are the keys.
LEMMA CloudType ==
    ASSUME TypeInv, Components
    PROVE  cloud' \in Clouds /\ KeyTypes'
<1>1. /\ cloud \in Clouds /\ KeyTypes
      /\ 0 \in 0 .. MaxSpecs /\ NoCloud \in Clouds
  BY BoundsType DEF TypeInv, TypeOK, KeyTypes, Clouds, Accounts, NoCloud
<1>2. pass.at \in Stages => pass.obj.spec \in 0 .. MaxSpecs
  BY Running, BoundsType DEF TypeInv
<1>3. UNCHANGED secretVars => KeyTypes'
  BY <1>1 DEF secretVars, KeyTypes
<1>4. CASE SecurityGroup /\ UNCHANGED secretVars
  BY <1>1, <1>3, <1>4 DEF SecurityGroup, GroupFinalizer, Group, DestroyGroup, GroupUnseen,
     ReleaseGroup, Clouds
<1>5. CASE AccountSteps /\ UNCHANGED secretVars
  <2>1. CASE UNCHANGED cloud
    BY <1>1, <1>3, <1>5, <2>1
  <2>2. CASE User \/ Role \/ Bucket
    <3>1. PICK tagged \in BOOLEAN : MakeAccount(tagged)
      BY <2>2 DEF User, Role, Bucket
    <3>2. QED
      BY <1>1, <1>3, <1>5, <3>1 DEF MakeAccount, Clouds, Accounts
  <2>3. CASE UserTag \/ BucketTag \/ DomainTag
    BY <1>1, <1>3, <1>5, <2>3 DEF UserTag, BucketTag, DomainTag, Tag, Clouds
  <2>4. CASE Domain
    BY <1>1, <1>2, <1>3, <1>5, <2>4, Names DEF Domain, Clouds, Accounts
  <2>5. CASE UserPolicies \/ RolePolicies \/ BucketPolicy
    <3>1. pass.at = "policy" /\ PutPolicies
      BY <2>5 DEF UserPolicies, RolePolicies, BucketPolicy
    <3>2. QED
      BY <1>1, <1>2, <1>3, <1>5, <3>1, Names DEF PutPolicies, Policies, Clouds
  <2>6. CASE DomainConfig
    BY <1>1, <1>2, <1>3, <1>5, <2>6, Names DEF DomainConfig, Policies, Clouds, Accounts
  <2>7. QED
    BY <1>5, <2>1, <2>2, <2>3, <2>4, <2>5, <2>6
       DEF AccountSteps, UserFinalizer, RoleFinalizer, BucketFinalizer, DomainFinalizer, Finalizer,
           RoleTag
<1>6. CASE TakeDown /\ UNCHANGED secretVars
  BY <1>1, <1>3, <1>6 DEF TakeDown, EmptyUser, EmptyRole, EmptyBucket, DestroyUser, DestroyRole,
     DestroyBucket, Destroy, DestroyDomain, Release, Clouds, Accounts
<1>7. CASE SnapshotSteps /\ UNCHANGED secretVars
  BY <1>1, <1>3, <1>7 DEF SnapshotSteps, SnapshotFinalizer, SnapshotExpiry, Snapshot,
     DestroySnapshot, ReleaseSnapshot, Clouds, Accounts
<1>8. CASE Rotate
  <2>1. KeyTypes'
    BY <1>1, <1>8 DEF Rotate, Unused, KeyTypes
  <2>2. cloud.keys \subseteq Keys
    BY <1>1 DEF Clouds
  <2>3. NoKey \notin Keys
    BY DEF NoKey, Keys
  <2>4. \E k \in SUBSET Keys : cloud' = [cloud EXCEPT !.keys = k]
    <3>1. CASE /\ secret.cached \in cloud.keys
               /\ cloud' = [cloud EXCEPT !.keys = {secret.cached}]
      BY <2>2, <3>1
    <3>2. CASE \E k \in Unused : cloud' = [cloud EXCEPT !.keys = {k}]
      <4>1. PICK k \in Unused : cloud' = [cloud EXCEPT !.keys = {k}]
        BY <3>2
      <4>2. {k} \in SUBSET Keys
        BY DEF Unused
      <4>3. QED
        BY <4>1, <4>2
    <3>3. CASE \E deleted \in SUBSET (cloud.keys \ {secret.cached}) :
                 cloud' = [cloud EXCEPT !.keys = @ \ deleted]
      <4>1. PICK deleted : cloud' = [cloud EXCEPT !.keys = @ \ deleted]
        BY <3>3
      <4>2. cloud.keys \ deleted \in SUBSET Keys
        BY <2>2
      <4>3. cloud' = [cloud EXCEPT !.keys = cloud.keys \ deleted]
        BY <1>1, <4>1 DEF Clouds
      <4>4. QED
        BY <4>2, <4>3
    <3>4. QED
      BY <1>8, <3>1, <3>2, <3>3 DEF Rotate
  <2>5. QED
    BY <1>1, <2>1, <2>4 DEF Clouds
<1>9. CASE Store
  BY <1>1, <1>9 DEF Store, KeyTypes
<1>10. QED
  BY <1>4, <1>5, <1>6, <1>7, <1>8, <1>9 DEF Components, Credentials

\* Components run in the stages that are named after them.
LEMMA ComponentsAt == Components => pass.at \in Stages
<1> SUFFICES ASSUME Components PROVE pass.at \in Stages
  OBVIOUS
<1>1. CASE SecurityGroup
  BY <1>1 DEF SecurityGroup, GroupFinalizer, Group, DestroyGroup, GroupUnseen, ReleaseGroup,
     Stages
<1>2. CASE AccountSteps
  BY <1>2 DEF AccountSteps, UserFinalizer, RoleFinalizer, BucketFinalizer, DomainFinalizer,
     Finalizer, User, Role, Bucket, MakeAccount, Domain, UserTag, RoleTag, BucketTag, DomainTag,
     Tag, UserPolicies, RolePolicies, BucketPolicy, DomainConfig, Stages
<1>3. CASE Credentials \/ TakeDown
  BY <1>3 DEF Credentials, Rotate, Store, TakeDown, EmptyUser, EmptyRole, EmptyBucket,
     DestroyUser, DestroyRole, DestroyBucket, Destroy, DestroyDomain, Release, Stages
<1>4. CASE SnapshotSteps
  BY <1>4 DEF SnapshotSteps, SnapshotFinalizer, SnapshotExpiry, Snapshot, DestroySnapshot,
     ReleaseSnapshot, Stages
<1>5. QED
  BY <1>1, <1>2, <1>3, <1>4 DEF Components

\* Components keep the types, and what the copy of a pass tells.
LEMMA ComponentsType == TypeInv /\ Components => TypeInv'
<1> SUFFICES ASSUME TypeInv, Components PROVE TypeInv'
  OBVIOUS
<1>1. /\ cloud' \in Clouds /\ KeyTypes' /\ UNCHANGED <<kind, work, unseen, expired, touches>>
      /\ R!TypesOK(Objects, Patches, Stages)
  BY CloudType DEF Components, TypeInv, TypeOK, Stages
<1>2. ASSUME R!TypesOK(Objects, Patches, Stages)', R!CacheOK', PassCurrent',
             failures' \in 0 .. MaxFailures
      PROVE  TypeInv'
  BY <1>1, <1>2 DEF TypeInv, TypeOK, KeyTypes, Stages
<1>3. ASSUME NEW stage \in Stages \cup {"save"}, Returns(stage), pass.at \in Stages
      PROVE  TypeInv'
  <2>1. pass # R!Idle
    BY <1>3, Running DEF TypeInv
  <2>2. PassCurrent'
    BY <1>3, <2>1 DEF Returns, TypeInv, PassCurrent, Alike
  <2>3. R!TypesOK(Objects, Patches, Stages)' /\ R!CacheOK'
    BY <1>1, <1>3 DEF Returns, TypeInv, R!TypesOK, R!CacheOK
  <2>4. QED
    BY <1>2, <1>3, <2>2, <2>3 DEF Returns
<1>4. ASSUME NEW fins \in SUBSET Finalizers, NEW stage \in Stages \cup {"save"},
             Rewrites(fins, stage), Writes(fins, stage)
      PROVE  TypeInv'
  <2>1. R!TypesOK(Objects, Patches, Stages)' /\ R!CacheOK'
    BY <1>1, <1>4 DEF Rewrites, R!TypesOK, R!CacheOK
  <2>2. PassCurrent'
    <3>1. CASE ~pass'.current \/ stage = "save"
      BY <1>4, <3>1 DEF Rewrites, PassCurrent, Stages
    <3>2. CASE stage = "expiry"
      <4>1. pass.obj.life = "live" /\ fins # {}
        BY <1>4, <3>2 DEF Writes
      <4>2. QED
        BY <1>4, <4>1 DEF Rewrites, PassCurrent, Alike
    <3>3. QED
      BY <1>4, <3>1, <3>2 DEF Writes
  <2>3. failures' \in 0 .. MaxFailures
    BY <1>4 DEF Rewrites, TypeInv, TypeOK
  <2>4. QED
    BY <1>2, <2>1, <2>2, <2>3
<1>5. CASE Expires
  <2>1. top' \in Objects
    BY <1>1, <1>5 DEF Expires, R!TypesOK, Objects, Absent
  <2>2. /\ view' \in [obj : Objects, current : BOOLEAN] /\ ~view'.current
    BY <1>1, <1>5 DEF Expires, R!TypesOK
  <2>3. pass \in R!Passes(Objects, Patches, Stages) /\ pass # R!Idle
    BY <1>1, <1>5, Running, Names DEF Expires, TypeInv
  <2>4. pass' \in R!Passes(Objects, Patches, Stages) /\ ~pass'.current
    BY <1>5, <2>3 DEF Expires, R!Passes
  <2>5. failures' \in 0 .. MaxFailures
    BY <1>5 DEF Expires, TypeInv, TypeOK
  <2>6. QED
    BY <1>1, <1>2, <2>1, <2>2, <2>4, <2>5 DEF R!TypesOK, R!CacheOK, PassCurrent
<1>6. pass.at \in Stages
  BY ComponentsAt
<1>7. QED
  BY <1>3, <1>4, <1>5, <1>6, ComponentsStep DEF Step

\* The worker and the world around keep them, too.
LEMMA OthersType ==
    TypeInv /\ (Begin \/ Save \/ Sync \/ SyncSecret \/ TimerFires \/ CloudMoves \/ Expire
                  \/ WatchTTL \/ Crash \/ DeleteObject \/ EditObject \/ DeleteSecret \/ Drift)
        => TypeInv'
<1> SUFFICES ASSUME TypeInv, \/ Begin \/ Save \/ Sync \/ SyncSecret \/ TimerFires \/ CloudMoves
                             \/ Expire \/ WatchTTL \/ Crash \/ DeleteObject \/ EditObject
                             \/ DeleteSecret \/ Drift
             PROVE  TypeInv'
  OBVIOUS
<1> USE DEF secretVars, boundVars
<1>1. /\ R!TypesOK(Objects, Patches, Stages) /\ R!CacheOK /\ PassCurrent
      /\ kind \in Kinds /\ cloud \in Clouds /\ KeyTypes
      /\ unseen \in BOOLEAN /\ expired \in BOOLEAN
      /\ failures \in 0 .. MaxFailures /\ touches \in 0 .. MaxTouches
  BY DEF TypeInv, TypeOK, KeyTypes, Stages
<1>2. ASSUME R!TypesOK(Objects, Patches, Stages)', R!CacheOK', PassCurrent',
             kind' = kind, cloud' \in Clouds, KeyTypes',
             unseen' \in BOOLEAN, expired' \in BOOLEAN,
             failures' \in 0 .. MaxFailures, touches' \in 0 .. MaxTouches
      PROVE  TypeInv'
  BY <1>1, <1>2 DEF TypeInv, TypeOK, KeyTypes, Stages
<1>3. UNCHANGED <<secret, fresh>> => KeyTypes'
  BY <1>1 DEF KeyTypes
<1>4. UNCHANGED <<top, view, pass>> /\ work' \in [queued : BOOLEAN, timer : BOOLEAN]
        => R!TypesOK(Objects, Patches, Stages)' /\ R!CacheOK' /\ PassCurrent'
  BY <1>1 DEF R!TypesOK, R!Passes, R!Idle, R!CacheOK, PassCurrent
<1>5. work \in [queued : BOOLEAN, timer : BOOLEAN]
  BY <1>1 DEF R!TypesOK
<1>6. R!Event => work' \in [queued : BOOLEAN, timer : BOOLEAN]
  BY <1>5 DEF R!Event
<1>7. R!Idle.at = "idle"
  BY DEF R!Idle
<1>8. ASSUME NEW o \in Objects, R!Write(o), work' = work
      PROVE  R!TypesOK(Objects, Patches, Stages)' /\ R!CacheOK' /\ PassCurrent'
  <2>1. R!TypesOK(Objects, Patches, Stages)' /\ R!CacheOK'
    BY <1>1, <1>8, R!WriteTypes DEF R!TypesOK
  <2>2. CASE pass.at = "idle"
    BY <1>1, <1>8, <2>1, <2>2 DEF R!Write, PassCurrent, Stages
  <2>3. CASE pass.at # "idle"
    <3>1. ~pass'.current
      BY <1>1, <1>8, <2>3 DEF R!Write, R!TypesOK, R!Passes, R!Idle
    <3>2. QED
      BY <2>1, <3>1 DEF PassCurrent
  <2>4. QED
    BY <2>2, <2>3
<1>9. CASE Begin
  <2>1. PICK stage \in Stages \cup {"save"} : R!Begin(stage)
    BY <1>9, Names DEF Begin
  <2>2. R!TypesOK(Objects, Patches, Stages)'
    BY <1>1, <2>1, Modifiers, R!BeginTypes
  <2>3. R!CacheOK'
    BY <1>1, <2>1 DEF R!Begin, R!CacheOK
  <2>4. PassCurrent'
    <3>1. UNCHANGED <<top, view>>
      BY <2>1 DEF R!Begin
    <3>2. \/ pass' = R!Idle
          \/ /\ view.obj # Absent /\ pass'.obj = view.obj /\ pass'.current = view.current
      BY <2>1 DEF R!Begin, R!Fresh
    <3>3. QED
      BY <1>1, <3>1, <3>2 DEF R!CacheOK, PassCurrent, Alike
  <2>5. QED
    BY <1>1, <1>2, <1>3, <1>9, <2>2, <2>3, <2>4 DEF Begin
<1>10. CASE Save
  <2>1. R!Save(FALSE) /\ FALSE \in BOOLEAN
    BY <1>10 DEF Save
  <2>2. R!TypesOK(Objects, Patches, Stages)'
    BY <1>1, <2>1, Modifiers, R!SaveTypes
  <2>3. /\ view'.obj = view.obj /\ (view'.current => view.current /\ top' = top)
        /\ pass' = R!Idle \/ pass'.at = "replay"
    BY <1>1, <2>1, Modifiers, R!SaveEffect
  <2>4. R!CacheOK' /\ PassCurrent'
    BY <1>1, <1>7, <2>3 DEF R!CacheOK, PassCurrent, Stages
  <2>5. QED
    BY <1>1, <1>2, <1>3, <1>10, <2>2, <2>4 DEF Save
<1>11. CASE Sync
  <2>1. R!TypesOK(Objects, Patches, Stages)' /\ R!CacheOK'
    BY <1>1, <1>11, R!SyncTypes DEF Sync
  <2>2. PassCurrent'
    BY <1>1, <1>11 DEF Sync, R!Sync, PassCurrent
  <2>3. QED
    BY <1>1, <1>2, <1>3, <1>11, <2>1, <2>2 DEF Sync
<1>12. CASE SyncSecret
  <2>1. KeyTypes'
    BY <1>1, <1>12 DEF SyncSecret, KeyTypes
  <2>2. QED
    BY <1>1, <1>2, <1>4, <1>6, <1>12, <2>1 DEF SyncSecret
<1>13. CASE TimerFires
  <2>1. UNCHANGED <<top, view, pass>> /\ work' \in [queued : BOOLEAN, timer : BOOLEAN]
    BY <1>13 DEF TimerFires, R!TimerFires
  <2>2. QED
    BY <1>1, <1>2, <1>3, <1>4, <1>13, <2>1 DEF TimerFires
<1>14. CASE CloudMoves
  <2>1. cloud' \in Clouds
    BY <1>1, <1>14, BoundsType DEF CloudMoves, Clouds, Accounts, NoCloud
  <2>2. QED
    BY <1>1, <1>2, <1>3, <1>4, <1>5, <1>14, <2>1 DEF CloudMoves
<1>15. CASE Expire \/ WatchTTL
  BY <1>1, <1>2, <1>3, <1>4, <1>5, <1>6, <1>15 DEF Expire, WatchTTL
<1>16. CASE Crash
  <2>1. R!TypesOK(Objects, Patches, Stages)' /\ R!CacheOK'
    BY <1>1, <1>16, R!RestartTypes DEF Crash
  <2>2. PassCurrent'
    BY <1>16 DEF Crash, R!Restart, PassCurrent
  <2>3. KeyTypes'
    BY <1>1, <1>16 DEF Crash, KeyTypes
  <2>4. failures' \in 0 .. MaxFailures
    BY <1>1, <1>16, BoundsType DEF Crash
  <2>5. QED
    BY <1>1, <1>2, <1>16, <2>1, <2>2, <2>3, <2>4 DEF Crash
<1>17. CASE DeleteObject
  <2>1. (IF top.fins = {} THEN Absent ELSE [top EXCEPT !.life = "deleting"]) \in Objects
    BY <1>1, <1>17 DEF DeleteObject, R!TypesOK, Objects
  <2>2. QED
    BY <1>1, <1>2, <1>3, <1>8, <1>17, <2>1 DEF DeleteObject
<1>18. Touch => touches' \in 0 .. MaxTouches
  BY <1>1, BoundsType DEF Touch
<1>19. CASE EditObject
  <2>1. PICK v \in 1 .. MaxSpecs : R!Write([top EXCEPT !.spec = v])
    BY <1>19 DEF EditObject
  <2>2. [top EXCEPT !.spec = v] \in Objects
    BY <1>1, <1>19 DEF EditObject, R!TypesOK, Objects
  <2>3. R!TypesOK(Objects, Patches, Stages)' /\ R!CacheOK' /\ PassCurrent'
    BY <1>8, <1>19, <2>1, <2>2 DEF EditObject
  <2>4. QED
    BY <1>1, <1>2, <1>3, <1>18, <1>19, <2>3 DEF EditObject
<1>20. CASE DeleteSecret
  <2>1. KeyTypes'
    BY <1>1, <1>20 DEF DeleteSecret, KeyTypes
  <2>2. QED
    BY <1>1, <1>2, <1>4, <1>5, <1>18, <1>20, <2>1 DEF DeleteSecret
<1>21. CASE Drift
  <2>1. cloud' \in Clouds
    BY <1>1, <1>21, BoundsType DEF Drift, Clouds, Accounts
  <2>2. QED
    BY <1>1, <1>2, <1>3, <1>4, <1>5, <1>18, <1>21, <2>1 DEF Drift
<1>22. QED
  BY <1>9, <1>10, <1>11, <1>12, <1>13, <1>14, <1>15, <1>16, <1>17, <1>19, <1>20, <1>21

\* Every step keeps the types.
LEMMA NextType == TypeInv /\ [Next]_vars => TypeInv'
<1>1. TypeInv /\ UNCHANGED vars => TypeInv'
  BY DEF vars, TypeInv, TypeOK, R!TypesOK, R!Passes, R!Idle, R!CacheOK, PassCurrent
<1>2. QED
  BY <1>1, ComponentsType, OthersType DEF Next

\* The types hold in every state.
LEMMA TypeAlways == Spec => []TypeInv
<1>1. Init => TypeInv
  <2> SUFFICES ASSUME Init PROVE TypeInv
    OBVIOUS
  <2>1. NewObject \in Objects /\ NoCloud \in Clouds
    BY BoundsType DEF NewObject, Objects, Phases, Messages, NoCloud, Clouds, Accounts
  <2>2. R!TypesOK(Objects, Patches, Stages) /\ R!CacheOK /\ PassCurrent
    BY <2>1 DEF Init, R!Start, R!TypesOK, R!Passes, R!CacheOK, PassCurrent
  <2>3. QED
    BY <2>1, <2>2, BoundsType DEF Init, TypeInv, TypeOK, Stages
<1>2. QED
  BY <1>1, NextType, PTL DEF Spec

\* Every variable keeps its type: the object and its copies, what AWS holds, the keys.
THEOREM AWSTypeCorrect == Spec => []TypeOK
BY TypeAlways, PTL DEF TypeInv

-----------------------------------------------------------------------------
(* The access key of an IAM user.                                           *)

KeysAlike == \A k, l \in cloud.keys : k = l

\* Whatever a pass, a failing call or somebody else does to the keys leaves one at most.
LEMMA KeysStep == TypeInv /\ KeysAlike /\ [Next]_vars => KeysAlike'
<1> SUFFICES ASSUME TypeInv, KeysAlike, [Next]_vars PROVE KeysAlike'
  OBVIOUS
<1>1. cloud \in Clouds
  BY DEF TypeInv, TypeOK
<1>2. cloud'.keys \subseteq cloud.keys => KeysAlike'
  BY DEF KeysAlike
<1>3. CASE Rotate
  <2>1. ASSUME NEW k, cloud' = [cloud EXCEPT !.keys = {k}]
        PROVE  KeysAlike'
    BY <1>1, <2>1 DEF KeysAlike, Clouds
  <2>2. ASSUME NEW deleted, cloud' = [cloud EXCEPT !.keys = @ \ deleted]
        PROVE  KeysAlike'
    BY <1>1, <1>2, <2>2 DEF Clouds
  <2>3. QED
    BY <1>3, <2>1, <2>2 DEF Rotate
<1>4. CASE SecurityGroup \/ SnapshotSteps
  <2>1. \/ cloud' = NoCloud
        \/ \E g : cloud' = [cloud EXCEPT !.group = g]
        \/ cloud' = [cloud EXCEPT !.account = "busy"]
        \/ UNCHANGED cloud
    BY <1>4 DEF SecurityGroup, GroupFinalizer, Group, DestroyGroup, GroupUnseen,
       ReleaseGroup, SnapshotSteps, SnapshotFinalizer, SnapshotExpiry, Snapshot, DestroySnapshot,
       ReleaseSnapshot
  <2>2. cloud'.keys \subseteq cloud.keys
    BY <1>1, <2>1 DEF NoCloud, Clouds
  <2>3. QED
    BY <1>2, <2>2
<1>5. CASE AccountSteps
  <2>1. cloud'.keys = cloud.keys
    BY <1>1, <1>5 DEF AccountSteps, UserFinalizer, RoleFinalizer, BucketFinalizer,
       DomainFinalizer, Finalizer, User, Role, Bucket, MakeAccount, Domain, UserTag, RoleTag,
       BucketTag, DomainTag, Tag, UserPolicies, RolePolicies, BucketPolicy, PutPolicies,
       DomainConfig, Clouds
  <2>2. QED
    BY <1>2, <2>1
<1>6. CASE TakeDown
  <2>1. CASE EmptyUser \/ EmptyRole \/ EmptyBucket
    BY <1>1, <1>2, <2>1 DEF EmptyUser, EmptyRole, EmptyBucket, Clouds
  <2>2. CASE DestroyUser \/ DestroyRole \/ DestroyBucket
    <3>1. cloud' = NoCloud \/ UNCHANGED cloud
      BY <2>2 DEF DestroyUser, DestroyRole, DestroyBucket, Destroy
    <3>2. QED
      BY <1>1, <1>2, <3>1 DEF NoCloud, Clouds
  <2>3. CASE DestroyDomain \/ Release
    BY <1>1, <1>2, <2>3 DEF DestroyDomain, Release, Clouds
  <2>4. QED
    BY <1>6, <2>1, <2>2, <2>3 DEF TakeDown
<1>7. CASE Drift \/ CloudMoves
  <2>1. cloud'.keys \subseteq cloud.keys
    BY <1>1, <1>7 DEF Drift, CloudMoves, NoCloud, Clouds
  <2>2. QED
    BY <1>2, <2>1
<1>8. CASE UNCHANGED cloud
  BY <1>2, <1>8
<1>9. QED
  BY <1>3, <1>4, <1>5, <1>6, <1>7, <1>8
     DEF Next, vars, Components, Credentials, Store, Begin, Save, Sync, SyncSecret, TimerFires,
         Expire, WatchTTL, Crash, DeleteObject, EditObject, DeleteSecret

\* An IAM user never has two access keys: not when the secret could not be written, the
\* cache of secrets is behind, or the process starts again between the two.
THEOREM OneKeyCorrect == Spec => []OneKey
<1>1. Init => KeysAlike
  BY DEF Init, NoCloud, KeysAlike
<1>2. KeysAlike => OneKey
  <2> SUFFICES ASSUME KeysAlike PROVE OneKey
    OBVIOUS
  <2>1. CASE cloud.keys = {}
    BY <2>1, FS_EmptySet DEF OneKey
  <2>2. CASE cloud.keys # {}
    <3>1. PICK k : cloud.keys = {k}
      BY <2>2 DEF KeysAlike
    <3>2. Cardinality(cloud.keys) = 1
      BY <3>1, FS_Singleton
    <3>3. QED
      BY <3>2 DEF OneKey
  <2>3. QED
    BY <2>1, <2>2
<1>3. QED
  BY <1>1, <1>2, TypeAlways, KeysStep, PTL DEF Spec

-----------------------------------------------------------------------------
(* The finalizer of the account.                                            *)

\* What a copy o tells of the object p itself, however old it is: the finalizer of a
\* live one is still there, and a deletion is not taken back.
TellsOf(o, p) ==
    o # Absent =>
        /\ o.life = "live" /\ "account" \in o.fins => p # Absent /\ "account" \in p.fins
        /\ o.life = "deleting" => p = Absent \/ p.life = "deleting"

\* The cache is not behind a pass that has seen the deletion.
DeletionSeen ==
    pass # R!Idle /\ pass.obj.life = "deleting" /\ view.obj # Absent =>
        view.obj.life = "deleting"

\* The components run on objects that are in the state they are for.
Placed ==
    /\ pass.at \in {"expiry", "account", "tag", "policy", "keys", "store"} =>
         pass.obj.life = "live" /\ "account" \in pass.obj.fins
    /\ pass.at \in {"empty", "destroy", "release"} => pass.obj.life = "deleting"
    /\ pass.at \in {"destroygroup", "releasegroup"} =>
         pass.obj.life = "deleting" /\ "account" \notin pass.obj.fins

\* A domain that is configured is there.
DomainThere ==
    kind = "ElasticSearch" /\ pass.at \in {"tag", "policy"} => cloud.account = "present"

FinalizerInv ==
    /\ TellsOf(view.obj, top) /\ (pass # R!Idle => TellsOf(pass.obj, top))
    /\ DeletionSeen /\ Placed

\* An account that is to be taken down has an object that answers for it.
AccountInv ==
    /\ LifeOf(cloud.account) = "present" => top # Absent /\ "account" \in top.fins
    /\ pass.at = "release" => LifeOf(cloud.account) # "present"

\* The objects of these kinds take their account down whatever ENABLE_FINALIZERS says.
TakesDown == EnableFinalizers \/ Kinds \subseteq {"IAMUser", "IAMRole", "RDSSnapshot"}

\* What the world around and a write of the status may make of an object.
Becomes(p, q) ==
    \/ q = p
    \/ p # Absent /\ q # Absent /\ Alike(q, p)
    \/ /\ p # Absent /\ p.life = "live"
       /\ IF p.fins = {} THEN q = Absent
          ELSE q # Absent /\ q.life = "deleting" /\ q.fins = p.fins

\* None of it makes a copy wrong.
LEMMA TellsStill ==
    ASSUME NEW o, NEW p, NEW q, TellsOf(o, p), Becomes(p, q)
    PROVE  TellsOf(o, q)
BY DEF TellsOf, Becomes, Alike

\* A copy tells the truth of what it is a copy of.
LEMMA TellsOfItself == \A o \in Objects : TellsOf(o, o)
BY DEF TellsOf

\* What everything but the components does to the object, its copies and the account.
WorldMoves ==
    /\ Becomes(top, top')
    /\ view'.obj = view.obj \/ (view'.obj = top /\ UNCHANGED <<top, pass>>)
         \/ (view'.obj = top /\ UNCHANGED top /\ pass' = R!Idle)
    /\ \/ pass' = R!Idle
       \/ /\ pass # R!Idle /\ pass' # R!Idle
          /\ pass'.obj = pass.obj /\ pass'.at \in {pass.at, "replay"}
       \/ /\ pass' # R!Idle /\ view.obj # Absent /\ pass'.obj = view.obj
          /\ pass'.at \in {"groupfinalizer", "finalizer"} /\ UNCHANGED <<top, view>>
    /\ \/ cloud'.account = cloud.account
       \/ /\ cloud.account = "busy" /\ cloud'.account \in {"present", "failed"}
          /\ UNCHANGED top
       \/ cloud.account = "going" /\ cloud'.account = "absent" /\ UNCHANGED top
    /\ kind' = kind

\* All of it is of that form.
LEMMA WorldDoes ==
    ASSUME TypeInv, UNCHANGED vars \/ (Next /\ ~Components)
    PROVE  WorldMoves
<1> USE DEF secretVars, boundVars
<1>1. /\ R!TypesOK(Objects, Patches, Stages) /\ R!CacheOK /\ cloud \in Clouds
  BY DEF TypeInv, TypeOK, Stages
<1>2. R!Idle.at = "idle" /\ top \in Objects /\ (pass # R!Idle => pass.at # "idle")
  BY <1>1 DEF R!Idle, R!TypesOK, R!Passes, Stages
<1>3. ASSUME UNCHANGED <<top, pass, kind, cloud>>, view'.obj \in {view.obj, top}
      PROVE  WorldMoves
  BY <1>3 DEF WorldMoves, Becomes
<1>4. ASSUME NEW o, R!Write(o), Becomes(top, o), UNCHANGED <<cloud, kind>>
      PROVE  WorldMoves
  <2>1. view'.obj = view.obj /\ top' = o
    BY <1>1, <1>4 DEF R!Write, R!TypesOK
  <2>2. CASE pass.at = "idle"
    <3>1. pass' = R!Idle
      BY <1>2, <1>4, <2>2 DEF R!Write
    <3>2. QED
      BY <1>4, <2>1, <3>1 DEF WorldMoves
  <2>3. CASE pass.at # "idle"
    <3>1. pass # R!Idle /\ pass \in R!Passes(Objects, Patches, Stages)
      BY <1>1, <1>2, <2>3 DEF R!TypesOK
    <3>2. pass'.obj = pass.obj /\ pass'.at = pass.at
      BY <1>4, <2>3, <3>1 DEF R!Write, R!Passes
    <3>3. pass' # R!Idle
      BY <1>2, <2>3, <3>2
    <3>4. QED
      BY <1>4, <2>1, <3>1, <3>2, <3>3 DEF WorldMoves
  <2>4. QED
    BY <2>2, <2>3
<1>5. CASE Begin
  <2>1. /\ UNCHANGED <<top, view, kind, cloud>>
        /\ \/ pass' = R!Idle
           \/ /\ view.obj # Absent /\ pass'.obj = view.obj
              /\ pass'.at \in {"groupfinalizer", "finalizer"}
    BY <1>5 DEF Begin, R!Begin, R!Fresh
  <2>2. QED
    BY <1>2, <2>1 DEF WorldMoves, Becomes
<1>6. CASE Save
  <2>1. R!Save(FALSE) /\ FALSE \in BOOLEAN /\ UNCHANGED <<kind, cloud>>
    BY <1>6 DEF Save
  <2>2. /\ pass # R!Idle /\ pass.at \in {"save", "replay"}
        /\ view'.obj = view.obj
        /\ pass' = R!Idle \/ pass'.at = "replay"
    BY <1>1, <2>1, Modifiers, R!SaveEffect
  <2>3. /\ \/ top' = top
           \/ /\ top # Absent /\ pass.current
              /\ top' = [top EXCEPT !.status = pass.obj.status]
           \/ /\ view.obj # Absent /\ view.current
              /\ top' = [top EXCEPT !.status = Apply(pass.patch, view.obj).status]
        /\ \/ pass' = R!Idle
           \/ /\ pass'.obj = pass.obj /\ pass'.patch = pass.patch
              /\ pass'.current = pass.current /\ UNCHANGED <<top, view>>
    BY <1>1, <2>1, R!SaveStatus
  <2>4. pass \in R!Passes(Objects, Patches, Stages)
    BY <1>1 DEF R!TypesOK
  <2>5. Becomes(top, top')
    <3>1. CASE top # Absent /\ top' = [top EXCEPT !.status = pass.obj.status]
      <4>1. pass.obj \in Objects \ {Absent}
        BY <2>2, <2>4 DEF R!Passes
      <4>2. top' # Absent /\ Alike(top', top)
        BY <1>2, <3>1, <4>1, StatusType
      <4>3. QED
        BY <3>1, <4>2 DEF Becomes
    <3>2. CASE /\ view.obj # Absent /\ view.current
               /\ top' = [top EXCEPT !.status = Apply(pass.patch, view.obj).status]
      <4>1. pass.patch \in Patches
        BY <2>2, <2>4 DEF R!Passes
      <4>2. view.obj = top
        BY <1>1, <3>2 DEF R!CacheOK
      <4>3. Apply(pass.patch, view.obj) \in Objects \ {Absent}
        BY <1>2, <3>2, <4>1, <4>2, ApplyType
      <4>4. top' # Absent /\ Alike(top', top)
        BY <1>2, <3>2, <4>2, <4>3, StatusType
      <4>5. QED
        BY <3>2, <4>2, <4>4 DEF Becomes
    <3>3. QED
      BY <2>3, <3>1, <3>2 DEF Becomes
  <2>6. pass' # R!Idle => pass'.obj = pass.obj /\ pass'.at = "replay"
    BY <2>2, <2>3
  <2>7. QED
    BY <2>1, <2>2, <2>5, <2>6 DEF WorldMoves
<1>7. CASE Sync
  BY <1>3, <1>7 DEF Sync, R!Sync
<1>8. CASE SyncSecret \/ Expire \/ WatchTTL \/ DeleteSecret
  BY <1>3, <1>8 DEF SyncSecret, Expire, WatchTTL, DeleteSecret
<1>9. CASE TimerFires
  BY <1>3, <1>9 DEF TimerFires, R!TimerFires
<1>10. CASE CloudMoves
  <2>1. \/ cloud.account = "busy" /\ cloud'.account \in {"present", "failed"}
        \/ cloud.account = "going" /\ cloud'.account = "absent"
    BY <1>1, <1>10 DEF CloudMoves, NoCloud, Clouds
  <2>2. UNCHANGED <<top, view, pass, kind>>
    BY <1>10 DEF CloudMoves
  <2>3. QED
    BY <2>1, <2>2 DEF WorldMoves, Becomes
<1>11. CASE Crash
  BY <1>11 DEF Crash, R!Restart, WorldMoves, Becomes
<1>12. CASE DeleteObject
  <2>1. /\ top \in Objects \ {Absent} /\ top.life = "live" /\ UNCHANGED <<cloud, kind>>
        /\ R!Write(IF top.fins = {} THEN Absent ELSE [top EXCEPT !.life = "deleting"])
    BY <1>2, <1>12 DEF DeleteObject
  <2>2. /\ [top EXCEPT !.life = "deleting"] # Absent
        /\ [top EXCEPT !.life = "deleting"].life = "deleting"
        /\ [top EXCEPT !.life = "deleting"].fins = top.fins
    BY <2>1, Present DEF Objects, Absent
  <2>3. Becomes(top, IF top.fins = {} THEN Absent ELSE [top EXCEPT !.life = "deleting"])
    BY <2>1, <2>2 DEF Becomes
  <2>4. QED
    BY <1>4, <2>1, <2>3
<1>13. CASE EditObject
  <2>1. PICK v \in 1 .. MaxSpecs : R!Write([top EXCEPT !.spec = v])
    BY <1>13 DEF EditObject
  <2>2. top \in Objects \ {Absent} /\ UNCHANGED <<cloud, kind>>
    BY <1>2, <1>13 DEF EditObject
  <2>3. Becomes(top, [top EXCEPT !.spec = v])
    BY <2>2 DEF Becomes, Objects, Absent, Alike
  <2>4. QED
    BY <1>4, <2>1, <2>2, <2>3
<1>14. CASE Drift
  <2>1. cloud'.account = cloud.account /\ UNCHANGED <<top, view, pass, kind>>
    BY <1>1, <1>14 DEF Drift, Clouds
  <2>2. QED
    BY <2>1 DEF WorldMoves, Becomes
<1>15. CASE UNCHANGED vars
  BY <1>3, <1>15 DEF vars
<1>16. QED
  BY <1>5, <1>6, <1>7, <1>8, <1>9, <1>10, <1>11, <1>12, <1>13, <1>14, <1>15 DEF Next

\* Every step keeps what copies tell, and where components run.
LEMMA FinalizerStep == TypeInv /\ FinalizerInv /\ [Next]_vars => FinalizerInv'
<1> SUFFICES ASSUME TypeInv, FinalizerInv, [Next]_vars PROVE FinalizerInv'
  OBVIOUS
<1>1. /\ top \in Objects /\ R!Idle.at = "idle" /\ view.obj \in Objects
  BY DEF TypeInv, TypeOK, R!TypesOK, R!Idle
<1>2. CASE WorldMoves
  <2>1. TellsOf(view'.obj, top')
    BY <1>1, <1>2, TellsStill, TellsOfItself DEF WorldMoves, FinalizerInv
  <2>2. CASE pass' = R!Idle
    BY <1>1, <2>1, <2>2 DEF FinalizerInv, DeletionSeen, Placed
  <2>3. CASE /\ pass # R!Idle /\ pass' # R!Idle
             /\ pass'.obj = pass.obj /\ pass'.at \in {pass.at, "replay"}
    <3>1. TellsOf(pass'.obj, top')
      BY <1>2, <2>3, TellsStill DEF WorldMoves, FinalizerInv
    <3>2. Placed'
      BY <2>3 DEF FinalizerInv, Placed
    <3>3. DeletionSeen'
      <4>1. CASE view'.obj = view.obj
        BY <2>3, <4>1 DEF FinalizerInv, DeletionSeen
      <4>2. CASE view'.obj = top
        BY <2>3, <4>2, Present, <1>1 DEF FinalizerInv, DeletionSeen, TellsOf
      <4>3. QED
        BY <1>2, <4>1, <4>2 DEF WorldMoves
    <3>4. QED
      BY <2>1, <3>1, <3>2, <3>3 DEF FinalizerInv
  <2>4. CASE /\ pass' # R!Idle /\ view.obj # Absent /\ pass'.obj = view.obj
             /\ pass'.at \in {"groupfinalizer", "finalizer"} /\ UNCHANGED <<top, view>>
    BY <2>1, <2>4 DEF FinalizerInv, DeletionSeen, Placed
  <2>5. QED
    BY <1>2, <2>2, <2>3, <2>4 DEF WorldMoves
<1>3. CASE Components
  <2>1. pass.at \in Stages
    BY <1>3, ComponentsAt
  <2>2. /\ pass # R!Idle /\ pass.obj \in Objects \ {Absent}
        /\ TellsOf(pass.obj, top) /\ TellsOf(view.obj, top)
    BY <2>1, Running DEF TypeInv, FinalizerInv
  <2>3. ASSUME NEW stage \in Stages \cup {"save"}, Returns(stage), Leads(stage)
        PROVE  FinalizerInv'
    <3>1. TellsOf(pass'.obj, top') /\ TellsOf(view'.obj, top')
      BY <2>2, <2>3 DEF Returns, TellsOf, Alike
    <3>2. DeletionSeen'
      BY <2>2, <2>3 DEF Returns, Alike, FinalizerInv, DeletionSeen
    <3>3. Placed'
      BY <2>3 DEF Returns, Alike, FinalizerInv, Placed, Leads
    <3>4. QED
      BY <3>1, <3>2, <3>3 DEF FinalizerInv
  <2>4. ASSUME NEW fins \in SUBSET Finalizers, NEW stage \in Stages \cup {"save"},
               Rewrites(fins, stage), Writes(fins, stage)
        PROVE  FinalizerInv'
    <3>1. DeletionSeen'
      BY <2>2, <2>4 DEF Rewrites, FinalizerInv, DeletionSeen
    <3>2. Placed'
      BY <2>4 DEF Rewrites, Writes, Placed
    <3>3. CASE pass.obj.life = "live"
      <4>1. /\ top' # Absent /\ top'.life = "live" /\ top'.fins = fins
            /\ top.life = "live" /\ top.fins = pass.obj.fins
        BY <2>4, <3>3 DEF Rewrites, Alike
      <4>2. "account" \in top.fins => "account" \in fins
        BY <2>4, <4>1, <3>3 DEF Writes, FinalizerInv, Placed
      <4>3. TellsOf(view'.obj, top')
        BY <2>2, <2>4, <4>1, <4>2 DEF Rewrites, TellsOf
      <4>4. TellsOf(pass'.obj, top')
        BY <2>4, <3>3, <4>1 DEF Rewrites, TellsOf
      <4>5. QED
        BY <3>1, <3>2, <4>3, <4>4 DEF FinalizerInv
    <3>4. CASE pass.obj.life = "deleting"
      <4>1. top' = Absent \/ top'.life = "deleting"
        BY <2>4, <3>4 DEF Rewrites, Alike
      <4>2. view.obj # Absent => view.obj.life = "deleting"
        BY <2>2, <3>4 DEF FinalizerInv, DeletionSeen
      <4>3. TellsOf(view'.obj, top') /\ TellsOf(pass'.obj, top')
        BY <2>4, <3>4, <4>1, <4>2 DEF Rewrites, TellsOf
      <4>4. QED
        BY <3>1, <3>2, <4>3 DEF FinalizerInv
    <3>5. QED
      BY <2>2, <3>3, <3>4, Present
  <2>5. CASE Expires
    <3>1. /\ top' # Absent /\ top'.life = "deleting" /\ top'.fins = top.fins
          /\ view'.obj = view.obj
      BY <1>1, <2>5, Present DEF Expires, Objects, Absent, TypeInv, TypeOK, R!TypesOK
    <3>2. pass'.obj = pass.obj /\ pass'.at = "save"
      BY <2>1, <2>5, Running DEF Expires, TypeInv, R!Passes
    <3>3. TellsOf(view'.obj, top') /\ TellsOf(pass'.obj, top')
      BY <2>2, <3>1, <3>2 DEF TellsOf
    <3>4. DeletionSeen' /\ Placed'
      BY <2>2, <3>1, <3>2 DEF FinalizerInv, DeletionSeen, Placed
    <3>5. QED
      BY <3>3, <3>4 DEF FinalizerInv
  <2>6. QED
    BY <1>3, <2>3, <2>4, <2>5, ComponentsStep DEF Step
<1>4. QED
  BY <1>2, <1>3, WorldDoes

-----------------------------------------------------------------------------
(* What components do to the account.                                       *)

\* It is made, configured again, taken down, or left as it is.
AccountMoves ==
    \/ cloud'.account = cloud.account
    \/ /\ pass.at = "account" /\ cloud.account = "absent"
       /\ cloud'.account \in {"present", "busy"} /\ UNCHANGED top
    \/ /\ pass.at = "policy" /\ kind = "ElasticSearch"
       /\ cloud'.account = "busy" /\ UNCHANGED top
    \/ /\ pass.at \in {"empty", "destroy"} /\ LifeOf(cloud.account) = "present"
       /\ cloud'.account \in {"absent", "going"} /\ UNCHANGED top

\* All that components do to it is of that form.
LEMMA AccountDoes ==
    ASSUME TypeInv, Components
    PROVE  AccountMoves
<1>1. cloud \in Clouds
  BY DEF TypeInv, TypeOK
<1>2. CASE UNCHANGED cloud
  BY <1>2 DEF AccountMoves
<1>3. CASE SecurityGroup
  BY <1>1, <1>3 DEF SecurityGroup, GroupFinalizer, Group, DestroyGroup, GroupUnseen,
     ReleaseGroup, Clouds, AccountMoves
<1>4. CASE User \/ Role \/ Bucket
  BY <1>1, <1>4 DEF User, Role, Bucket, MakeAccount, Clouds, AccountMoves
<1>5. CASE Domain
  BY <1>1, <1>5 DEF Domain, Clouds, AccountMoves
<1>6. CASE UserTag \/ BucketTag \/ DomainTag
  BY <1>1, <1>6 DEF UserTag, BucketTag, DomainTag, Tag, Clouds, AccountMoves
<1>7. CASE UserPolicies \/ RolePolicies \/ BucketPolicy
  BY <1>1, <1>7 DEF UserPolicies, RolePolicies, BucketPolicy, PutPolicies, Clouds, AccountMoves
<1>8. CASE DomainConfig
  BY <1>1, <1>8 DEF DomainConfig, Clouds, AccountMoves
<1>9. CASE Rotate
  BY <1>1, <1>9 DEF Rotate, Clouds, AccountMoves
<1>10. CASE EmptyUser \/ EmptyRole \/ EmptyBucket
  BY <1>1, <1>10 DEF EmptyUser, EmptyRole, EmptyBucket, Clouds, AccountMoves
<1>11. CASE DestroyUser \/ DestroyRole \/ DestroyBucket
  BY <1>11 DEF DestroyUser, DestroyRole, DestroyBucket, Destroy, NoCloud, LifeOf, AccountMoves
<1>12. CASE DestroyDomain
  BY <1>1, <1>12 DEF DestroyDomain, Clouds, LifeOf, AccountMoves
<1>13. CASE Snapshot
  BY <1>1, <1>13 DEF Snapshot, Clouds, AccountMoves
<1>14. CASE DestroySnapshot
  BY <1>14 DEF DestroySnapshot, NoCloud, LifeOf, AccountMoves
<1>15. QED
  BY <1>2, <1>3, <1>4, <1>5, <1>6, <1>7, <1>8, <1>9, <1>10, <1>11, <1>12, <1>13, <1>14
     DEF Components, AccountSteps, UserFinalizer, RoleFinalizer, BucketFinalizer, DomainFinalizer,
         Finalizer, RoleTag, Credentials, Store, TakeDown, Release, SnapshotSteps,
         SnapshotFinalizer, SnapshotExpiry, ReleaseSnapshot

\* What the life of an account is to its finalizer.
LEMMA Lives ==
    /\ LifeOf("absent") = "absent" /\ LifeOf("going") = "going"
    /\ LifeOf("present") = "present" /\ LifeOf("busy") = "present"
    /\ LifeOf("failed") = "present"
    /\ \A a : LifeOf(a) \in {"absent", "going", "present"}
BY DEF LifeOf

\* Where each result takes the pass.
LEMMA ResultsLead ==
    ASSUME TypeOK, pass.at \in Stages
    PROVE  /\ \A stage : GoOn(stage) => pass'.at = stage
           /\ \A phase, after : Finish(phase, after) => pass'.at = "save"
           /\ \A phase, after : Captured(phase, after) => pass'.at = "save"
           /\ \A message, requeue :
                R!ReturnError(message, NoPatch, requeue) => pass'.at = "save"
           /\ Refused \/ CallFails \/ Conflict => pass'.at = "save"
           /\ \A fins, stage, copied, requeue :
                WriteFinalizers(fins, stage, copied, requeue) => pass'.at = stage
<1>1. pass \in R!Passes(Objects, Patches, Stages) /\ pass # R!Idle
  BY Running
<1>2. QED
  BY <1>1 DEF GoOn, Finish, Captured, Refused, CallFails, Conflict, WriteFinalizers, R!Return,
     R!ReturnError, R!Update, R!Passes

\* An account whose finalizer is about to be taken off is gone or going, unless it is
\* to stay; a domain that is about to be configured is there.
Right ==
    /\ pass'.at = "release" =>
         \/ LifeOf(cloud'.account) # "present"
         \/ ~EnableFinalizers /\ kind \in {"S3Bucket", "ElasticSearch"}
    /\ kind = "ElasticSearch" /\ pass'.at \in {"tag", "policy"} =>
         cloud'.account = "present"

\* That is where components take the pass.
LEMMA Arrivals ==
    ASSUME TypeInv, DomainThere, Components
    PROVE  Right
<1>1. TypeOK /\ cloud \in Clouds /\ pass.at \in Stages
  BY ComponentsAt DEF TypeInv, TypeOK
<1>2. pass'.at \notin {"release", "tag", "policy"} => Right
  BY DEF Right
<1>3. Refused \/ CallFails \/ Conflict => Right
  BY <1>1, <1>2, ResultsLead
<1>4. \A phase, after : Finish(phase, after) \/ Captured(phase, after) => Right
  BY <1>1, <1>2, ResultsLead
<1>5. \A message, requeue : R!ReturnError(message, NoPatch, requeue) => Right
  BY <1>1, <1>2, ResultsLead
<1>6. \A stage : GoOn(stage) /\ stage \notin {"release", "tag", "policy"} => Right
  BY <1>1, <1>2, ResultsLead
<1>7. ASSUME NEW fins, NEW stage \in {"group", "finalizer", "save", "expiry"},
             NEW copied, NEW requeue, WriteFinalizers(fins, stage, copied, requeue)
      PROVE  Right
  <2>1. pass'.at = stage
    BY <1>1, <1>7, ResultsLead
  <2>2. QED
    BY <1>2, <1>7, <2>1
<1>8. /\ GoOn("release") /\ LifeOf(cloud'.account) # "present" => Right
      /\ GoOn("release") /\ ~EnableFinalizers /\ kind \in {"S3Bucket", "ElasticSearch"} => Right
  BY <1>1, ResultsLead DEF Right
<1>9. \A stage \in {"tag", "policy"} :
        GoOn(stage) /\ (kind # "ElasticSearch" \/ cloud'.account = "present") => Right
  BY <1>1, ResultsLead DEF Right
<1>10. CASE SecurityGroup
  <2>1. CASE \/ R!Return("finalizer", NoPatch, FALSE, TRUE)
             \/ R!Return("finalizer", NoPatch, TRUE, FALSE)
             \/ R!Return("finalizer", "Processing", FALSE, FALSE)
             \/ R!Return("releasegroup", NoPatch, FALSE, FALSE)
    <3>1. pass'.at \in {"finalizer", "releasegroup"}
      BY <1>1, <2>1, Running DEF R!Return, R!Passes
    <3>2. QED
      BY <1>2, <3>1
  <2>2. QED
    BY <1>3, <1>6, <1>7, <1>10, <2>1 DEF SecurityGroup, GroupFinalizer, Group, DestroyGroup,
       GroupUnseen, ReleaseGroup
<1>11. ASSUME NEW takesDown \in BOOLEAN, Finalizer(takesDown),
              takesDown \/ (~EnableFinalizers /\ kind \in {"S3Bucket", "ElasticSearch"})
       PROVE  Right
  BY <1>3, <1>4, <1>6, <1>7, <1>8, <1>11 DEF Finalizer
<1>12. CASE UserFinalizer \/ RoleFinalizer \/ BucketFinalizer \/ DomainFinalizer
  <2>1. TRUE \in BOOLEAN /\ EnableFinalizers \in BOOLEAN
    BY AWSConstantsOK
  <2>2. QED
    BY <1>11, <1>12, <2>1 DEF UserFinalizer, RoleFinalizer, BucketFinalizer, DomainFinalizer
<1>13. CASE User \/ Role \/ Bucket
  BY <1>3, <1>9, <1>13 DEF User, Role, Bucket, MakeAccount
<1>14. CASE Domain
  BY <1>3, <1>4, <1>9, <1>14 DEF Domain
<1>15. CASE UserTag \/ BucketTag \/ DomainTag
  <2>1. CASE CallFails
    BY <1>3, <2>1
  <2>2. CASE GoOn("policy") /\ cloud' = [cloud EXCEPT !.tagged = TRUE] /\ pass.at = "tag"
    <3>1. kind # "ElasticSearch" \/ cloud'.account = "present"
      BY <1>1, <2>2 DEF DomainThere, Clouds
    <3>2. QED
      BY <1>9, <2>2, <3>1
  <2>3. QED
    BY <1>15, <2>1, <2>2 DEF UserTag, BucketTag, DomainTag, Tag
<1>16. CASE RoleTag
  BY <1>3, <1>5, <1>9, <1>16 DEF RoleTag
<1>17. CASE UserPolicies \/ RolePolicies \/ BucketPolicy \/ DomainConfig
  BY <1>3, <1>4, <1>6, <1>17 DEF UserPolicies, RolePolicies, BucketPolicy, DomainConfig,
     PutPolicies
<1>18. CASE Credentials
  BY <1>3, <1>4, <1>5, <1>6, <1>18 DEF Credentials, Rotate, Store
<1>19. CASE EmptyUser \/ EmptyRole \/ EmptyBucket
  BY <1>3, <1>6, <1>19 DEF EmptyUser, EmptyRole, EmptyBucket
<1>20. CASE DestroyUser \/ DestroyRole \/ DestroyBucket
  <2>1. CASE GoOn("release") /\ (cloud' = NoCloud \/ (cloud.account = "absent" /\ UNCHANGED cloud))
    <3>1. cloud'.account = "absent"
      BY <2>1 DEF NoCloud
    <3>2. QED
      BY <1>8, <2>1, <3>1, Lives
  <2>2. QED
    BY <1>3, <1>20, <2>1 DEF DestroyUser, DestroyRole, DestroyBucket, Destroy
<1>21. CASE DestroyDomain
  <2>1. CASE GoOn("release") /\ cloud'.account \in {"absent", "going"}
    <3>1. LifeOf(cloud'.account) # "present"
      BY <2>1, Lives
    <3>2. QED
      BY <1>8, <2>1, <3>1
  <2>2. QED
    BY <1>1, <1>3, <1>21, <2>1 DEF DestroyDomain, Clouds
<1>22. CASE Release \/ ReleaseSnapshot
  BY <1>3, <1>7, <1>22 DEF Release, ReleaseSnapshot
<1>23. CASE SnapshotFinalizer
  BY <1>3, <1>4, <1>6, <1>7, <1>23 DEF SnapshotFinalizer
<1>24. CASE SnapshotExpiry
  <2>1. CASE pass' = [pass EXCEPT !.at = "save", !.current = FALSE, !.requeue = TRUE]
    <3>1. pass'.at = "save"
      BY <1>1, <2>1, Running DEF R!Passes
    <3>2. QED
      BY <1>2, <3>1
  <2>2. QED
    BY <1>5, <1>6, <1>24, <2>1 DEF SnapshotExpiry
<1>25. CASE Snapshot
  BY <1>3, <1>4, <1>25 DEF Snapshot
<1>26. CASE DestroySnapshot
  <2>1. CASE GoOn("release") /\ cloud' = NoCloud
    <3>1. cloud'.account = "absent"
      BY <2>1 DEF NoCloud
    <3>2. QED
      BY <1>8, <2>1, <3>1, Lives
  <2>2. QED
    BY <1>3, <1>26, <2>1 DEF DestroySnapshot
<1>27. QED
  BY <1>10, <1>12, <1>13, <1>14, <1>15, <1>16, <1>17, <1>18, <1>19, <1>20, <1>21, <1>22, <1>23,
     <1>24, <1>25, <1>26 DEF Components, AccountSteps, TakeDown, SnapshotSteps

-----------------------------------------------------------------------------
(* The finalizer keeps its promise.                                         *)

Guarded == top # Absent /\ "account" \in top.fins

AnsweredInv == FinalizerInv /\ DomainThere /\ AccountInv

\* What a component does to the object is a step of a guarded object, or nothing.
ObjectStep ==
    \/ Life' = Life /\ Guarded' = Guarded
    \/ Life = "live" /\ Life' = "live" /\ Guarded'
    \/ Life = "live" /\ Guarded /\ Life' = "deleting" /\ Guarded'
    \/ /\ Life = "deleting" /\ LifeOf(cloud.account) # "present"
       /\ ~Guarded' /\ Life' \in {"deleting", "gone"}

\* Components take their steps with the object in the order a finalizer is for.
LEMMA ObjectDoes ==
    ASSUME TypeInv, FinalizerInv, AccountInv, Components
    PROVE  ObjectStep /\ (Guarded => Guarded' \/ LifeOf(cloud.account) # "present")
<1>1. /\ pass.at \in Stages /\ pass # R!Idle /\ pass.obj \in Objects \ {Absent}
      /\ TellsOf(pass.obj, top)
  BY ComponentsAt, Running DEF TypeInv, FinalizerInv
<1>2. top \in Objects /\ (top # Absent => top.life \in {"live", "deleting"})
  BY Present DEF TypeInv, TypeOK, R!TypesOK
<1>3. CASE UNCHANGED top
  BY <1>3 DEF ObjectStep, Life, Guarded
<1>4. ASSUME NEW fins \in SUBSET Finalizers, NEW stage \in Stages \cup {"save"},
             Rewrites(fins, stage), Writes(fins, stage)
      PROVE  ObjectStep /\ (Guarded => Guarded' \/ LifeOf(cloud.account) # "present")
  <2>1. top # Absent /\ top.life = pass.obj.life /\ top.fins = pass.obj.fins
    BY <1>4 DEF Rewrites, Alike
  <2>2. CASE pass.obj.life = "live" /\ fins = pass.obj.fins \cup {"group"}
    <3>1. top' # Absent /\ top'.life = "live" /\ top'.fins = top.fins \cup {"group"}
      BY <1>4, <2>1, <2>2 DEF Rewrites
    <3>2. QED
      BY <2>1, <2>2, <3>1 DEF ObjectStep, Life, Guarded
  <2>3. CASE pass.obj.life = "live" /\ fins = pass.obj.fins \cup {"account"}
    <3>1. top' # Absent /\ top'.life = "live" /\ top'.fins = top.fins \cup {"account"}
      BY <1>4, <2>1, <2>3 DEF Rewrites
    <3>2. QED
      BY <2>1, <2>3, <3>1 DEF ObjectStep, Life, Guarded
  <2>4. CASE /\ pass.at \in {"releasegroup", "release"} /\ "account" \notin fins
    <3>1. top.life = "deleting"
      BY <2>1, <2>4 DEF FinalizerInv, Placed
    <3>2. top' = Absent \/ (top' # Absent /\ top'.life = "deleting" /\ "account" \notin top'.fins)
      BY <1>4, <2>4, <3>1 DEF Rewrites
    <3>3. LifeOf(cloud.account) # "present"
      BY <2>1, <2>4 DEF FinalizerInv, Placed, AccountInv
    <3>4. QED
      BY <2>1, <3>1, <3>2, <3>3 DEF ObjectStep, Life, Guarded
  <2>5. "account" \notin pass.obj.fins \/ pass.at # "releasegroup"
    BY DEF FinalizerInv, Placed
  <2>6. QED
    BY <1>4, <2>2, <2>3, <2>4, <2>5 DEF Writes
<1>5. CASE Expires
  <2>1. /\ top # Absent /\ top' # Absent /\ top'.life = "deleting" /\ top'.fins = top.fins
    BY <1>2, <1>5, Present DEF Expires, Objects, Absent
  <2>2. Guarded /\ Guarded'
    BY <1>1, <1>5, <2>1 DEF Expires, FinalizerInv, Placed, TellsOf, Guarded
  <2>3. QED
    BY <1>2, <2>1, <2>2 DEF ObjectStep, Life
<1>6. QED
  BY <1>3, <1>4, <1>5, ComponentsStep DEF Step, Returns

\* A write of the object leaves the account alone.
LEMMA ObjectOrAccount ==
    ASSUME TypeInv, Components
    PROVE  UNCHANGED top \/ cloud'.account = cloud.account
BY AccountDoes DEF AccountMoves

\* A step of a component is a step of the promise, or no step of it at all.
LEMMA ComponentsRefine ==
    ASSUME TypeInv, AnsweredInv, TakesDown, Components
    PROVE  /\ AccountInv' /\ DomainThere'
           /\ Answered!Next \/ UNCHANGED <<Life, Guarded, LifeOf(cloud.account)>>
<1>1. FinalizerInv /\ DomainThere /\ AccountInv
  BY DEF AnsweredInv
<1>2. kind \in Kinds /\ kind' = kind
  BY DEF TypeInv, TypeOK, Components
<1>3. DomainThere'
  BY <1>1, <1>2, Arrivals DEF DomainThere, Right
<1>4. pass'.at = "release" => LifeOf(cloud'.account) # "present"
  BY <1>1, <1>2, Arrivals DEF TakesDown, Right
<1>5. /\ pass.at \in Stages /\ pass # R!Idle /\ pass.obj \in Objects \ {Absent}
      /\ TellsOf(pass.obj, top)
  BY <1>1, ComponentsAt, Running DEF TypeInv, FinalizerInv
<1>6. LifeOf(cloud.account) = "present" => Guarded
  BY <1>1 DEF AccountInv, Guarded
<1>7. CASE cloud'.account = cloud.account
  <2>1. ObjectStep /\ (Guarded => Guarded' \/ LifeOf(cloud.account) # "present")
    BY <1>1, ObjectDoes
  <2>2. AccountInv'
    BY <1>4, <1>6, <1>7, <2>1 DEF AccountInv, Guarded
  <2>3. Guarded \in BOOLEAN /\ Guarded' \in BOOLEAN
    BY DEF Guarded
  <2>4. Answered!Next \/ UNCHANGED <<Life, Guarded, LifeOf(cloud.account)>>
    <3>1. CASE Life' = Life /\ Guarded' = Guarded
      BY <1>7, <3>1
    <3>2. CASE Life = "live" /\ Life' = "live" /\ Guarded'
      <4>1. Answered!Guard
        BY <1>7, <2>3, <3>2 DEF Answered!Guard, Guarded
      <4>2. QED
        BY <4>1 DEF Answered!Next
    <3>3. CASE Life = "live" /\ Guarded /\ Life' = "deleting" /\ Guarded'
      <4>1. Answered!Delete
        BY <1>7, <2>3, <3>3 DEF Answered!Delete, Guarded
      <4>2. QED
        BY <4>1 DEF Answered!Next
    <3>4. CASE /\ Life = "deleting" /\ LifeOf(cloud.account) # "present"
               /\ ~Guarded' /\ Life' \in {"deleting", "gone"}
      <4>1. Answered!Release
        BY <1>7, <2>3, <3>4 DEF Answered!Release, Guarded
      <4>2. QED
        BY <4>1 DEF Answered!Next
    <3>5. QED
      BY <2>1, <3>1, <3>2, <3>3, <3>4 DEF ObjectStep
  <2>5. QED
    BY <1>3, <2>2, <2>4
<1>8. CASE /\ pass.at = "account" /\ cloud.account = "absent"
           /\ cloud'.account \in {"present", "busy"} /\ UNCHANGED top
  <2>1. Guarded
    BY <1>1, <1>5, <1>8 DEF FinalizerInv, Placed, TellsOf, Guarded
  <2>2. UNCHANGED <<Life, Guarded>>
    BY <1>8 DEF Life, Guarded
  <2>3. AccountInv'
    BY <1>4, <2>1, <2>2 DEF AccountInv, Guarded
  <2>4. Answered!Make
    BY <1>8, <2>1, <2>2, Lives DEF Answered!Make, Guarded
  <2>5. QED
    BY <1>3, <2>3, <2>4 DEF Answered!Next
<1>9. CASE /\ pass.at = "policy" /\ kind = "ElasticSearch"
           /\ cloud'.account = "busy" /\ UNCHANGED top
  <2>1. LifeOf(cloud.account) = "present" /\ LifeOf(cloud'.account) = "present"
    BY <1>1, <1>9, Lives DEF DomainThere
  <2>2. UNCHANGED <<Life, Guarded>>
    BY <1>9 DEF Life, Guarded
  <2>3. AccountInv'
    BY <1>4, <1>6, <2>1, <2>2 DEF AccountInv, Guarded
  <2>4. QED
    BY <1>3, <2>1, <2>2, <2>3
<1>10. CASE /\ pass.at \in {"empty", "destroy"} /\ LifeOf(cloud.account) = "present"
            /\ cloud'.account \in {"absent", "going"} /\ UNCHANGED top
  <2>1. Guarded
    BY <1>6, <1>10
  <2>2. Life = "deleting"
    BY <1>1, <1>5, <1>10, <2>1 DEF FinalizerInv, Placed, TellsOf, Guarded, Life
  <2>3. UNCHANGED <<Life, Guarded>>
    BY <1>10 DEF Life, Guarded
  <2>4. LifeOf(cloud'.account) \in {"absent", "going"}
    BY <1>10, Lives
  <2>5. AccountInv'
    BY <2>4 DEF AccountInv
  <2>6. Answered!Destroy
    BY <1>10, <2>1, <2>2, <2>3, <2>4 DEF Answered!Destroy, Guarded
  <2>7. QED
    BY <1>3, <2>5, <2>6 DEF Answered!Next
<1>11. QED
  BY <1>7, <1>8, <1>9, <1>10, AccountDoes DEF AccountMoves

\* So is any other step.
LEMMA WorldRefines ==
    ASSUME TypeInv, AnsweredInv, WorldMoves
    PROVE  /\ AccountInv' /\ DomainThere'
           /\ Answered!Next \/ UNCHANGED <<Life, Guarded, LifeOf(cloud.account)>>
<1>1. FinalizerInv /\ DomainThere /\ AccountInv /\ top \in Objects
  BY DEF AnsweredInv, TypeInv, TypeOK, R!TypesOK
<1>2. R!Idle.at = "idle"
  BY DEF R!Idle
<1>3. pass'.at \in {"idle", "groupfinalizer", "finalizer", "replay"} \/ pass'.at = pass.at
  BY <1>2 DEF WorldMoves
<1>4. LifeOf(cloud'.account) = "present" => LifeOf(cloud.account) = "present"
  BY Lives DEF WorldMoves
<1>5. DomainThere'
  <2>1. cloud.account = "present" => cloud'.account = "present"
    BY DEF WorldMoves
  <2>2. QED
    BY <1>1, <1>3, <2>1 DEF DomainThere, WorldMoves
<1>6. UNCHANGED <<Life, Guarded>> \/ Answered!Delete
  <2>1. CASE top' = top
    BY <2>1 DEF Life, Guarded
  <2>2. CASE top # Absent /\ top' # Absent /\ Alike(top', top)
    BY <2>2 DEF Life, Guarded, Alike
  <2>3. CASE /\ top # Absent /\ top.life = "live" /\ top' # top
             /\ IF top.fins = {} THEN top' = Absent
                ELSE top' # Absent /\ top'.life = "deleting" /\ top'.fins = top.fins
    <3>1. cloud'.account = cloud.account
      BY <2>3 DEF WorldMoves
    <3>2. /\ Life = "live" /\ Guarded' = Guarded
          /\ Life' \in IF Guarded THEN {"deleting"} ELSE {"deleting", "gone"}
      BY <2>3 DEF Life, Guarded
    <3>3. QED
      BY <3>1, <3>2 DEF Answered!Delete, Guarded
  <2>4. QED
    BY <2>1, <2>2, <2>3 DEF WorldMoves, Becomes
<1>7. Guarded' = Guarded
  BY <1>6 DEF Answered!Delete, Guarded
<1>8. AccountInv'
  BY <1>1, <1>3, <1>4, <1>7 DEF AccountInv, Guarded
<1>9. CASE cloud'.account = cloud.account
  BY <1>5, <1>6, <1>8, <1>9 DEF Answered!Next
<1>10. CASE /\ cloud.account = "busy" /\ cloud'.account \in {"present", "failed"}
            /\ UNCHANGED top
  <2>1. UNCHANGED <<Life, Guarded, LifeOf(cloud.account)>>
    BY <1>10, Lives DEF Life, Guarded
  <2>2. QED
    BY <1>5, <1>8, <2>1
<1>11. CASE cloud.account = "going" /\ cloud'.account = "absent" /\ UNCHANGED top
  <2>1. Answered!Wither
    BY <1>11, Lives DEF Answered!Wither, Life, Guarded
  <2>2. QED
    BY <1>5, <1>8, <2>1 DEF Answered!Next
<1>12. QED
  BY <1>9, <1>10, <1>11 DEF WorldMoves

\* With finalizers, or where they are heeded whatever the environment says, an account
\* is made, kept and deleted as its finalizer promises.
THEOREM KeepsAccountCorrect ==
    ASSUME TakesDown
    PROVE  Spec => KeepsAccount
<1>1. Init => AnsweredInv /\ Answered!Init
  <2>1. SUFFICES ASSUME Init PROVE AnsweredInv /\ Answered!Init
    OBVIOUS
  <2>2. /\ top = NewObject /\ view.obj = NewObject /\ pass = R!Idle
        /\ cloud.account = "absent"
    BY <2>1 DEF Init, R!Start, NoCloud
  <2>3. NewObject # Absent /\ NewObject.life = "live" /\ NewObject.fins = {}
    BY DEF NewObject, Absent
  <2>4. R!Idle.at = "idle"
    BY DEF R!Idle
  <2>5. QED
    BY <2>1, <2>2, <2>3, <2>4, Lives
       DEF AnsweredInv, FinalizerInv, TellsOf, DeletionSeen, Placed, DomainThere, AccountInv,
           Answered!Init, Life
<1>2. TypeInv /\ AnsweredInv /\ [Next]_vars => AnsweredInv' /\ [Answered!Next]_(Answered!vars)
  <2>1. SUFFICES ASSUME TypeInv, AnsweredInv, [Next]_vars
                 PROVE  AnsweredInv' /\ [Answered!Next]_(Answered!vars)
    OBVIOUS
  <2>2. FinalizerInv'
    BY <2>1, FinalizerStep DEF AnsweredInv
  <2>3. /\ AccountInv' /\ DomainThere'
        /\ Answered!Next \/ UNCHANGED <<Life, Guarded, LifeOf(cloud.account)>>
    BY <2>1, ComponentsRefine, WorldDoes, WorldRefines
  <2>4. QED
    BY <2>2, <2>3 DEF AnsweredInv, Answered!vars, Guarded
<1>3. QED
  BY <1>1, <1>2, TypeAlways, PTL DEF Spec, KeepsAccount, Answered!Spec
=============================================================================

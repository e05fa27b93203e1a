------------------------ MODULE RabbitmqBrokerProofs ------------------------
(***************************************************************************)
(* What holds of RabbitmqBroker for every number of versions, failures,    *)
(* restarts and replays.                                                   *)
(***************************************************************************)
EXTENDS RabbitmqBroker, TLAPS

VTypes == V!TypesOK(Objects, Patches, Stages)
UTypes == U!TypesOK(Objects, Patches, Stages)

Alike(o, p) == o.life = p.life /\ o.fin = p.fin /\ o.spec = p.spec

\* A pass that has missed no write works on a copy of the object, which is there; and so
\* does the cache.
VCurrent ==
    vpass # V!Idle /\ vpass.current =>
        vview.current /\ vview.obj # Absent /\ Alike(vpass.obj, vview.obj)
UCurrent ==
    upass # U!Idle /\ upass.current =>
        uview.current /\ uview.obj # Absent /\ Alike(upass.obj, uview.obj)

TypeInv == TypeOK /\ V!CacheOK /\ U!CacheOK /\ VCurrent /\ UCurrent

\* What a copy of the vhost object with the finalizer tells of the object itself, however
\* old it is.
VKnown(o) ==
    o # Absent /\ o.fin =>
        IF o.life = "live" THEN vtop # Absent /\ vtop.fin
        ELSE vtop = Absent \/ (vtop.life = "deleting" /\ vtop.fin)

\* The components of the vhost run on objects that are in the state they are for.
VPlaced ==
    /\ vpass.at = "vhost" => vpass.obj.life = "live" /\ vpass.obj.fin
    /\ vpass.at = "finalizer" => vpass.obj.life = "live" /\ ~vpass.obj.fin
    /\ vpass.at \in {"destroy", "release"} => vpass.obj.life = "deleting" /\ vpass.obj.fin

VhostInv == VKnown(vview.obj) /\ (vpass # V!Idle => VKnown(vpass.obj)) /\ VPlaced

\* With finalizers, a vhost has an object that answers for it.
VhostAnswered ==
    /\ broker.vhost => vtop # Absent /\ vtop.fin
    /\ vpass.at = "release" => ~broker.vhost

\* The same of the user.
UKnown(o) == o # Absent /\ o.life = "live" /\ o.fin => utop # Absent /\ utop.fin

UPlaced ==
    /\ upass.at = "put" => upass.obj.life = "live" /\ upass.obj.fin
    /\ upass.at = "finalizer" => upass.obj.life = "live" /\ ~upass.obj.fin
    /\ upass.at = "destroy" => upass.obj.life = "deleting"

UserInv == UKnown(uview.obj) /\ (upass # U!Idle => UKnown(upass.obj)) /\ UPlaced

\* A user object is deleted, and a user that was Ready goes, only after the vhost object.
UserOutlives(o) ==
    o # Absent => /\ o.life = "deleting" => vtop = Absent
                  /\ o.status.phase = "Ready" => broker.user \/ vtop = Absent

OutlivesInv ==
    /\ UserOutlives(utop) /\ UserOutlives(uview.obj)
    /\ upass # U!Idle => /\ UserOutlives(upass.obj)
                         /\ upass.patch.phase = "Ready" => broker.user \/ vtop = Absent

\* Whatever says that a live vhost object is Ready says so of a vhost with its user.
SaysReady ==
    \/ vtop.status.phase = "Ready"
    \/ vview.obj # Absent /\ vview.obj.status.phase = "Ready"
    \/ vpass # V!Idle /\ (vpass.obj.status.phase = "Ready" \/ vpass.patch.phase = "Ready")

ReadyInv ==
    vtop # Absent /\ vtop.life = "live" /\ SaysReady =>
        broker.vhost /\ (skipUser \/ broker.user)

\* What BrokerConstantsOK says of the numbers, in the forms used.
LEMMA BoundsType ==
    /\ 1 \in 1 .. MaxSpecs /\ 0 \in 0 .. MaxSpecs
    /\ 0 \in 0 .. MaxDisturbances /\ MaxDisturbances \in Nat /\ MaxTries \in Nat \ {0}
<1>1. MaxSpecs \in Nat \ {0} /\ MaxDisturbances \in Nat /\ MaxTries \in Nat \ {0}
  BY BrokerConstantsOK
<1>2. QED
  BY <1>1

-----------------------------------------------------------------------------
(* Objects and modifiers.                                                   *)

\* An object that is there is not Absent.
LEMMA Present ==
    /\ Absent \in Objects
    /\ \A o \in Objects : o # Absent <=> o.life \in {"live", "deleting"}
<1>1. Absent.life = "gone"
  BY DEF Absent
<1>2. \A o \in Objects \ {Absent} : o.life \in {"live", "deleting"}
  BY DEF Objects
<1>3. Absent \in Objects
  BY DEF Objects
<1>4. QED
  BY <1>1, <1>2, <1>3

\* A modifier changes the status only, and keeps the types.
LEMMA ApplyType ==
    ASSUME NEW p \in Patches, NEW o \in Objects \ {Absent}
    PROVE  /\ Apply(p, o) \in Objects \ {Absent}
           /\ Apply(p, o).life = o.life /\ Apply(p, o).fin = o.fin
           /\ Apply(p, o).spec = o.spec
           /\ Apply(p, o).status.phase = IF p.phase = "keep" THEN o.status.phase ELSE p.phase
BY Present DEF Apply, Patches, Objects, Messages, Absent

\* So does an error.
LEMMA FailedType ==
    ASSUME NEW message \in Messages, NEW o \in Objects \ {Absent}
    PROVE  /\ Failed(o, message) \in Objects \ {Absent}
           /\ Failed(o, message).life = o.life /\ Failed(o, message).fin = o.fin
           /\ Failed(o, message).spec = o.spec
           /\ Failed(o, message).status.phase = "Error"
BY Present DEF Failed, Objects, Messages, Absent

\* The modifiers are what the pass asks for.
LEMMA Modifiers ==
    V!ModifiersOK(Objects, Patches, Messages) /\ U!ModifiersOK(Objects, Patches, Messages)
<1>1. MaxTries \in Nat \ {0}
  BY BoundsType
<1>2. NoPatch \in Patches /\ \A p, q \in Patches : Then(p, q) \in Patches
  BY DEF NoPatch, Patches, Then
<1>3. \A o, s \in Objects \ {Absent} : [o EXCEPT !.status = s.status] \in Objects \ {Absent}
  BY DEF Objects, Absent
<1>4. QED
  BY <1>1, <1>2, <1>3, ApplyType, FailedType DEF V!ModifiersOK, U!ModifiersOK

-----------------------------------------------------------------------------
(* Type correctness.                                                        *)

\* The initial states are well typed.
LEMMA InitType == Init => TypeOK
<1> SUFFICES ASSUME Init PROVE TypeOK
  OBVIOUS
<1>1. NewObject \in Objects /\ Absent \in Objects
  BY BoundsType, Present DEF NewObject, Objects, Messages
<1>2. VTypes /\ UTypes
  BY <1>1 DEF Init, V!Start, U!Start, VTypes, UTypes, V!TypesOK, U!TypesOK, V!Passes, U!Passes
<1>3. broker \in Brokers /\ disturbances \in 0 .. MaxDisturbances
  BY BoundsType DEF Init, Brokers
<1>4. QED
  BY <1>2, <1>3 DEF Init, TypeOK, VTypes, UTypes

\* What a component of the vhost finds when it runs.
LEMMA VRunning ==
    ASSUME TypeOK, vpass.at \in Stages
    PROVE  /\ vpass # V!Idle /\ vpass \in V!Passes(Objects, Patches, Stages)
           /\ vpass.obj \in Objects \ {Absent} /\ vpass.obj.spec \in 1 .. MaxSpecs
<1>1. vpass # V!Idle /\ vpass \in V!Passes(Objects, Patches, Stages)
  BY DEF TypeOK, V!TypesOK, V!Idle, Stages
<1>2. QED
  BY <1>1, Present DEF V!Passes, Objects, Absent

\* The same of a component of the user.
LEMMA URunning ==
    ASSUME TypeOK, upass.at \in Stages
    PROVE  /\ upass # U!Idle /\ upass \in U!Passes(Objects, Patches, Stages)
           /\ upass.obj \in Objects \ {Absent}
<1>1. upass # U!Idle /\ upass \in U!Passes(Objects, Patches, Stages)
  BY DEF TypeOK, U!TypesOK, U!Idle, Stages
<1>2. QED
  BY <1>1 DEF U!Passes

\* What a component of the vhost returns, and an error, leave the pass of its type.
LEMMA VReturnsType ==
    ASSUME TypeOK, vpass.at \in Stages
    PROVE  /\ \A stage \in Stages \cup {"save"}, patch \in Patches :
                VGoOn(stage, patch) => /\ vpass' \in V!Passes(Objects, Patches, Stages)
                                       /\ disturbances' \in 0 .. MaxDisturbances
           /\ \A message \in Messages, requeue \in BOOLEAN :
                VFail(message, requeue) => /\ vpass' \in V!Passes(Objects, Patches, Stages)
                                           /\ disturbances' \in 0 .. MaxDisturbances
           /\ VCallFails => /\ vpass' \in V!Passes(Objects, Patches, Stages)
                            /\ disturbances' \in 0 .. MaxDisturbances
<1>1. NoPatch \in Patches /\ "call" \in Messages
  BY DEF NoPatch, Patches, Messages
<1>2. disturbances \in 0 .. MaxDisturbances /\ MaxDisturbances \in Nat
  BY BoundsType DEF TypeOK
<1>3. Disturb => disturbances' \in 0 .. MaxDisturbances
  BY <1>2 DEF Disturb
<1>4. QED
  BY <1>1, <1>2, <1>3, VRunning, Modifiers, V!ReturnTypes, V!ErrorTypes
     DEF VGoOn, VFail, VCallFails

\* The same of a component of the user.
LEMMA UReturnsType ==
    ASSUME TypeOK, upass.at \in Stages
    PROVE  /\ \A stage \in Stages \cup {"save"}, patch \in Patches, after \in BOOLEAN :
                UGoOn(stage, patch, after) =>
                    /\ upass' \in U!Passes(Objects, Patches, Stages)
                    /\ disturbances' \in 0 .. MaxDisturbances
           /\ \A message \in Messages, patch \in Patches, requeue \in BOOLEAN :
                UFail(message, patch, requeue) =>
                    /\ upass' \in U!Passes(Objects, Patches, Stages)
                    /\ disturbances' \in 0 .. MaxDisturbances
           /\ UCallFails => /\ upass' \in U!Passes(Objects, Patches, Stages)
                            /\ disturbances' \in 0 .. MaxDisturbances
<1>1. NoPatch \in Patches /\ "call" \in Messages
  BY DEF NoPatch, Patches, Messages
<1>2. disturbances \in 0 .. MaxDisturbances /\ MaxDisturbances \in Nat
  BY BoundsType DEF TypeOK
<1>3. Disturb => disturbances' \in 0 .. MaxDisturbances
  BY <1>2 DEF Disturb
<1>4. QED
  BY <1>1, <1>2, <1>3, URunning, Modifiers, U!ReturnTypes, U!ErrorTypes
     DEF UGoOn, UFail, UCallFails

\* The broker is of its type after every call.
LEMMA BrokerType ==
    ASSUME TypeOK
    PROVE  /\ WithoutVhost \in Brokers /\ WithoutUser \in Brokers
           /\ \A n \in 0 .. MaxSpecs : [broker EXCEPT !.vhost = TRUE, !.policies = n] \in Brokers
           /\ [broker EXCEPT !.user = TRUE] \in Brokers
           /\ [broker EXCEPT !.permissions = broker.vhost] \in Brokers
BY BoundsType DEF TypeOK, Brokers, WithoutVhost, WithoutUser

\* A write of the finalizer of the vhost leaves everything of its type.
LEMMA VWriteType ==
    ASSUME TypeOK, vpass.at \in Stages, NEW fin \in BOOLEAN, NEW stage \in Stages \cup {"save"},
           vtop # Absent, VWriteFinalizer(fin, stage), vwork' = vwork
    PROVE  VTypes' /\ disturbances' \in 0 .. MaxDisturbances
<1> DEFINE o == [vpass.obj EXCEPT !.fin = fin]
<1>1. o \in Objects \ {Absent}
  BY VRunning, Present DEF Objects, Absent
<1>2. [o EXCEPT !.status = vtop.status] \in Objects \ {Absent}
  BY <1>1, Modifiers DEF V!ModifiersOK, TypeOK, V!TypesOK
<1>3. (IF ~fin THEN Absent ELSE [o EXCEPT !.status = vtop.status]) \in Objects
  BY <1>2, Present
<1>4. VTypes'
  BY <1>1, <1>3, VRunning, V!UpdateTypes DEF VWriteFinalizer, TypeOK, VTypes
<1>5. QED
  BY <1>4 DEF VWriteFinalizer, TypeOK

\* The same of the finalizer of the user.
LEMMA UWriteType ==
    ASSUME TypeOK, upass.at \in Stages, NEW fin \in BOOLEAN, NEW stage \in Stages \cup {"save"},
           utop # Absent, UWriteFinalizer(fin, stage), uwork' = uwork
    PROVE  UTypes' /\ disturbances' \in 0 .. MaxDisturbances
<1> DEFINE o == [upass.obj EXCEPT !.fin = fin]
<1>1. o \in Objects \ {Absent}
  BY URunning, Present DEF Objects, Absent
<1>2. [o EXCEPT !.status = utop.status] \in Objects \ {Absent}
  BY <1>1, Modifiers DEF U!ModifiersOK, TypeOK, U!TypesOK
<1>3. (IF ~fin THEN Absent ELSE [o EXCEPT !.status = utop.status]) \in Objects
  BY <1>2, Present
<1>4. UTypes'
  BY <1>1, <1>3, URunning, U!UpdateTypes DEF UWriteFinalizer, TypeOK, UTypes
<1>5. QED
  BY <1>4 DEF UWriteFinalizer, TypeOK

\* What a component of the vhost returns changes no more than the status of the copy.
LEMMA VReturnsEffect ==
    ASSUME TypeOK, vpass.at \in Stages
    PROVE  /\ \A stage \in Stages \cup {"save"}, patch \in Patches :
                VGoOn(stage, patch) =>
                    /\ vpass' # V!Idle /\ vpass'.at = stage /\ vpass'.current = vpass.current
                    /\ Alike(vpass'.obj, vpass.obj) /\ UNCHANGED disturbances
                    /\ vpass'.obj.status.phase = IF patch.phase = "keep"
                                                 THEN vpass.obj.status.phase ELSE patch.phase
                    /\ vpass'.patch.phase = IF patch.phase = "keep"
                                            THEN vpass.patch.phase ELSE patch.phase
           /\ \A message \in Messages, requeue \in BOOLEAN :
                VFail(message, requeue) \/ VCallFails =>
                    /\ vpass' # V!Idle /\ vpass'.at = "save" /\ vpass'.current = vpass.current
                    /\ Alike(vpass'.obj, vpass.obj)
                    /\ vpass'.obj.status.phase = "Error"
                    /\ vpass'.patch.phase = vpass.patch.phase
<1>1. NoPatch \in Patches /\ NoPatch.phase = "keep" /\ "call" \in Messages
  BY DEF NoPatch, Patches, Messages
<1>2. /\ vpass \in V!Passes(Objects, Patches, Stages) /\ vpass # V!Idle
      /\ vpass.obj \in Objects \ {Absent}
  BY VRunning
<1>3. ASSUME NEW stage \in Stages \cup {"save"}, NEW patch \in Patches, VGoOn(stage, patch)
      PROVE  /\ vpass' # V!Idle /\ vpass'.at = stage /\ vpass'.current = vpass.current
             /\ Alike(vpass'.obj, vpass.obj) /\ UNCHANGED disturbances
             /\ vpass'.obj.status.phase = IF patch.phase = "keep"
                                          THEN vpass.obj.status.phase ELSE patch.phase
             /\ vpass'.patch.phase = IF patch.phase = "keep"
                                     THEN vpass.patch.phase ELSE patch.phase
  <2>1. /\ vpass'.at = stage /\ vpass'.current = vpass.current
        /\ vpass'.obj = Apply(patch, vpass.obj) /\ vpass'.patch = Then(vpass.patch, patch)
        /\ UNCHANGED disturbances
    BY <1>2, <1>3 DEF VGoOn, V!Return, V!Passes
  <2>2. vpass' # V!Idle
    BY <2>1 DEF V!Idle, Stages
  <2>3. QED
    BY <1>2, <2>1, <2>2, ApplyType DEF Alike, Then
<1>4. ASSUME NEW message \in Messages, NEW requeue, V!ReturnError(message, NoPatch, requeue)
      PROVE  /\ vpass' # V!Idle /\ vpass'.at = "save" /\ vpass'.current = vpass.current
             /\ Alike(vpass'.obj, vpass.obj)
             /\ vpass'.obj.status.phase = "Error"
             /\ vpass'.patch.phase = vpass.patch.phase
  <2>1. /\ vpass'.at = "save" /\ vpass'.current = vpass.current
        /\ vpass'.obj = Failed(Apply(NoPatch, vpass.obj), message)
        /\ vpass'.patch = Then(vpass.patch, NoPatch)
    BY <1>2, <1>4 DEF V!ReturnError, V!Passes
  <2>2. vpass' # V!Idle
    BY <2>1 DEF V!Idle
  <2>3. QED
    BY <1>1, <1>2, <2>1, <2>2, ApplyType, FailedType DEF Alike, Then
<1>5. QED
  BY <1>1, <1>3, <1>4 DEF VFail, VCallFails

\* The finalizer is only written by a pass that has missed no write.
LEMMA VWriteEffect ==
    ASSUME TypeInv, vpass.at \in Stages, NEW fin \in BOOLEAN, NEW stage \in Stages \cup {"save"},
           VWriteFinalizer(fin, stage)
    PROVE  /\ vtop = vview.obj /\ vtop # Absent /\ Alike(vpass.obj, vtop)
           /\ IF fin THEN /\ vtop' # Absent /\ vtop'.life = vtop.life /\ vtop'.fin
                          /\ vtop'.status = vtop.status
              ELSE vtop' = Absent
           /\ vview'.obj = vview.obj /\ ~vview'.current
           /\ vpass' # V!Idle /\ vpass'.at = stage /\ ~vpass'.current
           /\ vpass'.obj.life = vpass.obj.life /\ vpass'.obj.fin = fin
           /\ vpass'.obj.status = vpass.obj.status /\ vpass'.patch = vpass.patch
           /\ UNCHANGED disturbances
<1> DEFINE o == [vpass.obj EXCEPT !.fin = fin]
<1>1. /\ vpass \in V!Passes(Objects, Patches, Stages) /\ vpass # V!Idle
      /\ vpass.obj \in Objects \ {Absent}
  BY VRunning DEF TypeInv
<1>2. vpass.current
  BY DEF VWriteFinalizer, V!Update
<1>3. vtop = vview.obj /\ vtop # Absent /\ Alike(vpass.obj, vtop)
  BY <1>1, <1>2 DEF TypeInv, VCurrent, V!CacheOK
<1>4. vview'.obj = vview.obj /\ ~vview'.current
  BY DEF VWriteFinalizer, V!Update, TypeInv, TypeOK, V!TypesOK
<1>5. /\ vpass'.at = stage /\ ~vpass'.current /\ vpass'.obj = o /\ vpass'.patch = vpass.patch
      /\ UNCHANGED disturbances
  BY <1>1 DEF VWriteFinalizer, V!Update, V!Passes
<1>6. vpass' # V!Idle
  BY <1>5 DEF V!Idle, Stages
<1>7. o.life = vpass.obj.life /\ o.fin = fin /\ o.status = vpass.obj.status
  BY <1>1 DEF Objects, Absent
<1>8. IF fin THEN vtop' = [o EXCEPT !.status = vtop.status] ELSE vtop' = Absent
  BY DEF VWriteFinalizer, V!Update
<1>9. /\ [o EXCEPT !.status = vtop.status].life = o.life
      /\ [o EXCEPT !.status = vtop.status].fin = o.fin
      /\ [o EXCEPT !.status = vtop.status].status = vtop.status
  BY <1>1 DEF Objects, Absent
<1>10. ASSUME fin
       PROVE  /\ vtop' # Absent /\ vtop'.life = vtop.life /\ vtop'.fin
              /\ vtop'.status = vtop.status
  <2>1. vtop'.life = vtop.life /\ vtop'.fin /\ vtop'.status = vtop.status
    BY <1>3, <1>7, <1>8, <1>9, <1>10 DEF Alike
  <2>2. vtop.life # "gone"
    BY <1>3, Present DEF TypeInv, TypeOK, V!TypesOK
  <2>3. QED
    BY <2>1, <2>2 DEF Absent
<1>11. QED
  BY <1>3, <1>4, <1>5, <1>6, <1>7, <1>8, <1>10

\* The same of a component of the user.
LEMMA UReturnsEffect ==
    ASSUME TypeOK, upass.at \in Stages
    PROVE  /\ \A stage \in Stages \cup {"save"}, patch \in Patches, after \in BOOLEAN :
                UGoOn(stage, patch, after) =>
                    /\ upass' # U!Idle /\ upass'.at = stage /\ upass'.current = upass.current
                    /\ Alike(upass'.obj, upass.obj) /\ UNCHANGED disturbances
                    /\ upass'.obj.status.phase = IF patch.phase = "keep"
                                                 THEN upass.obj.status.phase ELSE patch.phase
                    /\ upass'.patch.phase = IF patch.phase = "keep"
                                            THEN upass.patch.phase ELSE patch.phase
           /\ \A message \in Messages, patch \in {NoPatch, Recorded}, requeue \in BOOLEAN :
                UFail(message, patch, requeue) \/ UCallFails =>
                    /\ upass' # U!Idle /\ upass'.at = "save" /\ upass'.current = upass.current
                    /\ Alike(upass'.obj, upass.obj)
                    /\ upass'.obj.status.phase = "Error"
                    /\ upass'.patch.phase = upass.patch.phase
<1>1. /\ \A patch \in {NoPatch, Recorded} : patch \in Patches /\ patch.phase = "keep"
      /\ "call" \in Messages
  BY DEF NoPatch, Recorded, Patches, Messages
<1>2. /\ upass \in U!Passes(Objects, Patches, Stages) /\ upass # U!Idle
      /\ upass.obj \in Objects \ {Absent}
  BY URunning
<1>3. ASSUME NEW stage \in Stages \cup {"save"}, NEW patch \in Patches, NEW after \in BOOLEAN,
             UGoOn(stage, patch, after)
      PROVE  /\ upass' # U!Idle /\ upass'.at = stage /\ upass'.current = upass.current
             /\ Alike(upass'.obj, upass.obj) /\ UNCHANGED disturbances
             /\ upass'.obj.status.phase = IF patch.phase = "keep"
                                          THEN upass.obj.status.phase ELSE patch.phase
             /\ upass'.patch.phase = IF patch.phase = "keep"
                                     THEN upass.patch.phase ELSE patch.phase
  <2>1. /\ upass'.at = stage /\ upass'.current = upass.current
        /\ upass'.obj = Apply(patch, upass.obj) /\ upass'.patch = Then(upass.patch, patch)
        /\ UNCHANGED disturbances
    BY <1>2, <1>3 DEF UGoOn, U!Return, U!Passes
  <2>2. upass' # U!Idle
    BY <2>1 DEF U!Idle, Stages
  <2>3. QED
    BY <1>2, <2>1, <2>2, ApplyType DEF Alike, Then
<1>4. ASSUME NEW message \in Messages, NEW patch \in {NoPatch, Recorded}, NEW requeue,
             U!ReturnError(message, patch, requeue)
      PROVE  /\ upass' # U!Idle /\ upass'.at = "save" /\ upass'.current = upass.current
             /\ Alike(upass'.obj, upass.obj)
             /\ upass'.obj.status.phase = "Error"
             /\ upass'.patch.phase = upass.patch.phase
  <2>1. /\ upass'.at = "save" /\ upass'.current = upass.current
        /\ upass'.obj = Failed(Apply(patch, upass.obj), message)
        /\ upass'.patch = Then(upass.patch, patch)
    BY <1>2, <1>4 DEF U!ReturnError, U!Passes
  <2>2. upass' # U!Idle
    BY <2>1 DEF U!Idle
  <2>3. QED
    BY <1>1, <1>2, <2>1, <2>2, ApplyType, FailedType DEF Alike, Then
<1>5. QED
  BY <1>1, <1>3, <1>4 DEF UFail, UCallFails

\* The same of the finalizer of the user.
LEMMA UWriteEffect ==
    ASSUME TypeInv, upass.at \in Stages, NEW fin \in BOOLEAN, NEW stage \in Stages \cup {"save"},
           UWriteFinalizer(fin, stage)
    PROVE  /\ utop = uview.obj /\ utop # Absent /\ Alike(upass.obj, utop)
           /\ IF fin THEN /\ utop' # Absent /\ utop'.life = utop.life /\ utop'.fin
                          /\ utop'.status = utop.status
              ELSE utop' = Absent
           /\ uview'.obj = uview.obj /\ ~uview'.current
           /\ upass' # U!Idle /\ upass'.at = stage /\ ~upass'.current
           /\ upass'.obj.life = upass.obj.life /\ upass'.obj.fin = fin
           /\ upass'.obj.status = upass.obj.status /\ upass'.patch = upass.patch
           /\ UNCHANGED disturbances
<1> DEFINE o == [upass.obj EXCEPT !.fin = fin]
<1>1. /\ upass \in U!Passes(Objects, Patches, Stages) /\ upass # U!Idle
      /\ upass.obj \in Objects \ {Absent}
  BY URunning DEF TypeInv
<1>2. upass.current
  BY DEF UWriteFinalizer, U!Update
<1>3. utop = uview.obj /\ utop # Absent /\ Alike(upass.obj, utop)
  BY <1>1, <1>2 DEF TypeInv, UCurrent, U!CacheOK
<1>4. uview'.obj = uview.obj /\ ~uview'.current
  BY DEF UWriteFinalizer, U!Update, TypeInv, TypeOK, U!TypesOK
<1>5. /\ upass'.at = stage /\ ~upass'.current /\ upass'.obj = o /\ upass'.patch = upass.patch
      /\ UNCHANGED disturbances
  BY <1>1 DEF UWriteFinalizer, U!Update, U!Passes
<1>6. upass' # U!Idle
  BY <1>5 DEF U!Idle, Stages
<1>7. o.life = upass.obj.life /\ o.fin = fin /\ o.status = upass.obj.status
  BY <1>1 DEF Objects, Absent
<1>8. IF fin THEN utop' = [o EXCEPT !.status = utop.status] ELSE utop' = Absent
  BY DEF UWriteFinalizer, U!Update
<1>9. /\ [o EXCEPT !.status = utop.status].life = o.life
      /\ [o EXCEPT !.status = utop.status].fin = o.fin
      /\ [o EXCEPT !.status = utop.status].status = utop.status
  BY <1>1 DEF Objects, Absent
<1>10. ASSUME fin
       PROVE  /\ utop' # Absent /\ utop'.life = utop.life /\ utop'.fin
              /\ utop'.status = utop.status
  <2>1. utop'.life = utop.life /\ utop'.fin /\ utop'.status = utop.status
    BY <1>3, <1>7, <1>8, <1>9, <1>10 DEF Alike
  <2>2. utop.life # "gone"
    BY <1>3, Present DEF TypeInv, TypeOK, U!TypesOK
  <2>3. QED
    BY <2>1, <2>2 DEF Absent
<1>11. QED
  BY <1>3, <1>4, <1>5, <1>6, <1>7, <1>8, <1>10

\* Who writes an object from outside gives it a type, and makes every copy an old one.
LEMMA VOutsideType ==
    ASSUME VTypes, vwork' = vwork, NEW o \in Objects, V!Write(o)
    PROVE  VTypes' /\ V!CacheOK' /\ VCurrent'
<1>1. VTypes' /\ V!CacheOK'
  BY V!WriteTypes DEF VTypes, V!TypesOK
<1>2. VCurrent'
  <2>1. CASE vpass.at = "idle"
    <3>1. vpass = V!Idle
      BY <2>1 DEF VTypes, V!TypesOK, V!Passes, Stages
    <3>2. QED
      BY <2>1, <3>1 DEF V!Write, VCurrent
  <2>2. CASE vpass.at # "idle"
    <3>1. ~vpass'.current
      BY <2>2 DEF V!Write, VTypes, V!TypesOK, V!Passes, V!Idle
    <3>2. QED
      BY <3>1 DEF VCurrent
  <2>3. QED
    BY <2>1, <2>2
<1>3. QED
  BY <1>1, <1>2

\* The same of the object of the user.
LEMMA UOutsideType ==
    ASSUME UTypes, uwork' = uwork, NEW o \in Objects, U!Write(o)
    PROVE  UTypes' /\ U!CacheOK' /\ UCurrent'
<1>1. UTypes' /\ U!CacheOK'
  BY U!WriteTypes DEF UTypes, U!TypesOK
<1>2. UCurrent'
  <2>1. CASE upass.at = "idle"
    <3>1. upass = U!Idle
      BY <2>1 DEF UTypes, U!TypesOK, U!Passes, Stages
    <3>2. QED
      BY <2>1, <3>1 DEF U!Write, UCurrent
  <2>2. CASE upass.at # "idle"
    <3>1. ~upass'.current
      BY <2>2 DEF U!Write, UTypes, U!TypesOK, U!Passes, U!Idle
    <3>2. QED
      BY <3>1 DEF UCurrent
  <2>3. QED
    BY <2>1, <2>2
<1>3. QED
  BY <1>1, <1>2

\* Components of the vhost keep the types, and what the pass knows of the object.
LEMMA VhostComponentsType == TypeInv /\ VhostComponents => TypeInv'
<1> SUFFICES ASSUME TypeInv, VhostComponents PROVE TypeInv'
  OBVIOUS
<1> USE DEF userVars, vhostVars
<1>1. vpass.at \in Stages /\ vpass # V!Idle /\ TypeOK /\ VTypes /\ UTypes
  <2>1. vpass.at \in Stages
    BY DEF VhostComponents, UserObject, VhostFinalizer, DestroyVhost, ReleaseVhost, Vhost, Stages
  <2>2. QED
    BY <2>1, VRunning DEF TypeInv, TypeOK, VTypes, UTypes
<1>2. /\ NoPatch \in Patches /\ Ready \in Patches
      /\ {"call", "conflict", "no user"} \subseteq Messages
      /\ {"vhost", "finalizer", "destroy", "release"} \subseteq Stages
  BY DEF NoPatch, Ready, Patches, Messages, Stages
<1>3. After(vpass.obj, "vhost") \in Stages \cup {"save"}
  BY <1>2 DEF After
<1>4. \* The rest of the state is of its type, and the object is left alone.
      ASSUME vpass' \in V!Passes(Objects, Patches, Stages),
             vpass' # V!Idle, vpass'.current = vpass.current, Alike(vpass'.obj, vpass.obj),
             UTypes', U!CacheOK', UCurrent', broker' \in Brokers,
             disturbances' \in 0 .. MaxDisturbances,
             UNCHANGED <<vtop, vview, vwork, secret, skipUser>>
      PROVE  TypeInv'
  BY <1>1, <1>4 DEF TypeInv, TypeOK, VTypes, UTypes, V!TypesOK, V!CacheOK, VCurrent, Alike
<1>5. \* The object of the user is left alone.
      UNCHANGED <<utop, uview, upass, uwork>> => UTypes' /\ U!CacheOK' /\ UCurrent'
  BY <1>1 DEF UTypes, U!TypesOK, U!Passes, U!Idle, U!CacheOK, UCurrent, TypeInv, Alike
<1>6. broker \in Brokers /\ uwork' = uwork
  BY DEF TypeInv, TypeOK, VhostComponents, UserObject, VhostFinalizer, DestroyVhost,
         ReleaseVhost, Vhost
<1>7. ASSUME NEW fin \in BOOLEAN, NEW stage \in Stages \cup {"save"},
             VWriteFinalizer(fin, stage), broker' \in Brokers,
             UNCHANGED <<utop, uview, upass, uwork, vwork, secret, skipUser>>
      PROVE  TypeInv'
  <2>1. VTypes' /\ disturbances' \in 0 .. MaxDisturbances
    BY <1>1, <1>7, VWriteType, VWriteEffect
  <2>2. ~vview'.current /\ ~vpass'.current
    BY <1>1, <1>7, VWriteEffect
  <2>3. QED
    BY <1>5, <1>7, <2>1, <2>2
       DEF TypeInv, TypeOK, VTypes, UTypes, V!CacheOK, VCurrent
<1>8. VConflict => /\ vpass' \in V!Passes(Objects, Patches, Stages)
                   /\ vpass' # V!Idle /\ vpass'.current = vpass.current
                   /\ Alike(vpass'.obj, vpass.obj)
                   /\ disturbances' \in 0 .. MaxDisturbances
                   /\ UNCHANGED <<vtop, vview>>
  BY <1>1, <1>2, VReturnsType, VReturnsEffect DEF VConflict
<1>9. CASE UserObject
  <2>1. UTypes' /\ U!CacheOK' /\ UCurrent'
    <3>1. CASE UNCHANGED userVars
      BY <1>5, <1>6, <3>1
    <3>2. CASE U!Write(NewObject)
      <4>1. NewObject \in Objects
        BY BoundsType DEF NewObject, Objects, Messages
      <4>2. QED
        BY <1>1, <1>6, <3>2, <4>1, UOutsideType
    <3>3. QED
      BY <1>9, <3>1, <3>2 DEF UserObject
  <2>2. /\ vpass' \in V!Passes(Objects, Patches, Stages)
        /\ vpass' # V!Idle /\ vpass'.current = vpass.current /\ Alike(vpass'.obj, vpass.obj)
        /\ disturbances' \in 0 .. MaxDisturbances
    BY <1>1, <1>2, <1>3, <1>9, VReturnsType, VReturnsEffect DEF UserObject
  <2>3. QED
    BY <1>4, <1>6, <1>9, <2>1, <2>2 DEF UserObject, VhostComponents
<1>10. CASE VhostFinalizer
  <2>1. CASE VWriteFinalizer(TRUE, "vhost")
    BY <1>2, <1>6, <1>7, <1>10, <2>1 DEF VhostFinalizer, VhostComponents
  <2>2. CASE VConflict
    BY <1>4, <1>5, <1>6, <1>8, <1>10, <2>2 DEF VhostFinalizer, VhostComponents
  <2>3. QED
    BY <1>10, <2>1, <2>2 DEF VhostFinalizer
<1>11. CASE DestroyVhost
  <2>1. /\ vpass' \in V!Passes(Objects, Patches, Stages)
        /\ vpass' # V!Idle /\ vpass'.current = vpass.current /\ Alike(vpass'.obj, vpass.obj)
        /\ disturbances' \in 0 .. MaxDisturbances
    BY <1>1, <1>2, <1>11, VReturnsType, VReturnsEffect DEF DestroyVhost
  <2>2. broker' \in Brokers
    BY <1>1, <1>6, <1>11, BrokerType DEF DestroyVhost
  <2>3. QED
    BY <1>4, <1>5, <1>6, <1>11, <2>1, <2>2 DEF DestroyVhost, VhostComponents
<1>12. CASE ReleaseVhost
  <2>1. CASE VWriteFinalizer(FALSE, "save")
    BY <1>2, <1>6, <1>7, <1>12, <2>1 DEF ReleaseVhost, VhostComponents
  <2>2. CASE VConflict
    BY <1>4, <1>5, <1>6, <1>8, <1>12, <2>2 DEF ReleaseVhost, VhostComponents
  <2>3. QED
    BY <1>12, <2>1, <2>2 DEF ReleaseVhost
<1>13. CASE Vhost
  <2>1. /\ vpass' \in V!Passes(Objects, Patches, Stages)
        /\ vpass' # V!Idle /\ vpass'.current = vpass.current /\ Alike(vpass'.obj, vpass.obj)
        /\ disturbances' \in 0 .. MaxDisturbances
    BY <1>1, <1>2, <1>13, VReturnsType, VReturnsEffect DEF Vhost, Await, VhostCallFails
  <2>2. broker' \in Brokers
    <3>1. vpass.obj.spec \in 0 .. MaxSpecs
      BY <1>1, VRunning, BoundsType
    <3>2. broker.policies \in 0 .. MaxSpecs
      BY <1>6 DEF Brokers
    <3>3. \/ broker' = broker
          \/ \E n \in 0 .. MaxSpecs : broker' = [broker EXCEPT !.vhost = TRUE, !.policies = n]
      <4>1. CASE broker' = [broker EXCEPT !.vhost = TRUE, !.policies = vpass.obj.spec]
        BY <3>1, <4>1
      <4>2. CASE VhostCallFails
        <5>1. {broker.policies} \cup ({0} \ {vpass.obj.spec}) \subseteq 0 .. MaxSpecs
          BY <3>2, BoundsType
        <5>2. QED
          BY <4>2, <5>1 DEF VhostCallFails
      <4>3. QED
        BY <1>13, <4>1, <4>2 DEF Vhost
    <3>4. QED
      BY <1>1, <1>6, <3>3, BrokerType
  <2>3. QED
    BY <1>4, <1>5, <1>6, <1>13, <2>1, <2>2 DEF Vhost, VhostComponents
<1>14. QED
  BY <1>9, <1>10, <1>11, <1>12, <1>13 DEF VhostComponents

\* So do components of the user.
LEMMA UserComponentsType == TypeInv /\ UserComponents => TypeInv'
<1> SUFFICES ASSUME TypeInv, UserComponents PROVE TypeInv'
  OBVIOUS
<1> USE DEF userVars, vhostVars
<1>1. upass.at \in Stages /\ upass # U!Idle /\ TypeOK /\ VTypes /\ UTypes
  <2>1. upass.at \in Stages
    BY DEF UserComponents, Secret, UserFinalizer, DestroyUser, User, Stages
  <2>2. QED
    BY <2>1, URunning DEF TypeInv, TypeOK, VTypes, UTypes
<1>2. /\ {NoPatch, Ready, Recorded} \subseteq Patches
      /\ {"call", "conflict", "no secret"} \subseteq Messages
      /\ {"put", "finalizer", "destroy"} \subseteq Stages
  BY DEF NoPatch, Ready, Recorded, Patches, Messages, Stages
<1>3. After(upass.obj, "put") \in Stages \cup {"save"}
  BY <1>2 DEF After
<1>4. /\ VTypes' /\ V!CacheOK' /\ VCurrent'
      /\ UNCHANGED <<skipUser, uwork>>
  BY <1>1 DEF UserComponents, VTypes, V!TypesOK, V!Passes, V!Idle, V!CacheOK, VCurrent, TypeInv,
              Alike
<1>5. ASSUME upass' \in U!Passes(Objects, Patches, Stages),
             upass' # U!Idle, upass'.current = upass.current, Alike(upass'.obj, upass.obj),
             broker' \in Brokers, secret' \in [stored : BOOLEAN, cached : BOOLEAN],
             disturbances' \in 0 .. MaxDisturbances, UNCHANGED <<utop, uview>>
      PROVE  TypeInv'
  BY <1>1, <1>4, <1>5 DEF TypeInv, TypeOK, VTypes, UTypes, U!TypesOK, U!CacheOK, UCurrent, Alike
<1>6. /\ broker \in Brokers /\ secret \in [stored : BOOLEAN, cached : BOOLEAN]
      /\ [secret EXCEPT !.stored = TRUE] \in [stored : BOOLEAN, cached : BOOLEAN]
      /\ disturbances \in 0 .. MaxDisturbances
  BY DEF TypeInv, TypeOK
<1>7. ASSUME NEW fin \in BOOLEAN, NEW stage \in Stages \cup {"save"},
             UWriteFinalizer(fin, stage), broker' \in Brokers, secret' = secret
      PROVE  TypeInv'
  <2>1. UTypes' /\ disturbances' \in 0 .. MaxDisturbances
    BY <1>1, <1>4, <1>7, UWriteType, UWriteEffect
  <2>2. ~uview'.current /\ ~upass'.current
    BY <1>1, <1>7, UWriteEffect
  <2>3. QED
    BY <1>4, <1>7, <2>1, <2>2
       DEF TypeInv, TypeOK, VTypes, UTypes, U!CacheOK, UCurrent
<1>8. UConflict => /\ upass' \in U!Passes(Objects, Patches, Stages)
                   /\ upass' # U!Idle /\ upass'.current = upass.current
                   /\ Alike(upass'.obj, upass.obj)
                   /\ disturbances' \in 0 .. MaxDisturbances
                   /\ UNCHANGED <<utop, uview>>
  BY <1>1, <1>2, UReturnsType, UReturnsEffect DEF UConflict
<1>9. CASE Secret
  <2>1. /\ upass' \in U!Passes(Objects, Patches, Stages)
        /\ upass' # U!Idle /\ upass'.current = upass.current /\ Alike(upass'.obj, upass.obj)
        /\ disturbances' \in 0 .. MaxDisturbances
    BY <1>1, <1>2, <1>3, <1>9, UReturnsType, UReturnsEffect DEF Secret
  <2>2. secret' \in [stored : BOOLEAN, cached : BOOLEAN]
    BY <1>6, <1>9 DEF Secret
  <2>3. QED
    BY <1>5, <1>6, <1>9, <2>1, <2>2 DEF Secret
<1>10. CASE UserFinalizer
  <2>1. CASE UWriteFinalizer(TRUE, "put")
    BY <1>2, <1>6, <1>7, <1>10, <2>1 DEF UserFinalizer
  <2>2. CASE UConflict
    BY <1>5, <1>6, <1>8, <1>10, <2>2 DEF UserFinalizer
  <2>3. QED
    BY <1>10, <2>1, <2>2 DEF UserFinalizer
<1>11. CASE DestroyUser
  <2>1. broker' \in Brokers /\ secret' = secret
    BY <1>1, <1>6, <1>11, BrokerType DEF DestroyUser
  <2>2. CASE UWriteFinalizer(FALSE, "save")
    BY <1>7, <2>1, <2>2
  <2>3. CASE UConflict
    BY <1>5, <1>6, <1>8, <2>1, <2>3
  <2>4. CASE UCallFails /\ UNCHANGED <<utop, uview>>
    BY <1>1, <1>2, <1>5, <1>6, <2>1, <2>4, UReturnsType, UReturnsEffect
  <2>5. QED
    BY <1>11, <2>2, <2>3, <2>4 DEF DestroyUser
<1>12. CASE User
  <2>1. /\ upass' \in U!Passes(Objects, Patches, Stages)
        /\ upass' # U!Idle /\ upass'.current = upass.current /\ Alike(upass'.obj, upass.obj)
        /\ disturbances' \in 0 .. MaxDisturbances
    BY <1>1, <1>2, <1>12, UReturnsType, UReturnsEffect DEF User
  <2>2. broker' \in Brokers
    BY <1>1, <1>6, <1>12, BrokerType DEF User
  <2>3. QED
    BY <1>5, <1>6, <1>12, <2>1, <2>2 DEF User
<1>13. QED
  BY <1>9, <1>10, <1>11, <1>12 DEF UserComponents

\* A pass of the vhost that begins, or writes the status, keeps the types.
LEMMA VPassType == TypeInv /\ (VBegin \/ VSave) => TypeInv'
<1> SUFFICES ASSUME TypeInv, VBegin \/ VSave PROVE TypeInv'
  OBVIOUS
<1>1. /\ UTypes' /\ U!CacheOK' /\ UCurrent'
      /\ UNCHANGED <<skipUser, secret, broker, disturbances>>
  BY DEF VBegin, VSave, userVars, TypeInv, TypeOK, UTypes, U!TypesOK, U!CacheOK, UCurrent,
         U!Passes, U!Idle, Alike
<1>2. CASE VBegin
  <2>1. PICK stage \in Stages \cup {"save"} : V!Begin(stage)
    <3>1. After(vview.obj, "vhost") \in Stages \cup {"save"} /\ "user" \in Stages
      BY DEF After, Stages
    <3>2. QED
      BY <1>2, <3>1 DEF VBegin
  <2>2. VTypes'
    BY <2>1, Modifiers, V!BeginTypes DEF TypeInv, TypeOK, VTypes
  <2>3. V!CacheOK' /\ VCurrent'
    BY <2>1 DEF V!Begin, V!Fresh, TypeInv, V!CacheOK, VCurrent, Alike
  <2>4. QED
    BY <1>1, <2>2, <2>3 DEF TypeInv, TypeOK, VTypes, UTypes
<1>3. CASE VSave
  <2>1. V!Save(FALSE) /\ FALSE \in BOOLEAN /\ V!TypesOK(Objects, Patches, Stages) /\ V!CacheOK
    BY <1>3 DEF VSave, TypeInv, TypeOK
  <2>2. VTypes'
    BY <2>1, Modifiers, V!SaveTypes DEF VTypes
  <2>3. /\ vpass # V!Idle
        /\ vview'.obj = vview.obj /\ (vview'.current => vview.current /\ vtop' = vtop)
    BY <2>1, Modifiers, V!SaveEffect
  <2>4. \/ vpass' = V!Idle
        \/ /\ vpass'.obj = vpass.obj /\ vpass'.current = vpass.current
           /\ UNCHANGED <<vtop, vview>>
    BY <2>1, V!SaveStatus
  <2>5. V!CacheOK' /\ VCurrent'
    BY <2>3, <2>4 DEF TypeInv, V!CacheOK, VCurrent, Alike
  <2>6. QED
    BY <1>1, <2>2, <2>5 DEF TypeInv, TypeOK, VTypes, UTypes
<1>4. QED
  BY <1>2, <1>3

\* So does one of the user.
LEMMA UPassType == TypeInv /\ (UBegin \/ USave) => TypeInv'
<1> SUFFICES ASSUME TypeInv, UBegin \/ USave PROVE TypeInv'
  OBVIOUS
<1>1. /\ VTypes' /\ V!CacheOK' /\ VCurrent'
      /\ UNCHANGED <<skipUser, secret, broker, disturbances>>
  BY DEF UBegin, USave, vhostVars, TypeInv, TypeOK, VTypes, V!TypesOK, V!CacheOK, VCurrent,
         V!Passes, V!Idle, Alike
<1>2. CASE UBegin
  <2>1. U!Begin("secret") /\ "secret" \in Stages
    BY <1>2 DEF UBegin, Stages
  <2>2. UTypes'
    BY <2>1, Modifiers, U!BeginTypes DEF TypeInv, TypeOK, UTypes
  <2>3. U!CacheOK' /\ UCurrent'
    BY <2>1 DEF U!Begin, U!Fresh, TypeInv, U!CacheOK, UCurrent, Alike
  <2>4. QED
    BY <1>1, <2>2, <2>3 DEF TypeInv, TypeOK, VTypes, UTypes
<1>3. CASE USave
  <2>1. U!Save(FALSE) /\ FALSE \in BOOLEAN /\ U!TypesOK(Objects, Patches, Stages) /\ U!CacheOK
    BY <1>3 DEF USave, TypeInv, TypeOK
  <2>2. UTypes'
    BY <2>1, Modifiers, U!SaveTypes DEF UTypes
  <2>3. /\ upass # U!Idle
        /\ uview'.obj = uview.obj /\ (uview'.current => uview.current /\ utop' = utop)
    BY <2>1, Modifiers, U!SaveEffect
  <2>4. \/ upass' = U!Idle
        \/ /\ upass'.obj = upass.obj /\ upass'.current = upass.current
           /\ UNCHANGED <<utop, uview>>
    BY <2>1, U!SaveStatus
  <2>5. U!CacheOK' /\ UCurrent'
    BY <2>3, <2>4 DEF TypeInv, U!CacheOK, UCurrent, Alike
  <2>6. QED
    BY <1>1, <2>2, <2>5 DEF TypeInv, TypeOK, VTypes, UTypes
<1>4. QED
  BY <1>2, <1>3

\* The world around keeps the types.
LEMMA WorldType ==
    TypeInv /\ (VSync \/ USync \/ SyncSecret \/ TimerFires \/ CollectUser \/ Crash
                  \/ DeleteVhost \/ EditVhost)
        => TypeInv'
<1> SUFFICES ASSUME TypeInv, VSync \/ USync \/ SyncSecret \/ TimerFires \/ CollectUser \/ Crash
                               \/ DeleteVhost \/ EditVhost
             PROVE  TypeInv'
  OBVIOUS
<1> USE DEF userVars, vhostVars
<1>1. /\ VTypes /\ UTypes /\ secret \in [stored : BOOLEAN, cached : BOOLEAN]
      /\ broker \in Brokers /\ disturbances \in 0 .. MaxDisturbances /\ skipUser \in SkipUsers
      /\ vtop \in Objects /\ utop \in Objects
  BY DEF TypeInv, TypeOK, VTypes, UTypes, V!TypesOK, U!TypesOK
<1>2. Disturb => disturbances' \in 0 .. MaxDisturbances
  BY <1>1, BoundsType DEF Disturb
<1>3. ASSUME VTypes' /\ V!CacheOK' /\ VCurrent', UTypes' /\ U!CacheOK' /\ UCurrent',
             secret' \in [stored : BOOLEAN, cached : BOOLEAN], UNCHANGED <<skipUser, broker>>,
             disturbances' \in 0 .. MaxDisturbances
      PROVE  TypeInv'
  BY <1>1, <1>3 DEF TypeInv, TypeOK, VTypes, UTypes
<1>4. UNCHANGED <<vtop, vview, vpass>> /\ vwork' \in [queued : BOOLEAN, timer : BOOLEAN]
        => VTypes' /\ V!CacheOK' /\ VCurrent'
  BY <1>1 DEF VTypes, V!TypesOK, V!Passes, V!Idle, V!CacheOK, VCurrent, TypeInv, Alike
<1>5. UNCHANGED <<utop, uview, upass>> /\ uwork' \in [queued : BOOLEAN, timer : BOOLEAN]
        => UTypes' /\ U!CacheOK' /\ UCurrent'
  BY <1>1 DEF UTypes, U!TypesOK, U!Passes, U!Idle, U!CacheOK, UCurrent, TypeInv, Alike
<1>6. /\ vwork \in [queued : BOOLEAN, timer : BOOLEAN]
      /\ uwork \in [queued : BOOLEAN, timer : BOOLEAN]
  BY <1>1 DEF VTypes, UTypes, V!TypesOK, U!TypesOK
<1>7. /\ V!Event => vwork' \in [queued : BOOLEAN, timer : BOOLEAN]
      /\ U!Event => uwork' \in [queued : BOOLEAN, timer : BOOLEAN]
  BY <1>6 DEF V!Event, U!Event
<1>8. CASE VSync
  <2>1. VTypes' /\ V!CacheOK'
    BY <1>1, <1>8, V!SyncTypes DEF VSync, VTypes
  <2>2. VCurrent'
    BY <1>8 DEF VSync, V!Sync, VCurrent, TypeInv
  <2>3. QED
    BY <1>1, <1>3, <1>5, <1>6, <1>8, <2>1, <2>2 DEF VSync
<1>9. CASE USync
  <2>1. UTypes' /\ U!CacheOK'
    BY <1>1, <1>9, U!SyncTypes DEF USync, UTypes
  <2>2. UCurrent'
    BY <1>9 DEF USync, U!Sync, UCurrent, TypeInv
  <2>3. QED
    BY <1>1, <1>3, <1>4, <1>7, <1>9, <2>1, <2>2 DEF USync
<1>10. CASE SyncSecret
  <2>1. secret' \in [stored : BOOLEAN, cached : BOOLEAN]
    BY <1>1, <1>10 DEF SyncSecret
  <2>2. QED
    BY <1>1, <1>3, <1>4, <1>5, <1>6, <1>7, <1>10, <2>1 DEF SyncSecret
<1>11. CASE TimerFires
  <2>1. UNCHANGED <<utop, uview, upass>> /\ uwork' \in [queued : BOOLEAN, timer : BOOLEAN]
    BY <1>11 DEF TimerFires, U!TimerFires
  <2>2. QED
    BY <1>1, <1>3, <1>4, <1>5, <1>6, <1>11, <2>1 DEF TimerFires
<1>12. CASE CollectUser
  <2>1. (IF utop.fin THEN [utop EXCEPT !.life = "deleting"] ELSE Absent) \in Objects
    BY <1>1, <1>12 DEF CollectUser, Objects
  <2>2. UTypes' /\ U!CacheOK' /\ UCurrent'
    BY <1>1, <1>12, <2>1, UOutsideType DEF CollectUser
  <2>3. QED
    BY <1>1, <1>3, <1>4, <1>6, <1>12, <2>2 DEF CollectUser
<1>13. CASE Crash
  <2>1. VTypes' /\ V!CacheOK' /\ UTypes' /\ U!CacheOK'
    BY <1>1, <1>13, V!RestartTypes, U!RestartTypes DEF Crash, VTypes, UTypes
  <2>2. VCurrent' /\ UCurrent'
    BY <1>13 DEF Crash, V!Restart, U!Restart, VCurrent, UCurrent
  <2>3. secret' \in [stored : BOOLEAN, cached : BOOLEAN]
    BY <1>1, <1>13 DEF Crash
  <2>4. QED
    BY <1>2, <1>3, <1>13, <2>1, <2>2, <2>3 DEF Crash
<1>14. CASE DeleteVhost
  <2>1. (IF vtop.fin THEN [vtop EXCEPT !.life = "deleting"] ELSE Absent) \in Objects
    BY <1>1, <1>14 DEF DeleteVhost, Objects
  <2>2. VTypes' /\ V!CacheOK' /\ VCurrent'
    BY <1>1, <1>14, <2>1, VOutsideType DEF DeleteVhost
  <2>3. QED
    BY <1>1, <1>3, <1>5, <1>6, <1>14, <2>2 DEF DeleteVhost
<1>15. CASE EditVhost
  <2>1. PICK n \in 1 .. MaxSpecs : V!Write([vtop EXCEPT !.spec = n])
    BY <1>15 DEF EditVhost
  <2>2. [vtop EXCEPT !.spec = n] \in Objects
    BY <1>1, <1>15 DEF EditVhost, Objects
  <2>3. VTypes' /\ V!CacheOK' /\ VCurrent'
    BY <1>1, <1>15, <2>1, <2>2, VOutsideType DEF EditVhost
  <2>4. QED
    BY <1>1, <1>2, <1>3, <1>5, <1>6, <1>15, <2>3 DEF EditVhost
<1>16. QED
  BY <1>8, <1>9, <1>10, <1>11, <1>12, <1>13, <1>14, <1>15

\* Every step keeps the types and what the copies tell.
LEMMA NextType == TypeInv /\ [Next]_vars => TypeInv'
<1>1. TypeInv /\ UNCHANGED vars => TypeInv'
  BY DEF vars, TypeInv, TypeOK, V!TypesOK, U!TypesOK, V!Passes, U!Passes, V!Idle, U!Idle,
         V!CacheOK, U!CacheOK, VCurrent, UCurrent, Alike
<1>2. QED
  BY <1>1, VhostComponentsType, UserComponentsType, VPassType, UPassType, WorldType
     DEF Next, VWorker, UWorker

\* The types of the variables hold in every state, and so does what a current copy of the
\* two objects tells of them.
LEMMA TypeAlways == Spec => []TypeInv
<1>1. Init => TypeInv
  BY InitType DEF Init, V!Start, U!Start, TypeInv, V!CacheOK, U!CacheOK, VCurrent, UCurrent
<1>2. QED
  BY <1>1, NextType, PTL DEF Spec

\* Every variable keeps its type: rabbitmqvhost and rabbitmquser, what their caches and
\* passes hold, the secret and the broker.
THEOREM BrokerTypeCorrect == Spec => []TypeOK
BY TypeAlways, PTL DEF TypeInv

-----------------------------------------------------------------------------
(* What the steps outside of the components do to the two objects.          *)

\* A write of the status of the vhost object leaves the rest of it alone; it reads Ready
\* if something that went into it did.
LEMMA VSaveDoes ==
    ASSUME TypeInv, VSave
    PROVE  /\ \/ vtop' = vtop
              \/ /\ vtop # Absent /\ vtop' # Absent
                 /\ vtop'.life = vtop.life /\ vtop'.fin = vtop.fin
                 /\ vtop'.status.phase = "Ready" =>
                      \/ vpass.obj.status.phase = "Ready" \/ vpass.patch.phase = "Ready"
                      \/ vview.obj # Absent /\ vview.obj.status.phase = "Ready"
           /\ vpass # V!Idle /\ vview'.obj = vview.obj
           /\ \/ vpass' = V!Idle
              \/ vpass'.at = "replay" /\ vpass'.obj = vpass.obj /\ vpass'.patch = vpass.patch
<1>1. V!Save(FALSE) /\ FALSE \in BOOLEAN /\ V!TypesOK(Objects, Patches, Stages) /\ V!CacheOK
  BY DEF VSave, TypeInv, TypeOK
<1>2. /\ vpass # V!Idle /\ vview'.obj = vview.obj
      /\ vpass' = V!Idle \/ vpass'.at = "replay"
  BY <1>1, Modifiers, V!SaveEffect
<1>3. /\ vpass.obj \in Objects \ {Absent} /\ vpass.patch \in Patches
      /\ vtop \in Objects /\ vview.obj \in Objects
  BY <1>1, <1>2 DEF V!TypesOK, V!Passes
<1>4. \A s \in Objects \ {Absent} : vtop # Absent =>
        /\ [vtop EXCEPT !.status = s.status] # Absent
        /\ [vtop EXCEPT !.status = s.status].life = vtop.life
        /\ [vtop EXCEPT !.status = s.status].fin = vtop.fin
        /\ [vtop EXCEPT !.status = s.status].status.phase = s.status.phase
  BY <1>3, Present DEF Objects, Absent
<1>5. \/ vtop' = vtop
      \/ vtop # Absent /\ vtop' = [vtop EXCEPT !.status = vpass.obj.status]
      \/ /\ vview.obj # Absent /\ vview.current
         /\ vtop' = [vtop EXCEPT !.status = Apply(vpass.patch, vview.obj).status]
  BY <1>1, V!SaveStatus
<1>6. vpass' = V!Idle \/ (vpass'.obj = vpass.obj /\ vpass'.patch = vpass.patch)
  BY <1>1, V!SaveStatus
<1>7. ASSUME vview.obj # Absent, vview.current,
             vtop' = [vtop EXCEPT !.status = Apply(vpass.patch, vview.obj).status]
      PROVE  /\ vtop # Absent /\ vtop' # Absent
             /\ vtop'.life = vtop.life /\ vtop'.fin = vtop.fin
             /\ vtop'.status.phase = "Ready" =>
                  vpass.patch.phase = "Ready" \/ vview.obj.status.phase = "Ready"
  <2>1. vtop # Absent
    BY <1>7 DEF TypeInv, V!CacheOK
  <2>2. /\ Apply(vpass.patch, vview.obj) \in Objects \ {Absent}
        /\ Apply(vpass.patch, vview.obj).status.phase =
             IF vpass.patch.phase = "keep" THEN vview.obj.status.phase ELSE vpass.patch.phase
    BY <1>3, <1>7, ApplyType
  <2>3. QED
    BY <1>4, <1>7, <2>1, <2>2
<1>8. ASSUME vtop # Absent, vtop' = [vtop EXCEPT !.status = vpass.obj.status]
      PROVE  /\ vtop' # Absent /\ vtop'.life = vtop.life /\ vtop'.fin = vtop.fin
             /\ vtop'.status.phase = "Ready" => vpass.obj.status.phase = "Ready"
  BY <1>3, <1>4, <1>8
<1>9. QED
  BY <1>2, <1>5, <1>6, <1>7, <1>8

\* The same of the user object.
LEMMA USaveDoes ==
    ASSUME TypeInv, USave
    PROVE  /\ \/ utop' = utop
              \/ /\ utop # Absent /\ utop' # Absent
                 /\ utop'.life = utop.life /\ utop'.fin = utop.fin
                 /\ utop'.status.phase = "Ready" =>
                      \/ upass.obj.status.phase = "Ready" \/ upass.patch.phase = "Ready"
                      \/ uview.obj # Absent /\ uview.obj.status.phase = "Ready"
           /\ upass # U!Idle /\ uview'.obj = uview.obj
           /\ \/ upass' = U!Idle
              \/ upass'.at = "replay" /\ upass'.obj = upass.obj /\ upass'.patch = upass.patch
<1>1. U!Save(FALSE) /\ FALSE \in BOOLEAN /\ U!TypesOK(Objects, Patches, Stages) /\ U!CacheOK
  BY DEF USave, TypeInv, TypeOK
<1>2. /\ upass # U!Idle /\ uview'.obj = uview.obj
      /\ upass' = U!Idle \/ upass'.at = "replay"
  BY <1>1, Modifiers, U!SaveEffect
<1>3. /\ upass.obj \in Objects \ {Absent} /\ upass.patch \in Patches
      /\ utop \in Objects /\ uview.obj \in Objects
  BY <1>1, <1>2 DEF U!TypesOK, U!Passes
<1>4. \A s \in Objects \ {Absent} : utop # Absent =>
        /\ [utop EXCEPT !.status = s.status] # Absent
        /\ [utop EXCEPT !.status = s.status].life = utop.life
        /\ [utop EXCEPT !.status = s.status].fin = utop.fin
        /\ [utop EXCEPT !.status = s.status].status.phase = s.status.phase
  BY <1>3, Present DEF Objects, Absent
<1>5. \/ utop' = utop
      \/ utop # Absent /\ utop' = [utop EXCEPT !.status = upass.obj.status]
      \/ /\ uview.obj # Absent /\ uview.current
         /\ utop' = [utop EXCEPT !.status = Apply(upass.patch, uview.obj).status]
  BY <1>1, U!SaveStatus
<1>6. upass' = U!Idle \/ (upass'.obj = upass.obj /\ upass'.patch = upass.patch)
  BY <1>1, U!SaveStatus
<1>7. ASSUME uview.obj # Absent, uview.current,
             utop' = [utop EXCEPT !.status = Apply(upass.patch, uview.obj).status]
      PROVE  /\ utop # Absent /\ utop' # Absent
             /\ utop'.life = utop.life /\ utop'.fin = utop.fin
             /\ utop'.status.phase = "Ready" =>
                  upass.patch.phase = "Ready" \/ uview.obj.status.phase = "Ready"
  <2>1. utop # Absent
    BY <1>7 DEF TypeInv, U!CacheOK
  <2>2. /\ Apply(upass.patch, uview.obj) \in Objects \ {Absent}
        /\ Apply(upass.patch, uview.obj).status.phase =
             IF upass.patch.phase = "keep" THEN uview.obj.status.phase ELSE upass.patch.phase
    BY <1>3, <1>7, ApplyType
  <2>3. QED
    BY <1>4, <1>7, <2>1, <2>2
<1>8. ASSUME utop # Absent, utop' = [utop EXCEPT !.status = upass.obj.status]
      PROVE  /\ utop' # Absent /\ utop'.life = utop.life /\ utop'.fin = utop.fin
             /\ utop'.status.phase = "Ready" => upass.obj.status.phase = "Ready"
  BY <1>3, <1>4, <1>8
<1>9. QED
  BY <1>2, <1>5, <1>6, <1>7, <1>8

-----------------------------------------------------------------------------
(* The user and the object that answers for it.                             *)

\* The steps that leave the object of the user, its cache and its pass alone.
LEMMA UserLeftAlone ==
    ASSUME Next
    PROVE  \/ UNCHANGED <<utop, uview, upass>>
           \/ UserObject /\ utop = Absent /\ U!Write(NewObject)
           \/ UBegin \/ UserComponents \/ USave \/ USync \/ CollectUser \/ Crash
BY DEF Next, VWorker, UWorker, VBegin, VhostComponents, UserObject, VhostFinalizer, DestroyVhost,
       ReleaseVhost, Vhost, VSave, VSync, SyncSecret, TimerFires, U!TimerFires, DeleteVhost,
       EditVhost, userVars

\* Somebody who writes the object of the user leaves the copies of it alone.
LEMMA UWriteCopies ==
    ASSUME UTypes, NEW o, U!Write(o)
    PROVE  /\ utop' = o /\ uview'.obj = uview.obj
           /\ \/ upass = U!Idle /\ upass' = U!Idle
              \/ /\ upass # U!Idle /\ upass'.at = upass.at
                 /\ upass'.obj = upass.obj /\ upass'.patch = upass.patch
<1>1. utop' = o /\ uview'.obj = uview.obj
  BY DEF UTypes, U!TypesOK, U!Write
<1>2. CASE upass.at = "idle"
  BY <1>1, <1>2 DEF UTypes, U!TypesOK, U!Passes, U!Write, Stages
<1>3. CASE upass.at # "idle"
  BY <1>1, <1>3 DEF UTypes, U!TypesOK, U!Passes, U!Write, U!Idle
<1>4. QED
  BY <1>2, <1>3

\* Components of the user run on an object in the state they are for, and its finalizer
\* is given up on one that is being deleted.
LEMMA UserComponentsKnown == TypeInv /\ UserInv /\ UserComponents => UserInv'
<1> SUFFICES ASSUME TypeInv, UserInv, UserComponents PROVE UserInv'
  OBVIOUS
<1>1. upass.at \in {"secret", "finalizer", "destroy", "put"} /\ TypeOK
  BY DEF UserComponents, Secret, UserFinalizer, DestroyUser, User, TypeInv
<1>2. upass.at \in Stages /\ upass # U!Idle /\ upass.obj \in Objects \ {Absent}
  BY <1>1, URunning DEF Stages
<1>3. /\ {NoPatch, Ready, Recorded} \subseteq Patches /\ NoPatch \in {NoPatch, Recorded}
      /\ Recorded \in {NoPatch, Recorded}
      /\ {"call", "conflict", "no secret"} \subseteq Messages
  BY DEF NoPatch, Ready, Recorded, Patches, Messages
<1>4. upass.obj.life \in {"live", "deleting"}
  BY <1>2, Present
<1>5. \A message \in Messages, patch \in {NoPatch, Recorded}, requeue \in BOOLEAN :
        (UFail(message, patch, requeue) \/ UCallFails) /\ UNCHANGED <<utop, uview>> => UserInv'
  BY <1>1, <1>2, UReturnsEffect DEF UserInv, UKnown, UPlaced, Alike
<1>6. ASSUME NEW stage \in Stages \cup {"save"}, NEW patch \in Patches, NEW after \in BOOLEAN,
             UGoOn(stage, patch, after), UNCHANGED <<utop, uview>>,
             stage \in {"save", After(upass.obj, "put")}
      PROVE  UserInv'
  <2>1. /\ upass' # U!Idle /\ upass'.at = stage /\ Alike(upass'.obj, upass.obj)
    BY <1>1, <1>2, <1>6, UReturnsEffect
  <2>2. UKnown(uview.obj)' /\ UKnown(upass.obj)'
    BY <1>2, <1>6, <2>1, Present DEF UserInv, UKnown, Alike
  <2>3. UPlaced'
    BY <1>4, <1>6, <2>1 DEF UPlaced, After, Alike
  <2>4. QED
    BY <2>2, <2>3 DEF UserInv
<1>7. CASE Secret
  <2>1. After(upass.obj, "put") \in Stages \cup {"save"}
    BY DEF After, Stages
  <2>2. QED
    BY <1>3, <1>5, <1>6, <1>7, <2>1 DEF Secret
<1>8. CASE UserFinalizer
  <2>1. CASE UWriteFinalizer(TRUE, "put")
    <3>1. /\ utop' # Absent /\ utop'.fin /\ uview'.obj = uview.obj /\ upass' # U!Idle
          /\ upass'.at = "put" /\ upass'.obj.life = upass.obj.life /\ upass'.obj.fin
      BY <1>2, <2>1, UWriteEffect DEF Stages
    <3>2. upass.obj.life = "live"
      BY <1>8 DEF UserFinalizer, UserInv, UPlaced
    <3>3. QED
      BY <3>1, <3>2 DEF UserInv, UKnown, UPlaced
  <2>2. CASE UConflict
    BY <1>3, <1>5, <2>2 DEF UConflict
  <2>3. QED
    BY <1>8, <2>1, <2>2 DEF UserFinalizer
<1>9. CASE DestroyUser
  <2>1. CASE UWriteFinalizer(FALSE, "save")
    <3>1. /\ utop = uview.obj /\ Alike(upass.obj, utop) /\ uview'.obj = uview.obj
          /\ upass'.at = "save" /\ upass'.obj.life = upass.obj.life
      BY <1>2, <2>1, UWriteEffect
    <3>2. upass.obj.life = "deleting"
      BY <1>9 DEF DestroyUser, UserInv, UPlaced
    <3>3. QED
      BY <3>1, <3>2 DEF UserInv, UKnown, UPlaced, Alike
  <2>2. CASE UConflict
    BY <1>3, <1>5, <2>2 DEF UConflict
  <2>3. CASE UCallFails /\ UNCHANGED <<utop, uview>>
    BY <1>3, <1>5, <2>3
  <2>4. QED
    BY <1>9, <2>1, <2>2, <2>3 DEF DestroyUser
<1>10. CASE User
  <2>1. UNCHANGED <<utop, uview>>
    BY <1>10 DEF User
  <2>2. CASE UFail("no secret", NoPatch, FALSE) \/ UCallFails
    BY <1>3, <1>5, <2>1, <2>2
  <2>3. CASE UGoOn("save", NoPatch, TRUE) \/ UGoOn("save", Ready, FALSE)
    BY <1>3, <1>6, <2>1, <2>3
  <2>4. QED
    BY <1>10, <2>2, <2>3 DEF User
<1>11. QED
  BY <1>7, <1>8, <1>9, <1>10 DEF UserComponents

\* Every step keeps what is known of the finalizer of the user.
LEMMA UserKnown == TypeInv /\ UserInv /\ [Next]_vars => UserInv'
<1> SUFFICES ASSUME TypeInv, UserInv, [Next]_vars PROVE UserInv'
  OBVIOUS
<1>1. UTypes
  BY DEF TypeInv, TypeOK, UTypes
<1>2. utop \in Objects /\ uview.obj \in Objects /\ Absent \in Objects
  BY <1>1, Present DEF UTypes, U!TypesOK
<1>3. U!Idle.at = "idle"
  BY DEF U!Idle
<1>4. CASE UNCHANGED <<utop, uview, upass>>
  BY <1>4 DEF UserInv, UKnown, UPlaced, U!Idle
<1>5. ASSUME NEW o, U!Write(o), utop # Absent /\ utop.fin => o # Absent /\ o.fin
      PROVE  UserInv'
  BY <1>1, <1>3, <1>5, UWriteCopies DEF UserInv, UKnown, UPlaced
<1>6. CASE UserObject /\ utop = Absent /\ U!Write(NewObject)
  BY <1>5, <1>6
<1>7. CASE UBegin
  <2>1. UNCHANGED <<utop, uview>>
    BY <1>7 DEF UBegin, U!Begin
  <2>2. \/ upass' = U!Idle
        \/ upass'.at = "secret" /\ upass'.obj = uview.obj
    BY <1>7 DEF UBegin, U!Begin, U!Fresh
  <2>3. QED
    BY <1>3, <2>1, <2>2 DEF UserInv, UKnown, UPlaced
<1>8. CASE USave
  BY <1>3, <1>8, USaveDoes DEF UserInv, UKnown, UPlaced
<1>9. CASE USync
  <2>1. utop' = utop /\ uview'.obj = utop /\ upass' = upass
    BY <1>9 DEF USync, U!Sync
  <2>2. QED
    BY <2>1 DEF UserInv, UKnown, UPlaced, U!Idle
<1>10. CASE CollectUser
  <2>1. utop.fin => /\ [utop EXCEPT !.life = "deleting"] # Absent
                    /\ [utop EXCEPT !.life = "deleting"].fin
    BY <1>2, <1>10, Present DEF CollectUser, Objects, Absent
  <2>2. QED
    BY <1>5, <1>10, <2>1 DEF CollectUser
<1>11. CASE Crash
  <2>1. utop' = utop /\ uview'.obj = utop /\ upass' = U!Idle
    BY <1>11 DEF Crash, U!Restart
  <2>2. QED
    BY <1>3, <2>1 DEF UserInv, UKnown, UPlaced
<1>12. QED
  BY <1>4, <1>6, <1>7, <1>8, <1>9, <1>10, <1>11, UserComponentsKnown, UserLeftAlone DEF vars

\* Who makes and destroys what on the broker.
LEMMA BrokerDoes ==
    ASSUME TypeInv, [Next]_vars
    PROVE  /\ broker'.user = broker.user \/ (User /\ UserComponents)
                                        \/ (DestroyUser /\ UserComponents)
           /\ broker'.vhost = broker.vhost \/ (Vhost /\ VhostComponents)
                                          \/ (DestroyVhost /\ VhostComponents)
<1>1. broker \in Brokers
  BY DEF TypeInv, TypeOK
<1>2. CASE UNCHANGED broker
  BY <1>2
<1>3. CASE VhostComponents
  <2>1. CASE UNCHANGED broker
    BY <2>1
  <2>2. CASE DestroyVhost
    <3>1. broker'.user = broker.user
      BY <1>1, <2>2 DEF DestroyVhost, WithoutVhost, Brokers
    <3>2. QED
      BY <1>3, <2>2, <3>1
  <2>3. CASE Vhost
    <3>1. broker'.user = broker.user
      BY <1>1, <2>3 DEF Vhost, VhostCallFails, Brokers
    <3>2. QED
      BY <1>3, <2>3, <3>1
  <2>4. QED
    BY <1>3, <2>1, <2>2, <2>3 DEF VhostComponents, UserObject, VhostFinalizer, ReleaseVhost
<1>4. CASE UserComponents
  <2>1. CASE UNCHANGED broker
    BY <2>1
  <2>2. CASE DestroyUser
    <3>1. broker'.vhost = broker.vhost
      BY <1>1, <2>2 DEF DestroyUser, WithoutUser, Brokers
    <3>2. QED
      BY <1>4, <2>2, <3>1
  <2>3. CASE User
    <3>1. broker'.vhost = broker.vhost
      BY <1>1, <2>3 DEF User, Brokers
    <3>2. QED
      BY <1>4, <2>3, <3>1
  <2>4. QED
    BY <1>4, <2>1, <2>2, <2>3 DEF UserComponents, Secret, UserFinalizer
<1>5. QED
  BY <1>2, <1>3, <1>4
     DEF Next, vars, VWorker, UWorker, VBegin, VSave, UBegin, USave, VSync, USync, SyncSecret,
         TimerFires, CollectUser, Crash, DeleteVhost, EditVhost

\* With finalizers, a user is made while its object has the finalizer, and destroyed
\* before it is given up.
LEMMA UserStep ==
    ASSUME EnableFinalizers, TypeInv, UserInv, UserAnswered, [Next]_vars
    PROVE  UserAnswered'
<1>1. UTypes /\ broker \in Brokers /\ utop \in Objects
  BY DEF TypeInv, TypeOK, UTypes, U!TypesOK
<1>2. CASE User /\ UserComponents
  <2>1. upass.at = "put" /\ upass.obj \in Objects \ {Absent} /\ upass # U!Idle
    BY <1>2, URunning DEF User, Stages, TypeInv
  <2>2. utop # Absent /\ utop.fin
    BY <2>1, Present DEF UserInv, UPlaced, UKnown
  <2>3. UNCHANGED utop
    BY <1>2 DEF User
  <2>4. QED
    BY <2>2, <2>3 DEF UserAnswered
<1>3. CASE DestroyUser
  <2>1. CASE broker' = WithoutUser
    BY <1>1, <2>1 DEF WithoutUser, Brokers, UserAnswered
  <2>2. CASE UNCHANGED <<broker, utop>>
    BY <2>2 DEF UserAnswered
  <2>3. QED
    BY <1>3, <2>1, <2>2 DEF DestroyUser
<1>4. CASE ~DestroyUser /\ broker'.user = broker.user
  <2>1. CASE utop = Absent
    BY <1>4, <2>1 DEF UserAnswered
  <2>2. CASE UNCHANGED utop
    BY <1>4, <2>2 DEF UserAnswered
  <2>3. CASE UserComponents /\ utop # Absent
    <3>1. CASE Secret \/ User
      BY <2>2, <3>1 DEF Secret, User
    <3>2. CASE UserFinalizer
      <4>1. CASE UConflict
        BY <2>2, <4>1 DEF UConflict
      <4>2. CASE UWriteFinalizer(TRUE, "put")
        <5>1. upass.at \in Stages /\ "put" \in Stages
          BY <3>2 DEF UserFinalizer, Stages
        <5>2. utop' # Absent /\ utop'.fin
          BY <4>2, <5>1, UWriteEffect
        <5>3. QED
          BY <5>2 DEF UserAnswered
      <4>3. QED
        BY <3>2, <4>1, <4>2 DEF UserFinalizer
    <3>3. QED
      BY <1>4, <2>3, <3>1, <3>2 DEF UserComponents
  <2>4. CASE USave
    BY <1>4, <2>4, USaveDoes DEF UserAnswered
  <2>5. CASE CollectUser
    <3>1. utop.fin => /\ [utop EXCEPT !.life = "deleting"] # Absent
                      /\ [utop EXCEPT !.life = "deleting"].fin
      BY <1>1, <2>5, Present DEF CollectUser, Objects, Absent
    <3>2. utop.fin => utop' # Absent /\ utop'.fin
      BY <2>5, <3>1 DEF CollectUser, U!Write
    <3>3. QED
      BY <1>4, <3>2 DEF UserAnswered
  <2>6. QED
    BY <2>1, <2>2, <2>3, <2>4, <2>5, UserLeftAlone
       DEF vars, UBegin, U!Begin, USync, U!Sync, Crash, U!Restart
<1>5. QED
  BY <1>2, <1>3, <1>4, BrokerDoes

\* No user stays on the broker without an object that answers for it: whatever fails or
\* restarts, also when the vhost object goes before the user is made.
THEOREM UserAnsweredCorrect ==
    ASSUME EnableFinalizers
    PROVE  Spec => []UserAnswered
<1>1. Init => UserInv /\ UserAnswered
  BY DEF Init, U!Start, U!Idle, Absent, UserInv, UKnown, UPlaced, UserAnswered
<1>2. TypeInv /\ UserInv /\ UserAnswered /\ [Next]_vars => (UserInv /\ UserAnswered)'
  BY UserKnown, UserStep
<1>3. QED
  BY <1>1, <1>2, TypeAlways, PTL DEF Spec

-----------------------------------------------------------------------------
(* The vhost and the object that answers for it.                            *)

\* The steps that leave the object of the vhost, its cache and its pass alone.
LEMMA VhostLeftAlone ==
    ASSUME Next
    PROVE  \/ UNCHANGED <<vtop, vview, vpass>>
           \/ VBegin \/ VhostComponents \/ VSave \/ VSync \/ Crash \/ DeleteVhost \/ EditVhost
BY DEF Next, VWorker, UWorker, UBegin, UserComponents, USave, USync, SyncSecret, TimerFires,
       CollectUser, vhostVars

\* Somebody who writes the object of the vhost leaves the copies of it alone.
LEMMA VWriteCopies ==
    ASSUME VTypes, NEW o, V!Write(o)
    PROVE  /\ vtop' = o /\ vview'.obj = vview.obj
           /\ \/ vpass = V!Idle /\ vpass' = V!Idle
              \/ /\ vpass # V!Idle /\ vpass'.at = vpass.at
                 /\ vpass'.obj = vpass.obj /\ vpass'.patch = vpass.patch
<1>1. vtop' = o /\ vview'.obj = vview.obj
  BY DEF VTypes, V!TypesOK, V!Write
<1>2. CASE vpass.at = "idle"
  BY <1>1, <1>2 DEF VTypes, V!TypesOK, V!Passes, V!Write, Stages
<1>3. CASE vpass.at # "idle"
  BY <1>1, <1>3 DEF VTypes, V!TypesOK, V!Passes, V!Write, V!Idle
<1>4. QED
  BY <1>2, <1>3

\* Components of the vhost run on an object in the state they are for, and its finalizer
\* is given up on one that is being deleted.
LEMMA VhostComponentsKnown == TypeInv /\ VhostInv /\ VhostComponents => VhostInv'
<1> SUFFICES ASSUME TypeInv, VhostInv, VhostComponents PROVE VhostInv'
  OBVIOUS
<1>1. vpass.at \in {"user", "finalizer", "destroy", "release", "vhost"} /\ TypeOK
  BY DEF VhostComponents, UserObject, VhostFinalizer, DestroyVhost, ReleaseVhost, Vhost, TypeInv
<1>2. vpass.at \in Stages /\ vpass # V!Idle /\ vpass.obj \in Objects \ {Absent}
  BY <1>1, VRunning DEF Stages
<1>3. /\ NoPatch \in Patches /\ Ready \in Patches
      /\ {"call", "conflict", "no user"} \subseteq Messages
      /\ {"vhost", "finalizer", "destroy", "release"} \subseteq Stages
  BY DEF NoPatch, Ready, Patches, Messages, Stages
<1>4. vpass.obj.life \in {"live", "deleting"}
  BY <1>2, Present
<1>5. \A message \in Messages, requeue \in BOOLEAN :
        (VFail(message, requeue) \/ VCallFails) /\ UNCHANGED <<vtop, vview>> => VhostInv'
  BY <1>1, <1>2, VReturnsEffect DEF VhostInv, VKnown, VPlaced, Alike
<1>6. ASSUME NEW stage \in Stages \cup {"save"}, NEW patch \in Patches,
             VGoOn(stage, patch), UNCHANGED <<vtop, vview>>,
             \/ stage \in {"save", After(vpass.obj, "vhost")}
             \/ stage = "release" /\ vpass.at = "destroy"
      PROVE  VhostInv'
  <2>1. /\ vpass' # V!Idle /\ vpass'.at = stage /\ Alike(vpass'.obj, vpass.obj)
    BY <1>1, <1>2, <1>6, VReturnsEffect
  <2>2. VKnown(vview.obj)' /\ VKnown(vpass.obj)'
    BY <1>2, <1>6, <2>1, Present DEF VhostInv, VKnown, Alike
  <2>3. VPlaced'
    BY <1>4, <1>6, <2>1 DEF VhostInv, VPlaced, After, Alike
  <2>4. QED
    BY <2>2, <2>3 DEF VhostInv
<1>7. VConflict => VhostInv'
  BY <1>3, <1>5 DEF VConflict
<1>8. CASE UserObject
  <2>1. After(vpass.obj, "vhost") \in Stages \cup {"save"} /\ UNCHANGED <<vtop, vview>>
    BY <1>8 DEF After, Stages, UserObject
  <2>2. QED
    BY <1>3, <1>5, <1>6, <1>8, <2>1 DEF UserObject
<1>9. CASE VhostFinalizer
  <2>1. CASE VWriteFinalizer(TRUE, "vhost")
    <3>1. /\ vtop = vview.obj /\ vtop # Absent /\ Alike(vpass.obj, vtop)
          /\ vtop' # Absent /\ vtop'.life = vtop.life /\ vtop'.fin /\ vview'.obj = vview.obj
          /\ vpass' # V!Idle
          /\ vpass'.at = "vhost" /\ vpass'.obj.life = vpass.obj.life /\ vpass'.obj.fin
      BY <1>2, <1>3, <2>1, VWriteEffect
    <3>2. vpass.obj.life = "live"
      BY <1>9 DEF VhostFinalizer, VhostInv, VPlaced
    <3>3. QED
      BY <3>1, <3>2 DEF VhostInv, VKnown, VPlaced, Alike
  <2>2. QED
    BY <1>7, <1>9, <2>1 DEF VhostFinalizer
<1>10. CASE DestroyVhost
  BY <1>3, <1>5, <1>6, <1>10 DEF DestroyVhost
<1>11. CASE ReleaseVhost
  <2>1. CASE VWriteFinalizer(FALSE, "save")
    <3>1. /\ vtop = vview.obj /\ Alike(vpass.obj, vtop) /\ vview'.obj = vview.obj
          /\ vtop' = Absent /\ vpass'.at = "save" /\ vpass'.obj.life = vpass.obj.life
      BY <1>2, <2>1, VWriteEffect
    <3>2. vpass.obj.life = "deleting"
      BY <1>11 DEF ReleaseVhost, VhostInv, VPlaced
    <3>3. QED
      BY <3>1, <3>2 DEF VhostInv, VKnown, VPlaced, Alike
  <2>2. QED
    BY <1>7, <1>11, <2>1 DEF ReleaseVhost
<1>12. CASE Vhost
  BY <1>3, <1>5, <1>6, <1>12 DEF Vhost, Await, VhostCallFails
<1>13. QED
  BY <1>8, <1>9, <1>10, <1>11, <1>12 DEF VhostComponents

\* Every step keeps what is known of the finalizer of the vhost.
LEMMA VhostKnown == TypeInv /\ VhostInv /\ [Next]_vars => VhostInv'
<1> SUFFICES ASSUME TypeInv, VhostInv, [Next]_vars PROVE VhostInv'
  OBVIOUS
<1>1. VTypes
  BY DEF TypeInv, TypeOK, VTypes
<1>2. /\ vtop \in Objects /\ vview.obj \in Objects /\ Absent \in Objects
      /\ vpass # V!Idle => vpass.obj \in Objects
  BY <1>1, Present DEF VTypes, V!TypesOK, V!Passes
<1>3. V!Idle.at = "idle"
  BY DEF V!Idle
<1>4. CASE UNCHANGED <<vtop, vview, vpass>>
  BY <1>4 DEF VhostInv, VKnown, VPlaced, V!Idle
<1>5. ASSUME NEW o \in Objects, V!Write(o), vtop # Absent,
             IF o = Absent THEN vtop.life = "live" /\ ~vtop.fin
             ELSE o.fin = vtop.fin /\ (o.life = vtop.life \/ o.life = "deleting")
      PROVE  VhostInv'
  <2>1. /\ vtop' = o /\ vview'.obj = vview.obj
        /\ \/ vpass = V!Idle /\ vpass' = V!Idle
           \/ /\ vpass # V!Idle /\ vpass'.at = vpass.at /\ vpass'.obj = vpass.obj
    BY <1>1, <1>5, VWriteCopies
  <2>2. VKnown(vview.obj)'
    BY <1>2, <1>5, <2>1, Present DEF VhostInv, VKnown
  <2>3. vpass' # V!Idle => VKnown(vpass.obj)'
    BY <1>2, <1>5, <2>1, Present DEF VhostInv, VKnown
  <2>4. VPlaced'
    BY <1>3, <2>1 DEF VhostInv, VPlaced
  <2>5. QED
    BY <2>2, <2>3, <2>4 DEF VhostInv
<1>6. CASE VBegin
  <2>1. UNCHANGED <<vtop, vview>>
    BY <1>6 DEF VBegin, V!Begin
  <2>2. \/ vpass' = V!Idle
        \/ /\ vpass'.at \in {"user", After(vview.obj, "vhost")}
           /\ vpass'.obj = vview.obj /\ vview.obj \in Objects \ {Absent}
    BY <1>2, <1>6 DEF VBegin, V!Begin, V!Fresh
  <2>3. VPlaced'
    <3>1. CASE vpass' = V!Idle
      BY <1>3, <3>1 DEF VPlaced
    <3>2. CASE /\ vpass'.at \in {"user", After(vview.obj, "vhost")}
               /\ vpass'.obj = vview.obj /\ vview.obj \in Objects \ {Absent}
      BY <3>2, Present DEF VPlaced, After
    <3>3. QED
      BY <2>2, <3>1, <3>2
  <2>4. QED
    BY <2>1, <2>2, <2>3 DEF VhostInv, VKnown
<1>7. CASE VSave
  BY <1>3, <1>7, VSaveDoes, Present DEF VhostInv, VKnown, VPlaced
<1>8. CASE VSync
  <2>1. vtop' = vtop /\ vview'.obj = vtop /\ vpass' = vpass
    BY <1>8 DEF VSync, V!Sync
  <2>2. QED
    BY <1>2, <2>1, Present DEF VhostInv, VKnown, VPlaced, V!Idle
<1>9. CASE Crash
  <2>1. vtop' = vtop /\ vview'.obj = vtop /\ vpass' = V!Idle
    BY <1>9 DEF Crash, V!Restart
  <2>2. QED
    BY <1>2, <1>3, <2>1, Present DEF VhostInv, VKnown, VPlaced
<1>10. CASE DeleteVhost
  <2>1. CASE vtop.fin
    <3>1. /\ [vtop EXCEPT !.life = "deleting"] \in Objects \ {Absent}
          /\ [vtop EXCEPT !.life = "deleting"].fin = vtop.fin
          /\ [vtop EXCEPT !.life = "deleting"].life = "deleting"
      BY <1>2, <1>10 DEF DeleteVhost, Objects, Absent
    <3>2. QED
      BY <1>5, <1>10, <2>1, <3>1 DEF DeleteVhost
  <2>2. CASE ~vtop.fin
    BY <1>2, <1>5, <1>10, <2>2 DEF DeleteVhost
  <2>3. QED
    BY <2>1, <2>2
<1>11. CASE EditVhost
  <2>1. PICK n \in 1 .. MaxSpecs : V!Write([vtop EXCEPT !.spec = n])
    BY <1>11 DEF EditVhost
  <2>2. /\ vtop # Absent /\ [vtop EXCEPT !.spec = n] \in Objects \ {Absent}
        /\ [vtop EXCEPT !.spec = n].fin = vtop.fin /\ [vtop EXCEPT !.spec = n].life = vtop.life
    BY <1>2, <1>11 DEF EditVhost, Objects, Absent
  <2>3. QED
    BY <1>5, <2>1, <2>2
<1>12. QED
  BY <1>4, <1>6, <1>7, <1>8, <1>9, <1>10, <1>11, VhostComponentsKnown, VhostLeftAlone DEF vars

\* The finalizer of the vhost object.
Guarded == vtop # Absent /\ vtop.fin

\* What the abstract specification sees when the broker keeps the vhost or not.
LEMMA AsideStutters ==
    ASSUME UNCHANGED <<Life(vtop), Guarded>>, broker'.vhost = broker.vhost
    PROVE  [Answered!Next]_(Answered!vars)
<1>1. UNCHANGED Answered!vars
  BY DEF Guarded, Answered!vars
<1>2. QED
  BY <1>1

\* What is known of the vhost is kept by what leaves it and its object as they are.
LEMMA AsideAnswered ==
    ASSUME VhostAnswered, Guarded => Guarded', broker'.vhost = broker.vhost,
           vpass'.at = "release" => vpass.at = "release"
    PROVE  VhostAnswered'
BY DEF VhostAnswered, Guarded

\* Components of the vhost make it while its object has the finalizer, destroy it when
\* the object is being deleted, and give the finalizer up afterwards.
LEMMA ComponentsRefine ==
    ASSUME EnableFinalizers, TypeInv, VhostInv, VhostAnswered, VhostComponents
    PROVE  VhostAnswered' /\ [Answered!Next]_(Answered!vars)
<1>1. vpass.at \in Stages /\ TypeOK /\ broker \in Brokers
  BY DEF VhostComponents, UserObject, VhostFinalizer, DestroyVhost, ReleaseVhost, Vhost, Stages,
         TypeInv, TypeOK
<1>2. /\ vpass # V!Idle /\ vpass.obj \in Objects \ {Absent}
      /\ vtop \in Objects /\ vtop # Absent => vtop.life \in {"live", "deleting"}
  BY <1>1, VRunning, Present DEF TypeOK, V!TypesOK
<1>3. /\ NoPatch \in Patches /\ Ready \in Patches
      /\ {"call", "conflict", "no user"} \subseteq Messages
      /\ {"vhost", "release"} \subseteq Stages
  BY DEF NoPatch, Ready, Patches, Messages, Stages
<1>4. \* Where a component goes without an Update.
      /\ \A stage \in Stages \cup {"save"}, patch \in Patches :
           VGoOn(stage, patch) => vpass'.at = stage
      /\ \A message \in Messages, requeue \in BOOLEAN :
           VFail(message, requeue) \/ VCallFails => vpass'.at = "save"
  BY <1>1, VReturnsEffect
<1>5. ASSUME UNCHANGED vtop, broker'.vhost = broker.vhost, vpass'.at # "release"
      PROVE  VhostAnswered' /\ [Answered!Next]_(Answered!vars)
  BY <1>5, AsideAnswered, AsideStutters DEF Guarded, Life
<1>6. VConflict /\ UNCHANGED broker => VhostAnswered' /\ [Answered!Next]_(Answered!vars)
  BY <1>3, <1>4, <1>5 DEF VConflict
<1>7. CASE UserObject
  <2>1. /\ After(vpass.obj, "vhost") \in Stages \cup {"save"}
        /\ After(vpass.obj, "vhost") # "release"
    BY DEF After, Stages
  <2>2. vpass'.at # "release"
    BY <1>3, <1>4, <1>7, <2>1 DEF UserObject
  <2>3. QED
    BY <1>5, <1>7, <2>2 DEF UserObject
<1>8. CASE VhostFinalizer
  <2>1. CASE VWriteFinalizer(TRUE, "vhost")
    <3>1. /\ vtop # Absent /\ Alike(vpass.obj, vtop)
          /\ vtop' # Absent /\ vtop'.life = vtop.life /\ vtop'.fin
          /\ vpass'.at = "vhost" /\ UNCHANGED broker
      BY <1>1, <1>3, <1>8, <2>1, VWriteEffect DEF VhostFinalizer
    <3>2. vtop.life = "live"
      BY <1>8, <3>1 DEF VhostFinalizer, VhostInv, VPlaced, Alike
    <3>3. VhostAnswered'
      BY <3>1, AsideAnswered DEF Guarded
    <3>4. Answered!Guard
      BY <3>1, <3>2 DEF Answered!Guard, Life
    <3>5. QED
      BY <3>3, <3>4 DEF Answered!Next
  <2>2. QED
    BY <1>6, <1>8, <2>1 DEF VhostFinalizer
<1>9. CASE DestroyVhost
  <2>1. CASE VGoOn("release", NoPatch) /\ broker' = WithoutVhost
    <3>1. broker'.vhost = FALSE /\ UNCHANGED vtop
      BY <1>1, <1>9, <2>1 DEF WithoutVhost, Brokers, DestroyVhost
    <3>2. VhostAnswered'
      BY <3>1 DEF VhostAnswered
    <3>3. CASE broker.vhost
      <4>1. vtop # Absent /\ vtop.fin /\ vtop.life = "deleting"
        BY <1>2, <1>9, <3>3, Present DEF DestroyVhost, VhostAnswered, VhostInv, VPlaced, VKnown
      <4>2. Answered!Destroy
        BY <3>1, <3>3, <4>1 DEF Answered!Destroy, Life
      <4>3. QED
        BY <3>2, <4>2 DEF Answered!Next
    <3>4. CASE ~broker.vhost
      <4>1. broker'.vhost = broker.vhost
        BY <1>1, <3>1, <3>4 DEF Brokers
      <4>2. QED
        BY <3>1, <3>2, <4>1, AsideStutters DEF Guarded, Life
    <3>5. QED
      BY <3>3, <3>4
  <2>2. CASE VCallFails /\ UNCHANGED broker
    BY <1>3, <1>4, <1>5, <1>9, <2>2 DEF DestroyVhost
  <2>3. QED
    BY <1>9, <2>1, <2>2 DEF DestroyVhost
<1>10. CASE ReleaseVhost
  <2>1. CASE VWriteFinalizer(FALSE, "save")
    <3>1. /\ vtop # Absent /\ Alike(vpass.obj, vtop) /\ vtop' = Absent
          /\ vpass'.at = "save" /\ UNCHANGED broker
      BY <1>1, <1>10, <2>1, VWriteEffect DEF ReleaseVhost
    <3>2. vtop.life = "deleting" /\ ~broker.vhost
      BY <1>10, <3>1 DEF ReleaseVhost, VhostInv, VPlaced, Alike, VhostAnswered
    <3>3. VhostAnswered'
      BY <3>1, <3>2 DEF VhostAnswered
    <3>4. Answered!Release
      BY <3>1, <3>2 DEF Answered!Release, Life
    <3>5. QED
      BY <3>3, <3>4 DEF Answered!Next
  <2>2. QED
    BY <1>6, <1>10, <2>1 DEF ReleaseVhost
<1>11. CASE Vhost
  <2>1. vtop # Absent /\ vtop.fin /\ UNCHANGED vtop
    BY <1>2, <1>11 DEF Vhost, VhostInv, VPlaced, VKnown
  <2>2. vpass'.at = "save"
    BY <1>3, <1>4, <1>11 DEF Vhost, Await, VhostCallFails
  <2>3. broker'.vhost = broker.vhost \/ (~broker.vhost /\ broker'.vhost)
    BY <1>1, <1>11 DEF Vhost, VhostCallFails, Brokers
  <2>4. CASE broker'.vhost = broker.vhost
    BY <1>5, <2>1, <2>2, <2>4
  <2>5. CASE ~broker.vhost /\ broker'.vhost
    <3>1. VhostAnswered'
      BY <2>1, <2>2 DEF VhostAnswered
    <3>2. Answered!Make
      BY <2>1, <2>5 DEF Answered!Make, Life
    <3>3. QED
      BY <3>1, <3>2 DEF Answered!Next
  <2>6. QED
    BY <2>3, <2>4, <2>5
<1>12. QED
  BY <1>7, <1>8, <1>9, <1>10, <1>11 DEF VhostComponents

\* Every step is a step of the abstract specification or a stutter.
LEMMA NextRefines ==
    ASSUME EnableFinalizers, TypeInv, VhostInv, VhostAnswered, [Next]_vars
    PROVE  VhostAnswered' /\ [Answered!Next]_(Answered!vars)
<1>1. VTypes /\ vtop \in Objects /\ broker \in Brokers
  BY DEF TypeInv, TypeOK, VTypes, V!TypesOK
<1>2. V!Idle.at = "idle"
  BY DEF V!Idle
<1>3. CASE VhostComponents
  BY <1>3, ComponentsRefine
<1>4. CASE ~VhostComponents
  <2>1. broker'.vhost = broker.vhost
    BY <1>4, BrokerDoes
  <2>2. ASSUME UNCHANGED <<Life(vtop), Guarded>>, vpass'.at = "release" => vpass.at = "release"
        PROVE  VhostAnswered' /\ [Answered!Next]_(Answered!vars)
    BY <2>1, <2>2, AsideAnswered, AsideStutters
  <2>3. CASE UNCHANGED <<vtop, vpass>>
    BY <2>2, <2>3 DEF Life, Guarded
  <2>4. CASE VBegin
    <3>1. UNCHANGED vtop /\ vpass'.at # "release"
      BY <1>2, <2>4 DEF VBegin, V!Begin, V!Fresh, After
    <3>2. QED
      BY <2>2, <3>1 DEF Life, Guarded
  <2>5. CASE VSave
    BY <1>2, <2>2, <2>5, VSaveDoes DEF Life, Guarded
  <2>6. CASE VSync \/ Crash
    <3>1. UNCHANGED vtop /\ (vpass' = vpass \/ vpass' = V!Idle)
      BY <2>6 DEF VSync, V!Sync, Crash, V!Restart
    <3>2. QED
      BY <1>2, <2>2, <3>1 DEF Life, Guarded
  <2>7. CASE EditVhost
    <3>1. PICK n \in 1 .. MaxSpecs : V!Write([vtop EXCEPT !.spec = n])
      BY <2>7 DEF EditVhost
    <3>2. /\ vtop # Absent /\ [vtop EXCEPT !.spec = n] # Absent
          /\ [vtop EXCEPT !.spec = n].fin = vtop.fin
          /\ [vtop EXCEPT !.spec = n].life = vtop.life
      BY <1>1, <2>7 DEF EditVhost, Objects, Absent
    <3>3. /\ vtop' = [vtop EXCEPT !.spec = n]
          /\ vpass'.at = "release" => vpass.at = "release"
      BY <1>1, <1>2, <3>1, VWriteCopies
    <3>4. UNCHANGED <<Life(vtop), Guarded>>
      BY <3>2, <3>3 DEF Life, Guarded
    <3>5. QED
      BY <2>2, <3>3, <3>4
  <2>8. CASE DeleteVhost
    <3>1. /\ vtop # Absent /\ vtop.life = "live"
          /\ vtop' = IF vtop.fin THEN [vtop EXCEPT !.life = "deleting"] ELSE Absent
          /\ vpass'.at = "release" => vpass.at = "release"
      BY <1>1, <1>2, <2>8, VWriteCopies DEF DeleteVhost
    <3>2. /\ [vtop EXCEPT !.life = "deleting"] # Absent
          /\ [vtop EXCEPT !.life = "deleting"].fin = vtop.fin
          /\ [vtop EXCEPT !.life = "deleting"].life = "deleting"
      BY <1>1, <3>1 DEF Objects, Absent
    <3>3. /\ Guarded' = Guarded /\ Life(vtop) = "live"
          /\ Life(vtop)' = IF Guarded THEN "deleting" ELSE "gone"
      BY <1>1, <3>1, <3>2 DEF Guarded, Life, Objects
    <3>4. VhostAnswered'
      BY <2>1, <3>1, <3>3, AsideAnswered
    <3>5. Answered!Delete
      BY <2>1, <3>3 DEF Answered!Delete, Guarded
    <3>6. QED
      BY <3>4, <3>5 DEF Answered!Next
  <2>9. QED
    BY <1>4, <2>3, <2>4, <2>5, <2>6, <2>7, <2>8, VhostLeftAlone DEF vars
<1>5. QED
  BY <1>3, <1>4

\* With finalizers the vhost is made, kept and deleted as its finalizer promises.
THEOREM KeepsVhostCorrect ==
    ASSUME EnableFinalizers
    PROVE  Spec => KeepsVhost
<1>1. Init => VhostInv /\ VhostAnswered /\ Answered!Init
  <2>1. SUFFICES ASSUME Init PROVE VhostInv /\ VhostAnswered /\ Answered!Init
    OBVIOUS
  <2>2. /\ vtop = NewObject /\ vview = [obj |-> NewObject, current |-> TRUE] /\ vpass = V!Idle
        /\ broker = [vhost |-> FALSE, policies |-> 0, user |-> FALSE, permissions |-> FALSE]
    BY <2>1 DEF Init, V!Start
  <2>3. NewObject # Absent /\ NewObject.life = "live" /\ NewObject.fin = FALSE
    BY DEF NewObject, Absent
  <2>4. V!Idle.at = "idle"
    BY DEF V!Idle
  <2>5. QED
    BY <2>2, <2>3, <2>4 DEF VhostInv, VKnown, VPlaced, VhostAnswered, Answered!Init, Life
<1>2. TypeInv /\ VhostInv /\ VhostAnswered /\ [Next]_vars
        => (VhostInv /\ VhostAnswered)' /\ [Answered!Next]_(Answered!vars)
  BY VhostKnown, NextRefines
<1>3. QED
  BY <1>1, <1>2, TypeAlways, PTL DEF Spec, KeepsVhost, Answered!Spec

-----------------------------------------------------------------------------
(* An application that is told to connect can.                              *)

\* A user that is there, or nobody left to need it.
Served == broker.user \/ vtop = Absent

\* The vhost object does not come back, nor does it come back to life.
LEMMA VhostEnds ==
    ASSUME TypeInv, [Next]_vars
    PROVE  /\ vtop = Absent => vtop' = Absent
           /\ vtop' # Absent /\ vtop'.life = "live" => vtop # Absent /\ vtop.life = "live"
<1>1. VTypes /\ vtop \in Objects
  BY DEF TypeInv, TypeOK, VTypes, V!TypesOK
<1>2. CASE UNCHANGED vtop
  BY <1>2
<1>3. CASE VhostComponents
  <2>1. CASE VhostFinalizer /\ VWriteFinalizer(TRUE, "vhost")
    <3>1. vpass.at \in Stages /\ "vhost" \in Stages
      BY <2>1 DEF VhostFinalizer, Stages
    <3>2. QED
      BY <2>1, <3>1, VWriteEffect
  <2>2. CASE ReleaseVhost /\ VWriteFinalizer(FALSE, "save")
    <3>1. vpass.at \in Stages
      BY <2>2 DEF ReleaseVhost, Stages
    <3>2. QED
      BY <2>2, <3>1, VWriteEffect
  <2>3. QED
    BY <1>2, <1>3, <2>1, <2>2
       DEF VhostComponents, UserObject, VhostFinalizer, DestroyVhost, ReleaseVhost, Vhost, VConflict
<1>4. CASE VSave
  BY <1>4, VSaveDoes
<1>5. CASE DeleteVhost
  <2>1. /\ vtop # Absent /\ vtop.life = "live"
    BY <1>5 DEF DeleteVhost
  <2>2. QED
    BY <2>1
<1>6. CASE EditVhost
  <2>1. vtop # Absent /\ \E n \in 1 .. MaxSpecs : vtop' = [vtop EXCEPT !.spec = n]
    BY <1>6 DEF EditVhost, V!Write
  <2>2. vtop' # Absent => vtop'.life = vtop.life
    BY <1>1, <2>1 DEF Objects, Absent
  <2>3. QED
    BY <2>1, <2>2
<1>7. QED
  BY <1>2, <1>3, <1>4, <1>5, <1>6, VhostLeftAlone
     DEF vars, VBegin, V!Begin, VSync, V!Sync, Crash, V!Restart

\* The user is only destroyed once the vhost object is gone.
LEMMA ServedStays ==
    ASSUME TypeInv, UserInv, OutlivesInv, [Next]_vars, Served
    PROVE  Served'
<1>1. vtop = Absent => vtop' = Absent
  BY VhostEnds
<1>2. broker \in Brokers
  BY DEF TypeInv, TypeOK
<1>3. CASE User
  BY <1>1, <1>2, <1>3 DEF User, Brokers, Served
<1>4. CASE DestroyUser /\ UserComponents
  <2>1. upass.at \in Stages
    BY <1>4 DEF DestroyUser, Stages
  <2>2. upass # U!Idle /\ upass.obj \in Objects \ {Absent}
    BY <2>1, URunning DEF TypeInv
  <2>3. upass.obj.life = "deleting"
    BY <1>4 DEF DestroyUser, UserInv, UPlaced
  <2>4. vtop = Absent
    BY <2>2, <2>3 DEF OutlivesInv, UserOutlives
  <2>5. QED
    BY <1>1, <2>4 DEF Served
<1>5. CASE broker'.user = broker.user
  BY <1>1, <1>5 DEF Served
<1>6. QED
  BY <1>3, <1>4, <1>5, BrokerDoes

\* Components of the user say that it is Ready when it is on the broker.
LEMMA UserComponentsOutlive ==
    ASSUME TypeInv, UserInv, OutlivesInv, UserComponents,
           vtop = Absent => vtop' = Absent, Served => Served'
    PROVE  OutlivesInv'
<1>1. upass.at \in {"secret", "finalizer", "destroy", "put"} /\ TypeOK /\ broker \in Brokers
  BY DEF UserComponents, Secret, UserFinalizer, DestroyUser, User, TypeInv, TypeOK
<1>2. upass.at \in Stages /\ upass # U!Idle /\ upass.obj \in Objects \ {Absent}
  BY <1>1, URunning DEF Stages
<1>3. /\ {NoPatch, Ready, Recorded} \subseteq Patches /\ NoPatch \in {NoPatch, Recorded}
      /\ Recorded \in {NoPatch, Recorded} /\ NoPatch.phase = "keep" /\ Recorded.phase = "keep"
      /\ {"call", "conflict", "no secret"} \subseteq Messages
  BY DEF NoPatch, Ready, Recorded, Patches, Messages
<1>4. ASSUME UNCHANGED <<utop, uview>>, upass' # U!Idle, upass'.obj.life = upass.obj.life,
             upass'.obj.status.phase = "Ready" => upass.obj.status.phase = "Ready" \/ Served',
             upass'.patch.phase = "Ready" => upass.patch.phase = "Ready" \/ Served'
      PROVE  OutlivesInv'
  BY <1>2, <1>4 DEF OutlivesInv, UserOutlives, Served
<1>5. \A message \in Messages, patch \in {NoPatch, Recorded}, requeue \in BOOLEAN :
        (UFail(message, patch, requeue) \/ UCallFails) /\ UNCHANGED <<utop, uview>>
          => OutlivesInv'
  BY <1>1, <1>2, <1>4, UReturnsEffect DEF Alike
<1>6. ASSUME NEW stage \in Stages \cup {"save"}, NEW patch \in Patches, NEW after \in BOOLEAN,
             UGoOn(stage, patch, after), UNCHANGED <<utop, uview>>,
             patch.phase = "keep" \/ Served'
      PROVE  OutlivesInv'
  BY <1>1, <1>2, <1>4, <1>6, UReturnsEffect DEF Alike
<1>7. UConflict => OutlivesInv'
  BY <1>3, <1>5 DEF UConflict
<1>8. ASSUME NEW fin \in BOOLEAN, NEW stage \in Stages \cup {"save"}, UWriteFinalizer(fin, stage)
      PROVE  OutlivesInv'
  <2>1. /\ utop # Absent
        /\ utop' = Absent \/ (utop'.life = utop.life /\ utop'.status = utop.status)
        /\ uview'.obj = uview.obj /\ upass' # U!Idle /\ upass'.obj.life = upass.obj.life
        /\ upass'.obj.status = upass.obj.status /\ upass'.patch = upass.patch
    BY <1>2, <1>8, UWriteEffect
  <2>2. QED
    BY <1>2, <2>1 DEF OutlivesInv, UserOutlives, Served
<1>9. CASE Secret
  <2>1. After(upass.obj, "put") \in Stages \cup {"save"}
    BY DEF After, Stages
  <2>2. QED
    BY <1>3, <1>5, <1>6, <1>9, <2>1 DEF Secret
<1>10. CASE UserFinalizer
  <2>1. "put" \in Stages
    BY DEF Stages
  <2>2. QED
    BY <1>7, <1>8, <1>10, <2>1 DEF UserFinalizer
<1>11. CASE DestroyUser
  BY <1>3, <1>5, <1>7, <1>8, <1>11 DEF DestroyUser
<1>12. CASE User
  <2>1. UNCHANGED <<utop, uview>>
    BY <1>12 DEF User
  <2>2. CASE UFail("no secret", NoPatch, FALSE) \/ UCallFails
    BY <1>3, <1>5, <2>1, <2>2
  <2>3. CASE UGoOn("save", NoPatch, TRUE)
    BY <1>3, <1>6, <2>1, <2>3
  <2>4. CASE UGoOn("save", Ready, FALSE) /\ broker.user
    BY <1>3, <1>6, <2>1, <2>4 DEF Served
  <2>5. QED
    BY <1>12, <2>2, <2>3, <2>4 DEF User
<1>13. QED
  BY <1>9, <1>10, <1>11, <1>12 DEF UserComponents

\* Every step keeps the user as long as its vhost.
LEMMA UserStays ==
    ASSUME TypeInv, UserInv, OutlivesInv, [Next]_vars
    PROVE  OutlivesInv'
<1>1. /\ vtop = Absent => vtop' = Absent
      /\ Served => Served'
  BY VhostEnds, ServedStays
<1>2. UTypes /\ utop \in Objects /\ U!Idle.at = "idle"
  BY DEF TypeInv, TypeOK, UTypes, U!TypesOK, U!Idle
<1>3. CASE UNCHANGED <<utop, uview, upass>>
  BY <1>1, <1>3 DEF OutlivesInv, UserOutlives, Served, U!Idle
<1>4. ASSUME NEW o, U!Write(o), UserOutlives(o)
      PROVE  OutlivesInv'
  BY <1>1, <1>2, <1>4, UWriteCopies DEF OutlivesInv, UserOutlives, Served
<1>5. CASE UserObject /\ U!Write(NewObject)
  <2>1. UserOutlives(NewObject)
    BY DEF UserOutlives, NewObject
  <2>2. QED
    BY <1>4, <1>5, <2>1
<1>6. CASE UBegin
  <2>1. UNCHANGED <<utop, uview>>
    BY <1>6 DEF UBegin, U!Begin
  <2>2. \/ upass' = U!Idle
        \/ upass'.obj = uview.obj /\ upass'.patch.phase = "keep"
    BY <1>6 DEF UBegin, U!Begin, U!Fresh, NoPatch
  <2>3. QED
    BY <1>1, <2>1, <2>2 DEF OutlivesInv, UserOutlives, Served
<1>7. CASE USave
  <2>1. upass # U!Idle => upass.obj # Absent
    BY <1>2 DEF UTypes, U!TypesOK, U!Passes
  <2>2. QED
    BY <1>1, <1>7, <2>1, USaveDoes DEF OutlivesInv, UserOutlives, Served
<1>8. CASE USync \/ Crash
  <2>1. utop' = utop /\ uview'.obj = utop /\ (upass' = upass \/ upass' = U!Idle)
    BY <1>8 DEF USync, U!Sync, Crash, U!Restart
  <2>2. QED
    BY <1>1, <2>1 DEF OutlivesInv, UserOutlives, Served, U!Idle
<1>9. CASE CollectUser
  <2>1. vtop = Absent
    BY <1>9 DEF CollectUser
  <2>2. \A o : UserOutlives(o)
    BY <2>1 DEF UserOutlives
  <2>3. QED
    BY <1>4, <1>9, <2>2 DEF CollectUser
<1>10. QED
  BY <1>1, <1>3, <1>5, <1>6, <1>7, <1>8, <1>9, UserComponentsOutlive, UserLeftAlone DEF vars

\* What a live vhost object needs to say that it is Ready.
Usable == broker.vhost /\ (skipUser \/ broker.user)

\* A vhost with its user stays usable as long as its object is live.
LEMMA UsableStays ==
    ASSUME TypeInv, UserInv, OutlivesInv, VhostInv, [Next]_vars,
           vtop' # Absent, vtop'.life = "live", Usable
    PROVE  Usable'
<1>1. vtop # Absent /\ vtop.life = "live" /\ broker \in Brokers /\ skipUser' = skipUser
  <2>1. vtop # Absent /\ vtop.life = "live" /\ broker \in Brokers
    BY VhostEnds DEF TypeInv, TypeOK
  <2>2. skipUser' = skipUser
    BY DEF Next, vars, VWorker, UWorker, VBegin, VhostComponents, VSave, UBegin, UserComponents,
           USave, VSync, USync, SyncSecret, TimerFires, CollectUser, Crash, DeleteVhost, EditVhost
  <2>3. QED
    BY <2>1, <2>2
<1>2. broker.user => broker'.user
  BY <1>1, ServedStays DEF Served
<1>3. broker.vhost => broker'.vhost
  <2>1. CASE Vhost
    BY <1>1, <2>1 DEF Vhost, VhostCallFails, Brokers
  <2>2. CASE DestroyVhost /\ VhostComponents
    <3>1. vpass.at \in Stages
      BY <2>2 DEF DestroyVhost, Stages
    <3>2. vpass # V!Idle /\ vpass.obj \in Objects \ {Absent}
      BY <3>1, VRunning DEF TypeInv
    <3>3. vtop = Absent \/ vtop.life = "deleting"
      BY <2>2, <3>2 DEF DestroyVhost, VhostInv, VPlaced, VKnown
    <3>4. QED
      BY <1>1, <3>3
  <2>3. CASE broker'.vhost = broker.vhost
    BY <2>3
  <2>4. QED
    BY <2>1, <2>2, <2>3, BrokerDoes
<1>4. QED
  BY <1>1, <1>2, <1>3 DEF Usable

\* A component of the vhost says Ready of a usable vhost only.
LEMMA ComponentsSayReady ==
    ASSUME TypeInv, OutlivesInv, VhostComponents, vtop' # Absent, vtop'.life = "live",
           SaysReady'
    PROVE  vtop # Absent /\ vtop.life = "live" => SaysReady \/ Usable'
<1>1. vpass.at \in Stages /\ TypeOK /\ broker \in Brokers
  BY DEF VhostComponents, UserObject, VhostFinalizer, DestroyVhost, ReleaseVhost, Vhost, Stages,
         TypeInv, TypeOK
<1>2. vpass # V!Idle /\ vpass.obj \in Objects \ {Absent}
  BY <1>1, VRunning
<1>3. /\ NoPatch \in Patches /\ Ready \in Patches /\ NoPatch.phase = "keep"
      /\ {"call", "conflict", "no user"} \subseteq Messages
      /\ {"vhost", "release"} \subseteq Stages
  BY DEF NoPatch, Ready, Patches, Messages, Stages
<1>4. ASSUME UNCHANGED <<vtop, vview>>,
             vpass'.obj.status.phase = "Ready" => vpass.obj.status.phase = "Ready",
             vpass'.patch.phase = "Ready" => vpass.patch.phase = "Ready"
      PROVE  SaysReady
  BY <1>2, <1>4 DEF SaysReady
<1>5. \A message \in Messages, requeue \in BOOLEAN :
        (VFail(message, requeue) \/ VCallFails) /\ UNCHANGED <<vtop, vview>> => SaysReady
  BY <1>1, <1>4, VReturnsEffect
<1>6. \A stage \in Stages \cup {"save"} :
        VGoOn(stage, NoPatch) /\ UNCHANGED <<vtop, vview>> => SaysReady
  BY <1>1, <1>3, <1>4, VReturnsEffect
<1>7. VConflict => SaysReady
  BY <1>3, <1>5 DEF VConflict
<1>8. ASSUME NEW fin \in BOOLEAN, NEW stage \in Stages \cup {"save"}, VWriteFinalizer(fin, stage)
      PROVE  SaysReady
  BY <1>1, <1>2, <1>8, VWriteEffect DEF SaysReady
<1>9. CASE UserObject
  <2>1. After(vpass.obj, "vhost") \in Stages \cup {"save"}
    BY DEF After, Stages
  <2>2. QED
    BY <1>3, <1>5, <1>6, <1>9, <2>1 DEF UserObject
<1>10. CASE VhostFinalizer
  BY <1>3, <1>7, <1>8, <1>10 DEF VhostFinalizer
<1>11. CASE DestroyVhost
  BY <1>3, <1>5, <1>6, <1>11 DEF DestroyVhost
<1>12. CASE ReleaseVhost
  BY <1>7, <1>8, <1>12 DEF ReleaseVhost
<1>13. CASE Vhost
  <2>1. UNCHANGED <<vtop, vview, skipUser>>
    BY <1>13 DEF Vhost, VhostComponents
  <2>2. CASE VFail("no user", FALSE) \/ VCallFails \/ VGoOn("save", NoPatch)
    BY <1>3, <1>5, <1>6, <2>1, <2>2
  <2>3. CASE /\ broker' = [broker EXCEPT !.vhost = TRUE, !.policies = vpass.obj.spec]
             /\ skipUser \/ (uview.obj # Absent /\ uview.obj.status.phase = "Ready")
    <3>1. broker'.vhost /\ broker'.user = broker.user
      BY <1>1, <2>3 DEF Brokers
    <3>2. skipUser \/ broker.user \/ vtop = Absent
      BY <2>3 DEF OutlivesInv, UserOutlives
    <3>3. QED
      BY <2>1, <3>1, <3>2 DEF Usable
  <2>4. QED
    BY <1>13, <2>2, <2>3 DEF Vhost, Await, VhostCallFails
<1>14. QED
  BY <1>9, <1>10, <1>11, <1>12, <1>13 DEF VhostComponents

\* Every step keeps the promise of a vhost object that is Ready.
LEMMA ReadyStays ==
    ASSUME TypeInv, UserInv, OutlivesInv, VhostInv, ReadyInv, [Next]_vars
    PROVE  ReadyInv'
<1> SUFFICES ASSUME vtop' # Absent, vtop'.life = "live", SaysReady' PROVE Usable'
  BY DEF ReadyInv, Usable
<1>1. vtop # Absent /\ vtop.life = "live"
  BY VhostEnds
<1>2. VTypes /\ vtop \in Objects
  BY DEF TypeInv, TypeOK, VTypes, V!TypesOK
<1>3. SaysReady => Usable'
  BY <1>1, UsableStays DEF ReadyInv, Usable
<1>4. SaysReady \/ Usable'
  <2>1. CASE UNCHANGED <<vtop, vview, vpass>>
    BY <2>1 DEF SaysReady, V!Idle
  <2>2. CASE VBegin
    <3>1. UNCHANGED <<vtop, vview>>
      BY <2>2 DEF VBegin, V!Begin
    <3>2. \/ vpass' = V!Idle
          \/ /\ vpass'.obj = vview.obj /\ vview.obj # Absent /\ vpass'.patch.phase = "keep"
      BY <2>2 DEF VBegin, V!Begin, V!Fresh, NoPatch
    <3>3. QED
      BY <3>1, <3>2 DEF SaysReady
  <2>3. CASE VhostComponents
    BY <1>1, <2>3, ComponentsSayReady
  <2>4. CASE VSave
    BY <2>4, VSaveDoes DEF SaysReady
  <2>5. CASE VSync \/ Crash
    <3>1. vtop' = vtop /\ vview'.obj = vtop /\ (vpass' = vpass \/ vpass' = V!Idle)
      BY <2>5 DEF VSync, V!Sync, Crash, V!Restart
    <3>2. QED
      BY <3>1 DEF SaysReady, V!Idle
  <2>6. CASE DeleteVhost \/ EditVhost
    <3>1. PICK o : V!Write(o) /\ (o = Absent \/ o.status = vtop.status)
      <4>1. /\ [vtop EXCEPT !.life = "deleting"].status = vtop.status
            /\ \A n : [vtop EXCEPT !.spec = n].status = vtop.status
        BY <1>1, <1>2 DEF Objects, Absent
      <4>2. \E o : V!Write(o) /\ (o = Absent \/ o.status = vtop.status)
        BY <2>6, <4>1 DEF DeleteVhost, EditVhost
      <4>3. QED
        BY <4>2
    <3>2. vtop'.status = vtop.status
      BY <3>1 DEF V!Write
    <3>3. /\ vview'.obj = vview.obj
          /\ \/ vpass = V!Idle /\ vpass' = V!Idle
             \/ vpass # V!Idle /\ vpass'.obj = vpass.obj /\ vpass'.patch = vpass.patch
      BY <1>2, <3>1, VWriteCopies
    <3>4. QED
      BY <3>2, <3>3 DEF SaysReady
  <2>7. QED
    BY <2>1, <2>2, <2>3, <2>4, <2>5, <2>6, VhostLeftAlone DEF vars
<1>5. QED
  BY <1>3, <1>4

\* A vhost object that is Ready has its vhost, and its user unless there is to be none,
\* with finalizers and without.
THEOREM ReadyToConnectCorrect == Spec => []ReadyToConnect
<1> DEFINE Inv == UserInv /\ OutlivesInv /\ VhostInv /\ ReadyInv
<1>1. Init => Inv
  <2> SUFFICES ASSUME Init PROVE Inv
    OBVIOUS
  <2>1. /\ vtop = NewObject /\ vview = [obj |-> NewObject, current |-> TRUE] /\ vpass = V!Idle
        /\ utop = Absent /\ uview = [obj |-> Absent, current |-> TRUE] /\ upass = U!Idle
    BY DEF Init, V!Start, U!Start
  <2>2. /\ NewObject # Absent /\ NewObject.life = "live" /\ NewObject.fin = FALSE
        /\ NewObject.status.phase = ""
    BY DEF NewObject, Absent
  <2>3. V!Idle.at = "idle" /\ U!Idle.at = "idle"
    BY DEF V!Idle, U!Idle
  <2>4. UserInv /\ OutlivesInv
    BY <2>1, <2>3 DEF UserInv, UKnown, UPlaced, OutlivesInv, UserOutlives
  <2>5. VhostInv /\ ReadyInv
    BY <2>1, <2>2, <2>3 DEF VhostInv, VKnown, VPlaced, ReadyInv, SaysReady
  <2>6. QED
    BY <2>4, <2>5
<1>2. TypeInv /\ Inv /\ [Next]_vars => Inv'
  BY UserKnown, UserStays, VhostKnown, ReadyStays
<1>3. Inv => ReadyToConnect
  BY DEF ReadyInv, SaysReady, ReadyToConnect
<1>4. QED
  BY <1>1, <1>2, <1>3, TypeAlways, PTL DEF Spec
=============================================================================

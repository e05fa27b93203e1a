------------------------- MODULE RDSInstanceProofs -------------------------
(***************************************************************************)
(* What holds of RDSInstance for all bounds, with and without finalizers   *)
(* enabled and under every combination of failures.                        *)
(***************************************************************************)
EXTENDS RDSInstance, TLAPS

-----------------------------------------------------------------------------
(* Modifiers.                                                               *)

\* The modifiers the components return are well typed.
LEMMA PatchTypes ==
    /\ NoPatch \in Patches
    /\ [NoPatch EXCEPT !.sgID = TRUE] \in Patches
    /\ \A s \in Statuses \ {"", "Error"} : [NoPatch EXCEPT !.status = s] \in Patches
BY DEF NoPatch, Patches

\* Modifiers keep an object's type, its finalizers and its deletion.
LEMMA ApplyType ==
    ASSUME NEW p \in Patches, NEW o \in Objects
    PROVE  /\ Apply(p, o) \in Objects
           /\ Apply(p, o).fins = o.fins /\ Apply(p, o).life = o.life
<1>1. (IF p.status = "keep" THEN o.status ELSE p.status) \in Statuses
  BY DEF Patches, Objects
<1>2. (o.sgID \/ p.sgID) \in BOOLEAN
  BY DEF Patches, Objects
<1>3. QED
  BY <1>1, <1>2 DEF Apply, Objects

\* Modifiers run one after the other are modifiers.
LEMMA ThenType ==
    ASSUME NEW p \in Patches, NEW q \in Patches
    PROVE  Then(p, q) \in Patches
<1>1. (p.sgID \/ q.sgID) \in BOOLEAN
  BY DEF Patches
<1>2. (IF q.status = "keep" THEN p.status ELSE q.status)
        \in (Statuses \ {"", "Error"}) \cup {"keep"}
  BY DEF Patches
<1>3. QED
  BY <1>1, <1>2 DEF Then, Patches

-----------------------------------------------------------------------------
(* Type correctness.                                                        *)

\* What a component may change of the pass and of the object.
PassTypeOK ==
    /\ top \in Objects /\ mem \in Objects
    /\ memOK \in BOOLEAN /\ cacheOK \in BOOLEAN
    /\ noise \in BOOLEAN /\ requeue \in BOOLEAN /\ after \in BOOLEAN
    /\ pc \in Owned \cup {"idle", "secret", "save", "replay"}
    /\ part \in {"finalizer", "make", "destroy", "release"}
    /\ patch \in Patches

\* The rest of TypeOK: what a component in the middle of a pass leaves alone.
WorldTypeOK ==
    /\ cache \in Objects /\ clean \in Objects
    /\ secret \in Passwords /\ secretCache \in Passwords /\ generated \in Passwords
    /\ group \in [Groups -> GroupStates] /\ db \in Databases
    /\ queued \in BOOLEAN /\ timer \in BOOLEAN
    /\ tries \in 0 .. MaxTries
    /\ backups \in 0 .. MaxBackups /\ touches \in 0 .. MaxTouches

\* A secret is only lost while another password may be generated.
TypeInv == PassTypeOK /\ WorldTypeOK /\ (secret = 0 => generated < MaxSecrets)

\* The two halves say what TypeOK says.
LEMMA TypeParts == TypeInv => TypeOK
BY DEF TypeInv, PassTypeOK, WorldTypeOK, TypeOK

\* The numbers among the constants.
LEMMA BoundsType ==
    /\ MaxTries \in Nat \ {0} /\ MaxSecrets \in Nat \ {0}
    /\ MaxBackups \in Nat /\ MaxTouches \in Nat
BY RDSConstantsOK

\* The initial states are well typed.
LEMMA InitType == Init => TypeInv
<1> SUFFICES ASSUME Init PROVE TypeInv
  OBVIOUS
<1>1. NewInstance \in Objects /\ NoPatch \in Patches
  BY PatchTypes DEF NewInstance, Objects, Statuses
<1>2. /\ 0 \in Passwords /\ 0 \in 0 .. MaxTries /\ 0 \in 0 .. MaxBackups
      /\ 0 \in 0 .. MaxTouches /\ 0 < MaxSecrets
  BY BoundsType DEF Passwords
<1>3. PassTypeOK
  BY <1>1 DEF Init, PassTypeOK
<1>4. db \in Databases
  BY <1>2 DEF Init, NoDatabase, Databases, DatabaseStates
<1>5. WorldTypeOK
  BY <1>1, <1>2, <1>4 DEF Init, WorldTypeOK, GroupStates
<1>6. QED
  BY <1>2, <1>3, <1>5 DEF TypeInv, Init

\* A component that returns a result keeps the types.
LEMMA ReturnType ==
    ASSUME PassTypeOK, pc \in Owned \cup {"secret"}, NEW p \in Patches,
           NEW rq \in BOOLEAN, NEW aft \in BOOLEAN, Return(p, rq, aft)
    PROVE  PassTypeOK'
<1>1. mem' \in Objects /\ patch' \in Patches
  BY ApplyType, ThenType DEF Return, PassTypeOK
<1>2. ComponentAfter[pc] \in Owned \cup {"secret", "save"}
  BY DEF ComponentAfter, Owned
<1>3. QED
  BY <1>1, <1>2 DEF Return, PassTypeOK

\* So does one that returns an error,
LEMMA ReturnErrorType ==
    ASSUME PassTypeOK, NEW rq \in BOOLEAN, NEW id \in BOOLEAN, ReturnError(rq, id)
    PROVE  PassTypeOK'
<1>1. mem' \in Objects
  BY DEF ReturnError, PassTypeOK, Objects, Statuses
<1>2. QED
  BY <1>1 DEF ReturnError, PassTypeOK

\* one that goes on to its next step,
LEMMA GoOnType ==
    ASSUME PassTypeOK, NEW p \in {"finalizer", "make", "destroy", "release"}, GoOn(p)
    PROVE  PassTypeOK'
BY DEF GoOn, PassTypeOK, resultVars

\* and one that writes the finalizers.
LEMMA WriteFinalizersType ==
    ASSUME PassTypeOK, NEW fs \in SUBSET Owned, WriteFinalizers(fs),
           pc' \in Owned \cup {"idle", "secret", "save", "replay"},
           part' \in {"finalizer", "make", "destroy", "release"}
    PROVE  PassTypeOK'
<1>1. top' \in Objects /\ mem' \in Objects
  BY DEF WriteFinalizers, PassTypeOK, Objects
<1>2. QED
  BY <1>1 DEF WriteFinalizers, PassTypeOK, resultVars

\* The finalizer half of the components keeps the types.
LEMMA FinalizersType == TypeInv /\ Finalizers => TypeInv'
<1> SUFFICES ASSUME TypeInv, Finalizers PROVE TypeInv'
  OBVIOUS
<1>1. WorldTypeOK' /\ (secret = 0 => generated < MaxSecrets)'
  BY DEF TypeInv, WorldTypeOK, Finalizers, secretVars, awsVars, queueVars, boundVars
<1>2. PICK c \in Owned : AddFinalizer(c) \/ TakeDown(c) \/ RemoveFinalizer(c)
  BY DEF Finalizers
<1>3. PassTypeOK /\ mem.fins \cup {c} \in SUBSET Owned /\ mem.fins \ {c} \in SUBSET Owned
  BY DEF TypeInv, PassTypeOK, Objects
<1>4. WriteRefused => PassTypeOK'
  BY <1>3, ReturnErrorType DEF WriteRefused
<1>5. CASE AddFinalizer(c)
  <2>1. ASSUME GoOn("make") PROVE PassTypeOK'
    BY <1>3, <2>1, GoOnType
  <2>2. ASSUME WriteFinalizers(mem.fins \cup {c}), part' = "make", UNCHANGED pc
        PROVE  PassTypeOK'
    <3>1. pc' \in Owned \cup {"idle", "secret", "save", "replay"}
      BY <1>3, <2>2 DEF PassTypeOK
    <3>2. QED
      BY <1>3, <2>2, <3>1, WriteFinalizersType
  <2>3. QED
    BY <1>1, <1>4, <1>5, <2>1, <2>2 DEF AddFinalizer, TypeInv
<1>6. CASE TakeDown(c)
  <2>1. ASSUME NEW aft \in BOOLEAN, Return(NoPatch, FALSE, aft) PROVE PassTypeOK'
    BY <1>3, <1>6, <2>1, ReturnType, PatchTypes DEF TakeDown
  <2>2. ASSUME GoOn(IF EnableFinalizers THEN "destroy" ELSE "release")
        PROVE  PassTypeOK'
    BY <1>3, <2>2, GoOnType
  <2>3. QED
    BY <1>1, <1>6, <2>1, <2>2 DEF TakeDown, TypeInv
<1>7. CASE RemoveFinalizer(c)
  <2>1. ComponentAfter[c] \in Owned \cup {"secret", "save"}
    BY DEF ComponentAfter, Owned
  <2>2. ASSUME WriteFinalizers(mem.fins \ {c}), pc' = ComponentAfter[c],
               part' = "finalizer"
        PROVE  PassTypeOK'
    BY <1>3, <2>1, <2>2, WriteFinalizersType
  <2>3. QED
    BY <1>1, <1>4, <1>7, <2>2 DEF RemoveFinalizer, TypeInv
<1>8. QED
  BY <1>2, <1>5, <1>6, <1>7

\* The half that works in AWS keeps the types.
LEMMA ExternalType == TypeInv /\ External => TypeInv'
<1> SUFFICES ASSUME TypeInv, External PROVE TypeInv'
  OBVIOUS
<1>1. PassTypeOK /\ WorldTypeOK /\ (secret = 0 => generated < MaxSecrets)
  BY DEF TypeInv
<1>2. ASSUME NEW rq \in BOOLEAN, NEW id \in BOOLEAN, ReturnError(rq, id)
      PROVE  PassTypeOK'
  BY <1>1, <1>2, ReturnErrorType
<1>3. ASSUME NEW p \in {"make", "destroy", "release"}, GoOn(p) PROVE PassTypeOK'
  BY <1>1, <1>3, GoOnType
<1>4. ASSUME NEW p \in Patches, NEW rq \in BOOLEAN, NEW aft \in BOOLEAN,
             pc \in Owned, Return(p, rq, aft)
      PROVE  PassTypeOK'
  BY <1>1, <1>4, ReturnType
<1>5. SUFFICES PassTypeOK' /\ group' \in [Groups -> GroupStates] /\ db' \in Databases
  BY <1>1 DEF TypeInv, WorldTypeOK, External, secretVars, queueVars, boundVars
<1>6. group \in [Groups -> GroupStates] /\ db \in Databases
  BY <1>1 DEF WorldTypeOK
<1>7. \A g \in Groups, s \in GroupStates : [group EXCEPT ![g] = s] \in [Groups -> GroupStates]
  BY <1>6
<1>8. {"parametergroup", "securitygroup"} \subseteq Groups /\ Groups \subseteq Owned
      /\ "database" \in Owned /\ {"absent", "drifted", "ok"} \subseteq GroupStates
  BY DEF Groups, Owned, GroupStates
<1>9. \A s \in DatabaseStates : [db EXCEPT !.state = s] \in Databases
  BY <1>6 DEF Databases
<1>10. CASE MakeParameterGroup
  <2>1. pc = "parametergroup" /\ pc \in Groups /\ pc \in Owned /\ db' = db
    BY <1>8, <1>10 DEF MakeParameterGroup
  <2>2. group' \in [Groups -> GroupStates]
    BY <1>6, <1>7, <1>8, <1>10, <2>1 DEF MakeParameterGroup
  <2>3. \/ \E aft \in BOOLEAN : Return(NoPatch, FALSE, aft)
        \/ ReturnError(FALSE, TRUE)
    BY <1>10 DEF MakeParameterGroup
  <2>4. PassTypeOK'
    BY <1>2, <1>4, <2>1, <2>3, PatchTypes
  <2>5. QED
    BY <1>6, <2>1, <2>2, <2>4
<1>11. CASE MakeSecurityGroup
  <2>1. pc = "securitygroup" /\ pc \in Groups /\ pc \in Owned /\ db' = db
    BY <1>8, <1>11 DEF MakeSecurityGroup
  <2>2. group' \in [Groups -> GroupStates]
    BY <1>6, <1>7, <1>8, <1>11, <2>1 DEF MakeSecurityGroup
  <2>3. \/ Return(NoPatch, TRUE, FALSE)
        \/ Return([NoPatch EXCEPT !.sgID = TRUE], FALSE, FALSE)
        \/ ReturnError(FALSE, TRUE)
    BY <1>11 DEF MakeSecurityGroup
  <2>4. PassTypeOK'
    BY <1>2, <1>4, <2>1, <2>3, PatchTypes
  <2>5. QED
    BY <1>6, <2>1, <2>2, <2>4
<1>12. CASE DestroyParameterGroup
  <2>1. pc = "parametergroup" /\ db' = db
    BY <1>12 DEF DestroyParameterGroup
  <2>2. group' \in [Groups -> GroupStates]
    BY <1>6, <1>7, <1>8, <1>12, <2>1 DEF DestroyParameterGroup
  <2>3. GoOn("release") \/ ReturnError(FALSE, TRUE)
    BY <1>12 DEF DestroyParameterGroup
  <2>4. QED
    BY <1>2, <1>3, <1>6, <2>1, <2>2, <2>3
<1>13. CASE DestroySecurityGroup
  <2>1. pc = "securitygroup" /\ db' = db
    BY <1>13 DEF DestroySecurityGroup
  <2>2. group' \in [Groups -> GroupStates]
    BY <1>6, <1>7, <1>8, <1>13, <2>1 DEF DestroySecurityGroup
  <2>3. GoOn("release") \/ ReturnError(FALSE, TRUE)
    BY <1>13 DEF DestroySecurityGroup
  <2>4. QED
    BY <1>2, <1>3, <1>6, <2>1, <2>2, <2>3
<1>14. CASE DestroyDatabase
  <2>1. pc = "database" /\ pc \in Owned /\ group' = group
    BY <1>8, <1>14 DEF DestroyDatabase
  <2>2. db' \in Databases
    BY <1>6, <1>9, <1>14 DEF DestroyDatabase, DatabaseStates
  <2>3. Return(NoPatch, FALSE, TRUE) \/ GoOn("release") \/ ReturnError(FALSE, TRUE)
    BY <1>14 DEF DestroyDatabase
  <2>4. QED
    BY <1>2, <1>3, <1>4, <1>6, <2>1, <2>2, <2>3, PatchTypes
<1>15. CASE MakeDatabase
  <2>1. pc = "database" /\ pc \in Owned /\ group' = group
    BY <1>8, <1>15 DEF MakeDatabase
  <2>2. secretCache \in Passwords
    BY <1>1 DEF WorldTypeOK
  <2>3. CASE CreateDatabase
    <3>1. db' \in Databases
      <4>1. [state |-> "creating", password |-> secretCache, retention |-> TRUE]
              \in Databases
        BY <2>2 DEF Databases, DatabaseStates
      <4>2. QED
        BY <1>6, <2>3, <4>1 DEF CreateDatabase
    <3>2. \/ Return([NoPatch EXCEPT !.status = "Creating"], FALSE, TRUE)
          \/ ReturnError(FALSE, TRUE)
      BY <2>3 DEF CreateDatabase
    <3>3. PassTypeOK'
      BY <1>2, <1>4, <2>1, <3>2, PatchTypes DEF Statuses
    <3>4. QED
      BY <1>6, <2>1, <3>1, <3>3
  <2>4. CASE UpdateDatabase
    <3>1. (IF WrongPassword THEN secretCache ELSE db.password) \in Passwords
      BY <1>6, <2>2 DEF Databases
    <3>2. db' \in Databases
      <4>1. [state |-> "busy", retention |-> TRUE,
             password |-> IF WrongPassword THEN secretCache ELSE db.password]
              \in Databases
        BY <3>1 DEF Databases, DatabaseStates
      <4>2. QED
        BY <1>6, <2>4, <4>1 DEF UpdateDatabase
    <3>3. \/ Return(NoPatch, FALSE, TRUE)
          \/ \E s \in {"Ready", "Modifying", "Creating", "Unknown"}, aft \in BOOLEAN :
               Return([NoPatch EXCEPT !.status = s], FALSE, aft)
          \/ ReturnError(FALSE, FALSE)
      BY <2>4 DEF UpdateDatabase
    <3>4. PassTypeOK'
      BY <1>2, <1>4, <2>1, <3>3, PatchTypes DEF Statuses
    <3>5. QED
      BY <1>6, <2>1, <3>2, <3>4
  <2>5. CASE db' = db /\ \E id \in BOOLEAN : ReturnError(FALSE, id)
    BY <1>2, <1>6, <2>1, <2>5
  <2>6. QED
    BY <1>15, <2>3, <2>4, <2>5 DEF MakeDatabase
<1>16. QED
  BY <1>10, <1>11, <1>12, <1>13, <1>14, <1>15 DEF External

\* A password is generated within the bound.
LEMMA SecretType == TypeInv /\ Secret => TypeInv'
<1> SUFFICES ASSUME TypeInv, Secret PROVE TypeInv'
  OBVIOUS
<1>1. PassTypeOK /\ WorldTypeOK /\ (secret = 0 => generated < MaxSecrets)
  BY DEF TypeInv
<1>2. PassTypeOK'
  <2>1. pc \in Owned \cup {"secret"}
    BY DEF Secret
  <2>2. Return(NoPatch, FALSE, FALSE) \/ ReturnError(TRUE, FALSE)
    BY DEF Secret
  <2>3. QED
    BY <1>1, <2>1, <2>2, ReturnType, ReturnErrorType, PatchTypes
<1>3. /\ secret' \in Passwords /\ generated' \in Passwords
      /\ (secret' = 0 => generated' < MaxSecrets)
  <2>1. CASE UNCHANGED secretVars
    BY <1>1, <2>1 DEF WorldTypeOK, secretVars
  <2>2. CASE secret = 0 /\ secret' = generated + 1 /\ generated' = generated + 1
    <3>1. generated \in 0 .. MaxSecrets /\ generated < MaxSecrets
      BY <1>1, <2>2 DEF WorldTypeOK, Passwords
    <3>2. generated + 1 \in 0 .. MaxSecrets /\ generated + 1 # 0
      BY <3>1, BoundsType
    <3>3. QED
      BY <2>2, <3>2 DEF Passwords
  <2>3. QED
    BY <2>1, <2>2 DEF Secret
<1>4. QED
  BY <1>1, <1>2, <1>3
     DEF TypeInv, WorldTypeOK, Secret, awsVars, queueVars, boundVars

\* The end of a pass leaves a well-typed idle worker.
LEMMA ClearPassType ==
    ASSUME PassTypeOK, ClearPass, top' \in Objects, cacheOK' \in BOOLEAN
    PROVE  PassTypeOK' /\ clean' \in Objects /\ tries' \in 0 .. MaxTries
<1>1. NewInstance \in Objects
  BY DEF NewInstance, Objects, Statuses
<1>2. 0 \in 0 .. MaxTries
  BY BoundsType
<1>3. QED
  BY <1>1, <1>2, PatchTypes DEF ClearPass, PassTypeOK

\* Starting and ending a pass, a restart included, keeps the types.
LEMMA WorkerType == TypeInv /\ (Begin \/ Save \/ Crash) => TypeInv'
<1> SUFFICES ASSUME TypeInv, Begin \/ Save \/ Crash PROVE TypeInv'
  OBVIOUS
<1>1. PassTypeOK /\ WorldTypeOK /\ (secret = 0 => generated < MaxSecrets)
  BY DEF TypeInv
<1>2. CASE Begin
  <2>1. PassTypeOK'
    BY <1>1, <1>2 DEF Begin, PassTypeOK, WorldTypeOK, Owned, cacheVars, resultVars
  <2>2. WorldTypeOK' /\ (secret = 0 => generated < MaxSecrets)'
    BY <1>1, <1>2
       DEF Begin, WorldTypeOK, secretVars, awsVars, cacheVars, boundVars
  <2>3. QED
    BY <2>1, <2>2 DEF TypeInv
<1>3. ASSUME Finish, top' \in Objects, cacheOK' \in BOOLEAN PROVE TypeInv'
  <2>1. PassTypeOK' /\ clean' \in Objects /\ tries' \in 0 .. MaxTries
    BY <1>1, <1>3, ClearPassType DEF Finish
  <2>2. queued' \in BOOLEAN /\ timer' \in BOOLEAN
    BY <1>1, <1>3 DEF Finish, PassTypeOK, WorldTypeOK
  <2>3. QED
    BY <1>1, <1>3, <2>1, <2>2
       DEF Finish, TypeInv, WorldTypeOK, secretVars, awsVars, boundVars
<1>4. CASE SaveNothing
  BY <1>1, <1>3, <1>4 DEF SaveNothing, PassTypeOK
<1>5. CASE SaveFast
  <2>1. top' \in Objects
    BY <1>1, <1>5 DEF SaveFast, PassTypeOK, Objects
  <2>2. QED
    BY <1>3, <1>5, <2>1 DEF SaveFast
<1>6. CASE Replay
  <2>1. top' \in Objects /\ cacheOK' \in BOOLEAN
    BY <1>1, <1>6, ApplyType DEF Replay, PassTypeOK, WorldTypeOK
  <2>2. QED
    BY <1>3, <1>6, <2>1 DEF Replay
<1>7. CASE SaveConflict
  <2>1. PassTypeOK'
    BY <1>1, <1>7 DEF SaveConflict, PassTypeOK, cacheVars, resultVars
  <2>2. WorldTypeOK' /\ (secret = 0 => generated < MaxSecrets)'
    BY <1>1, <1>7 DEF SaveConflict, WorldTypeOK, secretVars, awsVars, cacheVars,
                      queueVars, boundVars
  <2>3. QED
    BY <2>1, <2>2 DEF TypeInv
<1>8. CASE ReplayConflict
  <2>1. PassTypeOK'
    BY <1>1, <1>8 DEF ReplayConflict, PassTypeOK, cacheVars, resultVars
  <2>2. tries' \in 0 .. MaxTries
    BY <1>1, <1>8, BoundsType DEF ReplayConflict, WorldTypeOK
  <2>3. WorldTypeOK' /\ (secret = 0 => generated < MaxSecrets)'
    BY <1>1, <1>8, <2>2 DEF ReplayConflict, WorldTypeOK, secretVars, awsVars,
                            cacheVars, queueVars, boundVars
  <2>4. QED
    BY <2>1, <2>3 DEF TypeInv
<1>9. CASE ReplayGiveUp
  <2>1. PassTypeOK' /\ clean' \in Objects /\ tries' \in 0 .. MaxTries
    BY <1>1, <1>9, ClearPassType DEF ReplayGiveUp, PassTypeOK, cacheVars
  <2>2. QED
    BY <1>1, <1>9, <2>1 DEF ReplayGiveUp, TypeInv, WorldTypeOK, secretVars,
                            awsVars, cacheVars, boundVars
<1>10. CASE Crash
  <2>1. PassTypeOK' /\ clean' \in Objects /\ tries' \in 0 .. MaxTries
    BY <1>1, <1>10, ClearPassType DEF Crash, PassTypeOK
  <2>2. QED
    BY <1>1, <1>10, <2>1 DEF Crash, TypeInv, PassTypeOK, WorldTypeOK, secretVars,
                             awsVars, boundVars
<1>11. QED
  BY <1>2, <1>4, <1>5, <1>6, <1>7, <1>8, <1>9, <1>10 DEF Save

\* What happens outside the operator.
Outside ==
    SyncTop \/ SyncSecret \/ TimerFires \/ OtherEvent \/ DeleteInstance \/ Touch
      \/ DeleteSecret \/ Drift \/ DatabaseMoves \/ DatabaseBreaks \/ AutomatedBackup

\* The world outside keeps the types.
LEMMA OutsideType == TypeInv /\ Outside => TypeInv'
<1> SUFFICES ASSUME TypeInv, Outside PROVE TypeInv'
  OBVIOUS
<1>1. PassTypeOK /\ WorldTypeOK /\ (secret = 0 => generated < MaxSecrets)
  BY DEF TypeInv
<1>2. CASE SyncTop \/ SyncSecret \/ TimerFires \/ OtherEvent
  <2>1. PassTypeOK'
    BY <1>1, <1>2 DEF SyncTop, SyncSecret, TimerFires, OtherEvent, PassTypeOK,
                      cacheVars, passVars
  <2>2. WorldTypeOK' /\ (secret = 0 => generated < MaxSecrets)'
    BY <1>1, <1>2 DEF SyncTop, SyncSecret, TimerFires, OtherEvent, PassTypeOK,
                      WorldTypeOK, secretVars, awsVars, cacheVars, passVars, boundVars
  <2>3. QED
    BY <2>1, <2>2 DEF TypeInv
<1>3. CASE DeleteInstance \/ Touch
  <2>1. top' \in Objects /\ memOK' = FALSE /\ cacheOK' = FALSE
    BY <1>1, <1>3 DEF DeleteInstance, Touch, PassTypeOK, Objects
  <2>2. PassTypeOK'
    BY <1>1, <1>3, <2>1 DEF DeleteInstance, Touch, PassTypeOK, operatorVars
  <2>3. touches' \in 0 .. MaxTouches /\ backups' \in 0 .. MaxBackups
    BY <1>1, <1>3, BoundsType DEF DeleteInstance, Touch, WorldTypeOK, boundVars
  <2>4. WorldTypeOK' /\ (secret = 0 => generated < MaxSecrets)'
    BY <1>1, <1>3, <2>3 DEF DeleteInstance, Touch, WorldTypeOK, secretVars, awsVars,
                            operatorVars
  <2>5. QED
    BY <2>2, <2>4 DEF TypeInv
<1>4. CASE DeleteSecret
  <2>1. PassTypeOK'
    BY <1>1, <1>4 DEF DeleteSecret, PassTypeOK, operatorVars
  <2>2. secret' \in Passwords
    BY <1>1, <1>4, BoundsType DEF DeleteSecret, Passwords
  <2>3. WorldTypeOK' /\ (secret = 0 => generated < MaxSecrets)'
    BY <1>1, <1>4, <2>2 DEF DeleteSecret, WorldTypeOK, awsVars, operatorVars, boundVars
  <2>4. QED
    BY <2>1, <2>3 DEF TypeInv
<1>5. CASE Drift \/ DatabaseMoves \/ DatabaseBreaks \/ AutomatedBackup
  <2>1. PassTypeOK'
    BY <1>1, <1>5 DEF Drift, DatabaseMoves, DatabaseBreaks, AutomatedBackup,
                      PassTypeOK, operatorVars
  <2>2. group' \in [Groups -> GroupStates]
    BY <1>1, <1>5 DEF Drift, DatabaseMoves, DatabaseBreaks, AutomatedBackup,
                      WorldTypeOK, GroupStates
  <2>3. db' \in Databases
    <3>1. db \in Databases /\ NoDatabase \in Databases
      BY <1>1, BoundsType DEF WorldTypeOK, NoDatabase, Databases, DatabaseStates, Passwords
    <3>2. /\ \A s \in DatabaseStates : [db EXCEPT !.state = s] \in Databases
          /\ [db EXCEPT !.retention = FALSE] \in Databases
      BY <3>1 DEF Databases
    <3>3. QED
      BY <1>5, <3>1, <3>2 DEF Drift, DatabaseMoves, DatabaseBreaks, AutomatedBackup,
                              DatabaseStates
  <2>4. touches' \in 0 .. MaxTouches /\ backups' \in 0 .. MaxBackups
    BY <1>1, <1>5, BoundsType DEF Drift, DatabaseMoves, DatabaseBreaks,
                                  AutomatedBackup, WorldTypeOK, boundVars
  <2>5. WorldTypeOK' /\ (secret = 0 => generated < MaxSecrets)'
    BY <1>1, <1>5, <2>2, <2>3, <2>4
       DEF Drift, DatabaseMoves, DatabaseBreaks, AutomatedBackup, WorldTypeOK,
           secretVars, operatorVars
  <2>6. QED
    BY <2>1, <2>5 DEF TypeInv
<1>6. QED
  BY <1>2, <1>3, <1>4, <1>5 DEF Outside

\* Every step keeps the types.
LEMMA NextType == TypeInv /\ [Next]_vars => TypeInv'
<1> SUFFICES ASSUME TypeInv, [Next]_vars PROVE TypeInv'
  OBVIOUS
<1>1. CASE Next
  BY <1>1, FinalizersType, ExternalType, SecretType, WorkerType, OutsideType
     DEF Next, Components, Outside
<1>2. CASE UNCHANGED vars
  BY <1>2 DEF vars, TypeInv, PassTypeOK, WorldTypeOK
<1>3. QED
  BY <1>1, <1>2

\* The strengthened type invariant holds of every behaviour.
LEMMA TypeInvariant == Spec => []TypeInv
<1>1. QED
  BY InitType, NextType, PTL DEF Spec

\* Every variable keeps its type for all bounds and failures: in particular only
\* as many passwords are generated as secrets are lost, and modifyStatus gives up.
THEOREM RDSTypeCorrect == Spec => []TypeOK
BY TypeInvariant, TypeParts, PTL

-----------------------------------------------------------------------------
(* Finalizers.                                                              *)

\* Why the finalizers a pass believes in are there.  Copies with the right
\* resourceVersion are copies.  While an object is not deleted its finalizers are
\* only added to, so that an older copy has some of them and no others; when it is
\* deleted the passes that see it so, which take finalizers off, begin after every
\* pass that made something has ended, and the cache does not go back.
FinalizerInv ==
    /\ cacheOK => cache.fins = top.fins /\ cache.life = top.life
    /\ memOK => mem.fins = top.fins /\ mem.life = top.life
    /\ cache.life # "live" => top.life # "live"
    /\ cache.life = "live" => cache.fins \subseteq top.fins
    /\ pc # "idle" /\ mem.life # "live" => cache.life # "live"
    /\ pc # "idle" /\ mem.life = "live" => mem.fins \subseteq top.fins
    /\ part = "make" => pc # "idle" /\ mem.life = "live" /\ pc \in mem.fins
    /\ part \in {"destroy", "release"} => pc # "idle" /\ mem.life = "deleting"

\* Nothing is claimed of the initial states but that the cache is a copy.
LEMMA InitFinalizer == Init => FinalizerInv
BY DEF Init, FinalizerInv

\* A component that returns, fails or goes on leaves the finalizers alone.
LEMMA ResultFinalizer ==
    ASSUME TypeInv, FinalizerInv, pc # "idle", UNCHANGED cache,
           \/ \E p \in Patches, rq, aft \in BOOLEAN :
                pc \in Owned \cup {"secret"} /\ Return(p, rq, aft)
           \/ \E rq, id \in BOOLEAN : ReturnError(rq, id)
           \/ \E p \in {"destroy", "release"} : mem.life = "deleting" /\ GoOn(p)
           \/ pc \in mem.fins /\ mem.life = "live" /\ GoOn("make")
    PROVE  FinalizerInv'
<1>1. mem \in Objects
  BY DEF TypeInv, PassTypeOK
<1>2. CASE \E p \in Patches, rq, aft \in BOOLEAN :
             pc \in Owned \cup {"secret"} /\ Return(p, rq, aft)
  <2>1. PICK p \in Patches, rq \in BOOLEAN, aft \in BOOLEAN :
          pc \in Owned \cup {"secret"} /\ Return(p, rq, aft)
    BY <1>2
  <2>2. mem'.fins = mem.fins /\ mem'.life = mem.life
    BY <1>1, <2>1, ApplyType DEF Return
  <2>3. QED
    BY <2>1, <2>2 DEF Return, FinalizerInv
<1>3. CASE \E rq, id \in BOOLEAN : ReturnError(rq, id)
  <2>1. mem'.fins = mem.fins /\ mem'.life = mem.life
    BY <1>1, <1>3 DEF ReturnError, Objects
  <2>2. QED
    BY <1>3, <2>1 DEF ReturnError, FinalizerInv
<1>4. CASE \E p \in {"destroy", "release"} : mem.life = "deleting" /\ GoOn(p)
  BY <1>4 DEF GoOn, FinalizerInv
<1>5. CASE pc \in mem.fins /\ mem.life = "live" /\ GoOn("make")
  BY <1>5 DEF GoOn, FinalizerInv
<1>6. QED
  BY <1>2, <1>3, <1>4, <1>5

\* The components keep the invariant: the finalizers are written by a pass whose
\* copy is the stored object.
LEMMA ComponentsFinalizer == TypeInv /\ FinalizerInv /\ Components => FinalizerInv'
<1> SUFFICES ASSUME TypeInv, FinalizerInv, Components PROVE FinalizerInv'
  OBVIOUS
<1>1. UNCHANGED cache
  BY DEF Components, Finalizers, External, Secret
<1>2. NoPatch \in Patches
  BY PatchTypes
<1>3. top \in Objects /\ mem \in Objects
  BY DEF TypeInv, PassTypeOK
<1>4. ASSUME WriteRefused, pc # "idle" PROVE FinalizerInv'
  BY <1>1, <1>4, ResultFinalizer DEF WriteRefused
<1>5. CASE Finalizers
  <2>1. PICK c \in Owned : AddFinalizer(c) \/ TakeDown(c) \/ RemoveFinalizer(c)
    BY <1>5 DEF Finalizers
  <2>2. pc = c /\ pc # "idle"
    BY <2>1 DEF AddFinalizer, TakeDown, RemoveFinalizer, Owned
  <2>3. CASE AddFinalizer(c)
    <3>1. CASE c \in mem.fins /\ GoOn("make")
      BY <1>1, <2>2, <2>3, <3>1, ResultFinalizer DEF AddFinalizer
    <3>2. CASE /\ WriteFinalizers(mem.fins \cup {c})
               /\ part' = "make" /\ UNCHANGED pc
      <4>1. mem.fins = top.fins /\ mem.life = "live" /\ top.life = "live"
        BY <2>3, <3>2 DEF AddFinalizer, WriteFinalizers, FinalizerInv
      <4>2. top' = [top EXCEPT !.fins = mem.fins \cup {c}]
        BY <3>2, <4>1 DEF WriteFinalizers
      <4>3. /\ top'.fins = mem.fins \cup {c} /\ top'.life = "live"
            /\ mem'.fins = mem.fins \cup {c} /\ mem'.life = "live"
        BY <1>3, <3>2, <4>1, <4>2 DEF WriteFinalizers, Objects
      <4>4. QED
        BY <1>1, <2>2, <3>2, <4>1, <4>3 DEF WriteFinalizers, FinalizerInv
    <3>3. QED
      BY <1>4, <2>2, <2>3, <3>1, <3>2 DEF AddFinalizer
  <2>4. CASE TakeDown(c)
    <3>1. CASE \E aft \in BOOLEAN : Return(NoPatch, FALSE, aft)
      BY <1>1, <1>2, <2>2, <3>1, ResultFinalizer
    <3>2. CASE GoOn(IF EnableFinalizers THEN "destroy" ELSE "release")
      BY <1>1, <2>2, <2>4, <3>2, ResultFinalizer DEF TakeDown
    <3>3. QED
      BY <2>4, <3>1, <3>2 DEF TakeDown
  <2>5. CASE RemoveFinalizer(c)
    <3>1. CASE /\ WriteFinalizers(mem.fins \ {c})
               /\ pc' = ComponentAfter[c] /\ part' = "finalizer"
      <4>1. mem.life = "deleting" /\ top.life = "deleting" /\ cache.life # "live"
        BY <2>2, <2>5, <3>1 DEF RemoveFinalizer, WriteFinalizers, FinalizerInv
      <4>2. top'.life # "live" /\ mem'.life = "deleting"
        BY <1>3, <3>1, <4>1 DEF WriteFinalizers, Objects
      <4>3. QED
        BY <1>1, <3>1, <4>1, <4>2 DEF WriteFinalizers, FinalizerInv
    <3>2. QED
      BY <1>4, <2>2, <2>5, <3>1 DEF RemoveFinalizer
  <2>6. QED
    BY <2>1, <2>3, <2>4, <2>5
<1>6. CASE Secret
  <2>1. pc = "secret"
    BY <1>6 DEF Secret
  <2>2. Return(NoPatch, FALSE, FALSE) \/ ReturnError(TRUE, FALSE)
    BY <1>6 DEF Secret
  <2>3. QED
    BY <1>1, <1>2, <2>1, <2>2, ResultFinalizer
<1>7. CASE External
  <2>1. pc \in Owned /\ pc # "idle" /\ (part = "destroy" => mem.life = "deleting")
    BY <1>7 DEF External, MakeParameterGroup, MakeSecurityGroup, MakeDatabase,
                DestroyParameterGroup, DestroySecurityGroup, DestroyDatabase, Owned,
                FinalizerInv
  <2>2. ASSUME NEW p \in Patches, NEW rq \in BOOLEAN, NEW aft \in BOOLEAN,
               Return(p, rq, aft)
        PROVE  FinalizerInv'
    BY <1>1, <2>1, <2>2, ResultFinalizer
  <2>3. ASSUME NEW rq \in BOOLEAN, NEW id \in BOOLEAN, ReturnError(rq, id)
        PROVE  FinalizerInv'
    BY <1>1, <2>1, <2>3, ResultFinalizer
  <2>4. ASSUME part = "destroy", GoOn("release") PROVE FinalizerInv'
    BY <1>1, <2>1, <2>4, ResultFinalizer
  <2>5. CASE MakeParameterGroup
    <3>1. \/ \E aft \in BOOLEAN : Return(NoPatch, FALSE, aft)
          \/ ReturnError(FALSE, TRUE)
      BY <2>5 DEF MakeParameterGroup
    <3>2. QED
      BY <1>2, <2>2, <2>3, <3>1
  <2>6. CASE MakeSecurityGroup
    <3>1. \/ Return(NoPatch, TRUE, FALSE)
          \/ Return([NoPatch EXCEPT !.sgID = TRUE], FALSE, FALSE)
          \/ ReturnError(FALSE, TRUE)
      BY <2>6 DEF MakeSecurityGroup
    <3>2. QED
      BY <2>2, <2>3, <3>1, PatchTypes
  <2>7. CASE MakeDatabase
    <3>1. \/ Return(NoPatch, FALSE, TRUE)
          \/ \E s \in {"Ready", "Modifying", "Creating", "Unknown"}, aft \in BOOLEAN :
               Return([NoPatch EXCEPT !.status = s], FALSE, aft)
          \/ \E id \in BOOLEAN : ReturnError(FALSE, id)
      BY <2>7 DEF MakeDatabase, CreateDatabase, UpdateDatabase
    <3>2. \A s \in {"Ready", "Modifying", "Creating", "Unknown"} :
            [NoPatch EXCEPT !.status = s] \in Patches
      BY PatchTypes DEF Statuses
    <3>3. QED
      BY <1>2, <2>2, <2>3, <3>1, <3>2
  <2>8. CASE DestroyParameterGroup \/ DestroySecurityGroup \/ DestroyDatabase
    <3>1. \/ Return(NoPatch, FALSE, TRUE)
          \/ part = "destroy" /\ GoOn("release")
          \/ ReturnError(FALSE, TRUE)
      BY <2>8 DEF DestroyParameterGroup, DestroySecurityGroup, DestroyDatabase
    <3>2. QED
      BY <1>2, <2>2, <2>3, <2>4, <3>1
  <2>9. QED
    BY <1>7, <2>5, <2>6, <2>7, <2>8 DEF External
<1>8. QED
  BY <1>5, <1>6, <1>7 DEF Components

\* So do the beginning and the end of a pass: what is written to the status is
\* written over the stored finalizers.
LEMMA WorkerFinalizer ==
    TypeInv /\ FinalizerInv /\ (Begin \/ Save \/ Crash) => FinalizerInv'
<1> SUFFICES ASSUME TypeInv, FinalizerInv, Begin \/ Save \/ Crash
    PROVE  FinalizerInv'
  OBVIOUS
<1>1. top \in Objects /\ mem \in Objects /\ cache \in Objects /\ patch \in Patches
  BY DEF TypeInv, PassTypeOK, WorldTypeOK
<1>2. CASE Begin
  BY <1>2 DEF Begin, FinalizerInv, cacheVars
<1>3. CASE SaveNothing \/ ReplayGiveUp
  BY <1>3 DEF SaveNothing, ReplayGiveUp, Finish, ClearPass, FinalizerInv, cacheVars
<1>4. CASE SaveConflict \/ ReplayConflict
  <2>1. part # "make"
    BY <1>1, <1>4 DEF SaveConflict, ReplayConflict, FinalizerInv, Objects, Owned
  <2>2. QED
    BY <1>4, <2>1 DEF SaveConflict, ReplayConflict, FinalizerInv, cacheVars
<1>5. CASE SaveFast
  <2>1. top'.fins = top.fins /\ top'.life = top.life
    BY <1>1, <1>5 DEF SaveFast, Objects
  <2>2. QED
    BY <1>5, <2>1 DEF SaveFast, Finish, ClearPass, FinalizerInv
<1>6. CASE Replay
  <2>1. CASE cacheOK /\ top' = Apply(patch, cache)
    <3>1. top'.fins = cache.fins /\ top'.life = cache.life /\ UNCHANGED cache
      BY <1>1, <1>6, <2>1, ApplyType DEF Replay, Finish
    <3>2. QED
      BY <1>6, <2>1, <3>1 DEF Replay, Finish, ClearPass, FinalizerInv
  <2>2. CASE UNCHANGED <<top, cacheOK>>
    BY <1>6, <2>2 DEF Replay, Finish, ClearPass, FinalizerInv
  <2>3. QED
    BY <1>6, <2>1, <2>2 DEF Replay
<1>7. CASE Crash
  BY <1>7 DEF Crash, ClearPass, FinalizerInv
<1>8. QED
  BY <1>2, <1>3, <1>4, <1>5, <1>6, <1>7 DEF Save

\* So does the world outside: it deletes the object but adds no finalizer and
\* takes none away.
LEMMA OutsideFinalizer == TypeInv /\ FinalizerInv /\ Outside => FinalizerInv'
<1> SUFFICES ASSUME TypeInv, FinalizerInv, Outside PROVE FinalizerInv'
  OBVIOUS
<1>1. top \in Objects
  BY DEF TypeInv, PassTypeOK
<1>2. CASE SyncTop
  BY <1>2 DEF SyncTop, FinalizerInv, passVars
<1>3. CASE SyncSecret \/ TimerFires \/ OtherEvent
  BY <1>3 DEF SyncSecret, TimerFires, OtherEvent, FinalizerInv, cacheVars, passVars
<1>4. CASE DeleteInstance
  <2>1. top'.fins = top.fins /\ top'.life # "live"
    BY <1>1, <1>4 DEF DeleteInstance, Objects
  <2>2. QED
    BY <1>4, <2>1 DEF DeleteInstance, FinalizerInv, operatorVars
<1>5. CASE Touch
  BY <1>5 DEF Touch, FinalizerInv, operatorVars
<1>6. CASE DeleteSecret \/ Drift \/ DatabaseMoves \/ DatabaseBreaks \/ AutomatedBackup
  BY <1>6 DEF DeleteSecret, Drift, DatabaseMoves, DatabaseBreaks, AutomatedBackup,
              FinalizerInv, operatorVars
<1>7. QED
  BY <1>2, <1>3, <1>4, <1>5, <1>6 DEF Outside

\* Every step keeps the invariant.
LEMMA NextFinalizer == TypeInv /\ FinalizerInv /\ [Next]_vars => FinalizerInv'
<1> SUFFICES ASSUME TypeInv, FinalizerInv, [Next]_vars PROVE FinalizerInv'
  OBVIOUS
<1>1. CASE Next
  BY <1>1, ComponentsFinalizer, WorkerFinalizer, OutsideFinalizer DEF Next, Outside
<1>2. CASE UNCHANGED vars
  BY <1>2 DEF vars, FinalizerInv
<1>3. QED
  BY <1>1, <1>2

\* Types and finalizers together, of every behaviour.
LEMMA FinalizerInvariant == Spec => [](TypeInv /\ FinalizerInv)
<1>1. Init => TypeInv /\ FinalizerInv
  BY InitType, InitFinalizer
<1>2. TypeInv /\ FinalizerInv /\ [Next]_vars => (TypeInv /\ FinalizerInv)'
  BY NextType, NextFinalizer
<1>3. QED
  BY <1>1, <1>2, PTL DEF Spec

\* What MadeUnderFinalizer says of a step.
GuardedStep ==
    /\ \A g \in Groups :
         group[g] = "absent" /\ group'[g] # "absent" => g \in top.fins
    /\ (db.state = "absent" /\ db'.state # "absent") => "database" \in top.fins

\* A component at work has its finalizer in the API server.
LEMMA StepIsGuarded ==
    TypeInv /\ FinalizerInv /\ [Next]_vars => [GuardedStep]_awsVars
<1> SUFFICES ASSUME TypeInv, FinalizerInv, [Next]_vars, ~UNCHANGED awsVars
    PROVE  GuardedStep
  OBVIOUS
<1>1. group \in [Groups -> GroupStates] /\ db \in Databases
  BY DEF TypeInv, WorldTypeOK
<1>2. part = "make" => pc \in top.fins
  BY DEF FinalizerInv
<1>3. CASE External
  <2>1. CASE MakeParameterGroup \/ MakeSecurityGroup
    <3>1. db' = db /\ pc \in top.fins
      BY <1>2, <2>1 DEF MakeParameterGroup, MakeSecurityGroup
    <3>2. \A g \in Groups : g # pc => group'[g] = group[g]
      BY <1>1, <2>1 DEF MakeParameterGroup, MakeSecurityGroup
    <3>3. QED
      BY <3>1, <3>2 DEF GuardedStep
  <2>2. CASE MakeDatabase
    BY <1>2, <2>2 DEF MakeDatabase, GuardedStep
  <2>3. CASE DestroyParameterGroup \/ DestroySecurityGroup
    <3>1. db' = db
      BY <2>3 DEF DestroyParameterGroup, DestroySecurityGroup
    <3>2. \A g \in Groups : group'[g] \in {group[g], "absent"}
      BY <1>1, <2>3 DEF DestroyParameterGroup, DestroySecurityGroup
    <3>3. QED
      BY <3>1, <3>2 DEF GuardedStep
  <2>4. CASE DestroyDatabase
    <3>1. group' = group /\ (db' = db \/ db.state = "available")
      BY <2>4 DEF DestroyDatabase
    <3>2. QED
      BY <3>1 DEF GuardedStep
  <2>5. QED
    BY <1>3, <2>1, <2>2, <2>3, <2>4 DEF External
<1>4. CASE Drift \/ DatabaseMoves \/ DatabaseBreaks \/ AutomatedBackup
  <2>1. \A g \in Groups : group[g] = "absent" => group'[g] = "absent"
    BY <1>1, <1>4 DEF Drift, DatabaseMoves, DatabaseBreaks, AutomatedBackup
  <2>2. db.state = "absent" => db' = db
    BY <1>4 DEF Drift, DatabaseMoves, DatabaseBreaks, AutomatedBackup
  <2>3. QED
    BY <2>1, <2>2 DEF GuardedStep
<1>5. CASE \/ Begin \/ Finalizers \/ Secret \/ Save \/ SyncTop \/ SyncSecret
           \/ TimerFires \/ OtherEvent \/ Crash \/ DeleteInstance \/ Touch
           \/ DeleteSecret \/ UNCHANGED vars
  BY <1>5 DEF Begin, Finalizers, Secret, Save, SaveNothing, SaveFast, SaveConflict,
              Replay, ReplayConflict, ReplayGiveUp, Finish, SyncTop, SyncSecret,
              TimerFires, OtherEvent, Crash, DeleteInstance, Touch, DeleteSecret,
              awsVars, vars
<1>6. QED
  BY <1>3, <1>4, <1>5 DEF Next, Components

\* Whatever is stale, refused, restarted or deleted in between, nothing is made in
\* AWS for an object that does not carry the finalizer that will take it down.
THEOREM MadeUnderFinalizerCorrect == Spec => MadeUnderFinalizer
<1>1. TypeInv /\ FinalizerInv /\ [Next]_vars => [GuardedStep]_awsVars
  BY StepIsGuarded
<1>2. QED
  BY <1>1, FinalizerInvariant, PTL DEF Spec, MadeUnderFinalizer, GuardedStep

-----------------------------------------------------------------------------
(* The two groups are what ExternalResource says.                           *)

\* ExternalResource for either group; for each of them it is ParameterGroup or
\* SecurityGroup.
Resource(g) == INSTANCE ExternalResource
    WITH object <- top.life, guarded <- g \in top.fins,
         resource <- LifeOf(group[g])

\* The steps that do not touch a group, its finalizer or the deletion of the object.
Gone(g) == group[g] = "absent"

Aside(g) ==
    /\ top'.life = top.life /\ top'.fins = top.fins
    /\ Gone(g) <=> Gone(g)'

\* Nothing exists without a finalizer for it, and when the component is about to
\* take the finalizer off the group is gone.
OrphanInv(g) ==
    /\ top.life = "gone" => top.fins = {}
    /\ g \notin top.fins => Gone(g)
    /\ pc = g /\ part = "release" => Gone(g)

\* A group exists or does not; it is never on its way out.
LEMMA LifeOfGroup ==
    \A s \in GroupStates : LifeOf(s) = IF s = "absent" THEN "absent" ELSE "present"
<1>1. LifeOf("absent") = "absent"
  BY DEF LifeOf
<1>2. LifeOf("drifted") = "present"
  BY DEF LifeOf
<1>3. LifeOf("ok") = "present"
  BY DEF LifeOf
<1>4. QED
  BY <1>1, <1>2, <1>3 DEF GroupStates

\* What the resource of the abstract specification is, before and after a step.
LEMMA ResourceIs ==
    ASSUME NEW g \in Groups
    PROVE  /\ TypeInv => LifeOf(group[g])
                           = IF Gone(g) THEN "absent" ELSE "present"
           /\ TypeInv' => LifeOf(group[g])'
                            = IF Gone(g)' THEN "absent" ELSE "present"
<1>1. ASSUME TypeInv
      PROVE  LifeOf(group[g])
               = IF Gone(g) THEN "absent" ELSE "present"
  <2>1. group[g] \in GroupStates
    BY <1>1 DEF TypeInv, WorldTypeOK, Groups, Owned
  <2>2. QED
    BY <2>1, LifeOfGroup DEF Gone
<1>2. ASSUME TypeInv'
      PROVE  LifeOf(group[g])'
               = IF Gone(g)' THEN "absent" ELSE "present"
  <2>1. group'[g] \in GroupStates
    BY <1>2 DEF TypeInv, WorldTypeOK, Groups, Owned
  <2>2. LifeOf(group'[g])
          = IF group'[g] = "absent" THEN "absent" ELSE "present"
    BY <2>1, LifeOfGroup
  <2>3. QED
    BY <2>2 DEF Gone
<1>3. QED
  BY <1>1, <1>2

\* A step aside is a stuttering step and keeps the invariant, unless it begins
\* to take the finalizer off.
LEMMA AsideStutters ==
    ASSUME NEW g \in Groups, TypeInv, TypeInv', OrphanInv(g), Aside(g),
           pc' = g /\ part' = "release"
             => \/ pc = g /\ part = "release"
                \/ Gone(g)
    PROVE  OrphanInv(g)' /\ UNCHANGED Resource(g)!vars
<1>1. OrphanInv(g)'
  BY DEF OrphanInv, Aside, Gone
<1>2. LifeOf(group[g])' = LifeOf(group[g])
  BY ResourceIs DEF Aside, Gone
<1>3. QED
  BY <1>1, <1>2 DEF Aside, Resource!vars

\* The initial states have no group and no finalizer.
LEMMA InitOrphan ==
    ASSUME NEW g \in Groups, Init
    PROVE  OrphanInv(g) /\ Resource(g)!Init
<1>1. Gone(g) /\ top.life = "live" /\ top.fins = {}
  BY DEF Init, Gone, NewInstance, Groups, Owned
<1>2. LifeOf(group[g]) = "absent"
  BY <1>1, InitType, ResourceIs
<1>3. QED
  BY <1>1, <1>2 DEF OrphanInv, Resource!Init

\* Writing finalizers adds one (Guard), gives one up (Release) or concerns the
\* other resources.
LEMMA FinalizersRefine ==
    ASSUME NEW g \in Groups, TypeInv, TypeInv', FinalizerInv, OrphanInv(g),
           EnableFinalizers, Finalizers
    PROVE  OrphanInv(g)' /\ [Resource(g)!Next]_(Resource(g)!vars)
<1>1. top \in Objects /\ mem \in Objects /\ UNCHANGED group
  BY DEF TypeInv, PassTypeOK, Finalizers, awsVars
<1>2. PICK c \in Owned : AddFinalizer(c) \/ TakeDown(c) \/ RemoveFinalizer(c)
  BY DEF Finalizers
<1>3. LifeOf(group[g])' = LifeOf(group[g])
  BY <1>1
<1>4. ASSUME UNCHANGED top, part' # "release"
      PROVE  OrphanInv(g)' /\ [Resource(g)!Next]_(Resource(g)!vars)
  BY <1>1, <1>4, AsideStutters DEF Aside, Gone
<1>5. CASE AddFinalizer(c)
  <2>1. CASE WriteFinalizers(mem.fins \cup {c})
    <3>1. top.fins = mem.fins /\ top.life = "live" /\ mem.life = "live"
      BY <1>5, <2>1 DEF AddFinalizer, WriteFinalizers, FinalizerInv
    <3>2. top' = [top EXCEPT !.fins = top.fins \cup {c}]
      BY <2>1, <3>1 DEF WriteFinalizers
    <3>3. top'.fins = top.fins \cup {c} /\ top'.life = top.life
      BY <1>1, <3>2 DEF Objects
    <3>4. part' # "release"
      BY <1>5, <2>1 DEF AddFinalizer, GoOn, WriteFinalizers, WriteRefused,
                        ReturnError
    <3>5. OrphanInv(g)'
      BY <1>1, <3>1, <3>3, <3>4 DEF OrphanInv, Gone
    <3>6. CASE c = g
      <4>1. Resource(g)!Guard
        BY <1>3, <3>1, <3>3, <3>6 DEF Resource!Guard
      <4>2. QED
        BY <3>5, <4>1 DEF Resource!Next
    <3>7. CASE c # g
      BY <1>3, <3>3, <3>5, <3>7 DEF Resource!vars
    <3>8. QED
      BY <3>6, <3>7
  <2>2. CASE GoOn("make") \/ WriteRefused
    BY <1>4, <2>2 DEF GoOn, WriteRefused, ReturnError
  <2>3. QED
    BY <1>5, <2>1, <2>2 DEF AddFinalizer
<1>6. CASE TakeDown(c)
  BY <1>4, <1>6 DEF TakeDown, Return, GoOn
<1>7. CASE RemoveFinalizer(c)
  <2>1. CASE WriteFinalizers(mem.fins \ {c}) /\ part' = "finalizer"
    <3>1. top.fins = mem.fins /\ top.life = "deleting" /\ pc = c /\ part = "release"
      BY <1>7, <2>1 DEF RemoveFinalizer, WriteFinalizers, FinalizerInv
    <3>2. \/ /\ top'.fins = top.fins \ {c} /\ top'.life = "deleting"
          \/ /\ top.fins \ {c} = {} /\ top'.fins = {} /\ top'.life = "gone"
      BY <1>1, <2>1, <3>1 DEF WriteFinalizers, Objects
    <3>3. top'.fins = top.fins \ {c} /\ top'.life \in {"deleting", "gone"}
      BY <3>2
    <3>4. g \notin top'.fins => Gone(g)
      BY <3>1, <3>3 DEF OrphanInv
    <3>5. OrphanInv(g)'
      BY <1>1, <2>1, <3>2, <3>4 DEF OrphanInv, Gone
    <3>6. CASE g \in top'.fins
      BY <1>3, <3>1, <3>2, <3>3, <3>5, <3>6 DEF Resource!vars
    <3>7. CASE g \notin top'.fins
      <4>1. LifeOf(group[g]) # "present"
        BY <3>4, <3>7, ResourceIs
      <4>2. Resource(g)!Release
        BY <1>3, <3>1, <3>3, <3>7, <4>1 DEF Resource!Release
      <4>3. QED
        BY <3>5, <4>2 DEF Resource!Next
    <3>8. QED
      BY <3>6, <3>7
  <2>2. CASE WriteRefused
    BY <1>4, <2>2 DEF WriteRefused, ReturnError
  <2>3. QED
    BY <1>7, <2>1, <2>2 DEF RemoveFinalizer
<1>8. QED
  BY <1>2, <1>5, <1>6, <1>7

\* When the deletion of a group can be relied on: always that of the parameter
\* group; that of the security group as long as no call fails, because an error of
\* describing it reads as no group.
Reliable(g) == g = "securitygroup" => ~Failing

\* A step of a component of the group that makes it (Make) does so under the
\* finalizer.
LEMMA MakeRefines ==
    ASSUME NEW g \in Groups, TypeInv, TypeInv', FinalizerInv, OrphanInv(g),
           pc = g, part = "make", part' # "release", UNCHANGED top, ~Gone(g) => ~Gone(g)'
    PROVE  OrphanInv(g)' /\ [Resource(g)!Next]_(Resource(g)!vars)
<1>1. g \in top.fins
  BY DEF FinalizerInv, Groups
<1>2. OrphanInv(g)'
  BY <1>1 DEF OrphanInv
<1>3. CASE Gone(g) /\ ~Gone(g)'
  <2>1. Resource(g)!Make
    BY <1>1, <1>3, ResourceIs DEF Resource!Make
  <2>2. QED
    BY <1>2, <2>1 DEF Resource!Next
<1>4. CASE Gone(g) <=> Gone(g)'
  BY <1>4, AsideStutters DEF Aside, Gone
<1>5. QED
  BY <1>3, <1>4

\* A step that destroys the group (Destroy) does so for a deleted object that still
\* has the finalizer, and goes on to take that off only when the group is gone.
LEMMA DestroyRefines ==
    ASSUME NEW g \in Groups, TypeInv, TypeInv', FinalizerInv, OrphanInv(g),
           pc = g, part = "destroy", UNCHANGED top, Gone(g) => Gone(g)',
           part' = "release" => Gone(g)'
    PROVE  OrphanInv(g)' /\ [Resource(g)!Next]_(Resource(g)!vars)
<1>1. top.life # "live"
  BY DEF FinalizerInv, Groups
<1>2. OrphanInv(g)'
  BY DEF OrphanInv
<1>3. CASE ~Gone(g) /\ Gone(g)'
  <2>1. g \in top.fins
    BY <1>3 DEF OrphanInv
  <2>2. top.life = "deleting"
    BY <1>1, <2>1 DEF OrphanInv, TypeInv, PassTypeOK, Objects
  <2>3. Resource(g)!Destroy
    BY <1>3, <2>1, <2>2, ResourceIs DEF Resource!Destroy
  <2>4. QED
    BY <1>2, <2>3 DEF Resource!Next
<1>4. CASE Gone(g) <=> Gone(g)'
  <2>1. LifeOf(group[g])' = LifeOf(group[g])
    BY <1>4, ResourceIs
  <2>2. QED
    BY <1>2, <2>1 DEF Resource!vars
<1>5. QED
  BY <1>3, <1>4

\* Work in AWS concerns one of the two groups or the database.
LEMMA ExternalRefines ==
    ASSUME NEW g \in Groups, TypeInv, TypeInv', FinalizerInv, OrphanInv(g), Reliable(g),
           External
    PROVE  OrphanInv(g)' /\ [Resource(g)!Next]_(Resource(g)!vars)
<1>1. group \in [Groups -> GroupStates]
  BY DEF TypeInv, WorldTypeOK
<1>2. UNCHANGED top
  BY DEF External, MakeParameterGroup, MakeSecurityGroup, MakeDatabase, CreateDatabase,
         UpdateDatabase, DestroyParameterGroup, DestroySecurityGroup, DestroyDatabase,
         Return, ReturnError, GoOn
<1>3. CASE pc = g /\ (MakeParameterGroup \/ MakeSecurityGroup)
  <2>1. part = "make" /\ part' # "release"
    BY <1>3 DEF MakeParameterGroup, MakeSecurityGroup, Return, ReturnError
  <2>2. ~Gone(g) => ~Gone(g)'
    BY <1>1, <1>3 DEF MakeParameterGroup, MakeSecurityGroup, Gone
  <2>3. QED
    BY <1>2, <1>3, <2>1, <2>2, MakeRefines
<1>4. CASE pc = g /\ (DestroyParameterGroup \/ DestroySecurityGroup)
  <2>1. part = "destroy"
    BY <1>4 DEF DestroyParameterGroup, DestroySecurityGroup
  <2>2. Gone(g) => Gone(g)'
    BY <1>1, <1>4 DEF DestroyParameterGroup, DestroySecurityGroup, Gone
  <2>3. part' = "release" => Gone(g)'
    BY <1>1, <1>4
       DEF DestroyParameterGroup, DestroySecurityGroup, GoOn, ReturnError, Gone, Reliable
  <2>4. QED
    BY <1>2, <1>4, <2>1, <2>2, <2>3, DestroyRefines
<1>5. CASE pc # g \/ MakeDatabase \/ DestroyDatabase
  <2>1. pc # g /\ pc \in Owned
    BY <1>5 DEF External, MakeParameterGroup, MakeSecurityGroup, MakeDatabase,
                DestroyParameterGroup, DestroySecurityGroup, DestroyDatabase, Groups, Owned
  <2>2. group'[g] = group[g]
    BY <1>1, <2>1
       DEF External, MakeParameterGroup, MakeSecurityGroup, MakeDatabase,
           DestroyParameterGroup, DestroySecurityGroup, DestroyDatabase
  <2>3. pc' = g => part' # "release"
    BY <2>1
       DEF External, MakeParameterGroup, MakeSecurityGroup, MakeDatabase, CreateDatabase,
           UpdateDatabase, DestroyParameterGroup, DestroySecurityGroup, DestroyDatabase,
           Return, ReturnError, GoOn
  <2>4. QED
    BY <1>2, <2>2, <2>3, AsideStutters DEF Aside, Gone
<1>6. QED
  BY <1>3, <1>4, <1>5 DEF External

\* Everything else leaves the group and its finalizer alone, except that the user
\* deletes the object (Delete).
LEMMA OthersRefine ==
    ASSUME NEW g \in Groups, TypeInv, TypeInv', FinalizerInv, OrphanInv(g),
           Secret \/ Begin \/ Save \/ Crash \/ Outside
    PROVE  OrphanInv(g)' /\ [Resource(g)!Next]_(Resource(g)!vars)
<1>1. top \in Objects /\ cache \in Objects /\ mem \in Objects /\ patch \in Patches
      /\ group \in [Groups -> GroupStates] /\ g \in Groups
  BY DEF TypeInv, PassTypeOK, WorldTypeOK, Groups, Owned
<1>2. ASSUME top'.life = top.life, top'.fins = top.fins, UNCHANGED group,
             \/ part' = "finalizer"
             \/ UNCHANGED <<pc, part>>
             \/ pc' \in {"save", "replay"}
      PROVE  OrphanInv(g)' /\ [Resource(g)!Next]_(Resource(g)!vars)
  BY <1>2, AsideStutters DEF Aside, Gone, Groups, Owned
<1>3. CASE Secret
  BY <1>2, <1>3 DEF Secret, Return, ReturnError, awsVars
<1>4. CASE Begin
  <2>1. part # "release"
    BY <1>4 DEF Begin, FinalizerInv
  <2>2. Aside(g) /\ part' = part
    BY <1>4 DEF Begin, Aside, Gone, awsVars
  <2>3. QED
    BY <2>1, <2>2, AsideStutters
<1>5. CASE Save
  <2>1. top'.life = top.life /\ top'.fins = top.fins
    <3>1. CASE SaveFast
      BY <1>1, <3>1 DEF SaveFast, Objects
    <3>2. CASE Replay
      BY <1>1, <3>2, ApplyType DEF Replay, FinalizerInv
    <3>3. CASE SaveNothing \/ SaveConflict \/ ReplayConflict \/ ReplayGiveUp
      BY <3>3 DEF SaveNothing, SaveConflict, ReplayConflict, ReplayGiveUp
    <3>4. QED
      BY <1>5, <3>1, <3>2, <3>3 DEF Save
  <2>2. UNCHANGED group
    BY <1>5 DEF Save, SaveNothing, SaveFast, SaveConflict, Replay, ReplayConflict,
                ReplayGiveUp, Finish, awsVars
  <2>3. part' = "finalizer" \/ pc' = "replay"
    BY <1>5 DEF Save, SaveNothing, SaveFast, SaveConflict, Replay, ReplayConflict,
                ReplayGiveUp, Finish, ClearPass
  <2>4. QED
    BY <1>2, <2>1, <2>2, <2>3
<1>6. CASE Crash
  BY <1>2, <1>6 DEF Crash, ClearPass, awsVars
<1>7. CASE DeleteInstance
  <2>1. /\ top.life = "live" /\ top'.fins = top.fins
        /\ top'.life = IF top.fins = {} THEN "gone" ELSE "deleting"
        /\ UNCHANGED <<group, pc, part>>
    BY <1>1, <1>7 DEF DeleteInstance, Objects, awsVars, operatorVars
  <2>2. OrphanInv(g)'
    BY <2>1 DEF OrphanInv, Gone
  <2>3. Resource(g)!Delete
    BY <2>1 DEF Resource!Delete
  <2>4. QED
    BY <2>2, <2>3 DEF Resource!Next
<1>8. CASE SyncTop \/ SyncSecret \/ TimerFires \/ OtherEvent
  BY <1>2, <1>8 DEF SyncTop, SyncSecret, TimerFires, OtherEvent, awsVars, passVars
<1>9. CASE Touch \/ DeleteSecret \/ DatabaseMoves \/ DatabaseBreaks \/ AutomatedBackup
  BY <1>2, <1>9 DEF Touch, DeleteSecret, DatabaseMoves, DatabaseBreaks,
                    AutomatedBackup, awsVars, operatorVars
<1>10. CASE Drift
  <2>1. Aside(g) /\ UNCHANGED <<pc, part>>
    BY <1>1, <1>10 DEF Drift, Aside, Gone, operatorVars
  <2>2. QED
    BY <2>1, AsideStutters
<1>11. QED
  BY <1>3, <1>4, <1>5, <1>6, <1>7, <1>8, <1>9, <1>10 DEF Outside

\* Every step is a step of the abstract specification or a stutter.
LEMMA NextRefines ==
    ASSUME NEW g \in Groups, TypeInv, FinalizerInv, OrphanInv(g), Reliable(g),
           EnableFinalizers, [Next]_vars
    PROVE  OrphanInv(g)' /\ [Resource(g)!Next]_(Resource(g)!vars)
<1>1. TypeInv'
  BY NextType
<1>2. CASE Next
  BY <1>1, <1>2, FinalizersRefine, ExternalRefines, OthersRefine
     DEF Next, Components, Outside
<1>3. CASE UNCHANGED vars
  BY <1>1, <1>3, AsideStutters DEF vars, Aside, Gone
<1>4. QED
  BY <1>2, <1>3

\* With finalizers enabled the parameter group is never left behind, whatever
\* fails, restarts, is stale, is refused or is deleted at whatever moment.
THEOREM KeepsParameterGroupCorrect ==
    ASSUME EnableFinalizers
    PROVE  Spec => KeepsParameterGroup
<1> DEFINE g == "parametergroup"
<1>1. g \in Groups /\ Reliable(g)
  BY DEF Groups, Owned, Reliable
<1>2. Init => OrphanInv(g) /\ ParameterGroup!Init
  BY <1>1, InitOrphan DEF Resource!Init, ParameterGroup!Init
<1>3. TypeInv /\ FinalizerInv /\ OrphanInv(g) /\ [Next]_vars
        => OrphanInv(g)' /\ [Resource(g)!Next]_(Resource(g)!vars)
  BY <1>1, NextRefines
<1>4. [Resource(g)!Next]_(Resource(g)!vars)
        => [ParameterGroup!Next]_(ParameterGroup!vars)
  BY DEF Resource!Next, Resource!Guard, Resource!Make, Resource!Delete, Resource!Destroy,
         Resource!Wither, Resource!Release, Resource!vars,
         ParameterGroup!Next, ParameterGroup!Guard, ParameterGroup!Make,
         ParameterGroup!Delete, ParameterGroup!Destroy, ParameterGroup!Wither,
         ParameterGroup!Release, ParameterGroup!vars
<1>5. QED
  BY <1>2, <1>3, <1>4, FinalizerInvariant, PTL DEF Spec, KeepsParameterGroup, ParameterGroup!Spec

\* Neither is the security group, as long as no call to AWS fails: an error of
\* describing it is dropped (security_group.go:288) and its finalizer taken off.
THEOREM KeepsSecurityGroupCorrect ==
    ASSUME EnableFinalizers, "api" \notin Faults
    PROVE  Spec => KeepsSecurityGroup
<1> DEFINE g == "securitygroup"
<1>1. g \in Groups /\ Reliable(g)
  BY DEF Groups, Owned, Reliable, Failing
<1>2. Init => OrphanInv(g) /\ SecurityGroup!Init
  BY <1>1, InitOrphan DEF Resource!Init, SecurityGroup!Init
<1>3. TypeInv /\ FinalizerInv /\ OrphanInv(g) /\ [Next]_vars
        => OrphanInv(g)' /\ [Resource(g)!Next]_(Resource(g)!vars)
  BY <1>1, NextRefines
<1>4. [Resource(g)!Next]_(Resource(g)!vars)
        => [SecurityGroup!Next]_(SecurityGroup!vars)
  BY DEF Resource!Next, Resource!Guard, Resource!Make, Resource!Delete, Resource!Destroy,
         Resource!Wither, Resource!Release, Resource!vars,
         SecurityGroup!Next, SecurityGroup!Guard, SecurityGroup!Make,
         SecurityGroup!Delete, SecurityGroup!Destroy, SecurityGroup!Wither,
         SecurityGroup!Release, SecurityGroup!vars
<1>5. QED
  BY <1>2, <1>3, <1>4, FinalizerInvariant, PTL DEF Spec, KeepsSecurityGroup, SecurityGroup!Spec
=============================================================================

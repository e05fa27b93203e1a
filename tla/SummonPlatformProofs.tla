------------------------ MODULE SummonPlatformProofs ------------------------
(***************************************************************************)
(* What holds of two parts of the SummonPlatform controller, whatever the  *)
(* constants.  First its notifications, SummonNotification, for every set  *)
(* of parts, every number of versions, edits, failures and restarts; then  *)
(* its secrets, PlatformSecrets, for every environment, every choice of    *)
(* what is edited, rotated and lost, and every number of disturbances.     *)
(*                                                                         *)
(* The two are models of different things and share only the names of the  *)
(* reconciler's variables (top, view, pass, work) and of MaxTries; no      *)
(* theorem speaks of both.  PlatformSecrets is instantiated as P.          *)
(***************************************************************************)
EXTENDS SummonNotification, TLAPS

(* PlatformSecrets, and the lemmas of the reconciler for its modifiers.  K  *)
(* is the instance P makes of ComponentReconciler, under a name whose       *)
(* lemmas can be cited.                                                     *)

\* Its constants and variables, explained there.
CONSTANTS Environments, Full, TroubleWhile, Edited, Rotated, Lost, MaxDisturbances
VARIABLES env, children, stored, cached, made, deployed, around, disturbances

P == INSTANCE PlatformSecrets

K == INSTANCE ComponentReconciler
       WITH Apply <- P!Apply, Then <- P!Then, NoPatch <- P!NoPatch, Failed <- P!Failed,
            Absent <- P!Absent

-----------------------------------------------------------------------------
(* SummonNotification.                                                      *)

Messages == Errors \cup {""}
Numbers == Versions \cup {NoVersion}

-----------------------------------------------------------------------------
(* Objects and modifiers.                                                   *)

\* There is always an object.
LEMMA NoneAbsent == \A o \in Objects : o # [spec |-> "none"]
<1> SUFFICES ASSUME NEW o \in Objects, o = [spec |-> "none"] PROVE FALSE
  OBVIOUS
<1>1. DOMAIN o = {"spec", "status"}
  BY DEF Objects
<1>2. DOMAIN o = {"spec"}
  OBVIOUS
<1>3. QED
  BY <1>1, <1>2

\* A modifier changes the status only, and keeps the types.
LEMMA ApplyType ==
    ASSUME NEW p \in Patches, NEW o \in Objects
    PROVE  /\ Apply(p, o) \in Objects /\ Apply(p, o).spec = o.spec
           /\ Apply(p, o).status.notified =
                IF p.notified THEN o.spec.version ELSE o.status.notified
BY DEF Apply, Patches, Objects, Phases, Specs

\* So does an error.
LEMMA FailedType ==
    ASSUME NEW message \in Messages, NEW o \in Objects
    PROVE  /\ Failed(o, message) \in Objects /\ Failed(o, message).spec = o.spec
           /\ Failed(o, message).status.notified = o.status.notified
BY DEF Failed, Objects, Phases, Messages

\* The modifiers of this controller are what the pass asks for.
LEMMA Modifiers == R!ModifiersOK(Objects, Patches, Messages)
<1>1. MaxTries \in Nat \ {0}
  BY NotificationConstantsOK
<1>2. NoPatch \in Patches /\ \A p, q \in Patches : Then(p, q) \in Patches
  BY DEF NoPatch, Patches, Then
<1>3. \A o, s \in Objects : [o EXCEPT !.status = s.status] \in Objects
  BY DEF Objects
<1>4. QED
  BY <1>1, <1>2, <1>3, ApplyType, FailedType, NoneAbsent DEF R!ModifiersOK

-----------------------------------------------------------------------------
(* Type correctness.                                                        *)

\* The initial states are well typed.
LEMMA InitType == Init => TypeOK
<1> SUFFICES ASSUME Init PROVE TypeOK
  OBVIOUS
<1>1. PICK mode \in Modes : R!Start(NewPlatform(mode))
  BY DEF Init
<1>2. NewPlatform(mode) \in Objects
  BY NotificationConstantsOK DEF NewPlatform, Objects, Specs, Phases, Versions
<1>3. R!TypesOK(Objects, Patches, Stages)
  BY <1>1, <1>2 DEF R!Start, R!TypesOK, R!Passes
<1>4. dup \in Dups
  BY DEF Init, NewDups, Dups
<1>5. edits \in 0 .. MaxEdits /\ failures \in 0 .. MaxFailures
  BY NotificationConstantsOK DEF Init
<1>6. QED
  BY <1>3, <1>4, <1>5 DEF Init, TypeOK, RolloutOutcomes

\* What a component finds when it runs.
LEMMA Running ==
    ASSUME TypeOK, pass.at \in Stages
    PROVE  /\ pass # R!Idle /\ pass \in R!Passes(Objects, Patches, Stages)
           /\ pass.obj \in Objects /\ pass.clean \in Objects
           /\ pass.obj.spec.version \in [Parts -> Numbers]
           /\ pass.obj.spec.version["summon"] \in Numbers
<1>1. pass # R!Idle /\ pass \in R!Passes(Objects, Patches, Stages)
  BY DEF TypeOK, R!TypesOK, R!Idle, Stages
<1>2. pass.obj \in Objects /\ pass.clean \in Objects
  BY <1>1 DEF R!Passes
<1>3. QED
  BY <1>1, <1>2, NotificationConstantsOK DEF Objects, Specs, Numbers

\* Noting that an error was reported changes nothing else in the cache of duplicates.
LEMMA ReportedType ==
    ASSUME NEW d \in Dups, NEW v \in Numbers, NEW message \in Messages
    PROVE  /\ [d EXCEPT !.error[v] = message] \in Dups
           /\ [d EXCEPT !.error[v] = message].done = d.done
BY DEF Dups, Numbers, Messages

\* What a component that fails leaves behind.
LEMMA FailsType ==
    ASSUME TypeOK, pass.at \in Stages, NEW message \in Errors, ComponentFails(message)
    PROVE  /\ pass' \in R!Passes(Objects, Patches, Stages)
           /\ dup' \in Dups /\ dup'.done = dup.done /\ failures' \in 0 .. MaxFailures
<1>1. pass' \in R!Passes(Objects, Patches, Stages)
  <2>1. NoPatch \in Patches /\ message \in Messages
    BY DEF NoPatch, Patches, Messages
  <2>2. QED
    BY <2>1, Running, Modifiers, R!ErrorTypes DEF ComponentFails
<1>2. dup' \in Dups /\ dup'.done = dup.done /\ failures' \in 0 .. MaxFailures
  <2>1. CASE UNCHANGED <<dup, failures>>
    BY <2>1 DEF TypeOK
  <2>2. ASSUME NEW v \in Numbers, ErrorHandled(message, v)
        PROVE  dup' \in Dups /\ dup'.done = dup.done /\ failures' \in 0 .. MaxFailures
    BY <2>2 DEF ErrorHandled, TypeOK, Dups, Numbers
  <2>3. ASSUME NEW v \in Numbers, ErrorUnsent(message, v)
        PROVE  dup' \in Dups /\ dup'.done = dup.done /\ failures' \in 0 .. MaxFailures
    BY <2>3, NotificationConstantsOK DEF ErrorUnsent, SomeCallFails, TypeOK
  <2>4. QED
    BY <2>1, <2>2, <2>3, Running DEF ComponentFails
<1>3. QED
  BY <1>1, <1>2

\* What a component that returns leaves behind.
LEMMA ReturnsType ==
    ASSUME TypeOK, pass.at \in Stages, NEW stage \in Stages \cup {"save"}, NEW patch \in Patches,
           R!Return(stage, patch, FALSE, FALSE)
    PROVE  pass' \in R!Passes(Objects, Patches, Stages)
BY Running, Modifiers, R!ReturnTypes

\* A component that sees to the rest of the state keeps the types.
LEMMA ComponentType ==
    ASSUME TypeOK, pass' \in R!Passes(Objects, Patches, Stages), tags' \in
             [build : Numbers, expired : BOOLEAN],
           dup' \in Dups, told' \in [Parts -> Numbers], repeated' \subseteq Parts,
           failures' \in 0 .. MaxFailures,
           UNCHANGED <<top, view, work, rollout, newest, replayed, edits>>
    PROVE  TypeOK'
BY DEF TypeOK, R!TypesOK, R!Passes, R!Idle, Numbers

\* Announcing leaves the history, and with it the cache of what was announced, of its
\* type.
LEMMA AnnounceType ==
    ASSUME TypeOK, pass.at \in Stages, NEW parts \in SUBSET Parts, Announce(parts)
    PROVE  /\ told' \in [Parts -> Numbers] /\ repeated' \subseteq Parts
           /\ UNCHANGED replayed
           /\ Announced(parts) \in [Parts -> Numbers]
<1>1. \A c \in Parts : Wanted(c) \in Numbers
  BY Running DEF Wanted
<1>2. \A c \in Parts : told[c] \in Numbers /\ dup.done[c] \in Numbers
  BY DEF TypeOK, Dups, Numbers
<1>3. QED
  BY <1>1, <1>2 DEF Announce, Announced, TypeOK

\* The types are kept by every component.
LEMMA ComponentsType == TypeOK /\ Components => TypeOK'
<1> SUFFICES ASSUME TypeOK, Components PROVE TypeOK'
  OBVIOUS
<1> USE DEF cacheVars, historyVars, boundVars
<1>1. /\ tags \in [build : Numbers, expired : BOOLEAN] /\ dup \in Dups
      /\ told \in [Parts -> Numbers] /\ repeated \subseteq Parts
      /\ failures \in 0 .. MaxFailures
  BY DEF TypeOK, Numbers
<1>2. CASE DefaultsRefuse
  <2>1. pass.at \in Stages /\ "refused" \in Errors
    BY <1>2 DEF DefaultsRefuse, Stages, Errors
  <2>2. QED
    BY <1>1, <1>2, <2>1, FailsType, ComponentType DEF DefaultsRefuse
<1>3. CASE AutoDeploy
  <2>1. pass.at \in Stages /\ "registry" \in Messages /\ "registry" \in Errors
    BY <1>3 DEF AutoDeploy, Stages, Messages, Errors
  <2>2. CASE R!Return("rollout", NoPatch, FALSE, FALSE) /\ UNCHANGED <<tags, dup, failures>>
    <3>1. "rollout" \in Stages /\ NoPatch \in Patches
      BY DEF Stages, NoPatch, Patches
    <3>2. QED
      BY <1>1, <1>3, <2>1, <2>2, <3>1, ReturnsType, ComponentType DEF AutoDeploy
  <2>3. CASE /\ tags' = [build |-> Fetched, expired |-> FALSE]
             /\ pass' = [pass EXCEPT !.at = "rollout", !.obj.spec.version["summon"] = Fetched]
             /\ UNCHANGED <<dup, failures>>
    <3>1. Fetched \in Numbers
      BY DEF Fetched, TypeOK, Numbers
    <3>2. [pass.obj EXCEPT !.spec.version["summon"] = Fetched] \in Objects
      BY <2>1, <3>1, Running DEF Objects, Specs, Numbers
    <3>3. pass' \in R!Passes(Objects, Patches, Stages)
      <4>1. pass' = [pass EXCEPT !.at = "rollout",
                                 !.obj = [@ EXCEPT !.spec.version["summon"] = Fetched]]
        BY <2>1, <2>3, Running DEF R!Passes
      <4>2. QED
        BY <2>1, <3>2, <4>1, Running, NoneAbsent DEF R!Passes, Stages
    <3>4. QED
      BY <1>1, <1>3, <2>3, <3>1, <3>3, ComponentType DEF AutoDeploy
  <2>4. CASE /\ tags' = [build |-> Fetched, expired |-> FALSE]
             /\ ComponentFails("registry")
    <3>1. Fetched \in Numbers
      BY DEF Fetched, TypeOK, Numbers
    <3>2. QED
      BY <1>1, <1>3, <2>1, <2>4, <3>1, FailsType, ComponentType DEF AutoDeploy
  <2>5. CASE /\ failures < MaxFailures /\ R!ReturnError("registry", NoPatch, FALSE)
             /\ dup' \in {dup, [dup EXCEPT !.error[NoVersion] = "registry"]}
             /\ failures' = failures + 1 /\ UNCHANGED tags
    <3>1. NoPatch \in Patches
      BY DEF NoPatch, Patches
    <3>2. pass' \in R!Passes(Objects, Patches, Stages)
      BY <2>1, <2>5, <3>1, Running, Modifiers, R!ErrorTypes
    <3>3. dup' \in Dups
      <4>1. NoVersion \in Numbers
        BY DEF Numbers
      <4>2. QED
        BY <1>1, <2>1, <2>5, <4>1, ReportedType
    <3>4. failures' \in 0 .. MaxFailures
      BY <1>1, <2>5, NotificationConstantsOK
    <3>5. QED
      BY <1>1, <1>3, <2>5, <3>2, <3>3, <3>4, ComponentType DEF AutoDeploy
  <2>6. QED
    BY <1>3, <2>2, <2>3, <2>4, <2>5 DEF AutoDeploy
<1>4. CASE Rollout
  <2>1. pass.at \in Stages /\ NoPatch \in Patches /\ "notification" \in Stages
    BY <1>4 DEF Rollout, Stages, NoPatch, Patches
  <2>2. CASE /\ rollout \in {"Deploying", "Ready"} /\ UNCHANGED <<dup, failures>>
             /\ R!Return("notification", [NoPatch EXCEPT !.phase = rollout], FALSE, FALSE)
    <3>1. [NoPatch EXCEPT !.phase = rollout] \in Patches
      BY <2>2 DEF NoPatch, Patches
    <3>2. QED
      BY <1>1, <1>4, <2>1, <2>2, <3>1, ReturnsType, ComponentType DEF Rollout
  <2>3. CASE /\ R!Return("notification", NoPatch, FALSE, FALSE)
             /\ UNCHANGED <<dup, failures>>
    BY <1>1, <1>4, <2>1, <2>3, ReturnsType, ComponentType DEF Rollout
  <2>4. CASE rollout \in Errors /\ ComponentFails(rollout)
    BY <1>1, <1>4, <2>1, <2>4, FailsType, ComponentType DEF Rollout
  <2>5. QED
    BY <1>4, <2>2, <2>3, <2>4 DEF Rollout
<1>5. CASE NotifySuccess
  <2>1. pass.at \in Stages
    BY <1>5 DEF NotifySuccess, Stages
  <2>2. Wanted("summon") \in Numbers
    BY <2>1, Running DEF Wanted
  <2>3. CASE /\ Announce({c \in Parts : Due(c)}) /\ SuiteStarted
             /\ R!Return("save", [NoPatch EXCEPT !.notified = TRUE], FALSE, FALSE)
    <3>1. [NoPatch EXCEPT !.notified = TRUE] \in Patches
      BY DEF NoPatch, Patches
    <3>2. /\ told' \in [Parts -> Numbers] /\ repeated' \subseteq Parts
          /\ UNCHANGED replayed
          /\ Announced({c \in Parts : Due(c)}) \in [Parts -> Numbers]
      BY <2>1, <2>3, AnnounceType
    <3>3. dup' \in Dups
      BY <1>1, <2>2, <2>3, <3>2 DEF SuiteStarted, Dups, Numbers
    <3>4. failures' \in 0 .. MaxFailures
      BY <1>1, <2>3, NotificationConstantsOK DEF SuiteStarted, SomeCallFails
    <3>5. QED
      BY <1>1, <1>5, <2>1, <2>3, <3>1, <3>2, <3>3, <3>4, ReturnsType, ComponentType
         DEF NotifySuccess
  <2>4. ASSUME NEW missed \in SUBSET {c \in Parts : Due(c)}, SomeCallFails,
               Announce({c \in Parts : Due(c)} \ missed),
               \E reported \in BOOLEAN :
                 dup' = [dup EXCEPT !.done = Announced({c \in Parts : Due(c)} \ missed),
                                    !.error[Wanted("summon")] =
                                       IF reported THEN "post" ELSE @],
               R!ReturnError("post", NoPatch, FALSE)
        PROVE  TypeOK'
    <3>1. NoPatch \in Patches /\ "post" \in Messages
      BY DEF NoPatch, Patches, Messages, Errors
    <3>2. pass' \in R!Passes(Objects, Patches, Stages)
      BY <2>1, <2>4, <3>1, Running, Modifiers, R!ErrorTypes
    <3>3. /\ told' \in [Parts -> Numbers] /\ repeated' \subseteq Parts
          /\ UNCHANGED replayed
          /\ Announced({c \in Parts : Due(c)} \ missed) \in [Parts -> Numbers]
      BY <2>1, <2>4, AnnounceType
    <3>4. dup' \in Dups
      <4>1. PICK reported \in BOOLEAN :
              dup' = [dup EXCEPT !.done = Announced({c \in Parts : Due(c)} \ missed),
                                 !.error[Wanted("summon")] = IF reported THEN "post" ELSE @]
        BY <2>4
      <4>2. [dup EXCEPT !.done = Announced({c \in Parts : Due(c)} \ missed)] \in Dups
        BY <1>1, <3>3 DEF Dups, Numbers
      <4>3. dup.error[Wanted("summon")] \in Messages
        BY <1>1, <2>2 DEF Dups, Numbers, Messages
      <4>4. dup' = [[dup EXCEPT !.done = Announced({c \in Parts : Due(c)} \ missed)]
                      EXCEPT !.error[Wanted("summon")] =
                        IF reported THEN "post" ELSE dup.error[Wanted("summon")]]
        BY <1>1, <4>1 DEF Dups
      <4>5. (IF reported THEN "post" ELSE dup.error[Wanted("summon")]) \in Messages
        BY <3>1, <4>3
      <4>6. QED
        BY <2>2, <4>2, <4>4, <4>5, ReportedType
    <3>5. failures' \in 0 .. MaxFailures
      BY <1>1, <2>4, NotificationConstantsOK DEF SomeCallFails
    <3>6. QED
      BY <1>1, <1>5, <3>2, <3>3, <3>4, <3>5, ComponentType DEF NotifySuccess
  <2>5. QED
    BY <1>5, <2>3, <2>4 DEF NotifySuccess
<1>6. CASE NotifyError
  <2>1. pass.at \in Stages /\ NoPatch \in Patches /\ "post" \in Messages
    BY <1>6 DEF NotifyError, Stages, NoPatch, Patches, Messages, Errors
  <2>2. Wanted("summon") \in Numbers /\ pass.obj.status.message \in Messages
    BY <2>1, Running DEF Wanted, Objects, Messages
  <2>3. CASE /\ ErrorHandled(pass.obj.status.message, Wanted("summon"))
             /\ R!Return("save", NoPatch, FALSE, FALSE)
    <3>1. dup' \in Dups /\ UNCHANGED failures
      BY <1>1, <2>2, <2>3 DEF ErrorHandled, Dups, Numbers, Messages
    <3>2. QED
      BY <1>1, <1>6, <2>1, <2>3, <3>1, ReturnsType, ComponentType DEF NotifyError
  <2>4. CASE /\ SomeCallFails /\ R!ReturnError("post", NoPatch, FALSE)
             /\ dup' \in {dup, [dup EXCEPT !.error[Wanted("summon")] = "post"]}
    <3>1. pass' \in R!Passes(Objects, Patches, Stages)
      BY <2>1, <2>4, Running, Modifiers, R!ErrorTypes
    <3>2. dup' \in Dups
      BY <1>1, <2>1, <2>2, <2>4, ReportedType
    <3>3. failures' \in 0 .. MaxFailures
      BY <1>1, <2>4, NotificationConstantsOK DEF SomeCallFails
    <3>4. QED
      BY <1>1, <1>6, <3>1, <3>2, <3>3, ComponentType DEF NotifyError
  <2>5. QED
    BY <1>6, <2>3, <2>4 DEF NotifyError
<1>7. CASE NotifyNothing
  <2>1. pass.at \in Stages /\ NoPatch \in Patches
    BY <1>7 DEF NotifyNothing, Stages, NoPatch, Patches
  <2>2. QED
    BY <1>1, <1>7, <2>1, ReturnsType, ComponentType DEF NotifyNothing
<1>8. QED
  BY <1>2, <1>3, <1>4, <1>5, <1>6, <1>7 DEF Components

\* The types and the honesty of the cache are kept by every step.
LEMMA NextType == TypeOK /\ R!CacheOK /\ [Next]_vars => TypeOK' /\ R!CacheOK'
<1> SUFFICES ASSUME TypeOK, R!CacheOK, [Next]_vars PROVE TypeOK' /\ R!CacheOK'
  OBVIOUS
<1> USE DEF cacheVars, historyVars, boundVars
<1>1. R!TypesOK(Objects, Patches, Stages)
  BY DEF TypeOK
<1>2. ASSUME R!TypesOK(Objects, Patches, Stages)', R!CacheOK',
             UNCHANGED <<rollout, cacheVars, dup, told, repeated>>, replayed' \subseteq Parts,
             edits' \in 0 .. MaxEdits, failures' \in 0 .. MaxFailures
      PROVE  TypeOK' /\ R!CacheOK'
  BY <1>2 DEF TypeOK
<1>3. edits \in 0 .. MaxEdits /\ failures \in 0 .. MaxFailures /\ replayed \subseteq Parts
  BY DEF TypeOK
<1>4. CASE Begin
  <2>1. "version" \in Stages /\ R!CacheOK'
    BY <1>4 DEF Begin, R!Begin, R!CacheOK, Stages
  <2>2. R!TypesOK(Objects, Patches, Stages)'
    BY <1>1, <1>4, <2>1, Modifiers, R!BeginTypes DEF Begin
  <2>3. QED
    BY <1>2, <1>3, <1>4, <2>1, <2>2 DEF Begin
<1>5. CASE Components
  <2>1. UNCHANGED <<top, view>>
    BY <1>5 DEF Components, DefaultsRefuse, AutoDeploy, Rollout, NotifySuccess, NotifyError,
                NotifyNothing
  <2>2. QED
    BY <1>5, <2>1, ComponentsType DEF R!CacheOK
<1>6. CASE Save
  <2>1. R!TypesOK(Objects, Patches, Stages)'
    BY <1>1, <1>6, Modifiers, R!SaveTypes DEF Save
  <2>2. R!CacheOK'
    BY <1>1, <1>6, Modifiers, R!SaveEffect DEF Save, R!CacheOK
  <2>3. replayed' \subseteq Parts
    BY <1>3, <1>6 DEF Save
  <2>4. QED
    BY <1>2, <1>3, <1>6, <2>1, <2>2, <2>3 DEF Save
<1>7. CASE OtherEvent \/ WatchForImages
  BY <1>7 DEF OtherEvent, WatchForImages, R!OtherEvent, R!Event, TypeOK, R!TypesOK, R!CacheOK,
              R!Passes, R!Idle
<1>8. CASE Sync
  BY <1>1, <1>2, <1>3, <1>8, R!SyncTypes DEF Sync
<1>9. CASE TagsExpire \/ ImagePushed
  <2>1. UNCHANGED <<top, view, pass, work>>
    BY <1>9 DEF TagsExpire, ImagePushed
  <2>2. R!TypesOK(Objects, Patches, Stages)' /\ R!CacheOK'
    BY <1>1, <2>1 DEF R!TypesOK, R!CacheOK, R!Passes, R!Idle
  <2>3. tags' \in [build : Versions \cup {NoVersion}, expired : BOOLEAN]
    BY <1>9 DEF TypeOK, TagsExpire, ImagePushed
  <2>4. newest' \in Versions \cup {NoVersion}
    BY <1>9, NotificationConstantsOK DEF TypeOK, TagsExpire, ImagePushed, Versions, NoVersion
  <2>5. QED
    BY <1>9, <2>2, <2>3, <2>4 DEF TypeOK, TagsExpire, ImagePushed
<1>10. CASE RolloutMoves \/ RolloutEnds
  <2>1. rollout' \in RolloutOutcomes
    BY <1>10, NotificationConstantsOK DEF RolloutMoves, RolloutEnds, RolloutOutcomes
  <2>2. failures' \in 0 .. MaxFailures
    BY <1>3, <1>10, NotificationConstantsOK DEF RolloutMoves, RolloutEnds, SomeCallFails
  <2>3. QED
    BY <1>10, <2>1, <2>2 DEF RolloutMoves, RolloutEnds, R!Event, TypeOK, R!TypesOK, R!CacheOK,
                             R!Passes, R!Idle
<1>11. CASE EditVersion
  <2>1. PICK c \in Parts, v \in Numbers : R!Write([top EXCEPT !.spec.version[c] = v])
    <3>1. \A c \in Parts : Choices(c) \cup {NoVersion} \subseteq Numbers
      BY NotificationConstantsOK DEF Choices, Numbers, Versions
    <3>2. QED
      BY <1>11, <3>1 DEF EditVersion
  <2>3. [top EXCEPT !.spec.version[c] = v] \in Objects
    BY <1>1 DEF R!TypesOK, Objects, Specs, Numbers
  <2>4. edits' \in 0 .. MaxEdits
    BY <1>3, <1>11, NotificationConstantsOK DEF EditVersion
  <2>5. R!TypesOK(Objects, Patches, Stages)' /\ R!CacheOK'
    BY <1>1, <1>11, <2>1, <2>3, R!WriteTypes DEF EditVersion, R!TypesOK
  <2>6. QED
    BY <1>2, <1>3, <1>11, <2>4, <2>5 DEF EditVersion
<1>12. CASE Crash
  <2>1. dup' \in Dups
    BY <1>12 DEF Crash, NewDups, Dups
  <2>2. failures' \in 0 .. MaxFailures
    BY <1>3, <1>12, NotificationConstantsOK DEF Crash, SomeCallFails
  <2>3. R!TypesOK(Objects, Patches, Stages)' /\ R!CacheOK'
    BY <1>1, <1>12, R!RestartTypes DEF Crash
  <2>4. QED
    BY <1>12, <2>1, <2>2, <2>3 DEF Crash, TypeOK
<1>13. CASE UNCHANGED vars
  BY <1>13 DEF vars, TypeOK, R!TypesOK, R!CacheOK, R!Passes, R!Idle
<1>14. QED
  BY <1>4, <1>5, <1>6, <1>7, <1>8, <1>9, <1>10, <1>11, <1>12, <1>13 DEF Next

\* TypeOK is an invariant, whatever the constants: every value a pass, the caches and
\* the records of SummonNotification ever hold is of its type.
THEOREM NotificationTypeCorrect == Spec => []TypeOK
<1>1. Init => TypeOK /\ R!CacheOK
  <2>1. Init => R!CacheOK
    BY DEF Init, R!Start, R!CacheOK
  <2>2. QED
    BY <2>1, InitType
<1>2. QED
  BY <1>1, NextType, PTL DEF Spec

-----------------------------------------------------------------------------
(* What is on record is not announced again.                                *)

\* This process has announced of a part what was announced last, or nothing.
AnnouncedByUs == \A c \in Parts : dup.done[c] \in {NoVersion, told[c]}

\* The record a pass begins with, and what it makes of it: nothing before it notifies,
\* then what this process has announced.
PassRecord ==
    pass # R!Idle =>
        /\ pass.current => pass.clean.status.notified = top.status.notified
        /\ pass.at \in Stages => pass.obj.status.notified = pass.clean.status.notified
        /\ \A c \in Parts : pass.obj.status.notified[c] \in
                              {pass.clean.status.notified[c], dup.done[c]}

\* An announcement is on record, and not by chance.
OnRecord(c) == top.status.notified[c] = told[c] /\ c \notin replayed

\* When another process made an announcement that is on record, no copy of the object
\* is so old that it does not show it.
RecordSeen ==
    \A c \in Parts : OnRecord(c) /\ dup.done[c] # told[c] =>
        /\ view.obj.status.notified[c] = told[c]
        /\ pass # R!Idle => pass.clean.status.notified[c] = told[c]

RecordInv == AnnouncedByUs /\ PassRecord /\ RecordSeen /\ NoRepeatOnceRecorded

\* What a component does to the record and to the announcements: nothing, ...
Silent ==
    /\ pass'.obj.status.notified = pass.obj.status.notified
    /\ UNCHANGED <<told, repeated>> /\ dup'.done = dup.done

\* ... or it announces some of the parts that are due, and when these are all the record
\* is what the Spec asks for.
Announcing ==
    \E parts \in SUBSET {c \in Parts : Due(c)} :
        /\ pass.at = "notification" /\ pass'.at = "save"
        /\ Announce(parts) /\ dup'.done = Announced(parts)
        /\ \/ pass'.obj.status.notified = pass.obj.status.notified
           \/ /\ parts = {c \in Parts : Due(c)}
              /\ pass'.obj.status.notified = pass.obj.spec.version

\* A Result without a note of the announcement leaves the record of the pass alone.
LEMMA ReturnsRecord ==
    ASSUME TypeOK, pass.at \in Stages, NEW stage \in Stages \cup {"save"}, NEW patch \in Patches,
           R!Return(stage, patch, FALSE, FALSE)
    PROVE  /\ pass' # R!Idle /\ pass'.current = pass.current /\ pass'.clean = pass.clean
           /\ pass'.at = stage
           /\ pass'.obj.status.notified = IF patch.notified THEN pass.obj.spec.version
                                          ELSE pass.obj.status.notified
<1>1. pass.obj \in Objects /\ pass \in R!Passes(Objects, Patches, Stages) /\ pass # R!Idle
  BY Running
<1>2. /\ pass'.obj = Apply(patch, pass.obj) /\ pass'.at = stage
      /\ pass'.current = pass.current /\ pass'.clean = pass.clean
  BY <1>1 DEF R!Return, R!Passes
<1>3. pass' # R!Idle
  BY <1>2 DEF R!Idle, Stages
<1>4. QED
  BY <1>1, <1>2, <1>3, ApplyType

\* So does an error.
LEMMA ErrorRecord ==
    ASSUME TypeOK, pass.at \in Stages, NEW message \in Messages,
           R!ReturnError(message, NoPatch, FALSE)
    PROVE  /\ pass' # R!Idle /\ pass'.current = pass.current /\ pass'.clean = pass.clean
           /\ pass'.at = "save"
           /\ pass'.obj.status.notified = pass.obj.status.notified
<1>1. pass.obj \in Objects /\ pass \in R!Passes(Objects, Patches, Stages) /\ pass # R!Idle
  BY Running
<1>2. /\ pass'.obj = Failed(Apply(NoPatch, pass.obj), message) /\ pass'.at = "save"
      /\ pass'.current = pass.current /\ pass'.clean = pass.clean
  BY <1>1 DEF R!ReturnError, R!Passes
<1>3. pass' # R!Idle
  BY <1>2 DEF R!Idle
<1>4. NoPatch \in Patches /\ ~NoPatch.notified
  BY DEF NoPatch, Patches
<1>5. QED
  BY <1>1, <1>2, <1>3, <1>4, ApplyType, FailedType

\* And so does a component that fails, and reports it or not.
LEMMA FailsRecord ==
    ASSUME TypeOK, pass.at \in Stages, NEW message \in Errors, ComponentFails(message)
    PROVE  /\ pass' # R!Idle /\ pass'.current = pass.current /\ pass'.clean = pass.clean
           /\ pass'.at = "save"
           /\ pass'.obj.status.notified = pass.obj.status.notified
BY ErrorRecord DEF ComponentFails, Messages

\* All that components do to what the record is about.
LEMMA ComponentsRecord ==
    ASSUME TypeOK, Components
    PROVE  /\ pass # R!Idle /\ pass.at \in Stages /\ pass' # R!Idle
           /\ pass'.current = pass.current /\ pass'.clean = pass.clean
           /\ UNCHANGED <<top, view, replayed>>
           /\ Silent \/ Announcing
<1> USE DEF cacheVars, historyVars, boundVars
<1>1. pass.at \in Stages
  BY DEF Components, DefaultsRefuse, AutoDeploy, Rollout, NotifySuccess, NotifyError,
         NotifyNothing, Stages
<1>2. pass # R!Idle /\ pass.obj \in Objects /\ pass \in R!Passes(Objects, Patches, Stages)
  BY <1>1, Running
<1>3. NoPatch \in Patches /\ ~NoPatch.notified
  BY DEF NoPatch, Patches
<1>4. {"refused", "registry", "post"} \subseteq Errors /\ Errors \subseteq Messages
  BY DEF Errors, Messages
<1>5. CASE DefaultsRefuse
  BY <1>1, <1>2, <1>4, <1>5, FailsRecord, FailsType DEF DefaultsRefuse, Silent
<1>6. CASE AutoDeploy
  <2>1. CASE R!Return("rollout", NoPatch, FALSE, FALSE) /\ UNCHANGED dup
    BY <1>1, <1>2, <1>3, <1>6, <2>1, ReturnsRecord DEF AutoDeploy, Silent, Stages
  <2>2. CASE /\ pass' = [pass EXCEPT !.at = "rollout", !.obj.spec.version["summon"] = Fetched]
             /\ UNCHANGED dup
    <3>1. /\ pass'.at = "rollout" /\ pass'.current = pass.current
          /\ pass'.clean = pass.clean /\ pass'.obj.status = pass.obj.status
      BY <1>2, <2>2 DEF R!Passes, Objects
    <3>2. pass' # R!Idle
      BY <3>1 DEF R!Idle
    <3>3. QED
      BY <1>1, <1>2, <1>6, <2>2, <3>1, <3>2 DEF AutoDeploy, Silent
  <2>3. CASE ComponentFails("registry")
    BY <1>1, <1>2, <1>4, <1>6, <2>3, FailsRecord, FailsType DEF AutoDeploy, Silent
  <2>4. CASE /\ R!ReturnError("registry", NoPatch, FALSE)
             /\ dup' \in {dup, [dup EXCEPT !.error[NoVersion] = "registry"]}
    <3>1. dup'.done = dup.done
      BY <2>4 DEF TypeOK, Dups
    <3>2. QED
      BY <1>1, <1>2, <1>4, <1>6, <2>4, <3>1, ErrorRecord DEF AutoDeploy, Silent
  <2>5. QED
    BY <1>6, <2>1, <2>2, <2>3, <2>4 DEF AutoDeploy
<1>7. CASE Rollout
  <2>1. CASE /\ rollout \in {"Deploying", "Ready"} /\ UNCHANGED dup
             /\ R!Return("notification", [NoPatch EXCEPT !.phase = rollout], FALSE, FALSE)
    <3>1. /\ [NoPatch EXCEPT !.phase = rollout] \in Patches
          /\ ~[NoPatch EXCEPT !.phase = rollout].notified
      BY <2>1 DEF NoPatch, Patches
    <3>2. QED
      BY <1>1, <1>2, <1>7, <2>1, <3>1, ReturnsRecord DEF Rollout, Silent, Stages
  <2>2. CASE R!Return("notification", NoPatch, FALSE, FALSE) /\ UNCHANGED dup
    BY <1>1, <1>2, <1>3, <1>7, <2>2, ReturnsRecord DEF Rollout, Silent, Stages
  <2>3. CASE rollout \in Errors /\ ComponentFails(rollout)
    BY <1>1, <1>2, <1>7, <2>3, FailsRecord, FailsType DEF Rollout, Silent
  <2>4. QED
    BY <1>7, <2>1, <2>2, <2>3 DEF Rollout
<1>8. CASE NotifySuccess
  <2>1. CASE /\ Announce({c \in Parts : Due(c)}) /\ SuiteStarted
             /\ R!Return("save", [NoPatch EXCEPT !.notified = TRUE], FALSE, FALSE)
    <3>1. /\ [NoPatch EXCEPT !.notified = TRUE] \in Patches
          /\ [NoPatch EXCEPT !.notified = TRUE].notified
      BY DEF NoPatch, Patches
    <3>2. dup'.done = Announced({c \in Parts : Due(c)})
      BY <2>1 DEF SuiteStarted, TypeOK, Dups
    <3>3. Announcing
      BY <1>1, <1>8, <2>1, <3>1, <3>2, ReturnsRecord DEF Announcing, NotifySuccess
    <3>4. QED
      BY <1>1, <1>2, <1>8, <2>1, <3>1, <3>3, ReturnsRecord, AnnounceType DEF NotifySuccess
  <2>2. ASSUME NEW missed \in SUBSET {c \in Parts : Due(c)},
               Announce({c \in Parts : Due(c)} \ missed),
               \E reported \in BOOLEAN :
                 dup' = [dup EXCEPT !.done = Announced({c \in Parts : Due(c)} \ missed),
                                    !.error[Wanted("summon")] =
                                       IF reported THEN "post" ELSE @],
               R!ReturnError("post", NoPatch, FALSE)
        PROVE  /\ pass' # R!Idle
               /\ pass'.current = pass.current /\ pass'.clean = pass.clean
               /\ UNCHANGED <<top, view, replayed>> /\ Announcing
    <3>1. dup'.done = Announced({c \in Parts : Due(c)} \ missed)
      BY <2>2 DEF TypeOK, Dups
    <3>2. Announcing
      BY <1>1, <1>4, <1>8, <2>2, <3>1, ErrorRecord DEF Announcing, NotifySuccess
    <3>3. QED
      BY <1>1, <1>4, <1>8, <2>2, <3>2, ErrorRecord, AnnounceType DEF NotifySuccess
  <2>3. QED
    BY <1>1, <1>2, <1>8, <2>1, <2>2 DEF NotifySuccess
<1>9. CASE NotifyError
  <2>1. CASE /\ ErrorHandled(pass.obj.status.message, Wanted("summon"))
             /\ R!Return("save", NoPatch, FALSE, FALSE)
    <3>1. dup'.done = dup.done
      BY <2>1 DEF ErrorHandled, TypeOK, Dups
    <3>2. QED
      BY <1>1, <1>2, <1>3, <1>9, <2>1, <3>1, ReturnsRecord DEF NotifyError, Silent
  <2>2. CASE /\ R!ReturnError("post", NoPatch, FALSE)
             /\ dup' \in {dup, [dup EXCEPT !.error[Wanted("summon")] = "post"]}
    <3>1. dup'.done = dup.done
      BY <2>2 DEF TypeOK, Dups
    <3>2. QED
      BY <1>1, <1>2, <1>4, <1>9, <2>2, <3>1, ErrorRecord DEF NotifyError, Silent
  <2>3. QED
    BY <1>9, <2>1, <2>2 DEF NotifyError
<1>10. CASE NotifyNothing
  BY <1>1, <1>2, <1>3, <1>10, ReturnsRecord DEF NotifyNothing, Silent
<1>11. QED
  BY <1>5, <1>6, <1>7, <1>8, <1>9, <1>10 DEF Components

\* Components keep the invariant: what is on record by another process is on record in
\* the copy of the pass, so that it is not due.
LEMMA ComponentsKeepRecord ==
    ASSUME TypeOK, RecordInv, Components
    PROVE  RecordInv'
<1>1. /\ pass # R!Idle /\ pass.at \in Stages /\ pass' # R!Idle
      /\ pass'.current = pass.current /\ pass'.clean = pass.clean
      /\ UNCHANGED <<top, view, replayed>>
  BY ComponentsRecord
<1>2. CASE Silent
  BY <1>1, <1>2 DEF Silent, RecordInv, AnnouncedByUs, PassRecord, RecordSeen, OnRecord,
                    NoRepeatOnceRecorded
<1>3. CASE Announcing
  <2>1. PICK parts \in SUBSET {c \in Parts : Due(c)} :
          /\ pass.at = "notification" /\ pass'.at = "save"
          /\ Announce(parts) /\ dup'.done = Announced(parts)
          /\ \/ pass'.obj.status.notified = pass.obj.status.notified
             \/ /\ parts = {c \in Parts : Due(c)}
                /\ pass'.obj.status.notified = pass.obj.spec.version
    BY <1>3 DEF Announcing
  <2>2. /\ \A c \in parts : told'[c] = Wanted(c) /\ dup'.done[c] = Wanted(c)
        /\ \A c \in Parts \ parts : told'[c] = told[c] /\ dup'.done[c] = dup.done[c]
    BY <2>1 DEF Announce, Announced
  <2>3. pass.obj.status.notified = pass.clean.status.notified
    BY <1>1 DEF RecordInv, PassRecord
  <2>4. AnnouncedByUs'
    BY <2>2 DEF RecordInv, AnnouncedByUs
  <2>5. PassRecord'
    <3>1. pass'.current => pass'.clean.status.notified = top'.status.notified
      BY <1>1 DEF RecordInv, PassRecord
    <3>2. ASSUME NEW c \in Parts
          PROVE  pass'.obj.status.notified[c] \in
                   {pass'.clean.status.notified[c], dup'.done[c]}
      <4>1. CASE pass'.obj.status.notified = pass.obj.status.notified
        BY <1>1, <2>3, <4>1
      <4>2. CASE parts = {d \in Parts : Due(d)} /\ pass'.obj.status.notified = pass.obj.spec.version
        BY <1>1, <2>2, <2>3, <4>2 DEF Due, Wanted
      <4>3. QED
        BY <2>1, <4>1, <4>2
    <3>3. pass'.at \notin Stages
      BY <2>1 DEF Stages
    <3>4. QED
      BY <3>1, <3>2, <3>3 DEF PassRecord
  <2>6. RecordSeen'
    BY <1>1, <2>2 DEF RecordInv, RecordSeen, OnRecord
  <2>7. NoRepeatOnceRecorded'
    <3>1. ASSUME NEW c \in parts \ replayed, told[c] = Wanted(c),
                 top.status.notified[c] = Wanted(c)
          PROVE  FALSE
      BY <1>1, <2>1, <2>3, <3>1 DEF Due, RecordInv, RecordSeen, OnRecord
    <3>2. QED
      BY <2>1, <3>1 DEF Announce, RecordInv, NoRepeatOnceRecorded
  <2>8. QED
    BY <2>4, <2>5, <2>6, <2>7 DEF RecordInv
<1>4. QED
  BY <1>2, <1>3, ComponentsRecord

\* A status is written by a pass that has seen no other write, or by a replay.
LEMMA SaveRecord ==
    ASSUME TypeOK, R!CacheOK, RecordInv, Save
    PROVE  /\ pass # R!Idle /\ view'.obj = view.obj
           /\ \/ pass' = R!Idle
              \/ /\ UNCHANGED <<top, view>> /\ pass'.at \notin Stages
                 /\ pass'.obj = pass.obj /\ pass'.clean = pass.clean
                 /\ pass'.current = pass.current
           /\ \/ top' = top
              \/ /\ pass.at = "save" /\ pass.current
                 /\ top'.status.notified = pass.obj.status.notified
              \/ pass.at = "replay"
<1>1. R!TypesOK(Objects, Patches, Stages)
  BY DEF TypeOK
<1>2. pass # R!Idle /\ view'.obj = view.obj
  BY <1>1, Modifiers, R!SaveEffect DEF Save
<1>3. \/ pass' = R!Idle
      \/ /\ UNCHANGED <<top, view>> /\ pass'.at \notin Stages
         /\ pass'.obj = pass.obj /\ pass'.clean = pass.clean
         /\ pass'.current = pass.current
  <2>1. pass \in R!Passes(Objects, Patches, Stages)
    BY <1>1 DEF R!TypesOK
  <2>2. QED
    BY <1>2, <2>1 DEF Save, R!Save, R!SaveNothing, R!SaveFast, R!SaveConflict, R!Replay,
                      R!ReplayConflict, R!ReplayGiveUp, R!Leave, R!Passes, Stages
<1>4. \/ top' = top
      \/ /\ pass.at = "save" /\ pass.current
         /\ top'.status.notified = pass.obj.status.notified
      \/ pass.at = "replay"
  BY <1>1 DEF Save, R!Save, R!SaveNothing, R!SaveFast, R!SaveConflict, R!Replay,
              R!ReplayConflict, R!ReplayGiveUp, R!TypesOK, Objects
<1>5. QED
  BY <1>2, <1>3, <1>4

\* Writing the status keeps the invariant: a record that another process's announcement
\* gets now is a replay's.
LEMMA SaveKeepsRecord ==
    ASSUME TypeOK, R!CacheOK, RecordInv, Save
    PROVE  RecordInv'
<1> DEFINE changed == {c \in Parts : top'.status.notified[c] # top.status.notified[c]}
<1>1. UNCHANGED <<dup, told, repeated>>
  BY DEF Save
<1>2. AnnouncedByUs' /\ NoRepeatOnceRecorded'
  BY <1>1 DEF RecordInv, AnnouncedByUs, NoRepeatOnceRecorded
<1>3. PassRecord'
  BY <1>1, SaveRecord DEF RecordInv, PassRecord
<1>4. ASSUME NEW c \in Parts, OnRecord(c)', dup'.done[c] # told'[c]
      PROVE  OnRecord(c) /\ dup.done[c] # told[c]
  <2>1. c \notin replayed'
    BY <1>4 DEF OnRecord
  <2>2. CASE c \notin changed
    <3>1. c \notin replayed
      BY <2>1, <2>2 DEF Save
    <3>2. QED
      BY <1>1, <1>4, <2>2, <3>1 DEF OnRecord
  <2>3. CASE c \in changed
    <3>1. pass.at # "replay"
      BY <2>1, <2>3 DEF Save
    <3>2. /\ pass.current /\ pass # R!Idle
          /\ top'.status.notified = pass.obj.status.notified
      BY <2>3, <3>1, SaveRecord
    <3>3. pass.obj.status.notified[c] \in {top.status.notified[c], dup.done[c]}
      BY <3>2 DEF RecordInv, PassRecord
    <3>4. QED
      BY <1>1, <1>4, <2>3, <3>2, <3>3 DEF OnRecord
  <2>4. QED
    BY <2>2, <2>3
<1>5. RecordSeen'
  BY <1>1, <1>4, SaveRecord DEF RecordInv, RecordSeen
<1>6. QED
  BY <1>2, <1>3, <1>5 DEF RecordInv

\* The invariant of the record is kept by every step.
LEMMA RecordStep ==
    TypeOK /\ R!CacheOK /\ RecordInv /\ [Next]_vars => RecordInv'
<1> SUFFICES ASSUME TypeOK, R!CacheOK, RecordInv, [Next]_vars PROVE RecordInv'
  OBVIOUS
<1> USE DEF cacheVars, historyVars, boundVars
<1>1. CASE Begin
  <2>1. /\ UNCHANGED <<top, view, dup, told, replayed, repeated>>
        /\ pass' = R!Idle \/ pass' = R!Fresh("version")
    BY <1>1 DEF Begin, R!Begin
  <2>2. PassRecord'
    <3>1. CASE pass' = R!Idle
      BY <3>1 DEF PassRecord
    <3>2. CASE pass' = R!Fresh("version")
      BY <2>1, <3>2 DEF R!Fresh, PassRecord, R!CacheOK
    <3>3. QED
      BY <2>1, <3>1, <3>2
  <2>3. RecordSeen'
    <3>1. CASE pass' = R!Idle
      BY <2>1, <3>1 DEF RecordInv, RecordSeen, OnRecord
    <3>2. CASE pass' = R!Fresh("version")
      BY <2>1, <3>2 DEF R!Fresh, RecordInv, RecordSeen, OnRecord
    <3>3. QED
      BY <2>1, <3>1, <3>2
  <2>4. QED
    BY <2>1, <2>2, <2>3 DEF RecordInv, AnnouncedByUs, NoRepeatOnceRecorded
<1>2. CASE Components
  BY <1>2, ComponentsKeepRecord
<1>3. CASE Save
  BY <1>3, SaveKeepsRecord
<1>4. CASE Sync
  <2>1. view'.obj = top /\ UNCHANGED <<top, pass, dup, told, replayed, repeated>>
    BY <1>4 DEF Sync, R!Sync
  <2>2. QED
    BY <2>1 DEF RecordInv, AnnouncedByUs, PassRecord, RecordSeen, OnRecord,
                NoRepeatOnceRecorded
<1>5. CASE \/ OtherEvent \/ TagsExpire \/ WatchForImages \/ ImagePushed \/ RolloutMoves
           \/ RolloutEnds \/ UNCHANGED vars
  <2>1. UNCHANGED <<top, view, pass, dup, told, replayed, repeated>>
    BY <1>5 DEF OtherEvent, R!OtherEvent, TagsExpire, WatchForImages, ImagePushed,
                RolloutMoves, RolloutEnds, vars
  <2>2. QED
    BY <2>1 DEF RecordInv, AnnouncedByUs, PassRecord, RecordSeen, OnRecord,
                NoRepeatOnceRecorded
<1>6. CASE EditVersion
  <2>1. /\ top'.status = top.status /\ view'.obj = view.obj
        /\ UNCHANGED <<dup, told, replayed, repeated>>
        /\ \/ pass = R!Idle /\ pass' = pass
           \/ /\ pass # R!Idle /\ pass' # R!Idle /\ ~pass'.current /\ pass'.at = pass.at
              /\ pass'.obj = pass.obj /\ pass'.clean = pass.clean
    <3>1. PICK c \in Parts : \E v : R!Write([top EXCEPT !.spec.version[c] = v])
      BY <1>6 DEF EditVersion
    <3>2. top'.status = top.status /\ view'.obj = view.obj
      BY <3>1 DEF R!Write, TypeOK, R!TypesOK, Objects
    <3>3. \/ pass = R!Idle /\ pass' = pass
          \/ /\ pass # R!Idle /\ pass' # R!Idle /\ ~pass'.current /\ pass'.at = pass.at
             /\ pass'.obj = pass.obj /\ pass'.clean = pass.clean
      <4>1. CASE pass = R!Idle
        BY <3>1, <4>1 DEF R!Write, R!Idle
      <4>2. CASE pass # R!Idle
        <5>1. pass.at # "idle" \/ pass.at = "idle"
          OBVIOUS
        <5>2. QED
          BY <3>1, <4>2 DEF R!Write, R!Idle, TypeOK, R!TypesOK, R!Passes, Stages
      <4>3. QED
        BY <4>1, <4>2
    <3>4. QED
      BY <1>6, <3>2, <3>3 DEF EditVersion
  <2>2. QED
    BY <2>1 DEF RecordInv, AnnouncedByUs, PassRecord, RecordSeen, OnRecord,
                NoRepeatOnceRecorded
<1>7. CASE Crash
  <2>1. /\ pass' = R!Idle /\ view'.obj = top /\ UNCHANGED <<top, told, replayed, repeated>>
        /\ \A c \in Parts : dup'.done[c] = NoVersion
    BY <1>7 DEF Crash, R!Restart, NewDups
  <2>2. QED
    BY <2>1 DEF RecordInv, AnnouncedByUs, PassRecord, RecordSeen, OnRecord,
                NoRepeatOnceRecorded
<1>8. QED
  BY <1>1, <1>2, <1>3, <1>4, <1>5, <1>6, <1>7 DEF Next

\* Nothing is on record at first.
LEMMA RecordInit == Init => RecordInv
<1> SUFFICES ASSUME Init PROVE RecordInv
  OBVIOUS
<1>1. \A c \in Parts : dup.done[c] = NoVersion /\ told[c] = NoVersion
  BY DEF Init, NewDups
<1>2. pass = R!Idle
  BY DEF Init, R!Start
<1>3. QED
  BY <1>1, <1>2
     DEF Init, RecordInv, AnnouncedByUs, PassRecord, RecordSeen, NoRepeatOnceRecorded

\* So the invariant holds of every reachable state.
LEMMA RecordInvariant == Spec => [](TypeOK /\ R!CacheOK /\ RecordInv)
<1>1. Init => TypeOK /\ R!CacheOK /\ RecordInv
  <2>1. Init => R!CacheOK
    BY DEF Init, R!Start, R!CacheOK
  <2>2. QED
    BY <2>1, InitType, RecordInit
<1>2. QED
  BY <1>1, NextType, RecordStep, PTL DEF Spec

\* An announcement that is on record is not made again, by however many passes, edits,
\* conflicts and restarts; unless the record is a replay's.
THEOREM NoRepeatCorrect == Spec => []NoRepeatOnceRecorded
BY RecordInvariant, PTL DEF RecordInv

\* What a pass writes into the record without a replay was there before, or was the last
\* version announced, or is none.
THEOREM HonestCorrect == Spec => HonestWithoutConflict
<1>1. ASSUME TypeOK, R!CacheOK, RecordInv, [Next]_vars
      PROVE  [pass.at # "replay" => \A c \in Parts : RecordsAnnouncement(c)]_top
  <2>1. SUFFICES ASSUME top' # top, pass.at # "replay", NEW c \in Parts
                 PROVE  RecordsAnnouncement(c)
    OBVIOUS
  <2>2. CASE Save
    <3>1. /\ pass.current /\ pass # R!Idle
          /\ top'.status.notified = pass.obj.status.notified
      BY <1>1, <2>1, <2>2, SaveRecord
    <3>2. QED
      BY <1>1, <3>1 DEF RecordInv, PassRecord, AnnouncedByUs, RecordsAnnouncement
  <2>3. CASE EditVersion
    <3>1. PICK d \in Parts : \E v : R!Write([top EXCEPT !.spec.version[d] = v])
      BY <2>3 DEF EditVersion
    <3>2. top'.status = top.status
      BY <1>1, <3>1 DEF R!Write, TypeOK, R!TypesOK, Objects
    <3>3. QED
      BY <3>2 DEF RecordsAnnouncement
  <2>4. CASE ~Save /\ ~EditVersion
    BY <1>1, <2>1, <2>4 DEF Next, Begin, R!Begin, Components, DefaultsRefuse, AutoDeploy,
       Rollout, NotifySuccess, NotifyError, NotifyNothing, Sync, R!Sync, OtherEvent,
       R!OtherEvent, TagsExpire, WatchForImages, ImagePushed, RolloutMoves, RolloutEnds,
       Crash, R!Restart, vars
  <2>5. QED
    BY <2>2, <2>3, <2>4
<1>2. QED
  BY <1>1, RecordInvariant, PTL DEF Spec, HonestWithoutConflict

-----------------------------------------------------------------------------
(* PlatformSecrets: what the variables range over, and the components.     *)

\* What the variables range over.
PlatformStages ==
    {"defaults", "postgres", "user", "vhost", "key", "newkey", "tenant", "secrets", "app",
     "saml", "dispatch", "newrelic", "config", "migrations", "superuser", "deploy", "budget",
     "autoscaler", "celerybeat", "redbeat", "status"}

Options == {"REQUIRE_HTTPS", "DEBUG", "DISPATCH_ENABLED", "ENABLE_NEW_RELIC"}
AppSecrets == [P!Sources -> P!Values]
ChildStates ==
    [postgres : P!ChildStatus \cup {"absent"}, rabbit : P!ChildStatus \cup {"absent"},
     user : BOOLEAN, tenant : {"absent", "live", "deleting"}, admin : BOOLEAN]
SecretMaps ==
    [input : P!Values \cup {P!Bad}, key : P!Values, postgres : P!Values, rabbit : P!Values,
     aws : P!Values, tenant : P!Values, app : AppSecrets, saml : P!Values,
     dispatch : [postgres : P!Values, input : P!Values], newrelic : BOOLEAN,
     config : SUBSET Options]
PodTemplates == [app : AppSecrets, config : SUBSET Options, dispatch : 0 .. 2]
Surroundings ==
    [schedulers : SUBSET {"celerybeat", "redbeat"}, autoscaler : BOOLEAN, scaled : BOOLEAN,
     budget : {"absent", "goal", "other"}]

\* What PlatformSecrets asks of its constants.
Bounds == P!PlatformConstantsOK

PassesOK == K!TypesOK(P!Objects, P!Patches, PlatformStages)

\* Every variable in its range, and the cache honest: what TypeOK says and what a step
\* needs besides, such as that the secrets made of the input are never made of a bad one.
PlatformInv ==
    /\ env \in Environments
    /\ PassesOK /\ K!CacheOK
    /\ children \in ChildStates
    /\ stored \in SecretMaps /\ cached \in SecretMaps /\ made \in AppSecrets
    /\ deployed \in PodTemplates /\ around \in Surroundings
    /\ disturbances \in 0 .. MaxDisturbances

\* There is always a platform.
LEMMA PlatformAbsent == \A o \in P!Objects : o # P!Absent
<1> SUFFICES ASSUME NEW o \in P!Objects, o = P!Absent PROVE FALSE
  OBVIOUS
<1>1. DOMAIN o = {"spec", "status"}
  BY DEF P!Objects
<1>2. DOMAIN o = {"gone"}
  BY DEF P!Absent
<1>3. QED
  BY <1>1, <1>2

\* The modifiers of PlatformSecrets are what the lemmas of the reconciler ask for.
LEMMA PlatformModifiers == K!ModifiersOK(P!Objects, P!Patches, P!Messages)
<1>1. MaxTries \in Nat \ {0}
  BY NotificationConstantsOK
<1>2. P!NoPatch \in P!Patches /\ \A p, q \in P!Patches : P!Then(p, q) \in P!Patches
  BY DEF P!NoPatch, P!Patches, P!Then, P!Or
<1>3. \A o, s \in P!Objects : [o EXCEPT !.status = s.status] \in P!Objects
  BY DEF P!Objects
<1>4. ASSUME NEW p \in P!Patches, NEW o \in P!Objects PROVE P!Apply(p, o) \in P!Objects
  <2>1. /\ P!Or(p.phase, o.status.phase) \in P!Phases \cup {"", "Error"}
        /\ P!Or(p.postgres, o.status.postgres) \in P!ChildStatus
        /\ P!Or(p.rabbit, o.status.rabbit) \in P!ChildStatus
    BY DEF P!Or, P!Patches, P!Objects
  <2>2. (IF p.phase = "keep" THEN o.status.message ELSE "") \in P!Messages
    BY DEF P!Objects, P!Messages
  <2>3. QED
    BY <2>1, <2>2 DEF P!Apply, P!Objects
<1>5. ASSUME NEW m \in P!Messages, NEW o \in P!Objects PROVE P!Failed(o, m) \in P!Objects
  BY DEF P!Failed, P!Objects
<1>6. QED
  BY <1>1, <1>2, <1>3, <1>4, <1>5, PlatformAbsent DEF K!ModifiersOK

\* A component ends with a result, one of these stages next, or with an error; calls that
\* fail are counted.
Goes(stages) ==
    /\ \E stage \in stages, patch \in P!Patches, requeue \in BOOLEAN :
         \/ K!Return(stage, patch, requeue, FALSE)
         \/ \E message \in P!Messages : K!ReturnError(message, patch, requeue)
    /\ disturbances' \in 0 .. MaxDisturbances

\* A result without more.
LEMMA GoOnGoes ==
    ASSUME PlatformInv, NEW stages, NEW stage \in stages, NEW patch \in P!Patches,
           P!GoOn(stage, patch)
    PROVE  Goes(stages)
<1>1. K!Return(stage, patch, FALSE, FALSE) /\ disturbances' = disturbances
  BY DEF P!GoOn, P!R!Return, K!Return
<1>2. QED
  BY <1>1 DEF Goes, PlatformInv

\* An error of the component's own.
LEMMA FailGoes ==
    ASSUME PlatformInv, NEW stages, NEW stage \in stages, NEW message \in P!Messages,
           NEW requeue \in BOOLEAN, P!Fail(message, requeue)
    PROVE  Goes(stages)
<1>1. K!ReturnError(message, P!NoPatch, requeue) /\ disturbances' = disturbances
  BY DEF P!Fail, P!R!ReturnError, K!ReturnError
<1>2. P!NoPatch \in P!Patches
  BY DEF P!NoPatch, P!Patches
<1>3. QED
  BY <1>1, <1>2 DEF Goes, PlatformInv

\* A call to the API server that fails.
LEMMA CallFailsGoes ==
    ASSUME Bounds, PlatformInv, NEW stages, NEW stage \in stages,
           NEW patch \in P!Patches, NEW requeue \in BOOLEAN, P!CallFails(patch, requeue)
    PROVE  Goes(stages)
<1>1. K!ReturnError("call", patch, requeue)
  BY DEF P!CallFails, P!R!ReturnError, K!ReturnError
<1>2. disturbances' \in 0 .. MaxDisturbances
  <2>1. MaxDisturbances \in Nat
    BY DEF Bounds, P!PlatformConstantsOK
  <2>2. disturbances < MaxDisturbances /\ disturbances' = disturbances + 1
    BY DEF P!CallFails, P!Disturb
  <2>3. disturbances \in 0 .. MaxDisturbances
    BY DEF PlatformInv
  <2>4. QED
    BY <2>1, <2>2, <2>3
<1>3. "call" \in P!Messages
  BY DEF P!Messages
<1>4. QED
  BY <1>1, <1>2, <1>3 DEF Goes

\* What a component returns leaves a pass of its type.
LEMMA PlatformReturns ==
    ASSUME NEW stage \in PlatformStages \cup {"save"},
           NEW patch \in P!Patches, NEW requeue \in BOOLEAN,
           pass \in K!Passes(P!Objects, P!Patches, PlatformStages), pass # K!Idle,
           K!Return(stage, patch, requeue, FALSE)
    PROVE  pass' \in K!Passes(P!Objects, P!Patches, PlatformStages)
<1>1. FALSE \in BOOLEAN
  OBVIOUS
<1>2. QED
  BY <1>1, PlatformModifiers, K!ReturnTypes

\* So does an error.
LEMMA PlatformErrors ==
    ASSUME NEW message \in P!Messages,
           NEW patch \in P!Patches, NEW requeue \in BOOLEAN,
           pass \in K!Passes(P!Objects, P!Patches, PlatformStages), pass # K!Idle,
           K!ReturnError(message, patch, requeue)
    PROVE  pass' \in K!Passes(P!Objects, P!Patches, PlatformStages)
BY PlatformModifiers, K!ErrorTypes

\* Wherever a component goes, the pass keeps its type and is at a stage it could go to.
LEMMA GoesPass ==
    ASSUME PlatformInv, pass.at \in PlatformStages,
           NEW stages \in SUBSET (PlatformStages \cup {"save"}), Goes(stages)
    PROVE  /\ pass' \in K!Passes(P!Objects, P!Patches, PlatformStages)
           /\ pass'.at \in stages \cup {"save"}
           /\ disturbances' \in 0 .. MaxDisturbances
<1>1. pass \in K!Passes(P!Objects, P!Patches, PlatformStages) /\ pass # K!Idle
  <2>1. pass \in K!Passes(P!Objects, P!Patches, PlatformStages)
    BY DEF PlatformInv, PassesOK, K!TypesOK
  <2>2. pass # K!Idle
    <3>1. K!Idle.at = "idle"
      BY DEF K!Idle
    <3>2. "idle" \notin PlatformStages
      BY DEF PlatformStages
    <3>3. QED
      BY <3>1, <3>2
  <2>3. QED
    BY <2>1, <2>2
<1>3. PICK stage \in stages, patch \in P!Patches, requeue \in BOOLEAN :
        \/ K!Return(stage, patch, requeue, FALSE)
        \/ \E message \in P!Messages : K!ReturnError(message, patch, requeue)
  BY DEF Goes
<1>2. stage \in PlatformStages \cup {"save"}
  OBVIOUS
<1>4. CASE K!Return(stage, patch, requeue, FALSE)
  <2>1. pass' \in K!Passes(P!Objects, P!Patches, PlatformStages)
    BY <1>1, <1>2, <1>4, PlatformReturns
  <2>2. pass'.at = stage
    BY <1>1, <1>4 DEF K!Return, K!Passes
  <2>3. QED
    BY <2>1, <2>2 DEF Goes
<1>5. ASSUME NEW message \in P!Messages, K!ReturnError(message, patch, requeue)
      PROVE  /\ pass' \in K!Passes(P!Objects, P!Patches, PlatformStages)
             /\ pass'.at = "save"
  <2>1. pass' \in K!Passes(P!Objects, P!Patches, PlatformStages)
    BY <1>1, <1>5, PlatformErrors
  <2>2. pass'.at = "save"
    BY <1>1, <1>5 DEF K!ReturnError, K!Passes
  <2>3. QED
    BY <2>1, <2>2
<1>6. QED
  BY <1>3, <1>4, <1>5 DEF Goes

\* The next stage is one of those asked about: the last of them is always reconcilable,
\* so that there is a first.
LEMMA PlatformNext ==
    /\ P!ToVhost \in {"user", "vhost"} /\ P!ToSecrets \in {"secrets", "newrelic"}
    /\ P!ToMigrations \in {"migrations", "superuser", "budget"}
    /\ P!ToRollout \in {"superuser", "budget"}
    /\ P!ToSchedulers \in {"celerybeat", "status"}
<1>1. /\ P!Gates["vhost"] /\ P!Gates["newrelic"] /\ P!Gates["budget"] /\ P!Gates["status"]
  BY DEF P!Gates
<1>2. ASSUME NEW a, NEW b, P!Gates[b] PROVE P!NextOf(<<a, b>>) \in {a, b}
  <2>1. \E i \in {1, 2} : /\ P!Gates[<<a, b>>[i]]
                         /\ \A j \in 1 .. i - 1 : ~P!Gates[<<a, b>>[j]]
    <3>1. CASE P!Gates[a]
      BY <3>1
    <3>2. CASE ~P!Gates[a]
      BY <1>2, <3>2
    <3>3. QED
      BY <3>1, <3>2
  <2>2. DOMAIN <<a, b>> = {1, 2}
    OBVIOUS
  <2>3. QED
    BY <2>1, <2>2 DEF P!NextOf
<1>3. ASSUME NEW a, NEW b, NEW c, P!Gates[c] PROVE P!NextOf(<<a, b, c>>) \in {a, b, c}
  <2>1. \E i \in {1, 2, 3} : /\ P!Gates[<<a, b, c>>[i]]
                            /\ \A j \in 1 .. i - 1 : ~P!Gates[<<a, b, c>>[j]]
    <3>1. CASE P!Gates[a]
      BY <3>1
    <3>2. CASE ~P!Gates[a] /\ P!Gates[b]
      BY <3>2
    <3>3. CASE ~P!Gates[a] /\ ~P!Gates[b]
      BY <1>3, <3>3
    <3>4. QED
      BY <3>1, <3>2, <3>3
  <2>2. DOMAIN <<a, b, c>> = {1, 2, 3}
    OBVIOUS
  <2>3. QED
    BY <2>1, <2>2 DEF P!NextOf
<1>4. QED
  BY <1>1, <1>2, <1>3 DEF P!ToVhost, P!ToSecrets, P!ToMigrations, P!ToRollout, P!ToSchedulers

\* The modifiers and messages the components use.
LEMMA PlatformPatches ==
    /\ P!NoPatch \in P!Patches
    /\ \A phase \in P!Phases : [P!NoPatch EXCEPT !.phase = phase] \in P!Patches
    /\ "Deploying" \in P!Phases /\ "Ready" \in P!Phases /\ "Initializing" \in P!Phases
    /\ {"call", "invalid", "conflict", "child", "input", "derived", "keys", "app secrets"}
         \subseteq P!Messages
BY DEF P!NoPatch, P!Patches, P!Phases, P!Messages

\* Among four values one is new, whichever two are in use.
LEMMA UnusedValue ==
    ASSUME NEW a, NEW b
    PROVE  /\ P!Unused({a, b}) \in P!Values \ {0, a, b}
           /\ P!Unused({a}) \in P!Values \ {0, a}
<1>1. ASSUME NEW used, \E v \in P!Values : v \notin {0} \cup used
      PROVE  P!Unused(used) \in P!Values \ ({0} \cup used)
  <2>1. \E v \in P!Values \ ({0} \cup used) :
          \A w \in P!Values \ ({0} \cup used) : v <= w
    <3>1. P!Values = {0, 1, 2, 3}
      BY DEF P!Values
    <3>2. CASE 1 \notin used
      BY <3>1, <3>2
    <3>3. CASE 1 \in used /\ 2 \notin used
      BY <3>1, <3>3
    <3>4. CASE 1 \in used /\ 2 \in used
      BY <1>1, <3>1, <3>4
    <3>5. QED
      BY <3>2, <3>3, <3>4
  <2>2. QED
    BY <2>1 DEF P!Unused
<1>2. \E v \in P!Values : v \notin {0, a, b}
  <2>1. 1 \in P!Values /\ 2 \in P!Values /\ 3 \in P!Values
    BY DEF P!Values
  <2>2. QED
    BY <2>1
<1>3. \E v \in P!Values : v \notin {0} \cup {a, b}
  BY <1>2
<1>4. \E v \in P!Values : v \notin {0} \cup {a}
  BY <1>2
<1>5. P!Unused({a, b}) \in P!Values \ ({0} \cup {a, b})
  BY <1>1, <1>3
<1>6. P!Unused({a}) \in P!Values \ ({0} \cup {a})
  BY <1>1, <1>4
<1>7. QED
  BY <1>5, <1>6

\* What a component leaves behind, whichever of the stages comes next.
Leaves(stages) ==
    /\ Goes(stages)
    /\ children' \in ChildStates /\ stored' \in SecretMaps /\ made' \in AppSecrets
    /\ deployed' \in PodTemplates /\ around' \in Surroundings

\* Neither the key nor the app secrets change.
SameKey == stored'.key = stored.key /\ stored'.app = stored.app

\* A component that leaves everything in its range keeps the invariant, and the pass goes
\* to one of its stages or to the write of the status.
LEMMA ComponentKeeps ==
    ASSUME PlatformInv, pass.at \in PlatformStages,
           NEW stages \in SUBSET (PlatformStages \cup {"save"}), Leaves(stages),
           UNCHANGED <<env, cached, work, top, view>>
    PROVE  PlatformInv' /\ pass'.at \in stages \cup {"save"}
<1>1. /\ pass' \in K!Passes(P!Objects, P!Patches, PlatformStages)
      /\ pass'.at \in stages \cup {"save"} /\ disturbances' \in 0 .. MaxDisturbances
  BY GoesPass DEF Leaves
<1>2. PassesOK' /\ K!CacheOK'
  BY <1>1 DEF PlatformInv, PassesOK, K!TypesOK, K!CacheOK
<1>3. QED
  BY <1>1, <1>2 DEF PlatformInv, Leaves

\* What a component finds.
LEMMA PlatformRunning ==
    ASSUME PlatformInv, pass.at \in PlatformStages
    PROVE  pass.obj \in P!Objects /\ pass.clean \in P!Objects
<1>1. pass \in K!Passes(P!Objects, P!Patches, PlatformStages)
  BY DEF PlatformInv, PassesOK, K!TypesOK
<1>2. pass # K!Idle
  <2>1. K!Idle.at = "idle"
    BY DEF K!Idle
  <2>2. "idle" \notin PlatformStages
    BY DEF PlatformStages
  <2>3. QED
    BY <2>1, <2>2
<1>3. QED
  BY <1>1, <1>2 DEF K!Passes

\* The names of the secrets and of the ConfigMap.
SecretNames == {"input", "key", "postgres", "rabbit", "aws", "tenant", "app", "saml",
                "dispatch", "newrelic", "config"}

\* CreateOrUpdate of one secret: whether it is written, found equal, refused as stale or
\* fails, nothing but this secret changes.
LEMMA PutGoes ==
    ASSUME Bounds, PlatformInv, NEW stages, NEW stage \in stages, NEW n, NEW content,
           NEW requeue \in BOOLEAN, [stored EXCEPT ![n] = content] \in SecretMaps,
           P!Put(n, content, stage, requeue)
    PROVE  /\ Goes(stages) /\ stored' \in SecretMaps
           /\ stored' = stored \/ stored' = [stored EXCEPT ![n] = content]
<1>1. P!NoPatch \in P!Patches /\ "conflict" \in P!Messages
  BY PlatformPatches
<1>2. CASE P!GoOn(stage, P!NoPatch) /\ UNCHANGED stored
  BY <1>1, <1>2, GoOnGoes DEF PlatformInv
<1>3. CASE P!GoOn(stage, P!NoPatch) /\ stored' = [stored EXCEPT ![n] = content]
  BY <1>1, <1>3, GoOnGoes DEF PlatformInv
<1>4. CASE P!Fail("conflict", requeue) /\ UNCHANGED stored
  BY <1>1, <1>4, FailGoes DEF PlatformInv
<1>5. CASE P!CallFails(P!NoPatch, requeue) /\ UNCHANGED stored
  BY <1>1, <1>5, CallFailsGoes DEF PlatformInv
<1>6. QED
  BY <1>2, <1>3, <1>4, <1>5 DEF P!Put

\* The components one after another: the stages each can go to, that what it leaves is in
\* its range, and what it does to the key.
LEMMA DefaultsLeaves ==
    ASSUME Bounds, PlatformInv, P!Defaults
    PROVE  Leaves({"postgres"}) /\ SameKey
<1>1. CASE P!GoOn("postgres", P!NoPatch)
  BY <1>1, PlatformPatches, GoOnGoes DEF P!Defaults, Leaves, SameKey, PlatformInv
<1>2. CASE P!Fail("invalid", FALSE)
  BY <1>2, PlatformPatches, FailGoes DEF P!Defaults, Leaves, SameKey, PlatformInv
<1>3. QED
  BY <1>1, <1>2 DEF P!Defaults

\* Asking for an object with a status: the copied status is one there is.
LEMMA AskGoes ==
    ASSUME Bounds, PlatformInv, NEW stages, NEW stage \in stages,
           NEW child \in {"postgres", "rabbit"}, P!Ask(child, stage)
    PROVE  Goes(stages) /\ children' \in ChildStates
<1> DEFINE status == IF children[child] = "absent" THEN "" ELSE children[child]
           patch  == [P!NoPatch EXCEPT ![child] = status,
                                       !.phase = IF status = "" THEN "keep" ELSE "Initializing"]
<1>1. status \in P!ChildStatus /\ [children EXCEPT ![child] = status] \in ChildStates
  <2>1. children[child] \in P!ChildStatus \cup {"absent"} /\ "" \in P!ChildStatus
    BY DEF PlatformInv, ChildStates, P!ChildStatus
  <2>2. status \in P!ChildStatus
    BY <2>1
  <2>3. QED
    BY <2>2 DEF PlatformInv, ChildStates
<1>2. patch \in P!Patches
  BY <1>1 DEF P!NoPatch, P!Patches, P!Phases
<1>3. P!NoPatch \in P!Patches /\ "child" \in P!Messages
  BY PlatformPatches
<1>4. \/ P!GoOn(stage, patch) /\ children' = [children EXCEPT ![child] = status]
      \/ P!Fail("child", FALSE) /\ UNCHANGED children
      \/ P!CallFails(P!NoPatch, TRUE) /\ UNCHANGED children
      \/ P!CallFails(patch, TRUE) /\ UNCHANGED children
  BY DEF P!Ask
<1>5. children' \in ChildStates
  BY <1>1, <1>4 DEF PlatformInv
<1> HIDE DEF status, patch
<1>6. Goes(stages)
  <2>1. CASE P!GoOn(stage, patch)
    BY <1>2, <2>1, GoOnGoes
  <2>2. CASE P!Fail("child", FALSE)
    BY <1>3, <2>2, FailGoes
  <2>3. CASE P!CallFails(P!NoPatch, TRUE)
    BY <1>3, <2>3, CallFailsGoes
  <2>4. CASE P!CallFails(patch, TRUE)
    BY <1>2, <2>4, CallFailsGoes
  <2>5. QED
    BY <1>4, <2>1, <2>2, <2>3, <2>4
<1>7. QED
  BY <1>5, <1>6

\* The database: the IAM user or the vhost is next.
LEMMA PostgresLeaves ==
    ASSUME Bounds, PlatformInv, P!Postgres
    PROVE  Leaves({"user", "vhost"}) /\ SameKey
<1>1. Goes({"user", "vhost"}) /\ children' \in ChildStates
  BY PlatformNext, AskGoes DEF P!Postgres
<1>2. QED
  BY <1>1 DEF P!Postgres, Leaves, SameKey, PlatformInv

\* The vhost: the key is next.
LEMMA VhostLeaves ==
    ASSUME Bounds, PlatformInv, P!Vhost
    PROVE  Leaves({"key"}) /\ SameKey
<1>1. Goes({"key"}) /\ children' \in ChildStates
  BY AskGoes DEF P!Vhost
<1>2. QED
  BY <1>1 DEF P!Vhost, Leaves, SameKey, PlatformInv

\* The IAM user: the vhost is next.
LEMMA IAMUserLeaves ==
    ASSUME Bounds, PlatformInv, P!IAMUser
    PROVE  Leaves({"vhost"}) /\ SameKey
<1>1. Goes({"vhost"})
  <2>1. CASE P!GoOn("vhost", P!NoPatch)
    BY <2>1, PlatformPatches, GoOnGoes
  <2>2. CASE P!CallFails(P!NoPatch, TRUE)
    BY <2>2, PlatformPatches, CallFailsGoes
  <2>3. QED
    BY <2>1, <2>2 DEF P!IAMUser
<1>2. children' \in ChildStates
  BY DEF P!IAMUser, PlatformInv, ChildStates
<1>3. QED
  BY <1>1, <1>2 DEF P!IAMUser, Leaves, SameKey, PlatformInv

\* The tenant: the app secrets are next, or, while there is no database, New Relic.
LEMMA TenantLeaves ==
    ASSUME Bounds, PlatformInv, P!Tenant
    PROVE  Leaves({"secrets", "newrelic"}) /\ SameKey
<1>1. Goes({"secrets", "newrelic"})
  <2>1. CASE P!GoOn(P!ToSecrets, P!NoPatch)
    BY <2>1, PlatformPatches, PlatformNext, GoOnGoes
  <2>2. CASE P!CallFails(P!NoPatch, pass.obj.spec.mock)
    <3>1. pass.obj.spec.mock \in BOOLEAN
      BY PlatformRunning DEF P!Tenant, PlatformStages, P!Objects
    <3>2. QED
      BY <2>2, <3>1, PlatformPatches, CallFailsGoes
  <2>3. QED
    BY <2>1, <2>2 DEF P!Tenant
<1>2. children' \in ChildStates
  <2>1. ASSUME NEW t \in {"absent", "live", "deleting"}
        PROVE  [children EXCEPT !.tenant = t] \in ChildStates
    BY DEF PlatformInv, ChildStates
  <2>2. \/ children' = children
        \/ \E t \in {"absent", "live", "deleting"} : children' = [children EXCEPT !.tenant = t]
    <3>1. children.tenant \in {"absent", "live", "deleting"}
      BY DEF PlatformInv, ChildStates
    <3>2. QED
      BY <3>1 DEF P!Tenant
  <2>3. QED
    BY <2>1, <2>2 DEF PlatformInv
<1>3. QED
  BY <1>1, <1>2 DEF P!Tenant, Leaves, SameKey, PlatformInv

\* The superuser: the Deployments are next.
LEMMA SuperuserLeaves ==
    ASSUME Bounds, PlatformInv, P!Superuser
    PROVE  Leaves({"deploy"}) /\ SameKey
<1>1. Goes({"deploy"})
  <2>1. CASE P!GoOn("deploy", P!NoPatch)
    BY <2>1, PlatformPatches, GoOnGoes
  <2>2. CASE P!CallFails(P!NoPatch, TRUE)
    BY <2>2, PlatformPatches, CallFailsGoes
  <2>3. QED
    BY <2>1, <2>2 DEF P!Superuser
<1>2. children' \in ChildStates
  <2>1. pass.obj.spec.admin \in BOOLEAN
    BY PlatformRunning DEF P!Superuser, PlatformStages, P!Objects
  <2>2. QED
    BY <2>1 DEF P!Superuser, PlatformInv, ChildStates
<1>3. QED
  BY <1>1, <1>2 DEF P!Superuser, Leaves, SameKey, PlatformInv

\* Looking the key up: one is made only if the cache has none.
LEMMA LookUpKeyLeaves ==
    ASSUME Bounds, PlatformInv, P!LookUpKey
    PROVE  /\ Leaves({"tenant", "newkey"}) /\ SameKey
           /\ cached.key # 0 => Goes({"tenant"})
<1>1. CASE cached.key # 0 /\ P!GoOn("tenant", P!NoPatch)
  BY <1>1, PlatformPatches, GoOnGoes DEF P!LookUpKey, Leaves, SameKey, PlatformInv
<1>2. CASE cached.key = 0 /\ P!GoOn("newkey", P!NoPatch)
  BY <1>2, PlatformPatches, GoOnGoes DEF P!LookUpKey, Leaves, SameKey, PlatformInv
<1>3. QED
  BY <1>1, <1>2 DEF P!LookUpKey

\* Making the key: what is written is in no app secrets, and it is written only over the
\* key that the cache holds.
LEMMA NewKeyLeaves ==
    ASSUME Bounds, PlatformInv, P!NewKey
    PROVE  /\ Leaves({"tenant"}) /\ stored'.app = stored.app
           /\ \/ stored' = stored
              \/ cached.key = stored.key /\ stored'.key # stored.app.key
<1> DEFINE k == P!Unused({stored.key, stored.app.key})
<1>1. k \in P!Values /\ k # stored.app.key
  BY UnusedValue
<1>2. \/ /\ cached.key = stored.key /\ P!GoOn("tenant", P!NoPatch)
         /\ stored' = [stored EXCEPT !.key = k]
      \/ P!Fail("conflict", FALSE) /\ stored' = stored
      \/ P!CallFails(P!NoPatch, FALSE) /\ stored' = stored
  BY DEF P!NewKey, P!Writable
<1> HIDE DEF k
<1>3. Goes({"tenant"})
  <2>1. CASE P!GoOn("tenant", P!NoPatch)
    BY <2>1, PlatformPatches, GoOnGoes
  <2>2. CASE P!Fail("conflict", FALSE)
    BY <2>2, PlatformPatches, FailGoes
  <2>3. CASE P!CallFails(P!NoPatch, FALSE)
    BY <2>3, PlatformPatches, CallFailsGoes
  <2>4. QED
    BY <1>2, <2>1, <2>2, <2>3
<1>4. /\ stored' \in SecretMaps /\ stored'.app = stored.app
      /\ \/ stored' = stored
         \/ cached.key = stored.key /\ stored'.key # stored.app.key
  BY <1>1, <1>2 DEF PlatformInv, SecretMaps
<1>5. QED
  BY <1>3, <1>4 DEF P!NewKey, Leaves, PlatformInv

\* What is gathered can be put in the app secrets.
LEMMA BundleType ==
    ASSUME NEW o, NEW secrets \in SecretMaps, secrets.input # P!Bad
    PROVE  P!Bundle(o, secrets) \in AppSecrets
<1>1. ASSUME NEW n \in P!Sources PROVE secrets[n] \in P!Values
  BY <1>1 DEF P!Sources, SecretMaps
<1>2. 0 \in P!Values
  BY DEF P!Values
<1>3. QED
  BY <1>1, <1>2 DEF P!Bundle, AppSecrets

\* Gathering: the key found is that of the cache, or the pass is over.
LEMMA GatherLeaves ==
    ASSUME Bounds, PlatformInv, P!Gather
    PROVE  /\ Leaves({"app"}) /\ SameKey
           /\ made'.key = cached.key \/ Goes({"save"})
<1>1. CASE \/ P!Fail("input", FALSE) \/ P!Fail("derived", TRUE) \/ P!Fail("keys", FALSE)
           \/ \E requeue \in BOOLEAN : P!CallFails(P!NoPatch, requeue)
  <2>1. ASSUME NEW stages, NEW stage \in stages PROVE Goes(stages)
    <3>1. CASE P!Fail("input", FALSE)
      BY <3>1, <2>1, PlatformPatches, FailGoes
    <3>2. CASE P!Fail("derived", TRUE)
      BY <3>2, <2>1, PlatformPatches, FailGoes
    <3>3. CASE P!Fail("keys", FALSE)
      BY <3>3, <2>1, PlatformPatches, FailGoes
    <3>4. CASE \E requeue \in BOOLEAN : P!CallFails(P!NoPatch, requeue)
      BY <3>4, <2>1, PlatformPatches, CallFailsGoes
    <3>5. QED
      BY <1>1, <3>1, <3>2, <3>3, <3>4
  <2>2. Goes({"app"}) /\ Goes({"save"})
    BY <2>1
  <2>3. made' \in AppSecrets
    <3>1. made' = made \/ (cached.input # P!Bad /\ made' = P!Bundle(pass.obj, cached))
      BY DEF P!Gather
    <3>2. QED
      BY <3>1, BundleType DEF PlatformInv
  <2>4. QED
    BY <2>2, <2>3 DEF P!Gather, Leaves, SameKey, PlatformInv
<1>2. CASE /\ cached.input # P!Bad
           /\ made' = P!Bundle(pass.obj, cached) /\ P!GoOn("app", P!NoPatch)
  <2>1. made' \in AppSecrets
    BY <1>2, BundleType DEF PlatformInv
  <2>2. made'.key = cached.key
    BY <1>2 DEF P!Bundle, P!Sources, P!Needed
  <2>3. Goes({"app"})
    BY <1>2, PlatformPatches, GoOnGoes
  <2>4. QED
    BY <2>1, <2>2, <2>3 DEF P!Gather, Leaves, SameKey, PlatformInv
<1>3. QED
  BY <1>1, <1>2 DEF P!Gather

\* Writing the app secrets: they become what this pass found, or stay.
LEMMA AppSecretLeaves ==
    ASSUME Bounds, PlatformInv, P!AppSecret
    PROVE  /\ Leaves({"saml"}) /\ stored'.key = stored.key
           /\ stored'.app = stored.app \/ stored'.app = made
<1>1. [stored EXCEPT !["app"] = made] \in SecretMaps
  BY DEF PlatformInv, SecretMaps
<1>2. /\ Goes({"saml"}) /\ stored' \in SecretMaps
      /\ stored' = stored \/ stored' = [stored EXCEPT !["app"] = made]
  BY <1>1, PutGoes DEF P!AppSecret
<1>3. /\ stored'.key = stored.key
      /\ stored'.app = stored.app \/ stored'.app = made
  BY <1>2 DEF PlatformInv, SecretMaps
<1>4. QED
  BY <1>2, <1>3 DEF P!AppSecret, Leaves, PlatformInv

\* Writing any other secret leaves the key and the app secrets alone.
LEMMA PutLeaves ==
    ASSUME Bounds, PlatformInv, NEW stages, NEW stage \in stages,
           NEW n \in SecretNames \ {"key", "app"}, NEW content, NEW requeue \in BOOLEAN,
           [stored EXCEPT ![n] = content] \in SecretMaps, P!Put(n, content, stage, requeue)
    PROVE  Goes(stages) /\ stored' \in SecretMaps /\ SameKey
<1>1. /\ Goes(stages) /\ stored' \in SecretMaps
      /\ stored' = stored \/ stored' = [stored EXCEPT ![n] = content]
  BY PutGoes
<1>2. n # "key" /\ n # "app"
  OBVIOUS
<1>3. SameKey
  BY <1>1, <1>2 DEF SameKey, PlatformInv, SecretMaps
<1>4. QED
  BY <1>1, <1>3

\* The SAML secret: that of comp-dispatch is next.
LEMMA SamlSecretLeaves ==
    ASSUME Bounds, PlatformInv, P!SamlSecret
    PROVE  Leaves({"dispatch"}) /\ SameKey
<1>1. made.input \in P!Values
  BY DEF PlatformInv, AppSecrets, P!Sources
<1>2. [stored EXCEPT !["saml"] = made.input] \in SecretMaps
  BY <1>1 DEF PlatformInv, SecretMaps
<1>3. Goes({"dispatch"}) /\ stored' \in SecretMaps /\ SameKey
  BY <1>2, PutLeaves DEF P!SamlSecret, SecretNames
<1>4. QED
  BY <1>3 DEF P!SamlSecret, Leaves, PlatformInv

\* The secret of comp-dispatch: New Relic is next.
LEMMA DispatchSecretLeaves ==
    ASSUME Bounds, PlatformInv, P!DispatchSecret
    PROVE  Leaves({"newrelic"}) /\ SameKey
<1> DEFINE content == [postgres |-> made.postgres, input |-> made.input]
<1>1. made.input \in P!Values /\ made.postgres \in P!Values
  BY DEF PlatformInv, AppSecrets, P!Sources
<1>2. [stored EXCEPT !["dispatch"] = content] \in SecretMaps
  BY <1>1 DEF PlatformInv, SecretMaps
<1>3. P!Put("dispatch", content, "newrelic", FALSE)
  BY DEF P!DispatchSecret
<1>4. Goes({"newrelic"}) /\ stored' \in SecretMaps /\ SameKey
  <2> HIDE DEF content
  <2>1. QED
    BY <1>2, <1>3, PutLeaves DEF SecretNames
<1>5. made' \in AppSecrets
  BY DEF P!DispatchSecret, P!NoApp, AppSecrets, P!Values
<1>6. QED
  BY <1>4, <1>5 DEF P!DispatchSecret, Leaves, PlatformInv

\* New Relic: the ConfigMap is next.
LEMMA NewRelicLeaves ==
    ASSUME Bounds, PlatformInv, P!NewRelic
    PROVE  Leaves({"config"}) /\ SameKey
<1>1. Goes({"config"}) /\ stored' \in SecretMaps /\ SameKey
  <2>1. CASE P!GoOn("config", P!NoPatch) /\ UNCHANGED stored
    BY <2>1, PlatformPatches, GoOnGoes DEF SameKey, PlatformInv
  <2>2. CASE P!Put("newrelic", TRUE, "config", TRUE)
    <3>1. [stored EXCEPT !["newrelic"] = TRUE] \in SecretMaps
      BY DEF PlatformInv, SecretMaps
    <3>2. QED
      BY <2>2, <3>1, PutLeaves DEF SecretNames
  <2>3. QED
    BY <2>1, <2>2 DEF P!NewRelic
<1>2. QED
  BY <1>1 DEF P!NewRelic, Leaves, PlatformInv

\* The ConfigMap: the migrations are next, the rollout, or the budget.
LEMMA ConfigMapLeaves ==
    ASSUME Bounds, PlatformInv, P!ConfigMap
    PROVE  Leaves({"migrations", "superuser", "budget"}) /\ SameKey
<1> DEFINE content == P!Config(pass.obj)
<1>1. content \in SUBSET Options
  BY DEF P!Config, P!StaticConfig, Options
<1>2. P!Put("config", content, P!ToMigrations, TRUE)
  BY DEF P!ConfigMap
<1> HIDE DEF content
<1>3. [stored EXCEPT !["config"] = content] \in SecretMaps
  BY <1>1 DEF PlatformInv, SecretMaps
<1>4. Goes({"migrations", "superuser", "budget"}) /\ stored' \in SecretMaps /\ SameKey
  BY <1>2, <1>3, PlatformNext, PutLeaves DEF SecretNames
<1>5. QED
  BY <1>4 DEF P!ConfigMap, Leaves, PlatformInv

\* The migrations: the superuser is next, or the budget.
LEMMA MigrationsLeaves ==
    ASSUME Bounds, PlatformInv, P!Migrations
    PROVE  Leaves({"superuser", "budget"}) /\ SameKey
<1>1. Goes({"superuser", "budget"})
  BY PlatformPatches, PlatformNext, GoOnGoes DEF P!Migrations
<1>2. QED
  BY <1>1 DEF P!Migrations, Leaves, SameKey, PlatformInv

\* The Deployments, made of the app secrets in the cache: the budget is next.
LEMMA DeploymentLeaves ==
    ASSUME Bounds, PlatformInv, P!Deployment
    PROVE  Leaves({"budget"}) /\ SameKey
<1>1. Goes({"budget"})
  <2>1. CASE P!GoOn("budget", P!NoPatch)
    BY <2>1, PlatformPatches, GoOnGoes
  <2>2. CASE P!Fail("app secrets", TRUE)
    BY <2>2, PlatformPatches, FailGoes
  <2>3. CASE P!CallFails(P!NoPatch, TRUE)
    BY <2>3, PlatformPatches, CallFailsGoes
  <2>4. QED
    BY <2>1, <2>2, <2>3 DEF P!Deployment
<1>2. \/ UNCHANGED <<deployed, around>>
      \/ /\ deployed' = [app |-> cached.app, config |-> cached.config,
                         dispatch |-> P!Replicas(pass.obj)]
         /\ around' = [around EXCEPT !.scaled = @ /\ pass.obj.spec.auto]
  BY DEF P!Deployment
<1>3. deployed' \in PodTemplates
  <2>1. cached.app \in AppSecrets /\ cached.config \in SUBSET Options
    BY DEF PlatformInv, SecretMaps
  <2>2. P!Replicas(pass.obj) \in 0 .. 2
    BY DEF P!Replicas
  <2>3. QED
    BY <1>2, <2>1, <2>2 DEF PlatformInv, PodTemplates
<1>4. around' \in Surroundings
  <2>1. (around.scaled /\ pass.obj.spec.auto) \in BOOLEAN
    OBVIOUS
  <2>2. \/ around' = around
        \/ \E scaled \in BOOLEAN : around' = [around EXCEPT !.scaled = scaled]
    BY <1>2, <2>1
  <2>3. QED
    BY <2>2 DEF PlatformInv, Surroundings
<1>5. QED
  BY <1>1, <1>3, <1>4 DEF P!Deployment, Leaves, SameKey, PlatformInv

\* The budget, whose replacement asks for another pass: the autoscaler is next.
LEMMA BudgetLeaves ==
    ASSUME Bounds, PlatformInv, P!Budget
    PROVE  Leaves({"autoscaler"}) /\ SameKey
<1> DEFINE wanted == P!Replicas(pass.obj) > 0
           differs == around.budget = "other"
           budget == IF wanted /\ ~differs THEN "goal" ELSE "absent"
<1>1. \/ /\ around' = [around EXCEPT !.budget = budget]
         /\ P!R!Return("autoscaler", P!NoPatch, wanted /\ differs, FALSE)
         /\ disturbances' = disturbances
      \/ P!CallFails(P!NoPatch, wanted) /\ around' = around
  BY DEF P!Budget
<1>2. budget \in {"absent", "goal", "other"} /\ (wanted /\ differs) \in BOOLEAN
      /\ wanted \in BOOLEAN
  OBVIOUS
<1> HIDE DEF wanted, differs, budget
<1>3. Goes({"autoscaler"})
  <2>1. CASE P!R!Return("autoscaler", P!NoPatch, wanted /\ differs, FALSE)
             /\ disturbances' = disturbances
    <3>1. K!Return("autoscaler", P!NoPatch, wanted /\ differs, FALSE)
      BY <2>1 DEF P!R!Return, K!Return
    <3>2. disturbances' \in 0 .. MaxDisturbances
      BY <2>1 DEF PlatformInv
    <3>3. QED
      BY <1>2, <3>1, <3>2, PlatformPatches DEF Goes
  <2>2. CASE P!CallFails(P!NoPatch, wanted)
    BY <1>2, <2>2, PlatformPatches, CallFailsGoes
  <2>3. QED
    BY <1>1, <2>1, <2>2
<1>4. around' \in Surroundings
  BY <1>1, <1>2 DEF PlatformInv, Surroundings
<1>5. QED
  BY <1>3, <1>4 DEF P!Budget, Leaves, SameKey, PlatformInv

\* The autoscaler: the schedulers are next, or the status.
LEMMA AutoscalerLeaves ==
    ASSUME Bounds, PlatformInv, P!Autoscaler
    PROVE  Leaves({"celerybeat", "status"}) /\ SameKey
<1>1. pass.obj.spec.auto \in BOOLEAN
  BY PlatformRunning DEF P!Autoscaler, PlatformStages, P!Objects
<1>2. Goes({"celerybeat", "status"})
  <2>1. CASE P!GoOn(P!ToSchedulers, P!NoPatch)
    BY <2>1, PlatformPatches, PlatformNext, GoOnGoes
  <2>2. CASE P!CallFails(P!NoPatch, pass.obj.spec.auto)
    BY <1>1, <2>2, PlatformPatches, CallFailsGoes
  <2>3. QED
    BY <2>1, <2>2 DEF P!Autoscaler
<1>3. around' \in Surroundings
  BY <1>1 DEF P!Autoscaler, PlatformInv, Surroundings
<1>4. QED
  BY <1>2, <1>3 DEF P!Autoscaler, Leaves, SameKey, PlatformInv

\* A scheduler, made or taken away.
LEMMA SchedulerLeaves ==
    ASSUME Bounds, PlatformInv, NEW stages, NEW stage \in stages,
           NEW kind \in {"celerybeat", "redbeat"}, P!Scheduler(kind, stage)
    PROVE  Leaves(stages) /\ SameKey
<1> DEFINE wanted == P!SchedulerFor(pass.obj) = kind
<1>1. /\ \/ P!GoOn(stage, P!NoPatch) \/ P!Fail("app secrets", TRUE)
         \/ P!CallFails(P!NoPatch, wanted)
      /\ \/ around' = around
         \/ around' = [around EXCEPT !.schedulers = @ \ {kind}]
         \/ around' = [around EXCEPT !.schedulers = @ \cup {kind}]
  BY DEF P!Scheduler
<1>2. wanted \in BOOLEAN
  OBVIOUS
<1> HIDE DEF wanted
<1>3. Goes(stages)
  <2>1. CASE P!GoOn(stage, P!NoPatch)
    BY <2>1, PlatformPatches, GoOnGoes
  <2>2. CASE P!Fail("app secrets", TRUE)
    BY <2>2, PlatformPatches, FailGoes
  <2>3. CASE P!CallFails(P!NoPatch, wanted)
    BY <1>2, <2>3, PlatformPatches, CallFailsGoes
  <2>4. QED
    BY <1>1, <2>1, <2>2, <2>3
<1>4. around' \in Surroundings
  <2>1. around.schedulers \ {kind} \in SUBSET {"celerybeat", "redbeat"}
    BY DEF PlatformInv, Surroundings
  <2>2. around.schedulers \cup {kind} \in SUBSET {"celerybeat", "redbeat"}
    BY DEF PlatformInv, Surroundings
  <2>3. QED
    BY <1>1, <2>1, <2>2 DEF PlatformInv, Surroundings
<1>5. QED
  BY <1>3, <1>4 DEF P!Scheduler, Leaves, SameKey, PlatformInv

\* The status: its write is next.
LEMMA StatusLeaves ==
    ASSUME Bounds, PlatformInv, P!Status
    PROVE  Leaves({"save"}) /\ SameKey
<1>1. ASSUME NEW patch \in P!Patches, P!GoOn("save", patch) PROVE Goes({"save"})
  BY <1>1, GoOnGoes
<1>2. P!GoOn("save", P!NoPatch) \/ P!GoOn("save", [P!NoPatch EXCEPT !.phase = "Ready"])
  BY DEF P!Status
<1>3. Goes({"save"})
  BY <1>1, <1>2, PlatformPatches
<1>4. QED
  BY <1>3 DEF P!Status, Leaves, SameKey, PlatformInv

\* A component that is not one of the four below goes neither to the making of a key nor
\* to the app secrets, and leaves both as they are.
Bystander ==
    \/ P!Objectives \/ P!SamlSecret \/ P!DispatchSecret \/ P!NewRelic \/ P!ConfigMap
    \/ P!Migrations \/ P!Deployment \/ P!Budget \/ P!Autoscaler \/ P!Celerybeat \/ P!Redbeat
    \/ P!Status

\* None of them goes to the making of a key or to the app secrets, or changes either, and
\* all leave everything in its range.
LEMMA BystanderLeaves ==
    ASSUME Bounds, PlatformInv, Bystander
    PROVE  pass.at \in PlatformStages /\ Leaves((PlatformStages \ {"newkey", "app"}) \cup {"save"})
           /\ SameKey
<1> DEFINE others == (PlatformStages \ {"newkey", "app"}) \cup {"save"}
<1>1. ASSUME NEW stages \in SUBSET others, Leaves(stages) PROVE Leaves(others)
  BY <1>1 DEF Leaves, Goes
<1>2. {"postgres", "user", "vhost", "key", "secrets", "newrelic", "deploy", "dispatch",
       "config", "migrations", "superuser", "budget", "autoscaler", "celerybeat", "status",
       "redbeat", "save"} \subseteq others
  BY DEF PlatformStages
<1>3. pass.at \in PlatformStages
  BY DEF Bystander, P!Objectives, P!Defaults, P!Postgres, P!IAMUser, P!Vhost, P!Tenant,
     P!Superuser, P!SamlSecret, P!DispatchSecret, P!NewRelic, P!ConfigMap, P!Migrations,
     P!Deployment, P!Budget, P!Autoscaler, P!Celerybeat, P!Redbeat, P!Scheduler, P!Status,
     PlatformStages
<1> HIDE DEF others
<1>4. Leaves(others) /\ SameKey
  <2>1. CASE P!Defaults
    BY <1>1, <1>2, <2>1, DefaultsLeaves
  <2>2. CASE P!Postgres
    BY <1>1, <1>2, <2>2, PostgresLeaves
  <2>3. CASE P!IAMUser
    BY <1>1, <1>2, <2>3, IAMUserLeaves
  <2>4. CASE P!Vhost
    BY <1>1, <1>2, <2>4, VhostLeaves
  <2>5. CASE P!Tenant
    BY <1>1, <1>2, <2>5, TenantLeaves
  <2>6. CASE P!Superuser
    BY <1>1, <1>2, <2>6, SuperuserLeaves
  <2>7. CASE P!SamlSecret
    BY <1>1, <1>2, <2>7, SamlSecretLeaves
  <2>8. CASE P!DispatchSecret
    BY <1>1, <1>2, <2>8, DispatchSecretLeaves
  <2>9. CASE P!NewRelic
    BY <1>1, <1>2, <2>9, NewRelicLeaves
  <2>10. CASE P!ConfigMap
    BY <1>1, <1>2, <2>10, ConfigMapLeaves
  <2>11. CASE P!Migrations
    BY <1>1, <1>2, <2>11, MigrationsLeaves
  <2>12. CASE P!Deployment
    BY <1>1, <1>2, <2>12, DeploymentLeaves
  <2>13. CASE P!Budget
    BY <1>1, <1>2, <2>13, BudgetLeaves
  <2>14. CASE P!Autoscaler
    BY <1>1, <1>2, <2>14, AutoscalerLeaves
  <2>15. CASE P!Celerybeat
    BY <1>2, <2>15, SchedulerLeaves DEF P!Celerybeat
  <2>16. CASE P!Redbeat
    BY <1>2, <2>16, SchedulerLeaves DEF P!Redbeat
  <2>17. CASE P!Status
    BY <1>1, <1>2, <2>17, StatusLeaves
  <2>18. QED
    BY <2>1, <2>2, <2>3, <2>4, <2>5, <2>6, <2>7, <2>8, <2>9, <2>10, <2>11, <2>12, <2>13,
       <2>14, <2>15, <2>16, <2>17 DEF Bystander, P!Objectives
<1>5. QED
  BY <1>3, <1>4 DEF others

\* Why the key stays, although the pass decides to make one from a cache and writes it
\* later.  While a pass is about to make a key, or the cache does not hold the key there
\* is, either there is none or the app secrets do not hold it; and app secrets about to be
\* written that were gathered from an older cache do not hold it either.
KeyInv ==
    /\ pass.at = "newkey" \/ cached.key # stored.key
         => stored.key = 0 \/ stored.app.key # stored.key
    /\ pass.at = "app" /\ stored.key # 0 /\ cached.key # stored.key
         => made.key # stored.key

\* What KeyKept says of a step.
KeyStays == stored.app.key = stored.key /\ stored.key # 0 => stored'.key \in {0, stored.key}

\* A key that does not change stays.
LEMMA SameKeyStays == ASSUME stored'.key = stored.key PROVE KeyStays
BY DEF KeyStays

\* A step that leaves the keys alone, and does not bring a pass to where one is made or
\* put in the app secrets, keeps the invariant.
LEMMA KeyFrame ==
    ASSUME KeyInv, SameKey, cached' = cached,
           \/ pass'.at \notin {"newkey", "app"}
           \/ pass'.at = pass.at /\ made' = made
    PROVE  KeyInv' /\ KeyStays
BY DEF KeyInv, SameKey, KeyStays

\* The components keep both invariants, and the key.
LEMMA ComponentsKeep ==
    ASSUME Bounds, PlatformInv, KeyInv, P!Components
    PROVE  PlatformInv' /\ KeyInv' /\ KeyStays
<1>1. UNCHANGED <<env, cached, work, top, view>>
  BY DEF P!Components
<1>2. {"tenant", "newkey"} \subseteq PlatformStages /\ {"key", "app", "saml", "secrets"}
      \subseteq PlatformStages
  BY DEF PlatformStages
<1>3. CASE Bystander
  <2> DEFINE others == (PlatformStages \ {"newkey", "app"}) \cup {"save"}
  <2>1. others \in SUBSET (PlatformStages \cup {"save"}) /\ "newkey" \notin others
        /\ "app" \notin others /\ "save" \in others
    OBVIOUS
  <2>2. pass.at \in PlatformStages /\ Leaves(others) /\ SameKey
    BY <1>3, BystanderLeaves
  <2> HIDE DEF others
  <2>3. PlatformInv' /\ pass'.at \in others
    BY <1>1, <2>1, <2>2, ComponentKeeps
  <2>4. pass'.at \notin {"newkey", "app"}
    BY <2>1, <2>3
  <2>5. QED
    BY <1>1, <2>2, <2>3, <2>4, KeyFrame
<1>4. CASE P!LookUpKey
  <2>1. pass.at \in PlatformStages
    BY <1>2, <1>4 DEF P!LookUpKey
  <2>2. Leaves({"tenant", "newkey"}) /\ SameKey /\ (cached.key # 0 => Goes({"tenant"}))
    BY <1>4, LookUpKeyLeaves
  <2>3. PlatformInv' /\ pass'.at \in {"tenant", "newkey", "save"}
    BY <1>1, <1>2, <2>1, <2>2, ComponentKeeps
  <2>4. CASE cached.key = 0
    BY <1>1, <2>2, <2>3, <2>4 DEF KeyInv, SameKey, KeyStays
  <2>5. CASE cached.key # 0
    <3>1. Leaves({"tenant"})
      BY <2>2, <2>5 DEF Leaves
    <3>2. pass'.at \in {"tenant", "save"}
      BY <1>1, <1>2, <2>1, <3>1, ComponentKeeps
    <3>3. QED
      BY <1>1, <2>2, <2>3, <3>2, KeyFrame
  <2>6. QED
    BY <2>4, <2>5
<1>5. CASE P!NewKey
  <2>1. pass.at = "newkey" /\ pass.at \in PlatformStages
    BY <1>2, <1>5 DEF P!NewKey
  <2>2. /\ Leaves({"tenant"}) /\ stored'.app = stored.app
        /\ \/ stored' = stored
           \/ cached.key = stored.key /\ stored'.key # stored.app.key
    BY <1>5, NewKeyLeaves
  <2>3. PlatformInv' /\ pass'.at \in {"tenant", "save"}
    BY <1>1, <1>2, <2>1, <2>2, ComponentKeeps
  <2>4. KeyInv' /\ KeyStays
    BY <1>1, <2>1, <2>2, <2>3 DEF KeyInv, KeyStays
  <2>5. QED
    BY <2>3, <2>4
<1>6. CASE P!Gather
  <2>1. pass.at \in PlatformStages
    BY <1>2, <1>6 DEF P!Gather
  <2>2. Leaves({"app"}) /\ SameKey /\ (made'.key = cached.key \/ Goes({"save"}))
    BY <1>6, GatherLeaves
  <2>3. PlatformInv' /\ pass'.at \in {"app", "save"}
    BY <1>1, <1>2, <2>1, <2>2, ComponentKeeps
  <2>4. CASE made'.key = cached.key
    BY <1>1, <2>2, <2>3, <2>4 DEF KeyInv, SameKey, KeyStays
  <2>5. CASE Goes({"save"})
    <3>1. Leaves({"save"})
      BY <2>2, <2>5 DEF Leaves
    <3>2. pass'.at = "save"
      BY <1>1, <1>2, <2>1, <3>1, ComponentKeeps
    <3>3. QED
      BY <1>1, <2>2, <2>3, <3>2, KeyFrame
  <2>6. QED
    BY <2>2, <2>4, <2>5
<1>7. CASE P!AppSecret
  <2>1. pass.at = "app" /\ pass.at \in PlatformStages
    BY <1>2, <1>7 DEF P!AppSecret
  <2>2. /\ Leaves({"saml"}) /\ stored'.key = stored.key
        /\ stored'.app = stored.app \/ stored'.app = made
    BY <1>7, AppSecretLeaves
  <2>3. PlatformInv' /\ pass'.at \in {"saml", "save"}
    BY <1>1, <1>2, <2>1, <2>2, ComponentKeeps
  <2>4. KeyInv' /\ KeyStays
    BY <1>1, <2>1, <2>2, <2>3 DEF KeyInv, KeyStays
  <2>5. QED
    BY <2>3, <2>4
<1>8. QED
  BY <1>3, <1>4, <1>5, <1>6, <1>7 DEF P!Components, P!Secrets, Bystander

\* So does the beginning of a pass.
LEMMA BeginKeeps ==
    ASSUME PlatformInv, KeyInv, P!Begin
    PROVE  PlatformInv' /\ KeyInv' /\ KeyStays
<1>1. K!Begin("defaults")
  BY DEF P!Begin, P!R!Begin, K!Begin, P!R!Idle, K!Idle, P!R!Fresh, K!Fresh
<1>2. /\ UNCHANGED <<env, children, stored, cached, deployed, around, disturbances>>
      /\ made' = P!NoApp
  BY DEF P!Begin, P!childVars, P!secretVars
<1>3. PassesOK'
  <2>1. "defaults" \in PlatformStages \cup {"save"}
    BY DEF PlatformStages
  <2>2. QED
    BY <1>1, <2>1, PlatformModifiers, K!BeginTypes DEF PlatformInv, PassesOK
<1>4. K!CacheOK'
  BY <1>1 DEF K!Begin, K!CacheOK, PlatformInv
<1>5. P!NoApp \in AppSecrets
  BY DEF P!NoApp, AppSecrets, P!Values
<1>6. pass'.at \notin {"newkey", "app"}
  BY <1>1 DEF K!Begin, K!Idle, K!Fresh
<1>7. SameKey
  BY <1>2 DEF SameKey
<1>8. PlatformInv'
  BY <1>2, <1>3, <1>4, <1>5 DEF PlatformInv
<1>9. QED
  BY <1>2, <1>6, <1>7, <1>8, KeyFrame

\* So does the write of the status.
LEMMA SaveKeeps ==
    ASSUME PlatformInv, KeyInv, P!Save
    PROVE  PlatformInv' /\ KeyInv' /\ KeyStays
<1>1. K!Save(FALSE)
  BY DEF P!Save, P!R!Save, K!Save, P!R!SaveNothing, K!SaveNothing, P!R!SaveFast, K!SaveFast,
     P!R!SaveConflict, K!SaveConflict, P!R!Replay, K!Replay, P!R!ReplayConflict,
     K!ReplayConflict, P!R!ReplayGiveUp, K!ReplayGiveUp, P!R!StatusChanged, K!StatusChanged,
     P!R!Leave, K!Leave, P!R!Idle, K!Idle, P!R!ReplayRefused, K!ReplayRefused
<1>2. UNCHANGED <<env, children, stored, cached, made, deployed, around, disturbances>>
  BY DEF P!Save, P!childVars, P!secretVars
<1>3. FALSE \in BOOLEAN /\ K!TypesOK(P!Objects, P!Patches, PlatformStages) /\ K!CacheOK
  BY DEF PlatformInv, PassesOK
<1>4. PassesOK'
  BY <1>1, <1>3, PlatformModifiers, K!SaveTypes DEF PassesOK
<1>5. /\ view'.obj = view.obj /\ (view'.current => view.current /\ top' = top)
      /\ pass' = K!Idle \/ pass'.at = "replay"
  BY <1>1, <1>3, PlatformModifiers, K!SaveEffect
<1>6. K!CacheOK'
  BY <1>3, <1>5 DEF K!CacheOK
<1>7. pass'.at \notin {"newkey", "app"}
  BY <1>5 DEF K!Idle
<1>8. SameKey
  BY <1>2 DEF SameKey
<1>9. PlatformInv'
  BY <1>2, <1>4, <1>6 DEF PlatformInv
<1>10. QED
  BY <1>2, <1>7, <1>8, <1>9, KeyFrame

\* What happens around a pass leaves it at its stage, and what it found as it was.
LEMMA SyncKeeps ==
    ASSUME PlatformInv, KeyInv, P!Sync
    PROVE  PlatformInv' /\ KeyInv' /\ KeyStays
<1>1. K!Sync
  BY DEF P!Sync, P!R!Sync, K!Sync, P!R!Event, K!Event
<1>2. UNCHANGED <<env, children, stored, cached, made, deployed, around, disturbances, pass>>
  BY <1>1 DEF P!Sync, P!childVars, P!secretVars, K!Sync
<1>3. PassesOK' /\ K!CacheOK'
  BY <1>1, K!SyncTypes DEF PlatformInv, PassesOK
<1>4. SameKey
  BY <1>2 DEF SameKey
<1>5. PlatformInv'
  BY <1>2, <1>3 DEF PlatformInv
<1>6. QED
  BY <1>2, <1>4, <1>5, KeyFrame

\* An event leaves the object, its cache and the pass as they are.
LEMMA EventTypes ==
    ASSUME PlatformInv, P!R!Event \/ work' = work, UNCHANGED <<top, view, pass>>
    PROVE  PassesOK' /\ K!CacheOK'
BY DEF PlatformInv, PassesOK, K!TypesOK, K!CacheOK, P!R!Event

\* The cache of the secrets catches up, perhaps in the middle of a pass.
LEMMA SyncSecretsKeeps ==
    ASSUME PlatformInv, KeyInv, P!SyncSecrets
    PROVE  PlatformInv' /\ KeyInv' /\ KeyStays
<1>1. /\ UNCHANGED <<env, children, top, view, pass, stored, made, deployed, around,
                     disturbances>>
      /\ cached' = stored /\ (P!R!Event \/ work' = work)
  BY DEF P!SyncSecrets, P!childVars
<1>2. PassesOK' /\ K!CacheOK'
  BY <1>1, EventTypes
<1>3. PlatformInv'
  BY <1>1, <1>2 DEF PlatformInv
<1>4. KeyInv' /\ KeyStays
  BY <1>1 DEF KeyInv, KeyStays
<1>5. QED
  BY <1>3, <1>4

\* A step around the pass that touches neither the key nor the app secrets.
LEMMA AroundKeeps ==
    ASSUME PlatformInv, KeyInv, P!R!Event \/ work' = work,
           UNCHANGED <<env, top, view, pass, cached, made, deployed>>,
           children' \in ChildStates, stored' \in SecretMaps, SameKey,
           around' \in Surroundings, disturbances' \in 0 .. MaxDisturbances
    PROVE  PlatformInv' /\ KeyInv' /\ KeyStays
<1>1. PassesOK' /\ K!CacheOK'
  BY EventTypes
<1>2. PlatformInv'
  BY <1>1 DEF PlatformInv
<1>3. QED
  BY <1>2, KeyFrame

\* The secrets that others make.
Provided == {"input", "postgres", "rabbit", "aws", "tenant"}

\* A credential that changes is no key.
LEMMA CredentialChanges ==
    ASSUME PlatformInv, NEW n \in Provided, NEW v \in P!Values,
           stored' = [stored EXCEPT ![n] = v]
    PROVE  stored' \in SecretMaps /\ SameKey
BY DEF PlatformInv, SecretMaps, Provided, SameKey

\* Disturbances stay below their bound.
LEMMA DisturbCount ==
    ASSUME Bounds, PlatformInv, P!Disturb
    PROVE  disturbances' \in 0 .. MaxDisturbances
<1>1. MaxDisturbances \in Nat
  BY DEF Bounds, P!PlatformConstantsOK
<1>2. disturbances < MaxDisturbances /\ disturbances' = disturbances + 1
  BY DEF P!Disturb
<1>3. disturbances \in 0 .. MaxDisturbances
  BY DEF PlatformInv
<1>4. QED
  BY <1>1, <1>2, <1>3

\* The controllers of the objects asked for.
LEMMA MakersKeep ==
    ASSUME PlatformInv, KeyInv, P!Makers
    PROVE  PlatformInv' /\ KeyInv' /\ KeyStays
<1>1. CASE P!MakeCredentials
  <2>1. PICK n \in Provided : stored' = [stored EXCEPT ![n] = P!Unused({cached[n]})]
    BY <1>1 DEF P!MakeCredentials, Provided
  <2>2. P!Unused({cached[n]}) \in P!Values
    BY UnusedValue
  <2>3. stored' \in SecretMaps /\ SameKey
    BY <2>1, <2>2, CredentialChanges
  <2>4. QED
    BY <1>1, <2>3, AroundKeeps DEF P!MakeCredentials, P!childVars, PlatformInv
<1>2. CASE P!ChildReady
  <2>1. PICK n \in {"postgres", "rabbit"} :
          /\ children' = [children EXCEPT ![n] = "Ready"]
          /\ stored' = [stored EXCEPT ![n] = IF @ = 0 THEN P!Unused({cached[n]}) ELSE @]
    BY <1>2 DEF P!ChildReady
  <2>2. children' \in ChildStates
    BY <2>1 DEF PlatformInv, ChildStates, P!ChildStatus
  <2>3. stored' \in SecretMaps /\ SameKey
    <3>1. stored[n] \in P!Values
      BY DEF PlatformInv, SecretMaps
    <3>2. P!Unused({cached[n]}) \in P!Values
      BY UnusedValue
    <3>3. PICK v \in P!Values : stored' = [stored EXCEPT ![n] = v]
      BY <2>1, <3>1, <3>2
    <3>4. n \in Provided
      BY DEF Provided
    <3>5. QED
      BY <3>3, <3>4, CredentialChanges
  <2>4. QED
    BY <1>2, <2>2, <2>3, AroundKeeps DEF P!ChildReady, PlatformInv
<1>3. CASE P!TenantGone
  <2>1. children' \in ChildStates
    BY <1>3 DEF P!TenantGone, PlatformInv, ChildStates
  <2>2. 0 \in P!Values /\ "tenant" \in Provided
    BY DEF P!Values, Provided
  <2>3. stored' \in SecretMaps /\ SameKey
    BY <1>3, <2>2, CredentialChanges DEF P!TenantGone
  <2>4. QED
    BY <1>3, <2>1, <2>3, AroundKeeps DEF P!TenantGone, PlatformInv
<1>4. QED
  BY <1>1, <1>2, <1>3 DEF P!Makers

\* A restart.
LEMMA CrashKeeps ==
    ASSUME Bounds, PlatformInv, KeyInv, P!Crash
    PROVE  PlatformInv' /\ KeyInv' /\ KeyStays
<1>1. K!Restart
  BY DEF P!Crash, P!R!Restart, K!Restart, P!R!Idle, K!Idle
<1>2. PassesOK' /\ K!CacheOK'
  BY <1>1, K!RestartTypes DEF PlatformInv, PassesOK
<1>3. /\ UNCHANGED <<env, children, stored, deployed, around>>
      /\ cached' = stored /\ made' = P!NoApp
  BY DEF P!Crash, P!childVars
<1>4. P!NoApp \in AppSecrets
  BY DEF P!NoApp, AppSecrets, P!Values
<1>5. disturbances' \in 0 .. MaxDisturbances
  BY DisturbCount DEF P!Crash
<1>6. PlatformInv'
  BY <1>2, <1>3, <1>4, <1>5 DEF PlatformInv
<1>7. pass'.at = "idle"
  BY <1>1 DEF K!Restart, K!Idle
<1>8. KeyInv' /\ KeyStays
  BY <1>3, <1>7 DEF KeyInv, KeyStays
<1>9. QED
  BY <1>6, <1>8

\* An edit of the Spec, of the fields that can be edited.
LEMMA EditObjectKeeps ==
    ASSUME Bounds, PlatformInv, KeyInv, P!EditObject
    PROVE  PlatformInv' /\ KeyInv' /\ KeyStays
<1>1. top \in P!Objects
  BY DEF PlatformInv, PassesOK, K!TypesOK
<1>2. PICK o \in P!Objects : K!Write(o)
  <2>1. CASE \E f \in Edited \ {"debug"} : P!R!Write([top EXCEPT !.spec[f] = ~@])
    <3>1. PICK f \in Edited \ {"debug"} : P!R!Write([top EXCEPT !.spec[f] = ~@])
      BY <2>1
    <3>2. f \in {"role", "mock", "admin", "valid", "dispatch", "redbeat", "auto"}
      BY DEF Bounds, P!PlatformConstantsOK
    <3>3. [top EXCEPT !.spec[f] = ~@] \in P!Objects
      BY <1>1, <3>2 DEF P!Objects
    <3>4. QED
      BY <3>1, <3>3 DEF P!R!Write, K!Write
  <2>2. CASE \E d \in {"unset", "on", "off"} \ {top.spec.debug} :
               P!R!Write([top EXCEPT !.spec.debug = d])
    <3>1. PICK d \in {"unset", "on", "off"} : P!R!Write([top EXCEPT !.spec.debug = d])
      BY <2>2
    <3>2. [top EXCEPT !.spec.debug = d] \in P!Objects
      BY <1>1 DEF P!Objects
    <3>3. QED
      BY <3>1, <3>2 DEF P!R!Write, K!Write
  <2>3. QED
    BY <2>1, <2>2 DEF P!EditObject
<1>3. UNCHANGED <<work, env, children, stored, cached, made, deployed, around>>
  BY DEF P!EditObject, P!childVars, P!secretVars
<1>4. PassesOK' /\ K!CacheOK'
  <2>1. /\ top' \in P!Objects /\ view' \in [obj : P!Objects, current : BOOLEAN] /\ K!CacheOK'
        /\ pass' \in K!Passes(P!Objects, P!Patches, PlatformStages)
    BY <1>2, K!WriteTypes DEF PlatformInv, PassesOK
  <2>2. work' \in [queued : BOOLEAN, timer : BOOLEAN]
    BY <1>3 DEF PlatformInv, PassesOK, K!TypesOK
  <2>3. QED
    BY <2>1, <2>2 DEF PassesOK, K!TypesOK
<1>5. pass'.at = pass.at
  <2>1. pass \in K!Passes(P!Objects, P!Patches, PlatformStages)
    BY DEF PlatformInv, PassesOK, K!TypesOK
  <2>2. QED
    BY <1>2, <2>1 DEF K!Write, K!Passes, K!Idle
<1>6. disturbances' \in 0 .. MaxDisturbances
  BY DisturbCount DEF P!EditObject
<1>7. PlatformInv'
  BY <1>3, <1>4, <1>6 DEF PlatformInv
<1>8. SameKey
  BY <1>3 DEF SameKey
<1>9. QED
  BY <1>3, <1>5, <1>7, <1>8, KeyFrame

\* A rotated or a deleted secret; what is rotated is never the key.
LEMMA ChangeSecretKeeps ==
    ASSUME Bounds, PlatformInv, KeyInv, P!ChangeSecret
    PROVE  PlatformInv' /\ KeyInv' /\ KeyStays
<1>1. /\ UNCHANGED <<env, children, top, view, pass, work, cached, made, deployed, around>>
      /\ disturbances' \in 0 .. MaxDisturbances
  BY DisturbCount DEF P!ChangeSecret, P!childVars
<1>2. CASE \E n \in Rotated : stored' = [stored EXCEPT ![n] = P!Unused({stored[n], cached[n]})]
  <2>1. PICK n \in Rotated : stored' = [stored EXCEPT ![n] = P!Unused({stored[n], cached[n]})]
    BY <1>2
  <2>2. n \in Provided
    BY DEF Bounds, P!PlatformConstantsOK, Provided
  <2>3. P!Unused({stored[n], cached[n]}) \in P!Values
    BY UnusedValue
  <2>4. stored' \in SecretMaps /\ SameKey
    BY <2>1, <2>2, <2>3, CredentialChanges
  <2>5. QED
    BY <1>1, <2>4, AroundKeeps DEF PlatformInv
<1>3. CASE \E n \in Lost : stored' = [stored EXCEPT ![n] = P!NoSecrets[n]]
  <2>1. PICK n \in Lost : stored' = [stored EXCEPT ![n] = P!NoSecrets[n]]
    BY <1>3
  <2>2. n \in SecretNames
    BY DEF Bounds, P!PlatformConstantsOK, SecretNames
  <2>3. P!NoSecrets \in SecretMaps /\ P!NoSecrets.key = 0 /\ P!NoSecrets.app.key = 0
    <3>1. P!NoApp \in AppSecrets /\ P!NoApp.key = 0
      BY DEF P!NoApp, AppSecrets, P!Values, P!Sources
    <3>2. P!NoDispatch \in [postgres : P!Values, input : P!Values]
      BY DEF P!NoDispatch, P!Values
    <3>3. 0 \in P!Values
      BY DEF P!Values
    <3>4. QED
      BY <3>1, <3>2, <3>3 DEF P!NoSecrets, SecretMaps
  <2>4. stored \in SecretMaps
    BY DEF PlatformInv
  <2>5. stored' \in SecretMaps
    BY <2>1, <2>2, <2>3, <2>4 DEF SecretMaps, SecretNames
  <2>6. /\ stored'.key \in {0, stored.key}
        /\ stored'.app = stored.app \/ stored'.app.key = 0
        /\ stored'.key = stored.key \/ stored'.app = stored.app
    BY <2>1, <2>2, <2>3, <2>4 DEF SecretMaps, SecretNames
  <2>7. PassesOK' /\ K!CacheOK'
    BY <1>1, EventTypes
  <2>8. PlatformInv'
    BY <1>1, <2>5, <2>7 DEF PlatformInv
  <2>9. KeyInv' /\ KeyStays
    BY <1>1, <2>6 DEF KeyInv, KeyStays
  <2>10. QED
    BY <2>8, <2>9
<1>4. QED
  BY <1>2, <1>3 DEF P!ChangeSecret

\* The rest of the world.
LEMMA WorldKeeps ==
    ASSUME Bounds, PlatformInv, KeyInv,
           P!ProvideInput \/ P!Scale \/ P!ChangeBudget \/ P!Trouble
    PROVE  PlatformInv' /\ KeyInv' /\ KeyStays
<1>1. CASE P!ProvideInput
  <2>1. PICK v \in {2, P!Bad} : stored' = [stored EXCEPT !.input = v]
    BY <1>1 DEF P!ProvideInput
  <2>2. v \in P!Values \cup {P!Bad}
    BY DEF P!Values
  <2>3. stored' \in SecretMaps /\ SameKey
    BY <2>1, <2>2 DEF PlatformInv, SecretMaps, SameKey
  <2>4. QED
    BY <1>1, <2>3, AroundKeeps DEF P!ProvideInput, P!childVars, PlatformInv
<1>2. CASE P!Scale
  <2>1. around' \in Surroundings
    BY <1>2 DEF P!Scale, PlatformInv, Surroundings
  <2>2. QED
    BY <1>2, <2>1, AroundKeeps DEF P!Scale, P!childVars, P!secretVars, PlatformInv, SameKey
<1>3. CASE P!ChangeBudget
  <2>1. around' \in Surroundings
    BY <1>3 DEF P!ChangeBudget, PlatformInv, Surroundings
  <2>2. disturbances' \in 0 .. MaxDisturbances
    BY <1>3, DisturbCount DEF P!ChangeBudget
  <2>3. QED
    BY <1>3, <2>1, <2>2, AroundKeeps
       DEF P!ChangeBudget, P!childVars, P!secretVars, PlatformInv, SameKey
<1>4. CASE P!Trouble
  <2>1. children' \in ChildStates
    BY <1>4 DEF P!Trouble, PlatformInv, ChildStates, P!ChildStatus
  <2>2. disturbances' \in 0 .. MaxDisturbances
    BY <1>4, DisturbCount DEF P!Trouble
  <2>3. QED
    BY <1>4, <2>1, <2>2, AroundKeeps DEF P!Trouble, P!secretVars, PlatformInv, SameKey
<1>5. QED
  BY <1>1, <1>2, <1>3, <1>4

\* Every step keeps both invariants, and the key.
LEMMA PlatformStep ==
    ASSUME Bounds, PlatformInv, KeyInv, [P!Next]_(P!vars)
    PROVE  PlatformInv' /\ KeyInv' /\ KeyStays
<1>1. CASE P!Begin
  BY <1>1, BeginKeeps
<1>2. CASE P!Components
  BY <1>2, ComponentsKeep
<1>3. CASE P!Save
  BY <1>3, SaveKeeps
<1>4. CASE P!Sync
  BY <1>4, SyncKeeps
<1>5. CASE P!SyncSecrets
  BY <1>5, SyncSecretsKeeps
<1>6. CASE P!Makers
  BY <1>6, MakersKeep
<1>7. CASE P!Crash
  BY <1>7, CrashKeeps
<1>8. CASE P!EditObject
  BY <1>8, EditObjectKeeps
<1>9. CASE P!ChangeSecret
  BY <1>9, ChangeSecretKeeps
<1>10. CASE P!ProvideInput \/ P!Scale \/ P!ChangeBudget \/ P!Trouble
  BY <1>10, WorldKeeps
<1>11. CASE UNCHANGED P!vars
  BY <1>11, AroundKeeps DEF P!vars, PlatformInv, SameKey
<1>12. QED
  BY <1>1, <1>2, <1>3, <1>4, <1>5, <1>6, <1>7, <1>8, <1>9, <1>10, <1>11
     DEF P!Next, P!Worker

\* They hold at the start.
LEMMA PlatformInit == ASSUME Bounds, P!Init PROVE PlatformInv /\ KeyInv
<1> DEFINE o == [spec |-> [role |-> env \notin Full, mock |-> env \in Full,
                           dispatch |-> env \in Full, redbeat |-> env \in Full,
                           auto |-> FALSE, admin |-> TRUE, valid |-> TRUE, debug |-> "unset"],
                 status |-> [phase |-> "", message |-> "", postgres |-> "", rabbit |-> ""]]
<1>1. o \in P!Objects
  BY DEF P!Objects, P!Messages, P!ChildStatus
<1>2. /\ top = o /\ view = [obj |-> o, current |-> TRUE]
      /\ pass = K!Idle /\ work = [queued |-> TRUE, timer |-> FALSE]
  BY DEF P!Init, P!R!Start, P!R!Idle, K!Idle
<1> HIDE DEF o
<1>3. PassesOK /\ K!CacheOK
  BY <1>1, <1>2 DEF PassesOK, K!TypesOK, K!Passes, K!CacheOK
<1>4. P!NoApp \in AppSecrets /\ P!NoDispatch \in [postgres : P!Values, input : P!Values]
      /\ 0 \in P!Values /\ 1 \in P!Values
  BY DEF P!NoApp, AppSecrets, P!NoDispatch, P!Values
<1>5. stored \in SecretMaps /\ cached = stored
  BY <1>4 DEF P!Init, P!NoSecrets, SecretMaps
<1>6. made \in AppSecrets
  BY <1>4 DEF P!Init
<1>7. deployed \in PodTemplates
  <2>1. deployed = [app |-> P!NoApp, config |-> {}, dispatch |-> 0]
    BY DEF P!Init, P!NoPods
  <2>2. {} \in SUBSET Options /\ 0 \in 0 .. 2
    OBVIOUS
  <2>3. QED
    BY <1>4, <2>1, <2>2 DEF PodTemplates
<1>8. children \in ChildStates /\ around \in Surroundings
  BY DEF P!Init, ChildStates, P!ChildStatus, Surroundings
<1>9. disturbances \in 0 .. MaxDisturbances /\ env \in Environments
  <2>1. MaxDisturbances \in Nat
    BY DEF Bounds, P!PlatformConstantsOK
  <2>2. disturbances = 0 /\ env \in Environments
    BY DEF P!Init
  <2>3. QED
    BY <2>1, <2>2
<1>10. PlatformInv
  BY <1>3, <1>5, <1>6, <1>7, <1>8, <1>9 DEF PlatformInv
<1>11. KeyInv
  BY <1>2, <1>5 DEF KeyInv, K!Idle
<1>12. QED
  BY <1>10, <1>11

\* They always hold.
LEMMA PlatformInvariant == ASSUME Bounds PROVE P!Spec => [](PlatformInv /\ KeyInv)
<1>1. P!Init => PlatformInv /\ KeyInv
  BY PlatformInit
<1>2. PlatformInv /\ KeyInv /\ [P!Next]_(P!vars) => (PlatformInv /\ KeyInv)'
  BY PlatformStep
<1>3. QED
  BY <1>1, <1>2, PTL DEF P!Spec

\* What is in its range is of its type.
LEMMA PlatformTypes == PlatformInv => P!TypeOK
<1> SUFFICES ASSUME PlatformInv PROVE P!TypeOK
  OBVIOUS
<1>1. P!R!TypesOK(P!Objects, P!Patches, PlatformStages)
  BY DEF PlatformInv, PassesOK, K!TypesOK, P!R!TypesOK, K!Passes, P!R!Passes, K!Idle, P!R!Idle
<1>2. ASSUME NEW secrets \in SecretMaps, NEW n \in P!Sources
      PROVE  secrets[n] \in P!Values \cup {P!Bad} /\ secrets.app[n] \in P!Values
  BY <1>2 DEF SecretMaps, AppSecrets, P!Sources
<1>3. ASSUME NEW n \in P!Sources
      PROVE  made[n] \in P!Values /\ deployed.app[n] \in P!Values
  BY DEF PlatformInv, PodTemplates, AppSecrets
<1>4. QED
  BY <1>1, <1>2, <1>3 DEF P!TypeOK, PlatformInv, PlatformStages, ChildStates, Surroundings

\* Every variable of PlatformSecrets keeps its type, and with it what a pass does: no
\* step leaves the sequence of the components, no modifier leaves the statuses there are,
\* and no secret but the input is ever one that cannot be used.
THEOREM PlatformTypeCorrect == ASSUME P!PlatformConstantsOK PROVE P!Spec => []P!TypeOK
<1>1. Bounds
  BY DEF Bounds
<1>2. P!Spec => [](PlatformInv /\ KeyInv)
  BY <1>1, PlatformInvariant
<1>3. QED
  BY <1>2, PlatformTypes, PTL

\* The key that signs sessions stays: once the app secrets hold the key that is stored,
\* no step replaces it by another, however far the cache of the operator is behind,
\* whatever calls fail and whenever the process restarts.  It can only be deleted.
THEOREM KeyKeptCorrect == ASSUME P!PlatformConstantsOK PROVE P!Spec => P!KeyKept
<1>1. Bounds
  BY DEF Bounds
<1>2. P!Spec => [](PlatformInv /\ KeyInv)
  BY <1>1, PlatformInvariant
<1>3. ASSUME PlatformInv, KeyInv, [P!Next]_(P!vars)
      PROVE  [stored.app.key = stored.key /\ stored.key # 0
                => stored'.key \in {0, stored.key}]_stored
  BY <1>1, <1>3, PlatformStep DEF KeyStays
<1>4. QED
  BY <1>2, <1>3, PTL DEF P!Spec, P!KeyKept
=============================================================================

------------------------ MODULE ComponentReconciler ------------------------
(***************************************************************************)
(* One pass of the generic reconciler of pkg/components over one object,   *)
(* for any list of components: the copy it works on, the status modifiers  *)
(* it collects, the status write and its replay after a conflict, and the  *)
(* work queue that starts the next pass.  A controller's module            *)
(* instantiates this one and adds its components.                          *)
(*                                                                         *)
(* An object is a record with at least the fields spec and status; what a  *)
(* pass changes in memory outside status is never written back, because    *)
(* the status goes through the status subresource.                         *)
(***************************************************************************)
EXTENDS Naturals, TLAPS

CONSTANTS
    Apply(_, _),  \* the status modifiers collected, run on an object
    Then(_, _),   \* one modifier after another
    NoPatch,      \* no modifier
    Failed(_, _), \* SetErrorStatus of the object, with a message
    Absent,       \* no object of this name
    MaxTries      \* replays modifyStatus attempts (5)

VARIABLES
    top,  \* the object as the API server holds it
    view, \* its copy in the informer cache; current: no write is missing from it
    pass, \* the pass under way
    work  \* the work queue: the key is in it; a RequeueAfter is pending

reconcilerVars == <<top, view, pass, work>>

Idle == [at |-> "idle"]

\* newContext: the pass works on a copy from the cache, and keeps a clean one.
Fresh(stage) ==
    [at |-> stage, obj |-> view.obj, current |-> view.current, clean |-> view.obj,
     patch |-> NoPatch, requeue |-> FALSE, after |-> FALSE, tries |-> 0]

Start(o) ==
    /\ top = o /\ view = [obj |-> o, current |-> TRUE]
    /\ pass = Idle /\ work = [queued |-> TRUE, timer |-> FALSE]

Begin(stage) ==
    /\ pass.at = "idle" /\ work.queued
    /\ work' = [work EXCEPT !.queued = FALSE]
    /\ pass' = IF view.obj = Absent THEN Idle ELSE Fresh(stage)
    /\ UNCHANGED <<top, view>>

\* A component returns a Result (mergeResult).
Return(stage, patch, requeue, after) ==
    pass' = [pass EXCEPT !.at = stage, !.obj = Apply(patch, @), !.patch = Then(@, patch),
                         !.requeue = @ \/ requeue, !.after = @ \/ after]

\* A component returns an error, perhaps with a Result: the pass is over, and only
\* the copy of the pass is marked.
ReturnError(message, patch, requeue) ==
    pass' = [pass EXCEPT !.at = "save", !.obj = Failed(Apply(patch, @), message),
                         !.patch = Then(@, patch), !.requeue = @ \/ requeue]

\* ctx.Update of the object, or of a copy of it, after which the pass goes on with a
\* resourceVersion that is out of date; the status is not written.  Refused unless
\* nobody has written since.
Update(o, memory, stage, copied, requeue) ==
    /\ pass.current
    /\ top' = o
    /\ view' = [view EXCEPT !.current = FALSE]
    /\ pass' = [pass EXCEPT !.at = stage, !.obj = memory, !.current = ~copied,
                            !.requeue = @ \/ requeue]

\* RequeueAfter takes precedence over Requeue.
Leave ==
    /\ pass' = Idle
    /\ work' = [queued |-> work.queued \/ (pass.requeue /\ ~pass.after),
                timer  |-> work.timer \/ pass.after]

StatusChanged == pass.obj.status # pass.clean.status

SaveNothing ==
    /\ pass.at = "save" /\ ~StatusChanged
    /\ Leave
    /\ UNCHANGED <<top, view>>

\* Mutant: the status is written whatever has been written since.
SaveFastBlind ==
    /\ pass.at = "save" /\ StatusChanged /\ top # Absent
    /\ top' = [top EXCEPT !.status = pass.obj.status]
    /\ view' = [view EXCEPT !.current = FALSE]
    /\ Leave

SaveFast ==
    /\ pass.at = "save" /\ StatusChanged /\ pass.current /\ top # Absent
    /\ top' = [top EXCEPT !.status = pass.obj.status]
    /\ view' = [view EXCEPT !.current = FALSE]
    /\ Leave

SaveConflict(failing) ==
    /\ pass.at = "save" /\ StatusChanged /\ (~pass.current \/ failing)
    /\ pass' = [pass EXCEPT !.at = "replay"]
    /\ UNCHANGED <<top, view, work>>

\* The modifiers run again, on the copy in the cache; an object that is gone from
\* there is left alone.
Replay ==
    /\ pass.at = "replay"
    /\ \/ /\ view.obj # Absent /\ view.current
          /\ top' = [top EXCEPT !.status = Apply(pass.patch, view.obj).status]
          /\ view' = [view EXCEPT !.current = (top' = top)]
       \/ view.obj = Absent /\ UNCHANGED <<top, view>>
    /\ Leave

ReplayRefused(failing) == view.obj # Absent /\ (~view.current \/ failing)

\* Mutant: no limit to the replays.
ReplayConflictForever(failing) ==
    /\ pass.at = "replay" /\ ReplayRefused(failing)
    /\ pass' = [pass EXCEPT !.tries = @ + 1]
    /\ UNCHANGED <<top, view, work>>

ReplayConflict(failing) ==
    /\ pass.at = "replay" /\ ReplayRefused(failing) /\ pass.tries + 1 < MaxTries
    /\ pass' = [pass EXCEPT !.tries = @ + 1]
    /\ UNCHANGED <<top, view, work>>

ReplayGiveUp(failing) ==
    /\ pass.at = "replay" /\ ReplayRefused(failing) /\ pass.tries + 1 = MaxTries
    /\ pass' = Idle /\ work' = [work EXCEPT !.queued = TRUE]
    /\ UNCHANGED <<top, view>>

Save(failing) ==
    SaveNothing \/ SaveFast \/ SaveConflict(failing) \/ Replay
      \/ ReplayConflict(failing) \/ ReplayGiveUp(failing)

-----------------------------------------------------------------------------
(* What starts passes, and what disturbs them.                              *)

\* An event of something the controller watches.
Event == work' = [work EXCEPT !.queued = TRUE]

Sync ==
    /\ ~view.current
    /\ view' = [obj |-> top, current |-> TRUE]
    /\ Event /\ UNCHANGED <<top, pass>>

TimerFires ==
    /\ work.timer
    /\ work' = [queued |-> TRUE, timer |-> FALSE]
    /\ UNCHANGED <<top, view, pass>>

\* A resync of the informers, or an event that means nothing to this object.
OtherEvent == ~work.queued /\ Event /\ UNCHANGED <<top, view, pass>>

\* Somebody else, or a component through another copy, writes the object.
Write(o) ==
    /\ top' = o /\ view' = [view EXCEPT !.current = FALSE]
    /\ pass' = IF pass.at = "idle" THEN pass ELSE [pass EXCEPT !.current = FALSE]

\* A new process lists everything first.
Restart ==
    /\ pass' = Idle /\ view' = [obj |-> top, current |-> TRUE]
    /\ work' = [queued |-> TRUE, timer |-> FALSE]
    /\ UNCHANGED top

-----------------------------------------------------------------------------
(* The types, for sets of objects, modifiers, components and messages, and  *)
(* what the lemmas below ask of the modifiers of a controller.              *)

Passes(Objects, Patches, Stages) ==
    {Idle} \cup
    [at : Stages \cup {"save", "replay"}, obj : Objects \ {Absent}, current : BOOLEAN,
     clean : Objects \ {Absent}, patch : Patches, requeue : BOOLEAN, after : BOOLEAN,
     tries : 0 .. MaxTries]

TypesOK(Objects, Patches, Stages) ==
    /\ top \in Objects
    /\ view \in [obj : Objects, current : BOOLEAN]
    /\ pass \in Passes(Objects, Patches, Stages)
    /\ work \in [queued : BOOLEAN, timer : BOOLEAN]

ModifiersOK(Objects, Patches, Messages) ==
    /\ MaxTries \in Nat \ {0} /\ NoPatch \in Patches
    /\ \A p, q \in Patches : Then(p, q) \in Patches
    /\ \A p \in Patches, o \in Objects \ {Absent} : Apply(p, o) \in Objects \ {Absent}
    /\ \A m \in Messages, o \in Objects \ {Absent} : Failed(o, m) \in Objects \ {Absent}
    /\ \A o, s \in Objects \ {Absent} :
         [o EXCEPT !.status = s.status] \in Objects \ {Absent}

\* An object before and after a write of its status.
StatusWritten(o, p) == p = o \/ (o # Absent /\ p # Absent /\ \E s : p = [o EXCEPT !.status = s])

\* A cache that misses no write holds the object of the API server.
CacheOK == view.current => view.obj = top

\* A pass that begins is of its type, and takes nothing but the key off the queue.
LEMMA BeginTypes ==
    ASSUME NEW Objects, NEW Patches, NEW Messages, NEW Stages,
           NEW stage \in Stages \cup {"save"}, ModifiersOK(Objects, Patches, Messages),
           TypesOK(Objects, Patches, Stages), Begin(stage)
    PROVE  TypesOK(Objects, Patches, Stages)'
<1>1. work' \in [queued : BOOLEAN, timer : BOOLEAN]
  BY DEF TypesOK, Begin
<1>2. pass' \in Passes(Objects, Patches, Stages)
  <2>1. CASE view.obj = Absent
    BY <2>1 DEF Begin, Passes
  <2>2. CASE view.obj # Absent
    <3>1. pass' = Fresh(stage) /\ view.obj \in Objects \ {Absent} /\ view.current \in BOOLEAN
      BY <2>2 DEF Begin, TypesOK
    <3>2. NoPatch \in Patches /\ 0 \in 0 .. MaxTries
      BY DEF ModifiersOK
    <3>3. QED
      BY <3>1, <3>2, Zenon DEF Passes, Fresh
  <2>3. QED
    BY <2>1, <2>2
<1>3. QED
  BY <1>1, <1>2 DEF TypesOK, Begin

\* What a component returns leaves a pass of its type.
LEMMA ReturnTypes ==
    ASSUME NEW Objects, NEW Patches, NEW Messages, NEW Stages,
           NEW stage \in Stages \cup {"save"}, NEW patch \in Patches,
           NEW requeue \in BOOLEAN, NEW after \in BOOLEAN,
           ModifiersOK(Objects, Patches, Messages),
           pass \in Passes(Objects, Patches, Stages), pass # Idle,
           Return(stage, patch, requeue, after)
    PROVE  pass' \in Passes(Objects, Patches, Stages)
BY DEF ModifiersOK, Passes, Return

\* So does an error.
LEMMA ErrorTypes ==
    ASSUME NEW Objects, NEW Patches, NEW Messages, NEW Stages,
           NEW message \in Messages, NEW patch \in Patches, NEW requeue \in BOOLEAN,
           ModifiersOK(Objects, Patches, Messages),
           pass \in Passes(Objects, Patches, Stages), pass # Idle,
           ReturnError(message, patch, requeue)
    PROVE  pass' \in Passes(Objects, Patches, Stages)
BY DEF ModifiersOK, Passes, ReturnError

\* An Update of the object leaves everything of its type.
LEMMA UpdateTypes ==
    ASSUME NEW Objects, NEW Patches, NEW Stages, NEW o \in Objects,
           NEW memory \in Objects \ {Absent}, NEW stage \in Stages \cup {"save"},
           NEW copied \in BOOLEAN, NEW requeue \in BOOLEAN,
           TypesOK(Objects, Patches, Stages), pass # Idle,
           Update(o, memory, stage, copied, requeue), work' = work
    PROVE  TypesOK(Objects, Patches, Stages)'
BY DEF TypesOK, Passes, Update

\* So does the end of a pass.
LEMMA LeaveTypes ==
    ASSUME NEW Objects, NEW Patches, NEW Stages,
           TypesOK(Objects, Patches, Stages), pass # Idle, Leave
    PROVE  /\ pass' \in Passes(Objects, Patches, Stages)
           /\ work' \in [queued : BOOLEAN, timer : BOOLEAN]
BY DEF TypesOK, Passes, Leave

\* So does each step of writing the status.
LEMMA SaveTypes ==
    ASSUME NEW Objects, NEW Patches, NEW Messages, NEW Stages, NEW failing \in BOOLEAN,
           ModifiersOK(Objects, Patches, Messages),
           TypesOK(Objects, Patches, Stages), CacheOK, Save(failing)
    PROVE  TypesOK(Objects, Patches, Stages)'
<1>1. pass # Idle
  BY DEF Save, SaveNothing, SaveFast, SaveConflict, Replay, ReplayConflict, ReplayGiveUp,
         Idle
<1>2. CASE SaveNothing
  BY <1>1, <1>2, LeaveTypes DEF SaveNothing, TypesOK
<1>3. CASE SaveFast
  <2>1. top' \in Objects
    BY <1>1, <1>3 DEF SaveFast, TypesOK, Passes, ModifiersOK
  <2>2. QED
    BY <1>1, <1>3, <2>1, LeaveTypes DEF SaveFast, TypesOK
<1>4. CASE SaveConflict(failing)
  BY <1>1, <1>4 DEF SaveConflict, TypesOK, Passes
<1>5. CASE Replay
  <2>1. top' \in Objects /\ view' \in [obj : Objects, current : BOOLEAN]
    <3>1. CASE UNCHANGED <<top, view>>
      BY <3>1 DEF TypesOK
    <3>2. CASE ~UNCHANGED <<top, view>>
      <4>1. /\ view.obj # Absent /\ view.current
            /\ top' = [top EXCEPT !.status = Apply(pass.patch, view.obj).status]
            /\ view' = [view EXCEPT !.current = (top' = top)]
        BY <1>5, <3>2 DEF Replay
      <4>2. top = view.obj /\ top \in Objects \ {Absent} /\ pass.patch \in Patches
        BY <1>1, <4>1 DEF CacheOK, TypesOK, Passes
      <4>3. Apply(pass.patch, view.obj) \in Objects \ {Absent}
        BY <4>2 DEF ModifiersOK
      <4>4. top' \in Objects
        BY <4>1, <4>2, <4>3 DEF ModifiersOK
      <4>5. (top' = top) \in BOOLEAN
        OBVIOUS
      <4>6. QED
        BY <4>1, <4>4, <4>5, Zenon DEF TypesOK
    <3>3. QED
      BY <3>1, <3>2
  <2>2. QED
    BY <1>1, <1>5, <2>1, LeaveTypes DEF Replay, TypesOK
<1>6. CASE ReplayConflict(failing)
  BY <1>1, <1>6 DEF ReplayConflict, TypesOK, Passes, ModifiersOK
<1>7. CASE ReplayGiveUp(failing)
  BY <1>1, <1>7 DEF ReplayGiveUp, TypesOK, Passes
<1>8. QED
  BY <1>2, <1>3, <1>4, <1>5, <1>6, <1>7 DEF Save

\* All that a step of writing the status does to the object, to the cache and to what
\* the pass holds.
LEMMA SaveEffect ==
    ASSUME NEW Objects, NEW Patches, NEW Messages, NEW Stages, NEW failing \in BOOLEAN,
           ModifiersOK(Objects, Patches, Messages),
           TypesOK(Objects, Patches, Stages), CacheOK, Save(failing)
    PROVE  /\ pass # Idle /\ pass.at \in {"save", "replay"}
           /\ StatusWritten(top, top')
           /\ view'.obj = view.obj /\ (view'.current => view.current /\ top' = top)
           /\ pass' = Idle \/ pass'.at = "replay"
<1>1. pass # Idle /\ pass.at \in {"save", "replay"}
  BY DEF Save, SaveNothing, SaveFast, SaveConflict, Replay, ReplayConflict, ReplayGiveUp,
         Idle
<1>2. pass' = Idle \/ pass'.at = "replay"
  BY <1>1 DEF Save, SaveNothing, SaveFast, SaveConflict, Replay, ReplayConflict, ReplayGiveUp,
         Leave, TypesOK, Passes
<1>3. CASE UNCHANGED <<top, view>>
  BY <1>1, <1>2, <1>3 DEF StatusWritten
<1>4. CASE SaveFast
  <2>1. view'.obj = view.obj /\ ~view'.current
    BY <1>4 DEF SaveFast, TypesOK
  <2>2. top' \in Objects \ {Absent}
    BY <1>1, <1>4 DEF SaveFast, TypesOK, Passes, ModifiersOK
  <2>3. StatusWritten(top, top')
    BY <1>4, <2>2 DEF SaveFast, StatusWritten
  <2>4. QED
    BY <1>1, <1>2, <2>1, <2>3
<1>5. CASE Replay /\ ~UNCHANGED <<top, view>>
  <2>1. /\ view.obj # Absent /\ view.current
        /\ top' = [top EXCEPT !.status = Apply(pass.patch, view.obj).status]
        /\ view' = [view EXCEPT !.current = (top' = top)]
    BY <1>5 DEF Replay
  <2>2. top = view.obj /\ top \in Objects \ {Absent} /\ pass.patch \in Patches
    BY <1>1, <2>1 DEF CacheOK, TypesOK, Passes
  <2>3. top' \in Objects \ {Absent}
    BY <2>1, <2>2 DEF ModifiersOK
  <2>4. StatusWritten(top, top')
    BY <2>1, <2>2, <2>3 DEF StatusWritten
  <2>5. view'.obj = view.obj /\ view'.current = (top' = top)
    BY <2>1, Zenon DEF TypesOK
  <2>6. QED
    BY <1>1, <1>2, <2>1, <2>4, <2>5
<1>6. QED
  BY <1>3, <1>4, <1>5
     DEF Save, SaveNothing, SaveConflict, ReplayConflict, ReplayGiveUp

\* The status written is that of the copy, or what the modifiers make of that of the cache.
LEMMA SaveStatus ==
    ASSUME NEW Objects, NEW Patches, NEW Stages, NEW failing \in BOOLEAN,
           TypesOK(Objects, Patches, Stages), CacheOK, Save(failing)
    PROVE  /\ \/ top' = top
              \/ /\ top # Absent /\ pass.current
                 /\ top' = [top EXCEPT !.status = pass.obj.status]
              \/ /\ view.obj # Absent /\ view.current
                 /\ top' = [top EXCEPT !.status = Apply(pass.patch, view.obj).status]
           /\ \/ pass' = Idle
              \/ /\ pass'.obj = pass.obj /\ pass'.patch = pass.patch
                 /\ pass'.current = pass.current /\ pass'.clean = pass.clean
                 /\ UNCHANGED <<top, view>>
<1>1. pass # Idle
  BY DEF Save, SaveNothing, SaveFast, SaveConflict, Replay, ReplayConflict, ReplayGiveUp,
         Idle
<1>2. pass \in Passes(Objects, Patches, Stages)
  BY DEF TypesOK
<1>3. CASE UNCHANGED top
  BY <1>1, <1>2, <1>3 DEF Save, SaveNothing, SaveFast, SaveConflict, Replay, ReplayConflict,
     ReplayGiveUp, Leave, Passes
<1>4. CASE SaveFast
  BY <1>4 DEF SaveFast, Leave
<1>5. CASE Replay /\ ~UNCHANGED top
  <2>1. /\ view.obj # Absent /\ view.current
        /\ top' = [top EXCEPT !.status = Apply(pass.patch, view.obj).status]
    BY <1>5 DEF Replay
  <2>2. QED
    BY <1>5, <2>1 DEF Replay, Leave
<1>6. QED
  BY <1>3, <1>4, <1>5
     DEF Save, SaveNothing, SaveConflict, ReplayConflict, ReplayGiveUp

\* The cache learns of the object: the types are kept, and a cache that claims to be
\* current is.
LEMMA SyncTypes ==
    ASSUME NEW Objects, NEW Patches, NEW Stages, TypesOK(Objects, Patches, Stages), Sync
    PROVE  TypesOK(Objects, Patches, Stages)' /\ CacheOK'
BY DEF TypesOK, Sync, Event, CacheOK

\* The same when somebody writes the object.
LEMMA WriteTypes ==
    ASSUME NEW Objects, NEW Patches, NEW Stages, NEW o \in Objects,
           TypesOK(Objects, Patches, Stages), Write(o)
    PROVE  /\ top' \in Objects /\ view' \in [obj : Objects, current : BOOLEAN] /\ CacheOK'
           /\ pass' \in Passes(Objects, Patches, Stages)
BY DEF TypesOK, Passes, Write, Idle, CacheOK

\* The same when the process starts again.
LEMMA RestartTypes ==
    ASSUME NEW Objects, NEW Patches, NEW Stages, TypesOK(Objects, Patches, Stages), Restart
    PROVE  TypesOK(Objects, Patches, Stages)' /\ CacheOK'
BY DEF TypesOK, Passes, Restart, CacheOK
=============================================================================

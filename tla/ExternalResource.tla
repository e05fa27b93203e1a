-------------------------- MODULE ExternalResource --------------------------
(***************************************************************************)
(* What a finalizer is for.  An object stands for a resource outside the   *)
(* cluster.  The resource is only made while the object carries the        *)
(* finalizer, only destroyed once the user has deleted the object, and the *)
(* finalizer is only given up when the resource is gone or on its way out: *)
(* no resource is left behind without an object to answer for it.          *)
(***************************************************************************)
VARIABLES
    object,   \* "live", "deleting" (deletion requested) or "gone"
    guarded,  \* the object carries the finalizer of this resource
    resource  \* "absent", "present" or "going"

vars == <<object, guarded, resource>>

Init == object = "live" /\ guarded = FALSE /\ resource = "absent"

Guard ==
    /\ object = "live" /\ guarded' = TRUE
    /\ UNCHANGED <<object, resource>>

\* A reconcile that began before the deletion may still make it.
Make ==
    /\ guarded /\ resource = "absent" /\ resource' = "present"
    /\ UNCHANGED <<object, guarded>>

Delete ==
    /\ object = "live"
    /\ object' \in IF guarded THEN {"deleting"} ELSE {"deleting", "gone"}
    /\ UNCHANGED <<guarded, resource>>

Destroy ==
    /\ object = "deleting" /\ guarded /\ resource = "present"
    /\ resource' \in {"going", "absent"}
    /\ UNCHANGED <<object, guarded>>

Wither ==
    /\ resource = "going" /\ resource' = "absent"
    /\ UNCHANGED <<object, guarded>>

\* The last finalizer takes the object with it.
Release ==
    /\ object = "deleting" /\ resource # "present"
    /\ guarded' = FALSE /\ object' \in {"deleting", "gone"}
    /\ UNCHANGED resource

Next == Guard \/ Make \/ Delete \/ Destroy \/ Wither \/ Release

Spec == Init /\ [][Next]_vars
=============================================================================

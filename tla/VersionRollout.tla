--------------------------- MODULE VersionRollout ---------------------------
(***************************************************************************)
(* What a SummonPlatform promises the people who run it, without saying    *)
(* how: whatever version is asked for, now or next, the database is only   *)
(* reported migrated to, and the application only deployed at, a version   *)
(* whose migrations ran to success; and a report of a migration is never   *)
(* taken back without another one.                                         *)
(***************************************************************************)
CONSTANTS
    Versions,   \* the versions a user can ask for
    NoVersion   \* no version yet

VARIABLES
    wanted,     \* Spec.Version
    migrated,   \* versions whose migrations succeeded
    recorded,   \* Status.MigrateVersion
    deployed    \* the version in the pod templates

vars == <<wanted, migrated, recorded, deployed>>

Init ==
    /\ wanted \in Versions
    /\ migrated = {}
    /\ recorded = NoVersion /\ deployed = NoVersion

Ask ==
    /\ wanted' \in Versions
    /\ UNCHANGED <<migrated, recorded, deployed>>

Migrate ==
    /\ \E v \in Versions : migrated' = migrated \cup {v}
    /\ UNCHANGED <<wanted, recorded, deployed>>

Record ==
    /\ recorded' \in migrated
    /\ UNCHANGED <<wanted, migrated, deployed>>

Deploy ==
    /\ deployed' \in migrated
    /\ UNCHANGED <<wanted, migrated, recorded>>

Next == Ask \/ Migrate \/ Record \/ Deploy

Spec == Init /\ [][Next]_vars
=============================================================================

------------------------------- MODULE Catalog -------------------------------
(***************************************************************************)
(* The catalog's vocabulary and its read side.  Volume, disc and session   *)
(* statuses, the volume transition table (db/volumes.py) and the queries   *)
(* that decide what is archived, what is stageable, what is at risk and    *)
(* what may be deleted (db/queries.py), as operators over the tables:      *)
(*                                                                         *)
(*   status[v]    volumes.status, "absent" before the row is created and   *)
(*                "deleted" after delete_volume (ids are AUTOINCREMENT and  *)
(*                are never used again)                                    *)
(*   packsOn[v]   the volume_packs rows of v                               *)
(*   copies[v][l] volume_copies.status at location l, "none" without a row *)
(***************************************************************************)
EXTENDS Naturals, FiniteSets

CONSTANTS
    Packs,          \* restic packs, identified by their SHA-256
    Locations,      \* places discs are kept
    MaxVolumes      \* bound: volume ids are 1..MaxVolumes

ASSUME MaxVolumesAssumption == MaxVolumes \in Nat \ {0}

Volumes == 1..MaxVolumes

VolumeStatus == {"STAGING", "BURNING", "BURNED", "VERIFIED",
                 "CONSOLIDATING", "DEPRECATED", "DESTROYED"}

CopyStatus == {"ACTIVE", "DEPRECATED", "DESTROYED"}

SessionStatus == {"STAGED", "PARTIAL", "COMPLETE", "CLEANED"}

\* db/volumes.py VALID_TRANSITIONS
VALID_TRANSITIONS(s) ==
    CASE s = "STAGING"       -> {"BURNING", "DEPRECATED", "DESTROYED"}
      [] s = "BURNING"       -> {"BURNED", "VERIFIED", "STAGING", "DESTROYED"}
      [] s = "BURNED"        -> {"BURNING", "VERIFIED", "STAGING", "DESTROYED"}
      [] s = "VERIFIED"      -> {"DEPRECATED", "DESTROYED", "CONSOLIDATING"}
      [] s = "CONSOLIDATING" -> {"DEPRECATED", "VERIFIED"}
      [] s = "DEPRECATED"    -> {"DESTROYED"}
      [] OTHER               -> {}

DURABLE_VOLUME_STATUSES == {"BURNED", "VERIFIED", "CONSOLIDATING"}

-----------------------------------------------------------------------------
(* volume_copies *)

HasRows(copies, v)   == \E l \in Locations : copies[v][l] # "none"
HasActive(copies, v) == \E l \in Locations : copies[v][l] = "ACTIVE"

\* BURN-10: an ACTIVE disc, or no disc rows at all (counted by status alone)
LiveReplica(copies, v) == HasActive(copies, v) \/ ~HasRows(copies, v)

-----------------------------------------------------------------------------
(* Queries *)

\* _HAS_DURABLE_LINK
HasDurableLink(status, packsOn, p) ==
    \E v \in Volumes : /\ p \in packsOn[v]
                       /\ status[v] \in DURABLE_VOLUME_STATUSES

get_unarchived_packs(known, pruned, status, packsOn) ==
    {p \in known \ pruned : ~HasDurableLink(status, packsOn, p)}

\* Any volume status: only the disc row at the location counts.
get_unarchived_or_missing_at_location(known, pruned, copies, packsOn, loc) ==
    {p \in known \ pruned :
        ~ \E v \in Volumes : /\ p \in packsOn[v]
                             /\ copies[v][loc] = "ACTIVE"}

\* Packs of v with no other live replica; a CONSOLIDATING volume is not one.
get_at_risk_packs_for_volume(pruned, status, copies, packsOn, v) ==
    {p \in packsOn[v] \ pruned :
        ~ \E w \in Volumes \ {v} :
             /\ p \in packsOn[w]
             /\ status[w] \in {"BURNED", "VERIFIED"}
             /\ LiveReplica(copies, w)}

\* Mutant of get_ghost_volumes: disc rows are not looked at.
GhostByStatus(status, copies, old) ==
    {v \in old : status[v] \in {"STAGING", "BURNING"}}

\* old: the volumes created before the age cutoff
get_ghost_volumes(status, copies, old) ==
    {v \in old : /\ status[v] \in {"STAGING", "BURNING"}
                 /\ ~HasRows(copies, v)}

strandable_session_volumes(status, copies, members) ==
    {v \in members : /\ status[v] \in {"STAGING", "BURNING", "BURNED"}
                     /\ ~HasRows(copies, v)}

\* delta.py detect_pruned: an empty scan prunes nothing (unmounted mirror)
detect_pruned(known, pruned, seen) ==
    IF seen = {} THEN {} ELSE (known \ pruned) \ seen

=============================================================================

------------------------------- MODULE Archive -------------------------------
(***************************************************************************)
(* The archive pipeline of LCSAS: scan -> stage -> burn -> clean, receipt  *)
(* import, verification, disc bookkeeping and consolidation.               *)
(*                                                                         *)
(* Every command that writes holds the exclusive catalog lock              *)
(* (db/connection.py locked_connection) from start to exit, so at most one *)
(* command, op, is in progress.  A command is a sequence of steps that end *)
(* at its SQLite commits and at its file-system and device effects.        *)
(* Between two steps the process can die (Crash), the mirror can change    *)
(* (rustic takes no catalog lock) and a call can raise.                    *)
(***************************************************************************)
EXTENDS Catalog

CONSTANTS
    MaxSessions,    \* bound: burn sessions are 1..MaxSessions
    MaxCrashes,     \* bound: how often a process dies
    PruneFloor,     \* prune-sync asks above this many packs (10 in the code)
    Commands        \* the commands the owner runs in this instance

ASSUME ArchiveBounds ==
    /\ MaxSessions \in Nat \ {0}
    /\ MaxCrashes \in Nat
    /\ PruneFloor \in Nat

Sessions == 1..MaxSessions

VARIABLES
    \* --- the mirror and the staging area ---
    mirror,     \* each pack's file on the mirror: "none", "empty" (zero bytes), "whole"
    iso,        \* iso[v]: "none", "plain" (mastered), "ecc" (augmented), "gone"
    \* --- the catalog (committed) ---
    known,      \* rows of packs
    pruned,     \* packs with is_pruned = 1
    status,     \* volumes.status
    packsOn,    \* volume_packs
    copies,     \* volume_copies.status
    hashed,     \* volumes whose session_volumes row has an iso_sha256
    session,    \* burn_sessions.status
    svols,      \* session_volumes: members of each session
    noted,      \* volumes with a committed NOTE of their deprecation
    \* --- the running command ---
    op,
    \* --- history, read by the properties only ---
    disc,       \* images on the good discs this machine burned, per volume
    attested,   \* volumes somebody else vouched for (receipt, --mark-verified)
    missed,     \* packs whose file was not whole at some moment of the running scan
    crashes

catalog == <<known, pruned, status, packsOn, copies, hashed, session, svols, noted>>
vars == <<mirror, iso, catalog, op, disc, attested, missed, crashes>>

-----------------------------------------------------------------------------
(* The running command *)

Idle == [pc |-> "idle", sess |-> 0, loc |-> "none", vol |-> 0, packs |-> {},
         left |-> {}, todo |-> {}, members |-> {}, src |-> {}, dep |-> {},
         reburn |-> FALSE, failed |-> FALSE, any |-> FALSE, burnt |-> "none"]

PCs == {"idle", "scan.list", "scan", "remove", "stage.next", "stage.master", "stage.iso", "stage.ecc",
        "burn.next", "burn.write", "burn.verify", "burn.receipt",
        "clean.delete", "clean.mark", "purge",
        "deprecate", "consolidate"}

DiscKinds == {"good", "garbled", "unusable"}

Operation ==
    [pc : PCs, sess : {0} \cup Sessions, loc : {"none"} \cup Locations,
     vol : {0} \cup Volumes, packs : SUBSET Packs, left : SUBSET Packs, todo : SUBSET Volumes,
     members : SUBSET Volumes, src : SUBSET Volumes, dep : SUBSET Volumes,
     reburn : BOOLEAN, failed : BOOLEAN, any : BOOLEAN,
     burnt : {"none"} \cup DiscKinds]

\* Every per-record variable is a function of the catalog's tables; one type
\* invariant for the module.
TypeOK ==
    /\ mirror \in [Packs -> {"none", "empty", "whole"}]
    /\ iso \in [Volumes -> {"none", "plain", "ecc", "gone"}]
    /\ known \in SUBSET Packs
    /\ pruned \in SUBSET Packs
    /\ status \in [Volumes -> VolumeStatus \cup {"absent", "deleted"}]
    /\ packsOn \in [Volumes -> SUBSET Packs]
    /\ copies \in [Volumes -> [Locations -> CopyStatus \cup {"none"}]]
    /\ hashed \in SUBSET Volumes
    /\ session \in [Sessions -> SessionStatus \cup {"none"}]
    /\ svols \in [Sessions -> SUBSET Volumes]
    /\ noted \in SUBSET Volumes
    /\ op \in Operation
    /\ disc \in [Volumes -> SUBSET {"plain", "ecc"}]
    /\ attested \in SUBSET Volumes
    /\ missed \in SUBSET Packs
    /\ crashes \in 0..MaxCrashes

Init ==
    /\ mirror = [p \in Packs |-> "whole"]
    /\ iso = [v \in Volumes |-> "none"]
    /\ known = {} /\ pruned = {}
    /\ status = [v \in Volumes |-> "absent"]
    /\ packsOn = [v \in Volumes |-> {}]
    /\ copies = [v \in Volumes |-> [l \in Locations |-> "none"]]
    /\ hashed = {}
    /\ session = [s \in Sessions |-> "none"]
    /\ svols = [s \in Sessions |-> {}]
    /\ noted = {}
    /\ op = Idle
    /\ disc = [v \in Volumes |-> {}]
    /\ attested = {}
    /\ missed = {}
    /\ crashes = 0

\* A command is entered when no other one holds the catalog lock.
Enter(name) == op = Idle /\ name \in Commands
Exit        == op' = Idle
Step(pc)    == op.pc = pc

\* A volume whose row is in the catalog.
Exists(v) == status[v] \in VolumeStatus

CanMove(v, to) == to \in VALID_TRANSITIONS(status[v])

\* Each command's footprint, for UNCHANGED.
packTable  == <<known, pruned>>
volTables  == <<status, packsOn, copies, hashed, svols, noted>>
ghosts     == <<disc, attested, missed, crashes>>

-----------------------------------------------------------------------------
(* rustic, outside the lock: backup adds pack files, prune removes them *)

MirrorWrite(p) ==
    /\ mirror[p] # "whole"
    /\ mirror' = [mirror EXCEPT ![p] = "whole"]
    /\ UNCHANGED <<iso, catalog, op, ghosts>>

\* The file goes (rustic prune, an unmounted directory) or loses its bytes (a
\* host that dies before they reach the disk); a running scan misses it.
MirrorLose(p, to) ==
    /\ "prune" \in Commands
    /\ mirror[p] = "whole"
    /\ mirror' = [mirror EXCEPT ![p] = to]
    /\ missed' = IF op.pc = "scan.list" THEN missed \cup {p} ELSE missed
    /\ UNCHANGED <<iso, catalog, op, disc, attested, crashes>>

-----------------------------------------------------------------------------
(* lcsas scan, lcsas pack unprune *)

\* scan_mirror_packs opens data/: a data directory that is not there is an
\* empty result without an error, one that may not be read is an error.
ScanBegin(data) ==
    /\ Enter("scan")
    /\ op' = [Idle EXCEPT !.pc = "scan.list", !.left = IF data = "listed" THEN Packs ELSE {},
                          !.failed = (data = "denied")]
    /\ missed' = {p \in Packs : mirror[p] # "whole"}
    /\ UNCHANGED <<mirror, iso, catalog, disc, attested, crashes>>

\* The two-level layout is listed directory by directory while the mirror goes
\* on changing.  A readable file with bytes in it is found; a missing and an
\* empty one are passed over without an error (_register_pack), an unreadable
\* directory or file is one.
ScanDir(p, readable) ==
    /\ Step("scan.list") /\ p \in op.left
    /\ op' = [op EXCEPT !.left = @ \ {p},
                        !.packs = IF readable /\ mirror[p] = "whole" THEN @ \cup {p} ELSE @,
                        !.failed = @ \/ ~readable]
    /\ UNCHANGED <<mirror, iso, catalog, ghosts>>

\* Mutant of ScanRegister: prune-sync also after an incomplete scan.
ScanRegisterIncomplete(sync, yes) ==
    LET known1 == known \cup op.packs
        gone   == detect_pruned(known1, pruned, op.packs)
    IN  /\ Step("scan.list") /\ op.left = {}
        /\ known' = known1
        /\ op' = [Idle EXCEPT !.pc = "scan", !.packs = IF sync THEN gone ELSE {}]
        /\ UNCHANGED <<mirror, iso, pruned, volTables, session, ghosts>>

\* register_new_packs commits; prune-sync follows unless switched off, only on
\* a scan without errors and never en masse unconfirmed (> max(PruneFloor, 20%
\* of the active packs)).
ScanRegister(sync, yes) ==
    LET known1 == known \cup op.packs
        gone   == detect_pruned(known1, pruned, op.packs)
        mass   == /\ Cardinality(gone) > PruneFloor
                  /\ 5 * Cardinality(gone) > Cardinality(known1 \ pruned)
    IN  /\ Step("scan.list") /\ op.left = {}
        /\ known' = known1
        /\ op' = [Idle EXCEPT !.pc = "scan",
                     !.packs = IF sync /\ ~op.failed /\ (yes \/ ~mass) THEN gone ELSE {}]
        /\ UNCHANGED <<mirror, iso, pruned, volTables, session, ghosts>>

ScanPrune ==
    /\ Step("scan")
    /\ pruned' = pruned \cup op.packs
    /\ missed' = {}
    /\ Exit
    /\ UNCHANGED <<mirror, iso, known, volTables, session, disc, attested, crashes>>

PackUnprune(p) ==
    /\ Enter("unprune")
    /\ p \in pruned
    /\ pruned' = pruned \ {p}
    /\ Exit
    /\ UNCHANGED <<mirror, iso, known, volTables, session, ghosts>>

-----------------------------------------------------------------------------
(* lcsas repo remove [--force] *)

\* gone: the packs of the repository.  Without force a repository with a pack
\* that is not pruned is refused; with it those are marked pruned first.
RepoRemoveBegin(gone, force) ==
    /\ Enter("remove")
    /\ gone # {} /\ gone \subseteq known
    /\ gone \subseteq pruned \/ force
    /\ pruned' = pruned \cup gone
    /\ op' = [Idle EXCEPT !.pc = "remove", !.packs = gone]
    /\ UNCHANGED <<mirror, iso, known, volTables, session, ghosts>>

\* The volume_packs rows, whatever volume they belong to, and the packs rows.
RepoRemove ==
    /\ Step("remove")
    /\ packsOn' = [v \in Volumes |-> packsOn[v] \ op.packs]
    /\ known' = known \ op.packs
    /\ pruned' = pruned \ op.packs
    /\ Exit
    /\ UNCHANGED <<mirror, iso, status, copies, hashed, svols, noted, session, ghosts>>

-----------------------------------------------------------------------------
(* Shared catalog operations *)

\* db/volumes.py delete_volume: the session_volumes, volume_packs and volumes
\* rows, one commit; volume_copies rows go by ON DELETE CASCADE.  st is the
\* rest of the volumes table after the command's other status updates.
delete_volume(v, st) ==
    /\ status' = [st EXCEPT ![v] = "deleted"]
    /\ packsOn' = [packsOn EXCEPT ![v] = {}]
    /\ copies' = [copies EXCEPT ![v] = [l \in Locations |-> "none"]]
    /\ svols' = [s \in Sessions |-> svols[s] \ {v}]
    /\ hashed' = hashed \ {v}

\* merger.py abort_consolidation, run by cmd_consolidate when staging raises:
\* the sources marked CONSOLIDATING go back to VERIFIED.
abort_consolidation(st) ==
    [v \in Volumes |-> IF v \in op.src THEN "VERIFIED" ELSE st[v]]

-----------------------------------------------------------------------------
(* lcsas stage (and the staging half of lcsas consolidate --execute) *)

\* _gather_packs_for_staging
gather_packs(target) ==
    IF target = "none"
    THEN get_unarchived_packs(known, pruned, status, packsOn)
    ELSE get_unarchived_or_missing_at_location(known, pruned, copies, packsOn, target)

\* A volume id and a session id the next INSERT can get (AUTOINCREMENT).
FreshVolume(v)  == /\ status[v] = "absent"
                   /\ \A u \in Volumes : u < v => status[u] # "absent"
FreshSession(s) == /\ session[s] = "none"
                   /\ \A t \in Sessions : t < s => session[t] # "none"

\* create_session is committed before anything is built.  Bound: a volume id
\* is left for the packs to go to.
CanOpenSession(s) == FreshSession(s) /\ status[MaxVolumes] = "absent"

create_session(s) == [session EXCEPT ![s] = "STAGED"]

Staging(s, pool, src) ==
    [Idle EXCEPT !.pc = "stage.next", !.sess = s, !.packs = pool, !.src = src]

\* stage(): "No packs need staging." leaves everything as it was.
StageBegin(s, target) ==
    /\ Enter("stage")
    /\ gather_packs(target) # {}
    /\ CanOpenSession(s)
    /\ session' = create_session(s)
    /\ op' = Staging(s, gather_packs(target), {})
    /\ UNCHANGED <<mirror, iso, packTable, volTables, ghosts>>

\* Mutant of StageVolume: the session_volumes row is not written.
StageVolumeUnlinked(v, bin) ==
    /\ Step("stage.next")
    /\ FreshVolume(v)
    /\ bin # {} /\ bin \subseteq op.packs /\ \A p \in bin : mirror[p] = "whole"
    /\ v = MaxVolumes => bin = op.packs
    /\ status' = [status EXCEPT ![v] = "STAGING"]
    /\ packsOn' = [packsOn EXCEPT ![v] = bin]
    /\ op' = [op EXCEPT !.pc = "stage.master", !.vol = v, !.packs = @ \ bin]
    /\ UNCHANGED <<mirror, iso, packTable, copies, hashed, svols, noted, session, ghosts>>

\* The first half of _stage_single_volume for one bin of the plan.  The plan
\* of _multi_bin_pack is an ordered partition of the pool; taking any nonempty
\* part of what is left at each turn gives them all.  The packs must be on the
\* mirror when they are copied; then volume, links and session row commit in
\* one transaction.  Bound: the last volume id takes every remaining pack.
StageVolume(v, bin) ==
    /\ Step("stage.next")
    /\ FreshVolume(v)
    /\ bin # {} /\ bin \subseteq op.packs /\ \A p \in bin : mirror[p] = "whole"
    /\ v = MaxVolumes => bin = op.packs
    /\ status' = [status EXCEPT ![v] = "STAGING"]
    /\ packsOn' = [packsOn EXCEPT ![v] = bin]
    /\ svols' = [svols EXCEPT ![op.sess] = @ \cup {v}]
    /\ op' = [op EXCEPT !.pc = "stage.master", !.vol = v, !.packs = @ \ bin]
    /\ UNCHANGED <<mirror, iso, packTable, copies, hashed, noted, session, ghosts>>

\* MirrorUnavailableError, a missing or corrupt pack file, an escrow drift:
\* raised before the catalog write; after the last volume, the session manifest
\* that cannot be written.  The session row and earlier volumes stay.
StageRefused ==
    /\ Step("stage.next")
    /\ status' = abort_consolidation(status)
    /\ Exit
    /\ UNCHANGED <<mirror, iso, packTable, packsOn, copies, hashed, svols, noted, session, ghosts>>

\* Disc catalog and files injected, then create_iso renames its .iso.tmp.
StageIso ==
    /\ Step("stage.master")
    /\ iso' = [iso EXCEPT ![op.vol] = "plain"]
    /\ op' = [op EXCEPT !.pc = "stage.iso"]
    /\ UNCHANGED <<mirror, catalog, ghosts>>

\* augment_iso renames the augmented copy over the mastered image.
StageEcc ==
    /\ Step("stage.iso")
    /\ iso' = [iso EXCEPT ![op.vol] = "ecc"]
    /\ op' = [op EXCEPT !.pc = "stage.ecc"]
    /\ UNCHANGED <<mirror, catalog, ghosts>>

\* except BaseException in _stage_single_volume: the committed volume is
\* deleted again, whatever failed (Ctrl-C included).
StageFail ==
    /\ op.pc \in {"stage.master", "stage.iso", "stage.ecc"}
    /\ delete_volume(op.vol, abort_consolidation(status))
    /\ Exit
    /\ UNCHANGED <<mirror, iso, packTable, session, noted, ghosts>>

\* update_session_volume_iso, then the next bin.
StageHash ==
    /\ Step("stage.ecc")
    /\ hashed' = hashed \cup {op.vol}
    /\ op' = [op EXCEPT !.pc = "stage.next", !.vol = 0]
    /\ UNCHANGED <<mirror, iso, packTable, status, packsOn, copies, svols, noted, session, ghosts>>

\* Hashing the finished image raised, outside _stage_single_volume's handler:
\* the volume stays, without a hash.
StageHashFail ==
    /\ Step("stage.ecc")
    /\ status' = abort_consolidation(status)
    /\ Exit
    /\ UNCHANGED <<mirror, iso, packTable, packsOn, copies, hashed, svols, noted, session, ghosts>>

StageEnd ==
    /\ Step("stage.next")
    /\ op.packs = {}
    /\ Exit
    /\ UNCHANGED <<mirror, iso, catalog, ghosts>>

-----------------------------------------------------------------------------
(* lcsas burn: burn_session *)

BurnBegin(s, l) ==
    /\ Enter("burn")
    /\ session[s] # "none"
    /\ op' = [Idle EXCEPT !.pc = "burn.next", !.sess = s, !.loc = l, !.todo = svols[s]]
    /\ UNCHANGED <<mirror, iso, catalog, ghosts>>

\* get_session_volumes orders by volume_id.
IsNext(v) == v \in op.todo /\ \A u \in op.todo : v <= u

\* The drive holds a blank disc and the ISO is there: BURNING is committed
\* before the laser starts, unless the volume is already VERIFIED (re-burn).
BurnLoad(v) ==
    /\ Step("burn.next") /\ IsNext(v)
    /\ iso[v] \in {"plain", "ecc"}
    /\ status[v] = "VERIFIED" \/ CanMove(v, "BURNING")
    /\ status' = [status EXCEPT ![v] = IF @ = "VERIFIED" THEN @ ELSE "BURNING"]
    /\ op' = [op EXCEPT !.pc = "burn.write", !.vol = v, !.reburn = (status[v] = "VERIFIED")]
    /\ UNCHANGED <<mirror, iso, packTable, packsOn, copies, hashed, svols, noted, session, ghosts>>

\* Raised outside the try: a disc that is not blank, a missing ISO, an owner
\* prompt (before a volume, and after one that was burned) without a terminal.
BurnRefused ==
    /\ Step("burn.next") /\ (op.todo # {} \/ op.any)
    /\ Exit
    /\ UNCHANGED <<mirror, iso, catalog, ghosts>>

\* Raised outside the try: update_status rejects the move to BURNING.
BurnBadTransition(v) ==
    /\ Step("burn.next") /\ IsNext(v)
    /\ iso[v] \in {"plain", "ecc"}
    /\ status[v] # "VERIFIED" /\ ~CanMove(v, "BURNING")
    /\ Exit
    /\ UNCHANGED <<mirror, iso, catalog, ghosts>>

\* burn_iso returned; what is now in the drive is up to the hardware: the
\* image, a readable disc with the right label and wrong bytes, or a disc
\* that does not read or is another volume.
BurnWrite(kind) ==
    /\ Step("burn.write")
    /\ op' = [op EXCEPT !.pc = "burn.verify", !.burnt = kind]
    /\ disc' = [disc EXCEPT ![op.vol] =
                   IF kind = "good" THEN @ \cup {iso[op.vol]} ELSE @]
    /\ UNCHANGED <<mirror, iso, catalog, attested, missed, crashes>>

\* _verify_burned_disc: readable, right label, and the device hash equals the
\* recorded one, or the hash of the ISO still on disk when none is recorded.
\* With neither, readability is all there is.
verify_burned_disc(v, kind) ==
    /\ kind # "unusable"
    /\ v \in hashed \/ iso[v] \in {"plain", "ecc"} => kind = "good"

\* One transaction: status and, on a pass, the disc row.
BurnCommit ==
    LET v  == op.vol
        ok == verify_burned_disc(v, op.burnt)
    IN  /\ Step("burn.verify")
        /\ status' = IF op.reburn THEN status
                     ELSE [status EXCEPT ![v] = IF ok THEN "VERIFIED" ELSE "STAGING"]
        /\ copies' = IF ok THEN [copies EXCEPT ![v][op.loc] = "ACTIVE"] ELSE copies
        /\ op' = [op EXCEPT !.pc = "burn.receipt", !.any = TRUE, !.failed = @ \/ ~ok,
                            !.burnt = "none"]
        /\ UNCHANGED <<mirror, iso, packTable, packsOn, hashed, svols, noted, session, ghosts>>

\* Mutant of BurnException: the volume is not put back to STAGING.
BurnExceptionKeepsBurning ==
    /\ op.pc \in {"burn.write", "burn.verify"}
    /\ session' = IF op.any THEN [session EXCEPT ![op.sess] = "PARTIAL"] ELSE session
    /\ Exit
    /\ UNCHANGED <<mirror, iso, packTable, volTables, ghosts>>

\* burn_iso or the read-back raised before the commit.
BurnException ==
    /\ op.pc \in {"burn.write", "burn.verify"}
    /\ status' = IF op.reburn THEN status ELSE [status EXCEPT ![op.vol] = "STAGING"]
    /\ session' = IF op.any THEN [session EXCEPT ![op.sess] = "PARTIAL"] ELSE session
    /\ Exit
    /\ UNCHANGED <<mirror, iso, packTable, packsOn, copies, hashed, svols, noted, ghosts>>

\* The durable receipt is on disk; on to the next volume.
BurnReceipt ==
    /\ Step("burn.receipt")
    /\ op' = [op EXCEPT !.pc = "burn.next", !.todo = @ \ {op.vol}, !.vol = 0, !.reburn = FALSE]
    /\ UNCHANGED <<mirror, iso, catalog, ghosts>>

\* Writing the receipt raised after the commit: on a first burn the handler's
\* own update_status(STAGING) is not a legal move and raises too, so the
\* session keeps its status; on a re-burn it becomes PARTIAL.
BurnReceiptFail ==
    /\ Step("burn.receipt")
    /\ session' = IF op.reburn THEN [session EXCEPT ![op.sess] = "PARTIAL"] ELSE session
    /\ Exit
    /\ UNCHANGED <<mirror, iso, packTable, volTables, ghosts>>

\* Mutant of BurnEnd: failed verifications are forgotten.
BurnEndAlwaysComplete ==
    /\ Step("burn.next") /\ op.todo = {}
    /\ session' = [session EXCEPT ![op.sess] = "COMPLETE"]
    /\ Exit
    /\ UNCHANGED <<mirror, iso, packTable, volTables, ghosts>>

\* update_session_status at the end of burn_session.
BurnEnd ==
    /\ Step("burn.next") /\ op.todo = {}
    /\ session' = [session EXCEPT ![op.sess] = IF op.failed THEN "PARTIAL" ELSE "COMPLETE"]
    /\ Exit
    /\ UNCHANGED <<mirror, iso, packTable, volTables, ghosts>>

-----------------------------------------------------------------------------
(* lcsas stage --clean [--force], lcsas session abort, lcsas catalog reconcile *)

\* Mutant of CleanBegin: force skips the check and deletes no volume.
CleanBeginStrands(s, force) ==
    /\ Enter("clean")
    /\ session[s] # "none"
    /\ strandable_session_volumes(status, copies, svols[s]) # {} => force
    /\ op' = [Idle EXCEPT !.pc = "clean.delete", !.sess = s, !.members = svols[s]]
    /\ UNCHANGED <<mirror, iso, catalog, ghosts>>

\* clean_session refuses while a volume without any disc row would be
\* stranded; with force (and in abort_session) those volumes are deleted
\* first, one commit each, then the ISOs and the staging tree go, then the
\* session is marked.
CleanBegin(s, force) ==
    LET strandable == strandable_session_volumes(status, copies, svols[s])
    IN  /\ Enter("clean")
        /\ session[s] # "none"
        /\ strandable # {} => force
        /\ op' = [Idle EXCEPT !.pc = "clean.delete", !.sess = s,
                              !.todo = strandable, !.members = svols[s]]
        /\ UNCHANGED <<mirror, iso, catalog, ghosts>>

CleanDelete(v) ==
    /\ Step("clean.delete") /\ v \in op.todo
    /\ delete_volume(v, status)
    /\ op' = [op EXCEPT !.todo = @ \ {v}]
    /\ UNCHANGED <<mirror, iso, packTable, noted, session, ghosts>>

CleanFiles ==
    /\ Step("clean.delete") /\ op.todo = {}
    /\ iso' = [v \in Volumes |-> IF v \in op.members /\ iso[v] # "none" THEN "gone" ELSE iso[v]]
    /\ op' = [op EXCEPT !.pc = "clean.mark"]
    /\ UNCHANGED <<mirror, catalog, ghosts>>

\* update_session_status(CLEANED) ends clean_session.
CleanMark ==
    /\ Step("clean.mark")
    /\ session' = [session EXCEPT ![op.sess] = "CLEANED"]
    /\ Exit
    /\ UNCHANGED <<mirror, iso, packTable, volTables, ghosts>>

\* session abort --volume: never-burned volumes only.
AbortVolume(v) ==
    /\ Enter("clean")
    /\ status[v] \in {"STAGING", "BURNING"} /\ ~HasRows(copies, v)
    /\ delete_volume(v, status)
    /\ Exit
    /\ UNCHANGED <<mirror, iso, packTable, noted, session, ghosts>>

\* reconcile --fix: the ghosts found once, then deleted one by one.
ReconcileBegin(old) ==
    LET found == get_ghost_volumes(status, copies, old)
    IN  /\ Enter("reconcile")
        /\ found # {}
        /\ op' = [Idle EXCEPT !.pc = "purge", !.todo = found]
        /\ UNCHANGED <<mirror, iso, catalog, ghosts>>

ReconcileDelete(v) ==
    /\ Step("purge") /\ v \in op.todo
    /\ delete_volume(v, status)
    /\ op' = IF op.todo = {v} THEN Idle ELSE [op EXCEPT !.todo = @ \ {v}]
    /\ UNCHANGED <<mirror, iso, packTable, noted, session, ghosts>>

-----------------------------------------------------------------------------
(* lcsas catalog import-receipts, lcsas verify *)

\* Mutant of ImportReceipt: a failed receipt records its disc.
ImportFailedReceipt(v, l, verdict) ==
    /\ Enter("import")
    /\ Exists(v) /\ iso[v] # "none"
    /\ copies' = [copies EXCEPT ![v][l] = "ACTIVE"]
    /\ attested' = IF verdict = "false" THEN attested ELSE attested \cup {v}
    /\ Exit
    /\ UNCHANGED <<mirror, iso, packTable, status, packsOn, hashed, svols, noted, session, disc, missed, crashes>>

\* A receipt of an image burned elsewhere: verify_passed true, false, null
\* (burn-iso --no-verify) or missing.  Status and disc row commit together.
\* Only a STAGING volume moves; every receipt but a failed one records a disc.
ImportReceipt(v, l, verdict) ==
    /\ Enter("import")
    /\ Exists(v) /\ iso[v] # "none"
    /\ status' = IF status[v] = "STAGING" /\ verdict # "false"
                 THEN [status EXCEPT ![v] = IF verdict = "true" THEN "VERIFIED" ELSE "BURNED"]
                 ELSE status
    /\ copies' = IF verdict = "false" THEN copies
                 ELSE [copies EXCEPT ![v][l] = "ACTIVE"]
    /\ attested' = IF verdict = "false" THEN attested ELSE attested \cup {v}
    /\ Exit
    /\ UNCHANGED <<mirror, iso, packTable, packsOn, hashed, svols, noted, session, disc, missed, crashes>>

\* verify --mark-verified: the owner's word, no disc row.
MarkVerified(v) ==
    /\ Enter("verify")
    /\ status[v] \in {"BURNED", "STAGING"}
    /\ status' = [status EXCEPT ![v] = "VERIFIED"]
    /\ attested' = attested \cup {v}
    /\ Exit
    /\ UNCHANGED <<mirror, iso, packTable, packsOn, copies, hashed, svols, noted, session, disc, missed, crashes>>

\* verify, verify --all, verify --all --disc: a pass promotes a BURNED volume.
VerifyPass(v) ==
    /\ Enter("verify")
    /\ status[v] = "BURNED"
    /\ status' = [status EXCEPT ![v] = "VERIFIED"]
    /\ Exit
    /\ UNCHANGED <<mirror, iso, packTable, packsOn, copies, hashed, svols, noted, session, ghosts>>

-----------------------------------------------------------------------------
(* lcsas copy deprecate | destroy | lost, lcsas location move *)

\* Mutant of Demote: the last lost disc changes nothing.
DemoteNever(v, copies1) == UNCHANGED <<status, noted>>

\* _demote_volume_if_last_copy_lost, on the disc rows as they are after the
\* update: no disc left in service makes the volume DEPRECATED, with a NOTE.
Demote(v, copies1) ==
    LET lost == /\ HasRows(copies1, v) /\ ~HasActive(copies1, v)
                /\ status[v] \notin {"DEPRECATED", "DESTROYED"}
    IN  /\ status' = IF lost THEN [status EXCEPT ![v] = "DEPRECATED"] ELSE status
        /\ noted' = IF lost THEN noted \cup {v} ELSE noted

SetCopy(v, l, to) ==
    LET copies1 == [copies EXCEPT ![v][l] = to]
    IN  /\ copies' = copies1
        /\ Demote(v, copies1)
        /\ Exit
        /\ UNCHANGED <<mirror, iso, packTable, packsOn, hashed, svols, session, ghosts>>

CopyDeprecate(v, l) ==
    /\ Enter("copy")
    /\ copies[v][l] = "ACTIVE"
    /\ SetCopy(v, l, "DEPRECATED")

CopyDestroy(v, l) ==
    /\ Enter("copy")
    /\ copies[v][l] # "none"
    /\ SetCopy(v, l, "DESTROYED")

\* UNIQUE(volume_id, location): a row at the target refuses the move.
CopyMove(v, from, to) ==
    /\ Enter("move")
    /\ copies[v][from] = "ACTIVE" /\ copies[v][to] = "none"
    /\ copies' = [copies EXCEPT ![v] = [@ EXCEPT ![from] = "none", ![to] = "ACTIVE"]]
    /\ Exit
    /\ UNCHANGED <<mirror, iso, packTable, status, packsOn, hashed, svols, noted, session, ghosts>>

-----------------------------------------------------------------------------
(* lcsas consolidate --deprecate *)

DeprecateBegin(src) ==
    /\ Enter("deprecate")
    /\ src # {} /\ \A v \in src : Exists(v)
    /\ op' = [Idle EXCEPT !.pc = "deprecate", !.todo = src, !.src = src]
    /\ UNCHANGED <<mirror, iso, catalog, ghosts>>

\* What this connection sees: its uncommitted deprecations included.
View == [v \in Volumes |-> IF v \in op.dep THEN "DEPRECATED" ELSE status[v]]

\* Mutant of DeprecationAllowed: the check reads the committed catalog.
DeprecationAllowedStale(v) ==
    /\ "DEPRECATED" \in VALID_TRANSITIONS(View[v])
    /\ get_at_risk_packs_for_volume(pruned, status, copies, packsOn, v) = {}

\* The transition table and check_deprecation_safe.
DeprecationAllowed(v) ==
    /\ "DEPRECATED" \in VALID_TRANSITIONS(View[v])
    /\ get_at_risk_packs_for_volume(pruned, View, copies, packsOn, v) = {}

\* Mutant of DeprecateSource: every NOTE is committed at once.
DeprecateSourceNotesFirst(v) ==
    /\ Step("deprecate") /\ v \in op.todo
    /\ DeprecationAllowed(v)
    /\ op' = [op EXCEPT !.todo = @ \ {v}, !.dep = @ \cup {v}, !.any = TRUE]
    /\ status' = IF op.any THEN status ELSE [status EXCEPT ![v] = "DEPRECATED"]
    /\ noted' = noted \cup {v}
    /\ UNCHANGED <<mirror, iso, packTable, packsOn, copies, hashed, svols, session, ghosts>>

\* update_status(DEPRECATED): for the first source no transaction is open, so
\* SAVEPOINT .. RELEASE commits the new status and the NOTE that follows opens
\* the transaction the remaining sources join.
DeprecateSource(v) ==
    /\ Step("deprecate") /\ v \in op.todo
    /\ DeprecationAllowed(v)
    /\ op' = [op EXCEPT !.todo = @ \ {v}, !.dep = @ \cup {v}, !.any = TRUE]
    /\ status' = IF op.any THEN status ELSE [status EXCEPT ![v] = "DEPRECATED"]
    /\ UNCHANGED <<mirror, iso, packTable, packsOn, copies, hashed, svols, noted, session, ghosts>>

\* A refused source raises: the open transaction is rolled back.
DeprecateRefused(v) ==
    /\ Step("deprecate") /\ v \in op.todo
    /\ ~DeprecationAllowed(v)
    /\ Exit
    /\ UNCHANGED <<mirror, iso, catalog, ghosts>>

DeprecateCommit ==
    /\ Step("deprecate") /\ op.todo = {}
    /\ status' = View
    /\ noted' = noted \cup op.dep
    /\ Exit
    /\ UNCHANGED <<mirror, iso, packTable, packsOn, copies, hashed, svols, session, ghosts>>

-----------------------------------------------------------------------------
(* lcsas consolidate --execute *)

\* Mutant of ConsolidateBegin: the transition table is not consulted.
ConsolidateBeginAny(src) ==
    /\ Enter("consolidate")
    /\ src # {} /\ \A v \in src : Exists(v)
    /\ status' = [v \in Volumes |-> IF v \in src THEN "CONSOLIDATING" ELSE status[v]]
    /\ op' = [Idle EXCEPT !.pc = "consolidate", !.src = src,
                          !.packs = (UNION {packsOn[v] : v \in src}) \ pruned]
    /\ UNCHANGED <<mirror, iso, packTable, packsOn, copies, hashed, svols, noted, session, ghosts>>

\* mark_sources_consolidating: one transaction, all or none.
ConsolidateBegin(src) ==
    /\ Enter("consolidate")
    /\ src # {} /\ \A v \in src : Exists(v) /\ CanMove(v, "CONSOLIDATING")
    /\ status' = [v \in Volumes |-> IF v \in src THEN "CONSOLIDATING" ELSE status[v]]
    /\ op' = [Idle EXCEPT !.pc = "consolidate", !.src = src,
                          !.packs = (UNION {packsOn[v] : v \in src}) \ pruned]
    /\ UNCHANGED <<mirror, iso, packTable, packsOn, copies, hashed, svols, noted, session, ghosts>>

\* stage(pack_sha256s = the plan's active packs): the filter applies to the
\* unarchived pool; an empty result raises and the sources are reverted.
ConsolidateStage(s) ==
    LET pool == gather_packs("none") \cap op.packs
    IN  /\ Step("consolidate")
        /\ pool # {} => CanOpenSession(s)
        /\ status' = IF pool = {} THEN abort_consolidation(status) ELSE status
        /\ session' = IF pool = {} THEN session ELSE create_session(s)
        /\ op' = IF pool = {} THEN Idle ELSE Staging(s, pool, op.src)
        /\ UNCHANGED <<mirror, iso, packTable, packsOn, copies, hashed, svols, noted, ghosts>>

-----------------------------------------------------------------------------
(* SIGKILL, SIGTERM, power loss; in burn_session also Ctrl-C, which its
   "except Exception" does not catch.  The lock goes with the process, open
   transactions roll back, files and committed rows stay. *)

Crash ==
    /\ op.pc # "idle"
    /\ crashes < MaxCrashes
    /\ crashes' = crashes + 1
    /\ missed' = {}
    /\ Exit
    /\ UNCHANGED <<mirror, iso, catalog, disc, attested>>

-----------------------------------------------------------------------------

Next ==
    \/ \E p \in Packs : MirrorWrite(p) \/ PackUnprune(p)
    \/ \E p \in Packs, to \in {"none", "empty"} : MirrorLose(p, to)
    \/ \E data \in {"listed", "missing", "denied"} : ScanBegin(data)
    \/ \E p \in Packs, readable \in BOOLEAN : ScanDir(p, readable)
    \/ \E sync, yes \in BOOLEAN : ScanRegister(sync, yes)
    \/ ScanPrune
    \/ \E gone \in SUBSET Packs, force \in BOOLEAN : RepoRemoveBegin(gone, force)
    \/ RepoRemove
    \/ \E s \in Sessions, t \in {"none"} \cup Locations : StageBegin(s, t)
    \/ \E v \in Volumes, bin \in SUBSET Packs : StageVolume(v, bin)
    \/ StageRefused \/ StageIso \/ StageEcc \/ StageFail \/ StageHash \/ StageHashFail \/ StageEnd
    \/ \E s \in Sessions, l \in Locations : BurnBegin(s, l)
    \/ \E v \in Volumes : BurnLoad(v) \/ BurnBadTransition(v)
    \/ \E kind \in DiscKinds : BurnWrite(kind)
    \/ BurnRefused \/ BurnCommit \/ BurnException \/ BurnReceipt
    \/ BurnReceiptFail \/ BurnEnd
    \/ \E s \in Sessions, force \in BOOLEAN : CleanBegin(s, force)
    \/ \E v \in Volumes : CleanDelete(v) \/ AbortVolume(v) \/ ReconcileDelete(v)
    \/ CleanFiles \/ CleanMark
    \/ \E old \in SUBSET Volumes : ReconcileBegin(old)
    \/ \E v \in Volumes, l \in Locations, verdict \in {"true", "false", "null", "missing"} :
          ImportReceipt(v, l, verdict)
    \/ \E v \in Volumes : MarkVerified(v) \/ VerifyPass(v)
    \/ \E v \in Volumes, l \in Locations : CopyDeprecate(v, l) \/ CopyDestroy(v, l)
    \/ \E v \in Volumes, from, to \in Locations : CopyMove(v, from, to)
    \/ \E src \in SUBSET Volumes : DeprecateBegin(src) \/ ConsolidateBegin(src)
    \/ \E v \in Volumes : DeprecateSource(v) \/ DeprecateRefused(v)
    \/ DeprecateCommit
    \/ \E s \in Sessions : ConsolidateStage(s)
    \/ Crash

Spec == Init /\ [][Next]_vars

(***************************************************************************)
(* Fairness for the burn loop.  A running command goes on (WF); the owner  *)
(* keeps re-running lcsas burn; a drive, a blank disc and a disk that fail *)
(* now and then do not fail for ever on the same volume (SF).              *)
(***************************************************************************)
StepOn ==
    \/ \E p \in Packs, readable \in BOOLEAN : ScanDir(p, readable)
    \/ \E sync, yes \in BOOLEAN : ScanRegister(sync, yes)
    \/ ScanPrune \/ RepoRemove \/ StageRefused \/ StageIso \/ StageEcc \/ StageHash \/ StageEnd
    \/ \E v \in Volumes, bin \in SUBSET Packs : StageVolume(v, bin)
    \/ \E v \in Volumes : BurnLoad(v) \/ BurnBadTransition(v)
    \/ \E kind \in DiscKinds : BurnWrite(kind)
    \/ BurnCommit \/ BurnReceipt \/ BurnEnd

Fairness ==
    /\ WF_vars(StepOn)
    /\ \A s \in Sessions, l \in Locations : SF_vars(BurnBegin(s, l))
    /\ \A v \in Volumes : SF_vars(BurnLoad(v)) /\ SF_vars(op.vol = v /\ BurnWrite("good"))
                          /\ SF_vars(op.vol = v /\ op.burnt = "good" /\ BurnCommit)
                          /\ SF_vars(op.vol = v /\ BurnReceipt)

FairSpec == Spec /\ Fairness

-----------------------------------------------------------------------------
(* Properties *)

Archived(st, p) == p \in known /\ HasDurableLink(st, packsOn, p)

\* A volume that makes its packs count as archived (DURABLE_VOLUME_STATUSES,
\* db/queries.py) has a disc in service; only a volume that never had a disc
\* row may do so without one, and then because somebody outside this machine
\* vouched for it.  Otherwise get_unarchived_packs withholds packs that are on
\* no disc and no later stage picks them up.
DurableBacked ==
    \A v \in Volumes : status[v] \in DURABLE_VOLUME_STATUSES =>
        \/ HasActive(copies, v)
        \/ ~HasRows(copies, v) /\ v \in attested

\* A disc row exists only for a volume whose image was really written and read
\* back here, or vouched for by a receipt (burn_session, BURN-05: a disc that
\* failed verification is not recorded).
RecordedDiscIsReal ==
    \A v \in Volumes : HasRows(copies, v) =>
        \/ disc[v] # {}
        \/ v \in attested

\* Once the staged image of a volume is gone, the volume is not left waiting
\* for a burn that cannot happen: it has a disc row or it is past BURNED
\* (clean_session's strandable check).
NoImageNoWaiting ==
    \A v \in Volumes : iso[v] = "gone" =>
        strandable_session_volumes(status, copies, {v}) = {}

\* COMPLETE is never claimed for a session with a volume that has no disc
\* row (burn_session: "can never masquerade as a completed set of discs").
CompleteHasDiscs ==
    \A s \in Sessions : session[s] = "COMPLETE" =>
        \A v \in svols[s] : HasRows(copies, v)

\* A volume that is waiting for a burn is reachable: it has packs, known to the
\* catalog, and a session lists it, so burn_session and clean_session find it.
\* Failing stages, aborts and crashes leave no half-created volume behind; only
\* repo remove takes the packs out of a volume that is already staged.
PendingInSession ==
    \A v \in Volumes : status[v] \in {"STAGING", "BURNING"} =>
        /\ \E s \in Sessions : v \in svols[s]
        /\ packsOn[v] \subseteq known
        /\ packsOn[v] # {} \/ "remove" \in Commands

\* Deprecating consolidated sources never takes the last live replica: no
\* pack that counts as archived stops doing so in a step of
\* deprecate_sources, whatever the order and the number of sources.
ArchiveKept ==
    op.pc = "deprecate" =>
        \A p \in known \ pruned : Archived(status, p) => Archived(status', p)

DeprecationKeepsArchive == [][ArchiveKept]_vars

\* The audit trail tells the truth: a volume with a committed NOTE of its
\* deprecation is DEPRECATED, whichever later source was refused and rolled
\* the transaction back.  (The converse does not hold, see the README.)
NotesAreTrue == \A v \in noted : status[v] = "DEPRECATED"

\* A volume with a disc row is never deleted from the catalog (FMA-01), by
\* clean, abort, reconcile or a failing stage.
VolumeKept == \A v \in Volumes : HasRows(copies, v) => status'[v] # "deleted"

RecordedVolumeKept == [][VolumeKept]_vars

\* Prune-sync marks only packs whose file was missing or empty at some moment
\* of the scan, whatever directories it could not read and whatever comes and
\* goes on the mirror between two listings (scan_mirror_packs, BURN-09).
PruneOnlyAbsent == op.pc = "scan" => op.packs \subseteq missed

\* The inductive form of PruneOnlyAbsent: what is not whole has been missed, and
\* what the listing has passed over without an error was not whole at the time.
ListInv ==
    op.pc = "scan.list" =>
        /\ \A p \in Packs : mirror[p] # "whole" => p \in missed
        /\ \/ op.failed
           \/ op.left = {} /\ op.packs = {}
           \/ Packs \ (op.left \cup op.packs) \subseteq missed

\* detect_pruned (packs/delta.py): "These are packs that rustic has pruned from
\* the local mirror".  Not so of a pack whose file is there with zero bytes.
MarkedIsGone ==
    [][op.pc = "scan" => \A p \in pruned' \ pruned : mirror[p] # "empty"]_vars

\* The status of a volume only moves along VALID_TRANSITIONS, except where
\* the code bypasses the table: a deletion (never of a recorded disc), the
\* demotion of a volume whose last disc is gone, and a STAGING volume that a
\* receipt or --mark-verified vouches for.
StatusMove ==
    \A v \in Volumes :
        \/ status'[v] = status[v]
        \/ status'[v] \in VALID_TRANSITIONS(status[v])
        \/ status[v] = "absent" /\ status'[v] = "STAGING"
        \/ status'[v] = "deleted" /\ ~HasRows(copies, v)
        \/ status'[v] = "DEPRECATED" /\ HasRows(copies', v) /\ ~HasActive(copies', v)
        \/ status[v] = "STAGING" /\ status'[v] \in {"BURNED", "VERIFIED"} /\ v \in attested'

StatusMoves == [][StatusMove]_vars

-----------------------------------------------------------------------------
(***************************************************************************)
(* The inductive invariant behind DurableBacked, RecordedDiscIsReal,       *)
(* RecordedVolumeKept, StatusMoves and DeprecationKeepsArchive: what each  *)
(* command may rely on between two of its steps, and the disc rows'        *)
(* relation to the volume status that no command may break.                *)
(***************************************************************************)

StagePCs == {"stage.next", "stage.master", "stage.iso", "stage.ecc"}
BurnPCs  == {"burn.next", "burn.write", "burn.verify", "burn.receipt"}

\* A volume being mastered is STAGING, without discs, and not a source.
StageInv ==
    /\ op.pc \in StagePCs => op.sess \in Sessions
    /\ op.pc \in StagePCs \ {"stage.next"} =>
         /\ op.vol \in Volumes
         /\ status[op.vol] = "STAGING"
         /\ ~HasRows(copies, op.vol)

\* A volume under the laser is BURNING, or VERIFIED when burned again, and its
\* image is there; a good disc is one that carries the image.
BurnInv ==
    /\ op.pc \in BurnPCs => op.sess \in Sessions /\ op.loc \in Locations
    /\ op.pc \in {"burn.write", "burn.verify"} =>
         /\ op.vol \in Volumes
         /\ status[op.vol] = (IF op.reburn THEN "VERIFIED" ELSE "BURNING")
         /\ iso[op.vol] \in {"plain", "ecc"}
    /\ op.pc = "burn.verify" /\ op.burnt = "good" => disc[op.vol] # {}

\* What clean and reconcile are about to delete has no disc.
PurgeInv ==
    /\ op.pc \in {"clean.delete", "clean.mark"} => op.sess \in Sessions
    /\ op.pc \in {"clean.delete", "purge"} => \A v \in op.todo : ~HasRows(copies, v)

\* The sources of a running consolidation are CONSOLIDATING.
SourceInv ==
    op.pc \in StagePCs \cup {"consolidate"} =>
        \A v \in op.src : status[v] = "CONSOLIDATING"

\* The uncommitted deprecations are legal moves and leave every archived pack
\* archived.
DeprecateInv ==
    op.pc = "deprecate" =>
        /\ ~op.any => op.dep = {}
        /\ \A v \in op.dep : status[v] \in {"STAGING", "VERIFIED", "CONSOLIDATING", "DEPRECATED"}
        /\ \A p \in known \ pruned : Archived(status, p) => Archived(View, p)

\* A volume with disc rows exists, and without an ACTIVE one it is out of use.
RowsInv ==
    \A v \in Volumes : HasRows(copies, v) =>
        /\ Exists(v)
        /\ HasActive(copies, v) \/ status[v] \in {"DEPRECATED", "DESTROYED"}

IInv ==
    /\ TypeOK
    /\ StageInv /\ BurnInv /\ PurgeInv /\ SourceInv /\ DeprecateInv
    /\ RowsInv
    /\ DurableBacked
    /\ RecordedDiscIsReal

-----------------------------------------------------------------------------
(* Liveness: without crashes, burning the session again and again ends with
   every staged volume on a verified disc, whatever verifications fail and
   whichever volume raises first (burn_session's resume-by-re-running). *)
StagedGetsBurned ==
    \A v \in Volumes :
        status[v] \in {"STAGING", "BURNING"} ~> status[v] \in {"VERIFIED", "deleted"}

=============================================================================

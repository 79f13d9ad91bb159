------------------------------ MODULE SplitBurn ------------------------------
(***************************************************************************)
(* Burning on another machine.  The catalog machine stages an image and    *)
(* the owner carries the file away; lcsas burn-iso writes it without a     *)
(* catalog and leaves a receipt that names the volume by its label; some   *)
(* day, once, twice or never, and in any order, lcsas catalog              *)
(* import-receipts applies the receipt.  Labels are numbered from the rows *)
(* the catalog has at that moment (utils/labels.py), so the label of a     *)
(* deleted volume is given out again while its image or its receipt is     *)
(* still travelling.  The owner may change label_prefix between stages.    *)
(*                                                                         *)
(* A volume is mastered once: its id stands for its image and for the      *)
(* image's SHA-256, which every receipt states.  Sessions, crashes and the *)
(* steps of the local burn loop are those of module Archive; here a local  *)
(* burn is one step.                                                       *)
(***************************************************************************)
EXTENDS Naturals, FiniteSets, Sequences

CONSTANTS
    Locations,
    Prefixes,       \* bound: values of label_prefix, split at its underscores
    Kinds,          \* bound: medium and year, the middle of a label
    MaxVolumes,     \* bound: volumes ever staged
    MaxReceipts     \* bound: different receipts in the world

ASSUME SplitBurnAssumption ==
    /\ MaxVolumes \in Nat /\ MaxReceipts \in Nat
    /\ \A p \in Prefixes : p \in Seq(STRING) /\ p # << >>

Volumes == 1..MaxVolumes

Verdicts == {"true", "false", "null"}   \* verify_passed; null: --no-verify

\* PREFIX_MEDIA_YYYY_SEQ
Labels == [prefix : Prefixes, kind : Kinds, seq : Nat]

NoLabel == [prefix |-> << >>, kind |-> "none", seq |-> 0]

Receipts == [label : Labels, loc : Locations, sha : Volumes, verdict : Verdicts]

VARIABLES
    status,     \* volumes.status; "absent" and "deleted" as in Catalog
    label,      \* volumes.label, NoLabel when absent
    copies,     \* volume_copies.status
    rowSha,     \* volume_copies.iso_sha256, 0 for NULL
    events,     \* the BURN_RECEIPT_IMPORTED events of a volume: the receipts
    carried,    \* images that left the catalog machine
    discs,      \* discs ever written well: <<image, location>>
    receipts    \* receipt files that exist

splitVars == <<status, label, copies, rowSha, events, carried, discs, receipts>>

SplitBurnTypeOK ==
    /\ status \in [Volumes -> {"absent", "STAGING", "BURNED", "VERIFIED", "DEPRECATED", "deleted"}]
    /\ label \in [Volumes -> Labels \cup {NoLabel}]
    /\ copies \in [Volumes -> [Locations -> {"none", "ACTIVE", "DESTROYED"}]]
    /\ rowSha \in [Volumes -> [Locations -> {0} \cup Volumes]]
    /\ events \in [Volumes -> SUBSET Receipts]
    /\ carried \in SUBSET Volumes
    /\ discs \in SUBSET (Volumes \X Locations)
    /\ receipts \in SUBSET Receipts

SplitBurnInit ==
    /\ status = [v \in Volumes |-> "absent"]
    /\ label = [v \in Volumes |-> NoLabel]
    /\ copies = [v \in Volumes |-> [l \in Locations |-> "none"]]
    /\ rowSha = [v \in Volumes |-> [l \in Locations |-> 0]]
    /\ events = [v \in Volumes |-> {}]
    /\ carried = {} /\ discs = {} /\ receipts = {}

Exists(v)  == status[v] \notin {"absent", "deleted"}
HasRows(v) == \E l \in Locations : copies[v][l] # "none"

\* A receipt is written; writing the same one again changes nothing.
Emit(v, l, verdict) ==
    LET r == [label |-> label[v], loc |-> l, sha |-> v, verdict |-> verdict]
    IN  /\ r \in receipts \/ Cardinality(receipts) < MaxReceipts
        /\ receipts' = receipts \cup {r}

-----------------------------------------------------------------------------
(* The catalog machine: stage, abort, burn *)

\* A label counts for a prefix when its first part, up to the first
\* underscore, is that prefix; none counts for a prefix with an underscore.
Counts(v, prefix) == Exists(v) /\ prefix = <<Head(label[v].prefix)>>

\* labels.next_seq_num over list_volumes: the highest number + 1
next_seq_num(prefix, n) ==
    /\ \A v \in Volumes : Counts(v, prefix) => label[v].seq < n
    /\ n = 1 \/ \E v \in Volumes : Counts(v, prefix) /\ label[v].seq = n - 1

\* The label of the i-th volume of a session that counts from n.
LabelOf(prefix, kind, n, i) == [prefix |-> prefix, kind |-> kind, seq |-> n + i]

\* Mutant of IsFree: without the UNIQUE of volumes.label.
AnyLabel(lab) == lab \in Labels

\* volumes.label UNIQUE
IsFree(lab) == \A w \in Volumes : Exists(w) => label[w] # lab

\* A session of `count` volumes is staged, numbered on from the first number.
\* The insert that UNIQUE refuses ends the stage and leaves the volumes before
\* it: they are then all of the session.
Stage(v, count, prefix, kind, n) ==
    LET new == {w \in Volumes : v <= w /\ w < v + count}
        lab(w) == LabelOf(prefix, kind, n, w - v)
    IN  /\ \A w \in new : status[w] = "absent" /\ IsFree(lab(w))
        /\ \A w \in Volumes : w < v => status[w] # "absent"
        /\ next_seq_num(prefix, n)
        /\ status' = [w \in Volumes |-> IF w \in new THEN "STAGING" ELSE status[w]]
        /\ label' = [w \in Volumes |-> IF w \in new THEN lab(w) ELSE label[w]]
        /\ UNCHANGED <<copies, rowSha, events, carried, discs, receipts>>

\* abort_volume, session abort and stage --clean --force of an unburned volume
Abort(v) ==
    /\ status[v] = "STAGING" /\ ~HasRows(v)
    /\ status' = [status EXCEPT ![v] = "deleted"]
    /\ UNCHANGED <<label, copies, rowSha, events, carried, discs, receipts>>

\* The owner copies the staged image to a stick.
Export(v) ==
    /\ status[v] \in {"STAGING", "BURNED", "VERIFIED"} /\ v \notin carried
    /\ carried' = carried \cup {v}
    /\ UNCHANGED <<status, label, copies, rowSha, events, discs, receipts>>

\* burn_session for one volume, from load to receipt: a disc that fails its
\* read-back is not recorded and sends a first burn back to STAGING.
BurnHere(v, l, good) ==
    /\ status[v] \in {"STAGING", "BURNED", "VERIFIED"}
    /\ status' = [status EXCEPT ![v] = IF good THEN "VERIFIED"
                                       ELSE IF @ = "VERIFIED" THEN @ ELSE "STAGING"]
    /\ copies' = IF good THEN [copies EXCEPT ![v][l] = "ACTIVE"] ELSE copies
    /\ rowSha' = IF good THEN [rowSha EXCEPT ![v][l] = v] ELSE rowSha
    /\ discs' = IF good THEN discs \cup {<<v, l>>} ELSE discs
    /\ Emit(v, l, IF good THEN "true" ELSE "false")
    /\ UNCHANGED <<label, events, carried>>

-----------------------------------------------------------------------------
(* lcsas burn-iso on the other machine *)

\* The label is the PVD volume id the image was mastered with.  verify: read
\* the disc back and compare its volume id; a burn that raises leaves nothing.
BurnIso(v, l, verify, good) ==
    /\ v \in carried
    /\ discs' = IF good THEN discs \cup {<<v, l>>} ELSE discs
    /\ Emit(v, l, CASE ~verify -> "null"
                    [] verify /\ good -> "true"
                    [] OTHER -> "false")
    /\ UNCHANGED <<status, label, copies, rowSha, events, carried>>

-----------------------------------------------------------------------------
(* lcsas catalog import-receipts, one receipt *)

\* get_volume_by_label
Addressee(r, v) == Exists(v) /\ label[v] = r.label

\* No earlier receipt of this volume was for another image (issue #18).
HashAgrees(r, v) == \A e \in events[v] : e.sha = r.sha

\* Mutant of Import: a failed receipt records its disc.
ImportRecordsFailed(r, v) ==
    /\ r \in receipts /\ Addressee(r, v) /\ HashAgrees(r, v)
    /\ status' = IF status[v] = "STAGING" /\ r.verdict # "false"
                 THEN [status EXCEPT ![v] = IF r.verdict = "true" THEN "VERIFIED" ELSE "BURNED"]
                 ELSE status
    /\ copies' = [copies EXCEPT ![v][r.loc] = "ACTIVE"]
    /\ rowSha' = [rowSha EXCEPT ![v][r.loc] = r.sha]
    /\ events' = [events EXCEPT ![v] = @ \cup {r}]
    /\ UNCHANGED <<label, carried, discs, receipts>>

\* status (a STAGING volume only), disc row (not for a failed burn) and event,
\* in one transaction
Import(r, v) ==
    /\ r \in receipts /\ Addressee(r, v) /\ HashAgrees(r, v)
    /\ status' = IF status[v] = "STAGING" /\ r.verdict # "false"
                 THEN [status EXCEPT ![v] = IF r.verdict = "true" THEN "VERIFIED" ELSE "BURNED"]
                 ELSE status
    /\ copies' = IF r.verdict = "false" THEN copies
                 ELSE [copies EXCEPT ![v][r.loc] = "ACTIVE"]
    /\ rowSha' = IF r.verdict = "false" THEN rowSha
                 ELSE [rowSha EXCEPT ![v][r.loc] = r.sha]
    /\ events' = [events EXCEPT ![v] = @ \cup {r}]
    /\ UNCHANGED <<label, carried, discs, receipts>>

\* copy destroy, copy lost: the row stays; without a disc left in service the
\* volume is DEPRECATED.
DiscLost(v, l) ==
    /\ copies[v][l] # "none"
    /\ copies' = [copies EXCEPT ![v][l] = "DESTROYED"]
    /\ status' = IF \A k \in Locations \ {l} : copies[v][k] # "ACTIVE"
                 THEN [status EXCEPT ![v] = "DEPRECATED"] ELSE status
    /\ UNCHANGED <<label, rowSha, events, carried, discs, receipts>>

SplitBurnNext ==
    \/ \E v, count, n \in Volumes, p \in Prefixes, k \in Kinds : Stage(v, count, p, k, n)
    \/ \E v \in Volumes : Abort(v) \/ Export(v)
    \/ \E v \in Volumes, l \in Locations : DiscLost(v, l)
    \/ \E v \in Volumes, l \in Locations, good \in BOOLEAN : BurnHere(v, l, good)
    \/ \E v \in Volumes, l \in Locations, verify, good \in BOOLEAN : BurnIso(v, l, verify, good)
    \/ \E r \in receipts, v \in Volumes : Import(r, v)

SplitBurnSpec == SplitBurnInit /\ [][SplitBurnNext]_splitVars

-----------------------------------------------------------------------------
(* Properties *)

\* No two volumes of the catalog share a label, so a receipt has at most one
\* addressee.
LabelsUnique ==
    \A v, w \in Volumes : Exists(v) /\ Exists(w) /\ label[v] = label[w] => v = w

\* A volume is credited with another volume's image only if that one was
\* deleted and the label was given out again; receipts that are late,
\* duplicated or out of order can never confuse volumes otherwise.
ForeignOnlyByReuse ==
    \A v \in Volumes, l \in Locations :
        rowSha[v][l] \notin {0, v} =>
            /\ status[rowSha[v][l]] = "deleted"
            /\ label[rowSha[v][l]] = label[v]

\* All imported receipts of a volume are for one image (issue #18), whatever
\* order they arrive in.
OneImagePerVolume ==
    \A v \in Volumes : \A e, f \in events[v] : e.sha = f.sha

\* The hash of a disc row is that of a receipt or a local burn for that very
\* location: what lcsas verify compares a disc with was burned there.
RowHashWasBurnedThere ==
    \A v \in Volumes, l \in Locations :
        rowSha[v][l] # 0 =>
            \/ <<rowSha[v][l], l>> \in discs
            \/ \E r \in events[v] : r.sha = rowSha[v][l] /\ r.loc = l /\ r.verdict = "null"

\* A VERIFIED volume has a disc that was read back, of an image with its
\* label; an unread (--no-verify) or failed burn alone never gives VERIFIED.
VerifiedWasRead ==
    \A v \in Volumes : status[v] = "VERIFIED" =>
        \E d \in discs : label[d[1]] = label[v]

\* "Parses labels matching the format PREFIX_*_YYYY_SEQ and returns max + 1"
\* (next_seq_num): the number is above those of all labels with the prefix, so
\* that UNIQUE never refuses a stage.
NumberIsAboveAll ==
    \A prefix \in Prefixes, n \in Volumes :
        next_seq_num(prefix, n) =>
            \A v \in Volumes : Exists(v) /\ label[v].prefix = prefix => label[v].seq < n

\* With a label_prefix that has no underscore, the labels of a whole session
\* are new: UNIQUE stops no stage, whatever was deleted, however often the
\* owner changed the prefix.
PlainIsNeverRefused ==
    \A prefix \in Prefixes, kind \in Kinds, n, i \in Nat :
        Len(prefix) = 1 /\ next_seq_num(prefix, n) => IsFree(LabelOf(prefix, kind, n, i))

-----------------------------------------------------------------------------
(* The inductive invariant *)

\* Rows and labels belong to staged volumes, a receipt carries the label of
\* its image, a receipt that claims a read-back has a disc, and discs carry
\* images that were staged.
RecordInv ==
    /\ \A v \in Volumes : status[v] = "absent" => label[v] = NoLabel /\ v \notin carried /\ ~HasRows(v)
    /\ \A v \in Volumes : status[v] = "deleted" => ~HasRows(v)
    /\ \A v \in Volumes, l \in Locations : rowSha[v][l] # 0 => copies[v][l] # "none"
    /\ \A v \in Volumes : status[v] # "absent" => label[v] \in Labels
    /\ \A r \in receipts : /\ r.label = label[r.sha] /\ status[r.sha] # "absent"
                           /\ r.verdict = "true" => <<r.sha, r.loc>> \in discs
    /\ \A v \in Volumes : events[v] \subseteq receipts
    /\ \A d \in discs : status[d[1]] # "absent"

SplitInv ==
    /\ SplitBurnTypeOK /\ RecordInv
    /\ LabelsUnique /\ ForeignOnlyByReuse /\ OneImagePerVolume
    /\ RowHashWasBurnedThere /\ VerifiedWasRead

=============================================================================

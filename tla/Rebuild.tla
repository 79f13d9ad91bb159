------------------------------- MODULE Rebuild -------------------------------
(***************************************************************************)
(* lcsas catalog rebuild (db/rebuild.py).  Every disc carries a copy of    *)
(* the catalog as it was when its image was mastered.  When the master     *)
(* catalog is lost, the copies on the discs at hand are merged into a new  *)
(* one, newest first.  The first part of the module is the history that    *)
(* puts catalogs of different ages on discs; the second is the merge.      *)
(*                                                                         *)
(* A volume's id stands for its uuid and there is one location; labels are *)
(* those of one label_prefix without an underscore (SplitBurn has others). *)
(* repositories, locations, snapshots and burn_sessions are merged like    *)
(* the packs (INSERT OR IGNORE by key) and are left out, as are events,    *)
(* which only add up, and the text of the warnings.                        *)
(***************************************************************************)
EXTENDS Naturals, FiniteSets

CONSTANTS
    Packs,
    Targets,        \* what rebuild writes to: "fresh", "master"
    MaxVolumes,     \* bound: volumes ever staged
    MaxTime,        \* bound: clock
    MaxRebuilds,    \* bound: rebuilds
    MaxDamages      \* bound: discs that decay

ASSUME RebuildAssumption ==
    /\ Targets \subseteq {"fresh", "master"}
    /\ MaxVolumes \in Nat /\ MaxTime \in Nat /\ MaxRebuilds \in Nat /\ MaxDamages \in Nat

Volumes == 1..MaxVolumes

Statuses == {"absent", "STAGING", "VERIFIED", "DEPRECATED"}

Conditions == {"fine", "unreadable", "torn"}

FileTimes == {"kept", "lost", "copied"}

Catalogs == [status : [Volumes -> Statuses],
             copy   : [Volumes -> {"none", "ACTIVE", "DESTROYED"}],
             links  : [Volumes -> SUBSET Packs],
             known  : SUBSET Packs,
             pruned : SUBSET Packs,
             split  : Nat]              \* key_escrow.split_at, 0 without one

NoCatalog == [status |-> [v \in Volumes |-> "absent"],
              copy   |-> [v \in Volumes |-> "none"],
              links  |-> [v \in Volumes |-> {}],
              known  |-> {},
              pruned |-> {},
              split  |-> 0]

VARIABLES
    now,        \* the clock that created_at, mtime and split_at read
    label,      \* number in the label of a volume, 0 before it is staged
    created,    \* volumes.created_at
    cat,        \* the master catalog
    image,      \* image[v]: the catalog on v's disc
    burned,     \* volumes that have a disc
    pc,         \* "idle", "merge"
    into,       \* the target of the running rebuild
    out,        \* its output_db
    fresh,      \* its status_freshness, 0 for None
    chosen,     \* disc_paths
    condition,  \* of a chosen disc: "fine", "unreadable", "torn"
    mtime,      \* of the catalog file on it
    todo,       \* discs still to merge
    merged,     \* discs merged
    wedged,     \* a failed disc could not be detached
    rebuilds    \* rebuilds so far

world   == <<now, label, created, image, burned>>
running == <<pc, into, out, fresh, chosen, condition, mtime, todo, merged, wedged, rebuilds>>
vars    == <<world, cat, running>>

TypeOK ==
    /\ now \in Nat
    /\ label \in [Volumes -> Nat] /\ created \in [Volumes -> Nat] /\ mtime \in [Volumes -> Nat]
    /\ cat \in Catalogs /\ out \in Catalogs /\ image \in [Volumes -> Catalogs]
    /\ burned \in SUBSET Volumes
    /\ condition \in [Volumes -> Conditions]
    /\ pc \in {"idle", "merge"} /\ into \in {"fresh", "master"}
    /\ fresh \in [Volumes -> Nat]
    /\ chosen \in SUBSET Volumes /\ todo \in SUBSET Volumes /\ merged \in SUBSET Volumes
    /\ wedged \in BOOLEAN /\ rebuilds \in Nat

Init ==
    /\ now = 0
    /\ label = [v \in Volumes |-> 0]
    /\ created = [v \in Volumes |-> 0]
    /\ cat = NoCatalog /\ image = [v \in Volumes |-> NoCatalog]
    /\ burned = {}
    /\ pc = "idle" /\ into = "fresh" /\ out = NoCatalog
    /\ fresh = [v \in Volumes |-> 0]
    /\ mtime = [v \in Volumes |-> 0] /\ condition = [v \in Volumes |-> "fine"]
    /\ chosen = {} /\ todo = {} /\ merged = {} /\ wedged = FALSE /\ rebuilds = 0

Has(c, v) == c.status[v] # "absent"

-----------------------------------------------------------------------------
(* The history: one step per command that changes what a rebuild merges *)

\* labels.next_seq_num
next_seq_num(n) ==
    /\ \A v \in Volumes : Has(cat, v) => label[v] < n
    /\ n = 1 \/ \E v \in Volumes : Has(cat, v) /\ label[v] = n - 1

Scan(p) ==
    /\ pc = "idle" /\ p \notin cat.known
    /\ cat' = [cat EXCEPT !.known = @ \cup {p}]
    /\ UNCHANGED <<world, running>>

Prune(p) ==
    /\ pc = "idle" /\ p \in cat.known \ cat.pruned
    /\ cat' = [cat EXCEPT !.pruned = @ \cup {p}]
    /\ UNCHANGED <<world, running>>

\* get_unarchived_packs
Unarchived ==
    {p \in cat.known \ cat.pruned :
        ~\E v \in Volumes : cat.status[v] = "VERIFIED" /\ p \in cat.links[v]}

\* The volume row commits (created_at), then the catalog is copied into the
\* image (its mtime).  All waiting packs fit on one volume.
Stage(v, n) ==
    /\ pc = "idle" /\ now + 2 <= MaxTime
    /\ label[v] = 0 /\ \A w \in Volumes : w < v => label[w] # 0
    /\ next_seq_num(n)
    /\ Unarchived # {}
    /\ cat' = [cat EXCEPT !.status[v] = "STAGING", !.links[v] = Unarchived]
    /\ label' = [label EXCEPT ![v] = n]
    /\ created' = [created EXCEPT ![v] = now + 1]
    /\ image' = [image EXCEPT ![v] = cat']
    /\ now' = now + 2
    /\ UNCHANGED <<burned, running>>

\* burn_session up to its commit: disc row and VERIFIED together
Burn(v) ==
    /\ pc = "idle" /\ cat.status[v] = "STAGING"
    /\ cat' = [cat EXCEPT !.status[v] = "VERIFIED", !.copy[v] = "ACTIVE"]
    /\ burned' = burned \cup {v}
    /\ UNCHANGED <<now, label, created, image, running>>

\* Mutant of Abort: burned volumes are deleted too.
AbortAny(v) ==
    /\ pc = "idle" /\ Has(cat, v)
    /\ cat' = [cat EXCEPT !.status[v] = "absent", !.links[v] = {}, !.copy[v] = "none"]
    /\ UNCHANGED <<world, running>>

\* abort_volume
Abort(v) ==
    /\ pc = "idle" /\ cat.status[v] = "STAGING" /\ cat.copy[v] = "none"
    /\ cat' = [cat EXCEPT !.status[v] = "absent", !.links[v] = {}]
    /\ UNCHANGED <<world, running>>

\* copy destroy, copy lost: the last disc in service, so the volume follows.
\* The disc itself may turn up again.
Lose(v) ==
    /\ pc = "idle" /\ cat.copy[v] = "ACTIVE"
    /\ cat' = [cat EXCEPT !.status[v] = "DEPRECATED", !.copy[v] = "DESTROYED"]
    /\ UNCHANGED <<world, running>>

\* key split: the newer record replaces the older
Split ==
    /\ pc = "idle" /\ now < MaxTime
    /\ now' = now + 1
    /\ cat' = [cat EXCEPT !.split = now']
    /\ UNCHANGED <<label, created, image, burned, running>>

-----------------------------------------------------------------------------
(* rebuild_catalog *)

\* MAX(volumes.created_at) of the output catalog, 0 for None
Baseline(c) ==
    LET times == {created[v] : v \in {w \in Volumes : Has(c, w)}}
    IN  IF times = {} THEN 0 ELSE CHOOSE n \in times : \A m \in times : m <= n

\* output_db is created, or the owner names the live catalog.  A disc is
\* unreadable when it has no catalog.db or no SQLite file; torn, when a later
\* page is bad or a column is missing, which shows after the first row is
\* written.  The catalog was copied into the image after its own row was
\* created; a file that something copied since without keeping its time has
\* none (lost) or the time of that copying.
RebuildBegin(target, discs, state, time) ==
    /\ pc = "idle" /\ rebuilds < MaxRebuilds
    /\ Cardinality({d \in discs : state[d] # "fine"}) <= MaxDamages
    /\ pc' = "merge" /\ into' = target
    /\ out' = IF target = "fresh" THEN NoCatalog ELSE cat
    /\ fresh' = [v \in Volumes |-> IF Has(out', v) THEN Baseline(out') ELSE 0]
    /\ condition' = [d \in Volumes |-> IF d \in discs THEN state[d] ELSE "fine"]
    /\ mtime' = [d \in Volumes |-> IF d \notin discs \/ time[d] = "lost" THEN 0
                                   ELSE IF time[d] = "copied" THEN now + 1 ELSE created[d] + 1]
    /\ chosen' = discs /\ todo' = discs /\ merged' = {} /\ wedged' = FALSE
    /\ rebuilds' = rebuilds + 1
    /\ UNCHANGED <<world, cat>>

\* The catalog file on d has the time of a later copying.
Copied(d) == mtime[d] > created[d] + 1

\* Freshness of a disc: the catalog file's mtime or the created_at of its
\* youngest row, which is v's own, whichever is later.
source_freshness(v) == IF mtime[v] > created[v] THEN mtime[v] ELSE created[v]

\* ordered.sort: newest first
Fresher(d, e) == source_freshness(d) >= source_freshness(e)

\* Rows of s that INSERT OR IGNORE adds to o: volumes.uuid and volumes.label
\* are both UNIQUE.
NewRows(o, s) ==
    {v \in Volumes : Has(s, v) /\ ~Has(o, v) /\ \A w \in Volumes : Has(o, w) => label[w] # label[v]}

\* Mutant of StatusWins: the status that ranks higher wins, the rule before
\* FMA-06.
StatusOutranks(o, s, f) ==
    {v \in Volumes : Has(o, v) /\ s.status[v] = "VERIFIED"}

\* Rows both have, where the source is the freshest catalog so far.
StatusWins(o, s, f) == {v \in Volumes : Has(o, v) /\ Has(s, v) /\ f > fresh[v]}

\* packs: INSERT OR IGNORE
PrunedAfter(o, s) == o.pruned \cup (s.pruned \ o.known)

\* key_escrow: the newest split wins, whichever disc has it (#573)
SplitAfter(o, s) == IF s.split > o.split THEN s.split ELSE o.split

\* What o becomes when the catalog s of freshness f is merged into it.  Links
\* and disc rows find their volume by uuid; those of a volume that was left
\* out are left out with it.
merge_one_disc(o, s, f) ==
    LET new  == NewRows(o, s)
        take == new \cup StatusWins(o, s, f)
        rows == {v \in Volumes : Has(s, v) /\ (Has(o, v) \/ v \in new)}
    IN  [status |-> [v \in Volumes |-> IF v \in take THEN s.status[v] ELSE o.status[v]],
         copy   |-> [v \in Volumes |-> IF v \in rows /\ o.copy[v] = "none" THEN s.copy[v] ELSE o.copy[v]],
         links  |-> [v \in Volumes |-> IF v \in rows THEN o.links[v] \cup s.links[v] ELSE o.links[v]],
         known  |-> o.known \cup s.known,
         pruned |-> PrunedAfter(o, s),
         split  |-> SplitAfter(o, s)]

\* status_freshness after the merge; a volume that was left out is noted too
FreshAfter(o, s, f) ==
    [v \in Volumes |-> IF Has(s, v) /\ (~Has(o, v) \/ f > fresh[v]) THEN f ELSE fresh[v]]

\* The merge of d raises.  After its first INSERT a transaction is open, so
\* DETACH fails as well; every later ATTACH then finds the alias in use and
\* fails, and what d had inserted is never committed.
MergeSkip(d) ==
    /\ pc = "merge" /\ d \in todo /\ \A e \in todo : Fresher(d, e)
    /\ condition[d] # "fine" \/ wedged
    /\ todo' = todo \ {d}
    /\ wedged' = (wedged \/ condition[d] = "torn")
    /\ UNCHANGED <<world, cat, pc, into, out, fresh, chosen, condition, mtime, merged, rebuilds>>

MergeDisc(d) ==
    /\ pc = "merge" /\ d \in todo /\ \A e \in todo : Fresher(d, e)
    /\ condition[d] = "fine" /\ ~wedged
    /\ out' = merge_one_disc(out, image[d], source_freshness(d))
    /\ fresh' = FreshAfter(out, image[d], source_freshness(d))
    /\ todo' = todo \ {d} /\ merged' = merged \cup {d}
    /\ UNCHANGED <<world, cat, pc, into, chosen, condition, mtime, wedged, rebuilds>>

\* The owner goes on with the rebuilt catalog.
RebuildEnd ==
    /\ pc = "merge" /\ todo = {}
    /\ cat' = out
    /\ pc' = "idle" /\ into' = "fresh" /\ out' = NoCatalog
    /\ fresh' = [v \in Volumes |-> 0] /\ mtime' = fresh'
    /\ condition' = [v \in Volumes |-> "fine"] /\ chosen' = {} /\ merged' = {} /\ wedged' = FALSE
    /\ UNCHANGED <<world, todo, rebuilds>>

Next ==
    \/ \E p \in Packs : Scan(p) \/ Prune(p)
    \/ \E v \in Volumes, n \in 1..MaxVolumes : Stage(v, n)
    \/ \E v \in Volumes : Burn(v) \/ Abort(v) \/ Lose(v)
    \/ Split
    \/ \E target \in Targets, discs \in (SUBSET burned) \ {{}} :
          \E state \in [discs -> Conditions], time \in [discs -> FileTimes] :
             RebuildBegin(target, discs, state, time)
    \/ \E d \in Volumes : MergeSkip(d) \/ MergeDisc(d)
    \/ RebuildEnd

Spec == Init /\ [][Next]_vars

-----------------------------------------------------------------------------
(* Properties of rebuilds into a new catalog.  Discs are numbered in the order
   they were mastered: d > e says that d's catalog is younger than e's. *)

\* Every volume gets the status that the youngest merged catalog with that
\* volume has, downgrades included (FMA-06): with or without the youngest's
\* file time, but only while no older catalog has the time of a copying.
FreshestWins ==
    \A v \in Volumes, d \in merged :
        Has(out, v) /\ Has(image[d], v)
        /\ (\A e \in merged \ {d} : Has(image[e], v) => e < d /\ ~Copied(e)) =>
            out.status[v] = image[d].status[v]

\* "The row-derived value guards against copying that mangled the mtime"
\* (_source_freshness): FreshestWins whatever the file times.
FreshestWinsAlways ==
    \A v \in Volumes, d \in merged :
        Has(out, v) /\ Has(image[d], v) /\ (\A e \in merged : e > d => ~Has(image[e], v)) =>
            out.status[v] = image[d].status[v]

\* After a rebuild as before, a VERIFIED volume has a disc in service in the
\* catalog and in the world, and is credited with the packs on it and no others.
ArchivedIsOnDisc ==
    \A c \in {cat, out} : \A v \in Volumes :
        c.status[v] = "VERIFIED" =>
            c.copy[v] = "ACTIVE" /\ v \in burned /\ c.links[v] = image[v].links[v]

\* The first rebuild of an archive remembers every disc that was merged into
\* it; only after a rebuild from some of the discs can a label be given out
\* twice and the other disc's volume be left out.
NoDiscForgotten == rebuilds = 1 => \A d \in merged : Has(out, d)

\* The rebuilt catalog knows the latest password split any merged disc knows,
\* so heirs are pointed at the share cards that work.
NewestSplit == \A d \in merged : image[d].split <= out.split

\* A pack is pruned as the youngest merged catalog that knows it says, while
\* no older one has the time of a copying.
PrunedAsFreshest ==
    \A p \in Packs, d \in merged :
        p \in image[d].known
        /\ (\A e \in merged \ {d} : p \in image[e].known => e < d /\ ~Copied(e)) =>
            (p \in out.pruned <=> p \in image[d].pruned)

\* A readable disc is left out only if a younger disc is torn, or one that
\* passes for younger because it was copied: missing and unreadable catalogs
\* cost nothing but themselves.
LeftOutBehindTorn ==
    \A d \in chosen \ (todo \cup merged) :
        condition[d] = "fine" =>
            \E e \in chosen : condition[e] = "torn" /\ (e > d \/ Copied(e))

-----------------------------------------------------------------------------
(* The inductive invariant for Targets = {"fresh"} *)

\* The clock: volumes are created in the order of their ids, and each is
\* mastered before the next one is created.
ClockInv ==
    /\ \A v \in Volumes : label[v] # 0 => created[v] + 1 <= now
    /\ \A v, w \in Volumes : v < w /\ label[w] # 0 => label[v] # 0 /\ created[v] + 1 < created[w]
    /\ \A v \in burned : label[v] # 0

\* What holds of every catalog, on a disc or not: its rows are of staged
\* volumes with the links they were staged with, and nothing hangs loose.
CatalogInv(c) ==
    /\ \A v \in Volumes :
          /\ Has(c, v) => label[v] # 0 /\ c.links[v] = image[v].links[v]
          /\ ~Has(c, v) => c.copy[v] = "none" /\ c.links[v] = {}
          /\ c.status[v] = "VERIFIED" => c.copy[v] = "ACTIVE" /\ v \in burned
    /\ c.pruned \subseteq c.known

\* Where the merge is: the discs done are younger than those to do or pass for
\* younger, and what out holds comes from the discs merged.
MergeInv ==
    /\ pc = "idle" => chosen = {}
    /\ pc = "merge" => rebuilds # 0
    /\ into = "fresh"
    /\ chosen \subseteq burned /\ todo \subseteq chosen /\ merged \subseteq chosen \ todo
    /\ \A d \in chosen : mtime[d] \in {0, created[d] + 1, now + 1}
    /\ \A d \in chosen \ todo, e \in todo : Copied(d) \/ (d > e /\ ~Copied(e))
    /\ wedged => \E e \in chosen \ todo : condition[e] = "torn"
    /\ \A v \in Volumes : Has(out, v) =>
          \E d \in merged : Has(image[d], v) /\ fresh[v] >= source_freshness(d)
    /\ \A d \in merged, v \in Volumes : Has(image[d], v) =>
          \E w \in Volumes : Has(out, w) /\ label[w] = label[v]
    /\ \A p \in out.known : \E d \in merged : p \in image[d].known
    /\ \A d \in merged : image[d].known \subseteq out.known

RebuildInv ==
    /\ TypeOK /\ ClockInv
    /\ CatalogInv(cat) /\ CatalogInv(out) /\ \A v \in Volumes : CatalogInv(image[v])
    /\ MergeInv
    /\ FreshestWins /\ NewestSplit /\ PrunedAsFreshest /\ LeftOutBehindTorn

\* Until the first rebuild ends, labels are in the order of ids, no disc's
\* volume is deleted, and a volume knows those staged before it and has the
\* highest label in its own image.
LabelInv ==
    rebuilds = 0 \/ (rebuilds = 1 /\ pc = "merge") =>
        /\ \A v \in burned : cat.copy[v] # "none"
        /\ \A v, w \in Volumes : Has(cat, v) /\ Has(cat, w) /\ v < w =>
              label[v] < label[w] /\ Has(image[w], v)
        /\ \A e \in Volumes : Has(cat, e) =>
              /\ Has(image[e], e)
              /\ \A v \in Volumes : Has(image[e], v) => label[v] <= label[e]
              /\ \A v, w \in Volumes : Has(image[e], v) /\ Has(image[e], w) /\ v # w =>
                    label[v] # label[w]

=============================================================================

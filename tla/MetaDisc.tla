------------------------------ MODULE MetaDisc ------------------------------
(***************************************************************************)
(* `lcsas meta build': the tree of the meta disc, the disc with the tools  *)
(* and with every repository's keys, and `lcsas meta verify' of it.        *)
(*                                                                         *)
(* The build takes no lock and may be killed anywhere.  Meanwhile other    *)
(* commands write the catalog, mirrors come and go and lose their keys,    *)
(* and the owner's checkout and cache change.  A later build may use the   *)
(* same output directory, with whatever the earlier ones left there.       *)
(***************************************************************************)
EXTENDS Integers, FiniteSets

CONSTANTS
    Repos,
    Targets,        \* APPROVED_TARGETS
    Args,           \* the flags a build may be given
    MaxVersion,     \* bound: how often a repository's keys change
    MaxBuilds,      \* bound: builds begun
    MaxEvents       \* bound: what others do meanwhile

ASSUME MetaAssumption ==
    /\ Args \subseteq [incomplete : BOOLEAN, missing : BOOLEAN,
                       without : SUBSET {"zstd", "dvdisaster-source"}, catalog : BOOLEAN]
    /\ MaxVersion \in Nat /\ MaxBuilds \in Nat /\ MaxEvents \in Nat

VARIABLES
    cat,        \* cat[r]: the committed rows of repository r
    file,       \* the same in the catalog file without its WAL
    mirror,     \* mirror[r]: does it answer, and the version of its keys/
    src,        \* the checkout, the upstream cache, the packages at hand
    out,        \* the output directory
    job,        \* the running build
    builds, events

vars == <<cat, file, mirror, src, out, job, builds, events>>

\* What a build fails without, unless a flag lets it: --allow-no-zstd,
\* --allow-no-dvdisaster-source.
Extras == {"zstd", "dvdisaster-source"}

NoRow == [reg |-> FALSE, retired |-> FALSE, packs |-> FALSE]

\* lib: the Python library (0 none, 1 whole, -1 cut short); dir: the folders
\* metadata/<repo>; keys: their keys/ (0 none, the version, or its negative
\* when the copy was cut short); up, tier1: the targets whose upstream and
\* own binaries are aboard; file, row: the files under recovery/ and their
\* rows in MANIFEST.sha256, by content (no row: no manifest); root:
\* restore.sh; info: repo_metadata of volume_info.json.
NoTree == [lib |-> 0, dir |-> {}, keys |-> [r \in Repos |-> 0],
           up |-> {}, tier1 |-> {}, file |-> <<>>, row |-> <<>>, root |-> "none",
           info |-> [ack |-> FALSE, keys |-> {}], start |-> FALSE, incomplete |-> FALSE]

NoArgs == [incomplete |-> FALSE, missing |-> FALSE, without |-> {}, catalog |-> FALSE]

\* rows: what the build read of the catalog; seen: what was committed then.
IdleJob == [pc |-> "idle", args |-> NoArgs, fresh |-> FALSE, sound |-> FALSE,
            rows |-> [r \in Repos |-> NoRow], seen |-> [r \in Repos |-> NoRow],
            todo |-> {}, skipped |-> {}, keys |-> {}, rc |-> 0]

At(pc) == job.pc = pc

Go(pc) == job' = [job EXCEPT !.pc = pc]

\* An exception leaves the tree, and .incomplete in it, as they are.
Fail == job' = IdleJob

-----------------------------------------------------------------------------
(* The files under recovery/ and the manifest.                             *)

\* "other" stands for the authored files that no later step rewrites.
Authored == {"driver", "other"}

Put(f, path, content) == [p \in DOMAIN f \cup {path} |-> IF p = path THEN content ELSE f[p]]

Only(f, S) == [p \in DOMAIN f \cap S |-> f[p]]

BinPaths(tree) == {"upstream" : t \in tree.up} \cup {"tier1" : t \in tree.tier1}

\* Binaries have the content "bin"; what matters is that they are there and
\* have a row.
WithBins(f, tree) == [p \in DOMAIN f \cup BinPaths(tree) |-> IF p \in BinPaths(tree) THEN "bin" ELSE f[p]]

\* _refresh_recovery_manifest_row of a file the builder wrote.
Refresh(tree, path, add) ==
    IF DOMAIN tree.row # {} /\ (path \in DOMAIN tree.row \/ add)
    THEN [tree EXCEPT !.row = Put(@, path, tree.file[path])] ELSE tree

\* required_meta_paths that are not there (the others always are when a
\* build has come to its end).
AbsentPaths(tree) ==
    (Targets \ (tree.up \cap tree.tier1))
        \cup {p \in {"driver"} : p \notin DOMAIN tree.file}
        \cup {p \in {"start"} : ~tree.start}

\* files_outside_manifest
FilesOutsideManifest(tree) == DOMAIN tree.file \ DOMAIN tree.row

\* cmd_meta_verify (strict: files without a row count as well).
MetaVerify(tree, strict) ==
    /\ DOMAIN tree.row # {}
    /\ \A p \in DOMAIN tree.row : p \in DOMAIN tree.file /\ tree.file[p] = tree.row[p]
    /\ strict => FilesOutsideManifest(tree) = {}
    /\ AbsentPaths(tree) = {}

-----------------------------------------------------------------------------
(* What happens meanwhile.  A command that writes the catalog leaves its   *)
(* commits in the WAL until the last connection closes (merge).            *)

Event == events < MaxEvents /\ events' = events + 1

Commit(r, row, merge) ==
    /\ Event
    /\ cat' = [cat EXCEPT ![r] = row]
    /\ file' = IF merge THEN cat' ELSE file
    /\ UNCHANGED <<mirror, src, out, job, builds>>

RepoAdd(r, merge) == ~cat[r].reg /\ Commit(r, [NoRow EXCEPT !.reg = TRUE], merge)

RepoRemove(r, merge) == cat[r].reg /\ Commit(r, NoRow, merge)

\* _cmd_repo_set_status
SetRepoStatus(r, merge) == cat[r].reg /\ Commit(r, [cat[r] EXCEPT !.retired = ~@], merge)

\* The first volume with packs of r appears, or the last one is destroyed.
PacksOnDiscs(r, merge) == cat[r].reg /\ Commit(r, [cat[r] EXCEPT !.packs = ~@], merge)

MirrorEvent(r, m) ==
    /\ Event
    /\ mirror' = [mirror EXCEPT ![r] = m]
    /\ UNCHANGED <<cat, file, src, out, job, builds>>

MirrorComesAndGoes(r) == MirrorEvent(r, [mirror[r] EXCEPT !.up = ~@])

KeysChange(r) == mirror[r].keys < MaxVersion /\ MirrorEvent(r, [mirror[r] EXCEPT !.keys = @ + 1])

KeysGone(r) == mirror[r].keys # 0 /\ MirrorEvent(r, [mirror[r] EXCEPT !.keys = 0])

\* An authored file is edited (its row in the source manifest is not), or
\* deleted; binaries are built or fetched, an archive in the cache rots,
\* a package is installed.
SourceEvent ==
    /\ Event
    /\ \/ src.other = "other" /\ \E o \in {"edited", "gone"} : src' = [src EXCEPT !.other = o]
       \/ \E t \in Targets \ src.tier1 : src' = [src EXCEPT !.tier1 = @ \cup {t}]
       \/ \E t \in Targets \ src.up : src' = [src EXCEPT !.up = @ \cup {t}]
       \/ ~src.rotten /\ src' = [src EXCEPT !.rotten = TRUE]
       \/ \E x \in Extras \ src.have : src' = [src EXCEPT !.have = @ \cup {x}]
    /\ UNCHANGED <<cat, file, mirror, out, job, builds>>

-----------------------------------------------------------------------------
(* The build, one action per step of MetaVolumeBuilder.build.              *)

Unshared == UNCHANGED <<cat, file, mirror, src, builds, events>>

BuildBegin(args, fresh) ==
    /\ At("idle") /\ builds < MaxBuilds
    /\ builds' = builds + 1
    /\ out' = [(IF fresh THEN NoTree ELSE out) EXCEPT !.incomplete = TRUE]
    /\ job' = [IdleJob EXCEPT !.pc = "tools", !.args = args, !.fresh = fresh]
    /\ UNCHANGED <<cat, file, mirror, src, events>>

\* _bundle_tools: the standard library is copied if it is not there.
BundleTools ==
    /\ At("tools")
    /\ out' = [out EXCEPT !.lib = IF @ = 0 THEN 1 ELSE @]
    /\ IF "zstd" \in src.have \cup job.args.without THEN Go("source") ELSE Fail
    /\ Unshared

\* _bundle_source, _bundle_docs and _bundle_dvdisaster_source; then
\* standalone_restorer.py, restore_helper.py and keyshare_combine.py, which
\* are written anew each time.
BundleSource ==
    /\ At("source")
    /\ IF \/ "dvdisaster-source" \in job.args.without
          \/ src.tree /\ "dvdisaster-source" \in src.have     \* pinned in recovery/
       THEN Go("catalog") ELSE Fail
    /\ UNCHANGED out /\ Unshared

\* _bundle_metadata reads the catalog with immutable=1: without its WAL.
ReadCatalog ==
    /\ At("catalog")
    /\ job' = IF ~job.args.catalog THEN [job EXCEPT !.pc = "recovery"]
              ELSE [job EXCEPT !.pc = "repos", !.rows = file, !.seen = cat,
                               !.todo = {r \in Repos : file[r].reg}]
    /\ UNCHANGED out /\ Unshared

\* An existing keys/ counts as copied, whatever it holds.
CopyKeys(tree, r, keys) ==
    [tree EXCEPT !.dir = @ \cup {r}, !.keys[r] = IF @ = 0 THEN keys ELSE @]

\* _is_dir_bounded: a mirror that hangs is as good as none.
is_dir_bounded(r) == mirror[r].up

BundleRepo(r) ==
    /\ At("repos") /\ r \in job.todo
    /\ out' = IF is_dir_bounded(r) THEN CopyKeys(out, r, mirror[r].keys) ELSE out
    /\ job' = [job EXCEPT !.todo = @ \ {r},
                          !.skipped = IF is_dir_bounded(r) THEN @ ELSE @ \cup {r},
                          !.keys = IF is_dir_bounded(r) /\ out'.keys[r] # 0 THEN @ \cup {r} ELSE @]
    /\ Unshared

\* The mirror answers the probe and fails during the copy.
BundleRepoFails(r) ==
    /\ At("repos") /\ r \in job.todo /\ is_dir_bounded(r)
    /\ out' = CopyKeys(out, r, - mirror[r].keys)
    /\ Fail
    /\ Unshared

BundleReposDone == At("repos") /\ job.todo = {} /\ Go("recovery") /\ UNCHANGED out /\ Unshared

\* What _copy_recovery_tree copies: in a git checkout the tracked files,
\* else whatever is there.  sound: the copied manifest matches them.
SourceTree ==
    [p \in {"driver"} \cup {q \in {"other"} : src.other # "gone"}
              \cup {q \in {"stray"} : ~src.git} |->
        IF p = "other" THEN src.other ELSE p]

SourceRows == [p \in Authored |-> p]

CopyRecovery ==
    /\ At("recovery")
    /\ out' = IF ~src.tree THEN out
              ELSE [out EXCEPT !.file = SourceTree, !.row = SourceRows, !.up = {}, !.tier1 = {}]
    /\ job' = [job EXCEPT !.pc = IF src.tree THEN "upstream" ELSE "script",
                          !.sound = SourceTree = SourceRows]
    /\ Unshared

\* Every archive in the cache has the hash that UPSTREAM.sha256 pins.
verify_cached_upstream_archives == ~src.rotten

BundleUpstream ==
    /\ At("upstream")
    /\ IF ~verify_cached_upstream_archives THEN Fail /\ UNCHANGED out
       ELSE /\ out' = [out EXCEPT !.up = src.up, !.file = WithBins(@, [up |-> src.up, tier1 |-> {}])]
            /\ Go("tier1")
    /\ Unshared

BundleTier1 ==
    /\ At("tier1")
    /\ out' = [out EXCEPT !.tier1 = src.tier1,
                          !.file = WithBins(@, [up |-> {}, tier1 |-> src.tier1])]
    /\ Go("manifest")
    /\ Unshared

\* _regenerate_recovery_manifest: the rows of bin/ anew, the others kept.
RegenerateManifest ==
    /\ At("manifest")
    /\ out' = [out EXCEPT !.row = WithBins(Only(@, Authored), out)]
    /\ Go("script")
    /\ Unshared

\* Mutant of WriteRestoreScript: the row of restore.sh stays that of the
\* driver the stub replaced.
WriteRestoreScriptOnly ==
    /\ At("script")
    /\ out' =
         IF "driver" \in DOMAIN out.file
         THEN [Refresh([out EXCEPT !.file = Put(@, "legacy", "legacy")], "legacy", TRUE)
                 EXCEPT !.root = out.file["driver"], !.file["driver"] = "stub"]
         ELSE [out EXCEPT !.root = "legacy"]
    /\ Go("auto")
    /\ Unshared

\* _write_restore_script: the driver becomes restore.sh at the root, a stub
\* takes its place, and the legacy script joins it.
WriteRestoreScript ==
    /\ At("script")
    /\ out' =
         IF "driver" \in DOMAIN out.file
         THEN LET legacy == [out EXCEPT !.root = out.file["driver"],
                                        !.file = Put(@, "legacy", "legacy")]
                  stub == [Refresh(legacy, "legacy", TRUE) EXCEPT !.file["driver"] = "stub"]
              IN Refresh(stub, "driver", FALSE)
         ELSE [out EXCEPT !.root = "legacy"]
    /\ Go("auto")
    /\ Unshared

WriteRestoreAutoScript ==
    /\ At("auto")
    /\ out' = Refresh([out EXCEPT !.file = Put(@, "auto", "auto")], "auto", TRUE)
    /\ Go("info")
    /\ Unshared

\* _write_readme, _write_readme_txt, _write_volume_info, _write_start_here,
\* and the marker goes.
WriteVolumeInfo ==
    /\ At("info")
    /\ out' = [out EXCEPT !.info = [ack |-> job.args.missing, keys |-> job.keys],
                          !.start = TRUE, !.incomplete = FALSE]
    /\ Go("gate")
    /\ Unshared

\* missing_required_contents: the folders without keys/, old ones included.
KeysMissing(tree) == {r \in tree.dir : tree.keys[r] = 0}

\* Skipped, still active, and with packs on discs that exist.
Gaps == {r \in job.skipped : ~job.rows[r].retired /\ job.rows[r].packs}

\* Mutant of Gate: --allow-incomplete excuses missing keys too.
GateOneFlag ==
    /\ At("gate")
    /\ LET ok == /\ AbsentPaths(out) \cup KeysMissing(out) = {} \/ job.args.incomplete
                 /\ Gaps = {} \/ job.args.missing
       IN job' = [job EXCEPT !.pc = "returned", !.rc = IF ok THEN 0 ELSE 1]
    /\ UNCHANGED out /\ Unshared

\* The gates of cmd_meta_build.
Gate ==
    /\ At("gate")
    /\ LET ok == /\ AbsentPaths(out) = {} \/ job.args.incomplete
                 /\ KeysMissing(out) = {} \/ job.args.missing
                 /\ Gaps = {} \/ job.args.missing
       IN job' = [job EXCEPT !.pc = "returned", !.rc = IF ok THEN 0 ELSE 1]
    /\ UNCHANGED out /\ Unshared

BuildReturns == At("returned") /\ job' = IdleJob /\ UNCHANGED out /\ Unshared

\* What a kill in the middle of a copy leaves.
CutShort ==
    CASE At("tools") -> {out, [out EXCEPT !.lib = IF @ = 0 THEN -1 ELSE @]}
      [] At("repos") -> {out} \cup {CopyKeys(out, r, - mirror[r].keys) :
                                    r \in {x \in job.todo : is_dir_bounded(x)}}
      [] At("recovery") /\ src.tree ->
           {[out EXCEPT !.file = Only(SourceTree, S), !.row = <<>>, !.up = {}, !.tier1 = {}] :
                S \in SUBSET Authored}
      [] OTHER -> {out}

KillBuild ==
    /\ job.pc \notin {"idle", "returned"}
    /\ out' \in CutShort
    /\ Fail
    /\ Unshared

-----------------------------------------------------------------------------

\* Nothing amiss; or no recovery/ beside the program; or no git checkout and
\* no dvdisaster source; or no binaries built or fetched; or no zstandard
\* package.
Sources ==
    LET whole == [tree |-> TRUE, git |-> TRUE, other |-> "other", up |-> Targets,
                  tier1 |-> Targets, rotten |-> FALSE, have |-> Extras]
    IN {whole, [whole EXCEPT !.tree = FALSE], [whole EXCEPT !.git = FALSE, !.have = {"zstd"}],
        [whole EXCEPT !.up = {}, !.tier1 = {}], [whole EXCEPT !.have = @ \ {"zstd"}]}

Init ==
    /\ cat \in [Repos -> {NoRow, [reg |-> TRUE, retired |-> FALSE, packs |-> TRUE]}]
    /\ file = cat
    /\ mirror = [r \in Repos |-> [up |-> TRUE, keys |-> 1]]
    /\ src \in Sources
    /\ out = NoTree /\ job = IdleJob
    /\ builds = 0 /\ events = 0

Next ==
    \/ \E r \in Repos, merge \in BOOLEAN :
          \/ RepoAdd(r, merge) \/ RepoRemove(r, merge)
          \/ SetRepoStatus(r, merge) \/ PacksOnDiscs(r, merge)
    \/ \E r \in Repos : MirrorComesAndGoes(r) \/ KeysChange(r) \/ KeysGone(r)
    \/ SourceEvent
    \/ \E args \in Args, fresh \in BOOLEAN : BuildBegin(args, fresh)
    \/ BundleTools \/ BundleSource \/ ReadCatalog
    \/ \E r \in Repos : BundleRepo(r) \/ BundleRepoFails(r)
    \/ BundleReposDone \/ CopyRecovery \/ BundleUpstream \/ BundleTier1
    \/ RegenerateManifest \/ WriteRestoreScript \/ WriteRestoreAutoScript
    \/ WriteVolumeInfo \/ Gate \/ BuildReturns \/ KillBuild

Spec == Init /\ [][Next]_vars

-----------------------------------------------------------------------------

\* A live repository: registered, not retired, with packs on discs.
Live(row) == row.reg /\ ~row.retired /\ row.packs

\* `meta build' that returns 0 masters no disc that silently lacks the keys
\* of a live repository: its keys are aboard (whole, when the directory was
\* new), or volume_info.json on the disc says that the gap was acknowledged
\* and does not list them.  This holds when nothing was waiting in the WAL.
KeysOrRecord ==
    At("returned") /\ job.rc = 0 /\ job.args.catalog /\ job.rows = job.seen =>
        \A r \in Repos : Live(job.seen[r]) =>
            \/ out.keys[r] # 0 /\ (job.fresh => out.keys[r] > 0)
            \/ out.info.ack /\ r \notin out.info.keys

\* A disc built with no --allow-incomplete, from a git checkout whose own
\* manifest is current, passes `meta verify --strict': the steps that write
\* under recovery/ after the manifest keep its rows true.
VerifyAgrees ==
    At("returned") /\ job.rc = 0 /\ ~job.args.incomplete /\ job.sound =>
        MetaVerify(out, TRUE)

=============================================================================

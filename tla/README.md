# A TLA+ model of LCSAS

LCSAS archives restic/rustic repositories on optical discs.  The mirror of a
repository is scanned for *packs*; packs are binned into *volumes*; a *burn
session* masters an ISO image per volume, protects it with RS03 parity, burns
it, reads the disc back and records the disc at a *location*.  An SQLite
catalog is the only memory of what is on which disc.  A mistake in it has one
of two costs: a pack believed archived that is on no disc, or a disc nobody
remembers.

When the house is gone, an heir has the discs alone: each carries the catalog,
and a *meta disc* carries tools, keys and scripts.  A mistake there costs the
archive.

This directory models the commands that write the catalog, the opening and
migration of the catalog itself, the splitting of passwords into share cards,
the building of the meta disc and the recovery from it down to the words of the
cards and the bits of a compressed blob.  TLC checks the models on small
instances; TLAPS proves the most important results for every instance.

## Inventory

| component (source below `src/lcsas`) | state | operations | hard part |
|---|---|---|---|
| catalog tables and queries (`db/`) | packs, volumes, volume_packs, volume_copies, burn_sessions, session_volumes, volume_events | row updates, the queries for unarchived, at-risk, ghost and strandable rows | two relations (volume status, disc rows) that must agree |
| catalog lock and schema (`db/connection.py`, `db/schema.py`) | lock file, holder stamp, tables, version | take, time out, release; create, migrate | a holder that dies or sits at a prompt; a migration that dies; a command that migrates without the lock |
| scan and prune sync (`packs/`) | mirror listing | register, mark pruned, unprune | the mirror changes while it is listed; an unreadable directory looks like pruning |
| stage (`burn/orchestrator.py`, `staging/`, `iso/`, `ecc/`) | session, staging tree, images | gather, bin-pack, commit, master, augment, hash | the volume is committed before its image exists |
| burn (`burn/orchestrator.py`) | volume status, disc rows, receipts | load, write, read back, commit, receipt | hardware fails; commit points; re-burns |
| clean, abort, reconcile | images, rows | delete | must not strand packs or forget discs |
| split burning (`burn-iso`, `import-receipts`) | receipts | import | late, repeated and contradictory receipts |
| verify and custody | disc rows | promote, deprecate, destroy, lose, move | the last disc of a volume |
| consolidation (`consolidate/`) | volume status | mark, stage, revert, deprecate | several sources, transaction scope |
| bin packing (`binpack/`) | none | first-fit decreasing | limits |
| restore, rebuild (`restore/`, `db/rebuild.py`) | cache, merged catalog | plan, ingest, merge | missing and damaged discs; file times that copying changed |
| key escrow and shares (`db/key_escrow.py`, `keyshare/`, `key split`) | share files, the ledger `key_escrow`, the configuration | split, record, check for drift, combine | the files, the record, the configuration and the repository's name change one by one |
| meta disc (`meta/builder.py`, `meta build`, `meta verify`) | output directory, manifest | copy, gate, verify | mirrors and catalog change during a build; a used directory |
| recovery (`meta/builder.py` scripts, `meta/restore_single_drive.py`, `restore/restic_fallback.py`, `restore/_zstd_pure.py`) | work directory, target | bootstrap, ingest, finalize, read | discs wrong, damaged, skipped or newer; kills; decoding |
| staging cleanup, recovery tools in C (`recovery/src`) | staged trees; none | delete; restore without Python | not modelled |

Commands that write the archive's rows take one exclusive lock for their whole
life, so these commands do not interleave with each other (OpenCatalog looks at
the lock itself and at the commands that do without it; `meta build` and the
recovery scripts take none).  What does interleave is rustic on
the mirror, the death of the process between two commits, the hardware, and
receipts from other machines.  `PROJECT.json` lists each hazard at its line
with the properties that would catch it.

## Modules

**Catalog** is the vocabulary: the statuses of the schema's CHECK constraints,
`VALID_TRANSITIONS`, and the queries as operators over the tables.  They keep
the names they have in the code.

**Archive** is the pipeline.  The variables are the mirror and the images
(`mirror`, `iso`), the committed catalog (`known`, `pruned`, `status`,
`packsOn`, `copies`, `hashed`, `session`, `svols`, `noted`), the running
command `op`, and history variables that no action reads (`disc`: the
images on discs that were burned well; `attested`: volumes somebody outside
vouched for; `missed`: packs that were missing or empty at some moment of the
scan; `crashes`).  A pack's file on the mirror is `none`, `empty` or `whole`.

A command is entered when `op = Idle` (`Enter`: the lock is free), walks
through the program counters in `PCs` and leaves with `Exit`.  A step ends at
an SQLite commit, a rename, a device effect or a raise; everything a handler
does between two such points is one action.

| command | actions |
|---|---|
| `scan`, `pack unprune` | `ScanBegin`, `ScanDir`, `ScanRegister`, `ScanPrune`, `PackUnprune` |
| `stage` | `StageBegin`, `StageVolume`, `StageRefused`, `StageIso`, `StageEcc`, `StageFail`, `StageHash`, `StageHashFail`, `StageEnd` |
| `burn` | `BurnBegin`, `BurnLoad`, `BurnRefused`, `BurnBadTransition`, `BurnWrite`, `BurnCommit`, `BurnException`, `BurnReceipt`, `BurnReceiptFail`, `BurnEnd` |
| `stage --clean`, `session abort` | `CleanBegin`, `CleanDelete`, `CleanFiles`, `CleanMark`, `AbortVolume` |
| `catalog reconcile --fix` | `ReconcileBegin`, `ReconcileDelete` |
| `repo remove --force` | `RepoRemoveBegin`, `RepoRemove` |
| `catalog import-receipts`, `verify` | `ImportReceipt`, `MarkVerified`, `VerifyPass` |
| `copy deprecate/destroy/lost`, `location move` | `CopyDeprecate`, `CopyDestroy`, `CopyMove` |
| `consolidate --deprecate` | `DeprecateBegin`, `DeprecateSource`, `DeprecateRefused`, `DeprecateCommit` |
| `consolidate --execute` | `ConsolidateBegin`, `ConsolidateStage`, then the stage actions |
| rustic, the operating system | `MirrorWrite`, `MirrorLose`, `Crash` |

Abstractions: one repository; packs have no sizes, so the plan of
`_multi_bin_pack` is any ordered partition of the pool; media are production
media (parity is always applied); volumes are named by their id, not by their
label; an image is `plain`, `ecc` or `gone`; a burned disc is `good`,
`garbled` (readable, right label, wrong bytes) or `unusable`.  A query outcome
that leaves everything unchanged (a dry run, "nothing to do") is no action.
A scan lists one directory after the other (here: one pack each) while rustic
goes on; a directory it cannot read is an error, a file of zero bytes is not.

**MCArchive** gives the command families of the runs.  **ArchiveProofs** holds
the theorems.

**BinPack** is `_multi_bin_pack` around `first_fit_decreasing`: the pass over
the packs sorted by size (`BeginPass`, `Consider`), the volume it closes
(`CloseBin`, which adds the sizes up again as the code does), the two errors
(`Raise`), and `estimate_volumes_needed`.
Sizes are integers and the reserve for parity is the integer division of the
code.  **BinPlan** is what the pipeline relies on: packs are taken in non-empty
bins until none is left, or the request is refused.  BinPack implements BinPlan
(`ImplementsBinPlan`), and `StageVolume` of Archive takes any bin BinPlan would.

**SplitBurn** follows images that leave the house: `Stage` and `Abort` give out
labels and give them out again, `Export` copies an image, `BurnIso` burns it on
a machine without the catalog and writes a receipt, and `Import` applies any
receipt ever written, once, twice or never, in any order.  A receipt names its
volume by label and its image by hash.  A label is a prefix, a kind and a
number; `next_seq_num` counts the labels whose first part is the prefix
(`Counts`), so none for a prefix with '_', and the UNIQUE label column refuses
what is given out twice (`IsFree`).  Archive abstracts all this to
`ImportReceipt`.  Left out: `--label` overrides, receipts without a hash, and
the steps inside a local burn, which Archive has.

**Rebuild** is `catalog rebuild`.  Its first half is a short history (scan,
prune, stage, burn, abort, lose, split) that puts catalogs of different ages on
discs; its second half merges any of these discs.  `RebuildBegin` chooses the
discs, what is wrong with them (`unreadable`: no SQLite file; `torn`: the merge
fails after its first INSERT) and what copying did to the file times: kept
them, lost them (0) or set them to the time of copying;
`MergeDisc` and `MergeSkip` take the discs newest first; `RebuildEnd` makes the
result the master catalog, and the history goes on from it.  Left out: a second
location, the tables merged as `packs` is, and the text of warnings.

**Restore** is `restore exec` and `restore standalone`.  The archive (statuses
and links of the catalog at hand, pack files on the discs, discs at hand, images)
is fixed by `Init`, with up to `MaxTroubles` things wrong with it; only discs may
be found between runs.  A run begins (`BeginExec`, `BeginStandalone`, or at once
ends: `BeginMissing`, `BeginReader`), goes through the volumes of the pick list
(`AskVolume`, `SkipVolume`, `VolumesDone`), then through the alternates of what
failed (`AskAlternate`, `SkipAlternate`), and ends in `Finish`, `IsoFails` or
`Die`.  `ingest_volume` goes pack by pack (`IngestKeep`, `IngestUnlink`,
`IngestNotFound`, `IngestCopy`, `IngestCheck`), since the copy has its final name
before it is checked.  The cache survives from run to run; `NewCache` is a run
with another one.  A pack file is good, bad, empty or not there; with prompts any
disc at hand may be mounted for any label.  `IsoRefused` is the check of images,
of `restore exec` and of the `--volume-dir` retries of `restore standalone`.  Left out: a preferred location, the
disk-space preflight, missing metadata and the dry run, which all end a run
before it does anything.

**OpenCatalog** is how a command gets at the catalog.  A process walks through
`TryLock` or `Acquire`, `StampHolder`, `Connect`, `CreateFile`, `EnsureSchema`,
the statements of `create_all` (`CreateTable`, `CountVersions`,
`InsertVersion`) and of each migration (`BeginImmediate`, `RunStatement`,
`Commit`), to `Use` (a writer) or `Look` (a reader); `LockTimeout` and `Leave`
(an error, a return or a death) end it anywhere.  `is_readonly` is the test of
`ensure_schema`: a BEGIN IMMEDIATE that fails for any reason, so that a catalog
another process is writing counts as read-only and is used as it is (`compat`);
`Busy` is that failure at the BEGIN of a migration, and `StatementRefused` that
of a statement SQLite does not take: ADD COLUMN with DEFAULT CURRENT_TIMESTAMP
on a table that has rows.  `volume impact` takes the
same way without the lock.  A migration's statements come from `MigrateTo3` to
`MigrateTo10`; a table is its columns, its foreign key and its rows, and RENAME
and DROP do what SQLite does with both, `foreign_keys` on or off.  The first
catalog is new, old, with rows or without (`Unused`), wedged by an earlier build,
read-only or newer than the program.  Legacy builds' own migrations are not re-run, only what they left.

**KeySplit** is `key split` file by file (`SplitBegin`, `SplitShare`,
`SplitCard`, `SplitCheck`, `SplitRecord`, `SplitDie`), `repo add` and `repo
remove` with the rows of the ledger they leave or clear, and the owner's edits.
A repository without keys of its own has those of `[defaults]` (`ConfKeys`).
`Drift` is the check `_escrow_preflight` makes before a disc is staged, `Texts`
what the disc would say of the repositories it can match.  A card is its split, its number and whether it is
whole.

**Slip39** makes words of a password and a password of words, as operators:
framing (`encode_master_secret`), the four-round cipher, Shamir's scheme over
GF(256) with its digest share, the bit layout of a mnemonic and the RS1024
checksum.  Secret and digest are shorter than in the code (4 bytes and 1), HMAC
and PBKDF2 are simple mixing functions; the field, the interpolation, the
layout and the checksum are the code's.  **Bytes** has what Slip39 and Zstd
share.

**SingleDrive** is the restore scripts of the meta disc with their helper:
which disc is asked for and taken (`Turn`, `InsertDisc`, `SkipDisc`), the
re-bootstrap from a fresher disc (`Upgrade`), copying (`IngestDisc`), hashing
what was copied (`FinalizeCache`) and the exit code.  A kill comes anywhere:
while metadata is seeded or cleared for an upgrade (`SeedKilled`, `ClearKilled`;
index, snapshots and keys are copied one after the other), in a copy
(`IngestKilled`, `GatherKilled`), while hashing (`FinalizeKilled`), or in the
writing of `restore-state.json` (`IngestTorn`), after which no run gets past
`BootStuck`.
**Reader** is `PurePythonRestorer`: keys, index, snapshot, the counting
pre-pass, then the tree node by node with blobs from the pack files, prompts
for another disc, partial files and the failure manifest.  **Zstd** is its
decompressor: bit readers, FSE and Huffman tables as operators, a frame as a
state machine.  **ZstdFormat** is the other side, what RFC 8878 lets a
compressor write for a plan of blocks, so that decoder and format are two
independent definitions.  **Recovery** composes these with the combining of
cards (`ReadShares`, `CheckShares`, `CombineShares`); rustic is external and
restores everything or answers 1.  Left out: AES (a blob decrypts or not),
owners, modes and times of files.

**MetaDisc** is `meta build`, one action per step of `MetaVolumeBuilder.build`,
with failures and kills that leave half a copy (`CutShort`), the gates of
`cmd_meta_build` (`Gate`), and `MetaVerify`.  Meanwhile repositories are added,
removed and retired (in the WAL or merged into the file), mirrors and keys come
and go, and the checkout and the upstream cache change.  The tree is its
folders and their keys, the files under `recovery/` by content and their rows in
the manifest, and the disc's own record.  Left out: two builds into one
directory at once, bundled libraries, wording.

**MCBinPack**, **MCSplitBurn**, **MCRebuild**, **MCRestore**, **MCKeySplit**,
**MCRecovery**, **MCMetaDisc** instantiate these for TLC; **VolumeProofs**
(BinPack and SplitBurn), **RebuildProofs**, **RestoreProofs**,
**OpenCatalogProofs**, **KeySplitProofs**, **MetaDiscProofs**,
**RecoveryProofs** (SingleDrive, Reader and Recovery) hold their
theorems.  OpenCatalog needs no MC module.

Definitions marked "Mutant of" are deliberate bugs.  Nothing uses them; each is
put in place of its original to see that the property it belongs to notices.

## Runs

| run | bounds | question |
|---|---|---|
| `custody` | 2 packs, 2 locations, 2 volumes, 1 session, 1 crash | Does the catalog tell the truth about discs through scans, staging, burning, failed read-backs, cleaning, receipts, lost and moved discs, reconcile and a crash at any step?  Can a scan of a changing or half-readable mirror prune what was there all the time? |
| `consolidate` | 1 pack, 3 volumes, 3 sessions, 1 crash, in a deprecation | The inductive invariant; do consolidation and deprecation keep every pack archived? |
| `retry` | 2 packs, 2 volumes, 1 session, no crash | Does every staged volume get onto a disc if the owner burns again and again, even with its packs forgotten by `repo remove --force`? |
| `binpack` | 4 packs of 5 sizes, 2 parity settings, 4 reserves | The plan: a partition, within capacity, tight, refused only for cause (all in `BinInv`), near its estimate; and the loop ends. |
| `split` | 3 volumes, 2 locations, 2 receipts, a prefix without '_' and one with | Which image may a receipt credit to which volume? |
| `rebuild` | 2 packs, 3 volumes, 6 ticks, 1 rebuild, 1 damaged disc or any file times lost or set by copying | Whose word wins when catalogs of different ages are merged? |
| `restore` | 2 packs, 2 volumes, 2 runs, 2 troubles | Does every pack that some disc has arrive intact, and is every other one reported? |
| `open` | a locker, a locker with timeout, a `volume impact`, a reader; 3 starts; versions none, 2 and 11, with rows or without, and 4, wedged | One holder; a schema that is what its version says at every commit; no row lost; a newer catalog untouched; an answer for whoever has a timeout or needs no lock, while the holder sits at a prompt for ever. |
| `keys` | 1 configured name and an alias, 2 repositories, 2 passwords, 3 cards, 2 splits, 2 edits | Do the cards handed out give the password back, is the ledger true, does the disc's text agree with it? |
| `recovery` | 3 packs, 3 discs, 3 layouts, up to 2 damaged files or a missing disc, 2 runs, 1 kill; 6 plans of frames and their spoilt forms; hands of cards (few, mixed, damaged, of other splits) in seven ways of writing, on stdin or in files | Does an heir get everything that is there, is everything else reported, and is nothing wrong handed over? |
| `meta` | 2 repositories, 1 target, 2 builds, 2 events | Does a disc that `meta build` calls good have every live repository's keys, and does it pass `meta verify --strict`? |
| `find_huffman` | 1 frame | See Findings. |

The bounds are the smallest at which the cases occur.  Two locations make a
volume with some of its discs lost; two volumes in a session make a later one
fail after an earlier one has committed; the deprecation hazard needs three
volumes of one pack, because the first source commits by itself and the second
and third share a transaction; three volumes make a label that is reused while
its old image travels and another volume exists; three discs make a merge with
a youngest, an oldest and one that both disagree with; two troubles on two
volumes make a primary that fails and an alternate that fails too, and two runs a
cache that a killed run left behind.  In `open`, version 2 without rows passes
through every migration and with rows is refused at its first; the wedged
version 4, once repaired, takes its rows through every later one, the two that
rename tables among them.  In `recovery` three discs make a pick list that is
stale, an upgrade in the middle of the loop and an alternate; the plans of
frames contain every kind of block, of literals, of stream layout and of
sequence table.  Two builds in `meta` make a used directory, two events a mirror
that comes back with other keys.  One crash suffices for
the invariants, since a second one finds a state that the invariant already
describes; the proofs hold for any number.  `PruneFloor` stands for the
mass-prune guard's threshold.

Symmetry is used over packs, locations, repositories and passwords, which no
action orders, in runs with safety properties only.  In `custody`
packs leave the mirror only while no volume is staged (`PrunesFirst`), which keeps the
run small and leaves every order of writes, losses and scans.  `consolidate` spends
its crash on deprecations, and scans only while a pack is not registered
(`CrashWhileDeprecating`).  `rebuild` has a damaged disc or changed file times,
not both at once (`OneTroubleAtATime`); the proofs have both.  Deadlock is checked in the Archive runs: the owner
always has a command to give.  `binpack` ends when the plan is returned or
refused; the other runs end when volumes, receipts, clock, runs, starts or
builds are used up.

**Fairness.**  Only `retry`, `binpack` and `open` use it.  In `open`, WF on
`Opening(p)` says that a process on its way to the catalog is scheduled and that
its timeout runs out, which the code counts itself.  The work under the lock
(`Use`) has no fairness: holders sit at `input()`.  So `Answered` speaks of
commands with `--lock-timeout` and of those without the lock; one that waits
without a timeout may wait for ever, as `connection.py:117` says.  Deaths and new
starts have no fairness either.  `binpack` runs one
sequential loop: WF on `Next`.  In `retry`, WF on `StepOn` says that a running
command goes on to its next step, and SF on `BurnBegin`, `BurnLoad`, the good
`BurnWrite`, `BurnCommit` and `BurnReceipt` says that the owner keeps burning
the session and that hardware, disc and file system do not fail every time.
Failure branches (`BurnException`, bad discs) have no fairness, and crashes are
excluded: with a crash the property is false (see the observations: a volume
left BURNING).

## Proofs

TLAPS checks the theorems for every value of the constants.  Most assumptions
are about bounds only: `MaxVolumesAssumption`, `ArchiveBounds`,
`BinPackAssumption`, `SplitBurnAssumption`, `RebuildAssumption`,
`RestoreAssumption`, `MetaAssumption`, `SingleDriveAssumption`.  `OpenAssumption` adds that the kinds of
processes are disjoint and that versions of earlier catalogs are numbers;
`KeyAssumption` that names, aliases and repository ids differ, that a refusal is
no password, and that a shape K of N that can be split has
N - K + 1 <= `MaxSubsets`, which the code has since N is at most 16 and its
round trip tries up to 64 subsets.  Recovery's say what an archive is.
`CasesAssumption`: the discs are such as staging leaves, every session has
snapshots, contents and trees are different blobs.  `RunsAssumption`: a tool is
given its own options.  `TreesAssumption`: directories lead to trees, a name (a
path) is that of one node of a snapshot, and files linked to one inode of one
device have one content; a file that was changed between the backup of two of
its links is therefore not spoken of.  `SnapshotsAssumption`: snapshots have a
time and a tree that is there.  TLC evaluates all of them on the run's archive.

*Archive.*  `DurableBacked` (a BURNED, VERIFIED or CONSOLIDATING volume has a
disc row in service, or somebody outside vouched for it) is not inductive:
it needs to know what a half-finished command has done.  `IInv` adds, per
program counter, what holds there: `StageInv` and `BurnInv` (the volume in work
is a STAGING or BURNING volume of its session, and a disc to be committed was
read back), `PurgeInv` (what clean and reconcile will delete has no disc row),
`SourceInv` and `DeprecateInv` (the sources in `op` are what the status columns
say), `RowsInv` (rows of deleted or absent volumes are gone).  `Invariance`
gives `TypeCorrect`, `DurableIsBacked` and `RecordedIsReal`; the action
properties `RecordedIsKept`, `MovesAreLegal` and `DeprecationIsSafe` follow
from it step by step.

The properties of sessions, images and notes need more, `TrackInv`, inductive
relative to `IInv`.  `LinkedInv`: every volume row has a session and known packs
(`PendingInSession` speaks of waiting volumes only, but one that failed its
read-back goes back to waiting).  `LoopInv`: a burn without a failure has a disc
row for every volume that has left its list, which is why `BurnEnd` may write
COMPLETE; that later stages add no volume to a COMPLETE session is `PoolInv`.
`SweepInv`: what clean has still to delete contains everything that deleting the
images would strand, and nothing with a note.  Steps that only move statuses are
all instances of `TablesMove`, deletions of `TablesDelete`.  The results are
`PendingIsReachable`, `NothingIsStranded`, `CompleteIsComplete`,
`NotesStayTrue`.  `SourceInv` over staging volumes is vacuous, because
`consolidate --execute` never stages (see the observations).
`PruneIsOfTheAbsent` has its own invariant `ListInv`: every pack the scan has
not found in a directory it has passed without an error was missing or empty at some
moment since it began (`ScanStep`), while the mirror changes under it.

*BinPack.*  `BinInv` consists of `PassInv` (packs passed over did not fit
beside what was in the bin, which only grows since sizes are not negative) and
`OuterInv` (each closed volume is full for everything that still remains).
They give partition, fit, tightness and the cause of a refusal, and
`Refinement`: BinPack implements BinPlan.  `EstimateIsNear`
is about sums of sizes, folds over finite sets.  That such a fold is what it
should be, whichever pack it takes first (`TotalOfIsSum`, `TotalOfRemove`,
`TotalOfUnion`), is an induction over subsets (`SubsetInduction`, stated with a
set in place of a predicate, as the provers need it).  `SumInv`
then says that the bytes stated are the sums, and that any two volumes in a row
hold more than one could; the estimate follows from both by arithmetic.

*SplitBurn.*  `SplitInv` with `RecordInv`: every receipt bears the label its
image had, every row's hash was burned at that location, labels of existing
volumes differ, which the UNIQUE column sees to.  A foreign hash in a row
therefore belongs to a deleted volume (`ConfusionNeedsReuse`).  `PlainPrefixWorks`:
for a prefix without '_' the column never has to refuse, since the number is above
all that exist.

*Rebuild.*  For rebuilds into a new catalog (`Targets = {"fresh"}`; for the
live catalog the properties are false, see the observations).  `ClockInv` orders
the volumes by time and makes a younger disc the fresher one with its file time
or without (`YoungerIsFresher`), unless the older one was copied with a new time,
which makes it the freshest of all (`CopiedIsFreshest`).  The discs done are at
least as fresh as those to do (`NextIsFreshest`), and a less fresh catalog
changes no row that is there (`MergeFacts`).  Hence `FreshestWins`,
`PrunedAsFreshest` and `LeftOutBehindTorn` say "the youngest" of discs
of which no older one was copied with a new time; the other case is
a finding.  `CatalogInv` holds of every catalog, on disc or not, which is
what makes the result of a rebuild a state the history may go on from.
`LabelInv` shows that labels repeat only after a rebuild from some of the
discs, hence `FirstRebuildForgetsNoDisc`.

*Restore.*  `RestoreInv` adds three accounts to the locals of a run: only the
pack just copied may be corrupt (`CacheInv`); a pack that is not in the cache
has failed or is still to be asked for (`AccountInv`); with `--volume-dir` it was
looked for in vain wherever the loop has been (`CauseInv`).  It needs that a pack
in service has a primary, i.e. that the pick list's order has a first row
(`FirstIsThere`).  Only `Finish` reports an outcome (`OnlyFinishReports`), and
there the accounts give `RestoredIsIntact`, `NoPackSlipsThrough` and
`FailureHasCause`.  `IntactWhenVerified` covers caches in which a killed run left
a corrupt pack, except for `exec` at the prompts, where it is false
(a finding); `GoodPacksAreKept` is about single steps.

*OpenCatalog.*  Any number of processes, any earlier catalog.  `LockInv` needs
only that none but lockers come to the lock (`OnlyLockers`).  `SchemaInv` speaks
of the committed catalog, but what the next commit makes of it depends on the
copy inside the open transaction: `TxInv` says, statement by statement, what
that copy has in common with the committed one (`Copy`: which table is renamed
away, where its rows are, what is there already), and `KnowsInv` what a process
has made sure of by the time it is at each point of `ensure_schema`, and that no
other process can undo it: versions, tables and columns only grow.  A command
that took a busy catalog for read-only knows nothing of it, and `SchemaInv`
promises it nothing: a writer uses a current catalog or one that was busy or
read-only when it looked.  They give
`LockHasOneOwner` and `SchemaIsAsVersioned`; a step that
writes the catalog is the owner's repair or keeps every row of a catalog that is
this build's to write (`Writes`), hence `NoRowIsLost` and `ForeignIsUntouched`.

*KeySplit.*  `CardsRecover` is about cards in the holders' hands.  `JobInv`
follows them while they are written: those before the current one are of this
split, whole or cut short, and when the round trip has passed all are whole.
That is the heart of it: the round trip combines the first `MaxSubsets` of the
K-subsets only, and would miss a cut card that is in none of them.
`FewComeBefore` and `EveryCardTried` show that the first N - K + 1 subsets, in
the order of `itertools.combinations`, reach every card.  `HeldInv` and
`RowsAreSplits` then tie cards and records to splits that returned 0
(`AnyKCardsRecover`, `RecordsAreOfSplits`), and the drift check ties the disc's
text to the records (`StagedDiscTellsTruth`).

*MetaDisc.*  `KeysOrRecord` speaks of the end of a build; `MetaInv` carries it
there.  `Accounted`: of every repository the build read, the tree has the folder,
the build has a note that its mirror did not answer, or it is still to do.
`Whole`: in a new directory no copy was cut short, because whatever cuts one
short ends the build.  `Recorded` and `Passed`: the disc's record and the exit
code are those of this build.  The tree's other fields matter only in that they
are not the keys (`SameKeys`), so each step that writes tools, binaries,
scripts or the manifest is one application of `GoKeeps`.  For `VerifyAgrees`,
`RowsInv` says of a build from a current checkout which files and rows the tree
has before the manifest is written (`Copied`), and that from then on every step
that writes a file under `recovery/` leaves its row true (`Agree`); hence
`BuiltDiscVerifies`.

*Recovery.*  Two invariants, both inductive only together.  `DriveInv` is about
the scripts.  The cache is loaded by loops over discs and packs; what a loop
leaves is what each of its steps keeps (`LoopExists`, over the number of steps),
so copying, hashing and killing in the middle of either are one lemma each
(`IngestType`, `IngestKilledType`, `FinalizeFacts`, `GatherAllType`).
`CompleteIsIntact` holds because the last phase is entered through finalize only,
which hashes every pack listed, and the cache is not written after it.
`ExitThreeForCause` needs to know where a corrupt pack came from: while nobody
skipped a disc or stopped a script (`calm`), the disc taken is the one asked for, and a disc noted as
corrupt for a pack has a damaged file of it.  Hence `LastPhaseIsIntact` and
`ExitThreeIsMeant`.

`ReaderInv` is about the reader.  `NothingSilent` speaks of the end of a
traversal; `OnTheWay` is what makes it come out: every node of the snapshot is
restored, accounted for by a name already noted, or still to come, where what is
to come is read off the stack (`Pending`): the rest of each directory on it, and all
that is below.  `PendingOnward`, `PendingEnter` and `PendingLeave` say what the three moves
of the stack take from it: the node passed, the directory entered (which is
restored by its nodes), the rest of the directory left.  Each step then settles
exactly that (`AdvanceGood`, `LeaveGood`): a file is written and the name is no
other node's, so nothing restored is lost (`FileWritten`); a hard link leads to
a file with its content (`LinksLead`); a tree that cannot be read is covered by
its directory's name (`DirCovers`).  What is under a tree is defined as the least closed set,
so that no recursion is needed.  `FilesAreWhole` is part of `ReaderInv`, since
links copy what is there.  The results are `NoTornFile` and `ReaderIsHonest`, the
latter but for what the reader passes over with a log line only (`PassedOver`:
absolute symlinks, nodes of other types, names with directory parts; the first
are a finding).

Only model-checked: the liveness properties `StagedGetsBurned`, `Terminates` and
`Answered` (out of the prover's reach); `CombineRight`, which is about what
Shamir's scheme over GF(256), the checksum and the cipher compute from given
cards; and `HealthyRestores`, which needs in addition that the decoder gives back what the
format wrote, for every frame.  Both are facts about recursive computations over
data, byte by byte.  In the proofs about Recovery the decoder may answer anything.

## Findings

In each of these TLC finds a property violated that states what the repository
says of itself.  `find_huffman` is a run of the project; the others have a cfg of
their own, to be run by hand (`tlc -config FindBusy.cfg OpenCatalog`), and a
passing property beside them that says what does hold.

* `find_huffman` (`HealthyRestores`): `_build_huffman_from_weights` refuses a
  table whose explicit weights add up to a power of two (`_zstd_pure.py:470`), as
  those of a two-symbol table do and as the reference encoder writes whenever it
  suits the data.  The decoder calls itself "sufficient to read the frames that
  restic / rustic emit" (`_zstd_pure.py:3`).  The other frames of `recovery` avoid
  such tables, so that `HealthyRestores` speaks about the rest of the decoder.
* `FindBusy.cfg`, OpenCatalog (`WritableIsMigrated`): `_is_readonly`
  (`schema.py:329`) takes every failed BEGIN IMMEDIATE for a read-only catalog,
  "database is locked" too, and the command goes on with a writable catalog that is
  not migrated.  `ensure_schema` "Returns the catalog's schema version after the
  call: CURRENT_SCHEMA_VERSION on writable catalogs (created or migrated in
  place), or the existing older version on read-only catalogs" (`schema.py:345`).
* `FindSymlink.cfg`, MCRecovery (`SkippedLinksAreRecorded`): an absolute symlink
  is skipped with a log line and exit 0 (`restic_fallback.py:1311`).
  `recovery/docs/TIERS.txt:232`: "Each skipped link is recorded in
  RESTORE_FAILURES.txt as a ``skipped-symlink`` entry so the fidelity loss is
  visible (and counts toward the exit-2 "K file(s) skipped" outcome)".
* `FindSnapshot.cfg`, MCRecovery (`SnapshotAsAsked`): without rustic the scripts do
  not hand `--snapshot` to the Python reader (`builder.py:786`, `975`, `1459`), and
  the latest snapshot is restored with exit 0.  The usage (`builder.py:359`,
  `1102`): "--snapshot ID     Snapshot to restore (default: latest)".
* `FindAbbreviation.cfg`, MCRecovery (`AbbreviationsCombine`): in card files, lines
  with words typed as their first four letters are not taken for shares
  (`cards.py:48`; on standard input they are).  `docs/SHARE_FORMAT.md:39`: "You
  may type just the first 4 letters of each word", and every card says so.
* `FindTorn.cfg`, MCRecovery (`PicksUp`): killed while it writes
  `restore-state.json` in place (`restore_single_drive.py:91`), the single-drive
  restore fails in every later run on that work directory.  `builder.py:766`:
  "Re-run restore.sh with the missing discs available and the helper will pick up
  where it left off."
* `FindCopied.cfg`, MCRebuild (`FreshestWinsAlways`): `_source_freshness`
  (`rebuild.py:67`) takes the later of file time and youngest row, so a catalog
  copied with a new time overrules younger ones; "the row-derived value guards
  against copying that mangled the mtime" (`rebuild.py:63`) only when it made it
  earlier.
* `FindLeftOver.cfg`, MCRestore (`PrunedAreValid`): `_prune_recovered`
  (`cli/main.py:5491`) is to "Drop packs already present + valid in the cache"
  (`:5476`), but asks for presence only; a corrupt pack left by a process that
  died between the copy and its check (or by `--skip-verify`) reaches rustic if the
  owner then skips its disc.
* `FindPrefix.cfg`, MCSplitBurn (`NumberIsAboveAll`): `next_seq_num`
  (`labels.py:106`) compares the label up to its first '_' with the whole prefix,
  so for a prefix with '_' it always answers 1, and from the second volume of a
  kind and year on UNIQUE refuses the stage; it "returns max + 1"
  (`labels.py:100`), and such prefixes are valid (`settings.py:425`).
* `FindZero.cfg`, MCArchive (`MarkedIsGone`): a pack file of zero bytes, "possibly
  incomplete write", is left out of the listing without an error
  (`scanner.py:42`), so its pack is marked pruned; `delta.py:93` says "packs in
  the catalog that are no longer present on the mirror".

Observations without a cfg of their own.

*Archive, rebuild, restore:*

* A process that dies while burning leaves the volume BURNING, and
  `burn_session` refuses it ever after (`orchestrator.py:1051`: BURNING may not
  become BURNING); `clean_session` (`:1402`) advises exactly to burn again.
* A stage that dies between mastering and augmenting leaves an image without
  parity that a later burn hashes, accepts and records; `stage-and-burn.md:188`
  says that parity is "always applied".
* `catalog rebuild` into the live catalog brings DEPRECATED and DESTROYED
  volumes back from a disc of the youngest volume: the catalog's own freshness
  is the time of its youngest row (`rebuild.py:492`), the disc's is a moment
  later; `consolidate-and-catalog-ops.md:542` says "never resurrected".  With
  `Targets = {"master"}` TLC finds `FreshestWins` and `ArchivedIsOnDisc`
  violated.
* `consolidate --execute` can never stage (`cli/main.py:3326`): it marks the
  sources CONSOLIDATING, a durable status, and then gathers packs from
  `get_unarchived_packs`, which leaves out every pack of a durable volume.
  `consolidate-and-catalog-ops.md:195` describes the session it opens.
* Restore: a bad image ends the run (`executor.py:222`) although alternates may
  have its packs, and so does a read error of a scratched disc, which nothing
  catches.  Image hashes are looked up for primaries only, so without an ECC tool
  an alternate's image is not checked; `_retry_from_alternates_batch` says it is.
* Restore without rustic: `prepare_cache` has created `cache/data` before
  `restore standalone` would link the disc's data there, so the Python reader
  finds no packs; `restore-disc-only.md:352` says that they are linked.
* A source refused after the first one rolls back the NOTE of the first, whose
  DEPRECATED status is already committed (the converse of `NotesAreTrue`).
* Burning an aborted session turns it from CLEANED to COMPLETE or PARTIAL.
* Staging again selects the packs of volumes that are still STAGING
  (`queries.py:107`); `stage-and-burn.md:552` says otherwise.  It costs a disc.
* `stage-and-burn.md:538` says that a failed verification leaves BURNED; the
  code goes back to STAGING.  `:110` and `:574` say that images are deleted
  after verification; the code keeps them until the session is cleaned.
* A receipt for a volume that is BURNING leaves it BURNING with an ACTIVE disc;
  a receipt replayed after a disc was destroyed puts it back in service.
* A CONSOLIDATING volume left by a crash has no command that brings it back.
* `verify --mark-verified` makes a STAGING volume VERIFIED without a disc row;
  `verify` in ISO mode promotes without reading a disc (`attested` in Archive).
* A pruned pack that reappears on the mirror stays pruned until `pack unprune`.
* A late receipt for an aborted volume credits the volume that got its label.
* Rebuild: a torn disc blocks every older disc, since DETACH fails inside the
  open transaction; after a rebuild from some of the discs a label may be given
  out twice, and a later rebuild then drops one of the two volumes silently; the
  newest disc's own volume comes back as STAGING; the command does not take
  the catalog lock.
* `repo remove --force` deletes the packs and their links under volumes that are
  staged; these are burned all the same and then hold nothing the catalog knows.

*Opening the catalog:*

* The migration to version 5 (`schema.py:458`) renames `volumes` to
  `volumes_old`; SQLite since 3.26 rewrites the foreign keys of `volume_packs`
  and the other children to the new name, which is then dropped.  A catalog
  migrated from version 4 or older keeps its rows (`RowsKept`) but takes no new
  one on a volume: "no such table: main.volumes_old".  `Use` has that refusal;
  `RUNBOOK_migration_recovery.md:98` ends where the version is current.
* `volume impact` and `estate card` call `ensure_schema` without the lock.  The
  run shows that SQLite's own transactions suffice for the rows and the schema.
* A version-2 catalog that has repositories can never be migrated: SQLite
  refuses `ADD COLUMN ... DEFAULT CURRENT_TIMESTAMP` on a table with rows
  (`schema.py:406`), as the comment at `schema.py:606` says of another migration.
* The same runbook has the owner run `lcsas status` to repeat a migration;
  read-only commands never migrate.

*Keys:*

* `_escrow_preflight` looks at the repositories on the disc, while its text
  lists every configured one.
* The bare share files are never read back; only the card files are.
* Two repositories with one mirror path share one line of text.
* A re-split into a directory with older files fails half-way and leaves a mix
  there; it returns an error, so nobody should hand those out.
* All trailing newlines of a password file are stripped; the comment says one.

*Recovery:*

* A kill in the middle of copying `snapshots/` leaves some of them, which a later
  run does not copy again: an older snapshot is then "latest", with exit 0.
* Nodes of unknown types and names with directory parts are only logged, like
  absolute symlinks.
* The upgrade to a fresher disc happens only when another disc than the one asked
  for is in the drive.
* Cards wrapped over several lines are understood in files, not on standard input.
* The first disc of a session of several volumes does not know the later ones,
  so its pick list lacks packs that its metadata needs; starting from the newest
  disc, as `HealthyRestores` does, avoids that.
* A kept work directory used again with another first disc mixes metadata; a
  killed seeding leaves torn metadata that is never copied again.
* A read error in the middle of a copy leaves a partial file under the pack's
  name, so that other discs are not asked; finalize then reports it.
* The failure manifest of an earlier run stays after a clean one.
* `--repo NAME` in directory mode is compared with repository IDs.
* In directory mode packs in a kept cache are not hashed again.
* The last raw block of a truncated frame is returned short when neither a
  content size nor a checksum tells.
* A share file that is not UTF-8 ends in a traceback.

*Meta disc:*

* A used output directory is trusted: keys or a standard library cut short by a
  kill, or older keys, are taken for copied and pass every gate; `.incomplete`,
  which would tell, is read by nothing.  An empty `keys/` passes too.
* The catalog is read with `immutable=1`: what waits in the WAL is not seen, so
  a repository just added is missing without a word.
* `_verify_cached_upstream_archives` hashes the archives, but what is copied are
  the binaries extracted from them; a binary that rots after extraction reaches
  the disc, with a manifest row computed from it (the docstring at
  `builder.py:2586` says it never does).
* If `recovery/` vanished between two builds into one directory, the stub left
  there would become the root's `restore.sh` (the model keeps `recovery/` fixed).

## Not modelled

* AES, HMAC and PBKDF2, RS03: arithmetic on long words, whose results the models
  take as given.
* The recovery tools in C: twins of the Python reader with pointers and buffers
  that TLA+ would only paraphrase; the logic they share is in Reader, Zstd and
  Slip39.
* Staging cleanup, reports, location rename, snapshot rows, configuration and
  argument parsing, wording of the texts: no state beyond one table or file.

`PROJECT.json` lists every component with its status, every definition with the
lines it models, and every hazard with the properties aimed at it.

----------------------------- MODULE SingleDrive -----------------------------
(***************************************************************************)
(* The restore scripts of the meta disc: RESTORE_SCRIPT (single-drive and  *)
(* directory mode) and RESTORE_AUTO_SCRIPT of meta/builder.py, with their  *)
(* helper meta/restore_single_drive.py (bootstrap, ingest, finalize).      *)
(*                                                                         *)
(* Labels are numbers in the order of their sorting and of their staging:  *)
(* the catalog on disc i knows the volumes 1..i, because each image takes  *)
(* the catalog as it is when that volume is staged.  The repository's      *)
(* metadata on a disc is that of its session's mirror.                     *)
(***************************************************************************)
EXTENDS Bytes

CONSTANTS
    Packs,          \* packs of the repository, as numbers: sorted by name
    Volumes,        \* how many volumes there are
    MaxRuns,        \* how often the heir runs a tool
    MaxKills        \* how many runs are killed

ASSUME SingleDriveAssumption ==
    /\ Packs \subseteq Nat /\ IsFiniteSet(Packs)
    /\ Volumes \in Nat /\ MaxRuns \in Nat /\ MaxKills \in Nat

VARIABLES
    world,      \* what is on the discs and which discs are at hand; fixed
    sh,         \* the running script
    cache       \* the work directory: cached packs, metadata, pick list, state

driveVars == <<world, sh, cache>>

Labels == 1..Volumes

\* A set of numbers in their order: in each place the one with so many below.
sorted(S) ==
    [i \in 1..Cardinality(S) |-> CHOOSE x \in S : Cardinality({y \in S : y < x}) = i - 1]

\* What the discs hold.  on: the packs of a volume; live: the volumes with a
\* live status in the catalog of a disc; session: the session of a volume;
\* state: how the file of a pack reads on a disc; at: the discs at hand.
DiscsOK(w) ==
    /\ w.on \in [Labels -> SUBSET Packs] /\ w.live \in [Labels -> SUBSET Labels]
    /\ w.session \in [Labels -> Labels] /\ w.at \subseteq Labels
    /\ w.state \in [Labels \X Packs -> {"good", "bad", "eio"}]

\* A history of staging leaves such discs: a catalog knows no later volume, a
\* volume is live when it is staged and never again once it is not, and it
\* leaves only when its packs are on live ones.
Staged(w) ==
    /\ \A i \in Labels : w.live[i] \subseteq 1..i /\ i \in w.live[i]
    /\ \A i, j \in Labels : i < j =>
          /\ w.live[j] \cap (1..i) \subseteq w.live[i]
          /\ w.session[i] <= w.session[j]
          /\ \A p \in w.on[i] : \E k \in w.live[j] : p \in w.on[k]

-----------------------------------------------------------------------------
(* restore_single_drive.py                                                 *)

\* _build_pick_list of the catalog of disc i: the live volumes of a pack; the
\* first one is primary, the others are alternates.
LabelsOf(w, i, p) == {j \in w.live[i] : p \in w.on[j]}

Listed(w, i) == {p \in Packs : LabelsOf(w, i, p) # {}}

Primary(w, i, p) == Min(LabelsOf(w, i, p))

PickListVolumes(w, i) == sorted({Primary(w, i, p) : p \in Listed(w, i)})

\* The metadata in a cache, in the order in which it is copied: 1 the index,
\* 2 the snapshots, 3 the keys with the config.  Each is a whole copy from disc
\* i (i), part of one (-i), or not there (0).
METADATA_SUBDIRS == 1..3

NoMeta == [k \in METADATA_SUBDIRS |-> 0]

\* torn: the state file is cut short.
NoCache == [pack |-> [p \in Packs |-> "none"], meta |-> NoMeta, list |-> 0,
            corrupt |-> [p \in Packs |-> 0], torn |-> FALSE]

\* _seed_metadata copies only the directories the cache does not have: one that
\* is cut short is there.
Seed(meta, i) == [k \in METADATA_SUBDIRS |-> IF meta[k] = 0 THEN i ELSE meta[k]]

\* phase_bootstrap from disc i.  --reseed clears the metadata first; the pick
\* list is written anew, last.
Bootstrap(c, i, reseed) ==
    [c EXCEPT !.list = i, !.meta = Seed(IF reseed THEN NoMeta ELSE c.meta, i)]

\* Killed while it copies the n-th directory, or before it writes the list.
SeedKilled(meta, i) ==
    {[k \in METADATA_SUBDIRS |->
        IF k < n /\ meta[k] = 0 THEN i ELSE IF k = n /\ meta[k] = 0 THEN -i ELSE meta[k]] : n \in 1..4}

\* Killed while it removes the n-th, or when all are gone.
ClearKilled(meta) ==
    {[k \in METADATA_SUBDIRS |->
        IF k < n THEN 0 ELSE IF k = n /\ meta[k] > 0 THEN -meta[k] ELSE meta[k]] : n \in 1..4}

\* One pack of phase_ingest from disc m.  A copy that does not hash right is
\* unlinked and noted; a copy that fails stays as it is, and the phase ends.
IngestPack(w, m, s, p) ==
    IF s.failed \/ s.cache.pack[p] # "none" \/ p \notin w.on[m] THEN s
    ELSE CASE w.state[m, p] = "good" -> [s EXCEPT !.cache.pack[p] = "good"]
           [] w.state[m, p] = "bad"  -> [s EXCEPT !.bad = @ \cup {p}]
           [] w.state[m, p] = "eio"  -> [s EXCEPT !.cache.pack[p] = "bad", !.failed = TRUE]

IngestSome(w, c, m, packs) ==
    Loop(LAMBDA s, p : IngestPack(w, m, s, p),
         [cache |-> c, bad |-> {}, failed |-> FALSE], packs)

\* The packs phase_ingest wants from a disc by its label, primary or not.
Wanted(w, list, label) ==
    sorted({p \in Listed(w, list) : label \in LabelsOf(w, list, p)})

\* phase_ingest: the state file is read and written at the end, one disc per
\* corrupt pack.
Ingest(w, c, m, label) ==
    LET s == IngestSome(w, c, m, Wanted(w, c.list, label))
    IN  IF s.failed \/ c.torn THEN s.cache
        ELSE [s.cache EXCEPT !.corrupt = [p \in Packs |-> IF p \in s.bad THEN label ELSE @[p]]]

\* Killed in the middle: the copy it was making is cut short.
IngestKilled(w, c, m, packs, n) ==
    LET s == IngestSome(w, c, m, SubSeq(packs, 1, n)).cache
    IN  IF n < Len(packs) /\ s.pack[packs[n + 1]] = "none" /\ packs[n + 1] \in w.on[m]
        THEN [s EXCEPT !.pack[packs[n + 1]] = "bad"] ELSE s

\* Killed while _write_state writes the state file, in place.
IngestTorn(w, c, m, packs) ==
    LET s == IngestSome(w, c, m, packs)
    IN  IF s.failed \/ packs = <<>> THEN s.cache ELSE [s.cache EXCEPT !.torn = TRUE]

\* Mutant of Finalize: what is in the cache counts as good.
FinalizeUnverified(w, c) == c

\* phase_finalize --verify-integrity: packs that do not hash right are removed
\* and count as missing.
Finalize(w, c) ==
    [c EXCEPT !.pack = [p \in Packs |->
        IF p \in Listed(w, c.list) /\ @[p] = "bad" THEN "none" ELSE @[p]]]

\* Killed while it removes such packs, or while it writes the state.
FinalizeKilled(w, c) ==
    {[c EXCEPT !.pack = [p \in Packs |-> IF p \in gone THEN "none" ELSE c.pack[p]]] :
        gone \in SUBSET {p \in Listed(w, c.list) : c.pack[p] = "bad"}}
    \cup {[Finalize(w, c) EXCEPT !.torn = TRUE]}

\* Mutant of Viable: only the primary source counts.
ViablePrimary(w, c, p) == {Primary(w, c.list, p)} \ {c.corrupt[p]}

\* The sources of a missing pack, but for the one noted as corrupt.
Viable(w, c, p) == LabelsOf(w, c.list, p) \ {c.corrupt[p]}

\* A torn state file raises, whether packs are missing or not.
FinalizeRc(w, c) ==
    LET missing == {p \in Listed(w, c.list) : c.pack[p] = "none"}
    IN  IF c.torn THEN 1 ELSE IF missing = {} THEN 0
        ELSE IF \E p \in missing : Viable(w, c, p) = {} THEN 3 ELSE 1

-----------------------------------------------------------------------------
(* The scripts.  tool: "single", "auto" or "directory" ("reader" is the    *)
(* Python reader run by hand); keep: --work-dir was given, so that the     *)
(* cache outlives the run; rustic: a rustic or restic binary was found.    *)

NoScript == [tool |-> "none", pc |-> "idle", mnt |-> 0, idx |-> 0, vols |-> <<>>, want |-> 0,
             fresh |-> 0, rc |-> 0, runs |-> 0, kills |-> 0, keep |-> FALSE,
             rustic |-> FALSE, calm |-> TRUE]

DriveInit ==
    /\ sh = NoScript
    /\ cache = NoCache

\* The script ends.  Its EXIT trap removes a work directory it made itself.
Exit(code) ==
    /\ sh' = [sh EXCEPT !.pc = "idle", !.rc = code, !.mnt = 0]
    /\ cache' = IF sh.keep THEN cache ELSE NoCache
    /\ UNCHANGED world

\* A run starts: its arguments are there, and some restore tool is found.  The
\* work directory is kept by all runs or by none.  (calm: the heir has neither
\* skipped a disc nor stopped a run.)
Start(tool, keep, rustic) ==
    /\ sh.pc = "idle" /\ sh.runs < MaxRuns
    /\ sh.runs > 0 => sh.keep = keep /\ sh.tool = tool /\ sh.rc # 0
    /\ sh' = [NoScript EXCEPT !.tool = tool, !.keep = keep, !.rustic = rustic,
                              !.runs = sh.runs + 1, !.kills = sh.kills, !.calm = sh.calm,
                              !.pc = IF tool = "directory" THEN "extract" ELSE "boot"]
    /\ UNCHANGED <<world, cache>>

\* Phase 1: any disc with a catalog.
BootDisc(i) ==
    /\ sh.pc = "boot" /\ i \in world.at
    /\ sh.tool = "single" => ~cache.torn
    /\ cache' = Bootstrap(cache, i, FALSE)
    /\ sh' = [sh EXCEPT !.pc = "loop", !.mnt = i, !.fresh = i, !.vols = PickListVolumes(world, i)]
    /\ UNCHANGED world

\* The single-drive script reads the state file to say how much is cached, and
\* a torn one ends it (set -e).
BootStuck(i) ==
    /\ sh.pc = "boot" /\ i \in world.at /\ sh.tool = "single" /\ cache.torn
    /\ cache' = Bootstrap(cache, i, FALSE)
    /\ sh' = [sh EXCEPT !.pc = "idle", !.rc = 1, !.fresh = i]
    /\ UNCHANGED world

\* Nothing in the drive, "skip" at the first prompt (set -e), no --repo: the
\* helper lists the repositories and answers 2, of which "if !" makes 1.
BootFails == sh.pc = "boot" /\ Exit(1)

\* The label whose turn it is.
Turn == sh.vols[sh.idx + 1]

Looping == sh.pc = "loop" /\ sh.idx < Len(sh.vols)

\* prompt_insert goes on asking until the wanted disc is there.
PromptTakes(i) == i = Turn

\* load_disc leaves a wanted disc where it is, and only warns about another.
LoadTakes(i) == sh.mnt = Turn => i = Turn

InsertDisc(i) ==
    /\ Looping /\ i \in world.at
    /\ IF sh.tool = "single" THEN PromptTakes(i) ELSE LoadTakes(i)
    /\ sh' = [sh EXCEPT !.mnt = i, !.want = Turn, !.idx = @ + 1, !.pc = "upgrade",
                        !.calm = @ /\ i = Turn]
    /\ UNCHANGED <<world, cache>>

\* "skip", or a drive that does not get readable.
SkipDisc ==
    /\ Looping /\ sh.mnt # Turn
    /\ sh' = [sh EXCEPT !.idx = @ + 1, !.mnt = 0, !.calm = FALSE]
    /\ UNCHANGED <<world, cache>>

\* The organic upgrade: a fresher catalog replaces pick list and metadata.
\* The index goes on counting in the new list.
Upgrade ==
    /\ sh.pc = "upgrade"
    /\ IF sh.mnt > sh.fresh
       THEN /\ cache' = Bootstrap(cache, sh.mnt, TRUE)
            /\ sh' = [sh EXCEPT !.pc = "ingest", !.fresh = sh.mnt,
                                !.vols = PickListVolumes(world, sh.mnt)]
       ELSE sh' = [sh EXCEPT !.pc = "ingest"] /\ UNCHANGED cache
    /\ UNCHANGED world

\* ingest --disc-label is the label that was wanted, whatever is mounted.
IngestDisc ==
    /\ sh.pc = "ingest"
    /\ cache' = Ingest(world, cache, sh.mnt, sh.want)
    /\ sh' = [sh EXCEPT !.pc = "loop"]
    /\ UNCHANGED world

\* Phase 3.  The script's messages about the answer are never reached, because
\* set -e ends it with the helper's answer.
FinalizeCache ==
    /\ sh.pc = "loop" /\ sh.idx >= Len(sh.vols)
    /\ LET c == Finalize(world, cache)
           rc == FinalizeRc(world, c)
       IN  /\ cache' = IF rc = 0 \/ sh.keep THEN c ELSE NoCache
           /\ sh' = [sh EXCEPT !.mnt = 0, !.rc = rc, !.pc = IF rc = 0 THEN "restore" ELSE "idle"]
    /\ UNCHANGED world

\* Directory mode takes the metadata of the last image (over a directory that is
\* there, cp -r makes one inside it, where nothing looks), and then every pack
\* of every image that the cache does not have.
Images(w) == sorted(w.at)

GatherAll(w, c, images) ==
    Loop(LAMBDA d, m : IngestSome(w, d, m, sorted(w.on[m])).cache, c, images)

\* Killed while it copies pack p of the k-th image.
GatherKilled(w, c, images, k, p) ==
    LET d == GatherAll(w, c, SubSeq(images, 1, k - 1))
        packs == sorted(w.on[images[k]])
    IN  [IngestKilled(w, d, images[k], packs, Cardinality({q \in w.on[images[k]] : q < p}))
            EXCEPT !.meta = Seed(c.meta, Max(w.at))]

\* An image that cannot be extracted ends the script; so do no image at all,
\* and a cache without packs.
ExtractImages ==
    /\ sh.pc = "extract"
    /\ LET all == GatherAll(world, cache, Images(world))
       IN  IF \/ world.at = {} \/ \E i \in world.at, p \in Packs : p \in world.on[i] /\ world.state[i, p] = "eio"
              \/ \A p \in Packs : all.pack[p] = "none"
           THEN Exit(1)
           ELSE /\ cache' = [all EXCEPT !.meta = Seed(cache.meta, Max(world.at)), !.list = Max(world.at)]
                /\ sh' = [sh EXCEPT !.pc = "restore", !.fresh = Max(world.at)]
                /\ UNCHANGED world

\* --repo is compared with the directories under metadata/, which are named by
\* repository id.
RepoNotFound == sh.pc = "extract" /\ Exit(1)

\* What is in the cache after the script is stopped where it is; a copy it was
\* making is cut short.
Interrupted ==
    CASE sh.pc = "boot" /\ world.at # {} ->
            {[cache EXCEPT !.meta = m] : m \in UNION {SeedKilled(cache.meta, i) : i \in world.at}}
      [] sh.pc = "upgrade" /\ sh.mnt > sh.fresh ->
            {[cache EXCEPT !.meta = m] : m \in ClearKilled(cache.meta) \cup SeedKilled(NoMeta, sh.mnt)}
      [] sh.pc = "ingest" ->
            LET packs == Wanted(world, cache.list, sh.want)
            IN  {IngestKilled(world, cache, sh.mnt, packs, n) : n \in 0..(Len(packs) - 1)}
                \cup {IngestTorn(world, cache, sh.mnt, packs)}
      [] sh.pc = "loop" /\ sh.idx >= Len(sh.vols) -> FinalizeKilled(world, cache)
      [] sh.pc = "extract" /\ world.at # {} ->
            {GatherKilled(world, cache, Images(world), k, p) : k \in DOMAIN Images(world), p \in Packs}
            \cup {[cache EXCEPT !.meta = m] : m \in SeedKilled(cache.meta, Max(world.at))}
      [] OTHER -> {cache}

\* The run is stopped.  Without --work-dir the next run has another work
\* directory.
Kill ==
    /\ sh.pc \in {"boot", "loop", "upgrade", "ingest", "extract"} /\ sh.kills < MaxKills
    /\ \E c \in Interrupted :
          cache' = IF sh.keep THEN c ELSE NoCache
    /\ sh' = [sh EXCEPT !.pc = "idle", !.rc = 137, !.mnt = 0, !.kills = @ + 1, !.calm = FALSE]
    /\ UNCHANGED world

DriveStep ==
    \/ \E i \in Labels : BootDisc(i) \/ BootStuck(i)
    \/ BootFails
    \/ \E i \in Labels : InsertDisc(i)
    \/ SkipDisc \/ Upgrade \/ IngestDisc \/ FinalizeCache
    \/ ExtractImages \/ RepoNotFound \/ Kill

=============================================================================

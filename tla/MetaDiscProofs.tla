--------------------------- MODULE MetaDiscProofs ---------------------------
(***************************************************************************)
(* That no meta disc silently lacks the keys of a live repository, and     *)
(* that a disc built from a current checkout passes its own verification,  *)
(* for any number of repositories, targets, builds and events.             *)
(***************************************************************************)
EXTENDS MetaDisc, TLAPS

\* The parts of the tree that the keys depend on; the others are whatever
\* they are.
IsTree(t) ==
    t \in [lib : {t.lib}, dir : SUBSET Repos, keys : [Repos -> Int], up : {t.up},
           tier1 : {t.tier1}, file : {t.file}, row : {t.row}, root : {t.root},
           info : [ack : BOOLEAN, keys : SUBSET Repos], start : {t.start},
           incomplete : {t.incomplete}]

PCs == {"idle", "tools", "source", "catalog", "repos", "recovery", "upstream", "tier1",
        "manifest", "script", "auto", "info", "gate", "returned"}

RowSet == [reg : BOOLEAN, retired : BOOLEAN, packs : BOOLEAN]

ArgSet == [incomplete : BOOLEAN, missing : BOOLEAN, without : SUBSET Extras, catalog : BOOLEAN]

JobSet ==
    [pc : PCs, args : ArgSet, fresh : BOOLEAN, sound : BOOLEAN,
     rows : [Repos -> RowSet], seen : [Repos -> RowSet],
     todo : SUBSET Repos, skipped : SUBSET Repos, keys : SUBSET Repos, rc : {0, 1}]

\* The catalog and its file, the mirrors, the tree and the build are what
\* they should be.
MetaTypeOK ==
    /\ cat \in [Repos -> RowSet] /\ file \in [Repos -> RowSet]
    /\ mirror \in [Repos -> [up : BOOLEAN, keys : Nat]]
    /\ IsTree(out)
    /\ job \in JobSet

Begun == {"tools", "source", "catalog"}

Bundled == {"recovery", "upstream", "tier1", "manifest", "script", "auto", "info",
            "gate", "returned"}

\* Of every repository the build read, it has the folder, a note that its
\* mirror did not answer, or still has to see to it.
Accounted ==
    /\ job.pc \in Begun => job.todo = {} /\ job.skipped = {} /\ job.keys = {}
    /\ job.pc \in Bundled => job.todo = {}
    /\ job.pc \in Bundled \cup {"repos"} /\ job.args.catalog =>
          \A r \in Repos : job.rows[r].reg => r \in job.todo \cup job.skipped \cup out.dir
    /\ \A r \in job.keys : out.keys[r] # 0 /\ r \notin job.skipped /\ r \notin job.todo
    /\ \A r \in job.skipped : r \notin job.todo

\* In a new directory no copy of keys was cut short.
Whole == job.pc # "idle" /\ job.fresh => \A r \in Repos : out.keys[r] >= 0

\* The disc's own record is that of this build.
Recorded ==
    job.pc \in {"gate", "returned"} =>
        out.info.ack = job.args.missing /\ out.info.keys = job.keys

\* What the gates let pass.
Passed ==
    job.pc = "returned" /\ job.rc = 0 =>
        /\ \A r \in out.dir : out.keys[r] = 0 => job.args.missing
        /\ \A r \in job.skipped : ~job.rows[r].retired /\ job.rows[r].packs => job.args.missing

MetaInv == MetaTypeOK /\ Accounted /\ Whole /\ Recorded /\ Passed

-----------------------------------------------------------------------------
(* Trees.                                                                  *)

\* SameKeys(t, u): u is a tree with the folders, keys and record of t.
SameKeys(t, u) == IsTree(u) /\ u.dir = t.dir /\ u.keys = t.keys /\ u.info = t.info

\* Writing anything else (_write_and_sync, copy2, the manifest) leaves the
\* keys alone.
LEMMA OtherField ==
    ASSUME NEW t, IsTree(t), NEW v
    PROVE  /\ SameKeys(t, [t EXCEPT !.lib = v])
           /\ SameKeys(t, [t EXCEPT !.root = v])
           /\ SameKeys(t, [t EXCEPT !.row = v])
           /\ SameKeys(t, [t EXCEPT !.file = v])
           /\ SameKeys(t, [t EXCEPT !.incomplete = v])
  BY DEF IsTree, SameKeys

\* So does refreshing a row of the manifest.
LEMMA RefreshKeeps ==
    ASSUME NEW t, IsTree(t), NEW path, NEW add
    PROVE  SameKeys(t, Refresh(t, path, add))
<1>1. SameKeys(t, t) BY DEF SameKeys
<1>2. SameKeys(t, [t EXCEPT !.row = Put(t.row, path, t.file[path])])
  BY OtherField
<1> QED BY <1>1, <1>2 DEF Refresh

\* Copying keys adds a folder and at most turns "none" into something.
LEMMA CopyKeysTree ==
    ASSUME NEW t, IsTree(t), NEW r \in Repos, NEW k \in Int
    PROVE  LET u == CopyKeys(t, r, k)
           IN  /\ IsTree(u) /\ u.info = t.info /\ u.dir = t.dir \cup {r}
               /\ u.keys = [t.keys EXCEPT ![r] = IF @ = 0 THEN k ELSE @]
  BY DEF IsTree, CopyKeys

-----------------------------------------------------------------------------
(* What happens meanwhile touches neither the tree nor the build.          *)

Meanwhile == UNCHANGED <<out, job>>

LEMMA MeanwhileKeeps ==
    ASSUME MetaInv, Meanwhile, cat' \in [Repos -> RowSet], file' \in [Repos -> RowSet],
           mirror' \in [Repos -> [up : BOOLEAN, keys : Nat]]
    PROVE  MetaInv'
  BY DEF MetaInv, MetaTypeOK, IsTree, Accounted, Whole, Recorded, Passed, Meanwhile

LEMMA CommitKeeps ==
    ASSUME MetaInv, NEW r \in Repos, NEW row \in RowSet, NEW merge \in BOOLEAN,
           Commit(r, row, merge)
    PROVE  MetaInv'
<1>1. cat' \in [Repos -> RowSet] BY DEF Commit, MetaInv, MetaTypeOK
<1>2. file' \in [Repos -> RowSet] BY <1>1 DEF Commit, MetaInv, MetaTypeOK
<1>3. UNCHANGED <<mirror, out, job>> BY DEF Commit
<1> QED BY <1>1, <1>2, <1>3, MeanwhileKeeps DEF Meanwhile, MetaInv, MetaTypeOK

LEMMA MirrorKeeps ==
    ASSUME MetaInv, NEW r \in Repos, NEW m \in [up : BOOLEAN, keys : Nat], MirrorEvent(r, m)
    PROVE  MetaInv'
<1>1. mirror' \in [Repos -> [up : BOOLEAN, keys : Nat]] BY DEF MirrorEvent, MetaInv, MetaTypeOK
<1>2. UNCHANGED <<cat, file, out, job>> BY DEF MirrorEvent
<1> QED BY <1>1, <1>2, MeanwhileKeeps DEF Meanwhile, MetaInv, MetaTypeOK

-----------------------------------------------------------------------------
(* The build.                                                              *)

\* An exception or a kill ends the build; the tree stays one.
LEMMA FailKeeps ==
    ASSUME MetaInv, Fail, IsTree(out'), UNCHANGED <<cat, file, mirror>>
    PROVE  MetaInv'
<1>1. IdleJob \in JobSet
  BY DEF IdleJob, JobSet, PCs, ArgSet, RowSet, NoRow, NoArgs
<1>2. job' \in JobSet /\ job'.pc = "idle" /\ job'.keys = {} /\ job'.skipped = {} /\ job'.todo = {}
  BY <1>1 DEF Fail, IdleJob
<1> QED BY <1>2 DEF MetaInv, MetaTypeOK, Accounted, Whole, Recorded, Passed, Begun, Bundled

\* A step of the build that leaves the keys alone and goes on to pc.
LEMMA GoKeeps ==
    ASSUME MetaInv, NEW pc \in PCs \ {"idle", "returned", "gate", "repos"},
           job.pc \in Begun => pc \in Begun,
           job.pc \in Bundled => pc \in Bundled,
           job.pc # "idle", job.pc \in Begun \cup Bundled,
           job' = [job EXCEPT !.pc = pc],
           SameKeys(out, out'), UNCHANGED <<cat, file, mirror>>
    PROVE  MetaInv'
<1>1. job' \in JobSet /\ job'.pc = pc
  BY DEF MetaInv, MetaTypeOK, JobSet
<1>2. /\ job'.args = job.args /\ job'.rows = job.rows /\ job'.todo = job.todo
      /\ job'.skipped = job.skipped /\ job'.keys = job.keys /\ job'.fresh = job.fresh
  BY DEF MetaInv, MetaTypeOK, JobSet
<1>3. MetaTypeOK' BY <1>1 DEF SameKeys, MetaInv, MetaTypeOK
<1>4. Accounted'
  BY <1>1, <1>2 DEF SameKeys, MetaInv, Accounted, Begun, Bundled
<1>5. Whole' /\ Recorded' /\ Passed'
  BY <1>1, <1>2 DEF SameKeys, MetaInv, Whole, Recorded, Passed
<1> QED BY <1>3, <1>4, <1>5 DEF MetaInv

LEMMA BuildBeginKeeps ==
    ASSUME MetaInv, NEW args \in Args, NEW fresh \in BOOLEAN, BuildBegin(args, fresh)
    PROVE  MetaInv'
<1>1. args \in ArgSet BY MetaAssumption DEF ArgSet, Extras
<1>2. /\ job' \in JobSet /\ job'.pc = "tools" /\ job'.fresh = fresh
      /\ job'.keys = {} /\ job'.skipped = {} /\ job'.todo = {}
  BY <1>1 DEF BuildBegin, IdleJob, JobSet, PCs, RowSet, NoRow
<1>3. IsTree(NoTree) /\ \A r \in Repos : NoTree.keys[r] = 0
  BY DEF NoTree, IsTree
<1> DEFINE start == IF fresh THEN NoTree ELSE out
<1>4. IsTree(start) BY <1>3 DEF MetaInv, MetaTypeOK
<1>5. out' = [start EXCEPT !.incomplete = TRUE] BY DEF BuildBegin
<1>6. SameKeys(start, out') BY <1>4, <1>5, OtherField
<1>7. MetaTypeOK' BY <1>2, <1>6 DEF BuildBegin, MetaInv, MetaTypeOK, SameKeys
<1>8. Accounted' BY <1>2 DEF Accounted, Begun, Bundled
<1>9. Whole'
  <2>1. fresh => out'.keys = NoTree.keys BY <1>6 DEF SameKeys
  <2> QED BY <1>2, <1>3, <2>1 DEF Whole
<1>10. Recorded' /\ Passed' BY <1>2 DEF Recorded, Passed
<1> QED BY <1>7, <1>8, <1>9, <1>10 DEF MetaInv

LEMMA BundleToolsKeeps == ASSUME MetaInv, BundleTools PROVE MetaInv'
<1>1. SameKeys(out, out') /\ UNCHANGED <<cat, file, mirror>>
  BY OtherField DEF BundleTools, Unshared, MetaInv, MetaTypeOK
<1>2. CASE Go("source")
  BY <1>1, <1>2, GoKeeps DEF BundleTools, At, Go, PCs, Begun, Bundled
<1>3. CASE Fail
  BY <1>1, <1>3, FailKeeps DEF SameKeys
<1> QED BY <1>2, <1>3 DEF BundleTools

LEMMA BundleSourceKeeps == ASSUME MetaInv, BundleSource PROVE MetaInv'
<1>1. SameKeys(out, out') /\ UNCHANGED <<cat, file, mirror>>
  BY DEF BundleSource, Unshared, MetaInv, MetaTypeOK, SameKeys
<1>2. CASE Go("catalog")
  BY <1>1, <1>2, GoKeeps DEF BundleSource, At, Go, PCs, Begun, Bundled
<1>3. CASE Fail
  BY <1>1, <1>3, FailKeeps DEF SameKeys
<1> QED BY <1>2, <1>3 DEF BundleSource

\* After ReadCatalog every repository read is still to do.
LEMMA ReadCatalogKeeps == ASSUME MetaInv, ReadCatalog PROVE MetaInv'
<1>1. out' = out /\ UNCHANGED <<cat, file, mirror>> BY DEF ReadCatalog, Unshared
<1>2. job \in JobSet /\ file \in [Repos -> RowSet] /\ cat \in [Repos -> RowSet] /\ job.pc = "catalog"
  BY DEF MetaInv, MetaTypeOK, ReadCatalog, At
<1>3. CASE ~job.args.catalog
  <2>1. /\ job' \in JobSet /\ job'.pc = "recovery" /\ job'.args = job.args /\ job'.todo = job.todo
        /\ job'.skipped = job.skipped /\ job'.keys = job.keys /\ job'.fresh = job.fresh
    BY <1>2, <1>3 DEF ReadCatalog, JobSet, PCs
  <2> QED
    BY <1>1, <1>2, <1>3, <2>1
       DEF MetaInv, MetaTypeOK, IsTree, Accounted, Whole, Recorded, Passed, Begun, Bundled
<1>4. CASE job.args.catalog
  <2>1. /\ job' \in JobSet /\ job'.pc = "repos" /\ job'.rows = file
        /\ job'.todo = {r \in Repos : file[r].reg}
        /\ job'.skipped = job.skipped /\ job'.keys = job.keys /\ job'.fresh = job.fresh
    BY <1>2, <1>4 DEF ReadCatalog, JobSet, PCs
  <2>2. job.keys = {} /\ job.skipped = {} BY <1>2 DEF MetaInv, Accounted, Begun
  <2>3. MetaTypeOK' BY <1>1, <2>1 DEF MetaInv, MetaTypeOK, IsTree
  <2>4. Accounted' BY <1>1, <2>1, <2>2 DEF Accounted, Begun, Bundled
  <2>5. Whole' /\ Recorded' /\ Passed'
    BY <1>1, <1>2, <2>1 DEF MetaInv, Whole, Recorded, Passed
  <2> QED BY <2>3, <2>4, <2>5 DEF MetaInv
<1> QED BY <1>3, <1>4

\* The mirror answers: the folder is there; it does not: a note is.
LEMMA BundleRepoKeeps == ASSUME MetaInv, NEW r \in Repos, BundleRepo(r) PROVE MetaInv'
<1>1. UNCHANGED <<cat, file, mirror>> BY DEF BundleRepo, Unshared
<1>2. job \in JobSet /\ job.pc = "repos" /\ IsTree(out) /\ mirror[r] \in [up : BOOLEAN, keys : Nat]
  BY DEF MetaInv, MetaTypeOK, BundleRepo, At
<1>3. /\ job' \in JobSet /\ job'.pc = "repos" /\ job'.rows = job.rows /\ job'.args = job.args
      /\ job'.todo = job.todo \ {r} /\ job'.fresh = job.fresh
      /\ job'.skipped = IF is_dir_bounded(r) THEN job.skipped ELSE job.skipped \cup {r}
      /\ job'.keys = IF is_dir_bounded(r) /\ out'.keys[r] # 0 THEN job.keys \cup {r} ELSE job.keys
  BY <1>2 DEF BundleRepo, JobSet
<1>4. CASE is_dir_bounded(r)
  <2>1. /\ IsTree(out') /\ out'.info = out.info /\ out'.dir = out.dir \cup {r}
        /\ out'.keys = [out.keys EXCEPT ![r] = IF @ = 0 THEN mirror[r].keys ELSE @]
    BY <1>2, <1>4, CopyKeysTree DEF BundleRepo
  <2>2. \A x \in Repos : out'.keys[x] = IF x = r /\ out.keys[x] = 0 THEN mirror[r].keys ELSE out.keys[x]
    BY <1>2, <2>1 DEF IsTree
  <2>3. MetaTypeOK' BY <1>1, <1>3, <2>1 DEF MetaInv, MetaTypeOK
  <2>4. Accounted'
    <3>1. \A x \in Repos : job'.rows[x].reg /\ job'.args.catalog
                              => x \in job'.todo \cup job'.skipped \cup out'.dir
      BY <1>2, <1>3, <1>4, <2>1 DEF MetaInv, Accounted
    <3>2. \A x \in job'.keys : x \in Repos /\ (x \in job.keys \/ (x = r /\ out'.keys[r] # 0))
      BY <1>2, <1>3, <1>4 DEF JobSet
    <3>3. \A x \in job'.keys : out'.keys[x] # 0
      BY <3>2, <2>2 DEF MetaInv, Accounted
    <3>4. \A x \in job'.keys : x \notin job'.skipped /\ x \notin job'.todo
      BY <3>2, <1>3, <1>4 DEF MetaInv, Accounted, BundleRepo
    <3>5. \A x \in job'.skipped : x \notin job'.todo
      BY <1>3, <1>4 DEF MetaInv, Accounted
    <3> QED BY <3>1, <3>3, <3>4, <3>5, <1>3 DEF Accounted, Begun, Bundled
  <2>5. Whole' BY <1>2, <1>3, <2>2 DEF MetaInv, Whole
  <2>6. Recorded' /\ Passed' BY <1>3 DEF Recorded, Passed
  <2> QED BY <2>3, <2>4, <2>5, <2>6 DEF MetaInv
<1>5. CASE ~is_dir_bounded(r)
  <2>1. out' = out BY <1>5 DEF BundleRepo
  <2>2. MetaTypeOK' BY <1>1, <1>3, <2>1 DEF MetaInv, MetaTypeOK, IsTree
  <2>3. Accounted'
    <3>1. \A x \in Repos : job'.rows[x].reg /\ job'.args.catalog
                              => x \in job'.todo \cup job'.skipped \cup out'.dir
      BY <1>2, <1>3, <1>5, <2>1 DEF MetaInv, Accounted
    <3>2. \A x \in job'.keys : out'.keys[x] # 0 /\ x \notin job'.skipped /\ x \notin job'.todo
      BY <1>3, <1>5, <2>1 DEF MetaInv, Accounted, BundleRepo
    <3>3. \A x \in job'.skipped : x \notin job'.todo
      BY <1>3, <1>5 DEF MetaInv, Accounted
    <3> QED BY <3>1, <3>2, <3>3, <1>3 DEF Accounted, Begun, Bundled
  <2>4. Whole' /\ Recorded' /\ Passed'
    BY <1>2, <1>3, <2>1 DEF MetaInv, Whole, Recorded, Passed
  <2> QED BY <2>2, <2>3, <2>4 DEF MetaInv
<1> QED BY <1>4, <1>5

LEMMA BundleRepoFailsKeeps == ASSUME MetaInv, NEW r \in Repos, BundleRepoFails(r) PROVE MetaInv'
<1> DEFINE cut == - mirror[r].keys
<1>1. cut \in Int BY DEF MetaInv, MetaTypeOK
<1>2. IsTree(out) BY DEF MetaInv, MetaTypeOK
<1> HIDE DEF cut
<1>3. IsTree(CopyKeys(out, r, cut)) BY <1>1, <1>2, CopyKeysTree
<1> QED BY <1>3, FailKeeps DEF BundleRepoFails, Unshared, cut

LEMMA BundleReposDoneKeeps == ASSUME MetaInv, BundleReposDone PROVE MetaInv'
<1>1. out' = out /\ UNCHANGED <<cat, file, mirror>> BY DEF BundleReposDone, Unshared
<1>2. job \in JobSet /\ job.pc = "repos" /\ job.todo = {}
  BY DEF MetaInv, MetaTypeOK, BundleReposDone, At
<1>3. /\ job' \in JobSet /\ job'.pc = "recovery" /\ job'.args = job.args /\ job'.rows = job.rows
      /\ job'.todo = {} /\ job'.skipped = job.skipped /\ job'.keys = job.keys
      /\ job'.fresh = job.fresh
  BY <1>2 DEF BundleReposDone, Go, JobSet, PCs
<1>4. MetaTypeOK' BY <1>1, <1>3 DEF MetaInv, MetaTypeOK, IsTree
<1>5. Accounted' BY <1>1, <1>2, <1>3 DEF MetaInv, Accounted, Begun, Bundled
<1>6. Whole' /\ Recorded' /\ Passed' BY <1>1, <1>2, <1>3 DEF MetaInv, Whole, Recorded, Passed
<1> QED BY <1>4, <1>5, <1>6 DEF MetaInv

LEMMA CopyRecoveryKeeps == ASSUME MetaInv, CopyRecovery PROVE MetaInv'
<1>1. UNCHANGED <<cat, file, mirror>> BY DEF CopyRecovery, Unshared
<1>2. job \in JobSet /\ job.pc = "recovery" /\ IsTree(out)
  BY DEF MetaInv, MetaTypeOK, CopyRecovery, At
<1>3. SameKeys(out, out') BY <1>2 DEF CopyRecovery, IsTree, SameKeys
<1> DEFINE next == IF src.tree THEN "upstream" ELSE "script"
           sound == SourceTree = SourceRows
<1>4. next \in {"upstream", "script"} /\ sound \in BOOLEAN OBVIOUS
<1>5. job' = [job EXCEPT !.pc = next, !.sound = sound] BY DEF CopyRecovery
<1> HIDE DEF next, sound
<1>6. /\ job' \in JobSet /\ job'.pc = next /\ job'.args = job.args /\ job'.rows = job.rows
      /\ job'.todo = job.todo /\ job'.skipped = job.skipped /\ job'.keys = job.keys
      /\ job'.fresh = job.fresh
  BY <1>2, <1>4, <1>5 DEF JobSet, PCs
<1>7. MetaTypeOK' BY <1>1, <1>3, <1>6 DEF MetaInv, MetaTypeOK, SameKeys
<1>8. Accounted' BY <1>2, <1>3, <1>4, <1>6 DEF MetaInv, Accounted, Begun, Bundled, SameKeys
<1>9. Whole' /\ Recorded' /\ Passed'
  BY <1>2, <1>3, <1>4, <1>6 DEF MetaInv, Whole, Recorded, Passed, SameKeys
<1> QED BY <1>7, <1>8, <1>9 DEF MetaInv

LEMMA BundleUpstreamKeeps == ASSUME MetaInv, BundleUpstream PROVE MetaInv'
<1>1. UNCHANGED <<cat, file, mirror>> /\ IsTree(out)
  BY DEF BundleUpstream, Unshared, MetaInv, MetaTypeOK
<1>2. CASE Fail /\ UNCHANGED out
  <2>1. IsTree(out') BY <1>1, <1>2 DEF IsTree
  <2> QED BY <1>1, <1>2, <2>1, FailKeeps
<1>3. ASSUME NEW u, NEW f, out' = [out EXCEPT !.up = u, !.file = f], Go("tier1") PROVE MetaInv'
  <2>1. SameKeys(out, out') BY <1>1, <1>3 DEF IsTree, SameKeys
  <2> QED BY <1>1, <1>3, <2>1, GoKeeps DEF BundleUpstream, At, Go, PCs, Begun, Bundled
<1> QED BY <1>2, <1>3 DEF BundleUpstream

LEMMA BundleTier1Keeps == ASSUME MetaInv, BundleTier1 PROVE MetaInv'
<1>1. UNCHANGED <<cat, file, mirror>> /\ IsTree(out)
  BY DEF BundleTier1, Unshared, MetaInv, MetaTypeOK
<1>2. SameKeys(out, out') BY <1>1 DEF BundleTier1, IsTree, SameKeys
<1> QED BY <1>1, <1>2, GoKeeps DEF BundleTier1, At, Go, PCs, Begun, Bundled

LEMMA RegenerateManifestKeeps == ASSUME MetaInv, RegenerateManifest PROVE MetaInv'
<1>1. UNCHANGED <<cat, file, mirror>> /\ IsTree(out)
  BY DEF RegenerateManifest, Unshared, MetaInv, MetaTypeOK
<1>2. SameKeys(out, out') BY <1>1, OtherField DEF RegenerateManifest
<1> QED BY <1>1, <1>2, GoKeeps DEF RegenerateManifest, At, Go, PCs, Begun, Bundled

\* Two files are rewritten and two rows refreshed.
LEMMA WriteRestoreScriptKeeps == ASSUME MetaInv, WriteRestoreScript PROVE MetaInv'
<1>1. UNCHANGED <<cat, file, mirror>> /\ IsTree(out)
  BY DEF WriteRestoreScript, Unshared, MetaInv, MetaTypeOK
<1>2. CASE "driver" \in DOMAIN out.file
  <2> DEFINE legacy == [out EXCEPT !.root = out.file["driver"],
                                   !.file = Put(out.file, "legacy", "legacy")]
             row == Refresh(legacy, "legacy", TRUE)
             stub == [row EXCEPT !.file["driver"] = "stub"]
  <2>1. SameKeys(out, legacy) BY <1>1 DEF IsTree, SameKeys
  <2>2. SameKeys(legacy, row)
    <3>1. IsTree(legacy) BY <2>1 DEF SameKeys
    <3> HIDE DEF legacy
    <3> QED BY <3>1, RefreshKeeps
  <2>3. SameKeys(row, stub)
    <3> HIDE DEF row
    <3>1. SameKeys(row, [row EXCEPT !.file = [row.file EXCEPT !["driver"] = "stub"]])
      BY <2>2, OtherField DEF SameKeys
    <3> QED BY <3>1
  <2>4. SameKeys(stub, Refresh(stub, "driver", FALSE))
    <3>1. IsTree(stub) BY <2>3 DEF SameKeys
    <3> HIDE DEF stub
    <3> QED BY <3>1, RefreshKeeps
  <2>5. out' = Refresh(stub, "driver", FALSE) BY <1>2 DEF WriteRestoreScript
  <2> QED BY <2>1, <2>2, <2>3, <2>4, <2>5, <1>1, GoKeeps
          DEF WriteRestoreScript, At, Go, PCs, Begun, Bundled, SameKeys
<1>3. CASE "driver" \notin DOMAIN out.file
  <2>1. SameKeys(out, out') BY <1>1, <1>3, OtherField DEF WriteRestoreScript
  <2> QED BY <1>1, <2>1, GoKeeps DEF WriteRestoreScript, At, Go, PCs, Begun, Bundled
<1> QED BY <1>2, <1>3

LEMMA WriteRestoreAutoScriptKeeps == ASSUME MetaInv, WriteRestoreAutoScript PROVE MetaInv'
<1>1. UNCHANGED <<cat, file, mirror>> /\ IsTree(out)
  BY DEF WriteRestoreAutoScript, Unshared, MetaInv, MetaTypeOK
<1> DEFINE auto == [out EXCEPT !.file = Put(out.file, "auto", "auto")]
<1>2. SameKeys(out, auto) BY <1>1, OtherField
<1>3. SameKeys(auto, Refresh(auto, "auto", TRUE)) BY <1>2, RefreshKeeps DEF SameKeys
<1>4. out' = Refresh(auto, "auto", TRUE) BY DEF WriteRestoreAutoScript
<1>5. SameKeys(out, out') BY <1>2, <1>3, <1>4 DEF SameKeys
<1> QED BY <1>1, <1>5, GoKeeps DEF WriteRestoreAutoScript, At, Go, PCs, Begun, Bundled

\* volume_info.json records the flag and the keys of this build.
LEMMA WriteVolumeInfoKeeps == ASSUME MetaInv, WriteVolumeInfo PROVE MetaInv'
<1>1. UNCHANGED <<cat, file, mirror>> /\ IsTree(out) /\ job \in JobSet /\ job.pc = "info"
  BY DEF WriteVolumeInfo, Unshared, At, MetaInv, MetaTypeOK
<1>2. /\ job' \in JobSet /\ job'.pc = "gate" /\ job'.args = job.args /\ job'.rows = job.rows
      /\ job'.todo = job.todo /\ job'.skipped = job.skipped /\ job'.keys = job.keys
      /\ job'.fresh = job.fresh
  BY <1>1 DEF WriteVolumeInfo, Go, JobSet, PCs
<1>3. job.args.missing \in BOOLEAN /\ job.keys \in SUBSET Repos BY <1>1 DEF JobSet, ArgSet
<1> DEFINE info == [ack |-> job.args.missing, keys |-> job.keys]
<1>4. info \in [ack : BOOLEAN, keys : SUBSET Repos] BY <1>3
<1>5. info.ack = job.args.missing /\ info.keys = job.keys OBVIOUS
<1>6. out' = [out EXCEPT !.info = info, !.start = TRUE, !.incomplete = FALSE] BY DEF WriteVolumeInfo
<1> HIDE DEF info
<1>7. IsTree(out') /\ out'.dir = out.dir /\ out'.keys = out.keys /\ out'.info = info
  BY <1>1, <1>4, <1>6 DEF IsTree
<1>8. MetaTypeOK' BY <1>1, <1>2, <1>7 DEF MetaInv, MetaTypeOK
<1>9. Accounted' BY <1>1, <1>2, <1>7 DEF MetaInv, Accounted, Begun, Bundled
<1>10. Whole' BY <1>1, <1>2, <1>7 DEF MetaInv, Whole
<1>11. Recorded' /\ Passed' BY <1>2, <1>5, <1>7 DEF Recorded, Passed
<1> QED BY <1>8, <1>9, <1>10, <1>11 DEF MetaInv

\* The gates read the tree and the notes, and change neither.
LEMMA GateKeeps == ASSUME MetaInv, Gate PROVE MetaInv'
<1>1. UNCHANGED <<cat, file, mirror, out>> /\ job \in JobSet /\ job.pc = "gate"
  BY DEF Gate, Unshared, At, MetaInv, MetaTypeOK
<1> DEFINE ok == /\ AbsentPaths(out) = {} \/ job.args.incomplete
                 /\ KeysMissing(out) = {} \/ job.args.missing
                 /\ Gaps = {} \/ job.args.missing
           code == IF ok THEN 0 ELSE 1
<1>2. code \in {0, 1} OBVIOUS
<1>3. job' = [job EXCEPT !.pc = "returned", !.rc = code] BY DEF Gate
<1>4. code = 0 => /\ KeysMissing(out) = {} \/ job.args.missing
                  /\ Gaps = {} \/ job.args.missing
  OBVIOUS
<1> HIDE DEF code
<1>5. /\ job' \in JobSet /\ job'.pc = "returned" /\ job'.args = job.args /\ job'.rows = job.rows
      /\ job'.todo = job.todo /\ job'.skipped = job.skipped /\ job'.keys = job.keys
      /\ job'.fresh = job.fresh /\ job'.rc = code
  BY <1>1, <1>2, <1>3 DEF JobSet, PCs
<1>6. MetaTypeOK' BY <1>1, <1>5 DEF MetaInv, MetaTypeOK, IsTree
<1>7. Accounted' BY <1>1, <1>5 DEF MetaInv, Accounted, Begun, Bundled
<1>8. Whole' /\ Recorded' BY <1>1, <1>5 DEF MetaInv, Whole, Recorded
<1>9. Passed' BY <1>1, <1>4, <1>5 DEF Passed, KeysMissing, Gaps
<1> QED BY <1>6, <1>7, <1>8, <1>9 DEF MetaInv

LEMMA BuildReturnsKeeps == ASSUME MetaInv, BuildReturns PROVE MetaInv'
<1>1. IsTree(out') BY DEF BuildReturns, MetaInv, MetaTypeOK, IsTree
<1> QED BY <1>1, FailKeeps DEF BuildReturns, Fail, Unshared

\* Whatever a killed copy leaves is a tree.
LEMMA KillBuildKeeps == ASSUME MetaInv, KillBuild PROVE MetaInv'
<1>1. IsTree(out) BY DEF MetaInv, MetaTypeOK
<1>2. CASE At("tools")
  <2>1. out' = out \/ out' = [out EXCEPT !.lib = IF @ = 0 THEN -1 ELSE @]
    BY <1>2 DEF KillBuild, CutShort, At
  <2>2. \A v : IsTree([out EXCEPT !.lib = v]) BY <1>1, OtherField DEF SameKeys
  <2> QED BY <1>1, <2>1, <2>2, FailKeeps DEF KillBuild, Unshared
<1>3. CASE At("repos")
  <2>1. out' = out \/ \E r \in job.todo : out' = CopyKeys(out, r, - mirror[r].keys)
    BY <1>3 DEF KillBuild, CutShort, At
  <2>2. job.todo \subseteq Repos BY DEF MetaInv, MetaTypeOK, JobSet
  <2>3. ASSUME NEW r \in Repos PROVE IsTree(CopyKeys(out, r, - mirror[r].keys))
    <3> DEFINE cut == - mirror[r].keys
    <3>1. cut \in Int BY DEF MetaInv, MetaTypeOK
    <3> HIDE DEF cut
    <3>2. IsTree(CopyKeys(out, r, cut)) BY <1>1, <3>1, CopyKeysTree
    <3> QED BY <3>2 DEF cut
  <2> QED BY <1>1, <2>1, <2>2, <2>3, FailKeeps DEF KillBuild, Unshared
<1>4. CASE At("recovery") /\ src.tree
  <2>1. \E S \in SUBSET Authored :
           out' = [out EXCEPT !.file = Only(SourceTree, S), !.row = <<>>, !.up = {}, !.tier1 = {}]
    BY <1>4 DEF KillBuild, CutShort, At
  <2>2. \A f : IsTree([out EXCEPT !.file = f, !.row = <<>>, !.up = {}, !.tier1 = {}])
    BY <1>1 DEF IsTree
  <2>3. IsTree(out') BY <2>1, <2>2
  <2> QED BY <2>3, FailKeeps DEF KillBuild, Unshared
<1>5. CASE ~At("tools") /\ ~At("repos") /\ ~(At("recovery") /\ src.tree)
  <2>1. out' = out BY <1>5 DEF KillBuild, CutShort
  <2> QED BY <1>1, <2>1, FailKeeps DEF KillBuild, Unshared
<1> QED BY <1>2, <1>3, <1>4, <1>5

-----------------------------------------------------------------------------
(* The theorems.                                                           *)

LEMMA EnvironmentKeeps ==
    ASSUME MetaInv, NEW r \in Repos, NEW merge \in BOOLEAN,
           \/ RepoAdd(r, merge) \/ RepoRemove(r, merge)
           \/ SetRepoStatus(r, merge) \/ PacksOnDiscs(r, merge)
           \/ MirrorComesAndGoes(r) \/ KeysChange(r) \/ KeysGone(r) \/ SourceEvent
    PROVE  MetaInv'
<1>1. cat[r] \in RowSet /\ mirror[r] \in [up : BOOLEAN, keys : Nat]
  BY DEF MetaInv, MetaTypeOK
<1>2. /\ NoRow \in RowSet /\ [NoRow EXCEPT !.reg = TRUE] \in RowSet
      /\ [cat[r] EXCEPT !.retired = ~cat[r].retired] \in RowSet
      /\ [cat[r] EXCEPT !.packs = ~cat[r].packs] \in RowSet
  BY <1>1 DEF NoRow, RowSet
<1>3. /\ [mirror[r] EXCEPT !.up = ~mirror[r].up] \in [up : BOOLEAN, keys : Nat]
      /\ [mirror[r] EXCEPT !.keys = mirror[r].keys + 1] \in [up : BOOLEAN, keys : Nat]
      /\ [mirror[r] EXCEPT !.keys = 0] \in [up : BOOLEAN, keys : Nat]
  <2> DEFINE m == mirror[r]
  <2>1. m \in [up : BOOLEAN, keys : Nat] BY <1>1
  <2> HIDE DEF m
  <2>2. [m EXCEPT !.up = ~m.up] \in [up : BOOLEAN, keys : Nat] BY <2>1
  <2>3. m.keys + 1 \in Nat BY <2>1
  <2>4. \A k \in Nat : [m EXCEPT !.keys = k] \in [up : BOOLEAN, keys : Nat] BY <2>1
  <2> QED BY <2>2, <2>3, <2>4 DEF m
<1>4. CASE RepoAdd(r, merge) BY <1>2, <1>4, CommitKeeps DEF RepoAdd
<1>5. CASE RepoRemove(r, merge) BY <1>2, <1>5, CommitKeeps DEF RepoRemove
<1>6. CASE SetRepoStatus(r, merge) BY <1>2, <1>6, CommitKeeps DEF SetRepoStatus
<1>7. CASE PacksOnDiscs(r, merge) BY <1>2, <1>7, CommitKeeps DEF PacksOnDiscs
<1>8. CASE MirrorComesAndGoes(r) BY <1>3, <1>8, MirrorKeeps DEF MirrorComesAndGoes
<1>9. CASE KeysChange(r) BY <1>3, <1>9, MirrorKeeps DEF KeysChange
<1>10. CASE KeysGone(r) BY <1>3, <1>10, MirrorKeeps DEF KeysGone
<1>11. CASE SourceEvent
  <2>1. UNCHANGED <<cat, file, mirror, out, job>> BY <1>11 DEF SourceEvent
  <2> QED BY <2>1, MeanwhileKeeps DEF Meanwhile, MetaInv, MetaTypeOK
<1> QED BY <1>4, <1>5, <1>6, <1>7, <1>8, <1>9, <1>10, <1>11

LEMMA MetaInit == ASSUME Init PROVE MetaInv
<1>1. cat \in [Repos -> RowSet] /\ file \in [Repos -> RowSet]
  <2> DEFINE live == [reg |-> TRUE, retired |-> FALSE, packs |-> TRUE]
  <2>1. NoRow \in RowSet /\ live \in RowSet BY DEF NoRow, RowSet
  <2>2. cat \in [Repos -> {NoRow, live}] /\ file = cat BY DEF Init
  <2> HIDE DEF live
  <2> QED BY <2>1, <2>2
<1>2. mirror \in [Repos -> [up : BOOLEAN, keys : Nat]] BY DEF Init
<1>3. IsTree(out) BY DEF Init, NoTree, IsTree
<1>4. job \in JobSet BY DEF Init, IdleJob, JobSet, PCs, ArgSet, RowSet, NoRow, NoArgs
<1>5. job.pc = "idle" /\ job.keys = {} /\ job.skipped = {} BY DEF Init, IdleJob
<1>6. Accounted /\ Whole /\ Recorded /\ Passed
  BY <1>5 DEF Accounted, Whole, Recorded, Passed, Begun, Bundled
<1> QED BY <1>1, <1>2, <1>3, <1>4, <1>6 DEF MetaInv, MetaTypeOK

LEMMA MetaStep == ASSUME MetaInv, [Next]_vars PROVE MetaInv'
<1>1. CASE UNCHANGED vars
  BY <1>1 DEF vars, MetaInv, MetaTypeOK, IsTree, Accounted, Whole, Recorded, Passed
<1>2. ASSUME NEW r \in Repos, NEW merge \in BOOLEAN,
             \/ RepoAdd(r, merge) \/ RepoRemove(r, merge)
             \/ SetRepoStatus(r, merge) \/ PacksOnDiscs(r, merge)
             \/ MirrorComesAndGoes(r) \/ KeysChange(r) \/ KeysGone(r)
      PROVE  MetaInv'
  BY <1>2, EnvironmentKeeps
<1>3. CASE SourceEvent
  <2>1. UNCHANGED <<cat, file, mirror, out, job>> BY <1>3 DEF SourceEvent
  <2> QED BY <2>1, MeanwhileKeeps DEF Meanwhile, MetaInv, MetaTypeOK
<1>4. ASSUME NEW args \in Args, NEW fresh \in BOOLEAN, BuildBegin(args, fresh) PROVE MetaInv'
  BY <1>4, BuildBeginKeeps
<1>5. ASSUME NEW r \in Repos, BundleRepo(r) \/ BundleRepoFails(r) PROVE MetaInv'
  BY <1>5, BundleRepoKeeps, BundleRepoFailsKeeps
<1>6. CASE BundleTools \/ BundleSource \/ ReadCatalog \/ BundleReposDone
  BY <1>6, BundleToolsKeeps, BundleSourceKeeps, ReadCatalogKeeps, BundleReposDoneKeeps
<1>7. CASE CopyRecovery \/ BundleUpstream \/ BundleTier1 \/ RegenerateManifest
  BY <1>7, CopyRecoveryKeeps, BundleUpstreamKeeps, BundleTier1Keeps, RegenerateManifestKeeps
<1>8. CASE WriteRestoreScript \/ WriteRestoreAutoScript \/ WriteVolumeInfo
  BY <1>8, WriteRestoreScriptKeeps, WriteRestoreAutoScriptKeeps, WriteVolumeInfoKeeps
<1>9. CASE Gate \/ BuildReturns \/ KillBuild
  BY <1>9, GateKeeps, BuildReturnsKeeps, KillBuildKeeps
<1> QED BY <1>1, <1>2, <1>3, <1>4, <1>5, <1>6, <1>7, <1>8, <1>9 DEF Next

\* The invariant of `meta build': of every repository the catalog listed
\* the tree has the folder or the build has a note, a new directory holds
\* no torn keys, and the disc's record is that of the build that wrote it.
THEOREM MetaInvariance == Spec => []MetaInv
<1>1. Init => MetaInv BY MetaInit
<1>2. MetaInv /\ [Next]_vars => MetaInv' BY MetaStep
<1> QED BY <1>1, <1>2, PTL DEF Spec

\* `meta build' (cmd_meta_build) that returns 0 masters no disc that
\* silently lacks the keys of a live repository.
THEOREM KeysAreAboard == Spec => []KeysOrRecord
<1>1. MetaInv => KeysOrRecord
  <2> SUFFICES ASSUME MetaInv, At("returned"), job.rc = 0, job.args.catalog,
                      job.rows = job.seen, NEW r \in Repos, Live(job.seen[r])
               PROVE  \/ out.keys[r] # 0 /\ (job.fresh => out.keys[r] > 0)
                      \/ out.info.ack /\ r \notin out.info.keys
    BY DEF KeysOrRecord
  <2>1. job.pc = "returned" /\ out.keys[r] \in Int BY DEF At, MetaInv, MetaTypeOK, IsTree
  <2>2. r \in job.skipped \cup out.dir
    BY <2>1 DEF MetaInv, Accounted, Bundled, Live
  <2>3. out.info.ack = job.args.missing /\ out.info.keys = job.keys
    BY <2>1 DEF MetaInv, Recorded
  <2>4. CASE r \in job.skipped
    BY <2>1, <2>3, <2>4 DEF MetaInv, Accounted, Passed, Live
  <2>5. CASE r \in out.dir /\ out.keys[r] = 0
    BY <2>1, <2>3, <2>5 DEF MetaInv, Accounted, Passed
  <2>6. CASE out.keys[r] # 0
    BY <2>1, <2>6 DEF MetaInv, Whole
  <2> QED BY <2>2, <2>4, <2>5, <2>6
<1> QED BY <1>1, MetaInvariance, PTL

-----------------------------------------------------------------------------
(* The manifest of recovery/.  Between the copy of the tree and the new    *)
(* manifest the rows are those of the checkout and the binaries have none; *)
(* from then on every step that writes a file keeps its row true.          *)

\* The files are the authored ones and the binaries, the rows are those of
\* the authored ones.
Copied(t) ==
    /\ DOMAIN t.row = Authored /\ \A p \in Authored : t.row[p] = p
    /\ DOMAIN t.file = Authored \cup BinPaths(t)
    /\ \A p \in DOMAIN t.file : t.file[p] = IF p \in BinPaths(t) THEN "bin" ELSE p

\* Every file has its row, every row its file, of the same content.
Agree(t) ==
    /\ DOMAIN t.row # {} /\ DOMAIN t.file = DOMAIN t.row
    /\ \A p \in DOMAIN t.row : t.file[p] = t.row[p]

IsSrc(s) ==
    s \in [tree : BOOLEAN, git : {s.git}, other : {s.other}, up : {s.up},
           tier1 : {s.tier1}, rotten : {s.rotten}, have : {s.have}]

SrcOK == IsSrc(src)

Manifested == {"script", "auto", "info", "gate", "returned"}

\* What the rows are at each step of a build from a current checkout; without
\* a recovery/ beside the program no tree ever gets a driver, and the gate
\* refuses it.
RowsInv ==
    /\ SrcOK
    /\ job.pc \in Begun \cup {"idle", "repos"} => ~job.sound
    /\ ~src.tree => "driver" \notin DOMAIN out.file
    /\ job.sound /\ src.tree =>
          /\ job.pc \in {"upstream", "tier1", "manifest"} => Copied(out)
          /\ job.pc = "upstream" => out.up = {} /\ out.tier1 = {}
          /\ job.pc = "tier1" => out.tier1 = {}
          /\ job.pc \in Manifested => Agree(out)
    /\ job.pc = "returned" /\ job.rc = 0 /\ ~job.args.incomplete => AbsentPaths(out) = {}

\* A step that leaves the checkout, the files and the rows, and stays before
\* the copy or fails.
LEMMA RowsFrame ==
    ASSUME RowsInv, src' = src, ~job'.sound, job'.pc # "returned",
           ~src.tree => "driver" \notin DOMAIN out'.file
    PROVE  RowsInv'
<1>1. SrcOK' BY DEF RowsInv, SrcOK
<1> QED BY <1>1 DEF RowsInv

\* An exception or a kill.
LEMMA RowsFail ==
    ASSUME RowsInv, src' = src, Fail, ~src.tree => "driver" \notin DOMAIN out'.file
    PROVE  RowsInv'
<1>1. job'.pc = "idle" /\ ~job'.sound BY DEF Fail, IdleJob
<1> QED BY <1>1, RowsFrame

\* A step of the build that only moves on, among the steps before the copy.
LEMMA RowsGo ==
    ASSUME MetaInv, RowsInv, src' = src, NEW pc \in PCs \ {"returned"},
           job' = [job EXCEPT !.pc = pc], job.pc \in Begun \cup {"repos"},
           out'.file = out.file
    PROVE  RowsInv'
<1>1. job'.pc = pc /\ job'.sound = job.sound BY DEF MetaInv, MetaTypeOK, JobSet
<1>2. ~job.sound BY DEF RowsInv
<1>3. ~src.tree => "driver" \notin DOMAIN out.file BY DEF RowsInv
<1> QED BY <1>1, <1>2, <1>3, RowsFrame

\* Others touch neither the tree nor the build, and never the kind of checkout.
LEMMA RowsMeanwhile ==
    ASSUME RowsInv, UNCHANGED <<out, job>>, SrcOK', src'.tree = src.tree
    PROVE  RowsInv'
  BY DEF RowsInv, Copied, Agree, BinPaths, AbsentPaths

\* Edits of the checkout leave the tree that is being built.
LEMMA SourceEventRows == ASSUME RowsInv, SourceEvent PROVE RowsInv'
<1>1. SrcOK BY DEF RowsInv
<1>2. UNCHANGED <<out, job>> BY DEF SourceEvent
<1>3. SrcOK' /\ src'.tree = src.tree
  <2>1. CASE \E o : src' = [src EXCEPT !.other = o] BY <1>1, <2>1 DEF SrcOK, IsSrc
  <2>2. CASE \E v : src' = [src EXCEPT !.tier1 = v] BY <1>1, <2>2 DEF SrcOK, IsSrc
  <2>3. CASE \E v : src' = [src EXCEPT !.up = v] BY <1>1, <2>3 DEF SrcOK, IsSrc
  <2>4. CASE src' = [src EXCEPT !.rotten = TRUE] BY <1>1, <2>4 DEF SrcOK, IsSrc
  <2>5. CASE \E v : src' = [src EXCEPT !.have = v] BY <1>1, <2>5 DEF SrcOK, IsSrc
  <2> QED BY <2>1, <2>2, <2>3, <2>4, <2>5 DEF SourceEvent
<1> QED BY <1>2, <1>3, RowsMeanwhile

\* A new build knows nothing of the tree; a new directory is empty.
LEMMA BuildBeginRows ==
    ASSUME MetaInv, RowsInv, NEW args \in Args, NEW fresh \in BOOLEAN, BuildBegin(args, fresh)
    PROVE  RowsInv'
<1> DEFINE start == IF fresh THEN NoTree ELSE out
<1>1. IsTree(start)
  <2>1. IsTree(NoTree) BY DEF NoTree, IsTree
  <2> QED BY <2>1 DEF MetaInv, MetaTypeOK
<1>2. out' = [start EXCEPT !.incomplete = TRUE] BY DEF BuildBegin
<1>3. ~src.tree => "driver" \notin DOMAIN start.file
  <2>1. "driver" \notin DOMAIN NoTree.file BY DEF NoTree
  <2> QED BY <2>1 DEF RowsInv
<1> HIDE DEF start
<1>4. out'.file = start.file BY <1>1, <1>2 DEF IsTree
<1>5. job'.pc = "tools" /\ ~job'.sound /\ src' = src BY DEF BuildBegin, IdleJob
<1> QED BY <1>3, <1>4, <1>5, RowsFrame

\* The steps before the copy write nothing under recovery/.
LEMMA BeforeCopyRows ==
    ASSUME MetaInv, RowsInv,
           \/ BundleTools \/ BundleSource \/ ReadCatalog \/ BundleReposDone
           \/ \E r \in Repos : BundleRepo(r) \/ BundleRepoFails(r)
    PROVE  RowsInv'
<1>1. IsTree(out) /\ job \in JobSet /\ (~src.tree => "driver" \notin DOMAIN out.file)
  BY DEF MetaInv, MetaTypeOK, RowsInv
<1>2. CASE BundleTools
  <2>1. src' = src /\ job.pc = "tools" BY <1>2 DEF BundleTools, Unshared, At
  <2>2. out'.file = out.file BY <1>1, <1>2 DEF BundleTools, IsTree
  <2>3. Go("source") \/ Fail BY <1>2 DEF BundleTools
  <2> QED BY <1>1, <2>1, <2>2, <2>3, RowsGo, RowsFail DEF Go, PCs, Begun
<1>3. CASE BundleSource
  <2>1. src' = src /\ job.pc = "source" /\ out' = out BY <1>3 DEF BundleSource, Unshared, At
  <2>3. Go("catalog") \/ Fail BY <1>3 DEF BundleSource
  <2> QED BY <1>1, <2>1, <2>3, RowsGo, RowsFail DEF Go, PCs, Begun
<1>4. CASE ReadCatalog
  <2>1. src' = src /\ job.pc = "catalog" /\ out' = out BY <1>4 DEF ReadCatalog, Unshared, At
  <2>2. job'.sound = job.sound /\ job'.pc \in {"recovery", "repos"} BY <1>1, <1>4 DEF ReadCatalog, JobSet
  <2>3. ~job.sound BY <2>1 DEF RowsInv, Begun
  <2> QED BY <1>1, <2>1, <2>2, <2>3, RowsFrame
<1>5. CASE BundleReposDone
  <2>1. src' = src /\ job.pc = "repos" /\ out' = out /\ Go("recovery")
    BY <1>5 DEF BundleReposDone, Unshared, At
  <2> QED BY <2>1, RowsGo DEF Go, PCs, Begun
<1>6. ASSUME NEW r \in Repos, BundleRepo(r) PROVE RowsInv'
  <2>1. src' = src /\ job.pc = "repos" BY <1>6 DEF BundleRepo, Unshared, At
  <2>2. out'.file = out.file BY <1>1, <1>6 DEF BundleRepo, CopyKeys, IsTree
  <2>3. job'.sound = job.sound /\ job'.pc = job.pc BY <1>1, <1>6 DEF BundleRepo, JobSet
  <2>4. ~job.sound BY <2>1 DEF RowsInv
  <2> QED BY <1>1, <2>1, <2>2, <2>3, <2>4, RowsFrame
<1>7. ASSUME NEW r \in Repos, BundleRepoFails(r) PROVE RowsInv'
  <2>1. src' = src /\ Fail BY <1>7 DEF BundleRepoFails, Unshared
  <2>2. out'.file = out.file BY <1>1, <1>7 DEF BundleRepoFails, CopyKeys, IsTree
  <2> QED BY <1>1, <2>1, <2>2, RowsFail
<1> QED BY <1>2, <1>3, <1>4, <1>5, <1>6, <1>7

\* The copy of a current checkout: files and rows are the authored ones.
LEMMA CopyRecoveryRows == ASSUME MetaInv, RowsInv, CopyRecovery PROVE RowsInv'
<1>1. IsTree(out) /\ job \in JobSet /\ SrcOK /\ src' = src /\ job.pc = "recovery"
  BY DEF MetaInv, MetaTypeOK, RowsInv, CopyRecovery, Unshared, At
<1> DEFINE next == IF src.tree THEN "upstream" ELSE "script"
           sound == SourceTree = SourceRows
<1>2. next \in {"upstream", "script"} /\ sound \in BOOLEAN OBVIOUS
<1>3. job' = [job EXCEPT !.pc = next, !.sound = sound] BY DEF CopyRecovery
<1>4. job'.pc = next /\ job'.sound = sound
  <2> HIDE DEF next, sound
  <2> QED BY <1>1, <1>3 DEF JobSet
<1>5. CASE ~src.tree
  <2>1. out' = out /\ job'.pc = "script" BY <1>4, <1>5 DEF CopyRecovery
  <2> QED BY <1>1, <1>5, <2>1 DEF RowsInv, Begun, SrcOK, IsSrc
<1>6. CASE src.tree
  <2>1. out' = [out EXCEPT !.file = SourceTree, !.row = SourceRows, !.up = {}, !.tier1 = {}]
    BY <1>6 DEF CopyRecovery
  <2>2. /\ out'.file = SourceTree /\ out'.row = SourceRows /\ out'.up = {} /\ out'.tier1 = {}
    BY <1>1, <2>1 DEF IsTree
  <2>3. BinPaths(out') = {} BY <2>2 DEF BinPaths
  <2>4. DOMAIN SourceRows = Authored /\ \A p \in Authored : SourceRows[p] = p BY DEF SourceRows
  <2>5. sound => Copied(out') BY <2>2, <2>3, <2>4 DEF Copied
  <2>6. job'.pc = "upstream" BY <1>4, <1>6
  <2> HIDE DEF sound
  <2> QED BY <1>1, <1>4, <1>6, <2>2, <2>5, <2>6 DEF RowsInv, Begun, SrcOK, IsSrc, Manifested
<1> QED BY <1>5, <1>6

\* A step after the copy that moves on.
LEMMA RowsMove ==
    ASSUME MetaInv, RowsInv, src' = src, NEW pc \in PCs \ (Begun \cup {"idle", "repos", "returned"}),
           job' = [job EXCEPT !.pc = pc],
           ~src.tree => "driver" \notin DOMAIN out'.file,
           job.sound /\ src.tree =>
               /\ pc \in {"upstream", "tier1", "manifest"} => Copied(out')
               /\ pc = "upstream" => out'.up = {} /\ out'.tier1 = {}
               /\ pc = "tier1" => out'.tier1 = {}
               /\ pc \in Manifested => Agree(out')
    PROVE  RowsInv'
<1>1. job'.pc = pc /\ job'.sound = job.sound BY DEF MetaInv, MetaTypeOK, JobSet
<1>2. SrcOK' BY DEF RowsInv, SrcOK, IsSrc
<1> QED BY <1>1, <1>2 DEF RowsInv

\* Binaries join the files; the rows are still those of the checkout.
LEMMA WithBinsCopied ==
    ASSUME NEW t, Copied(t), NEW u, NEW b,
           u.row = t.row, u.file = WithBins(t.file, b), BinPaths(u) = BinPaths(t) \cup BinPaths(b)
    PROVE  Copied(u)
  BY DEF Copied, WithBins

\* The upstream binaries come without rows.
LEMMA BundleUpstreamRows == ASSUME MetaInv, RowsInv, BundleUpstream PROVE RowsInv'
<1>1. IsTree(out) /\ src' = src /\ job.pc = "upstream" /\ (~src.tree => "driver" \notin DOMAIN out.file)
  BY DEF MetaInv, MetaTypeOK, RowsInv, BundleUpstream, Unshared, At
<1>2. CASE Fail /\ UNCHANGED out BY <1>1, <1>2, RowsFail
<1>3. CASE /\ out' = [out EXCEPT !.up = src.up, !.file = WithBins(@, [up |-> src.up, tier1 |-> {}])]
           /\ Go("tier1")
  <2> DEFINE bins == [up |-> src.up, tier1 |-> {}]
             f == WithBins(out.file, bins)
             u == src.up
  <2>1. BinPaths(bins) \subseteq {"upstream"} /\ BinPaths(bins) = {"upstream" : x \in u}
    BY DEF BinPaths
  <2>2. out' = [out EXCEPT !.up = u, !.file = f] BY <1>3
  <2>3. "driver" \in DOMAIN f => "driver" \in DOMAIN out.file BY <2>1 DEF WithBins
  <2> HIDE DEF f, u
  <2>4. out'.file = f /\ out'.row = out.row /\ out'.up = u /\ out'.tier1 = out.tier1
    BY <1>1, <2>2 DEF IsTree
  <2>5. job.sound /\ src.tree => Copied(out') /\ out'.tier1 = {}
    <3> SUFFICES ASSUME job.sound, src.tree PROVE Copied(out') /\ out'.tier1 = {}
      OBVIOUS
    <3>1. Copied(out) /\ out.up = {} /\ out.tier1 = {} BY <1>1 DEF RowsInv
    <3>2. BinPaths(out') = BinPaths(out) \cup BinPaths(bins)
      <4>1. BinPaths(out) = {} BY <3>1 DEF BinPaths
      <4>2. BinPaths(out') = {"upstream" : x \in u} BY <2>4, <3>1 DEF BinPaths
      <4> QED BY <2>1, <4>1, <4>2
    <3> HIDE DEF bins
    <3> QED BY <2>4, <3>1, <3>2, WithBinsCopied DEF f
  <2> QED BY <1>1, <1>3, <2>3, <2>4, <2>5, RowsMove DEF Go, PCs, Begun, Manifested
<1> QED BY <1>2, <1>3 DEF BundleUpstream

\* So do the program's own binaries.
LEMMA BundleTier1Rows == ASSUME MetaInv, RowsInv, BundleTier1 PROVE RowsInv'
<1>1. IsTree(out) /\ src' = src /\ job.pc = "tier1" /\ (~src.tree => "driver" \notin DOMAIN out.file)
  BY DEF MetaInv, MetaTypeOK, RowsInv, BundleTier1, Unshared, At
<1> DEFINE bins == [up |-> {}, tier1 |-> src.tier1]
           f == WithBins(out.file, bins)
           v == src.tier1
<1>2. BinPaths(bins) \subseteq {"tier1"} /\ BinPaths(bins) = {"tier1" : x \in v}
  BY DEF BinPaths
<1>3. out' = [out EXCEPT !.tier1 = v, !.file = f] BY DEF BundleTier1
<1>4. "driver" \in DOMAIN f => "driver" \in DOMAIN out.file BY <1>2 DEF WithBins
<1> HIDE DEF f, v
<1>5. out'.file = f /\ out'.row = out.row /\ out'.up = out.up /\ out'.tier1 = v
  BY <1>1, <1>3 DEF IsTree
<1>6. job.sound /\ src.tree => Copied(out')
  <2> SUFFICES ASSUME job.sound, src.tree PROVE Copied(out')
    OBVIOUS
  <2>1. Copied(out) /\ out.tier1 = {} BY <1>1 DEF RowsInv
  <2>2. BinPaths(out') = BinPaths(out) \cup BinPaths(bins)
    <3>1. BinPaths(out) = {"upstream" : x \in out.up} BY <2>1 DEF BinPaths
    <3>2. BinPaths(out') = {"upstream" : x \in out.up} \cup {"tier1" : x \in v} BY <1>5 DEF BinPaths
    <3> QED BY <1>2, <3>1, <3>2
  <2> HIDE DEF bins
  <2> QED BY <1>5, <2>1, <2>2, WithBinsCopied DEF f
<1>7. job' = [job EXCEPT !.pc = "manifest"] BY DEF BundleTier1, Go
<1> QED BY <1>1, <1>4, <1>5, <1>6, <1>7, RowsMove DEF PCs, Begun, Manifested

\* The new manifest has a row for every file, and no other.
LEMMA RegenerateManifestRows == ASSUME MetaInv, RowsInv, RegenerateManifest PROVE RowsInv'
<1>1. IsTree(out) /\ src' = src /\ job.pc = "manifest" /\ (~src.tree => "driver" \notin DOMAIN out.file)
  BY DEF MetaInv, MetaTypeOK, RowsInv, RegenerateManifest, Unshared, At
<1> DEFINE w == WithBins(Only(out.row, Authored), out)
<1>2. out' = [out EXCEPT !.row = w] BY DEF RegenerateManifest
<1>3. job.sound /\ src.tree =>
          /\ DOMAIN w = Authored \cup BinPaths(out)
          /\ \A p \in DOMAIN w : w[p] = IF p \in BinPaths(out) THEN "bin" ELSE p
  <2> SUFFICES ASSUME job.sound, src.tree
               PROVE  /\ DOMAIN w = Authored \cup BinPaths(out)
                      /\ \A p \in DOMAIN w : w[p] = IF p \in BinPaths(out) THEN "bin" ELSE p
    OBVIOUS
  <2>1. Copied(out) BY <1>1 DEF RowsInv
  <2> DEFINE o == Only(out.row, Authored)
  <2>2. DOMAIN o = Authored /\ \A p \in Authored : o[p] = p BY <2>1 DEF Copied, Only
  <2> HIDE DEF o
  <2>3. w = WithBins(o, out) BY DEF o
  <2> QED BY <2>2, <2>3 DEF WithBins
<1> HIDE DEF w
<1>4. out'.file = out.file /\ out'.row = w BY <1>1, <1>2 DEF IsTree
<1>5. job.sound /\ src.tree => Agree(out')
  <2> SUFFICES ASSUME job.sound, src.tree PROVE Agree(out')
    OBVIOUS
  <2>1. Copied(out) BY <1>1 DEF RowsInv
  <2> QED BY <1>3, <1>4, <2>1 DEF Agree, Copied, Authored
<1>6. job' = [job EXCEPT !.pc = "script"] BY DEF RegenerateManifest, Go
<1> QED BY <1>1, <1>4, <1>5, <1>6, RowsMove DEF PCs, Begun, Manifested

\* Writing a file anew and refreshing its row keeps the two in agreement.
LEMMA RefreshAgrees ==
    ASSUME NEW t, IsTree(t), DOMAIN t.row # {}, NEW path, NEW add \in BOOLEAN,
           path \in DOMAIN t.file, DOMAIN t.file = DOMAIN t.row \cup {path},
           \A p \in DOMAIN t.row \ {path} : t.file[p] = t.row[p], add \/ path \in DOMAIN t.row
    PROVE  /\ Agree(Refresh(t, path, add)) /\ IsTree(Refresh(t, path, add))
           /\ Refresh(t, path, add).file = t.file
<1> DEFINE w == Put(t.row, path, t.file[path])
<1>1. Refresh(t, path, add) = [t EXCEPT !.row = w] BY DEF Refresh
<1>2. /\ DOMAIN w = DOMAIN t.row \cup {path}
      /\ \A p \in DOMAIN w : w[p] = IF p = path THEN t.file[path] ELSE t.row[p]
  BY DEF Put
<1> HIDE DEF w
<1>3. [t EXCEPT !.row = w].row = w /\ [t EXCEPT !.row = w].file = t.file BY DEF IsTree
<1>4. IsTree([t EXCEPT !.row = w]) BY OtherField DEF SameKeys
<1>5. Agree([t EXCEPT !.row = w]) BY <1>2, <1>3 DEF Agree
<1> QED BY <1>1, <1>3, <1>4, <1>5

\* Refreshing a row writes no file.
LEMMA RefreshFiles ==
    ASSUME NEW t, IsTree(t), NEW path, NEW add
    PROVE  Refresh(t, path, add).file = t.file
<1>1. \A w : [t EXCEPT !.row = w].file = t.file BY DEF IsTree
<1> QED BY <1>1 DEF Refresh

\* The stub takes the driver's place, the legacy script joins it, and both
\* have their rows.
LEMMA WriteRestoreScriptRows == ASSUME MetaInv, RowsInv, WriteRestoreScript PROVE RowsInv'
<1>1. IsTree(out) /\ src' = src /\ job.pc = "script" /\ (~src.tree => "driver" \notin DOMAIN out.file)
  BY DEF MetaInv, MetaTypeOK, RowsInv, WriteRestoreScript, Unshared, At
<1>2. job' = [job EXCEPT !.pc = "auto"] BY DEF WriteRestoreScript, Go
<1>3. CASE "driver" \notin DOMAIN out.file
  <2>1. out' = [out EXCEPT !.root = "legacy"] BY <1>3 DEF WriteRestoreScript
  <2>2. out'.file = out.file /\ out'.row = out.row BY <1>1, <2>1 DEF IsTree
  <2>3. job.sound /\ src.tree => Agree(out')
    BY <1>1, <2>2 DEF RowsInv, Agree, Manifested
  <2> QED BY <1>1, <1>2, <1>3, <2>2, <2>3, RowsMove DEF PCs, Begun, Manifested
<1>4. CASE "driver" \in DOMAIN out.file
  <2>1. src.tree BY <1>1, <1>4 DEF RowsInv
  <2>2. job.sound => Agree(out')
    <3> SUFFICES ASSUME job.sound PROVE Agree(out')
      OBVIOUS
    <3>1. Agree(out) BY <1>1, <2>1 DEF RowsInv, Manifested
    <3> DEFINE f == Put(out.file, "legacy", "legacy")
               root == out.file["driver"]
               legacy == [out EXCEPT !.root = root, !.file = f]
               lrow == Refresh(legacy, "legacy", TRUE)
               g == [lrow.file EXCEPT !["driver"] = "stub"]
               stub == [lrow EXCEPT !.file = g]
    <3>2. /\ DOMAIN f = DOMAIN out.file \cup {"legacy"}
          /\ \A p \in DOMAIN f : f[p] = IF p = "legacy" THEN "legacy" ELSE out.file[p]
      BY DEF Put
    <3>3. out' = Refresh(stub, "driver", FALSE) BY <1>4 DEF WriteRestoreScript
    <3> HIDE DEF f, root
    <3>4. IsTree(legacy) /\ legacy.file = f /\ legacy.row = out.row BY <1>1 DEF IsTree
    <3> HIDE DEF legacy
    <3>5. Agree(lrow) /\ IsTree(lrow) /\ lrow.file = f
      <4>1. /\ DOMAIN legacy.row # {} /\ "legacy" \in DOMAIN legacy.file
            /\ DOMAIN legacy.file = DOMAIN legacy.row \cup {"legacy"}
            /\ \A p \in DOMAIN legacy.row \ {"legacy"} : legacy.file[p] = legacy.row[p]
        BY <3>1, <3>2, <3>4 DEF Agree
      <4> QED BY <3>4, <4>1, RefreshAgrees
    <3> HIDE DEF lrow
    <3>6. DOMAIN g = DOMAIN f /\ \A p \in DOMAIN f : p # "driver" => g[p] = f[p]
      BY <3>5
    <3>7. "driver" \in DOMAIN f BY <1>4, <3>2
    <3> HIDE DEF g
    <3>8. IsTree(stub) /\ stub.file = g /\ stub.row = lrow.row
      <4>1. IsTree(stub) BY <3>5, OtherField DEF SameKeys
      <4> QED BY <3>5, <4>1 DEF IsTree
    <3> HIDE DEF stub
    <3>9. /\ DOMAIN stub.row # {} /\ "driver" \in DOMAIN stub.file /\ "driver" \in DOMAIN stub.row
          /\ DOMAIN stub.file = DOMAIN stub.row \cup {"driver"}
          /\ \A p \in DOMAIN stub.row \ {"driver"} : stub.file[p] = stub.row[p]
      BY <3>5, <3>6, <3>7, <3>8 DEF Agree
    <3> QED BY <3>3, <3>8, <3>9, RefreshAgrees
  <2> QED BY <1>1, <1>2, <2>1, <2>2, RowsMove DEF PCs, Begun, Manifested
<1> QED BY <1>3, <1>4

\* The automatic script is written with its row.
LEMMA WriteRestoreAutoScriptRows == ASSUME MetaInv, RowsInv, WriteRestoreAutoScript PROVE RowsInv'
<1>1. IsTree(out) /\ src' = src /\ job.pc = "auto" /\ (~src.tree => "driver" \notin DOMAIN out.file)
  BY DEF MetaInv, MetaTypeOK, RowsInv, WriteRestoreAutoScript, Unshared, At
<1>2. job' = [job EXCEPT !.pc = "info"] BY DEF WriteRestoreAutoScript, Go
<1> DEFINE f == Put(out.file, "auto", "auto")
           auto == [out EXCEPT !.file = f]
<1>3. /\ DOMAIN f = DOMAIN out.file \cup {"auto"}
      /\ \A p \in DOMAIN f : f[p] = IF p = "auto" THEN "auto" ELSE out.file[p]
  BY DEF Put
<1>4. out' = Refresh(auto, "auto", TRUE) BY DEF WriteRestoreAutoScript
<1> HIDE DEF f
<1>5. IsTree(auto) /\ auto.file = f /\ auto.row = out.row BY <1>1 DEF IsTree
<1> HIDE DEF auto
<1>6. out'.file = f BY <1>4, <1>5, RefreshFiles
<1>7. job.sound /\ src.tree => Agree(out')
  <2> SUFFICES ASSUME job.sound, src.tree PROVE Agree(out')
    OBVIOUS
  <2>1. Agree(out) BY <1>1 DEF RowsInv, Manifested
  <2>2. /\ DOMAIN auto.row # {} /\ "auto" \in DOMAIN auto.file
        /\ DOMAIN auto.file = DOMAIN auto.row \cup {"auto"}
        /\ \A p \in DOMAIN auto.row \ {"auto"} : auto.file[p] = auto.row[p]
    BY <1>3, <1>5, <2>1 DEF Agree
  <2> QED BY <1>4, <1>5, <2>2, RefreshAgrees
<1> QED BY <1>1, <1>2, <1>3, <1>6, <1>7, RowsMove DEF PCs, Begun, Manifested

\* The record is outside recovery/.
LEMMA WriteVolumeInfoRows == ASSUME MetaInv, RowsInv, WriteVolumeInfo PROVE RowsInv'
<1>1. IsTree(out) /\ src' = src /\ job.pc = "info" /\ (~src.tree => "driver" \notin DOMAIN out.file)
  BY DEF MetaInv, MetaTypeOK, RowsInv, WriteVolumeInfo, Unshared, At
<1>2. job' = [job EXCEPT !.pc = "gate"] BY DEF WriteVolumeInfo, Go
<1>3. out'.file = out.file /\ out'.row = out.row BY <1>1 DEF WriteVolumeInfo, IsTree
<1>4. job.sound /\ src.tree => Agree(out') BY <1>1, <1>3 DEF RowsInv, Agree, Manifested
<1> QED BY <1>1, <1>2, <1>3, <1>4, RowsMove DEF PCs, Begun, Manifested

\* Without --allow-incomplete the gate lets no required path be absent.
LEMMA GateRows == ASSUME MetaInv, RowsInv, Gate PROVE RowsInv'
<1>1. job \in JobSet /\ src' = src /\ out' = out /\ job.pc = "gate"
  BY DEF MetaInv, MetaTypeOK, Gate, Unshared, At
<1> DEFINE ok == /\ AbsentPaths(out) = {} \/ job.args.incomplete
                 /\ KeysMissing(out) = {} \/ job.args.missing
                 /\ Gaps = {} \/ job.args.missing
           code == IF ok THEN 0 ELSE 1
<1>2. job' = [job EXCEPT !.pc = "returned", !.rc = code] BY DEF Gate
<1>3. code = 0 => AbsentPaths(out) = {} \/ job.args.incomplete OBVIOUS
<1> HIDE DEF code
<1>4. job'.pc = "returned" /\ job'.rc = code /\ job'.args = job.args /\ job'.sound = job.sound
  BY <1>1, <1>2 DEF JobSet
<1>5. SrcOK' BY <1>1 DEF RowsInv, SrcOK, IsSrc
<1>6. AbsentPaths(out') = AbsentPaths(out) BY <1>1
<1>7. job.sound /\ src.tree => Agree(out') BY <1>1 DEF RowsInv, Manifested
<1> QED BY <1>1, <1>3, <1>4, <1>5, <1>6, <1>7 DEF RowsInv, Begun

\* A kill leaves no driver where there is none to copy.
LEMMA EndRows == ASSUME MetaInv, RowsInv, BuildReturns \/ KillBuild PROVE RowsInv'
<1>1. IsTree(out) /\ Fail /\ src' = src /\ (~src.tree => "driver" \notin DOMAIN out.file)
  BY DEF MetaInv, MetaTypeOK, RowsInv, BuildReturns, KillBuild, Fail, Unshared
<1>2. CASE BuildReturns BY <1>1, <1>2, RowsFail DEF BuildReturns
<1>3. CASE KillBuild
  <2>1. ~src.tree => out'.file = out.file
    <3> SUFFICES ASSUME ~src.tree PROVE out'.file = out.file
      OBVIOUS
    <3>1. CASE At("tools")
      <4>1. out' = out \/ \E v : out' = [out EXCEPT !.lib = v]
        BY <1>3, <3>1 DEF KillBuild, CutShort, At
      <4> QED BY <1>1, <4>1 DEF IsTree
    <3>2. CASE At("repos")
      <4>1. out' = out \/ \E r, v : out' = CopyKeys(out, r, v)
        BY <1>3, <3>2 DEF KillBuild, CutShort, At
      <4> QED BY <1>1, <4>1 DEF IsTree, CopyKeys
    <3>3. CASE ~At("tools") /\ ~At("repos")
      BY <1>3, <3>3 DEF KillBuild, CutShort
    <3> QED BY <3>1, <3>2, <3>3
  <2> QED BY <1>1, <2>1, RowsFail
<1> QED BY <1>2, <1>3

\* No build has run yet.
LEMMA RowsInit == ASSUME Init PROVE RowsInv
<1>1. SrcOK
  <2> DEFINE whole == [tree |-> TRUE, git |-> TRUE, other |-> "other", up |-> Targets,
                       tier1 |-> Targets, rotten |-> FALSE, have |-> Extras]
             less == Extras \ {"zstd"}
  <2>1. \/ src = whole \/ src = [whole EXCEPT !.tree = FALSE]
        \/ src = [whole EXCEPT !.git = FALSE, !.have = {"zstd"}]
        \/ src = [whole EXCEPT !.up = {}, !.tier1 = {}] \/ src = [whole EXCEPT !.have = less]
    BY DEF Init, Sources
  <2>2. IsSrc(whole) BY DEF IsSrc
  <2> HIDE DEF whole, less
  <2>3. CASE src = whole BY <2>2, <2>3 DEF SrcOK
  <2>4. CASE src = [whole EXCEPT !.tree = FALSE] BY <2>2, <2>4 DEF SrcOK, IsSrc
  <2>5. CASE src = [whole EXCEPT !.git = FALSE, !.have = {"zstd"}] BY <2>2, <2>5 DEF SrcOK, IsSrc
  <2>6. CASE src = [whole EXCEPT !.up = {}, !.tier1 = {}] BY <2>2, <2>6 DEF SrcOK, IsSrc
  <2>7. CASE src = [whole EXCEPT !.have = less] BY <2>2, <2>7 DEF SrcOK, IsSrc
  <2> QED BY <2>1, <2>3, <2>4, <2>5, <2>6, <2>7
<1>2. job.pc = "idle" /\ ~job.sound BY DEF Init, IdleJob
<1>3. "driver" \notin DOMAIN out.file BY DEF Init, NoTree
<1> QED BY <1>1, <1>2, <1>3 DEF RowsInv

\* Every step keeps the rows as its place in the build wants them.
LEMMA RowsStep == ASSUME MetaInv, RowsInv, [Next]_vars PROVE RowsInv'
<1>1. ASSUME UNCHANGED <<src, out, job>> PROVE RowsInv'
  BY <1>1, RowsMeanwhile DEF RowsInv, SrcOK, IsSrc
<1>2. ASSUME NEW r \in Repos, NEW merge \in BOOLEAN,
             \/ RepoAdd(r, merge) \/ RepoRemove(r, merge)
             \/ SetRepoStatus(r, merge) \/ PacksOnDiscs(r, merge)
             \/ MirrorComesAndGoes(r) \/ KeysChange(r) \/ KeysGone(r)
      PROVE  RowsInv'
  BY <1>1, <1>2 DEF RepoAdd, RepoRemove, SetRepoStatus, PacksOnDiscs, Commit,
                    MirrorComesAndGoes, KeysChange, KeysGone, MirrorEvent
<1>3. CASE UNCHANGED vars BY <1>1, <1>3 DEF vars
<1>4. CASE SourceEvent BY <1>4, SourceEventRows
<1>5. ASSUME NEW args \in Args, NEW fresh \in BOOLEAN, BuildBegin(args, fresh) PROVE RowsInv'
  BY <1>5, BuildBeginRows
<1>6. CASE \/ BundleTools \/ BundleSource \/ ReadCatalog \/ BundleReposDone
           \/ \E r \in Repos : BundleRepo(r) \/ BundleRepoFails(r)
  BY <1>6, BeforeCopyRows
<1>7. CASE CopyRecovery \/ BundleUpstream \/ BundleTier1 \/ RegenerateManifest
  BY <1>7, CopyRecoveryRows, BundleUpstreamRows, BundleTier1Rows, RegenerateManifestRows
<1>8. CASE WriteRestoreScript \/ WriteRestoreAutoScript \/ WriteVolumeInfo \/ Gate
  BY <1>8, WriteRestoreScriptRows, WriteRestoreAutoScriptRows, WriteVolumeInfoRows, GateRows
<1>9. CASE BuildReturns \/ KillBuild BY <1>9, EndRows
<1> QED BY <1>2, <1>3, <1>4, <1>5, <1>6, <1>7, <1>8, <1>9 DEF Next

\* A disc built without --allow-incomplete from a current checkout passes
\* `meta verify --strict': after _regenerate_recovery_manifest every step that
\* writes under recovery/ (_write_restore_script, _write_restore_auto_script)
\* keeps the manifest true, for any targets and whatever earlier builds left.
THEOREM BuiltDiscVerifies == Spec => []VerifyAgrees
<1>1. RowsInv => VerifyAgrees
  <2> SUFFICES ASSUME RowsInv, At("returned"), job.rc = 0, ~job.args.incomplete, job.sound
               PROVE  MetaVerify(out, TRUE)
    BY DEF VerifyAgrees
  <2>1. AbsentPaths(out) = {} BY DEF RowsInv, At
  <2>2. "driver" \in DOMAIN out.file BY <2>1 DEF AbsentPaths
  <2>3. src.tree BY <2>2 DEF RowsInv
  <2>4. Agree(out) BY <2>3 DEF RowsInv, At, Manifested
  <2> QED BY <2>1, <2>4 DEF MetaVerify, Agree, FilesOutsideManifest
<1>2. Init => RowsInv BY RowsInit
<1>3. MetaInv /\ RowsInv /\ [Next]_vars => RowsInv' BY RowsStep
<1> QED BY <1>1, <1>2, <1>3, MetaInvariance, PTL DEF Spec

=============================================================================

------------------------------- MODULE Reader -------------------------------
(***************************************************************************)
(* The Python reader of restore/restic_fallback.py (PurePythonRestorer)    *)
(* and its command line in restore/standalone_builder.py: keys, index,     *)
(* snapshots, the counting pre-pass, reading a blob from the pack files    *)
(* with prompts to swap discs, and restoring a tree.  It runs as the last  *)
(* phase of a script, on the assembled cache, or by hand on one drive.     *)
(*                                                                         *)
(* Every name of the tree is unique and stands for its path.  A file's     *)
(* content is a sequence of blobs.                                         *)
(***************************************************************************)
EXTENDS SingleDrive, Zstd

CONSTANTS
    TreeOf,     \* tree blob -> sequence of its nodes
    IndexOf,    \* session -> sequence of index files [name, supersedes, packs]
    SnapshotsOf,\* session -> sequence of snapshots [id, time, tree]
    MaxAsks     \* _DISC_SWAP_MAX_RETRIES: 50 in the code

VARIABLES
    rd,         \* the reader
    target      \* the target directory: name -> what is there

readerVars == <<rd, target, dec>>

\* Nodes: [name, type, content, subtree, link, inode]; link is where a
\* symbolic link leads: "in" its directory, "up" above it, "abs"olute; inode is
\* device and inode of a file with several links, and 0 without.
Nodes == UNION {ToSet(TreeOf[t]) : t \in DOMAIN TreeOf}

NodeNames == {n.name : n \in Nodes}

\* The manifest is a file of the target too: the names it lists.
NoTarget == [file |-> [n \in NodeNames |-> <<>>], link |-> [n \in NodeNames |-> FALSE],
             partial |-> {}, manifest |-> {}]

-----------------------------------------------------------------------------
(* Loading.                                                                *)

\* _try_keys: the key files in their order; damaged ones and those of another
\* password are passed over.  A password opens its own ("good") key file.
LoadKey(w, right) == right /\ \E k \in DOMAIN w.keys : w.keys[k] = "good"

\* Files of the metadata are a function of their place in the order of names;
\* those of a copy cut short are one of fewer places.
Files(all, cut) == IF cut THEN {[i \in kept |-> all[i]] : kept \in SUBSET DOMAIN all} ELSE {all}

\* _load_index: every file that none supersedes, a later one over an earlier.
LoadIndex(files) ==
    LET live == {i \in DOMAIN files : \A j \in DOMAIN files : files[i].name \notin files[j].supersedes}
    IN  [b \in UNION {DOMAIN files[i].packs : i \in live} |->
            files[Max({i \in live : b \in DOMAIN files[i].packs})].packs[b]]

NoTree == "none"

\* _latest_snapshot, after the stable sort by time.
LatestSnapshot(snaps) ==
    IF DOMAIN snaps = {} THEN NoTree
    ELSE snaps[CHOOSE i \in DOMAIN snaps : \A j \in DOMAIN snaps :
                  snaps[j].time < snaps[i].time \/ (snaps[j].time = snaps[i].time /\ j <= i)].tree

\* _find_snapshot: the id itself, or the only one it is a prefix of.
FindSnapshot(snaps, id) ==
    LET exact  == {i \in DOMAIN snaps : snaps[i].id = id}
        prefix == {i \in DOMAIN snaps : IsPrefix(id, snaps[i].id)}
    IN  IF exact # {} THEN snaps[Min(exact)].tree
        ELSE IF Cardinality(prefix) = 1 THEN snaps[CHOOSE i \in prefix : TRUE].tree
        ELSE NoTree

-----------------------------------------------------------------------------
(* Reading a blob.                                                         *)

\* _scan_pack_search_paths: the cache, and by hand the mounted disc.
FoundAs(p) ==
    IF rd.hand
    THEN IF rd.disc # 0 /\ p \in world.on[rd.disc] THEN world.state[rd.disc, p] ELSE "none"
    ELSE cache.pack[p]

\* _read_blob once the MAC is right: compressed when the index has a length,
\* or, where it has none, when the bytes look so and do not hash right.  A blob
\* is [stored, length, plain, valid]: the decrypted bytes in its pack,
\* uncompressed_length in the index (-1: none), the content, and whether the
\* bytes are a frame as zstd writes it.
IsCompressed(b) == b.length # -1 \/ (IsPrefix(MAGIC, b.stored) /\ b.stored # b.plain)

\* The cap on the output.
Cap(b) == IF b.length # -1 THEN b.length ELSE Len(b.stored) * 20

\* "ok", "fail" (KeyError, IntegrityError or OSError), "ask" or "decode".
\* Damage to a file of a pack hits the blobs in world.hit; world.blob has the
\* bytes of the blobs of which the model says how they are stored.
ReadBlob(b) ==
    IF b \notin DOMAIN rd.index THEN "fail"
    ELSE LET p == rd.index[b] f == FoundAs(p)
         IN  CASE f # "none" /\ p # world.pack[b] -> "fail"
               [] f = "none" -> IF rd.interactive THEN "ask" ELSE "fail"
               [] f = "eio" -> "fail"
               [] f = "bad" /\ b \in world.hit -> "fail"
               [] b \in DOMAIN world.blob -> IF IsCompressed(world.blob[b]) THEN "decode" ELSE "ok"
               [] OTHER -> "ok"

\* _lookup_volume_labels in the catalog of the mounted disc, whatever the
\* status of a volume: what the prompt shows.
VolumeLabels(p) == IF rd.disc = 0 THEN {} ELSE {j \in 1..rd.disc : p \in world.on[j]}

-----------------------------------------------------------------------------
(* A run.  pc: "count" and "walk" read trees, "file" the contents of a     *)
(* node; ask is the blob a prompt is about.                                *)

NoReader == [pc |-> "idle", todo |-> <<>>, stack |-> <<>>, at |-> 0, failed |-> {}, links |-> {},
             index |-> [b \in {} |-> 0], hand |-> FALSE, interactive |-> FALSE, strict |-> FALSE,
             disc |-> 0, asks |-> 0, quit |-> FALSE, root |-> NoTree, rc |-> 0]

ReaderInit == rd = NoReader /\ target = NoTarget /\ dec = NoDecoder

\* The tree of a snapshot; <<>> asks for the latest.
SnapshotTree(snaps, snapshot) ==
    IF snapshot = <<>> THEN LatestSnapshot(snaps) ELSE FindSnapshot(snaps, snapshot)

\* restore() up to the pre-pass.  No key, a file of the metadata that cannot be
\* read (both: ~opened), no snapshot or an ambiguous one: "restore could not
\* start", exit 1.  By hand it runs on a disc; disc is 0 for the cache.
Open(index, snaps, disc, interactive, strict, opened, snapshot) ==
    LET tree == SnapshotTree(snaps, snapshot)
    IN  IF tree = NoTree \/ ~opened
        THEN [NoReader EXCEPT !.pc = "done", !.rc = 1]
        ELSE [NoReader EXCEPT !.pc = "count", !.todo = <<tree>>, !.stack = <<[tree |-> tree, at |-> 1]>>,
                              !.index = LoadIndex(index), !.root = tree, !.hand = disc # 0, !.disc = disc,
                              !.interactive = interactive, !.strict = strict]

Subtrees(t) == {n \in ToSet(TreeOf[t]) : n.type = "dir"}

\* _count_files reads every tree, the last one pushed first, and gives up at
\* the first it cannot read.
CountTree ==
    /\ rd.pc = "count" /\ rd.todo # <<>>
    /\ LET t == Last(rd.todo)
           subs == SelectSeq(TreeOf[t], LAMBDA n : n.type = "dir")
           read == ReadBlob(t)
       IN  CASE read = "ask"  -> rd' = [rd EXCEPT !.pc = "ask count"]
             [] read = "fail" -> rd' = [rd EXCEPT !.todo = <<>>, !.asks = 0]
             [] OTHER         ->
                   rd' = [rd EXCEPT !.todo = Front(@) \o [i \in DOMAIN subs |-> subs[i].subtree],
                                    !.asks = 0]
    /\ UNCHANGED target

CountDone ==
    /\ rd.pc = "count" /\ rd.todo = <<>>
    /\ rd' = [rd EXCEPT !.pc = "tree"]
    /\ UNCHANGED target

\* Mutant of Fails: a failure is passed over.
FailsSilently(r, name) == IF r.strict THEN [r EXCEPT !.pc = "done", !.rc = 1] ELSE r

\* A failure: strict raises, and the command line answers 1; otherwise it is
\* noted and the traversal goes on with the next node.
Fails(r, name) ==
    IF r.strict THEN [r EXCEPT !.pc = "done", !.rc = 1]
    ELSE [r EXCEPT !.failed = @ \cup {name}]

Top == Last(rd.stack)

\* A stack whose topmost directory is one node further.
Onward(stack) == Front(stack) \o <<[Last(stack) EXCEPT !.at = @ + 1]>>

\* The next node of the directory, or the next of its parent's.
Advance(r) ==
    IF r.pc = "done" THEN r
    ELSE [r EXCEPT !.pc = "walk", !.asks = 0, !.at = 0, !.stack = Onward(@)]

\* Leaves a directory; its node was the parent's current one.
Leave(r) ==
    IF r.pc = "done" THEN r
    ELSE IF Len(r.stack) = 1 THEN [r EXCEPT !.pc = "finish", !.stack = <<>>]
    ELSE Advance([r EXCEPT !.stack = Front(@)])

\* The directory of a tree: the node that has it as subtree.
DirName(t) == IF \E n \in Nodes : n.type = "dir" /\ n.subtree = t
              THEN (CHOOSE n \in Nodes : n.type = "dir" /\ n.subtree = t).name ELSE ""

\* _restore_tree reads the tree; one failure stands for all below it.
ReadTree ==
    /\ rd.pc = "tree"
    /\ LET read == ReadBlob(Top.tree)
       IN  CASE read = "ask"  -> rd' = [rd EXCEPT !.pc = "ask tree"]
             [] read = "fail" -> rd' = Leave(Fails(rd, DirName(Top.tree)))
             [] read = "ok"   -> rd' = [rd EXCEPT !.pc = "walk", !.asks = 0]
    /\ UNCHANGED target

Walking == rd.pc = "walk" /\ Top.at <= Len(TreeOf[Top.tree])

Node == TreeOf[Top.tree][Top.at]

TreeDone ==
    /\ rd.pc = "walk" /\ Top.at > Len(TreeOf[Top.tree])
    /\ rd' = Leave(rd)
    /\ UNCHANGED target

EnterDir ==
    /\ Walking /\ Node.type = "dir"
    /\ rd' = [rd EXCEPT !.pc = "tree", !.stack = Append(@, [tree |-> Node.subtree, at |-> 1])]
    /\ UNCHANGED target

\* An inode that was restored is linked; where the name is taken, by an
\* earlier run, it is restored as a file.
Linked == Node.inode # 0 /\ \E l \in rd.links : l.inode = Node.inode

LinkFile ==
    /\ Walking /\ Node.type = "file" /\ Linked /\ target.file[Node.name] = <<>>
    /\ LET source == CHOOSE l \in rd.links : l.inode = Node.inode
       IN  target' = [target EXCEPT !.file[Node.name] = target.file[source.name]]
    /\ rd' = Advance(rd)

\* _restore_file opens the partial file next to the final name.
OpenFile ==
    /\ Walking /\ Node.type = "file"
    /\ Linked => target.file[Node.name] # <<>>
    /\ rd' = [rd EXCEPT !.pc = "file", !.at = 1]
    /\ target' = [target EXCEPT !.partial = @ \cup {Node.name}]

\* Mutant of ReadContent: the content goes to the final name from the first blob on.
ReadContentInPlace ==
    /\ rd.pc = "file" /\ rd.at <= Len(Node.content)
    /\ LET b == Node.content[rd.at]
           read == ReadBlob(b)
       IN  /\ rd' = CASE read = "ask"    -> [rd EXCEPT !.pc = "ask file"]
                      [] read = "fail"   -> Advance(Fails(rd, Node.name))
                      [] OTHER           -> [rd EXCEPT !.at = @ + 1, !.asks = 0]
           /\ target' = IF read \in {"ask", "fail"} THEN target
                        ELSE [target EXCEPT !.file[Node.name] = (IF rd.at = 1 THEN <<>> ELSE @) \o <<b>>]
    /\ UNCHANGED dec

ReadContent ==
    /\ rd.pc = "file" /\ rd.at <= Len(Node.content)
    /\ LET b == Node.content[rd.at]
           read == ReadBlob(b)
       IN  /\ rd' = CASE read = "ask"    -> [rd EXCEPT !.pc = "ask file"]
                      [] read = "fail"   -> Advance(Fails(rd, Node.name))
                      [] read = "ok"     -> [rd EXCEPT !.at = @ + 1, !.asks = 0]
                      [] read = "decode" -> [rd EXCEPT !.pc = "decode", !.asks = 0]
           /\ target' = IF read = "fail" THEN [target EXCEPT !.partial = @ \ {Node.name}] ELSE target
           /\ dec' = IF read = "decode" THEN StartDecoder(world.blob[b].stored) ELSE dec

\* decompress ended: its output is capped, and hashed.
ReadDecoded ==
    /\ rd.pc = "decode" /\ dec.pc \in {"done", "failed"}
    /\ LET b == world.blob[Node.content[rd.at]]
       IN  IF dec.pc = "done" /\ Len(dec.out) <= Cap(b) /\ dec.out = b.plain
           THEN rd' = [rd EXCEPT !.pc = "file", !.at = @ + 1] /\ UNCHANGED target
           ELSE /\ rd' = Advance(Fails(rd, Node.name))
                /\ target' = [target EXCEPT !.partial = @ \ {Node.name}]
    /\ dec' = NoDecoder

\* os.replace; the file is the one later links of its inode lead to.
CloseFile ==
    /\ rd.pc = "file" /\ rd.at > Len(Node.content)
    /\ target' = [target EXCEPT !.file[Node.name] = Node.content, !.partial = @ \ {Node.name}]
    /\ rd' = Advance([rd EXCEPT !.links = {l \in @ : l.inode # Node.inode}
                                           \cup {[inode |-> Node.inode, name |-> Node.name]}])

\* Links that lead out of their directory are skipped and noted; absolute
\* ones are skipped.
MakeLink ==
    /\ Walking /\ Node.type = "symlink"
    /\ rd' = Advance(IF Node.link = "up" THEN [rd EXCEPT !.failed = @ \cup {Node.name}] ELSE rd)
    /\ target' = IF Node.link = "in" THEN [target EXCEPT !.link[Node.name] = TRUE] ELSE target

\* Other types are skipped, and so are names with a directory part.
SkipNode ==
    /\ Walking /\ Node.type = "other"
    /\ rd' = Advance(rd)
    /\ UNCHANGED target

\* A prompt: the heir puts a disc in the drive; the pack may be on it.
Asking == rd.pc \in {"ask count", "ask tree", "ask file"}

AskedBlob == CASE rd.pc = "ask count" -> Last(rd.todo)
               [] rd.pc = "ask tree" -> Top.tree
               [] rd.pc = "ask file" -> Node.content[rd.at]

AskedPack == rd.index[AskedBlob]

Asked(r) == CASE r.pc = "ask count" -> "count" [] r.pc = "ask tree" -> "tree" [] r.pc = "ask file" -> "file"

SwapDisc(i) ==
    /\ Asking /\ rd.asks < MaxAsks
    /\ i \in IF VolumeLabels(AskedPack) = {} THEN world.at ELSE world.at \cap VolumeLabels(AskedPack)
    /\ rd' = LET r == [rd EXCEPT !.disc = IF rd.hand THEN i ELSE 0, !.asks = @ + 1]
             IN  IF rd.hand /\ AskedPack \in world.on[i]
                 THEN [r EXCEPT !.pc = Asked(rd)] ELSE r
    /\ UNCHANGED target

\* "q", the end of the input, or too many tries: FileNotFoundError.
GiveUp ==
    /\ Asking
    /\ LET r == [rd EXCEPT !.quit = TRUE, !.asks = 0]
       IN  rd' = CASE r.pc = "ask count" -> [r EXCEPT !.pc = "count", !.todo = <<>>]
                   [] r.pc = "ask tree"  -> Leave(Fails(r, DirName(Top.tree)))
                   [] r.pc = "ask file"  -> Advance(Fails(r, Node.name))
    /\ target' = IF rd.pc = "ask file" THEN [target EXCEPT !.partial = @ \ {Node.name}] ELSE target

\* The manifest is written when something failed; an old one stays otherwise.
Finish ==
    /\ rd.pc = "finish"
    /\ rd' = [rd EXCEPT !.pc = "done", !.rc = IF rd.failed = {} THEN 0 ELSE 2]
    /\ target' = IF rd.failed = {} THEN target ELSE [target EXCEPT !.manifest = rd.failed]

ReaderStep ==
    \/ /\ \/ CountTree \/ CountDone \/ ReadTree \/ TreeDone \/ EnterDir \/ LinkFile \/ OpenFile
          \/ CloseFile \/ MakeLink \/ SkipNode \/ GiveUp \/ Finish
          \/ \E i \in Labels : SwapDisc(i)
       /\ UNCHANGED dec
    \/ ReadContent \/ ReadDecoded
    \/ DecodeStep /\ UNCHANGED <<rd, target>>

=============================================================================

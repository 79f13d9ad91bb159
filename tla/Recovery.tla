------------------------------ MODULE Recovery ------------------------------
(***************************************************************************)
(* What an heir does with the discs: combines share cards to a password    *)
(* file (meta/keyshare_combine.py, keyshare/cards.py), then runs a restore *)
(* script of the meta disc, or the Python reader by hand.  Composes        *)
(* SingleDrive, Reader and Slip39.                                         *)
(***************************************************************************)
EXTENDS Reader, Slip39

CONSTANTS
    Cases,              \* situations: [world, hand, key], see RecoveryInit
    Password,           \* the owner's password
    RunsIn(_),          \* the runs considered in a world, see RunScript, RunReader
    MIN_SHARE_TOKENS    \* 13 in the code

VARIABLES
    heir        \* what the heir has in hand, and the password file

vars == <<driveVars, readerVars, heir>>

-----------------------------------------------------------------------------
(* keyshare/cards.py.  A card is a sequence of lines, a line a sequence of *)
(* tokens: a word (its index), a word cut to a unique prefix (1024 + its   *)
(* index), or anything else (-1).                                          *)

word_index(token) == IF token >= 1024 THEN token - 1024 ELSE token

is_mnemonic_line(line) == line # <<>> /\ \A i \in DOMAIN line : line[i] \in 0..1023

is_mistyped_share_line(line) ==
    /\ Len(line) >= MIN_SHARE_TOKENS
    /\ 4 * Cardinality({i \in DOMAIN line : word_index(line[i]) = -1}) <= Len(line)

\* One card, one share: its lines of words, joined; too few words are an error.
extract_mnemonic(card) ==
    LET words == FlattenSeq(SelectSeq(card, is_mnemonic_line))
    IN  IF Len(words) < MIN_MNEMONIC_LENGTH_WORDS THEN Failed ELSE words

\* From stdin: one share to a line, mistyped ones among them.
MnemonicsOfLines(lines) ==
    {[k \in DOMAIN lines[i] |-> word_index(lines[i][k])] :
        i \in {j \in DOMAIN lines : is_mnemonic_line(lines[j]) \/ is_mistyped_share_line(lines[j])}}

\* check_share: words, their number, and the checksum.
check_share(words) ==
    /\ -1 \notin ToSet(words)
    /\ Len(words) >= MIN_MNEMONIC_LENGTH_WORDS
    /\ VerifyChecksum(words, IsExtendable(words))

-----------------------------------------------------------------------------
(* The heir.  pc: "cards" in hand, their "shares" read, "checked", "key"   *)
(* for a password file; key is what is in the file.  A hand of cards also  *)
(* says which share each card was written from (from); only properties     *)
(* look at this.                                                           *)

RecoveryInit ==
    /\ \E c \in Cases :
          /\ world = c.world
          /\ heir = [hand |-> c.hand, key |-> c.key, rc |-> 0,
                     pc |-> IF c.hand.cards = <<>> THEN "key" ELSE "cards",
                     shares |-> {}, snapshot |-> <<>>]
    /\ DriveInit /\ ReaderInit

\* keyshare_combine.main: _read_mnemonics of the files or of stdin.
ReadShares ==
    /\ heir.pc = "cards"
    /\ \E shares \in {IF heir.hand.stdin THEN MnemonicsOfLines(FlattenSeq(heir.hand.cards))
                      ELSE {extract_mnemonic(heir.hand.cards[i]) : i \in DOMAIN heir.hand.cards}} :
          heir' = IF ~heir.hand.readable \/ shares = {} THEN [heir EXCEPT !.pc = "stuck", !.rc = 2]
                  ELSE [heir EXCEPT !.pc = "shares", !.shares = shares]
    /\ UNCHANGED <<driveVars, readerVars>>

\* Every share is checked by itself, to name the bad one.
CheckShares ==
    /\ heir.pc = "shares"
    /\ heir' = IF \E m \in heir.shares : m = Failed \/ ~check_share(m)
               THEN [heir EXCEPT !.pc = "stuck", !.rc = 3]
               ELSE [heir EXCEPT !.pc = "checked"]
    /\ UNCHANGED <<driveVars, readerVars>>

CombineShares ==
    /\ heir.pc = "checked"
    /\ \E password \in {Combine(heir.shares)} :
          heir' = IF password = Failed THEN [heir EXCEPT !.pc = "stuck", !.rc = 1]
                  ELSE [heir EXCEPT !.pc = "key", !.key = password, !.shares = {}]
    /\ UNCHANGED <<driveVars, readerVars>>

NoCards == [cards |-> <<>>, stdin |-> FALSE, readable |-> TRUE, from |-> <<>>]

Right == heir.key = Password

\* The discs are such as a history of staging leaves, with a mirror's metadata
\* for every session; what is said of the bytes of a blob is said of contents.
ASSUME CasesAssumption ==
    \A c \in Cases :
        /\ DiscsOK(c.world) /\ Staged(c.world)
        /\ \A i \in Labels : c.world.session[i] \in DOMAIN SnapshotsOf
        /\ DOMAIN c.world.blob \cap DOMAIN TreeOf = {}

ScriptRun(run) == run.tool \in {"single", "auto", "directory"} /\ run.keep \in BOOLEAN /\ run.rustic \in BOOLEAN

ReaderRun(run) == run.tool = "reader" /\ run.interactive \in BOOLEAN /\ run.strict \in BOOLEAN

ASSUME RunsAssumption ==
    \A c \in Cases : \A run \in RunsIn(c.world) : ScriptRun(run) \/ ReaderRun(run)

\* A script is run with its options: [tool, keep, rustic, snapshot]; snapshot
\* is <<>> when it is not given.
RunScript(run) ==
    /\ heir.pc = "key" /\ run.tool # "reader"
    /\ Start(run.tool, run.keep, run.rustic)
    /\ heir' = [heir EXCEPT !.snapshot = run.snapshot, !.hand = NoCards]
    /\ UNCHANGED readerVars

\* The Python reader is run on the metadata of disc i, which is in the drive:
\* [tool, interactive, strict, snapshot].
RunReader(i, run) ==
    /\ heir.pc = "key" /\ run.tool = "reader" /\ i \in world.at
    /\ sh.pc = "idle" /\ sh.runs < MaxRuns
    /\ sh.runs > 0 => sh.tool = "reader" /\ sh.rc # 0
    /\ sh' = [NoScript EXCEPT !.tool = "reader", !.pc = "reading", !.runs = sh.runs + 1,
                              !.kills = sh.kills, !.calm = sh.calm, !.fresh = i]
    /\ rd' = Open(IndexOf[world.session[i]], SnapshotsOf[world.session[i]], i, run.interactive,
                  run.strict, LoadKey(world, Right), run.snapshot)
    /\ heir' = [heir EXCEPT !.snapshot = run.snapshot, !.hand = NoCards]
    /\ UNCHANGED <<world, cache, target, dec>>

\* The trees of a snapshot, those of its directories included, and what they
\* hold.
ClosedTrees == {S \in SUBSET (DOMAIN TreeOf) : \A t \in S : \A n \in Subtrees(t) : n.subtree \in S}

TreesUnder(t) == {u \in DOMAIN TreeOf : \A S \in ClosedTrees : t \in S => u \in S}

NodesUnder(t) == UNION {ToSet(TreeOf[u]) : u \in TreesUnder(t)}

\* Trees as a mirror has them: directories lead to trees, a name (a path) is
\* of one node of a snapshot, and hard links of one inode have one content.
ASSUME TreesAssumption ==
    /\ NoTree \notin DOMAIN TreeOf
    /\ \A t \in DOMAIN TreeOf :
          /\ TreeOf[t] \in Seq(Nodes)
          /\ \A n \in Subtrees(t) : n.subtree \in DOMAIN TreeOf
          /\ \A m, n \in NodesUnder(t) : m.name = n.name => m = n
          /\ \A m, n \in NodesUnder(t) :
                m.type = "file" /\ n.type = "file" /\ m.inode = n.inode /\ m.inode # 0 =>
                    m.content = n.content
    /\ \A n \in Nodes : /\ n.type \in {"file", "dir", "symlink", "other"}
                        /\ n.type = "symlink" => n.link \in {"in", "up", "abs"}

ASSUME SnapshotsAssumption ==
    \A s \in DOMAIN SnapshotsOf :
        /\ SnapshotsOf[s] \in Seq(ToSet(SnapshotsOf[s]))
        /\ \A i \in DOMAIN SnapshotsOf[s] :
              SnapshotsOf[s][i].time \in Int /\ SnapshotsOf[s][i].tree \in DOMAIN TreeOf

BlobsUnder(t) ==
    TreesUnder(t) \cup UNION {ToSet(n.content) : n \in {m \in NodesUnder(t) : m.type = "file"}}

\* What a tool finds of the index (k = 1) and of the snapshots (k = 2) in the
\* cache, and whether it can open them: of a copy cut short any files may be
\* there, and one that is torn ends it.
Cached(of, k) ==
    IF cache.meta[k] = 0 THEN {<<>>}
    ELSE Files(of[world.session[IF cache.meta[k] > 0 THEN cache.meta[k] ELSE -cache.meta[k]]], cache.meta[k] < 0)

Opened ==
    IF \E k \in METADATA_SUBDIRS : cache.meta[k] < 0 THEN {LoadKey(world, Right), FALSE}
    ELSE {LoadKey(world, Right)}

\* rustic restores everything or answers 1 (what it leaves then is its own).
RusticRestore ==
    /\ sh.pc = "restore" /\ sh.rustic
    /\ \E index \in Cached(IndexOf, 1), snaps \in Cached(SnapshotsOf, 2), opened \in Opened :
       LET tree  == SnapshotTree(snaps, heir.snapshot)
           place == LoadIndex(index)
           ok    == /\ tree # NoTree /\ opened
                    /\ \A b \in BlobsUnder(tree) :
                          /\ b \in DOMAIN place
                          /\ place[b] = world.pack[b] /\ cache.pack[place[b]] = "good"
                          /\ b \in DOMAIN world.blob => world.blob[b].valid
       IN  /\ Exit(IF ok THEN 0 ELSE 1)
           /\ target' = IF ~ok THEN target
                        ELSE [target EXCEPT !.file = [n \in NodeNames |->
                                 IF \E m \in NodesUnder(tree) : m.name = n /\ m.type = "file"
                                 THEN (CHOOSE m \in NodesUnder(tree) : m.name = n).content
                                 ELSE @[n]],
                              !.link = [n \in NodeNames |->
                                 @[n] \/ \E m \in NodesUnder(tree) : m.name = n /\ m.type = "symlink"]]
    /\ UNCHANGED <<rd, dec, heir>>

\* Without rustic the scripts run the Python reader on the cache, and do not
\* hand it the snapshot.
ReadCache(interactive) ==
    /\ sh.pc = "restore" /\ ~sh.rustic
    /\ \E index \in Cached(IndexOf, 1), snaps \in Cached(SnapshotsOf, 2), opened \in Opened :
          rd' = Open(index, snaps, 0, interactive, FALSE, opened, <<>>)
    /\ sh' = [sh EXCEPT !.pc = "reading"]
    /\ UNCHANGED <<world, cache, target, dec, heir>>

\* Directory mode makes 1 of every failure.
ReaderEnds ==
    /\ sh.pc = "reading" /\ rd.pc = "done"
    /\ Exit(IF sh.tool = "directory" /\ rd.rc # 0 THEN 1 ELSE rd.rc)
    /\ rd' = [rd EXCEPT !.pc = "idle"]
    /\ UNCHANGED <<target, dec, heir>>

\* The reader is stopped: a partial file stays.
KillReader ==
    /\ sh.pc = "reading" /\ rd.pc # "done" /\ sh.kills < MaxKills
    /\ sh' = [sh EXCEPT !.pc = "idle", !.rc = 137, !.kills = @ + 1, !.calm = FALSE]
    /\ cache' = IF sh.keep THEN cache ELSE NoCache
    /\ rd' = [NoReader EXCEPT !.rc = 137] /\ dec' = NoDecoder
    /\ UNCHANGED <<world, target, heir>>

Next ==
    \/ ReadShares \/ CheckShares \/ CombineShares
    \/ \E run \in RunsIn(world) : RunScript(run)
    \/ \E i \in Labels, run \in RunsIn(world) : RunReader(i, run)
    \/ RusticRestore
    \/ \E interactive \in BOOLEAN : ReadCache(interactive)
    \/ ReaderEnds \/ KillReader
    \/ DriveStep /\ UNCHANGED <<readerVars, heir>>
    \/ sh.pc = "reading" /\ ReaderStep /\ UNCHANGED <<driveVars, heir>>

Spec == RecoveryInit /\ [][Next]_vars

-----------------------------------------------------------------------------
(* Properties.                                                             *)

FullWords(line) == [k \in DOMAIN line |-> word_index(line[k])]

\* A card says the words of its share, abbreviated or not, after its prose.
SaysShare(card, words) ==
    \E k \in DOMAIN card : FullWords(FlattenSeq(SubSeq(card, k, Len(card)))) = words

\* The cards that count: on stdin, not one that is all prose (no words).
Counting(hand) == {i \in DOMAIN hand.cards : hand.stdin => hand.from[i].words # <<>>}

\* Enough cards of one split, each with the words of its share: a share is
\* [split, threshold, index, words, secret].
Enough(hand) ==
    /\ hand.readable
    /\ \A i, j \in Counting(hand) :
          SaysShare(hand.cards[i], hand.from[i].words) /\ hand.from[i].split = hand.from[j].split
    /\ \E i \in Counting(hand) :
          Cardinality({hand.from[j].index : j \in Counting(hand)}) >= hand.from[i].threshold

OneToALine(hand) ==
    hand.stdin => \A i \in Counting(hand) : \E k \in DOMAIN hand.cards[i] :
                     FullWords(hand.cards[i][k]) = hand.from[i].words

Unabridged(hand) ==
    \A i \in DOMAIN hand.cards : \A k \in DOMAIN hand.cards[i] : \A j \in DOMAIN hand.cards[i][k] :
        hand.cards[i][k][j] < 1024

HandIsDone == heir.hand.cards # <<>> /\ heir.pc \in {"key", "stuck"}

\* keyshare_combine writes a password only from enough cards of one split, with
\* all their words right, and it is the one that was split.  It does so from
\* files with the full words, wrapped or not, and from stdin with a share to a
\* line, abbreviated or not.  (Abbreviated words in files are not understood:
\* AbbreviationsCombine.)
CombineRight ==
    HandIsDone =>
        /\ heir.pc = "key" =>
              Enough(heir.hand) /\ \A i \in Counting(heir.hand) : heir.key = heir.hand.from[i].secret
        /\ /\ Enough(heir.hand) /\ OneToALine(heir.hand)
           /\ heir.hand.stdin \/ Unabridged(heir.hand)
           => heir.pc = "key"

\* What docs/SHARE_FORMAT.md and the cards say: the words may be abbreviated,
\* wherever they are read from.
AbbreviationsCombine ==
    HandIsDone /\ Enough(heir.hand) /\ OneToALine(heir.hand) => heir.pc = "key"

\* When single-drive restore reaches its last phase, every pack of the pick
\* list is in the cache and hashes right, whatever was killed, torn or damaged
\* before.
CompleteIsIntact ==
    sh.pc \in {"restore", "reading"} /\ sh.tool \in {"single", "auto"} =>
        \A p \in Listed(world, cache.list) : cache.pack[p] = "good"

\* Exit 3 means that some pack has no source left: its only volume in the
\* catalog was read and is damaged, or there is no disc of it.
ExitThreeForCause ==
    sh.pc = "idle" /\ sh.rc = 3 /\ sh.keep /\ sh.calm =>
        \E p \in Listed(world, cache.list) :
                         /\ cache.pack[p] = "none"
                         /\ \A i \in LabelsOf(world, cache.list, p) : world.state[i, p] = "bad"

\* A file under its own name in the target is whole, at every moment: a
\* failure or a stop in the middle never leaves part of one there.
FilesAreWhole ==
    \A name \in NodeNames :
        \/ target.file[name] = <<>>
        \/ \E n \in Nodes : n.name = name /\ n.type = "file" /\ target.file[name] = n.content

\* When an interrupted run is repeated in its work directory, the helper "will
\* pick up where it left off": once every listed pack is in the cache and hashes
\* right, and the password is right, the run does not end with 1.
PicksUp ==
    /\ sh.pc = "idle" /\ sh.tool \in {"single", "auto"} /\ sh.keep /\ sh.fresh # 0
    /\ Right /\ \E k \in DOMAIN world.keys : world.keys[k] = "good"
    /\ cache.list # 0 /\ \A p \in Listed(world, cache.list) : cache.pack[p] = "good"
    => sh.rc # 1

\* What the reader makes of a node in the target.  That a directory is made is
\* not modelled.
RestoredIn(tg, n) ==
    CASE n.type = "file" -> tg.file[n.name] = n.content
      [] n.type = "symlink" -> tg.link[n.name]
      [] n.type = "dir" -> TRUE
      [] OTHER -> FALSE

\* What the reader leaves out with no more than a line in its log: absolute
\* links, types it does not know, and names with a directory part.
PassedOver(n) == n.type = "other" \/ (n.type = "symlink" /\ n.link = "abs")

Restored(n) == RestoredIn(target, n)

CoveredBy(n, m) ==
    \/ n.name \in m \/ "" \in m
    \/ \E d \in Nodes : d.type = "dir" /\ d.name \in m /\ n \in NodesUnder(d.subtree)

\* The reader answers 0 only when everything is restored, and 2 only when its
\* manifest accounts for everything that is not, but for what it passes over
\* (see SkippedLinksAreRecorded).
NothingSilent ==
    rd.pc = "done" =>
        /\ rd.rc = 0 => \A n \in NodesUnder(rd.root) : Restored(n) \/ PassedOver(n)
        /\ rd.rc = 2 => \A n \in NodesUnder(rd.root) :
                           Restored(n) \/ PassedOver(n) \/ CoveredBy(n, target.manifest)

\* What recovery/docs/TIERS.txt says: each skipped link, an absolute one too,
\* is recorded in the manifest and counts toward exit 2.
SkippedLinksAreRecorded ==
    rd.pc = "done" /\ rd.rc \in {0, 2} =>
        \A n \in NodesUnder(rd.root) :
            n.type = "symlink" => Restored(n) \/ (rd.rc = 2 /\ CoveredBy(n, target.manifest))

\* All discs are at hand and sound, the password is right, and nobody stopped
\* or skipped anything.
Healthy ==
    /\ world.at = Labels /\ Right /\ sh.calm /\ ~rd.quit
    /\ \A i \in Labels, p \in Packs : world.state[i, p] = "good"
    /\ \E k \in DOMAIN world.keys : world.keys[k] = "good"
    /\ \A b \in DOMAIN world.blob : world.blob[b].valid

\* The tree of the snapshot asked for, of those on the newest disc.
Requested == SnapshotTree(SnapshotsOf[world.session[Volumes]], heir.snapshot)

\* A run has ended that was started from the newest disc of a healthy archive,
\* with a work directory of its own, for a snapshot that is there.
HealthyRunEnded ==
    /\ sh.pc = "idle" /\ sh.runs > 0 /\ Healthy /\ sh.fresh = Volumes
    /\ sh.keep => sh.runs = 1
    /\ sh.tool = "reader" => rd.interactive
    /\ Requested # NoTree

RequestedFiles == \A n \in NodesUnder(Requested) : n.type = "file" => Restored(n)

\* A healthy archive restores: every tool ends with all the files of the
\* snapshot, the latest or the one asked for.  (A script that falls back to the
\* Python reader restores the latest only: SnapshotAsAsked.)
HealthyRestores ==
    HealthyRunEnded /\ (sh.tool = "reader" \/ sh.rustic \/ heir.snapshot = <<>>) => RequestedFiles

\* What the usage of the scripts says: --snapshot is the snapshot to restore,
\* whatever tool they find.
SnapshotAsAsked == HealthyRunEnded => RequestedFiles

-----------------------------------------------------------------------------
(* The inductive invariants                                                *)

ScriptStates ==
    [tool : {"none", "single", "auto", "directory", "reader"},
     pc : {"idle", "boot", "loop", "upgrade", "ingest", "extract", "restore", "reading"},
     mnt : {0} \cup Labels, idx : Nat, vols : Seq(Labels), want : {0} \cup Labels,
     fresh : {0} \cup Labels, rc : Nat, runs : Nat, kills : Nat, keep : BOOLEAN,
     rustic : BOOLEAN, calm : BOOLEAN]

CacheStates ==
    [pack : [Packs -> {"none", "good", "bad"}], meta : [METADATA_SUBDIRS -> (-Volumes)..Volumes],
     list : {0} \cup Labels, corrupt : [Packs -> {0} \cup Labels], torn : BOOLEAN]

\* While the heir has done as told, the disc ingested is the one wanted, and a
\* disc noted as corrupt for a pack has a damaged file of it.
DriveInv ==
    /\ \E c \in Cases : world = c.world
    /\ sh \in ScriptStates /\ cache \in CacheStates
    /\ sh.pc = "extract" => sh.tool = "directory"
    /\ sh.pc \in {"loop", "upgrade", "ingest"} => cache.list \in Labels
    /\ sh.pc \in {"upgrade", "ingest"} =>
          sh.mnt \in Labels /\ sh.want \in Labels /\ (sh.calm => sh.mnt = sh.want)
    /\ sh.calm => \A p \in Packs :
          cache.corrupt[p] # 0 => world.state[cache.corrupt[p], p] = "bad"
    /\ rd.pc # "idle" => sh.pc = "reading"
    /\ CompleteIsIntact /\ ExitThreeForCause

StackFrames == [tree : DOMAIN TreeOf, at : Nat \ {0}]

ReaderPcs == {"idle", "count", "tree", "walk", "file", "decode", "finish", "done",
              "ask count", "ask tree", "ask file"}

\* 137 is that of a reader that was stopped.
Codes == {0, 1, 2, 137}

LinkSets == SUBSET [inode : {n.inode : n \in Nodes}, name : NodeNames]

\* The root directory has no name.
Names == NodeNames \cup {""}

NameSets == SUBSET Names

\* The fields of a reader; what is not said of a field is anything.
ReaderOK(r) ==
    /\ DOMAIN r = DOMAIN NoReader
    /\ r.pc \in ReaderPcs /\ r.stack \in Seq(StackFrames) /\ r.failed \in NameSets
    /\ r.links \in LinkSets /\ r.strict \in BOOLEAN /\ r.rc \in Codes

FileStates == [NodeNames -> {<<>>} \cup {n.content : n \in {m \in Nodes : m.type = "file"}}]

TargetStates ==
    [file : FileStates, link : [NodeNames -> BOOLEAN], partial : SUBSET NodeNames, manifest : NameSets]

\* The nodes a traversal has yet to come to: the rest of the directory it is in,
\* what follows the directories it is below, and all that is under these.
Ahead(stack, i) ==
    {k \in DOMAIN TreeOf[stack[i].tree] :
        IF i = Len(stack) THEN k >= stack[i].at ELSE k > stack[i].at}

Pending(stack, n) ==
    \E i \in DOMAIN stack : \E k \in Ahead(stack, i) :
        \/ n = TreeOf[stack[i].tree][k]
        \/ TreeOf[stack[i].tree][k].type = "dir" /\ n \in NodesUnder(TreeOf[stack[i].tree][k].subtree)

CurrentNode(r) == TreeOf[Last(r.stack).tree][Last(r.stack).at]

HasNode(r) == Last(r.stack).at \in DOMAIN TreeOf[Last(r.stack).tree]

\* A node that is restored or passed over, or that the names noted as failed
\* account for.
Settled(n, failed, tg) == RestoredIn(tg, n) \/ PassedOver(n) \/ CoveredBy(n, failed)

\* What a link may lead to is restored.
LinksLead(r, tg) ==
    \A l \in r.links : \E m \in NodesUnder(r.root) :
        m.type = "file" /\ m.name = l.name /\ m.inode = l.inode /\ tg.file[l.name] = m.content

\* A traversal under way, of reader r with target tg: every node is settled or
\* still to come.
OnTheWay(r, tg) ==
    /\ r.root \in DOMAIN TreeOf /\ r.stack # <<>>
    /\ \A i \in DOMAIN r.stack : r.stack[i].tree \in TreesUnder(r.root)
    /\ LinksLead(r, tg)
    /\ \A n \in NodesUnder(r.root) : Settled(n, r.failed, tg) \/ Pending(r.stack, n)

AllSettled(r, tg) ==
    /\ r.root \in DOMAIN TreeOf
    /\ \A n \in NodesUnder(r.root) : Settled(n, r.failed, tg)

ReaderGood(r, tg) ==
    /\ ReaderOK(r)
    /\ r.pc \notin {"idle", "done", "finish"} => OnTheWay(r, tg)
    /\ r.pc \in {"file", "decode", "ask file"} => HasNode(r) /\ CurrentNode(r).type = "file"
    /\ r.pc = "finish" => AllSettled(r, tg)
    /\ r.pc = "done" /\ r.rc = 0 => \A n \in NodesUnder(r.root) : RestoredIn(tg, n) \/ PassedOver(n)
    /\ r.pc = "done" /\ r.rc = 2 => \A n \in NodesUnder(r.root) : Settled(n, tg.manifest, tg)

ReaderInv == ReaderGood(rd, target) /\ target \in TargetStates /\ FilesAreWhole

=============================================================================

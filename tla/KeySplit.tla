------------------------------ MODULE KeySplit ------------------------------
(***************************************************************************)
(* Splitting a repository's password into share cards, the catalog's       *)
(* record of the split, and what the discs then tell the heir: `key split' *)
(* file by file, `repo add' and `repo remove', the owner's edits of the    *)
(* configuration, and the check that refuses to stage a disc whose text    *)
(* would contradict the recorded split.                                    *)
(*                                                                         *)
(* A card is abstracted to its split, its number and whether it was        *)
(* written whole; that K such cards give back the password, that fewer or  *)
(* mixed or damaged ones do not, is what Slip39 checks on the real words.  *)
(***************************************************************************)
EXTENDS Integers, Sequences, FiniteSets

CONSTANTS
    Keys,           \* names of the [repos.*] tables of the configuration
    Aliases,        \* other names a repository may have in the catalog
    RepoIds,        \* IDs `repo add' may generate
    Passwords,
    Shapes,         \* pairs <<K, N>> the owner may ask for
    MaxCards,       \* bound: the largest N
    MaxSubsets,     \* _recombine_roundtrip_error tries at most so many subsets
    MaxSplits,      \* bound: splits begun
    MaxEdits        \* bound: edits by the owner

Names == Keys \cup Aliases

None == "none"

\* Stands for [defaults]: the settings of a repository that no table matches.
Defaults == "defaults"

ConfKeys == Keys \cup {Defaults}

\* What recover_secret answers when it raises.
Refused == "refused"

\* split_secret: K in 1..N, N at most 16, and no 1-of-N.
CanSplit(shape) ==
    /\ 1 <= shape[1] /\ shape[1] <= shape[2] /\ shape[2] <= 16
    /\ shape[1] = 1 => shape[2] = 1

\* N - K + 1 subsets are enough to try every card; the code has 64 and N <= 16.
ASSUME KeyAssumption ==
    /\ Keys \cap Aliases = {} /\ Keys # {} /\ {None, Defaults} \cap Names = {}
    /\ Names \cap RepoIds = {}
    /\ Shapes \subseteq (0..MaxCards) \X (0..MaxCards)
    /\ \A s \in Shapes : CanSplit(s) => s[2] - s[1] + 1 <= MaxSubsets
    /\ Refused \notin Passwords
    /\ MaxCards \in Nat /\ MaxSubsets \in Nat /\ MaxSplits \in Nat \ {0}
    /\ MaxEdits \in Nat

VARIABLES
    conf,       \* conf[k]: what repo_split answers for the table k, or for none
    pwfile,     \* pwfile[k]: the password in the password file
    opens,      \* opens[k]: the password that opens the mirror's keys/
    repos,      \* repos[r]: catalog name and config key (by mirror path or name), or None
    escrow,     \* table key_escrow, keyed by ID or (earlier builds) by name
    dir,        \* dir[n][i]: the share and the card file with number i
    splits,     \* every split begun: name, shape, password, was it checked
    job,        \* the running `key split'
    done,       \* splits whose command returned 0
    held,       \* the cards those commands left for the share holders
    edits       \* edits made by the owner

vars == <<conf, pwfile, opens, repos, escrow, dir, splits, job, done, held, edits>>

ownerVars   == <<conf, pwfile, opens>>
catalogVars == <<repos, escrow>>

Card(sid, i, ok) == [sid |-> sid, i |-> i, ok |-> ok]

NoCard == Card(0, 0, FALSE)

NoFiles == [share |-> FALSE, card |-> NoCard]

NoRepo == [name |-> None, key |-> None]

Row(sid, shape) == [sid |-> sid, shape |-> shape]

NoRow == Row(0, <<0, 0>>)

IdleJob == [pc |-> "idle", n |-> None, conf |-> FALSE, i |-> 0]

-----------------------------------------------------------------------------
(* Shares.                                                                 *)

\* recover_secret of a set of cards.
Combine(cards) ==
    LET sids == {c.sid : c \in cards}
        sid  == CHOOSE s \in sids : TRUE
    IN  IF /\ cards # {} /\ Cardinality(sids) = 1 /\ \A c \in cards : c.ok
           /\ Cardinality({c.i : c \in cards}) >= splits[sid].shape[1]
        THEN splits[sid].pw ELSE Refused

\* itertools.combinations yields the K-subsets of 1..n in this order.
Before(A, B) ==
    \E x \in A \ B : \A y \in (A \cup B) \ (A \cap B) : x <= y

\* Mutant of FirstSubsets: the bound is taken from the shape.
FirstSubsetsShort(k, n, max) ==
    LET all == {S \in SUBSET (1..n) : Cardinality(S) = k}
    IN  {S \in all : Cardinality({T \in all : Before(T, S)}) < n - k}

FirstSubsets(k, n, max) ==
    LET all == {S \in SUBSET (1..n) : Cardinality(S) = k}
    IN  {S \in all : Cardinality({T \in all : Before(T, S)}) < max}

\* _recombine_roundtrip_error finds no error: cards[i] is the i-th mnemonic.
Roundtrip(cards, shape, pw) ==
    /\ cards[1] # NoCard /\ cards[1].ok
    /\ \A S \in FirstSubsets(shape[1], shape[2], MaxSubsets) :
           /\ \A i \in S : cards[i] # NoCard
           /\ Combine({cards[i] : i \in S}) = pw

-----------------------------------------------------------------------------
(* Records of splits.                                                      *)

\* get_repo_by_name: the repositories with that name; two are an error.
Named(n) == {r \in RepoIds : repos[r] # NoRepo /\ repos[r].name = n}

\* get_split_for_repo: under the ID, else under the name.
get_split_for_repo(r) ==
    IF escrow[r] # NoRow THEN escrow[r] ELSE escrow[repos[r].name]

\* Mutant of Drift: only repositories that are configured as split are compared.
DriftOfSplitOnly(on) ==
    \E r \in on :
        LET row == get_split_for_repo(r)
            c   == conf[repos[r].key]
        IN  c.split /\ row.shape # c.shape

\* detect_escrow_drift, for the repositories on the disc.
Drift(on) ==
    \E r \in on :
        LET row == get_split_for_repo(r)
            c   == conf[repos[r].key]
        IN  IF c.split THEN row.shape # c.shape ELSE row # NoRow

\* _effective_kn: a recorded split among the repositories on the disc (the
\* first by ID, and IDs are random).
EffectiveShapes(on) ==
    {get_split_for_repo(r).shape : r \in {q \in on : get_split_for_repo(q) # NoRow}}

\* config_names_by_repo_id: the repositories joined to config key k.
Joined(k) == {r \in RepoIds : repos[r] # NoRepo /\ repos[r].key = k}

\* recorded_splits: of the repositories joined to one key, one wins.
RecordedShapes(k) ==
    {get_split_for_repo(r).shape : r \in {q \in Joined(k) : get_split_for_repo(q) # NoRow}}

\* split_view: the shape the disc's text names for config key k (if split).
Texts(k, on) ==
    IF ~conf[k].split THEN {NoRow.shape}
    ELSE IF RecordedShapes(k) # {} THEN RecordedShapes(k)
    ELSE IF EffectiveShapes(on) # {} THEN EffectiveShapes(on)
    ELSE {conf[k].shape}

-----------------------------------------------------------------------------
\* A catalog of an earlier build may hold a split under the repository's name.
Init ==
    \E k \in Keys, r \in RepoIds, pw \in Passwords, s \in Shapes, legacy \in BOOLEAN :
        /\ CanSplit(s)
        /\ conf = [x \in ConfKeys |-> [split |-> legacy, shape |-> s]]
        /\ pwfile = [x \in Keys |-> pw] /\ opens = [x \in Keys |-> pw]
        /\ repos = [q \in RepoIds |-> IF q = r THEN [name |-> k, key |-> k] ELSE NoRepo]
        /\ splits = IF legacy THEN <<[n |-> k, shape |-> s, pw |-> pw, checked |-> TRUE]>>
                              ELSE <<>>
        /\ escrow = [x \in RepoIds \cup Names |->
                        IF legacy /\ x = k THEN Row(1, s) ELSE NoRow]
        /\ done = IF legacy THEN {1} ELSE {}
        /\ held = IF legacy THEN {Card(1, i, TRUE) : i \in 1..s[2]} ELSE {}
        /\ dir = [n \in Names |-> [i \in 1..MaxCards |-> NoFiles]]
        /\ job = IdleJob /\ edits = 0

-----------------------------------------------------------------------------
(* key split.                                                              *)

Sid == Len(splits)

\* _check_split_repo_registered.
Registered(n) == Cardinality(Named(n)) = 1

\* _verify_password_unlocks_repo, on the mirror of the configured repository.
Unlocks(n, pw) == n \in Keys /\ pw = opens[n]

\* Everything before the first file: the shape, the password file, the
\* catalog (registered under exactly that name, unless it cannot be read),
\* the unlock check and the round-trip in memory.  A refusal changes nothing.
SplitBegin(n, withConf, verify, readable, shape) ==
    /\ job = IdleJob /\ Sid < MaxSplits
    /\ withConf /\ readable => Registered(n)
    /\ CanSplit(shape)
    /\ \E pw \in IF n \in Keys THEN {pwfile[n]} ELSE Passwords :
           /\ withConf /\ verify => Unlocks(n, pw)
           /\ splits' = Append(splits, [n |-> n, shape |-> shape, pw |-> pw,
                                        checked |-> withConf /\ verify])
    /\ job' = [pc |-> "share", n |-> n, conf |-> withConf, i |-> 1]
    /\ UNCHANGED <<ownerVars, catalogVars, dir, done, held, edits>>

\* _write_private_file refuses an existing file, and the command fails.  The
\* bare share file is never read back, so that it exists is all that counts.
SplitShare ==
    /\ job.pc = "share"
    /\ IF dir[job.n][job.i].share THEN job' = IdleJob /\ dir' = dir
       ELSE /\ dir' = [dir EXCEPT ![job.n][job.i].share = TRUE]
            /\ job' = [job EXCEPT !.pc = "card"]
    /\ UNCHANGED <<ownerVars, catalogVars, splits, done, held, edits>>

\* os.write may write less than it was asked to (whole = FALSE).
SplitCard(whole) ==
    /\ job.pc = "card"
    /\ IF dir[job.n][job.i].card # NoCard THEN job' = IdleJob /\ dir' = dir
       ELSE /\ dir' = [dir EXCEPT ![job.n][job.i].card = Card(Sid, job.i, whole)]
            /\ job' = IF job.i < splits[Sid].shape[2]
                      THEN [job EXCEPT !.pc = "share", !.i = @ + 1]
                      ELSE [job EXCEPT !.pc = "check"]
    /\ UNCHANGED <<ownerVars, catalogVars, splits, done, held, edits>>

Written == [i \in 1..splits[Sid].shape[2] |-> dir[job.n][i].card]

Return0 ==
    /\ done' = done \cup {Sid}
    /\ held' = held \cup {Written[i] : i \in DOMAIN Written}
    /\ job' = IdleJob

\* The round-trip on the card files; without a configuration that is all.
SplitCheck ==
    /\ job.pc = "check"
    /\ IF Roundtrip(Written, splits[Sid].shape, splits[Sid].pw)
       THEN IF job.conf THEN job' = [job EXCEPT !.pc = "record"] /\ UNCHANGED <<done, held>>
                        ELSE Return0
       ELSE job' = IdleJob /\ UNCHANGED <<done, held>>
    /\ UNCHANGED <<ownerVars, catalogVars, dir, splits, edits>>

\* _record_split_by_name: a row under the ID replaces one under the name.
RecordedByName(n) ==
    [x \in DOMAIN escrow |-> IF x \in Named(n) THEN Row(Sid, splits[Sid].shape)
                             ELSE IF x = n THEN NoRow ELSE escrow[x]]

\* When it cannot be recorded the command only warns.
SplitRecord(reachable) ==
    /\ job.pc = "record"
    /\ escrow' = IF reachable /\ Registered(job.n) THEN RecordedByName(job.n) ELSE escrow
    /\ Return0
    /\ UNCHANGED <<ownerVars, repos, dir, splits, edits>>

SplitDie ==
    /\ job # IdleJob
    /\ job' = IdleJob
    /\ UNCHANGED <<ownerVars, catalogVars, dir, splits, done, held, edits>>

-----------------------------------------------------------------------------
(* repo add, repo remove.                                                  *)

\* Any name is taken, and a mirror path that no table of the configuration has:
\* then the name decides, and without a match [defaults] holds.
RepoAdd(r, n, k) ==
    /\ edits < MaxEdits /\ edits' = edits + 1
    /\ repos[r] = NoRepo /\ n \in {k} \cup Aliases
    /\ escrow[r] = NoRow            \* a fresh UUID
    /\ repos' = [repos EXCEPT ![r] = [name |-> n, key |-> k]]
    /\ UNCHANGED <<ownerVars, escrow, dir, splits, job, done, held>>

\* Mutant of RepoRemove: only the row under the ID is cleared (before #573).
RepoRemoveById(r) ==
    /\ edits < MaxEdits /\ edits' = edits + 1
    /\ repos[r] # NoRepo
    /\ escrow' = [escrow EXCEPT ![r] = NoRow]
    /\ repos' = [repos EXCEPT ![r] = NoRepo]
    /\ UNCHANGED <<ownerVars, dir, splits, job, done, held>>

\* The repository's packs and snapshots go as well; that is not modelled.
RepoRemove(r) ==
    /\ edits < MaxEdits /\ edits' = edits + 1
    /\ repos[r] # NoRepo
    /\ escrow' = [escrow EXCEPT ![r] = NoRow, ![repos[r].name] = NoRow]
    /\ repos' = [repos EXCEPT ![r] = NoRepo]
    /\ UNCHANGED <<ownerVars, dir, splits, job, done, held>>

-----------------------------------------------------------------------------
(* The owner.                                                              *)

EditConf(k) ==
    /\ edits < MaxEdits /\ edits' = edits + 1
    /\ \E b \in BOOLEAN, s \in {x \in Shapes : CanSplit(x)} : conf' = [conf EXCEPT ![k] = [split |-> b, shape |-> s]]
    /\ UNCHANGED <<pwfile, opens, catalogVars, dir, splits, job, done, held>>

EditPassword(k) ==
    /\ edits < MaxEdits /\ edits' = edits + 1
    /\ \E pw \in Passwords :
           \/ pwfile' = [pwfile EXCEPT ![k] = pw] /\ opens' = opens
           \/ opens' = [opens EXCEPT ![k] = pw] /\ pwfile' = pwfile
    /\ UNCHANGED <<conf, catalogVars, dir, splits, job, done, held>>

\* The owner hands cards out or deletes them: their files leave the directory.
TakeFiles(n, i) ==
    /\ edits < MaxEdits /\ edits' = edits + 1
    /\ job.n # n /\ dir[n][i] # NoFiles
    /\ dir' = [dir EXCEPT ![n][i] = NoFiles]
    /\ UNCHANGED <<ownerVars, catalogVars, splits, job, done, held>>

Next ==
    \/ \E n \in Names, c, v, u \in BOOLEAN, s \in Shapes : SplitBegin(n, c, v, u, s)
    \/ \E b \in BOOLEAN : SplitCard(b) \/ SplitRecord(b)
    \/ SplitShare \/ SplitCheck \/ SplitDie
    \/ \E r \in RepoIds : RepoRemove(r) \/ \E n \in Names, k \in ConfKeys : RepoAdd(r, n, k)
    \/ \E k \in ConfKeys : EditConf(k)
    \/ \E k \in Keys : EditPassword(k)
    \/ \E n \in Names, i \in 1..MaxCards : TakeFiles(n, i)

Spec == Init /\ [][Next]_vars

-----------------------------------------------------------------------------
(* Properties.                                                             *)

File == {NoCard} \cup [sid : 1..MaxSplits, i : 1..MaxCards, ok : BOOLEAN]

TypeOK ==
    /\ conf \in [ConfKeys -> [split : BOOLEAN, shape : Shapes]]
    /\ pwfile \in [Keys -> Passwords] /\ opens \in [Keys -> Passwords]
    /\ repos \in [RepoIds -> {NoRepo} \cup [name : Names, key : ConfKeys]]
    /\ escrow \in [RepoIds \cup Names -> [sid : 0..MaxSplits, shape : (0..MaxCards) \X (0..MaxCards)]]
    /\ dir \in [Names -> [1..MaxCards -> [share : BOOLEAN, card : File]]]
    /\ splits \in Seq([n : Names, shape : Shapes, pw : Passwords, checked : BOOLEAN])
    /\ job \in [pc : {"idle", "share", "card", "check", "record"}, n : Names \cup {None},
                conf : BOOLEAN, i : 0..MaxCards]
    /\ done \subseteq 1..Len(splits) /\ held \subseteq File \ {NoCard}
    /\ edits \in 0..MaxEdits

\* A `key split' that returned 0 left N whole cards of that split, of which
\* any K give back the password - although writes may be short, only the
\* first MaxSubsets subsets are tried, files of an earlier split may be in
\* the way, and the process may die between two files (KEY-08).
CardsRecover ==
    \A sid \in done :
        LET mine == {c \in held : c.sid = sid}
        IN  /\ {c.i : c \in mine} = 1..splits[sid].shape[2]
            /\ \A S \in SUBSET mine : Cardinality(S) >= splits[sid].shape[1] =>
                   Combine(S) = splits[sid].pw

\* Every recorded split was made and checked, with the K and N recorded,
\* under the name of the repository it stands for; and a record never
\* outlives its repository, so that one added later under the same name
\* does not inherit it (#571, #573).
RowsAreSplits ==
    \A x \in DOMAIN escrow : escrow[x] # NoRow =>
        /\ escrow[x].sid \in done
        /\ escrow[x].shape = splits[escrow[x].sid].shape
        /\ IF x \in RepoIds
           THEN repos[x] # NoRepo /\ splits[escrow[x].sid].n = repos[x].name
           ELSE Named(x) # {} /\ splits[escrow[x].sid].n = x

\* _escrow_preflight lets a disc be staged - in whatever state the cards,
\* the records and the configuration are by then - only if its text tells
\* the heir of each repository on it what was done: K of N as recorded, or
\* no split.  (A key that two repositories share by mirror path is left out:
\* the text has one line for both.  So is a repository no table matches: it is
\* compared with [defaults], and the text has no line for it.)
DiscTellsTruth ==
    \A on \in SUBSET {r \in RepoIds : repos[r] # NoRepo} :
        ~Drift(on) =>
            \A r \in on : repos[r].key # Defaults /\ Joined(repos[r].key) = {r} =>
                Texts(repos[r].key, on) = {get_split_for_repo(r).shape}

=============================================================================

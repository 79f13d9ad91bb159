------------------------------- MODULE Restore -------------------------------
(***************************************************************************)
(* lcsas restore exec and lcsas restore standalone: the pick list          *)
(* (db/queries.py, restore/planner.py) and the loop that collects the      *)
(* packs of a snapshot from discs into a cache (cli/main.py,               *)
(* restore/executor.py) before rustic runs on the cache.                   *)
(*                                                                         *)
(* The snapshot needs all Packs.  A restore only reads the catalog, so     *)
(* status, links and the discs are fixed by Init; the cache survives from  *)
(* one run to the next (--cache-dir).  Runs differ in the command, in      *)
(* --volume-dir against prompts, in --skip-verify and in whether the host  *)
(* has rustic and an ECC tool.                                             *)
(***************************************************************************)
EXTENDS Catalog

CONSTANTS
    MaxRuns,        \* bound: runs of a restore command
    MaxTroubles,    \* bound: what is wrong with the archive, see Init
    Statuses,       \* statuses of the volumes in this instance
    Routes          \* the ways to restore in this instance

ASSUME RestoreAssumption ==
    /\ MaxRuns \in Nat /\ MaxTroubles \in Nat
    /\ Statuses \subseteq VolumeStatus
    /\ Routes \subseteq {"exec", "standalone"} \X {"batch", "prompt"}

\* What a pack file holds; a file of no bytes is told from another bad one.
Files == {"none", "good", "bad", "empty"}

\* Where packs are read from: a directory or disc per volume, and 0, the data
\* directory directly below --volume-dir.
Sources == 0..MaxVolumes

VARIABLES
    \* --- the archive ---
    status,     \* volumes.status in the catalog at hand
    links,      \* volume_packs
    disc,       \* disc[v]: the pack files there
    atHand,     \* volumes with a directory below --volume-dir or a disc
    badIso,     \* volumes whose <label>.iso fails its check
    ecc,        \* select_ecc_runner finds an ECC tool
    \* --- the cache directory ---
    cache,
    \* --- the running command ---
    pc,         \* "idle", "choose", "ingest"
    phase,      \* "initial", "volumes", "alternates"
    route,      \* command and mode
    verify,     \* not --skip-verify
    wanted,     \* packs the volumes are asked for
    todo,       \* labels still to visit
    from,       \* the source being read
    asked,      \* required_packs of this ingest_volume call
    queue,      \* those of them still to do
    copied,     \* the pack copied last, until it is checked
    bad,        \* IngestionResult.failed
    failed,     \* all_failed, then remaining
    outcome,    \* how the last run ended
    \* --- history, read by the properties only ---
    runs,
    clean       \* no corrupt pack was in the cache when the run began

archive == <<status, links, disc, atHand, badIso, ecc>>
options == <<route, verify, wanted, runs, clean>>
vars    == <<archive, options, cache, pc, phase, todo, from, asked, queue, copied, bad, failed, outcome>>

Outcomes == {"none", "missing", "iso", "failed", "incomplete", "restored",
             "reader", "reader partial", "died"}

TypeOK ==
    /\ status \in [Volumes -> VolumeStatus]
    /\ links \in [Volumes -> SUBSET Packs]
    /\ disc \in [Sources -> [Packs -> Files]]
    /\ atHand \in SUBSET Volumes /\ badIso \in SUBSET Volumes
    /\ cache \in [Packs -> Files]
    /\ pc \in {"idle", "choose", "ingest"}
    /\ phase \in {"initial", "volumes", "alternates"}
    /\ route \in {"exec", "standalone"} \X {"batch", "prompt"}
    /\ verify \in BOOLEAN /\ ecc \in BOOLEAN /\ clean \in BOOLEAN
    /\ todo \in SUBSET Volumes
    /\ from \in Sources
    /\ wanted \subseteq Packs /\ asked \subseteq Packs /\ queue \subseteq Packs
    /\ copied \subseteq Packs /\ bad \subseteq Packs /\ failed \subseteq Packs
    /\ outcome \in Outcomes
    /\ runs \in 0..MaxRuns

\* A volume's disc has its own packs, except those in harm, which are missing
\* or damaged; the packs in top were copied to the top of --volume-dir.
Burned(harm, top) ==
    [v \in Sources |-> [p \in Packs |->
        IF v = 0 THEN (IF p \in top THEN "good" ELSE "none")
        ELSE IF p \notin links[v] THEN "none"
        ELSE IF <<v, p>> \in DOMAIN harm THEN harm[<<v, p>>] ELSE "good"]]

\* MaxTroubles bounds the volumes that are not VERIFIED, those not at hand, the
\* images that fail their check and the pack files that are not good.
Init ==
    /\ links \in [Volumes -> SUBSET Packs]
    /\ \E odd, gone, iso \in SUBSET Volumes, files \in SUBSET (Volumes \X Packs) :
          /\ Cardinality(odd) + Cardinality(gone) + Cardinality(iso) + Cardinality(files) <= MaxTroubles
          /\ \A f \in files : f[2] \in links[f[1]]
          /\ \E as \in [odd -> Statuses \ {"VERIFIED"}] :
                status = [v \in Volumes |-> IF v \in odd THEN as[v] ELSE "VERIFIED"]
          /\ atHand = Volumes \ gone /\ badIso = iso
          /\ ecc \in {FALSE, iso # {}}      \* without a bad image it makes no difference
          /\ \E harm \in [files -> Files \ {"good"}], top \in {{}, IF gone = {} THEN {} ELSE Packs} :
                disc = Burned(harm, top)    \* the top is read for volumes that are gone
    /\ cache = [p \in Packs |-> "none"]
    /\ pc = "idle" /\ phase = "initial" /\ route = <<"exec", "batch">>
    /\ verify = TRUE /\ clean = TRUE
    /\ wanted = {} /\ todo = {} /\ from = 0
    /\ asked = {} /\ queue = {} /\ copied = {} /\ bad = {} /\ failed = {}
    /\ outcome = "none" /\ runs = 0

-----------------------------------------------------------------------------
(* The pick list: generate_pick_list_v2 without a preferred location *)

OutOfService == {"DEPRECATED", "DESTROYED"}

\* The volumes get_pick_list_with_alternates finds for p.
Candidates(p) == {v \in Volumes : p \in links[v] /\ status[v] \notin OutOfService}

\* Its ORDER BY: durable volumes, VERIFIED before BURNED before CONSOLIDATING,
\* then those that may never have been burned; then the label.
Rank(s) ==
    CASE s = "VERIFIED"                   -> 0
      [] s = "BURNED"                     -> 1
      [] s \in DURABLE_VOLUME_STATUSES    -> 2
      [] OTHER                            -> 3

Precedes(st, v, w) ==
    Rank(st[v]) < Rank(st[w]) \/ (Rank(st[v]) = Rank(st[w]) /\ v <= w)

FirstOf(st, vols) == CHOOSE v \in vols : \A w \in vols : Precedes(st, v, w)

Primary(p) == FirstOf(status, Candidates(p))

\* Mutant of Alternates: volumes that may never have been burned are left out.
AlternatesDurable(p) == {v \in Candidates(p) \ {Primary(p)} : Rank(status[v]) < 3}

Alternates(p) == Candidates(p) \ {Primary(p)}

PrimaryOn(v) == {p \in Packs : Candidates(p) # {} /\ Primary(p) = v}
PickedLabels == {v \in Volumes : PrimaryOn(v) # {}}

get_missing_packs == {p \in Packs : Candidates(p) = {}}

-----------------------------------------------------------------------------
(* The cache *)

\* Without verify_hashes, as every caller calls it: is_file only.
verify_cache_completeness(packs) == {p \in packs : cache[p] = "none"}

\* ingest_volume keeps a cached file that passes its test.
Kept(p) == IF verify THEN cache[p] = "good" ELSE cache[p] \in {"good", "bad"}

EmptyCache == [p \in Packs |-> "none"]

-----------------------------------------------------------------------------
(* Runs *)

Starts(r, v) ==
    /\ pc = "idle" /\ runs < MaxRuns /\ runs' = runs + 1
    /\ route' = r /\ verify' = v
    /\ clean' = \A p \in Packs : cache[p] \in {"none", "good"}
    /\ UNCHANGED <<archive, cache>>

\* A run ends; its locals go.
Ends(how) ==
    /\ pc' = "idle" /\ outcome' = how
    /\ phase' = "initial" /\ todo' = {} /\ from' = 0
    /\ asked' = {} /\ queue' = {} /\ copied' = {} /\ bad' = {} /\ failed' = {}

\* Some pack is on no volume in service: nothing is tried.
BeginMissing(r, v) ==
    /\ r \in Routes /\ get_missing_packs # {}
    /\ Starts(r, v)
    /\ wanted' = {}
    /\ Ends("missing")

BeginExec(r, v) ==
    /\ r \in Routes /\ r[1] = "exec" /\ get_missing_packs = {}
    /\ Starts(r, v)
    /\ wanted' = Packs /\ todo' = PickedLabels
    /\ pc' = "choose" /\ phase' = "volumes" /\ outcome' = "none"
    /\ UNCHANGED <<from, asked, queue, copied, bad, failed>>

\* The disc named on the command line is asked for everything first.
BeginStandalone(r, d, v) ==
    /\ r \in Routes /\ r[1] = "standalone" /\ get_missing_packs = {}
    /\ d \in atHand
    /\ Starts(r, v)
    /\ from' = d /\ asked' = Packs /\ queue' = Packs
    /\ wanted' = Packs /\ todo' = {}
    /\ pc' = "ingest" /\ phase' = "initial" /\ outcome' = "none"
    /\ UNCHANGED <<copied, bad, failed>>

\* Without rustic the Python reader runs on the cache.  prepare_cache has made
\* cache/data by then, so d's data directory is not linked in its place; the
\* reader finds what earlier runs left in the cache.
BeginReader(r, d, v) ==
    /\ r \in Routes /\ r[1] = "standalone"
    /\ d \in atHand
    /\ Starts(r, v)
    /\ wanted' = {}
    /\ pc' = "idle" /\ from' = d
    /\ outcome' = IF \A p \in Packs : cache[p] = "good" THEN "reader" ELSE "reader partial"
    /\ UNCHANGED <<phase, todo, asked, queue, copied, bad, failed>>

\* Another --cache-dir; without one each run has a temporary directory.
NewCache ==
    /\ pc = "idle" /\ cache # EmptyCache
    /\ cache' = EmptyCache /\ outcome' = "none"
    /\ UNCHANGED <<archive, options, pc, phase, todo, from, asked, queue, copied, bad, failed>>

\* The owner finds another disc between two runs.
FindDisc(v) ==
    /\ pc = "idle" /\ v \in Volumes \ atHand
    /\ atHand' = atHand \cup {v}
    /\ outcome' = "none" /\ from' = 0
    /\ UNCHANGED <<status, links, disc, badIso, ecc, options, cache, pc, phase, todo,
                   asked, queue, copied, bad, failed>>

-----------------------------------------------------------------------------
(* The volumes, then the alternates.  Labels are visited in the order of the
   query or of the alphabet; their packs are disjoint or already failed, so
   any order is allowed here. *)

\* Where the packs of v are read: with --volume-dir its directory, or the top
\* if there is none; at a prompt whatever disc the owner mounts.
Paths(v) ==
    IF route[2] = "batch" THEN {IF v \in atHand THEN v ELSE 0} ELSE atHand

\* An image beside the discs is checked with the ECC tool, else against the
\* recorded hash.  restore exec does so for every volume, with hashes looked up
\* for the primaries; restore standalone only when it retries below
\* --volume-dir, and without hashes.
IsoRefused(v) ==
    /\ v \in badIso
    /\ \/ route[1] = "exec" /\ (ecc \/ v \in PickedLabels)
       \/ route = <<"standalone", "batch">> /\ phase = "alternates" /\ ecc

PacksOnAlternate(v) == {p \in failed : v \in Alternates(p)}

\* ingest_volume up to its first pack
Ingest(v, w, packs) ==
    /\ todo' = todo \ {v}
    /\ ~IsoRefused(v)
    /\ pc' = "ingest" /\ from' = w
    /\ asked' = packs /\ queue' = packs /\ bad' = {}
    /\ UNCHANGED <<archive, options, cache, phase, copied, failed, outcome>>

\* The error ends the run; the packs of v are not looked for elsewhere.
IsoFails ==
    /\ pc = "choose"
    /\ \E v \in todo : /\ IsoRefused(v) /\ Paths(v) # {}
                      /\ phase = "alternates" => PacksOnAlternate(v) # {}
    /\ Ends("iso")
    /\ UNCHANGED <<archive, options, cache>>

AskVolume(v, w) ==
    /\ pc = "choose" /\ phase = "volumes" /\ v \in todo /\ w \in Paths(v)
    /\ Ingest(v, w, PrimaryOn(v) \cap wanted)

\* Mutant of SkipVolume: the packs of a skipped volume are not retried.
SkipVolumeSilently(v) ==
    /\ pc = "choose" /\ phase = "volumes" /\ v \in todo /\ route[2] = "prompt"
    /\ todo' = todo \ {v}
    /\ UNCHANGED <<archive, options, cache, pc, phase, from, asked, queue, copied, bad, failed, outcome>>

\* RST-07
SkipVolume(v) ==
    /\ pc = "choose" /\ phase = "volumes" /\ v \in todo /\ route[2] = "prompt"
    /\ todo' = todo \ {v}
    /\ failed' = failed \cup (PrimaryOn(v) \cap wanted)
    /\ UNCHANGED <<archive, options, cache, pc, phase, from, asked, queue, copied, bad, outcome>>

\* _prune_recovered and _collect_alt_labels
VolumesDone ==
    /\ pc = "choose" /\ phase = "volumes" /\ todo = {}
    /\ failed' = verify_cache_completeness(failed)
    /\ todo' = UNION {Alternates(p) : p \in failed'}
    /\ phase' = "alternates"
    /\ UNCHANGED <<archive, options, cache, pc, from, asked, queue, copied, bad, outcome>>

AskAlternate(v, w) ==
    /\ pc = "choose" /\ phase = "alternates" /\ v \in todo /\ w \in Paths(v)
    /\ PacksOnAlternate(v) # {}
    /\ Ingest(v, w, PacksOnAlternate(v))

SkipAlternate(v) ==
    /\ pc = "choose" /\ phase = "alternates" /\ v \in todo
    /\ PacksOnAlternate(v) = {} \/ route[2] = "prompt"
    /\ todo' = todo \ {v}
    /\ UNCHANGED <<archive, options, cache, pc, phase, from, asked, queue, copied, bad, failed, outcome>>

\* _prune_recovered again, the completeness check, rustic
Finish ==
    /\ pc = "choose" /\ phase = "alternates" /\ todo = {}
    /\ Ends(IF verify_cache_completeness(failed) # {} THEN "failed"
            ELSE IF verify_cache_completeness(Packs) # {} THEN "incomplete"
            ELSE "restored")
    /\ UNCHANGED <<archive, options, cache>>

-----------------------------------------------------------------------------
(* ingest_volume, pack by pack *)

Reading(p) == pc = "ingest" /\ copied = {} /\ p \in queue

IngestKeep(p) ==
    /\ Reading(p) /\ Kept(p)
    /\ queue' = queue \ {p}
    /\ UNCHANGED <<archive, options, cache, pc, phase, todo, from, asked, copied, bad, failed, outcome>>

\* A cached file that fails its test is removed and read again.
IngestUnlink(p) ==
    /\ Reading(p) /\ cache[p] # "none" /\ ~Kept(p)
    /\ cache' = [cache EXCEPT ![p] = "none"]
    /\ UNCHANGED <<archive, options, pc, phase, todo, from, asked, queue, copied, bad, failed, outcome>>

IngestNotFound(p) ==
    /\ Reading(p) /\ cache[p] = "none" /\ disc[from][p] = "none"
    /\ queue' = queue \ {p} /\ bad' = bad \cup {p}
    /\ UNCHANGED <<archive, options, cache, pc, phase, todo, from, asked, copied, failed, outcome>>

\* copy_file ends with a rename: the copy is checked under its final name.
IngestCopy(p) ==
    /\ Reading(p) /\ cache[p] = "none" /\ disc[from][p] # "none"
    /\ cache' = [cache EXCEPT ![p] = disc[from][p]]
    /\ queue' = queue \ {p}
    /\ copied' = IF verify THEN {p} ELSE {}
    /\ UNCHANGED <<archive, options, pc, phase, todo, from, asked, bad, failed, outcome>>

\* Mutant of IngestCheck: the file that failed stays.
IngestCheckKeeps(p) ==
    /\ pc = "ingest" /\ p \in copied
    /\ copied' = {}
    /\ bad' = IF cache[p] = "good" THEN bad ELSE bad \cup {p}
    /\ UNCHANGED <<archive, options, cache, pc, phase, todo, from, asked, queue, failed, outcome>>

IngestCheck(p) ==
    /\ pc = "ingest" /\ p \in copied
    /\ copied' = {}
    /\ IF cache[p] = "good" THEN UNCHANGED <<cache, bad>>
       ELSE cache' = [cache EXCEPT ![p] = "none"] /\ bad' = bad \cup {p}
    /\ UNCHANGED <<archive, options, pc, phase, todo, from, asked, queue, failed, outcome>>

Ingested == pc = "ingest" /\ queue = {} /\ copied = {}

\* After the first disc of restore standalone the prompts ask for what is
\* missing; --volume-dir is gone through as a whole.
InitialDone ==
    /\ Ingested /\ phase = "initial"
    /\ failed' = bad
    /\ wanted' = IF route[2] = "prompt" THEN verify_cache_completeness(Packs) ELSE Packs
    /\ todo' = {v \in PickedLabels : PrimaryOn(v) \cap wanted' # {}}
    /\ pc' = "choose" /\ phase' = "volumes" /\ asked' = {} /\ bad' = {} /\ from' = 0
    /\ UNCHANGED <<archive, route, verify, runs, clean, cache, queue, copied, outcome>>

VolumeDone ==
    /\ Ingested /\ phase = "volumes"
    /\ failed' = failed \cup bad
    /\ pc' = "choose" /\ asked' = {} /\ bad' = {} /\ from' = 0
    /\ UNCHANGED <<archive, options, cache, phase, todo, queue, copied, outcome>>

\* remaining loses what the alternate was asked for and did not fail on.
AlternateDone ==
    /\ Ingested /\ phase = "alternates"
    /\ failed' = failed \ (asked \ bad)
    /\ pc' = "choose" /\ asked' = {} /\ bad' = {} /\ from' = 0
    /\ UNCHANGED <<archive, options, cache, phase, todo, queue, copied, outcome>>

-----------------------------------------------------------------------------

\* A signal, a power cut, or a disc that cannot be read: nothing catches the
\* OSError of copy_file.
Die ==
    /\ pc # "idle"
    /\ Ends("died")
    /\ UNCHANGED <<archive, options, cache>>

Begin ==
    \E r \in Routes, v \in BOOLEAN :
        \/ BeginMissing(r, v) \/ BeginExec(r, v)
        \/ \E d \in Volumes : BeginStandalone(r, d, v) \/ BeginReader(r, d, v)

Step ==
    \/ \E v \in Volumes, w \in Sources : AskVolume(v, w) \/ AskAlternate(v, w)
    \/ \E v \in Volumes : SkipVolume(v) \/ SkipAlternate(v)
    \/ IsoFails \/ VolumesDone \/ Finish
    \/ \E p \in Packs : IngestKeep(p) \/ IngestUnlink(p) \/ IngestNotFound(p)
                        \/ IngestCopy(p) \/ IngestCheck(p)
    \/ InitialDone \/ VolumeDone \/ AlternateDone

Next == Begin \/ Step \/ Die \/ NewCache \/ \E v \in Volumes : FindDisc(v)

Spec == Init /\ [][Next]_vars

-----------------------------------------------------------------------------
(* Properties *)

\* What rustic is given is what was archived, whatever discs were mounted and
\* however damaged, if packs are verified: also on a cache in which a run that
\* died or did not verify left a corrupt pack.  Only the prompts of restore
\* exec, which let a volume be skipped before its packs were looked at, need a
\* cache without such a pack.
IntactWhenVerified ==
    outcome = "restored" /\ verify /\ (clean \/ route # <<"exec", "prompt">>) =>
        \A p \in Packs : cache[p] = "good"

\* _prune_recovered's word for the packs it drops, "already present + valid in
\* the cache": with it, what a verifying run restores is intact on any cache.
PrunedAreValid == outcome = "restored" /\ verify => \A p \in Packs : cache[p] = "good"

\* With --volume-dir a restore gives up on a pack only if neither its primary
\* nor any alternate has a good file of it there.
FailsForCause ==
    outcome = "failed" /\ route[2] = "batch" =>
        \E p \in Packs : /\ cache[p] = "none"
                         /\ \A v \in Candidates(p) : \A w \in Paths(v) : disc[w][p] # "good"

\* Every required pack is in the cache or reported with its discs before the
\* completeness check: that last line of defence is never what stops a run.
NothingSlipsThrough == outcome # "incomplete"

\* Progress is kept: while a run goes on, and when it dies, no good pack leaves
\* the cache, so a later run needs no disc for it.
GoodPacksStay ==
    [][pc # "idle" => \A p \in Packs : cache[p] = "good" => cache'[p] = "good"]_vars

-----------------------------------------------------------------------------

(* The inductive invariant *)

LocalsInv ==
    /\ pc # "ingest" => asked = {} /\ queue = {} /\ copied = {} /\ bad = {}
    /\ pc = "idle" \/ phase = "initial" => failed = {}
    /\ pc = "choose" => phase # "initial"
    /\ pc # "idle" => outcome = "none" /\ get_missing_packs = {}
    /\ pc # "idle" /\ route[2] = "batch" => wanted = Packs
    /\ queue \subseteq asked \ bad /\ bad \subseteq asked
    /\ copied \subseteq asked \ (queue \cup bad)
    /\ \A p, q \in copied : p = q
    /\ \A p \in copied : verify /\ cache[p] # "none" /\ cache[p] = disc[from][p]

\* A pack may be corrupt that was just copied, or that the loop has still to
\* look at.
CacheInv ==
    pc # "idle" /\ verify /\ (clean \/ route # <<"exec", "prompt">>) =>
        \A p \in Packs \ copied :
            \/ cache[p] \in {"none", "good"} \/ p \in queue
            \/ /\ route = <<"exec", "batch">> /\ phase = "volumes"
               /\ \E v \in todo : p \in PrimaryOn(v)

\* No pack that is not in the cache is forgotten: it has failed, or it is still
\* to be asked for.
AccountInv ==
    /\ pc # "idle" => \A p \in Packs :
          \/ cache[p] # "none"
          \/ p \in failed \cup bad \cup queue
          \/ phase = "volumes" /\ \E v \in todo : p \in PrimaryOn(v) \cap wanted
    /\ pc = "ingest" => \A p \in asked : cache[p] # "none" \/ p \in bad \cup queue
    /\ pc = "ingest" /\ phase = "alternates" => asked \subseteq failed
    /\ phase = "alternates" => \A p \in failed : cache[p] = "none" \/ p \in asked \ (queue \cup bad)

Tried(p, v) == \A w \in Paths(v) : disc[w][p] # "good"

\* With --volume-dir a pack that is not in the cache was looked for in vain
\* wherever the loop has been.
CauseInv ==
    pc # "idle" /\ route[2] = "batch" =>
        /\ phase = "volumes" => \A p \in Packs : cache[p] = "none" =>
              Primary(p) \in todo \/ p \in queue \/ Tried(p, Primary(p))
        /\ phase = "volumes" => \A p \in asked : from \in Paths(Primary(p))
        /\ phase = "alternates" => \A p \in Packs : cache[p] = "none" =>
              /\ Tried(p, Primary(p))
              /\ \A v \in Alternates(p) : v \in todo \/ Tried(p, v) \/ (p \in queue /\ from \in Paths(v))
        /\ phase = "alternates" => \A p \in copied :
              /\ Tried(p, Primary(p))
              /\ \A v \in Alternates(p) : v \in todo \/ Tried(p, v) \/ from \in Paths(v)

RestoreInv == TypeOK /\ LocalsInv /\ CacheInv /\ AccountInv /\ CauseInv

=============================================================================

---------------------------- MODULE OpenCatalog ----------------------------
(***************************************************************************)
(* How a command opens the catalog: the file lock with its holder stamp    *)
(* and its timeout, the creation of the file and of the tables, and the    *)
(* schema migrations, one transaction per version.                         *)
(*                                                                         *)
(* Three kinds of process open it: writers under the lock, `volume impact',*)
(* which creates and migrates the schema without the lock, and readers,    *)
(* which do neither.  A process may die at any step; the kernel then frees *)
(* its lock and SQLite rolls its transaction back.                         *)
(***************************************************************************)
EXTENDS Integers, Sequences, FiniteSets

CONSTANTS
    Lockers,        \* processes that open through locked_connection
    Timed,          \* the lockers that give up after --lock-timeout
    Impacts,        \* processes that run `lcsas volume impact'
    Readers,        \* processes that open through _open_existing_catalog
    Rows,           \* volumes a writer may record
    Legacy,         \* schema versions a catalog may have at first
    MaxStarts       \* bound: how many commands are started

Procs == Lockers \cup Impacts \cup Readers

NoProc == "none"

ASSUME OpenAssumption ==
    /\ Timed \subseteq Lockers
    /\ Lockers \cap Impacts = {} /\ Lockers \cap Readers = {} /\ Impacts \cap Readers = {}
    /\ NoProc \notin Procs
    /\ Rows # {} /\ Legacy \subseteq Nat
    /\ MaxStarts \in Nat

CURRENT_SCHEMA_VERSION == 10

-----------------------------------------------------------------------------
(* The catalog file.  done holds the tables and columns in which versions  *)
(* differ; ref[t] is the table that the foreign key of t names.            *)

Children == {"volume_packs", "volume_copies", "session_volumes", "volume_events"}

\* The tables create_all creates in which versions differ or rows are kept,
\* in its order, and the columns each table has then.
CreateOrder == <<"volumes", "repositories", "volume_packs", "volume_copies",
                 "session_volumes", "volume_events", "key_escrow">>

Columns(t) ==
    CASE t = "volumes"         -> {"verified_at", "CONSOLIDATING"}
      [] t = "repositories"    -> {"created_at", "repo_status"}
      [] t = "volume_copies"   -> {"iso_sha256", "copy_size"}
      [] t = "session_volumes" -> {"session_size"}
      [] t = "volume_events"   -> {"RECEIPT"}
      [] OTHER                 -> {}

\* The first version that has the table or column n (2 is the oldest).
Since(n) ==
    CASE n \in {"verified_at", "created_at"}                -> 3
      [] n \in {"volume_events", "iso_sha256"}              -> 4
      [] n = "CONSOLIDATING" -> 5  [] n = "RECEIPT"     -> 6
      [] n = "session_size"  -> 7  [] n = "copy_size"   -> 8
      [] n = "key_escrow"    -> 9  [] n = "repo_status" -> 10
      [] OTHER               -> 2

Parts == UNION {{CreateOrder[i]} \cup Columns(CreateOrder[i]) : i \in DOMAIN CreateOrder}

Needs(v) == {n \in Parts : Since(n) <= v}

-----------------------------------------------------------------------------
(* SQL statements, as changes of a catalog c.                              *)

Add(c, names) == [c EXCEPT !.done = @ \cup names]

\* CREATE TABLE IF NOT EXISTS: an existing table keeps its old columns.
Create(c, t) ==
    IF t \in c.done THEN c
    ELSE [c EXCEPT !.done = @ \cup {t} \cup Columns(t),
                   !.ref = IF t \in Children THEN [@ EXCEPT ![t] = "volumes"] ELSE @]

\* ALTER TABLE ... RENAME also rewrites the foreign keys that name the table
\* (SQLite 3.26 and later, whatever PRAGMA foreign_keys says).
Rename(c, t, old) ==
    [c EXCEPT !.done = @ \ ({t} \cup Columns(t)),
              !.old = @ \cup {old},
              !.oldRows = IF t = "volumes" THEN c.rows ELSE @,
              !.rows = IF t = "volumes" THEN {} ELSE @,
              !.ref = [u \in Children |-> IF @[u] = t THEN old ELSE @[u]]]

\* DROP TABLE deletes the rows first; with foreign keys enforced that
\* cascades to the rows of volume_packs.
Drop(c, t, fkOn) ==
    [c EXCEPT !.old = @ \ {t},
              !.oldRows = IF t = "volumes_old" THEN {} ELSE @,
              !.links = IF fkOn /\ c.ref["volume_packs"] = t THEN {} ELSE @]

Record(c, v) == [c EXCEPT !.version = IF v > @ THEN v ELSE @]

\* ALTER TABLE ... ADD COLUMN with a default that is no constant is refused
\* by SQLite when the table has rows; repositories has some when packs are
\* recorded.
Refused(c, v, i) == v = 3 /\ i = 1 /\ "created_at" \notin c.done /\ c.links # {}

\* The i-th statement of each version step of migrate(), between its
\* BEGIN IMMEDIATE and its COMMIT.
MigrateTo3(c, i) ==
    IF i = 1 THEN Add(c, {"verified_at", "created_at"}) ELSE Record(c, 3)

MigrateTo4(c, i) ==
    CASE i = 1 -> Create(c, "volume_events")
      [] i = 2 -> Add(c, {"iso_sha256"})
      [] OTHER -> Record(c, 4)

MigrateTo5(c, i, fkOn) ==
    CASE i = 1 -> Rename(c, "volumes", "volumes_old")
      [] i = 2 -> Add(c, {"volumes"} \cup Columns("volumes"))
      [] i = 3 -> [c EXCEPT !.rows = c.oldRows]
      [] i = 4 -> Drop(c, "volumes_old", fkOn)
      [] OTHER -> Record(c, 5)

MigrateTo6(c, i, fkOn) ==
    CASE i = 1 -> Rename(c, "volume_events", "volume_events_old")
      [] i = 2 -> Create(c, "volume_events")
      [] i = 3 -> Drop(c, "volume_events_old", fkOn)
      [] OTHER -> Record(c, 6)

MigrateTo7(c, i) ==
    IF i = 1 THEN Add(Create(c, "session_volumes"), {"session_size"}) ELSE Record(c, 7)

MigrateTo8(c, i) ==
    IF i = 1 THEN Add(Create(c, "volume_copies"), {"copy_size"}) ELSE Record(c, 8)

MigrateTo9(c, i) ==
    IF i = 1 THEN Create(c, "key_escrow") ELSE Record(c, 9)

MigrateTo10(c, i) ==
    IF i = 1 THEN Add(Create(c, "repositories"), {"repo_status"}) ELSE Record(c, 10)

Statements(v) == CASE v = 4 -> 3 [] v = 5 -> 5 [] v = 6 -> 4 [] OTHER -> 2

Execute(c, v, i, fkOn) ==
    CASE v = 3 -> MigrateTo3(c, i)       [] v = 4 -> MigrateTo4(c, i)
      [] v = 5 -> MigrateTo5(c, i, fkOn) [] v = 6 -> MigrateTo6(c, i, fkOn)
      [] v = 7 -> MigrateTo7(c, i)       [] v = 8 -> MigrateTo8(c, i)
      [] v = 9 -> MigrateTo9(c, i)       [] v = 10 -> MigrateTo10(c, i)

-----------------------------------------------------------------------------
VARIABLES
    cat,        \* the committed catalog
    tx,         \* the catalog as the open write transaction sees it (else: first)
    txOf,       \* the process whose write transaction is open, or NoProc
    lock,       \* the process that holds the flock, or NoProc
    stamp,      \* the process the lock file names, or NoProc
    st,         \* st[p]: pc; the version read, the step and the statement
    starts,     \* commands started so far
    first       \* history: the catalog at first

vars == <<cat, tx, txOf, lock, stamp, st, starts, first>>

fileVars == <<cat, tx, txOf>>

\* A catalog written by a build of version v (0: no file yet).
CatalogOf(v) ==
    LET some == IF v = 0 THEN {} ELSE {CHOOSE r \in Rows : TRUE}
    IN  [file |-> v > 0, readonly |-> FALSE, version |-> v,
         done |-> IF v = 0 THEN {} ELSE Needs(v), old |-> {},
         ref |-> [t \in Children |-> "volumes"],
         rows |-> some, oldRows |-> {}, links |-> some]

\* A catalog of version v that was initialised and not used.
Unused(v) == [CatalogOf(v) EXCEPT !.rows = {}, !.links = {}]

\* What a build that migrated without transactions left when it died, with
\* or without the empty table it then created over the leftover.
Wedged(shadow) ==
    LET w == Rename(CatalogOf(4), "volumes", "volumes_old")
    IN  IF shadow THEN Create(w, "volumes") ELSE w

IdleProc == [pc |-> "idle", cur |-> 0, at |-> 0, i |-> 0]

Init ==
    /\ cat \in {CatalogOf(v) : v \in Legacy} \cup {Unused(v) : v \in Legacy}
               \cup {Wedged(b) : b \in BOOLEAN}
               \cup {[CatalogOf(4) EXCEPT !.readonly = TRUE]}
    /\ first = cat /\ tx = cat /\ txOf = NoProc
    /\ lock = NoProc /\ stamp = NoProc /\ starts = 0
    /\ st = [p \in Procs |-> IdleProc]

\* A command is over: with success, a refusal, an error, a timeout or the
\* death of the process, which the catalog cannot tell apart - or because
\* the catalog did not take its rows ("broken").
Ended == {"idle", "broken"}

At(p, pc)   == st[p].pc = pc

Goto(p, pc) == st' = [st EXCEPT ![p].pc = pc]

\* Leaving the command with its lock: `finally', or the process dies.
End(p, how) ==
    /\ st' = [st EXCEPT ![p] = [IdleProc EXCEPT !.pc = how]]
    /\ lock' = IF lock = p THEN NoProc ELSE lock

\* The same from inside a transaction, which SQLite rolls back.
RollBack(p) ==
    /\ txOf' = IF txOf = p THEN NoProc ELSE txOf
    /\ tx' = IF txOf = p THEN first ELSE tx
    /\ End(p, "idle")
    /\ UNCHANGED <<cat, stamp, starts, first>>

-----------------------------------------------------------------------------
(* locked_connection.                                                      *)

Start(p) ==
    /\ st[p].pc \in Ended /\ starts < MaxStarts
    /\ starts' = starts + 1
    /\ Goto(p, IF p \in Lockers THEN "lock" ELSE IF p \in Readers THEN "look" ELSE "exists")
    /\ UNCHANGED <<fileVars, lock, stamp, first>>

\* Mutant of TryLock: a shared lock.
TryLockShared(p) ==
    /\ At(p, "lock")
    /\ lock' = p /\ Goto(p, "stamp")
    /\ UNCHANGED <<fileVars, stamp, starts, first>>

\* flock with LOCK_NB; the command waits when it fails.
TryLock(p) ==
    /\ At(p, "lock")
    /\ IF lock = NoProc THEN lock' = p /\ Goto(p, "stamp") ELSE lock' = lock /\ Goto(p, "wait")
    /\ UNCHANGED <<fileVars, stamp, starts, first>>

Acquire(p) ==
    /\ At(p, "wait") /\ lock = NoProc
    /\ lock' = p /\ Goto(p, "stamp")
    /\ UNCHANGED <<fileVars, stamp, starts, first>>

\* Mutant of LockTimeout: the deadline is looked at after an attempt that
\* succeeded.
LockTimeoutLate(p) ==
    /\ At(p, "wait") /\ p \in Timed /\ lock = NoProc
    /\ End(p, "idle")
    /\ UNCHANGED <<fileVars, stamp, starts, first>>

\* CatalogLockTimeout: one more attempt failed and the deadline has passed.
LockTimeout(p) ==
    /\ At(p, "wait") /\ p \in Timed /\ lock # NoProc
    /\ End(p, "idle")
    /\ UNCHANGED <<fileVars, stamp, starts, first>>

StampHolder(p) ==
    /\ At(p, "stamp")
    /\ stamp' = p /\ Goto(p, "exists")
    /\ UNCHANGED <<fileVars, lock, starts, first>>

\* get_connection looks for the file, and creates it with O_EXCL.
Connect(p) ==
    /\ At(p, "exists")
    /\ Goto(p, IF cat.file THEN "schema" ELSE "create")
    /\ UNCHANGED <<fileVars, lock, stamp, starts, first>>

CreateFile(p) ==
    /\ At(p, "create")
    /\ IF cat.file THEN End(p, "idle") /\ cat' = cat
       ELSE Goto(p, "schema") /\ lock' = lock /\ cat' = [cat EXCEPT !.file = TRUE]
    /\ UNCHANGED <<tx, txOf, stamp, starts, first>>

-----------------------------------------------------------------------------
(* ensure_schema and create_all.  CREATE statements commit one by one.     *)

\* What follows ensure_schema: the command, with the migrated catalog ("use")
\* or with the catalog as it is ("compat").
AfterSchema(p, pc) == IF p \in Lockers THEN Goto(p, pc) /\ lock' = lock ELSE End(p, "idle")

\* _is_readonly: any error of BEGIN IMMEDIATE counts, also that another
\* process kept the database locked for all of busy_timeout.
is_readonly == cat.readonly \/ txOf # NoProc

\* Mutant of EnsureSchema: create_all that does not look for leftovers.
EnsureSchemaUnwary(p) ==
    /\ At(p, "schema")
    /\ IF cat.version > CURRENT_SCHEMA_VERSION THEN End(p, "idle")
       ELSE IF is_readonly THEN AfterSchema(p, "compat")
       ELSE Goto(p, "table") /\ lock' = lock
    /\ UNCHANGED <<fileVars, stamp, starts, first>>

EnsureSchema(p) ==
    /\ At(p, "schema")
    /\ IF cat.version > CURRENT_SCHEMA_VERSION THEN End(p, "idle")
       ELSE IF is_readonly THEN AfterSchema(p, "compat")
       ELSE IF cat.old # {} THEN End(p, "idle")
       ELSE Goto(p, "table") /\ lock' = lock
    /\ UNCHANGED <<fileVars, stamp, starts, first>>

\* The tables that are not there, as places in CreateOrder.
MissingTables == {i \in DOMAIN CreateOrder : CreateOrder[i] \notin cat.done}

CreateTable(p) ==
    LET next == CreateOrder[CHOOSE i \in MissingTables : \A j \in MissingTables : i <= j]
    IN  /\ At(p, "table")
        /\ IF MissingTables = {} THEN Goto(p, "count") /\ cat' = cat
           ELSE txOf = NoProc /\ cat' = Create(cat, next) /\ st' = st
        /\ UNCHANGED <<tx, txOf, lock, stamp, starts, first>>

CountVersions(p) ==
    /\ At(p, "count")
    /\ Goto(p, IF cat.version = 0 THEN "insert" ELSE "migrate")
    /\ UNCHANGED <<fileVars, lock, stamp, starts, first>>

InsertVersion(p) ==
    /\ At(p, "insert") /\ txOf = NoProc
    /\ cat' = Record(cat, CURRENT_SCHEMA_VERSION)
    /\ Goto(p, "migrate")
    /\ UNCHANGED <<tx, txOf, lock, stamp, starts, first>>

-----------------------------------------------------------------------------
(* migrate: the version is read once; every later step then runs, whatever *)
(* another process has migrated meanwhile.                                 *)

ReadVersion(p) ==
    /\ At(p, "migrate") /\ st[p].cur = 0
    /\ IF cat.old # {} THEN End(p, "idle")
       ELSE /\ lock' = lock
            /\ st' = [st EXCEPT ![p].cur = cat.version,
                                ![p].at = IF cat.version < 3 THEN 3 ELSE cat.version + 1]
    /\ UNCHANGED <<fileVars, stamp, starts, first>>

BeginImmediate(p) ==
    /\ At(p, "migrate") /\ st[p].cur # 0 /\ st[p].at <= CURRENT_SCHEMA_VERSION
    /\ txOf = NoProc
    /\ txOf' = p /\ tx' = cat
    /\ st' = [st EXCEPT ![p].pc = "statement", ![p].i = 1]
    /\ UNCHANGED <<cat, lock, stamp, starts, first>>

\* Mutant of RunStatement: statements that commit one by one (the migrations before FMA-07).
RunStatementAutocommit(p) ==
    /\ At(p, "statement") /\ st[p].i <= Statements(st[p].at)
    /\ tx' = Execute(tx, st[p].at, st[p].i, st[p].at \notin {5, 6})
    /\ cat' = tx'
    /\ st' = [st EXCEPT ![p].i = @ + 1]
    /\ UNCHANGED <<txOf, lock, stamp, starts, first>>

\* Mutant of RunStatement: PRAGMA foreign_keys=OFF inside the transaction, where it does nothing.
RunStatementEnforced(p) ==
    /\ At(p, "statement") /\ st[p].i <= Statements(st[p].at)
    /\ tx' = Execute(tx, st[p].at, st[p].i, TRUE)
    /\ st' = [st EXCEPT ![p].i = @ + 1]
    /\ UNCHANGED <<cat, txOf, lock, stamp, starts, first>>

\* foreign_keys is OFF around the two steps that recreate a table.
RunStatement(p) ==
    /\ At(p, "statement") /\ st[p].i <= Statements(st[p].at) /\ ~Refused(tx, st[p].at, st[p].i)
    /\ tx' = Execute(tx, st[p].at, st[p].i, st[p].at \notin {5, 6})
    /\ st' = [st EXCEPT ![p].i = @ + 1]
    /\ UNCHANGED <<cat, txOf, lock, stamp, starts, first>>

\* `except BaseException': the step is rolled back and the error raised.
StatementRefused(p) ==
    /\ At(p, "statement") /\ Refused(tx, st[p].at, st[p].i)
    /\ RollBack(p)

Commit(p) ==
    /\ At(p, "statement") /\ st[p].i > Statements(st[p].at)
    /\ cat' = tx /\ txOf' = NoProc /\ tx' = first
    /\ st' = [st EXCEPT ![p].pc = "migrate", ![p].at = @ + 1, ![p].i = 0]
    /\ UNCHANGED <<lock, stamp, starts, first>>

Migrated(p) ==
    /\ At(p, "migrate") /\ st[p].cur # 0 /\ st[p].at > CURRENT_SCHEMA_VERSION
    /\ AfterSchema(p, "use")
    /\ UNCHANGED <<fileVars, stamp, starts, first>>

\* A statement that has to write finds the database locked for all of
\* busy_timeout.
Busy(p) ==
    /\ txOf # NoProc
    /\ \/ At(p, "table") /\ MissingTables # {}
       \/ At(p, "insert")
       \/ At(p, "migrate") /\ st[p].cur # 0 /\ st[p].at <= CURRENT_SCHEMA_VERSION
    /\ End(p, "idle")
    /\ UNCHANGED <<fileVars, stamp, starts, first>>

-----------------------------------------------------------------------------
(* What follows: a writer records a volume and its packs in one commit.    *)
(* SQLite refuses a row for a table that is not there, and one whose       *)
(* foreign key names such a table.                                         *)

Use(p) ==
    /\ st[p].pc \in {"use", "compat"} /\ txOf = NoProc
    /\ \/ /\ ~cat.readonly /\ {"volumes", "volume_packs"} \subseteq cat.done
          /\ cat.ref["volume_packs"] = "volumes"
          /\ \E r \in Rows : cat' = [cat EXCEPT !.rows = @ \cup {r}, !.links = @ \cup {r}]
          /\ End(p, "idle")
       \/ /\ ~cat.readonly /\ cat.ref["volume_packs"] # "volumes"
          /\ cat' = cat /\ End(p, "broken")
       \/ /\ cat.readonly \/ ~({"volumes", "volume_packs"} \subseteq cat.done)
          /\ cat' = cat /\ End(p, "idle")
    /\ UNCHANGED <<tx, txOf, stamp, starts, first>>

\* _open_existing_catalog: no lock, and the file is never created.
Look(p) ==
    /\ At(p, "look")
    /\ End(p, "idle")
    /\ UNCHANGED <<fileVars, stamp, starts, first>>

\* An SQL error (a full disk) rolls back and leaves; when the process is
\* killed the kernel frees the lock and SQLite rolls back.
Leave(p) == st[p].pc \notin Ended /\ RollBack(p)

\* The repair by hand that the refusal asks for, with no command running:
\* drop the empty table, if any, and rename the leftover back.
Repair ==
    /\ \A p \in Procs : st[p].pc \in Ended
    /\ "volumes_old" \in cat.old /\ cat.rows = {}
    /\ cat' = [cat EXCEPT !.old = @ \ {"volumes_old"}, !.rows = cat.oldRows, !.oldRows = {},
                          !.done = (@ \ Columns("volumes")) \cup {"volumes", "verified_at"},
                          !.ref = [u \in Children |-> IF @[u] = "volumes_old" THEN "volumes" ELSE @[u]]]
    /\ UNCHANGED <<tx, txOf, lock, stamp, st, starts, first>>

\* The steps of a command up to the work it is for.
Opening(p) ==
    \/ TryLock(p) \/ Acquire(p) \/ LockTimeout(p) \/ StampHolder(p)
    \/ Connect(p) \/ CreateFile(p)
    \/ EnsureSchema(p) \/ CreateTable(p) \/ CountVersions(p) \/ InsertVersion(p)
    \/ ReadVersion(p) \/ BeginImmediate(p) \/ RunStatement(p) \/ StatementRefused(p)
    \/ Commit(p) \/ Migrated(p) \/ Busy(p) \/ Look(p)

Next ==
    \/ \E p \in Procs : Start(p) \/ Opening(p) \/ Use(p) \/ Leave(p)
    \/ Repair

Spec == Init /\ [][Next]_vars

\* A process that opens the catalog is scheduled again and again, and its
\* timeouts run out.  The work itself may take for ever: it asks its owner,
\* under the lock, to confirm and to change discs.
FairSpec == Spec /\ \A p \in Procs : WF_vars(Opening(p))

-----------------------------------------------------------------------------
(* Properties.                                                             *)

TypeOK ==
    /\ txOf \in Procs \cup {NoProc} /\ lock \in Lockers \cup {NoProc}
    /\ stamp \in Lockers \cup {NoProc} /\ starts \in 0..MaxStarts
    /\ st \in [Procs -> [pc : Ended \cup {"lock", "wait", "stamp", "exists", "create", "schema",
                                  "table", "count", "insert", "migrate", "statement", "use", "compat",
                                  "look"},
                         cur : Nat, at : Nat, i : Nat]]

Holding == {"stamp", "exists", "create", "schema", "table", "count", "insert",
            "migrate", "statement", "use", "compat"}

\* The lock has one owner, who is one of the lockers that are past it, and
\* each of those owns it; past the stamp the lock file names the owner, who
\* may have been killed and followed by another (FMA: the waiter is told
\* whom it waits for).
LockInv ==
    /\ TypeOK
    /\ \A p \in Lockers : st[p].pc \in Holding <=> lock = p
    /\ \A p \in Lockers : st[p].pc \in Holding \ {"stamp"} => stamp = p

\* The committed catalog has everything its version promises, at any moment
\* of any migration, also of two at once: `volume impact' migrates without
\* the lock and repeats steps another process has done (FMA-07).
ShapeAsVersion == cat.old = {} => (cat.version > 0 => Needs(cat.version) \subseteq cat.done)

\* When ensure_schema has created and migrated the catalog, the command finds
\* it at the current version, without leftovers and with every table there,
\* whatever others have done meanwhile.
UsesCurrent ==
    \A p \in Lockers : At(p, "use") =>
        /\ ~cat.readonly /\ cat.version = CURRENT_SCHEMA_VERSION /\ cat.old = {}
        /\ Parts \subseteq cat.done

\* ensure_schema returns "CURRENT_SCHEMA_VERSION on writable catalogs (created
\* or migrated in place), or the existing older version on read-only
\* catalogs": no command goes on with a writable catalog of an older version.
WritableIsMigrated ==
    \A p \in Lockers : st[p].pc \in {"use", "compat"} /\ ~cat.readonly =>
        cat.version = CURRENT_SCHEMA_VERSION

\* Only the interrupted migration of an older build leaves a leftover table.
NoNewLeftover == cat.old # {} => cat = first

SchemaInv == ShapeAsVersion /\ UsesCurrent /\ NoNewLeftover

\* No step loses a committed volume or the packs recorded on it: not the
\* tables that are renamed, recreated and dropped, not a death in between,
\* not a row committed while another process migrates.
RowsKept ==
    [][/\ cat.rows \cup cat.oldRows \subseteq cat'.rows \cup cat'.oldRows
       /\ cat.links \subseteq cat'.links]_vars

\* A catalog of a newer build, a read-only one and a wedged one are never
\* written; only the owner's repair ends the last.
Foreign(c) == c.version > CURRENT_SCHEMA_VERSION \/ c.readonly

Untouched ==
    [][/\ Foreign(cat) => cat' = cat
       /\ cat.old # {} /\ cat' # cat => \A p \in Procs : st[p].pc \in Ended /\ st' = st]_vars

\* Where a command may stay: at its work, and without a timeout at the lock.
Rests(p) == Ended \cup {"use", "compat"} \cup (IF p \in Timed THEN {} ELSE {"wait"})

\* Whoever starts a command gets an answer: the catalog, a refusal, an error
\* or, with --lock-timeout, a timeout, although others work for ever, die in
\* their transactions and start anew.  Only without a timeout does it wait as
\* long as the holder works.  (A reader takes two steps and waits for nobody.)
Answered == \A p \in Lockers \cup Impacts : (st[p].pc \notin Rests(p)) ~> (st[p].pc \in Rests(p))

=============================================================================

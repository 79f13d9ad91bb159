------------------------- MODULE OpenCatalogProofs -------------------------
(***************************************************************************)
(* Proofs about OpenCatalog for any number of processes, any catalog that  *)
(* an earlier build may have left and any number of commands: who owns the *)
(* lock, what the committed catalog promises at any moment of any          *)
(* migration, and that no step loses a row or writes a catalog that is not *)
(* this build's to write.                                                  *)
(*                                                                         *)
(* Everything rests on what a write transaction holds between two of its   *)
(* statements (TxInv), which says how far the copy has come from the       *)
(* committed catalog, and on what a process has found out by the time it   *)
(* reaches each point of ensure_schema (KnowsInv).                         *)
(***************************************************************************)
EXTENDS OpenCatalog, TLAPS

Tables == {"volumes", "repositories", "volume_packs", "volume_copies",
           "session_volumes", "volume_events", "key_escrow"}

Leftovers == {"volumes_old", "volume_events_old"}

Refs == [Children -> {"volumes", "volumes_old"}]

Catalogs == [file : BOOLEAN, readonly : BOOLEAN, version : Nat, done : SUBSET Parts,
             old : SUBSET Leftovers, ref : Refs,
             rows : SUBSET Rows, oldRows : SUBSET Rows, links : SUBSET Rows]

-----------------------------------------------------------------------------
(* The inductive invariant.                                                *)

\* Only lockers are ever at the lock, and only they use the catalog.
OnlyLockers ==
    \A p \in Procs : st[p].pc \in {"lock", "wait", "stamp", "use", "compat"} => p \in Lockers

\* The type invariant, the lock and its stamp.
LockIInv == LockInv /\ OnlyLockers

\* The catalog, the copy in the transaction and the catalog at first are
\* catalogs; the transaction belongs to the process between its statements.
CatalogType ==
    /\ cat \in Catalogs /\ tx \in Catalogs /\ first \in Catalogs
    /\ \A p \in Procs : At(p, "statement") <=> txOf = p

\* A catalog without leftovers keeps no renamed rows and has what its
\* version promises, where one without a version was made table by table by
\* this build; one with leftovers is what the older build left.
Sound(c) ==
    /\ c.old = {} => c.oldRows = {} /\ Needs(c.version) \subseteq c.done
    /\ c.version = 0 => \A t \in Tables \cap c.done : Columns(t) \subseteq c.done
    /\ ~c.file => c.version = 0 /\ ~c.readonly /\ c.old = {}

LeftByOlder(c) ==
    /\ c.file /\ c.version = 4 /\ ~c.readonly /\ c.old = {"volumes_old"}
    /\ Needs(4) \ {"volumes", "verified_at"} \subseteq c.done

CatalogInv ==
    /\ Sound(cat) /\ (cat.old = {} \/ cat = first)
    /\ first.old # {} => LeftByOlder(first)

\* What a process in state s knows of the committed catalog c when it is past
\* the checks of ensure_schema, past create_all, about to insert the version,
\* on its way from one version to the next, and at its work: who took the
\* catalog for read-only because another process migrated it works on one
\* that has no leftovers, of whatever version.
Knows(s, c) ==
    /\ s.pc \in {"schema", "table", "count", "insert", "migrate", "statement", "use", "compat"} => c.file
    /\ s.pc = "compat" => c.readonly \/ (c.version <= CURRENT_SCHEMA_VERSION /\ c.old = {})
    /\ s.pc \in {"table", "count", "insert", "migrate", "statement"} =>
           ~c.readonly /\ c.version <= CURRENT_SCHEMA_VERSION /\ c.old = {}
    /\ s.pc \in {"count", "insert", "migrate", "statement"} => Tables \subseteq c.done
    /\ s.pc = "insert" => Parts \subseteq c.done
    /\ s.pc \in {"migrate", "statement"} => c.version > 0
    /\ s.pc \notin {"migrate", "statement", "use"} => s.cur = 0
    /\ s.pc \in {"migrate", "statement"} /\ s.cur # 0 =>
           /\ s.at \in 3..CURRENT_SCHEMA_VERSION + 1
           /\ s.at = 3 \/ c.version >= s.at - 1
    /\ s.pc = "statement" => s.cur # 0 /\ s.at <= CURRENT_SCHEMA_VERSION
    /\ s.pc = "use" => ~c.readonly /\ c.version = CURRENT_SCHEMA_VERSION /\ c.old = {}

KnowsInv == \A p \in Procs : Knows(st[p], cat)

\* The tables and columns that version v has first.
New(v) == {n \in Parts : Since(n) = v}

\* What the copy t of catalog c holds before the i-th statement of the step
\* to version v: the rows of the table that is being recreated wait in the
\* renamed one, which is dropped again before the version is recorded.
Renamed(v, i) ==
    IF v = 5 /\ i \in 2..4 THEN {"volumes_old"}
    ELSE IF v = 6 /\ i \in 2..3 THEN {"volume_events_old"} ELSE {}

Missing(v, i) ==
    IF v = 5 /\ i = 2 THEN {"volumes"} \cup Columns("volumes")
    ELSE IF v = 6 /\ i = 2 THEN {"volume_events"} \cup Columns("volume_events") ELSE {}

Copy(c, t, v, i) ==
    /\ t.file = c.file /\ t.readonly = c.readonly /\ t.links = c.links
    /\ t.version = IF i > Statements(v) /\ v > c.version THEN v ELSE c.version
    /\ t.old = Renamed(v, i)
    /\ t.rows = IF v = 5 /\ i \in 2..3 THEN {} ELSE c.rows
    /\ t.oldRows = IF v = 5 /\ i \in 2..4 THEN c.rows ELSE {}
    /\ c.done \ Missing(v, i) \subseteq t.done /\ t.done \cap Missing(v, i) = {}
    /\ i >= Statements(v) \/ (v \in {5, 6} /\ i >= 3) => New(v) \subseteq t.done
    /\ v = 4 /\ i = 2 => "volume_events" \in t.done

TxInv ==
    \A p \in Procs : At(p, "statement") =>
        /\ st[p].i \in 1..Statements(st[p].at) + 1
        /\ Copy(cat, tx, st[p].at, st[p].i)

SchemaIInv == CatalogType /\ CatalogInv /\ KnowsInv /\ TxInv

IInv == LockIInv /\ SchemaIInv

-----------------------------------------------------------------------------
(* Moves of a process.                                                     *)

ProcStates == [pc : Ended \cup {"lock", "wait", "stamp", "exists", "create", "schema", "table",
                                "count", "insert", "migrate", "statement", "use", "compat", "look"},
               cur : Nat, at : Nat, i : Nat]

\* p alone moves, to point pc, with these counters.
Moves(p, pc, cur, at, i) ==
    /\ st' \in [Procs -> ProcStates]
    /\ \A q \in Procs \ {p} : st'[q] = st[q]
    /\ st'[p].pc = pc /\ st'[p].cur = cur /\ st'[p].at = at /\ st'[p].i = i

\* Goto changes the point of one process, and nothing else of it.
LEMMA GotoMoves ==
    ASSUME TypeOK, NEW p \in Procs, NEW pc,
           pc \in {"lock", "wait", "stamp", "exists", "create", "schema", "table",
                   "count", "insert", "migrate", "statement", "use", "compat", "look"},
           Goto(p, pc)
    PROVE  Moves(p, pc, st[p].cur, st[p].at, st[p].i)
  BY DEF Goto, Moves, TypeOK, ProcStates

\* End resets one process.
LEMMA EndMoves ==
    ASSUME TypeOK, NEW p \in Procs, NEW how \in Ended, End(p, how)
    PROVE  Moves(p, how, 0, 0, 0)
  BY DEF End, Moves, TypeOK, ProcStates, IdleProc, Ended

\* The four steps of a migration move one process as their counters say.
LEMMA MigrateMoves ==
    ASSUME TypeOK, NEW p \in Procs, cat.version \in Nat
    PROVE  /\ ReadVersion(p) /\ cat.old = {} =>
                  Moves(p, "migrate", cat.version, IF cat.version < 3 THEN 3 ELSE cat.version + 1, st[p].i)
           /\ BeginImmediate(p) => Moves(p, "statement", st[p].cur, st[p].at, 1)
           /\ RunStatement(p) => Moves(p, "statement", st[p].cur, st[p].at, st[p].i + 1)
           /\ Commit(p) => Moves(p, "migrate", st[p].cur, st[p].at + 1, 0)
  <1>1. ReadVersion(p) /\ cat.old = {} =>
            Moves(p, "migrate", cat.version, IF cat.version < 3 THEN 3 ELSE cat.version + 1, st[p].i)
    <2> DEFINE v == cat.version
               at == IF v < 3 THEN 3 ELSE v + 1
    <2>1. v \in Nat /\ at \in Nat
      OBVIOUS
    <2> HIDE DEF v, at
    <2>2. ASSUME At(p, "migrate"), st' = [st EXCEPT ![p].cur = v, ![p].at = at]
          PROVE  Moves(p, "migrate", v, at, st[p].i)
      BY <2>1, <2>2 DEF Moves, TypeOK, ProcStates, At
    <2> QED BY <2>2 DEF ReadVersion, v, at
  <1>2. BeginImmediate(p) => Moves(p, "statement", st[p].cur, st[p].at, 1)
    <2>1. ASSUME st' = [st EXCEPT ![p].pc = "statement", ![p].i = 1]
          PROVE  Moves(p, "statement", st[p].cur, st[p].at, 1)
      BY <2>1 DEF Moves, TypeOK, ProcStates
    <2> QED BY <2>1 DEF BeginImmediate
  <1>3. RunStatement(p) => Moves(p, "statement", st[p].cur, st[p].at, st[p].i + 1)
    BY DEF RunStatement, Moves, TypeOK, ProcStates, At
  <1>4. Commit(p) => Moves(p, "migrate", st[p].cur, st[p].at + 1, 0)
    BY DEF Commit, Moves, TypeOK, ProcStates
  <1> QED BY <1>1, <1>2, <1>3, <1>4

\* AfterSchema goes on to use the catalog or ends the command.
LEMMA AfterSchemaMoves ==
    ASSUME TypeOK, NEW p \in Procs, NEW pc \in {"use", "compat"}, AfterSchema(p, pc)
    PROVE  \/ /\ p \in Lockers /\ lock' = lock
              /\ Moves(p, pc, st[p].cur, st[p].at, st[p].i)
           \/ /\ Moves(p, "idle", 0, 0, 0)
              /\ lock' = IF lock = p THEN NoProc ELSE lock
  BY GotoMoves, EndMoves DEF AfterSchema, End, Ended

-----------------------------------------------------------------------------
(* The lock.                                                               *)

\* At first nobody holds the lock.
LEMMA LockInit == Init => LockIInv
  BY OpenAssumption DEF Init, LockIInv, LockInv, TypeOK, OnlyLockers, IdleProc, Ended, Holding, Procs

\* A process that moves between two points on the same side of the lock.
LEMMA LockStays ==
    ASSUME LockIInv, NEW p \in Procs, NEW pc, NEW cur, NEW at, NEW i, Moves(p, pc, cur, at, i),
           lock' = lock, stamp' = stamp, txOf' \in Procs \cup {NoProc}, starts' \in 0..MaxStarts,
           pc \in Holding <=> st[p].pc \in Holding,
           pc = "stamp" <=> st[p].pc = "stamp",
           pc \in {"lock", "wait", "stamp", "use", "compat"} => p \in Lockers
    PROVE  LockIInv'
  BY OpenAssumption DEF LockIInv, LockInv, TypeOK, OnlyLockers, Moves, ProcStates, Holding, Procs

\* A process that ends, with or without the lock.
LEMMA LockEnds ==
    ASSUME LockIInv, NEW p \in Procs, NEW how \in Ended, Moves(p, how, 0, 0, 0),
           lock' = (IF lock = p THEN NoProc ELSE lock), stamp' = stamp,
           txOf' \in Procs \cup {NoProc}, starts' \in 0..MaxStarts
    PROVE  LockIInv'
  BY OpenAssumption DEF LockIInv, LockInv, TypeOK, OnlyLockers, Moves, ProcStates, Holding, Procs, Ended

\* A process that takes the free lock.
LEMMA LockTaken ==
    ASSUME LockIInv, NEW p \in Lockers, lock = NoProc, lock' = p, stamp' = stamp, NEW cur, NEW at, NEW i,
           Moves(p, "stamp", cur, at, i), txOf' = txOf, starts' = starts
    PROVE  LockIInv'
  BY OpenAssumption DEF LockIInv, LockInv, TypeOK, OnlyLockers, Moves, ProcStates, Holding, Procs

\* The lock's invariant survives every step of every process: whoever is
\* past the lock holds it, whatever the others do and however they end.
LEMMA LockStep ==
    ASSUME LockIInv, cat.version \in Nat, [Next]_vars
    PROVE  LockIInv'
  <1>t. TypeOK /\ txOf \in Procs \cup {NoProc} /\ starts \in 0..MaxStarts /\ cat.version \in Nat
    BY DEF LockIInv, LockInv, TypeOK
  <1>l. \A p \in Procs : st[p].pc \in {"lock", "wait", "stamp", "use", "compat"} => p \in Lockers
    BY DEF LockIInv, OnlyLockers
  <1>e. "idle" \in Ended /\ "broken" \in Ended
    BY DEF Ended
  <1>1. ASSUME NEW p \in Procs, Start(p) PROVE LockIInv'
    <2> DEFINE pc == IF p \in Lockers THEN "lock" ELSE IF p \in Readers THEN "look" ELSE "exists"
    <2>1. Moves(p, pc, st[p].cur, st[p].at, st[p].i)
      BY <1>1, <1>t, GotoMoves DEF Start
    <2>2. st[p].pc \in Ended /\ txOf' = txOf /\ starts' \in 0..MaxStarts /\ lock' = lock /\ stamp' = stamp
      BY <1>1, <1>t, OpenAssumption DEF Start, fileVars
    <2>3. CASE p \in Lockers
      BY <2>1, <2>2, <2>3, <1>t, LockStays DEF Holding, Ended
    <2>4. CASE p \notin Lockers
      <3>1. \A q \in Procs \ {p} : st'[q] = st[q]
        BY <2>1 DEF Moves
      <3>2. st'[p].pc \in {"look", "exists"} /\ st' \in [Procs -> ProcStates]
        BY <2>1, <2>4 DEF Moves
      <3> QED
        BY <3>1, <3>2, <2>2, <2>4, <1>t, OpenAssumption
        DEF LockIInv, LockInv, TypeOK, OnlyLockers, ProcStates, Holding, Procs
    <2> QED BY <2>3, <2>4
  <1>2. ASSUME NEW p \in Procs, TryLock(p) PROVE LockIInv'
    <2>1. CASE lock = NoProc
      BY <1>2, <2>1, <1>t, <1>l, GotoMoves, LockTaken DEF TryLock, At, fileVars
    <2>2. CASE lock # NoProc
      BY <1>2, <2>2, <1>t, <1>l, GotoMoves, LockStays DEF TryLock, At, fileVars, Holding
    <2> QED BY <2>1, <2>2
  <1>3. ASSUME NEW p \in Procs, Acquire(p) PROVE LockIInv'
    BY <1>3, <1>t, <1>l, GotoMoves, LockTaken DEF Acquire, At, fileVars
  <1>4. ASSUME NEW p \in Procs, StampHolder(p) PROVE LockIInv'
    <2>1. Moves(p, "exists", st[p].cur, st[p].at, st[p].i) /\ p \in Lockers /\ st[p].pc = "stamp"
      BY <1>4, <1>t, <1>l, GotoMoves DEF StampHolder, At
    <2> QED
      BY <1>4, <2>1, <1>t, OpenAssumption
      DEF StampHolder, fileVars, Moves, LockIInv, LockInv, TypeOK, OnlyLockers, ProcStates, Holding, Procs
  <1>5. ASSUME NEW p \in Procs, LockTimeout(p) \/ Look(p) \/ Busy(p) PROVE LockIInv'
    BY <1>5, <1>t, <1>e, EndMoves, LockEnds DEF LockTimeout, Look, Busy, End, fileVars
  <1>6. ASSUME NEW p \in Procs, Leave(p) \/ StatementRefused(p) PROVE LockIInv'
    BY <1>6, <1>t, <1>e, EndMoves, LockEnds DEF Leave, StatementRefused, RollBack, End
  <1>7. ASSUME NEW p \in Procs, Connect(p) PROVE LockIInv'
    BY <1>7, <1>t, GotoMoves, LockStays DEF Connect, At, fileVars, Holding
  <1>8. ASSUME NEW p \in Procs, CreateFile(p) PROVE LockIInv'
    <2>1. CASE cat.file
      BY <1>8, <2>1, <1>t, <1>e, EndMoves, LockEnds DEF CreateFile, End
    <2>2. CASE ~cat.file
      BY <1>8, <2>2, <1>t, GotoMoves, LockStays DEF CreateFile, At, Holding
    <2> QED BY <2>1, <2>2
  <1>9. ASSUME NEW p \in Procs, EnsureSchema(p) PROVE LockIInv'
    <2>1. CASE End(p, "idle")
      BY <1>9, <2>1, <1>t, <1>e, EndMoves, LockEnds DEF EnsureSchema, End, fileVars
    <2>2. CASE AfterSchema(p, "compat")
      <3>1. CASE Moves(p, "compat", st[p].cur, st[p].at, st[p].i) /\ p \in Lockers /\ lock' = lock
        BY <1>9, <3>1, <1>t, LockStays DEF EnsureSchema, At, fileVars, Holding
      <3>2. CASE Moves(p, "idle", 0, 0, 0) /\ lock' = IF lock = p THEN NoProc ELSE lock
        BY <1>9, <3>2, <1>t, <1>e, LockEnds DEF EnsureSchema, fileVars
      <3> QED BY <2>2, <3>1, <3>2, <1>t, AfterSchemaMoves
    <2>3. CASE Goto(p, "table") /\ lock' = lock
      BY <1>9, <2>3, <1>t, GotoMoves, LockStays DEF EnsureSchema, At, fileVars, Holding
    <2> QED BY <1>9, <2>1, <2>2, <2>3 DEF EnsureSchema
  <1>10. ASSUME NEW p \in Procs, CreateTable(p) PROVE LockIInv'
    <2>1. CASE Goto(p, "count")
      BY <1>10, <2>1, <1>t, GotoMoves, LockStays DEF CreateTable, At, Holding
    <2>2. CASE st' = st
      BY <1>10, <2>2 DEF CreateTable, LockIInv, LockInv, TypeOK, OnlyLockers
    <2> QED BY <1>10, <2>1, <2>2 DEF CreateTable
  <1>11. ASSUME NEW p \in Procs, CountVersions(p) PROVE LockIInv'
    BY <1>11, <1>t, GotoMoves, LockStays DEF CountVersions, At, fileVars, Holding
  <1>12. ASSUME NEW p \in Procs, InsertVersion(p) PROVE LockIInv'
    BY <1>12, <1>t, GotoMoves, LockStays DEF InsertVersion, At, fileVars, Holding
  <1>13. ASSUME NEW p \in Procs, ReadVersion(p) PROVE LockIInv'
    <2>1. CASE cat.old # {}
      BY <1>13, <2>1, <1>t, <1>e, EndMoves, LockEnds DEF ReadVersion, End, fileVars
    <2>2. CASE cat.old = {}
      BY <1>13, <2>2, <1>t, MigrateMoves, LockStays DEF ReadVersion, At, fileVars, Holding
    <2> QED BY <2>1, <2>2
  <1>14. ASSUME NEW p \in Procs, BeginImmediate(p) PROVE LockIInv'
    <2>1. Moves(p, "statement", st[p].cur, st[p].at, 1)
      BY <1>14, <1>t, MigrateMoves
    <2>2. txOf' \in Procs \cup {NoProc} /\ st[p].pc = "migrate"
      BY <1>14 DEF BeginImmediate, At
    <2> QED
      BY <1>14, <2>1, <2>2, <1>t, LockStays DEF BeginImmediate, Holding
  <1>15. ASSUME NEW p \in Procs, RunStatement(p) PROVE LockIInv'
    <2>1. Moves(p, "statement", st[p].cur, st[p].at, st[p].i + 1) /\ st[p].pc = "statement"
      BY <1>15, <1>t, MigrateMoves DEF RunStatement, At
    <2> QED
      BY <1>15, <2>1, <1>t, LockStays DEF RunStatement, Holding
  <1>16. ASSUME NEW p \in Procs, Commit(p) PROVE LockIInv'
    BY <1>16, <1>t, MigrateMoves, LockStays DEF Commit, At, Holding
  <1>17. ASSUME NEW p \in Procs, Migrated(p) PROVE LockIInv'
    <2>1. CASE Moves(p, "use", st[p].cur, st[p].at, st[p].i) /\ p \in Lockers /\ lock' = lock
      BY <1>17, <2>1, <1>t, LockStays DEF Migrated, At, fileVars, Holding
    <2>2. CASE Moves(p, "idle", 0, 0, 0) /\ lock' = IF lock = p THEN NoProc ELSE lock
      BY <1>17, <2>2, <1>t, <1>e, LockEnds DEF Migrated, fileVars
    <2> QED BY <1>17, <2>1, <2>2, <1>t, AfterSchemaMoves DEF Migrated
  <1>18. ASSUME NEW p \in Procs, Use(p) PROVE LockIInv'
    <2>1. PICK how \in Ended : End(p, how)
      BY <1>18, <1>e DEF Use
    <2> QED
      BY <1>18, <2>1, <1>t, EndMoves, LockEnds DEF Use, End
  <1>19. CASE Repair
    BY <1>19 DEF Repair, LockIInv, LockInv, TypeOK, OnlyLockers
  <1>20. CASE UNCHANGED vars
    BY <1>20 DEF vars, LockIInv, LockInv, TypeOK, OnlyLockers
  <1> QED
    BY <1>1, <1>2, <1>3, <1>4, <1>5, <1>6, <1>7, <1>8, <1>9, <1>10, <1>11, <1>12, <1>13, <1>14,
       <1>15, <1>16, <1>17, <1>18, <1>19, <1>20 DEF Next, Opening

-----------------------------------------------------------------------------
(* The schema: what the versions and the statements are.                   *)

\* The columns of each table.
LEMMA ColumnsAre ==
    /\ Columns("volumes") = {"verified_at", "CONSOLIDATING"}
    /\ Columns("repositories") = {"created_at", "repo_status"}
    /\ Columns("volume_packs") = {}
    /\ Columns("volume_copies") = {"iso_sha256", "copy_size"}
    /\ Columns("session_volumes") = {"session_size"}
    /\ Columns("volume_events") = {"RECEIPT"}
    /\ Columns("key_escrow") = {}
  BY DEF Columns

\* The tables and columns, by name.
LEMMA PartsAre ==
    Parts = Tables \cup {"verified_at", "CONSOLIDATING", "created_at", "repo_status",
                         "iso_sha256", "copy_size", "session_size", "RECEIPT"}
  <1>1. DOMAIN CreateOrder = 1..7
    BY DEF CreateOrder
  <1>2. 1..7 = {1, 2, 3, 4, 5, 6, 7}
    OBVIOUS
  <1>3. /\ CreateOrder[1] = "volumes" /\ CreateOrder[2] = "repositories"
        /\ CreateOrder[3] = "volume_packs" /\ CreateOrder[4] = "volume_copies"
        /\ CreateOrder[5] = "session_volumes" /\ CreateOrder[6] = "volume_events"
        /\ CreateOrder[7] = "key_escrow"
    BY DEF CreateOrder
  <1>4. Parts = UNION {{t} \cup Columns(t) : t \in Tables}
    <2>1. {{CreateOrder[i]} \cup Columns(CreateOrder[i]) : i \in {1, 2, 3, 4, 5, 6, 7}}
             = {{t} \cup Columns(t) : t \in Tables}
      BY <1>3 DEF Tables
    <2> QED BY <1>1, <1>2, <2>1 DEF Parts
  <1> QED BY <1>4, ColumnsAre DEF Tables

\* What each version adds.
LEMMA NewAre ==
    /\ New(3) = {"verified_at", "created_at"} /\ New(4) = {"volume_events", "iso_sha256"}
    /\ New(5) = {"CONSOLIDATING"} /\ New(6) = {"RECEIPT"} /\ New(7) = {"session_size"}
    /\ New(8) = {"copy_size"} /\ New(9) = {"key_escrow"} /\ New(10) = {"repo_status"}
  BY PartsAre DEF New, Since, Tables

\* The first versions run from 2 to 10, and 2 has no columns of its own.
LEMMA SinceRange == \A n \in Parts : Since(n) \in 2..10 /\ (Since(n) = 2 => n \in Tables)
  BY PartsAre DEF Since, Tables

\* Needs grows with the version, up to everything.
LEMMA NeedsAre ==
    /\ \A v \in Nat : Needs(v) \subseteq Parts
    /\ \A v \in Nat : v >= CURRENT_SCHEMA_VERSION => Needs(v) = Parts
    /\ \A v, w \in Nat : w <= v => Needs(w) \subseteq Needs(v)
    /\ \A v \in 3..CURRENT_SCHEMA_VERSION : Needs(v) \subseteq Needs(v - 1) \cup New(v)
    /\ Needs(2) \subseteq Tables /\ Needs(0) = {}
  <1>1. \A v, w \in Nat : w <= v => Needs(w) \subseteq Needs(v)
    BY SinceRange DEF Needs
  <1>2. \A v \in 3..CURRENT_SCHEMA_VERSION : Needs(v) \subseteq Needs(v - 1) \cup New(v)
    BY SinceRange DEF Needs, New, CURRENT_SCHEMA_VERSION
  <1>3. Needs(2) \subseteq Tables /\ Needs(0) = {}
    BY SinceRange DEF Needs
  <1> QED
    BY <1>1, <1>2, <1>3, SinceRange DEF Needs, CURRENT_SCHEMA_VERSION

\* CREATE TABLE IF NOT EXISTS adds the table, and its columns if it was not
\* there.
LEMMA CreateIs ==
    ASSUME NEW c \in Catalogs, NEW t \in Tables
    PROVE  LET d == Create(c, t)
           IN  /\ d \in Catalogs
               /\ d.file = c.file /\ d.readonly = c.readonly /\ d.version = c.version
               /\ d.old = c.old /\ d.rows = c.rows /\ d.oldRows = c.oldRows /\ d.links = c.links
               /\ t \in d.done /\ c.done \subseteq d.done
               /\ d.done \subseteq c.done \cup {t} \cup Columns(t)
               /\ t \notin c.done => Columns(t) \subseteq d.done
  <1>1. CASE t \in c.done
    BY <1>1 DEF Create
  <1>2. CASE t \notin c.done
    <2> DEFINE names == c.done \cup {t} \cup Columns(t)
               refs == IF t \in Children THEN [c.ref EXCEPT ![t] = "volumes"] ELSE c.ref
    <2>1. names \in SUBSET Parts /\ t \in names /\ Columns(t) \subseteq names /\ c.done \subseteq names
      BY PartsAre, ColumnsAre DEF Catalogs, Tables
    <2>2. refs \in Refs
      BY DEF Catalogs, Children, Refs
    <2>3. Create(c, t) = [c EXCEPT !.done = names, !.ref = refs]
      BY <1>2 DEF Create, Catalogs
    <2> HIDE DEF names, refs
    <2>4. [c EXCEPT !.done = names, !.ref = refs] \in Catalogs
      BY <2>1, <2>2 DEF Catalogs
    <2>5. Create(c, t).done = names
      BY <2>3 DEF Catalogs
    <2> QED
      BY <2>1, <2>3, <2>4, <2>5, <1>2 DEF Catalogs, names
  <1> QED BY <1>1, <1>2

\* ALTER TABLE ... ADD COLUMN and the other additions.
LEMMA AddIs ==
    ASSUME NEW c \in Catalogs, NEW names \in SUBSET Parts
    PROVE  LET d == Add(c, names)
           IN  /\ d \in Catalogs
               /\ d.file = c.file /\ d.readonly = c.readonly /\ d.version = c.version
               /\ d.old = c.old /\ d.rows = c.rows /\ d.oldRows = c.oldRows /\ d.links = c.links
               /\ d.done = c.done \cup names
  BY DEF Add, Catalogs

\* The version is recorded, and never lowered.
LEMMA RecordIs ==
    ASSUME NEW c \in Catalogs, NEW v \in Nat
    PROVE  LET d == Record(c, v)
           IN  /\ d \in Catalogs
               /\ d.file = c.file /\ d.readonly = c.readonly
               /\ d.version = IF v > c.version THEN v ELSE c.version
               /\ d.old = c.old /\ d.rows = c.rows /\ d.oldRows = c.oldRows /\ d.links = c.links
               /\ d.done = c.done
  BY DEF Record, Catalogs

\* The two tables that are recreated: renamed away, and dropped at the end
\* with foreign keys off.
LEMMA RenameIs ==
    ASSUME NEW c \in Catalogs
    PROVE  /\ LET d == Rename(c, "volumes", "volumes_old")
              IN  /\ d \in Catalogs
                  /\ d.file = c.file /\ d.readonly = c.readonly /\ d.version = c.version
                  /\ d.old = c.old \cup {"volumes_old"} /\ d.rows = {} /\ d.oldRows = c.rows
                  /\ d.links = c.links
                  /\ d.done = c.done \ ({"volumes"} \cup Columns("volumes"))
           /\ LET d == Rename(c, "volume_events", "volume_events_old")
              IN  /\ d \in Catalogs
                  /\ d.file = c.file /\ d.readonly = c.readonly /\ d.version = c.version
                  /\ d.old = c.old \cup {"volume_events_old"} /\ d.rows = c.rows
                  /\ d.oldRows = c.oldRows /\ d.links = c.links
                  /\ d.done = c.done \ ({"volume_events"} \cup Columns("volume_events"))
  <1> DEFINE vols == [u \in Children |-> IF c.ref[u] = "volumes" THEN "volumes_old" ELSE c.ref[u]]
             evts == [u \in Children |-> IF c.ref[u] = "volume_events" THEN "volume_events_old" ELSE c.ref[u]]
  <1>1. vols \in Refs /\ evts \in Refs
    BY DEF Catalogs, Refs
  <1>2. Rename(c, "volumes", "volumes_old") =
            [c EXCEPT !.done = @ \ ({"volumes"} \cup Columns("volumes")), !.old = @ \cup {"volumes_old"},
                      !.oldRows = c.rows, !.rows = {}, !.ref = vols]
    BY DEF Rename, Catalogs
  <1>3. Rename(c, "volume_events", "volume_events_old") =
            [c EXCEPT !.done = @ \ ({"volume_events"} \cup Columns("volume_events")),
                      !.old = @ \cup {"volume_events_old"}, !.oldRows = @, !.rows = @, !.ref = evts]
    BY DEF Rename, Catalogs
  <1> HIDE DEF vols, evts
  <1>5. /\ c.done \ ({"volumes"} \cup Columns("volumes")) \in SUBSET Parts
        /\ c.done \ ({"volume_events"} \cup Columns("volume_events")) \in SUBSET Parts
        /\ c.old \cup {"volumes_old"} \in SUBSET Leftovers
        /\ c.old \cup {"volume_events_old"} \in SUBSET Leftovers
        /\ c.rows \in SUBSET Rows /\ c.oldRows \in SUBSET Rows /\ {} \in SUBSET Rows
    BY DEF Catalogs, Leftovers
  <1> DEFINE done1 == c.done \ ({"volumes"} \cup Columns("volumes"))
             done2 == c.done \ ({"volume_events"} \cup Columns("volume_events"))
             old1 == c.old \cup {"volumes_old"}
             old2 == c.old \cup {"volume_events_old"}
  <1>7. done1 \in SUBSET Parts /\ old1 \in SUBSET Leftovers /\ done2 \in SUBSET Parts /\ old2 \in SUBSET Leftovers
    BY <1>5
  <1>8. /\ Rename(c, "volumes", "volumes_old") =
               [c EXCEPT !.done = done1, !.old = old1, !.oldRows = c.rows, !.rows = {}, !.ref = vols]
        /\ Rename(c, "volume_events", "volume_events_old") =
               [c EXCEPT !.done = done2, !.old = old2, !.oldRows = c.oldRows, !.rows = c.rows, !.ref = evts]
    BY <1>2, <1>3
  <1> HIDE DEF done1, done2, old1, old2
  <1>9. LET d == Rename(c, "volumes", "volumes_old")
        IN  /\ d \in Catalogs
            /\ d.file = c.file /\ d.readonly = c.readonly /\ d.version = c.version
            /\ d.old = old1 /\ d.rows = {} /\ d.oldRows = c.rows /\ d.links = c.links /\ d.done = done1
    BY <1>1, <1>5, <1>7, <1>8, ZenonT(60) DEF Catalogs
  <1>10. LET d == Rename(c, "volume_events", "volume_events_old")
         IN  /\ d \in Catalogs
             /\ d.file = c.file /\ d.readonly = c.readonly /\ d.version = c.version
             /\ d.old = old2 /\ d.rows = c.rows /\ d.oldRows = c.oldRows /\ d.links = c.links /\ d.done = done2
    BY <1>1, <1>5, <1>7, <1>8, ZenonT(60) DEF Catalogs
  <1> QED
    BY <1>9, <1>10 DEF done1, done2, old1, old2

\* Each statement of each version step brings the copy as far as Copy says:
\* the step to version v, statement by statement, for any committed catalog
\* without leftovers.
LEMMA StatementRuns ==
    ASSUME NEW c \in Catalogs, NEW t \in Catalogs, NEW v \in 3..CURRENT_SCHEMA_VERSION,
           NEW i \in 1..Statements(v), Copy(c, t, v, i)
    PROVE  LET d == Execute(t, v, i, v \notin {5, 6})
           IN  d \in Catalogs /\ Copy(c, d, v, i + 1)
  <1> DEFINE d == Execute(t, v, i, v \notin {5, 6})
  <1> USE DEF CURRENT_SCHEMA_VERSION
  <1>p. /\ Columns("volumes") \subseteq Parts /\ Tables \subseteq Parts
        /\ \A n \in {"verified_at", "CONSOLIDATING", "created_at", "repo_status",
                     "iso_sha256", "copy_size", "session_size", "RECEIPT"} : n \in Parts
    BY PartsAre, ColumnsAre DEF Tables
  <1>t. {"volume_events", "session_volumes", "volume_copies", "key_escrow", "repositories"} \subseteq Tables
    BY DEF Tables
  <1>l. "volumes_old" \in Leftovers /\ "volume_events_old" \in Leftovers
    BY DEF Leftovers
  <1> HIDE DEF d
  <1>3. ASSUME v = 3 PROVE d \in Catalogs /\ Copy(c, d, v, i + 1)
    <2>d. d = MigrateTo3(t, i)
      BY <1>3 DEF Execute, d
    <2>1. CASE i = 1
      <3>1. d = Add(t, {"verified_at", "created_at"})
        BY <2>d, <2>1 DEF MigrateTo3
      <3> QED
        BY <1>3, <2>1, <3>1, <1>p, <1>t, <1>l, AddIs, NewAre, ColumnsAre
        DEF Copy, Statements, Renamed, Missing
    <2>2. CASE i = 2
      <3>1. d = Record(t, 3)
        BY <2>d, <2>2 DEF MigrateTo3
      <3> QED
        BY <1>3, <2>2, <3>1, <1>p, <1>t, <1>l, RecordIs, NewAre, ColumnsAre
        DEF Copy, Statements, Renamed, Missing
    <2> QED BY <1>3, <2>1, <2>2 DEF Statements
  <1>4. ASSUME v = 4 PROVE d \in Catalogs /\ Copy(c, d, v, i + 1)
    <2>d. d = MigrateTo4(t, i)
      BY <1>4 DEF Execute, d
    <2>1. CASE i = 1
      <3>1. d = Create(t, "volume_events")
        BY <2>d, <2>1 DEF MigrateTo4
      <3> DEFINE e == Create(t, "volume_events")
      <3>2. /\ e \in Catalogs /\ e.file = t.file /\ e.readonly = t.readonly /\ e.version = t.version
            /\ e.old = t.old /\ e.rows = t.rows /\ e.oldRows = t.oldRows /\ e.links = t.links
            /\ t.done \subseteq e.done /\ "volume_events" \in e.done
            /\ "volume_events" \notin t.done => Columns("volume_events") \subseteq e.done
        BY <1>t, CreateIs
      <3> HIDE DEF e
      <3>3. d = e
        BY <3>1 DEF e
      <3> QED
        BY <1>4, <2>1, <3>2, <3>3, NewAre, ColumnsAre DEF Copy, Statements, Renamed, Missing
    <2>2. CASE i = 2
      <3>1. d = Add(t, {"iso_sha256"})
        BY <2>d, <2>2 DEF MigrateTo4
      <3> QED
        BY <1>4, <2>2, <3>1, <1>p, <1>t, <1>l, AddIs, NewAre, ColumnsAre
        DEF Copy, Statements, Renamed, Missing
    <2>3. CASE i = 3
      <3>1. d = Record(t, 4)
        BY <2>d, <2>3 DEF MigrateTo4
      <3> QED
        BY <1>4, <2>3, <3>1, <1>p, <1>t, <1>l, RecordIs, NewAre, ColumnsAre
        DEF Copy, Statements, Renamed, Missing
    <2> QED BY <1>4, <2>1, <2>2, <2>3 DEF Statements
  <1>5. ASSUME v = 5 PROVE d \in Catalogs /\ Copy(c, d, v, i + 1)
    <2>d. d = MigrateTo5(t, i, v \notin {5, 6})
      BY <1>5 DEF Execute, d
    <2>1. CASE i = 1
      <3>1. d = Rename(t, "volumes", "volumes_old")
        BY <2>d, <2>1 DEF MigrateTo5
      <3> QED
        BY <1>5, <2>1, <3>1, <1>p, <1>t, <1>l, RenameIs, NewAre, ColumnsAre
        DEF Copy, Statements, Renamed, Missing
    <2>2. CASE i = 2
      <3>1. d = Add(t, {"volumes"} \cup Columns("volumes"))
        BY <2>d, <2>2 DEF MigrateTo5
      <3> DEFINE names == {"volumes"} \cup Columns("volumes")
      <3>2. names \in SUBSET Parts /\ names = {"volumes", "verified_at", "CONSOLIDATING"}
        BY <1>p, ColumnsAre DEF Tables
      <3> HIDE DEF names
      <3>3. /\ d \in Catalogs /\ d.file = t.file /\ d.readonly = t.readonly /\ d.version = t.version
            /\ d.old = t.old /\ d.rows = t.rows /\ d.oldRows = t.oldRows /\ d.links = t.links
            /\ d.done = t.done \cup names
        BY <3>1, <3>2, AddIs DEF names
      <3> QED
        BY <1>5, <2>2, <3>2, <3>3, NewAre, ColumnsAre DEF Copy, Statements, Renamed, Missing
    <2>3. CASE i = 3
      <3>1. d = [t EXCEPT !.rows = t.oldRows]
        BY <2>d, <2>3 DEF MigrateTo5
      <3>2. /\ d \in Catalogs /\ d.file = t.file /\ d.readonly = t.readonly /\ d.version = t.version
            /\ d.old = t.old /\ d.rows = t.oldRows /\ d.oldRows = t.oldRows /\ d.links = t.links
            /\ d.done = t.done
        BY <3>1 DEF Catalogs
      <3> QED
        BY <1>5, <2>3, <3>2, NewAre, ColumnsAre DEF Copy, Statements, Renamed, Missing
    <2>4. CASE i = 4
      <3>1. d = [t EXCEPT !.old = t.old \ {"volumes_old"}, !.oldRows = {}, !.links = t.links]
        <4>1. d = Drop(t, "volumes_old", v \notin {5, 6})
          BY <2>d, <2>4 DEF MigrateTo5
        <4> QED BY <1>5, <4>1 DEF Drop, Catalogs
      <3>2. /\ d \in Catalogs /\ d.file = t.file /\ d.readonly = t.readonly /\ d.version = t.version
            /\ d.old = t.old \ {"volumes_old"} /\ d.rows = t.rows /\ d.oldRows = {} /\ d.links = t.links
            /\ d.done = t.done
        BY <3>1 DEF Catalogs
      <3> QED
        BY <1>5, <2>4, <3>2, NewAre, ColumnsAre DEF Copy, Statements, Renamed, Missing
    <2>5. CASE i = 5
      <3>1. d = Record(t, 5)
        BY <2>d, <2>5 DEF MigrateTo5
      <3> QED
        BY <1>5, <2>5, <3>1, <1>p, <1>t, <1>l, RecordIs, NewAre, ColumnsAre
        DEF Copy, Statements, Renamed, Missing
    <2> QED BY <1>5, <2>1, <2>2, <2>3, <2>4, <2>5 DEF Statements
  <1>6. ASSUME v = 6 PROVE d \in Catalogs /\ Copy(c, d, v, i + 1)
    <2>d. d = MigrateTo6(t, i, v \notin {5, 6})
      BY <1>6 DEF Execute, d
    <2>1. CASE i = 1
      <3>1. d = Rename(t, "volume_events", "volume_events_old")
        BY <2>d, <2>1 DEF MigrateTo6
      <3> QED
        BY <1>6, <2>1, <3>1, <1>p, <1>t, <1>l, RenameIs, NewAre, ColumnsAre
        DEF Copy, Statements, Renamed, Missing
    <2>2. CASE i = 2
      <3>1. d = Create(t, "volume_events")
        BY <2>d, <2>2 DEF MigrateTo6
      <3> DEFINE e == Create(t, "volume_events")
      <3>2. /\ e \in Catalogs /\ e.file = t.file /\ e.readonly = t.readonly /\ e.version = t.version
            /\ e.old = t.old /\ e.rows = t.rows /\ e.oldRows = t.oldRows /\ e.links = t.links
            /\ t.done \subseteq e.done /\ "volume_events" \in e.done
            /\ "volume_events" \notin t.done => Columns("volume_events") \subseteq e.done
        BY <1>t, CreateIs
      <3> HIDE DEF e
      <3>3. d = e
        BY <3>1 DEF e
      <3> QED
        BY <1>6, <2>2, <3>2, <3>3, NewAre, ColumnsAre DEF Copy, Statements, Renamed, Missing
    <2>3. CASE i = 3
      <3>1. d = [t EXCEPT !.old = t.old \ {"volume_events_old"}, !.oldRows = t.oldRows, !.links = t.links]
        <4>1. d = Drop(t, "volume_events_old", v \notin {5, 6})
          BY <2>d, <2>3 DEF MigrateTo6
        <4> QED BY <1>6, <4>1 DEF Drop, Catalogs
      <3>2. /\ d \in Catalogs /\ d.file = t.file /\ d.readonly = t.readonly /\ d.version = t.version
            /\ d.old = t.old \ {"volume_events_old"} /\ d.rows = t.rows /\ d.oldRows = t.oldRows /\ d.links = t.links
            /\ d.done = t.done
        BY <3>1 DEF Catalogs
      <3> QED
        BY <1>6, <2>3, <3>2, NewAre, ColumnsAre DEF Copy, Statements, Renamed, Missing
    <2>4. CASE i = 4
      <3>1. d = Record(t, 6)
        BY <2>d, <2>4 DEF MigrateTo6
      <3> QED
        BY <1>6, <2>4, <3>1, <1>p, <1>t, <1>l, RecordIs, NewAre, ColumnsAre
        DEF Copy, Statements, Renamed, Missing
    <2> QED BY <1>6, <2>1, <2>2, <2>3, <2>4 DEF Statements
  <1>7. ASSUME v = 7 PROVE d \in Catalogs /\ Copy(c, d, v, i + 1)
    <2>d. d = MigrateTo7(t, i)
      BY <1>7 DEF Execute, d
    <2>1. CASE i = 1
      <3>1. d = Add(Create(t, "session_volumes"), {"session_size"})
        BY <2>d, <2>1 DEF MigrateTo7
      <3> DEFINE e == Create(t, "session_volumes")
      <3>2. /\ e \in Catalogs /\ e.file = t.file /\ e.readonly = t.readonly /\ e.version = t.version
            /\ e.old = t.old /\ e.rows = t.rows /\ e.oldRows = t.oldRows /\ e.links = t.links
            /\ t.done \subseteq e.done /\ "session_volumes" \in e.done
            /\ "session_volumes" \notin t.done => Columns("session_volumes") \subseteq e.done
        BY <1>t, CreateIs
      <3> HIDE DEF e
      <3>3. /\ d \in Catalogs /\ d.file = t.file /\ d.readonly = t.readonly /\ d.version = t.version
            /\ d.old = t.old /\ d.rows = t.rows /\ d.oldRows = t.oldRows /\ d.links = t.links
            /\ t.done \subseteq d.done /\ {"session_size"} \subseteq d.done
        BY <3>1, <3>2, <1>p, AddIs DEF e
      <3> QED
        BY <1>7, <2>1, <3>3, NewAre DEF Copy, Statements, Renamed, Missing
    <2>2. CASE i = 2
      <3>1. d = Record(t, 7)
        BY <2>d, <2>2 DEF MigrateTo7
      <3> QED
        BY <1>7, <2>2, <3>1, <1>p, <1>t, <1>l, RecordIs, NewAre, ColumnsAre
        DEF Copy, Statements, Renamed, Missing
    <2> QED BY <1>7, <2>1, <2>2 DEF Statements
  <1>8. ASSUME v = 8 PROVE d \in Catalogs /\ Copy(c, d, v, i + 1)
    <2>d. d = MigrateTo8(t, i)
      BY <1>8 DEF Execute, d
    <2>1. CASE i = 1
      <3>1. d = Add(Create(t, "volume_copies"), {"copy_size"})
        BY <2>d, <2>1 DEF MigrateTo8
      <3> DEFINE e == Create(t, "volume_copies")
      <3>2. /\ e \in Catalogs /\ e.file = t.file /\ e.readonly = t.readonly /\ e.version = t.version
            /\ e.old = t.old /\ e.rows = t.rows /\ e.oldRows = t.oldRows /\ e.links = t.links
            /\ t.done \subseteq e.done /\ "volume_copies" \in e.done
            /\ "volume_copies" \notin t.done => Columns("volume_copies") \subseteq e.done
        BY <1>t, CreateIs
      <3> HIDE DEF e
      <3>3. /\ d \in Catalogs /\ d.file = t.file /\ d.readonly = t.readonly /\ d.version = t.version
            /\ d.old = t.old /\ d.rows = t.rows /\ d.oldRows = t.oldRows /\ d.links = t.links
            /\ t.done \subseteq d.done /\ {"copy_size"} \subseteq d.done
        BY <3>1, <3>2, <1>p, AddIs DEF e
      <3> QED
        BY <1>8, <2>1, <3>3, NewAre DEF Copy, Statements, Renamed, Missing
    <2>2. CASE i = 2
      <3>1. d = Record(t, 8)
        BY <2>d, <2>2 DEF MigrateTo8
      <3> QED
        BY <1>8, <2>2, <3>1, <1>p, <1>t, <1>l, RecordIs, NewAre, ColumnsAre
        DEF Copy, Statements, Renamed, Missing
    <2> QED BY <1>8, <2>1, <2>2 DEF Statements
  <1>9. ASSUME v = 9 PROVE d \in Catalogs /\ Copy(c, d, v, i + 1)
    <2>d. d = MigrateTo9(t, i)
      BY <1>9 DEF Execute, d
    <2>1. CASE i = 1
      <3>1. d = Create(t, "key_escrow")
        BY <2>d, <2>1 DEF MigrateTo9
      <3> DEFINE e == Create(t, "key_escrow")
      <3>2. /\ e \in Catalogs /\ e.file = t.file /\ e.readonly = t.readonly /\ e.version = t.version
            /\ e.old = t.old /\ e.rows = t.rows /\ e.oldRows = t.oldRows /\ e.links = t.links
            /\ t.done \subseteq e.done /\ "key_escrow" \in e.done
            /\ "key_escrow" \notin t.done => Columns("key_escrow") \subseteq e.done
        BY <1>t, CreateIs
      <3> HIDE DEF e
      <3>3. d = e
        BY <3>1 DEF e
      <3> QED
        BY <1>9, <2>1, <3>2, <3>3, NewAre, ColumnsAre DEF Copy, Statements, Renamed, Missing
    <2>2. CASE i = 2
      <3>1. d = Record(t, 9)
        BY <2>d, <2>2 DEF MigrateTo9
      <3> QED
        BY <1>9, <2>2, <3>1, <1>p, <1>t, <1>l, RecordIs, NewAre, ColumnsAre
        DEF Copy, Statements, Renamed, Missing
    <2> QED BY <1>9, <2>1, <2>2 DEF Statements
  <1>10. ASSUME v = 10 PROVE d \in Catalogs /\ Copy(c, d, v, i + 1)
    <2>d. d = MigrateTo10(t, i)
      BY <1>10 DEF Execute, d
    <2>1. CASE i = 1
      <3>1. d = Add(Create(t, "repositories"), {"repo_status"})
        BY <2>d, <2>1 DEF MigrateTo10
      <3> DEFINE e == Create(t, "repositories")
      <3>2. /\ e \in Catalogs /\ e.file = t.file /\ e.readonly = t.readonly /\ e.version = t.version
            /\ e.old = t.old /\ e.rows = t.rows /\ e.oldRows = t.oldRows /\ e.links = t.links
            /\ t.done \subseteq e.done /\ "repositories" \in e.done
            /\ "repositories" \notin t.done => Columns("repositories") \subseteq e.done
        BY <1>t, CreateIs
      <3> HIDE DEF e
      <3>3. /\ d \in Catalogs /\ d.file = t.file /\ d.readonly = t.readonly /\ d.version = t.version
            /\ d.old = t.old /\ d.rows = t.rows /\ d.oldRows = t.oldRows /\ d.links = t.links
            /\ t.done \subseteq d.done /\ {"repo_status"} \subseteq d.done
        BY <3>1, <3>2, <1>p, AddIs DEF e
      <3> QED
        BY <1>10, <2>1, <3>3, NewAre DEF Copy, Statements, Renamed, Missing
    <2>2. CASE i = 2
      <3>1. d = Record(t, 10)
        BY <2>d, <2>2 DEF MigrateTo10
      <3> QED
        BY <1>10, <2>2, <3>1, <1>p, <1>t, <1>l, RecordIs, NewAre, ColumnsAre
        DEF Copy, Statements, Renamed, Missing
    <2> QED BY <1>10, <2>1, <2>2 DEF Statements
  <1>11. d \in Catalogs /\ Copy(c, d, v, i + 1)
    BY <1>3, <1>4, <1>5, <1>6, <1>7, <1>8, <1>9, <1>10
  <1> QED BY <1>11 DEF d

-----------------------------------------------------------------------------
(* The catalogs at first.                                                  *)

\* A catalog of any version, or none, is sound.
LEMMA CatalogOfIs ==
    ASSUME NEW v \in Nat
    PROVE  LET c == CatalogOf(v)
           IN  /\ c \in Catalogs /\ Sound(c) /\ c.old = {} /\ c.version = v /\ ~c.readonly
               /\ (c.file <=> v > 0) /\ c.done = (IF v = 0 THEN {} ELSE Needs(v))
  <1> DEFINE some == IF v = 0 THEN {} ELSE {CHOOSE r \in Rows : TRUE}
             names == IF v = 0 THEN {} ELSE Needs(v)
             refs == [t \in Children |-> "volumes"]
             exists == v > 0
  <1>1. some \in SUBSET Rows
    BY OpenAssumption
  <1>2. names \in SUBSET Parts /\ Needs(v) \subseteq names
    BY NeedsAre
  <1>3. refs \in Refs
    BY DEF Refs
  <1>4. CatalogOf(v) = [file |-> exists, readonly |-> FALSE, version |-> v, done |-> names, old |-> {},
                        ref |-> refs, rows |-> some, oldRows |-> {}, links |-> some]
    BY DEF CatalogOf
  <1>5. v = 0 => names = {}
    OBVIOUS
  <1>e. exists \in BOOLEAN /\ (exists <=> v > 0)
    OBVIOUS
  <1> HIDE DEF some, names, refs, exists
  <1>6. CatalogOf(v) \in Catalogs
    BY <1>1, <1>2, <1>3, <1>4, <1>e DEF Catalogs
  <1>7. LET c == CatalogOf(v)
        IN  /\ c.old = {} /\ c.version = v /\ ~c.readonly /\ (c.file <=> v > 0)
            /\ c.done = names /\ c.oldRows = {}
    <2>1. CatalogOf(v).file <=> v > 0
      <3>1. CatalogOf(v).file = exists
        BY <1>4
      <3> QED BY <3>1, <1>e
    <2>3. ~CatalogOf(v).readonly
      BY <1>4
    <2>2. LET c == CatalogOf(v) IN c.old = {} /\ c.version = v /\ c.done = names /\ c.oldRows = {}
      BY <1>4
    <2> QED BY <2>1, <2>2, <2>3
  <1>8. Sound(CatalogOf(v))
    BY <1>2, <1>5, <1>7 DEF Sound
  <1> QED
    BY <1>6, <1>7, <1>8 DEF names

\* The same catalog, not used yet.
LEMMA UnusedIs ==
    ASSUME NEW v \in Nat
    PROVE  LET c == Unused(v) IN c \in Catalogs /\ Sound(c) /\ c.old = {}
  <1> DEFINE c == CatalogOf(v)
  <1>1. c \in Catalogs /\ Sound(c) /\ c.old = {}
    BY CatalogOfIs
  <1> HIDE DEF c
  <1> DEFINE d == [c EXCEPT !.rows = {}, !.links = {}]
  <1>2. d \in Catalogs
    BY <1>1 DEF Catalogs
  <1>3. /\ d.file = c.file /\ d.readonly = c.readonly /\ d.version = c.version
        /\ d.done = c.done /\ d.old = c.old /\ d.oldRows = c.oldRows
    BY <1>1 DEF Catalogs
  <1>4. Unused(v) = d
    BY DEF Unused, c
  <1> HIDE DEF d
  <1>5. Sound(d)
    BY <1>1, <1>3 DEF Sound
  <1> QED BY <1>1, <1>2, <1>3, <1>4, <1>5

\* What an interrupted migration of an older build left.
LEMMA WedgedIs ==
    ASSUME NEW b \in BOOLEAN
    PROVE  LET c == Wedged(b) IN c \in Catalogs /\ Sound(c) /\ LeftByOlder(c)
  <1> DEFINE w == Rename(CatalogOf(4), "volumes", "volumes_old")
  <1>1. /\ CatalogOf(4) \in Catalogs /\ CatalogOf(4).old = {} /\ CatalogOf(4).version = 4
        /\ ~CatalogOf(4).readonly /\ CatalogOf(4).file /\ CatalogOf(4).done = Needs(4)
    BY CatalogOfIs
  <1>2. /\ w \in Catalogs /\ w.old = {"volumes_old"} /\ w.version = 4 /\ ~w.readonly /\ w.file
        /\ w.done = Needs(4) \ {"volumes", "verified_at", "CONSOLIDATING"}
    BY <1>1, RenameIs, ColumnsAre
  <1>3. "CONSOLIDATING" \notin Needs(4)
    BY DEF Needs, Since
  <1> HIDE DEF w
  <1>4. Sound(w) /\ LeftByOlder(w)
    BY <1>2, <1>3 DEF Sound, LeftByOlder
  <1> DEFINE e == Create(w, "volumes")
  <1>5. "volumes" \in Tables
    BY DEF Tables
  <1>6. /\ e \in Catalogs /\ e.old = w.old /\ e.version = w.version /\ e.readonly = w.readonly
        /\ e.file = w.file /\ w.done \subseteq e.done
    BY <1>2, <1>5, CreateIs
  <1> HIDE DEF e
  <1>7. Sound(e) /\ LeftByOlder(e)
    BY <1>2, <1>4, <1>6 DEF Sound, LeftByOlder
  <1>8. Wedged(b) = IF b THEN e ELSE w
    BY DEF Wedged, e, w
  <1> QED BY <1>2, <1>4, <1>6, <1>7, <1>8

\* Every catalog the system may start with satisfies the invariant.
LEMMA SchemaInit == Init => SchemaIInv
  <1> SUFFICES ASSUME Init PROVE SchemaIInv
    OBVIOUS
  <1> DEFINE ro == [CatalogOf(4) EXCEPT !.readonly = TRUE]
  <1>1. /\ ro \in Catalogs /\ Sound(ro) /\ ro.old = {}
    <2> DEFINE c == CatalogOf(4)
    <2>1. c \in Catalogs /\ Sound(c) /\ c.old = {} /\ c.version = 4 /\ c.file
      BY CatalogOfIs
    <2> HIDE DEF c
    <2>2. [c EXCEPT !.readonly = TRUE] \in Catalogs
      BY <2>1 DEF Catalogs
    <2>3. /\ [c EXCEPT !.readonly = TRUE].old = {} /\ [c EXCEPT !.readonly = TRUE].version = 4
          /\ [c EXCEPT !.readonly = TRUE].file
          /\ [c EXCEPT !.readonly = TRUE].done = c.done /\ [c EXCEPT !.readonly = TRUE].oldRows = c.oldRows
      BY <2>1 DEF Catalogs
    <2> QED BY <2>1, <2>2, <2>3 DEF Sound, c
  <1>2. cat \in Catalogs /\ Sound(cat) /\ (cat.old # {} => LeftByOlder(cat))
    <2>1. ASSUME NEW v \in Legacy, cat = CatalogOf(v)
          PROVE  cat \in Catalogs /\ Sound(cat) /\ (cat.old # {} => LeftByOlder(cat))
      <3>1. v \in Nat
        BY OpenAssumption
      <3> QED BY <2>1, <3>1, CatalogOfIs
    <2>2. ASSUME NEW b \in BOOLEAN, cat = Wedged(b)
          PROVE  cat \in Catalogs /\ Sound(cat) /\ (cat.old # {} => LeftByOlder(cat))
      BY <2>2, WedgedIs
    <2>3. CASE cat = ro
      BY <2>3, <1>1
    <2>4. ASSUME NEW v \in Legacy, cat = Unused(v)
          PROVE  cat \in Catalogs /\ Sound(cat) /\ (cat.old # {} => LeftByOlder(cat))
      <3>1. v \in Nat
        BY OpenAssumption
      <3> QED BY <2>4, <3>1, UnusedIs
    <2> HIDE DEF ro
    <2> QED BY <2>1, <2>2, <2>3, <2>4 DEF Init, ro
  <1>3. tx = cat /\ first = cat /\ txOf = NoProc /\ st = [p \in Procs |-> IdleProc]
    BY DEF Init
  <1>4. CatalogType
    BY <1>2, <1>3, OpenAssumption DEF CatalogType, At, IdleProc
  <1>5. CatalogInv
    BY <1>2, <1>3 DEF CatalogInv
  <1>6. KnowsInv
    BY <1>3 DEF KnowsInv, Knows, IdleProc
  <1>7. TxInv
    BY <1>3 DEF TxInv, At, IdleProc
  <1> QED BY <1>4, <1>5, <1>6, <1>7 DEF SchemaIInv

-----------------------------------------------------------------------------
(* Steps.                                                                  *)

\* A committed catalog only ever grows: it is not written while it has
\* leftovers, and no table, column or version goes.
Grows(c, d) ==
    /\ c.file => d.file
    /\ d.readonly = c.readonly /\ d.old = {}
    /\ c.version <= d.version /\ c.done \subseteq d.done
    /\ c.version <= CURRENT_SCHEMA_VERSION => d.version <= CURRENT_SCHEMA_VERSION

\* What a process knows stays true while the catalog grows.
LEMMA KnowsStays ==
    ASSUME NEW c \in Catalogs, NEW d \in Catalogs, Grows(c, d), NEW s \in ProcStates, Knows(s, c)
    PROVE  Knows(s, d)
  <1>1. c.version \in Nat /\ d.version \in Nat /\ s.at \in Nat
    BY DEF Catalogs, ProcStates
  <1> QED
    BY <1>1 DEF Grows, Knows, CURRENT_SCHEMA_VERSION

\* A process that ends knows nothing and needs nothing.
LEMMA EndedKnows ==
    ASSUME NEW s, NEW c, s.pc \in Ended \cup {"lock", "wait", "stamp", "exists", "create", "look"}, s.cur = 0
    PROVE  Knows(s, c)
  BY DEF Knows, Ended

\* A step of p that leaves the committed catalog alone, and rolls back its
\* transaction if it has one.
LEMMA QuietStep ==
    ASSUME IInv, NEW p \in Procs, NEW pc, NEW cur, NEW at, NEW i, Moves(p, pc, cur, at, i),
           cat' = cat, first' = first, pc # "statement", Knows(st'[p], cat),
           tx' \in Catalogs, txOf # p => tx' = tx,
           txOf' = IF txOf = p THEN NoProc ELSE txOf
    PROVE  SchemaIInv'
  <1> USE DEF IInv, SchemaIInv
  <1>1. \A q \in Procs \ {p} : st'[q] = st[q]
    BY DEF Moves
  <1>2. st'[p].pc = pc
    BY DEF Moves
  <1>3. NoProc \notin Procs
    BY OpenAssumption
  <1>4. CatalogType'
    BY <1>1, <1>2, <1>3 DEF CatalogType, At
  <1>5. CatalogInv'
    BY DEF CatalogInv
  <1>6. KnowsInv'
    BY <1>1 DEF KnowsInv
  <1>7. TxInv'
    <2> SUFFICES ASSUME NEW q \in Procs, st'[q].pc = "statement"
                 PROVE  /\ st'[q].i \in 1..Statements(st'[q].at) + 1
                        /\ Copy(cat', tx', st'[q].at, st'[q].i)
      BY DEF TxInv, At
    <2>1. q # p /\ st'[q] = st[q]
      BY <1>1, <1>2
    <2>2. txOf = q
      BY <2>1 DEF CatalogType, At
    <2> QED
      BY <2>1, <2>2 DEF TxInv, At
  <1> QED BY <1>4, <1>5, <1>6, <1>7

\* A step of p that commits a change of the catalog, outside or at the end
\* of its own transaction.
LEMMA WriteStep ==
    ASSUME IInv, NEW p \in Procs, NEW pc, NEW cur, NEW at, NEW i, Moves(p, pc, cur, at, i),
           cat' \in Catalogs, Sound(cat'), Grows(cat, cat'), first' = first, pc # "statement",
           Knows(st'[p], cat'), tx' \in Catalogs, txOf \in {p, NoProc}, txOf' = NoProc
    PROVE  SchemaIInv'
  <1> USE DEF IInv, SchemaIInv
  <1>1. \A q \in Procs \ {p} : st'[q] = st[q]
    BY DEF Moves
  <1>2. st'[p].pc = pc /\ st' \in [Procs -> ProcStates]
    BY DEF Moves
  <1>3. NoProc \notin Procs
    BY OpenAssumption
  <1>4. \A q \in Procs : st'[q].pc # "statement"
    BY <1>1, <1>2, <1>3 DEF CatalogType, At
  <1>5. CatalogType'
    BY <1>3, <1>4 DEF CatalogType, At
  <1>6. CatalogInv'
    BY DEF CatalogInv, Grows
  <1>7. KnowsInv'
    <2>1. ASSUME NEW q \in Procs \ {p} PROVE Knows(st'[q], cat')
      <3>1. st'[q] \in ProcStates /\ st'[q] = st[q] /\ Knows(st[q], cat) /\ cat \in Catalogs
        BY <1>1, <1>2 DEF KnowsInv, CatalogType
      <3> QED BY <3>1, KnowsStays
    <2> QED BY <2>1 DEF KnowsInv
  <1>8. TxInv'
    BY <1>4 DEF TxInv, At
  <1> QED BY <1>5, <1>6, <1>7, <1>8

\* Before the schema: the lock, the file, and the ends of a command.
LEMMA OpeningStep ==
    ASSUME IInv, NEW p \in Procs,
           \/ Start(p) \/ TryLock(p) \/ Acquire(p) \/ LockTimeout(p) \/ StampHolder(p)
           \/ Connect(p) \/ CreateFile(p) \/ Look(p) \/ Busy(p) \/ StatementRefused(p) \/ Leave(p)
    PROVE  SchemaIInv'
  <1>t. TypeOK /\ cat \in Catalogs /\ tx \in Catalogs /\ first \in Catalogs /\ txOf \in Procs \cup {NoProc}
    BY DEF IInv, LockIInv, LockInv, SchemaIInv, CatalogType, TypeOK
  <1>k. Knows(st[p], cat) /\ \A q \in Procs : Knows(st[q], cat)
    BY DEF IInv, SchemaIInv, KnowsInv
  <1>x. st[p].pc = "statement" <=> txOf = p
    BY DEF IInv, SchemaIInv, CatalogType, At
  <1>e. "idle" \in Ended
    BY DEF Ended
  <1>q. ASSUME NEW pc \in {"lock", "wait", "stamp", "exists", "create", "look"}, Goto(p, pc),
               st[p].cur = 0, st[p].pc # "statement", UNCHANGED <<fileVars, first>>
        PROVE  SchemaIInv'
    <2>1. Moves(p, pc, 0, st[p].at, st[p].i)
      BY <1>q, <1>t, GotoMoves
    <2>2. Knows(st'[p], cat)
      BY <2>1, EndedKnows DEF Moves
    <2> QED BY <1>q, <1>t, <1>x, <2>1, <2>2, QuietStep DEF fileVars
  <1>z. ASSUME End(p, "idle"), cat' = cat, first' = first, tx' \in Catalogs, txOf # p => tx' = tx,
               txOf' = IF txOf = p THEN NoProc ELSE txOf
        PROVE  SchemaIInv'
    <2>1. Moves(p, "idle", 0, 0, 0)
      BY <1>z, <1>t, <1>e, EndMoves
    <2>2. Knows(st'[p], cat)
      BY <2>1, <1>e, EndedKnows DEF Moves
    <2> QED BY <1>z, <2>1, <2>2, QuietStep
  <1>1. CASE Start(p)
    BY <1>1, <1>k, <1>q DEF Start, Knows, Ended
  <1>2. CASE TryLock(p)
    BY <1>2, <1>k, <1>q DEF TryLock, Knows, At
  <1>3. CASE Acquire(p) \/ StampHolder(p)
    BY <1>3, <1>k, <1>q DEF Acquire, StampHolder, Knows, At
  <1>4. CASE LockTimeout(p) \/ Look(p) \/ Busy(p)
    <2>1. st[p].pc # "statement"
      BY <1>4 DEF LockTimeout, Look, Busy, At
    <2> QED BY <1>4, <2>1, <1>t, <1>x, <1>z DEF LockTimeout, Look, Busy, fileVars
  <1>5. CASE Leave(p) \/ StatementRefused(p)
    BY <1>5, <1>t, <1>z DEF Leave, StatementRefused, RollBack
  <1>6. CASE Connect(p)
    <2>1. CASE cat.file
      <3>1. Goto(p, "schema") /\ st[p].pc = "exists" /\ UNCHANGED <<fileVars, first>>
        BY <1>6, <2>1 DEF Connect, At
      <3>2. st[p].cur = 0
        BY <1>k, <3>1 DEF Knows
      <3>3. Moves(p, "schema", 0, st[p].at, st[p].i)
        BY <3>1, <3>2, <1>t, GotoMoves
      <3>4. Knows(st'[p], cat)
        BY <3>3, <2>1 DEF Moves, Knows
      <3> QED BY <3>1, <3>3, <3>4, <1>t, <1>x, QuietStep DEF fileVars
    <2>2. CASE ~cat.file
      BY <1>6, <2>2, <1>k, <1>q DEF Connect, Knows, At
    <2> QED BY <2>1, <2>2
  <1>7. CASE CreateFile(p)
    <2>0. st[p].pc = "create" /\ UNCHANGED <<tx, txOf, first>> /\ txOf # p /\ st[p].cur = 0
      BY <1>7, <1>k, <1>x DEF CreateFile, At, Knows
    <2>1. CASE cat.file
      BY <1>7, <2>0, <2>1, <1>t, <1>z DEF CreateFile
    <2>2. CASE ~cat.file
      <3>1. cat' = [cat EXCEPT !.file = TRUE] /\ Goto(p, "schema")
        BY <1>7, <2>2 DEF CreateFile
      <3>2. /\ cat' \in Catalogs /\ cat'.file /\ cat'.readonly = cat.readonly /\ cat'.version = cat.version
            /\ cat'.done = cat.done /\ cat'.old = cat.old /\ cat'.oldRows = cat.oldRows
        BY <3>1, <1>t DEF Catalogs
      <3>3. Sound(cat) /\ cat.old = {}
        BY <2>2 DEF IInv, SchemaIInv, CatalogInv, Sound
      <3>4. Sound(cat')
        BY <3>2, <3>3 DEF Sound
      <3>5. Grows(cat, cat')
        BY <3>2, <3>3, <1>t DEF Grows, Catalogs
      <3>6. txOf = NoProc
        BY <2>2, <1>k, <1>t DEF Knows, IInv, SchemaIInv, CatalogType, At
      <3>7. Moves(p, "schema", 0, st[p].at, st[p].i)
        BY <3>1, <2>0, <1>t, GotoMoves
      <3>8. Knows(st'[p], cat')
        BY <3>7, <3>2 DEF Moves, Knows
      <3> QED BY <2>0, <3>2, <3>4, <3>5, <3>6, <3>7, <3>8, <1>t, WriteStep
    <2> QED BY <2>1, <2>2
  <1> QED BY <1>1, <1>2, <1>3, <1>4, <1>5, <1>6, <1>7

\* create_all finds the tables that are missing, in its order.
LEMMA NextTable ==
    ASSUME NEW done
    PROVE  LET missing == {i \in DOMAIN CreateOrder : CreateOrder[i] \notin done}
               next    == CreateOrder[CHOOSE i \in missing : \A j \in missing : i <= j]
           IN  /\ missing = {} => Tables \subseteq done
               /\ missing # {} => next \in Tables
  <1>1. DOMAIN CreateOrder = 1..7 /\ 1..7 = {1, 2, 3, 4, 5, 6, 7}
    BY DEF CreateOrder
  <1>2. \A i \in 1..7 : CreateOrder[i] \in Tables
    BY <1>1 DEF CreateOrder, Tables
  <1>3. \A t \in Tables : \E i \in 1..7 : CreateOrder[i] = t
    <2>1. /\ CreateOrder[1] = "volumes" /\ CreateOrder[2] = "repositories"
          /\ CreateOrder[3] = "volume_packs" /\ CreateOrder[4] = "volume_copies"
          /\ CreateOrder[5] = "session_volumes" /\ CreateOrder[6] = "volume_events"
          /\ CreateOrder[7] = "key_escrow"
      BY DEF CreateOrder
    <2> QED BY <2>1, <1>1 DEF Tables
  <1> DEFINE missing == {i \in DOMAIN CreateOrder : CreateOrder[i] \notin done}
  <1>4. missing # {} => \E i \in missing : \A j \in missing : i <= j
    <2> SUFFICES ASSUME missing # {} PROVE \E i \in missing : \A j \in missing : i <= j
      OBVIOUS
    <2>1. missing \subseteq 1..7
      BY <1>1
    <2> HIDE DEF missing
    <2>2. ASSUME NEW i \in 1..7, \A j \in 1..(i - 1) : j \notin missing
          PROVE  \/ \E k \in missing : \A j \in missing : k <= j
                 \/ \A j \in 1..i : j \notin missing
      BY <2>1, <2>2
    <2>3. ASSUME ~\E k \in missing : \A j \in missing : k <= j
          PROVE  \A j \in 1..7 : j \notin missing
      <3>1. \A j \in 1..1 : j \notin missing
        BY <2>2, <2>3
      <3>2. \A j \in 1..2 : j \notin missing
        BY <2>2, <2>3, <3>1
      <3>3. \A j \in 1..3 : j \notin missing
        BY <2>2, <2>3, <3>2
      <3>4. \A j \in 1..4 : j \notin missing
        BY <2>2, <2>3, <3>3
      <3>5. \A j \in 1..5 : j \notin missing
        BY <2>2, <2>3, <3>4
      <3>6. \A j \in 1..6 : j \notin missing
        BY <2>2, <2>3, <3>5
      <3> QED BY <2>2, <2>3, <3>6
    <2> QED BY <2>1, <2>3
  <1> DEFINE first1 == CHOOSE i \in missing : \A j \in missing : i <= j
  <1>5. missing # {} => first1 \in missing
    BY <1>4
  <1>6. missing # {} => CreateOrder[first1] \in Tables
    BY <1>5, <1>2, <1>1
  <1>7. missing = {} => Tables \subseteq done
    BY <1>1, <1>3
  <1> QED BY <1>6, <1>7

\* ensure_schema and create_all.
LEMMA EnsureStep ==
    ASSUME IInv, NEW p \in Procs,
           EnsureSchema(p) \/ CreateTable(p) \/ CountVersions(p) \/ InsertVersion(p)
    PROVE  SchemaIInv'
  <1>t. TypeOK /\ cat \in Catalogs /\ tx \in Catalogs /\ txOf \in Procs \cup {NoProc} /\ cat.version \in Nat
    BY DEF IInv, LockIInv, LockInv, SchemaIInv, CatalogType, TypeOK, Catalogs
  <1>k. Knows(st[p], cat)
    BY DEF IInv, SchemaIInv, KnowsInv
  <1>s. Sound(cat)
    BY DEF IInv, SchemaIInv, CatalogInv
  <1>x. st[p].pc = "statement" <=> txOf = p
    BY DEF IInv, SchemaIInv, CatalogType, At
  <1>e. "idle" \in Ended
    BY DEF Ended
  <1>1. CASE EnsureSchema(p)
    <2>0. st[p].pc = "schema" /\ UNCHANGED <<fileVars, first>> /\ txOf # p /\ st[p].cur = 0 /\ cat.file
      BY <1>1, <1>k, <1>x DEF EnsureSchema, At, Knows
    <2>1. CASE Moves(p, "idle", 0, 0, 0)
      <3>1. Knows(st'[p], cat)
        BY <2>1, <1>e, EndedKnows DEF Moves
      <3> QED BY <2>0, <2>1, <3>1, <1>t, QuietStep DEF fileVars
    <2>2. CASE is_readonly /\ Moves(p, "compat", st[p].cur, st[p].at, st[p].i)
      <3>1. cat.readonly \/ (cat.version <= CURRENT_SCHEMA_VERSION /\ cat.old = {})
        <4>1. CASE txOf \in Procs
          BY <4>1 DEF IInv, SchemaIInv, CatalogType, KnowsInv, Knows, At
        <4> QED BY <2>2, <4>1, <1>t DEF is_readonly
      <3>2. Knows(st'[p], cat)
        BY <2>0, <2>2, <3>1 DEF Moves, Knows
      <3> QED BY <2>0, <2>2, <3>2, <1>t, QuietStep DEF fileVars
    <2>3. CASE /\ cat.version <= CURRENT_SCHEMA_VERSION /\ ~cat.readonly /\ cat.old = {}
               /\ Goto(p, "table")
      <3>1. Moves(p, "table", st[p].cur, st[p].at, st[p].i)
        BY <2>3, <1>t, GotoMoves
      <3>2. Knows(st'[p], cat)
        BY <2>0, <2>3, <3>1 DEF Moves, Knows
      <3> QED BY <2>0, <3>1, <3>2, <1>t, QuietStep DEF fileVars
    <2>4. End(p, "idle") => Moves(p, "idle", 0, 0, 0)
      BY <1>t, <1>e, EndMoves
    <2>5. AfterSchema(p, "compat") => \/ Moves(p, "idle", 0, 0, 0)
                                      \/ Moves(p, "compat", st[p].cur, st[p].at, st[p].i)
      BY <1>t, AfterSchemaMoves
    <2>6. cat.version > CURRENT_SCHEMA_VERSION \/ cat.version <= CURRENT_SCHEMA_VERSION
      BY <1>t DEF CURRENT_SCHEMA_VERSION
    <2> QED BY <1>1, <2>1, <2>2, <2>3, <2>4, <2>5, <2>6 DEF EnsureSchema, is_readonly
  <1>2. CASE CreateTable(p)
    <2> DEFINE missing == MissingTables
               next    == CreateOrder[CHOOSE i \in missing : \A j \in missing : i <= j]
    <2>0. /\ st[p].pc = "table" /\ UNCHANGED <<tx, txOf, first>> /\ txOf # p /\ st[p].cur = 0
          /\ cat.file /\ ~cat.readonly /\ cat.old = {} /\ cat.version <= CURRENT_SCHEMA_VERSION
      BY <1>2, <1>k, <1>x DEF CreateTable, At, Knows
    <2>1. (missing = {} => Tables \subseteq cat.done) /\ (missing # {} => next \in Tables)
      BY NextTable DEF MissingTables
    <2>2. CASE missing = {}
      <3>1. Goto(p, "count") /\ cat' = cat
        BY <1>2, <2>2 DEF CreateTable
      <3>2. Moves(p, "count", st[p].cur, st[p].at, st[p].i)
        BY <3>1, <1>t, GotoMoves
      <3>3. Knows(st'[p], cat)
        BY <2>0, <2>1, <2>2, <3>2 DEF Moves, Knows
      <3> QED BY <2>0, <3>1, <3>2, <3>3, <1>t, <1>x, QuietStep
    <2>3. CASE missing # {}
      <3>1. cat' = Create(cat, next) /\ st' = st /\ txOf = NoProc
        BY <1>2, <2>3 DEF CreateTable
      <3> HIDE DEF missing, next
      <3>2. Moves(p, "table", st[p].cur, st[p].at, st[p].i)
        BY <2>0, <3>1, <1>t DEF Moves, TypeOK, ProcStates
      <3>3. /\ cat' \in Catalogs /\ cat'.file = cat.file /\ cat'.readonly = cat.readonly
            /\ cat'.version = cat.version /\ cat'.old = cat.old /\ cat'.oldRows = cat.oldRows
            /\ cat.done \subseteq cat'.done
            /\ cat'.done \subseteq cat.done \cup {next} \cup Columns(next)
            /\ next \notin cat.done => Columns(next) \subseteq cat'.done
        BY <3>1, <2>1, <2>3, <1>t, CreateIs
      <3>4. Sound(cat')
        <4>1. cat'.version = 0 => \A t \in Tables \cap cat'.done : Columns(t) \subseteq cat'.done
          <5>1. ASSUME NEW u \in Tables, NEW t \in Tables PROVE t \notin Columns(u)
            BY ColumnsAre DEF Tables
          <5> QED BY <2>1, <2>3, <3>3, <5>1, <1>s DEF Sound
        <4> QED BY <3>3, <4>1, <1>s, <2>0 DEF Sound
      <3>5. Grows(cat, cat')
        BY <3>3, <2>0, <1>t DEF Grows
      <3>6. Knows(st'[p], cat')
        BY <3>3, <3>1, <2>0 DEF Knows
      <3> QED BY <2>0, <3>1, <3>2, <3>3, <3>4, <3>5, <3>6, <1>t, WriteStep
    <2> QED BY <2>2, <2>3
  <1>3. CASE CountVersions(p)
    <2>0. st[p].pc = "count" /\ UNCHANGED <<fileVars, first>> /\ txOf # p /\ st[p].cur = 0 /\ Tables \subseteq cat.done
      BY <1>3, <1>k, <1>x DEF CountVersions, At, Knows
    <2> DEFINE pc == IF cat.version = 0 THEN "insert" ELSE "migrate"
    <2>1. Moves(p, pc, st[p].cur, st[p].at, st[p].i)
      BY <1>3, <1>t, GotoMoves DEF CountVersions
    <2>2. cat.version = 0 => Parts \subseteq cat.done
      BY <2>0, <1>s, PartsAre, ColumnsAre DEF Sound, Tables
    <2>3. Knows(st'[p], cat)
      BY <2>0, <2>1, <2>2, <1>k, <1>t DEF Moves, Knows
    <2> QED BY <2>0, <2>1, <2>3, <1>t, QuietStep DEF fileVars
  <1>4. CASE InsertVersion(p)
    <2>0. /\ st[p].pc = "insert" /\ UNCHANGED <<tx, txOf, first>> /\ txOf = NoProc /\ st[p].cur = 0
          /\ Tables \subseteq cat.done /\ Parts \subseteq cat.done /\ cat.old = {} /\ ~cat.readonly
          /\ cat.file /\ cat.version <= CURRENT_SCHEMA_VERSION
      BY <1>4, <1>k DEF InsertVersion, At, Knows
    <2>1. Moves(p, "migrate", st[p].cur, st[p].at, st[p].i)
      BY <1>4, <1>t, GotoMoves DEF InsertVersion
    <2>2. cat' = Record(cat, CURRENT_SCHEMA_VERSION) /\ CURRENT_SCHEMA_VERSION \in Nat
      BY <1>4 DEF InsertVersion, CURRENT_SCHEMA_VERSION
    <2>3. /\ cat' \in Catalogs /\ cat'.file = cat.file /\ cat'.readonly = cat.readonly
          /\ cat'.old = cat.old /\ cat'.oldRows = cat.oldRows /\ cat'.done = cat.done
          /\ cat'.version = IF CURRENT_SCHEMA_VERSION > cat.version THEN CURRENT_SCHEMA_VERSION ELSE cat.version
      BY <2>2, <1>t, RecordIs
    <2>4. cat'.version = 10
      BY <2>3, <2>0, <1>t DEF CURRENT_SCHEMA_VERSION
    <2>5. Sound(cat')
      <3>1. Needs(10) \subseteq cat'.done
        BY <2>0, <2>3, NeedsAre
      <3> QED BY <2>0, <2>3, <2>4, <3>1, <1>s DEF Sound
    <2>6. Grows(cat, cat')
      BY <2>0, <2>3, <2>4, <1>t DEF Grows, CURRENT_SCHEMA_VERSION
    <2>7. Knows(st'[p], cat')
      BY <2>0, <2>1, <2>3, <2>4 DEF Moves, Knows, CURRENT_SCHEMA_VERSION
    <2> QED BY <2>0, <2>1, <2>3, <2>5, <2>6, <2>7, <1>t, WriteStep
  <1> QED BY <1>1, <1>2, <1>3, <1>4

\* The migrations, and what follows them.
LEMMA MigrateStep ==
    ASSUME IInv, NEW p \in Procs,
           ReadVersion(p) \/ BeginImmediate(p) \/ RunStatement(p) \/ Commit(p) \/ Migrated(p) \/ Use(p)
    PROVE  SchemaIInv'
  <1>t. /\ TypeOK /\ cat \in Catalogs /\ tx \in Catalogs /\ first \in Catalogs
        /\ txOf \in Procs \cup {NoProc} /\ cat.version \in Nat /\ tx.version \in Nat
    BY DEF IInv, LockIInv, LockInv, SchemaIInv, CatalogType, TypeOK, Catalogs
  <1>n. st[p].at \in Nat /\ st[p].i \in Nat /\ st[p].cur \in Nat
    BY <1>t DEF TypeOK
  <1>k. Knows(st[p], cat)
    BY DEF IInv, SchemaIInv, KnowsInv
  <1>s. Sound(cat)
    BY DEF IInv, SchemaIInv, CatalogInv
  <1>x. st[p].pc = "statement" <=> txOf = p
    BY DEF IInv, SchemaIInv, CatalogType, At
  <1>y. NoProc \notin Procs
    BY OpenAssumption
  <1>e. "idle" \in Ended /\ "broken" \in Ended
    BY DEF Ended
  <1> DEFINE at == st[p].at
             i  == st[p].i
  <1>1. CASE ReadVersion(p)
    <2>0. /\ st[p].pc = "migrate" /\ UNCHANGED <<fileVars, first>> /\ txOf # p /\ cat.old = {}
          /\ cat.version > 0 /\ cat.version <= CURRENT_SCHEMA_VERSION
      BY <1>1, <1>k, <1>x DEF ReadVersion, At, Knows
    <2>1. Moves(p, "migrate", cat.version, IF cat.version < 3 THEN 3 ELSE cat.version + 1, st[p].i)
      BY <1>1, <2>0, <1>t, MigrateMoves
    <2>2. Knows(st'[p], cat)
      BY <2>0, <2>1, <1>k, <1>t DEF Moves, Knows, CURRENT_SCHEMA_VERSION
    <2> QED BY <2>0, <2>1, <2>2, <1>t, QuietStep DEF fileVars
  <1>2. CASE Migrated(p)
    <2>0. /\ st[p].pc = "migrate" /\ UNCHANGED <<fileVars, first>> /\ txOf # p /\ cat.old = {}
          /\ cat.file /\ ~cat.readonly /\ cat.version = CURRENT_SCHEMA_VERSION
      BY <1>2, <1>k, <1>x, <1>t, <1>n DEF Migrated, At, Knows, CURRENT_SCHEMA_VERSION
    <2>1. CASE Moves(p, "use", st[p].cur, st[p].at, st[p].i)
      <3>1. Knows(st'[p], cat)
        BY <2>0, <2>1 DEF Moves, Knows
      <3> QED BY <2>0, <2>1, <3>1, <1>t, QuietStep DEF fileVars
    <2>2. CASE Moves(p, "idle", 0, 0, 0)
      <3>1. Knows(st'[p], cat)
        BY <2>2, <1>e, EndedKnows DEF Moves
      <3> QED BY <2>0, <2>2, <3>1, <1>t, QuietStep DEF fileVars
    <2> QED BY <1>2, <2>1, <2>2, <1>t, AfterSchemaMoves DEF Migrated
  <1>3. CASE Use(p)
    <2>0. st[p].pc \in {"use", "compat"} /\ UNCHANGED <<tx, txOf, first>> /\ txOf = NoProc /\ cat.file
      BY <1>3, <1>k DEF Use, At, Knows
    <2>1. PICK how \in Ended : End(p, how)
      BY <1>3, <1>e DEF Use
    <2>2. Moves(p, how, 0, 0, 0)
      BY <2>1, <1>t, EndMoves
    <2>3. \A c : Knows(st'[p], c)
      BY <2>2, EndedKnows DEF Moves
    <2>4. CASE cat' = cat
      <3>1. how # "statement"
        BY <2>1 DEF Ended
      <3> QED BY <2>0, <2>2, <2>3, <2>4, <3>1, <1>t, <1>y, QuietStep
    <2>5. ASSUME ~cat.readonly, NEW r \in Rows,
                 cat' = [cat EXCEPT !.rows = @ \cup {r}, !.links = @ \cup {r}]
          PROVE  SchemaIInv'
      <3>1. /\ cat' \in Catalogs /\ cat'.file = cat.file /\ cat'.readonly = cat.readonly
            /\ cat'.version = cat.version /\ cat'.old = cat.old /\ cat'.oldRows = cat.oldRows
            /\ cat'.done = cat.done
        BY <2>5, <1>t DEF Catalogs
      <3>2. Sound(cat')
        BY <3>1, <1>s DEF Sound
      <3>3. Grows(cat, cat')
        BY <3>1, <2>0, <2>5, <1>k, <1>t DEF Grows, Knows, CURRENT_SCHEMA_VERSION
      <3>4. how # "statement"
        BY <2>1 DEF Ended
      <3> QED BY <2>0, <2>2, <2>3, <3>1, <3>2, <3>3, <3>4, <1>t, WriteStep
    <2> QED BY <1>3, <2>4, <2>5 DEF Use
  <1>4. CASE BeginImmediate(p)
    <2>0. /\ st[p].pc = "migrate" /\ st[p].cur # 0 /\ at <= CURRENT_SCHEMA_VERSION /\ txOf = NoProc
          /\ txOf' = p /\ tx' = cat /\ cat' = cat /\ first' = first
      BY <1>4 DEF BeginImmediate, At
    <2>1. Moves(p, "statement", st[p].cur, at, 1)
      BY <1>4, <1>t, MigrateMoves
    <2>2. \A q \in Procs \ {p} : st'[q] = st[q] /\ st[q].pc # "statement"
      BY <2>0, <2>1, <1>y DEF Moves, IInv, SchemaIInv, CatalogType, At
    <2>3. CatalogType'
      BY <2>0, <2>1, <2>2, <1>t DEF CatalogType, At, Moves
    <2>4. CatalogInv'
      BY <2>0 DEF IInv, SchemaIInv, CatalogInv
    <2>5. KnowsInv'
      <3>1. Knows(st'[p], cat)
        BY <2>0, <2>1, <1>k DEF Moves, Knows
      <3> QED BY <2>0, <2>2, <3>1 DEF IInv, SchemaIInv, KnowsInv
    <2>6. Copy(cat, cat, at, 1)
      BY <2>0, <1>k, <1>s, <1>n DEF Knows, Sound, Copy, Renamed, Missing, Statements
    <2>7. TxInv'
      BY <2>0, <2>1, <2>2, <2>6 DEF TxInv, At, Moves, Statements
    <2> QED BY <2>3, <2>4, <2>5, <2>7 DEF SchemaIInv
  <1>5. CASE RunStatement(p)
    <2>0. /\ st[p].pc = "statement" /\ i <= Statements(at) /\ UNCHANGED <<cat, txOf, first>>
          /\ tx' = Execute(tx, at, i, at \notin {5, 6})
      BY <1>5 DEF RunStatement, At
    <2>1. /\ txOf = p /\ Copy(cat, tx, at, i) /\ i \in 1..Statements(at) + 1
          /\ at \in 3..CURRENT_SCHEMA_VERSION
      BY <2>0, <1>x, <1>k DEF IInv, SchemaIInv, TxInv, At, Knows, CURRENT_SCHEMA_VERSION
    <2>2. i \in 1..Statements(at)
      BY <2>0, <2>1 DEF Statements
    <2>3. tx' \in Catalogs /\ Copy(cat, tx', at, i + 1)
      BY <2>0, <2>1, <2>2, <1>t, StatementRuns
    <2>4. Moves(p, "statement", st[p].cur, at, i + 1)
      BY <1>5, <1>t, MigrateMoves
    <2>5. \A q \in Procs \ {p} : st'[q] = st[q] /\ st[q].pc # "statement"
      BY <2>1, <2>4, <1>y DEF Moves, IInv, SchemaIInv, CatalogType, At
    <2>6. CatalogType'
      BY <2>0, <2>1, <2>3, <2>4, <2>5, <1>t DEF CatalogType, At, Moves
    <2>7. CatalogInv'
      BY <2>0 DEF IInv, SchemaIInv, CatalogInv
    <2>8. KnowsInv'
      <3>1. Knows(st'[p], cat)
        BY <2>0, <2>4, <1>k DEF Moves, Knows
      <3> QED BY <2>0, <2>5, <3>1 DEF IInv, SchemaIInv, KnowsInv
    <2>9. TxInv'
      <3>1. i + 1 \in 1..Statements(at) + 1
        BY <2>2 DEF Statements
      <3> QED BY <2>0, <2>3, <2>4, <2>5, <3>1 DEF TxInv, At, Moves
    <2> QED BY <2>6, <2>7, <2>8, <2>9 DEF SchemaIInv
  <1>6. CASE Commit(p)
    <2>0. /\ st[p].pc = "statement" /\ i > Statements(at) /\ cat' = tx /\ txOf' = NoProc /\ tx' = first
          /\ first' = first
      BY <1>6 DEF Commit, At
    <2>1. /\ txOf = p /\ Copy(cat, tx, at, i) /\ i \in 1..Statements(at) + 1
          /\ at \in 3..CURRENT_SCHEMA_VERSION /\ cat.old = {} /\ cat.version <= CURRENT_SCHEMA_VERSION
          /\ at = 3 \/ cat.version >= at - 1
      BY <2>0, <1>x, <1>k DEF IInv, SchemaIInv, TxInv, At, Knows, CURRENT_SCHEMA_VERSION
    <2>2. Moves(p, "migrate", st[p].cur, at + 1, 0)
      BY <1>6, <1>t, MigrateMoves
    <2>3. Renamed(at, i) = {} /\ Missing(at, i) = {} /\ (at = 5 => i > 5)
      BY <2>0, <2>1 DEF Renamed, Missing, Statements
    <2>4. /\ tx.file = cat.file /\ tx.readonly = cat.readonly /\ tx.old = {} /\ tx.oldRows = {}
          /\ cat.done \subseteq tx.done /\ New(at) \subseteq tx.done
          /\ tx.version = IF at > cat.version THEN at ELSE cat.version
      BY <2>0, <2>1, <2>3, <1>n DEF Copy, Statements
    <2>5. Grows(cat, tx)
      BY <2>1, <2>4, <1>t DEF Grows, CURRENT_SCHEMA_VERSION
    <2>6. Needs(cat.version) \subseteq tx.done /\ Tables \subseteq tx.done
      BY <2>0, <2>1, <2>4, <1>s, <1>k DEF Sound, Knows
    <2>7. Needs(tx.version) \subseteq tx.done
      <3>1. CASE at <= cat.version
        BY <2>4, <2>6, <3>1, <1>n, <1>t
      <3>2. CASE at > cat.version
        <4>1. Needs(at) \subseteq Needs(at - 1) \cup New(at)
          BY <2>1, NeedsAre
        <4>2. CASE at = 3
          BY <2>4, <2>6, <3>2, <4>1, <4>2, NeedsAre
        <4>3. CASE at # 3
          <5>1. cat.version = at - 1
            BY <2>1, <3>2, <4>3, <1>t, <1>n
          <5> QED BY <2>4, <2>6, <3>2, <4>1, <5>1
        <4> QED BY <4>2, <4>3
      <3> QED BY <3>1, <3>2, <1>t, <1>n
    <2>8. Sound(tx)
      BY <2>0, <2>1, <2>4, <2>7, <1>k, <1>t DEF Sound, Knows
    <2>9. Knows(st'[p], tx)
      BY <2>0, <2>1, <2>2, <2>4, <2>5, <2>6, <1>k, <1>t, <1>n DEF Moves, Knows, Grows, CURRENT_SCHEMA_VERSION
    <2> QED BY <2>0, <2>1, <2>2, <2>5, <2>8, <2>9, <1>t, WriteStep
  <1> QED BY <1>1, <1>2, <1>3, <1>4, <1>5, <1>6

\* The owner's repair of what the older build left.
LEMMA RepairStep ==
    ASSUME IInv, Repair
    PROVE  SchemaIInv'
  <1>1. /\ cat = first /\ LeftByOlder(cat) /\ cat \in Catalogs /\ tx \in Catalogs
        /\ \A p \in Procs : st[p].pc \in Ended /\ Knows(st[p], cat)
        /\ UNCHANGED <<tx, txOf, st, first>>
    BY DEF Repair, IInv, SchemaIInv, CatalogType, CatalogInv, KnowsInv
  <1> DEFINE names == (cat.done \ Columns("volumes")) \cup {"volumes", "verified_at"}
             refs == [u \in Children |-> IF cat.ref[u] = "volumes_old" THEN "volumes" ELSE cat.ref[u]]
  <1>2. names \in SUBSET Parts /\ Needs(4) \subseteq names
    <2>1. "CONSOLIDATING" \notin Needs(4)
      BY DEF Needs, Since
    <2>2. names \in SUBSET Parts
      BY <1>1, PartsAre DEF Catalogs, Tables
    <2> QED BY <2>1, <2>2, <1>1, ColumnsAre DEF LeftByOlder
  <1>3. refs \in Refs
    BY <1>1 DEF Catalogs, Refs
  <1>4. cat' = [cat EXCEPT !.old = @ \ {"volumes_old"}, !.rows = cat.oldRows, !.oldRows = {},
                           !.done = names, !.ref = refs]
    BY <1>1 DEF Repair, Catalogs
  <1> HIDE DEF names, refs
  <1>5. /\ cat' \in Catalogs /\ cat'.file = cat.file /\ cat'.version = cat.version
        /\ cat'.old = cat.old \ {"volumes_old"} /\ cat'.oldRows = {} /\ cat'.done = names
    BY <1>1, <1>2, <1>3, <1>4 DEF Catalogs
  <1>6. Sound(cat') /\ cat'.old = {}
    BY <1>1, <1>2, <1>5 DEF Sound, LeftByOlder
  <1>7. CatalogType'
    BY <1>1, <1>5 DEF IInv, SchemaIInv, CatalogType, At
  <1>8. CatalogInv'
    BY <1>1, <1>6 DEF IInv, SchemaIInv, CatalogInv
  <1>9. KnowsInv'
    <2>1. \A p \in Procs : Knows(st[p], cat')
      BY <1>1, EndedKnows DEF Knows, Ended
    <2> QED BY <2>1, <1>1 DEF KnowsInv
  <1>10. TxInv'
    BY <1>1 DEF TxInv, At, Ended
  <1> QED BY <1>7, <1>8, <1>9, <1>10 DEF SchemaIInv

\* The whole invariant is inductive.
LEMMA Inductive == Spec => []IInv
  <1>1. Init => IInv
    BY LockInit, SchemaInit DEF IInv
  <1>2. IInv /\ [Next]_vars => IInv'
    <2> SUFFICES ASSUME IInv, [Next]_vars PROVE IInv'
      OBVIOUS
    <2>1. LockIInv /\ cat.version \in Nat
      BY DEF IInv, SchemaIInv, CatalogType, Catalogs
    <2>2. LockIInv'
      BY <2>1, LockStep
    <2>3. ASSUME UNCHANGED vars PROVE SchemaIInv'
      <3>1. SchemaIInv /\ cat' = cat /\ tx' = tx /\ txOf' = txOf /\ st' = st /\ first' = first
        BY <2>3 DEF vars, IInv
      <3>2. CatalogType' /\ CatalogInv'
        BY <3>1 DEF SchemaIInv, CatalogType, CatalogInv, At
      <3>3. KnowsInv'
        BY <3>1 DEF SchemaIInv, KnowsInv
      <3>4. TxInv'
        BY <3>1 DEF SchemaIInv, TxInv, At
      <3> QED BY <3>2, <3>3, <3>4 DEF SchemaIInv
    <2>4. ASSUME Next PROVE SchemaIInv'
      <3>1. ASSUME NEW p \in Procs, Start(p) \/ Opening(p) \/ Use(p) \/ Leave(p) PROVE SchemaIInv'
        BY <3>1, OpeningStep, EnsureStep, MigrateStep DEF Opening
      <3> QED BY <2>4, <3>1, RepairStep DEF Next
    <2> QED BY <2>2, <2>3, <2>4 DEF IInv
  <1> QED BY <1>1, <1>2, PTL DEF Spec

-----------------------------------------------------------------------------
(* Theorems.                                                               *)

\* LockInv, of any number of processes: the lock has one owner, who is the
\* one locker past it; past the stamp the lock file names the owner, though
\* its predecessor may have been killed at any step.
THEOREM LockHasOneOwner == Spec => []LockInv
  <1>1. IInv => LockInv
    BY DEF IInv, LockIInv
  <1> QED BY <1>1, Inductive, PTL

\* SchemaInv, of any number of processes and any earlier catalog: at any
\* moment of any migration, also of several at once, the committed catalog
\* has what its version promises, it is current whenever a command works
\* with a catalog that ensure_schema migrated, and only an older build's
\* leftovers are ever seen.
THEOREM SchemaIsAsVersioned == Spec => []SchemaInv
  <1>1. IInv => SchemaInv
    <2> SUFFICES ASSUME IInv PROVE SchemaInv
      OBVIOUS
    <2>1. Lockers \subseteq Procs
      BY DEF Procs
    <2>2. ShapeAsVersion
      BY DEF IInv, SchemaIInv, CatalogInv, Sound, ShapeAsVersion
    <2>3. UsesCurrent
      BY <2>1, <2>2, NeedsAre
      DEF IInv, SchemaIInv, KnowsInv, Knows, UsesCurrent, ShapeAsVersion, At, CURRENT_SCHEMA_VERSION
    <2>4. NoNewLeftover
      BY DEF IInv, SchemaIInv, CatalogInv, NoNewLeftover
    <2> QED BY <2>2, <2>3, <2>4 DEF SchemaInv
  <1> QED BY <1>1, Inductive, PTL

\* A step that writes the catalog is the owner's repair, or a step of one
\* process on a catalog that is this build's to write, and keeps its rows.
LEMMA Writes ==
    ASSUME IInv, [Next]_vars, cat' # cat
    PROVE  \/ Repair
           \/ /\ ~Foreign(cat) /\ cat.old = {}
              /\ cat.rows \cup cat.oldRows \subseteq cat'.rows \cup cat'.oldRows
              /\ cat.links \subseteq cat'.links
  <1> DEFINE Kept == /\ ~Foreign(cat) /\ cat.old = {}
                     /\ cat.rows \cup cat.oldRows \subseteq cat'.rows \cup cat'.oldRows
                     /\ cat.links \subseteq cat'.links
  <1>t. cat \in Catalogs /\ Sound(cat) /\ cat.version \in Nat
    BY DEF IInv, SchemaIInv, CatalogType, CatalogInv, Catalogs
  <1>k. \A p \in Procs : Knows(st[p], cat)
    BY DEF IInv, SchemaIInv, KnowsInv
  <1>w. ASSUME NEW p \in Procs, st[p].pc \in {"table", "count", "insert", "migrate", "statement"}
        PROVE  ~Foreign(cat) /\ cat.old = {}
    BY <1>w, <1>k, <1>t DEF Knows, Foreign, CURRENT_SCHEMA_VERSION
  <1>1. ASSUME NEW p \in Procs, CreateFile(p) PROVE Kept
    <2>1. ~cat.file /\ cat' = [cat EXCEPT !.file = TRUE]
      BY <1>1 DEF CreateFile
    <2>2. ~Foreign(cat) /\ cat.old = {}
      BY <2>1, <1>t DEF Sound, Foreign, CURRENT_SCHEMA_VERSION
    <2>3. cat'.rows = cat.rows /\ cat'.oldRows = cat.oldRows /\ cat'.links = cat.links
      BY <2>1, <1>t DEF Catalogs
    <2> QED BY <2>2, <2>3
  <1>2. ASSUME NEW p \in Procs, CreateTable(p) PROVE Kept
    <2> DEFINE missing == MissingTables
               next    == CreateOrder[CHOOSE i \in missing : \A j \in missing : i <= j]
    <2>1. cat' = Create(cat, next) /\ missing # {} /\ st[p].pc = "table"
      BY <1>2 DEF CreateTable, At
    <2>2. missing # {} => next \in Tables
      BY NextTable DEF MissingTables
    <2> HIDE DEF missing, next
    <2>3. cat'.rows = cat.rows /\ cat'.oldRows = cat.oldRows /\ cat'.links = cat.links
      BY <2>1, <2>2, <1>t, CreateIs
    <2> QED BY <2>1, <2>3, <1>w
  <1>3. ASSUME NEW p \in Procs, InsertVersion(p) PROVE Kept
    <2>1. cat' = Record(cat, CURRENT_SCHEMA_VERSION) /\ CURRENT_SCHEMA_VERSION \in Nat /\ st[p].pc = "insert"
      BY <1>3 DEF InsertVersion, CURRENT_SCHEMA_VERSION, At
    <2>2. cat'.rows = cat.rows /\ cat'.oldRows = cat.oldRows /\ cat'.links = cat.links
      BY <2>1, <1>t, RecordIs
    <2> QED BY <2>1, <2>2, <1>w
  <1>4. ASSUME NEW p \in Procs, Commit(p) PROVE Kept
    <2>1. cat' = tx /\ st[p].pc = "statement" /\ st[p].i > Statements(st[p].at)
      BY <1>4 DEF Commit, At
    <2>2. Copy(cat, tx, st[p].at, st[p].i)
      BY <2>1 DEF IInv, SchemaIInv, TxInv, At
    <2>3. tx.rows = cat.rows /\ tx.links = cat.links
      BY <2>1, <2>2 DEF Copy, Statements
    <2>4. cat.oldRows = {}
      BY <2>1, <1>w, <1>t DEF Sound
    <2> QED BY <2>1, <2>3, <2>4, <1>w
  <1>5. ASSUME NEW p \in Procs, Use(p) PROVE Kept
    <2>1. PICK r \in Rows : ~cat.readonly /\ cat' = [cat EXCEPT !.rows = @ \cup {r}, !.links = @ \cup {r}]
      BY <1>5 DEF Use
    <2>2. st[p].pc \in {"use", "compat"}
      BY <1>5 DEF Use
    <2>3. ~Foreign(cat) /\ cat.old = {}
      BY <2>1, <2>2, <1>k, <1>t DEF Knows, Foreign, CURRENT_SCHEMA_VERSION
    <2>4. cat'.rows = cat.rows \cup {r} /\ cat'.oldRows = cat.oldRows /\ cat'.links = cat.links \cup {r}
      BY <2>1, <1>t DEF Catalogs
    <2> QED BY <2>3, <2>4
  <1>6. ASSUME NEW p \in Procs, Start(p) \/ Opening(p) \/ Use(p) \/ Leave(p) PROVE Kept
    <2> HIDE DEF Kept
    <2> QED
      BY <1>6, <1>1, <1>2, <1>3, <1>4, <1>5
      DEF Opening, Start, LockTimeout, Leave, RollBack, StatementRefused, Busy, TryLock, Acquire,
          StampHolder, Connect, EnsureSchema, CountVersions, ReadVersion, BeginImmediate, RunStatement,
          Migrated, Look, fileVars
  <1> QED BY <1>6 DEF Next, vars

\* RowsKept, of any catalog and any processes: no step loses a committed
\* volume or the packs recorded on it.
THEOREM NoRowIsLost == Spec => RowsKept
  <1>1. IInv /\ [Next]_vars =>
            [/\ cat.rows \cup cat.oldRows \subseteq cat'.rows \cup cat'.oldRows
             /\ cat.links \subseteq cat'.links]_vars
    <2> SUFFICES ASSUME IInv, [Next]_vars
                 PROVE  /\ cat.rows \cup cat.oldRows \subseteq cat'.rows \cup cat'.oldRows
                        /\ cat.links \subseteq cat'.links
      OBVIOUS
    <2>1. CASE cat' = cat
      BY <2>1
    <2>2. CASE Repair
      <3>1. cat \in Catalogs /\ cat.rows = {}
        BY <2>2 DEF Repair, IInv, SchemaIInv, CatalogType
      <3>2. cat'.rows = cat.oldRows /\ cat'.links = cat.links
        BY <2>2, <3>1 DEF Repair, Catalogs
      <3> QED BY <3>1, <3>2
    <2> QED BY <2>1, <2>2, Writes
  <1> QED BY <1>1, Inductive, PTL DEF Spec, RowsKept

\* Untouched: the catalog of a newer build and a read-only one are never
\* written, and a wedged one only by the owner's repair.
THEOREM ForeignIsUntouched == Spec => Untouched
  <1>1. IInv /\ [Next]_vars =>
            [/\ Foreign(cat) => cat' = cat
             /\ cat.old # {} /\ cat' # cat => \A p \in Procs : st[p].pc \in Ended /\ st' = st]_vars
    <2> SUFFICES ASSUME IInv, [Next]_vars
                 PROVE  /\ Foreign(cat) => cat' = cat
                        /\ cat.old # {} /\ cat' # cat => \A p \in Procs : st[p].pc \in Ended /\ st' = st
      OBVIOUS
    <2>1. CASE cat' = cat
      BY <2>1
    <2>2. CASE Repair
      <3>1. cat = first /\ first.old # {} /\ LeftByOlder(cat)
        BY <2>2 DEF Repair, IInv, SchemaIInv, CatalogInv
      <3>2. ~Foreign(cat)
        BY <3>1 DEF Foreign, LeftByOlder, CURRENT_SCHEMA_VERSION
      <3> QED BY <2>2, <3>2 DEF Repair
    <2> QED BY <2>1, <2>2, Writes
  <1> QED BY <1>1, Inductive, PTL DEF Spec, Untouched
=============================================================================

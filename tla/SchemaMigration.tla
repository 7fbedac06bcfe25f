--------------------------- MODULE SchemaMigration ---------------------------
(***************************************************************************)
(* initialize_schema of infrastructure/db/schema.py, as run by every       *)
(* process that opens the database: a chain of migrations of one version   *)
(* each, then CREATE ... IF NOT EXISTS for everything, then the            *)
(* normalisation of the rows and the version of a new database.            *)
(*                                                                         *)
(* What a crash leaves behind depends on where Python's sqlite3 opens a    *)
(* transaction: data definition statements commit on their own unless a    *)
(* transaction is open, an UPDATE or INSERT opens one, and executescript   *)
(* commits it.  So the statements of the FIRST migration of a chain commit *)
(* one by one, and everything after its UPDATE of the version commits      *)
(* together.                                                               *)
(*                                                                         *)
(* An operator Name_Variant is Name with a fault put in: it is used only   *)
(* to see that a property notices the fault.                               *)
(***************************************************************************)
EXTENDS Integers, Sequences

CONSTANTS Procs,    \* the processes that may open the database
          None

ASSUME NoneAssumption == None \notin Procs \cup Int

VARIABLES db,       \* the committed content of the file
          work,     \* the content as the open transaction sees it
          writer,   \* the process whose transaction is open
          conn      \* where each process is within initialize_schema

schemaVars == <<db, work, writer, conn>>

Current == 7
MinSupported == 2

Columns == {"browser_tab_id", "browser_page_url"}
Added == {"notification_throttle_states", "runtime_state_events", "display_settings"}
Objects == {"base"} \cup Columns \cup Added

Rows == [enabled : BOOLEAN, paused : {"null", "manually_disabled", "other"}]
Versions == 1..(Current + 1) \cup {None}
Contents == [version : Versions, objects : SUBSET Objects, rows : SUBSET Rows]

\* The objects a database of version n has.
SchemaOf(n) ==
    {"base"} \cup (IF n >= 4 THEN Columns ELSE {})
             \cup (IF n >= 5 THEN {"notification_throttle_states"} ELSE {})
             \cup (IF n >= 6 THEN {"runtime_state_events"} ELSE {})
             \cup (IF n >= 7 THEN {"display_settings"} ELSE {})

\* The statements of the migration from version n, before the UPDATE of the
\* version.
Statements(n) ==
    CASE n = 3 -> <<"browser_tab_id", "browser_page_url">>
      [] n = 4 -> <<"notification_throttle_states">>
      [] n = 5 -> <<"runtime_state_events", "normalize">>
      [] n = 6 -> <<"display_settings">>
      [] OTHER -> <<>>

\* A pause other than the manual one belongs to an enabled watch, the manual
\* one to a disabled watch.
NormalRow(r) == r.paused = "null" \/ r.enabled = (r.paused # "manually_disabled")
Normalize_EnabledOnly(rows) ==
    {[r EXCEPT !.enabled = @ \/ r.paused = "other"] : r \in rows}
Normalize(rows) ==
    {[r EXCEPT !.enabled = IF r.paused = "null" THEN @ ELSE r.paused # "manually_disabled"] :
        r \in rows}

Idle == [at |-> "idle", version |-> None, done |-> 0]
Places == {"idle", "read", "migrate", "script", "create", "finish", "ready", "failed"}

SchemaInit(initial) ==
    /\ db = initial
    /\ work = initial
    /\ writer = None
    /\ conn = [p \in Procs |-> Idle]

\* What p's own connection reads, and whether it gets the write lock.
Seen(p) == IF writer = p THEN work ELSE db
MayWrite(p) == writer \in {None, p}

GoTo(p, place) == conn' = [conn EXCEPT ![p].at = place]

\* The transaction of p, if one is open, is rolled back.
RollBack(p) ==
    /\ writer' = IF writer = p THEN None ELSE writer
    /\ UNCHANGED <<db, work>>

Fail(p) == GoTo(p, "failed") /\ RollBack(p)

Connect(p) ==
    /\ conn[p].at = "idle"
    /\ GoTo(p, "read")
    /\ UNCHANGED <<db, work, writer>>

\* A database without a version is new, or its first initialisation did not
\* end: no migration.
ReadVersion(p) ==
    /\ conn[p].at = "read"
    /\ \/ /\ db.version = None
          /\ GoTo(p, "script")
          /\ UNCHANGED <<db, work, writer>>
       \/ /\ db.version # None /\ db.version < MinSupported
          /\ Fail(p)
       \/ /\ db.version # None /\ db.version >= MinSupported
          /\ conn' = [conn EXCEPT ![p] = [at |-> "migrate", version |-> db.version, done |-> 0]]
          /\ UNCHANGED <<db, work, writer>>

\* One statement of a migration.  ALTER TABLE fails when its column is there,
\* CREATE TABLE IF NOT EXISTS does not fail; both commit at once unless a
\* transaction is open.  The normalisation is an UPDATE and opens one.
Duplicate(p, statement) == statement \in Columns \cap Seen(p).objects

Autocommits(p) == writer # p

MigrateStatement(p) ==
    LET chain == Statements(conn[p].version)
        statement == chain[conn[p].done + 1]
        altered == [Seen(p) EXCEPT !.objects = @ \cup {statement}] IN
    /\ conn[p].at = "migrate" /\ conn[p].version < Current
    /\ conn[p].done < Len(chain)
    /\ MayWrite(p)
    /\ \/ Duplicate(p, statement) /\ Fail(p)
       \/ /\ ~Duplicate(p, statement)
          /\ conn' = [conn EXCEPT ![p].done = @ + 1]
          /\ \/ /\ statement = "normalize"
                /\ writer' = p
                /\ work' = [Seen(p) EXCEPT !.rows = Normalize(@)]
                /\ UNCHANGED db
             \/ /\ statement # "normalize" /\ Autocommits(p)
                /\ db' = altered
                /\ UNCHANGED <<work, writer>>
             \/ /\ statement # "normalize" /\ ~Autocommits(p)
                /\ work' = altered
                /\ writer' = p
                /\ UNCHANGED db

\* The UPDATE of the version that ends a migration.
NextMigration(c) == [c EXCEPT !.version = @ + 1, !.done = 0]

VersionWritten_Committed(p, content) == db' = content /\ UNCHANGED <<work, writer>>
VersionWritten(p, content) == work' = content /\ writer' = p /\ UNCHANGED db

UpdateVersion(p) ==
    /\ conn[p].at = "migrate" /\ conn[p].version < Current
    /\ conn[p].done = Len(Statements(conn[p].version))
    /\ MayWrite(p)
    /\ VersionWritten(p, [Seen(p) EXCEPT !.version = conn[p].version + 1])
    /\ conn' = [conn EXCEPT ![p] = NextMigration(@)]

\* The version is read again after the chain, and must be the current one.
Validate(p) ==
    /\ conn[p].at = "migrate" /\ conn[p].version >= Current
    /\ \/ Seen(p).version = Current /\ GoTo(p, "script") /\ UNCHANGED <<db, work, writer>>
       \/ Seen(p).version # Current /\ Fail(p)

\* executescript commits what is open before its first statement.
CommitMigrations(p) ==
    /\ conn[p].at = "script"
    /\ conn' = [conn EXCEPT ![p] = [@ EXCEPT !.at = "create", !.done = 0]]
    /\ db' = Seen(p)
    /\ writer' = IF writer = p THEN None ELSE writer
    /\ UNCHANGED work

\* The CREATE ... IF NOT EXISTS of the script, each committed at once.  A table
\* that exists keeps the columns it has; "base" stands for the tables of the
\* first version, the one with the added columns among them.
Tables == <<"base", "notification_throttle_states", "runtime_state_events", "display_settings">>
Created(table, objects) ==
    objects \cup {table} \cup (IF table = "base" /\ table \notin objects THEN Columns ELSE {})

CreateMissing(p) ==
    /\ conn[p].at = "create" /\ writer = None
    /\ db' = [db EXCEPT !.objects = Created(Tables[conn[p].done + 1], @)]
    /\ \/ /\ conn[p].done + 1 < Len(Tables)
          /\ conn' = [conn EXCEPT ![p].done = @ + 1]
       \/ /\ conn[p].done + 1 = Len(Tables)
          /\ GoTo(p, "finish")
    /\ UNCHANGED <<work, writer>>

\* The last transaction: the rows again, and the version of a new database.
Finish(p) ==
    /\ conn[p].at = "finish" /\ writer = None
    /\ db' = [db EXCEPT !.rows = Normalize(@),
                        !.version = IF @ = None THEN Current ELSE @]
    /\ GoTo(p, "ready")
    /\ UNCHANGED <<work, writer>>

\* A statement that waited for the lock of another process for too long.
Busy(p) ==
    /\ conn[p].at \in {"migrate", "create", "finish"}
    /\ ~MayWrite(p)
    /\ Fail(p)

\* The process dies, and with it its transaction.
Lost(p) ==
    /\ conn' = [conn EXCEPT ![p] = Idle]
    /\ RollBack(p)

InitializeStep(p) ==
    \/ ReadVersion(p) \/ MigrateStatement(p) \/ UpdateVersion(p) \/ Validate(p)
    \/ CommitMigrations(p) \/ CreateMissing(p) \/ Finish(p) \/ Busy(p)

------------------------------------------------------------------------------
SchemaTypeOK ==
    /\ db \in Contents
    /\ work \in Contents
    /\ writer \in Procs \cup {None}
    /\ conn \in [Procs -> [at : Places, version : 1..(Current + 1) \cup {None}, done : 0..3]]

\* Whatever the crashes and whoever else migrates: the version in the file
\* never claims an object the file lacks, so that a later migration or query
\* relies on the version rightly.
VersionTellsSchema ==
    db.version \in MinSupported..Current => SchemaOf(db.version) \subseteq db.objects

\* A process that has initialised the database has all of it: the current
\* version, every table and column, and no row whose pause contradicts its
\* enabled flag.
ReadyIsCurrent ==
    \A p \in Procs : conn[p].at = "ready" =>
        /\ db.version = Current
        /\ db.objects = Objects
        /\ \A r \in db.rows : NormalRow(r)

\* A file no start can open any more, because the next one repeats an ALTER
\* TABLE that has been done.
Wedged == db.version = 3 /\ db.objects \cap Columns # {}

\* The migration leaves such a file behind in one case only: the chain started
\* at version 3, whose ALTER TABLEs commit one by one.  In particular no file
\* of version 2 ends like that, although the same statements run for it, and
\* a version between the first and the current one is never committed.
WedgedOnlyFromThree(origin) ==
    /\ Wedged => origin = 3
    /\ db.version \in {origin, Current}
=============================================================================

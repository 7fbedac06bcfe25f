----------------------------- MODULE Startup_proof -----------------------------
(***************************************************************************)
(* Proofs about Startup and the SchemaMigration in it, for any number of   *)
(* processes: its types, what the database file tells, what an initialised *)
(* process can rely on, and who holds the lock file.                       *)
(***************************************************************************)
EXTENDS Startup, TLAPS

USE NoneAssumption, StartupAssumption

-----------------------------------------------------------------------------
(* The chain of migrations                                                 *)

\* The statements of each migration.
LEMMA Chain ==
    ASSUME NEW v \in MinSupported..(Current - 1)
    PROVE  /\ Len(Statements(v)) \in 0..2
           /\ \A i \in 1..Len(Statements(v)) : Statements(v)[i] \in Objects \cup {"normalize"}
<1>1. v \in {2, 3, 4, 5, 6}
  BY DEF MinSupported, Current
<1>2. CASE v = 2
  <2>1. Statements(v) = <<>>
    BY <1>2 DEF Statements
  <2> QED
    BY <2>1
<1>3. CASE v = 3
  <2>1. Statements(v) = <<"browser_tab_id", "browser_page_url">>
    BY <1>3 DEF Statements
  <2> QED
    BY <2>1 DEF Objects, Columns
<1>4. CASE v = 4
  <2>1. Statements(v) = <<"notification_throttle_states">>
    BY <1>4 DEF Statements
  <2> QED
    BY <2>1 DEF Objects, Added
<1>5. CASE v = 5
  <2>1. Statements(v) = <<"runtime_state_events", "normalize">>
    BY <1>5 DEF Statements
  <2> QED
    BY <2>1 DEF Objects, Added
<1>6. CASE v = 6
  <2>1. Statements(v) = <<"display_settings">>
    BY <1>6 DEF Statements
  <2> QED
    BY <2>1 DEF Objects, Added
<1> QED
  BY <1>1, <1>2, <1>3, <1>4, <1>5, <1>6

\* What a migration has made when all its statements are done.
Made(v, done, objects) ==
    \A i \in 1..done : Statements(v)[i] \in objects \cup {"normalize"}

\* A migration that is done leaves the schema of the next version.
LEMMA ChainEnds ==
    ASSUME NEW v \in MinSupported..(Current - 1), NEW objects,
           SchemaOf(v) \subseteq objects, Made(v, Len(Statements(v)), objects)
    PROVE  SchemaOf(v + 1) \subseteq objects
<1>1. v \in {2, 3, 4, 5, 6}
  BY DEF MinSupported, Current
<1>2. CASE v = 2
  BY <1>2 DEF SchemaOf
<1>3. CASE v = 3
  <2>1. Statements(v) = <<"browser_tab_id", "browser_page_url">>
    BY <1>3 DEF Statements
  <2>2. Columns \subseteq objects
    BY <2>1 DEF Made, Columns
  <2> QED
    BY <1>3, <2>2 DEF SchemaOf
<1>4. CASE v = 4
  <2>1. Statements(v) = <<"notification_throttle_states">>
    BY <1>4 DEF Statements
  <2>2. "notification_throttle_states" \in objects
    BY <2>1 DEF Made
  <2> QED
    BY <1>4, <2>2 DEF SchemaOf
<1>5. CASE v = 5
  <2>1. Statements(v) = <<"runtime_state_events", "normalize">>
    BY <1>5 DEF Statements
  <2>2. "runtime_state_events" \in objects
    BY <2>1 DEF Made
  <2> QED
    BY <1>5, <2>2 DEF SchemaOf
<1>6. CASE v = 6
  <2>1. Statements(v) = <<"display_settings">>
    BY <1>6 DEF Statements
  <2>2. "display_settings" \in objects
    BY <2>1 DEF Made
  <2> QED
    BY <1>6, <2>2 DEF SchemaOf
<1> QED
  BY <1>1, <1>2, <1>3, <1>4, <1>5, <1>6

\* The current version has everything.
LEMMA CurrentSchema == SchemaOf(Current) = Objects
  BY DEF SchemaOf, Objects, Added, Current

\* The normalisation leaves rows, and normal ones.
Normal(rows) == \A r \in rows : NormalRow(r)

LEMMA NormalizedRows ==
    ASSUME NEW rows \in SUBSET Rows
    PROVE  Normalize(rows) \in SUBSET Rows /\ Normal(Normalize(rows))
  BY ZenonT(40) DEF Normalize, Rows, Normal, NormalRow

-----------------------------------------------------------------------------
(* The database file                                                       *)

\* A version of another program, older than the migrations or newer than this
\* program: nobody writes anything.
Unsupported == origin.version \in Versions \ (MinSupported..Current \cup {None})

UnsupportedInv ==
    Unsupported =>
        /\ db.version = origin.version /\ writer = None
        /\ \A p \in Procs : \/ conn[p].at \in {"idle", "read", "failed"}
                            \/ conn[p].at = "migrate" /\ conn[p].version > Current

\* What is committed: the version the file had or the current one, and what
\* that version claims.
FileInv ==
    /\ db.version \in {origin.version, Current}
    /\ VersionTellsSchema
    /\ db.version = None /\ "base" \in db.objects => Columns \subseteq db.objects

\* An open transaction takes nothing back, and is whole when its chain has ended.
WriterInv ==
    writer # None =>
        /\ conn[writer].at \in {"migrate", "script"}
        /\ db.objects \subseteq work.objects
        /\ Normal(db.rows) => Normal(work.rows)
        /\ conn[writer].at = "script" => work.version = Current /\ work.objects = Objects

\* What a chain has made so far is in what its process sees, committed or not.
Progress(p) ==
    /\ conn[p].version \in MinSupported..(Current + 1)
    /\ conn[p].version > Current => Unsupported
    /\ origin.version = None => conn[p].version = Current
    /\ conn[p].version <= Current => SchemaOf(conn[p].version) \subseteq Seen(p).objects
    /\ conn[p].version < Current =>
          /\ conn[p].done \in 0..Len(Statements(conn[p].version))
          /\ Made(conn[p].version, conn[p].done, Seen(p).objects)

MigrationInv == \A p \in Procs : conn[p].at = "migrate" => Progress(p)

\* A process past its migrations, with no transaction open.
Existing(n, objects) == \A i \in 1..n : Tables[i] \in objects

InitializedInv ==
    \A p \in Procs :
        /\ conn[p].at \in {"script", "create", "finish"} /\ writer # p =>
              db.version \in {None, Current}
        /\ conn[p].at = "create" => Existing(conn[p].done, db.objects)
        /\ conn[p].at \in {"finish", "ready"} => db.objects = Objects
        /\ conn[p].at = "ready" => db.version = Current /\ Normal(db.rows)

SchemaInv == /\ SchemaTypeOK /\ origin \in Initial
             /\ UnsupportedInv /\ FileInv /\ WriterInv /\ MigrationInv /\ InitializedInv

LEMMA InitSchema == Init => SchemaInv
<1> SUFFICES ASSUME Init PROVE SchemaInv
  OBVIOUS
<1> USE DEF Init, SchemaInit
<1>1. origin \in Initial /\ db = origin /\ db \in Contents
  OBVIOUS
<1>2. SchemaTypeOK
  BY <1>1 DEF SchemaTypeOK, Idle, Places
<1>3. UnsupportedInv /\ WriterInv /\ MigrationInv /\ InitializedInv
  BY <1>1 DEF UnsupportedInv, WriterInv, MigrationInv, InitializedInv, Idle
<1>4. FileInv
  BY <1>1, FilesAssumption DEF FileInv, VersionTellsSchema
<1> QED
  BY <1>1, <1>2, <1>3, <1>4 DEF SchemaInv

\* What a step of the program does to the database.
DatabaseStep ==
    \/ UNCHANGED schemaVars
    \/ \E p \in Procs : Connect(p) \/ Lost(p) \/ InitializeStep(p)

LEMMA StepDatabase == [Next]_vars => DatabaseStep /\ UNCHANGED origin
<1> SUFFICES ASSUME [Next]_vars PROVE DatabaseStep /\ UNCHANGED origin
  OBVIOUS
<1>1. ASSUME NEW p \in Procs, StartStep(p) PROVE DatabaseStep
  <2>1. CASE FindChrome(p) \/ StartUrlResolved(p) \/ BindPort(p) \/ InitializeDatabase(p)
    BY <2>1 DEF FindChrome, StartUrlResolved, BindPort, InitializeDatabase, DatabaseStep
  <2>2. CASE ReadLock(p) \/ CheckPort(p) \/ Decide(p) \/ Probe(p) \/ LaunchChrome(p)
             \/ WaitForChrome(p) \/ LoadApp(p) \/ WriteLock(p)
    BY <2>2 DEF ReadLock, CheckPort, Decide, Probe, LaunchChrome, WaitForChrome, LoadApp,
                WriteLock, DatabaseStep
  <2>3. CASE CleanStaleLock(p) \/ RemoveOwnLock(p)
    BY <2>3 DEF CleanStaleLock, RemoveOwnLock, RemoveLock, DatabaseStep
  <2>4. CASE OrphanServes(p) \/ OrphanEnds(p)
    BY <2>4 DEF OrphanServes, OrphanEnds, DatabaseStep
  <2> QED
    BY <1>1, <2>1, <2>2, <2>3, <2>4 DEF StartStep
<1>2. ASSUME NEW p \in Procs, Stop(p) \/ Kill(p) \/ ReusePid(p) PROVE DatabaseStep
  BY <1>2 DEF Stop, Kill, ReusePid, DatabaseStep
<1>3. ASSUME ChromeReady PROVE DatabaseStep
  BY <1>3 DEF ChromeReady, DatabaseStep
<1>4. ASSUME UNCHANGED vars PROVE DatabaseStep
  BY <1>4 DEF vars, DatabaseStep
<1>5. ASSUME Next PROVE DatabaseStep /\ UNCHANGED origin
  BY <1>1, <1>2, <1>3, <1>5 DEF Next
<1> QED
  BY <1>4, <1>5 DEF vars

\* A process that is not initialising, or no longer, with no transaction.
LEMMA Leaves ==
    ASSUME SchemaInv, UNCHANGED <<db, work, origin>>, NEW p \in Procs,
           NEW c \in [at : {"idle", "read", "failed"}, version : Versions, done : 0..3],
           conn' = [conn EXCEPT ![p] = c],
           writer' = IF writer = p THEN None ELSE writer
    PROVE  SchemaInv'
<1> USE DEF SchemaInv
<1>1. /\ conn'[p] = c
      /\ \A q \in Procs \ {p} : conn'[q] = conn[q] /\ Seen(q)' = Seen(q)
  BY DEF SchemaTypeOK, Seen
<1>2. SchemaTypeOK'
  BY DEF SchemaTypeOK, Places, Versions
<1>3. UnsupportedInv'
  BY <1>1 DEF UnsupportedInv, Unsupported
<1>4. FileInv' /\ WriterInv'
  BY <1>1 DEF FileInv, VersionTellsSchema, WriterInv, SchemaTypeOK
<1>5. MigrationInv'
  BY <1>1 DEF MigrationInv, Progress, Made, Unsupported
<1>6. InitializedInv'
  BY <1>1 DEF InitializedInv
<1> QED
  BY <1>2, <1>3, <1>4, <1>5, <1>6

LEMMA ReadVersionKeeps ==
    ASSUME SchemaInv, UNCHANGED origin, NEW p \in Procs, ReadVersion(p)
    PROVE  SchemaInv'
<1> USE DEF SchemaInv
<1>1. writer # p /\ Seen(p) = db
  BY DEF WriterInv, ReadVersion, Seen
<1>2. CASE Fail(p)
  <2>1. conn' = [conn EXCEPT ![p] = [conn[p] EXCEPT !.at = "failed"]]
    BY <1>2 DEF Fail, GoTo
  <2>2. [conn[p] EXCEPT !.at = "failed"] \in
            [at : {"idle", "read", "failed"}, version : Versions, done : 0..3]
    BY DEF SchemaTypeOK, Versions
  <2> QED
    BY <1>2, <2>1, <2>2, Leaves DEF Fail, RollBack
<1>3. CASE db.version = None /\ GoTo(p, "script") /\ UNCHANGED <<db, work, writer>>
  <2>1. conn'[p].at = "script" /\ \A q \in Procs \ {p} : conn'[q] = conn[q]
    BY <1>3 DEF GoTo, SchemaTypeOK
  <2>2. SchemaTypeOK'
    BY <1>3 DEF GoTo, SchemaTypeOK, Places
  <2>3. ~Unsupported
    BY <1>3 DEF FileInv, Unsupported, Current
  <2>4. UnsupportedInv' /\ FileInv' /\ WriterInv'
    BY <1>1, <1>3, <2>1, <2>3 DEF UnsupportedInv, Unsupported, FileInv, VersionTellsSchema,
                                  WriterInv, SchemaTypeOK
  <2>5. MigrationInv' /\ InitializedInv'
    BY SMTT(30), <1>1, <1>3, <2>1 DEF MigrationInv, Progress, Made, Unsupported, Seen, InitializedInv
  <2> QED
    BY <2>2, <2>4, <2>5
<1>4. CASE /\ db.version # None /\ db.version >= MinSupported
           /\ conn' = [conn EXCEPT ![p] = [at |-> "migrate", version |-> db.version, done |-> 0]]
           /\ UNCHANGED <<db, work, writer>>
  <2>1. /\ conn'[p] = [at |-> "migrate", version |-> db.version, done |-> 0]
        /\ \A q \in Procs \ {p} : conn'[q] = conn[q]
    BY <1>4 DEF SchemaTypeOK
  <2>2. db.version \in MinSupported..(Current + 1)
    BY <1>4 DEF SchemaTypeOK, Contents, Versions, MinSupported, Current
  <2>3. SchemaTypeOK'
    BY <1>4, <2>2 DEF SchemaTypeOK, Places, MinSupported, Current
  <2>4. Unsupported => db.version > Current
    BY <2>2 DEF UnsupportedInv, Unsupported, Versions, Current, MinSupported
  <2>5. UnsupportedInv' /\ FileInv' /\ WriterInv'
    BY <1>1, <1>4, <2>1, <2>4 DEF UnsupportedInv, Unsupported, FileInv, VersionTellsSchema,
                                  WriterInv, SchemaTypeOK
  <2>6. Progress(p)'
    <3>1. db.version > Current => Unsupported'
      BY <2>2 DEF FileInv, Unsupported, Versions, Current, MinSupported
    <3>2. db.version <= Current => SchemaOf(db.version) \subseteq db.objects
      BY <2>2 DEF FileInv, VersionTellsSchema, Current, MinSupported
    <3>3. db.version < Current => Len(Statements(db.version)) \in 0..2
      BY <2>2, Chain DEF Current, MinSupported
    <3>4. Seen(p)' = db
      BY <1>1, <1>4 DEF Seen
    <3> QED
      BY <1>4, <2>1, <2>2, <3>1, <3>2, <3>3, <3>4 DEF Progress, Made, FileInv
  <2>7. MigrationInv' /\ InitializedInv'
    BY <1>4, <2>1, <2>6 DEF MigrationInv, Progress, Made, Unsupported, Seen, InitializedInv
  <2> QED
    BY <2>3, <2>5, <2>7
<1> QED
  BY <1>2, <1>3, <1>4 DEF ReadVersion

\* A failed migration rolls back.
LEMMA FailKeeps ==
    ASSUME SchemaInv, UNCHANGED origin, NEW p \in Procs, Fail(p)
    PROVE  SchemaInv'
<1>1. conn' = [conn EXCEPT ![p] = [conn[p] EXCEPT !.at = "failed"]]
  BY DEF Fail, GoTo
<1>2. [conn[p] EXCEPT !.at = "failed"] \in
          [at : {"idle", "read", "failed"}, version : Versions, done : 0..3]
  BY DEF SchemaInv, SchemaTypeOK, Versions
<1> QED
  BY <1>1, <1>2, Leaves DEF Fail, RollBack

\* A process in its migrations has a supported version to go on from.
LEMMA Migrating ==
    ASSUME SchemaInv, NEW p \in Procs, conn[p].at = "migrate", conn[p].version < Current,
           MayWrite(p)
    PROVE  /\ ~Unsupported
           /\ conn[p].version \in MinSupported..(Current - 1)
           /\ origin.version # None /\ db.version # None
           /\ Seen(p) \in Contents
           /\ db.objects \subseteq Seen(p).objects
           /\ Normal(db.rows) => Normal(Seen(p).rows)
           /\ \A q \in Procs \ {p} : writer # q
<1> USE DEF SchemaInv
<1>1. Progress(p) /\ conn[p].version \in MinSupported..(Current - 1)
  BY DEF MigrationInv, Progress, MinSupported, Current
<1>2. ~Unsupported
  BY <1>1 DEF UnsupportedInv, MinSupported, Current
<1>3. origin.version # None
  BY <1>1 DEF Progress, Current
<1>4. db.version # None
  BY <1>3, NoneAssumption DEF FileInv, Current
<1>5. /\ Seen(p) \in Contents
      /\ db.objects \subseteq Seen(p).objects
      /\ Normal(db.rows) => Normal(Seen(p).rows)
  BY DEF Seen, SchemaTypeOK, WriterInv
<1>6. \A q \in Procs \ {p} : writer # q
  BY DEF MayWrite
<1> QED
  BY <1>1, <1>2, <1>3, <1>4, <1>5, <1>6

\* What a step of p within its migrations must do: to keep its progress, and to
\* write either the file, adding to its objects, or its transaction.
LEMMA MigrationKeeps ==
    ASSUME SchemaInv, UNCHANGED origin,
           NEW p \in Procs, conn[p].at = "migrate", conn[p].version < Current, MayWrite(p),
           NEW c \in [at : {"migrate"}, version : Versions, done : 0..3],
           conn' = [conn EXCEPT ![p] = c],
           NEW content \in Contents, Seen(p).objects \subseteq content.objects,
           Normal(Seen(p).rows) => Normal(content.rows),
           \/ /\ writer # p /\ content.version = db.version
              /\ db' = content /\ UNCHANGED <<work, writer>>
           \/ work' = content /\ writer' = p /\ UNCHANGED db,
           Progress(p)'
    PROVE  SchemaInv'
<1> USE DEF SchemaInv
<1>1. /\ conn'[p] = c /\ c.at = "migrate"
      /\ \A q \in Procs \ {p} : conn'[q] = conn[q]
  BY DEF SchemaTypeOK
<1>2. SchemaTypeOK'
  BY DEF SchemaTypeOK, Places, Versions
<1>3. UnsupportedInv'
  BY Migrating DEF UnsupportedInv, Unsupported
<1>4. FileInv'
  <2>1. db'.version = db.version /\ db.objects \subseteq db'.objects
    BY Migrating
  <2> QED
    BY <2>1, Migrating DEF FileInv, VersionTellsSchema
<1>5. WriterInv'
  BY <1>1, Migrating DEF WriterInv, MayWrite
<1>6. MigrationInv'
  <2>1. ASSUME NEW q \in Procs \ {p}, conn'[q].at = "migrate" PROVE Progress(q)'
    <3>1. Progress(q) /\ conn'[q] = conn[q]
      BY <1>1, <2>1 DEF MigrationInv
    <3>2. Seen(q).objects \subseteq Seen(q)'.objects
      BY Migrating DEF Seen
    <3> QED
      BY <3>1, <3>2 DEF Progress, Made, Unsupported
  <2> QED
    BY <2>1 DEF MigrationInv
<1>7. InitializedInv'
  <2>1. db'.version = db.version /\ db.objects \subseteq db'.objects
        /\ (Normal(db.rows) => Normal(db'.rows))
    BY Migrating
  <2>2. ASSUME db.objects = Objects PROVE db'.objects = Objects
    BY <1>2, <2>1, <2>2 DEF SchemaTypeOK, Contents
  <2>3. \A q \in Procs \ {p} : writer # q
    BY Migrating
  <2>4. \A q \in Procs : Existing(conn[q].done, db.objects) => Existing(conn[q].done, db'.objects)
    BY <2>1 DEF Existing
  <2> QED
    BY <1>1, <2>1, <2>2, <2>3, <2>4 DEF InitializedInv
<1> QED
  BY <1>2, <1>3, <1>4, <1>5, <1>6, <1>7

LEMMA MigrateStatementKeeps ==
    ASSUME SchemaInv, UNCHANGED origin, NEW p \in Procs, MigrateStatement(p)
    PROVE  SchemaInv'
<1> DEFINE chain == Statements(conn[p].version)
           statement == chain[conn[p].done + 1]
           altered == [Seen(p) EXCEPT !.objects = @ \cup {statement}]
           normalized == [Seen(p) EXCEPT !.rows = Normalize(@)]
           c == [conn[p] EXCEPT !.done = @ + 1]
<1>1. /\ conn[p].at = "migrate" /\ conn[p].version < Current /\ MayWrite(p)
      /\ conn[p].done < Len(chain)
  BY DEF MigrateStatement
<1>2. CASE Fail(p)
  BY <1>2, FailKeeps
<1>3. CASE /\ conn' = [conn EXCEPT ![p] = c]
           /\ \/ /\ statement = "normalize"
                 /\ writer' = p /\ work' = normalized /\ UNCHANGED db
              \/ /\ statement # "normalize" /\ writer # p
                 /\ db' = altered /\ UNCHANGED <<work, writer>>
              \/ /\ statement # "normalize"
                 /\ work' = altered /\ writer' = p /\ UNCHANGED db
  <2>1. /\ conn[p].version \in MinSupported..(Current - 1)
        /\ Seen(p) \in Contents
    BY <1>1, Migrating
  <2>2. Len(chain) \in 0..2 /\ \A i \in 1..Len(chain) : chain[i] \in Objects \cup {"normalize"}
    BY <2>1, Chain
  <2>3. Progress(p) /\ conn[p].done \in 0..Len(chain)
    BY <1>1 DEF SchemaInv, MigrationInv, Progress
  <2>4. /\ conn[p].done + 1 \in 1..Len(chain)
        /\ statement \in Objects \cup {"normalize"}
    BY <1>1, <2>2, <2>3
  <2>5. /\ c \in [at : {"migrate"}, version : Versions, done : 0..3]
        /\ c.version = conn[p].version /\ c.done = conn[p].done + 1
    BY <1>1, <2>2, <2>3, <2>4 DEF SchemaInv, SchemaTypeOK, Versions
  <2>6. conn'[p] = c
    BY <1>3 DEF SchemaInv, SchemaTypeOK
  <2>7. /\ normalized \in Contents
        /\ normalized.objects = Seen(p).objects
        /\ Normal(normalized.rows)
    BY <2>1, NormalizedRows DEF Contents
  <2>8. /\ statement # "normalize" => altered \in Contents
        /\ altered.objects = Seen(p).objects \cup {statement}
        /\ altered.rows = Seen(p).rows /\ altered.version = Seen(p).version
    BY <2>1, <2>4 DEF Contents
  <2>9. Progress(p)'
    <3>1. /\ Seen(p).objects \subseteq Seen(p)'.objects
          /\ statement \in Seen(p)'.objects \cup {"normalize"}
      BY <1>3, <2>7, <2>8 DEF Seen
    <3>2. Made(conn[p].version, conn[p].done + 1, Seen(p)'.objects)
      BY <1>1, <2>3, <3>1 DEF Progress, Made
    <3> QED
      BY <1>1, <2>3, <2>4, <2>5, <2>6, <3>1, <3>2 DEF Progress, Unsupported
  <2>10. CASE statement = "normalize"
    <3> HIDE DEF c, normalized, altered, statement
    <3> QED
      BY <1>1, <1>3, <2>5, <2>7, <2>9, <2>10, MigrationKeeps
  <2>11. CASE statement # "normalize"
    <3>1. writer # p => altered.version = db.version
      BY <2>8 DEF Seen
    <3> HIDE DEF c, normalized, altered, statement
    <3> QED
      BY <1>1, <1>3, <2>5, <2>8, <2>9, <2>11, <3>1, MigrationKeeps
  <2> QED
    BY <2>10, <2>11
<1> QED
  BY <1>2, <1>3 DEF MigrateStatement, Autocommits

LEMMA Counted ==
    ASSUME NEW P, NEW V, NEW D, NEW r \in [at : P, version : V, done : D],
           NEW v \in V, NEW d \in D
    PROVE  [r EXCEPT !.version = v, !.done = d] \in [at : P, version : V, done : D]
  OBVIOUS

LEMMA UpdateVersionKeeps ==
    ASSUME SchemaInv, UNCHANGED origin, NEW p \in Procs, UpdateVersion(p)
    PROVE  SchemaInv'
<1> DEFINE content == [Seen(p) EXCEPT !.version = conn[p].version + 1]
           c == [conn[p] EXCEPT !.version = @ + 1, !.done = 0]
<1>1. /\ conn[p].at = "migrate" /\ conn[p].version < Current /\ MayWrite(p)
      /\ conn[p].done = Len(Statements(conn[p].version))
      /\ work' = content /\ writer' = p /\ UNCHANGED db
      /\ conn' = [conn EXCEPT ![p] = c]
  BY DEF UpdateVersion, VersionWritten, NextMigration
<1>2. conn[p].version \in MinSupported..(Current - 1) /\ Seen(p) \in Contents
      /\ origin.version # None
  BY <1>1, Migrating
<1>3. /\ c \in [at : {"migrate"}, version : Versions, done : 0..3]
      /\ c.version = conn[p].version + 1 /\ c.done = 0
  <2>1. conn[p] \in [at : Places, version : 1..(Current + 1) \cup {None}, done : 0..3]
    BY DEF SchemaInv, SchemaTypeOK
  <2>2. conn[p].version + 1 \in Versions
    BY <1>2 DEF Versions, MinSupported, Current
  <2>3. c.at = "migrate" /\ c.version = conn[p].version + 1 /\ c.done = 0
    BY <1>1, <1>2, <2>1
  <2>4. c \in [at : Places, version : Versions, done : 0..3]
    <3>1. c = [conn[p] EXCEPT !.version = conn[p].version + 1, !.done = 0]
      BY <2>1
    <3>2. conn[p] \in [at : Places, version : Versions, done : 0..3]
      BY <2>1 DEF Versions
    <3>3. 0 \in 0..3
      OBVIOUS
    <3> HIDE DEF c
    <3> QED
      BY <2>2, <3>1, <3>2, <3>3, Counted
  <2> HIDE DEF c
  <2> QED
    BY <2>3, <2>4
<1>4. conn'[p] = c
  BY <1>1 DEF SchemaInv, SchemaTypeOK
<1>5. content \in Contents /\ content.objects = Seen(p).objects /\ content.rows = Seen(p).rows
  BY <1>2 DEF Contents, Versions, MinSupported, Current
<1>6. SchemaOf(c.version) \subseteq content.objects
  BY SMTT(30), <1>1, <1>2, <1>3, <1>5, ChainEnds DEF SchemaInv, MigrationInv, Progress, MinSupported, Current
<1>7. Progress(p)'
  <2>1. Seen(p)' = content
    BY <1>1 DEF Seen
  <2>2. c.version < Current => Len(Statements(c.version)) \in 0..2
    BY <1>2, <1>3, Chain DEF MinSupported, Current
  <2> HIDE DEF c, content
  <2> QED
    BY <1>2, <1>3, <1>4, <1>6, <2>1, <2>2 DEF Progress, Made, MinSupported, Current
<1> HIDE DEF c, content
<1> QED
  BY <1>1, <1>3, <1>5, <1>7, MigrationKeeps

LEMMA ValidateKeeps ==
    ASSUME SchemaInv, UNCHANGED origin, NEW p \in Procs, Validate(p)
    PROVE  SchemaInv'
<1> USE DEF SchemaInv
<1>1. CASE Fail(p)
  BY <1>1, FailKeeps
<1>2. CASE Seen(p).version = Current /\ GoTo(p, "script") /\ UNCHANGED <<db, work, writer>>
  <2>1. /\ conn[p].at = "migrate" /\ conn[p].version >= Current
        /\ Progress(p)
    BY DEF Validate, MigrationInv
  <2>2. conn'[p].at = "script" /\ \A q \in Procs \ {p} : conn'[q] = conn[q]
    BY <1>2 DEF GoTo, SchemaTypeOK
  <2>3. SchemaTypeOK'
    BY <1>2 DEF GoTo, SchemaTypeOK, Places
  <2>4. ~Unsupported
    BY <1>2 DEF UnsupportedInv, Unsupported, Seen, MinSupported, Current
  <2>5. conn[p].version = Current
    BY <2>1, <2>4 DEF Progress, MinSupported, Current
  <2>6. Seen(p).objects = Objects
    <3>1. Seen(p) \in Contents
      BY DEF Seen, SchemaTypeOK
    <3>2. SchemaOf(Current) \subseteq Seen(p).objects
      BY <2>1, <2>5 DEF Progress, Current
    <3> QED
      BY <3>1, <3>2, CurrentSchema DEF Contents
  <2>7. UnsupportedInv' /\ FileInv'
    BY <1>2, <2>4 DEF UnsupportedInv, Unsupported, FileInv, VersionTellsSchema
  <2>8. WriterInv'
    BY <1>2, <2>2, <2>6 DEF WriterInv, Seen, SchemaTypeOK
  <2>9. MigrationInv' /\ InitializedInv'
    BY <1>2, <2>2 DEF MigrationInv, Progress, Made, Unsupported, Seen, InitializedInv
  <2> QED
    BY <2>3, <2>7, <2>8, <2>9
<1> QED
  BY <1>1, <1>2 DEF Validate

\* No file of an unsupported version comes this far.
LEMMA Past ==
    ASSUME SchemaInv, NEW p \in Procs, conn[p].at \in {"script", "create", "finish"}
    PROVE  ~Unsupported
  BY DEF SchemaInv, UnsupportedInv

LEMMA Placed ==
    ASSUME NEW P, NEW V, NEW D, NEW r \in [at : P, version : V, done : D],
           NEW a \in P, NEW d \in D
    PROVE  [r EXCEPT !.at = a, !.done = d] \in [at : P, version : V, done : D]
  OBVIOUS

LEMMA CommitKeeps ==
    ASSUME SchemaInv, UNCHANGED origin, NEW p \in Procs, CommitMigrations(p)
    PROVE  SchemaInv'
<1> USE DEF SchemaInv
<1>1. /\ conn[p].at = "script" /\ db' = Seen(p) /\ work' = work
      /\ writer' = IF writer = p THEN None ELSE writer
      /\ conn' = [conn EXCEPT ![p] = [conn[p] EXCEPT !.at = "create", !.done = 0]]
  BY DEF CommitMigrations
<1>2. /\ conn'[p].at = "create" /\ conn'[p].done = 0
      /\ \A q \in Procs \ {p} : conn'[q] = conn[q]
  BY <1>1 DEF SchemaTypeOK
<1>3. SchemaTypeOK'
  <2> DEFINE c == [conn[p] EXCEPT !.at = "create", !.done = 0]
  <2>1. c \in [at : Places, version : 1..(Current + 1) \cup {None}, done : 0..3]
    <3>1. conn[p] \in [at : Places, version : 1..(Current + 1) \cup {None}, done : 0..3]
      BY DEF SchemaTypeOK
    <3>2. "create" \in Places /\ 0 \in 0..3
      BY DEF Places
    <3> QED
      BY <3>1, <3>2, Placed
  <2>2. conn' = [conn EXCEPT ![p] = c]
    BY <1>1
  <2> HIDE DEF c
  <2> QED
    BY <1>1, <2>1, <2>2 DEF SchemaTypeOK, Seen
<1>4. writer' # p
  BY <1>1
<1>5. \/ writer # p /\ UNCHANGED <<db, writer>>
      \/ /\ writer = p /\ writer' = None
         /\ db'.version = Current /\ db'.objects = Objects /\ db.objects \subseteq db'.objects
         /\ Normal(db.rows) => Normal(db'.rows)
  BY <1>1 DEF Seen, WriterInv
<1>6. UnsupportedInv'
  BY <1>1, Past DEF UnsupportedInv, Unsupported
<1>7. FileInv'
  BY <1>5, CurrentSchema, NoneAssumption DEF FileInv, VersionTellsSchema, Current
<1>8. WriterInv'
  BY <1>1, <1>2, <1>5 DEF WriterInv
<1>9. MigrationInv'
  <2>1. ASSUME NEW q \in Procs \ {p}, conn'[q].at = "migrate" PROVE Progress(q)'
    <3>1. Progress(q) /\ conn'[q] = conn[q]
      BY <1>2, <2>1 DEF MigrationInv
    <3>2. Seen(q).objects \subseteq Seen(q)'.objects
      BY <1>1, <1>5 DEF Seen
    <3> QED
      BY <3>1, <3>2 DEF Progress, Made, Unsupported
  <2> QED
    BY <1>2, <2>1 DEF MigrationInv
<1>10. InitializedInv'
  <2>1. CASE writer # p
    <3>1. writer' = writer /\ db' = db
      BY <1>5, <2>1
    <3>2. db.version \in {None, Current}
      BY <1>1, <2>1 DEF InitializedInv
    <3> QED
      <4>1. Existing(conn'[p].done, db'.objects)
        BY <1>2 DEF Existing
      <4> QED
        BY <1>2, <3>1, <3>2, <4>1 DEF InitializedInv
  <2>2. CASE writer = p
    <3>1. \A q \in Procs : Existing(conn[q].done, db.objects) => Existing(conn[q].done, db'.objects)
      BY <1>5, <2>2 DEF Existing
    <3>2. Existing(conn'[p].done, db'.objects)
      BY <1>2 DEF Existing
    <3> QED
      BY <1>2, <1>5, <2>2, <3>1, <3>2 DEF InitializedInv
  <2> QED
    BY <2>1, <2>2
<1> QED
  BY <1>3, <1>6, <1>7, <1>8, <1>9, <1>10

\* Each statement of the script adds its table, and the last one has them all.
LEMMA TablesExist ==
    ASSUME NEW n \in 0..3, NEW objects \in SUBSET Objects, Existing(n, objects),
           "base" \in objects => Columns \subseteq objects
    PROVE  /\ Created(Tables[n + 1], objects) \in SUBSET Objects
           /\ objects \subseteq Created(Tables[n + 1], objects)
           /\ Existing(n + 1, Created(Tables[n + 1], objects))
           /\ Columns \subseteq Created(Tables[n + 1], objects)
           /\ n = 3 => Created(Tables[n + 1], objects) = Objects
<1>1. /\ Tables[1] = "base" /\ Tables[2] = "notification_throttle_states"
      /\ Tables[3] = "runtime_state_events" /\ Tables[4] = "display_settings"
  BY DEF Tables
<1>2. Tables[n + 1] \in Objects
  BY <1>1 DEF Objects, Added
<1>3. /\ Created(Tables[n + 1], objects) \in SUBSET Objects
      /\ objects \cup {Tables[n + 1]} \subseteq Created(Tables[n + 1], objects)
  BY <1>2 DEF Created, Objects
<1>4. Existing(n + 1, Created(Tables[n + 1], objects))
  BY <1>3 DEF Existing
<1>5. Columns \subseteq Created(Tables[n + 1], objects)
  <2>1. CASE n = 0
    BY <1>1, <2>1 DEF Created
  <2>2. CASE n # 0
    <3>1. "base" \in objects
      BY <1>1, <2>2 DEF Existing
    <3> QED
      BY <1>3, <3>1
  <2> QED
    BY <2>1, <2>2
<1>6. ASSUME n = 3 PROVE Created(Tables[n + 1], objects) = Objects
  <2>1. \A i \in 1..4 : Tables[i] \in Created(Tables[n + 1], objects)
    BY <1>4, <1>6 DEF Existing
  <2> HIDE DEF Created
  <2>2. {"base"} \cup Added \subseteq Created(Tables[n + 1], objects)
    BY <1>1, <2>1 DEF Added
  <2> QED
    BY <1>3, <1>5, <2>2 DEF Objects
<1> QED
  BY <1>3, <1>4, <1>5, <1>6

LEMMA CreateKeeps ==
    ASSUME SchemaInv, UNCHANGED origin, NEW p \in Procs, CreateMissing(p)
    PROVE  SchemaInv'
<1> USE DEF SchemaInv
<1> DEFINE n == conn[p].done
           content == Created(Tables[n + 1], db.objects)
<1>1. /\ conn[p].at = "create" /\ writer = None
      /\ db' = [db EXCEPT !.objects = content] /\ UNCHANGED <<work, writer>>
      /\ \/ n + 1 < Len(Tables) /\ conn' = [conn EXCEPT ![p] = [conn[p] EXCEPT !.done = n + 1]]
         \/ n + 1 = Len(Tables) /\ conn' = [conn EXCEPT ![p] = [conn[p] EXCEPT !.at = "finish"]]
  BY DEF CreateMissing, GoTo
<1>2. Len(Tables) = 4 /\ n \in 0..3
  BY DEF Tables, SchemaTypeOK
<1>3. /\ conn'[p] \in [at : Places, version : 1..(Current + 1) \cup {None}, done : 0..3]
      /\ \/ n < 3 /\ conn'[p].at = "create" /\ conn'[p].done = n + 1
         \/ n = 3 /\ conn'[p].at = "finish"
      /\ \A q \in Procs \ {p} : conn'[q] = conn[q]
  BY <1>1, <1>2 DEF SchemaTypeOK, Places
<1>4. db.version \in {None, Current} /\ db \in Contents
  BY <1>1, NoneAssumption DEF InitializedInv, SchemaTypeOK
<1>5. /\ content \in SUBSET Objects /\ db.objects \subseteq content
      /\ Existing(n + 1, content) /\ Columns \subseteq content
      /\ n = 3 => content = Objects
  <2>1. "base" \in db.objects => Columns \subseteq db.objects
    BY <1>4, CurrentSchema DEF FileInv, VersionTellsSchema, Objects, Current, MinSupported
  <2>2. db.objects \in SUBSET Objects
    BY <1>4 DEF Contents
  <2>3. Existing(n, db.objects)
    BY <1>1 DEF InitializedInv
  <2> HIDE DEF n
  <2> QED
    BY <1>2, <2>1, <2>2, <2>3, TablesExist
<1> HIDE DEF content, n
<1>6. db'.version = db.version /\ db'.rows = db.rows /\ db'.objects = content
      /\ db' \in Contents
  BY <1>1, <1>4, <1>5 DEF Contents
<1>7. SchemaTypeOK'
  <2>1. conn' \in [Procs -> [at : Places, version : 1..(Current + 1) \cup {None}, done : 0..3]]
    BY <1>1, <1>3 DEF SchemaTypeOK
  <2> QED
    BY <1>1, <1>6, <2>1 DEF SchemaTypeOK
<1>8. UnsupportedInv' /\ WriterInv'
  BY <1>1, <1>6, Past DEF UnsupportedInv, Unsupported, WriterInv
<1>9. FileInv'
  BY <1>5, <1>6 DEF FileInv, VersionTellsSchema
<1>10. MigrationInv'
  <2>1. ASSUME NEW q \in Procs \ {p}, conn'[q].at = "migrate" PROVE Progress(q)'
    <3>1. Progress(q) /\ conn'[q] = conn[q]
      BY <1>3, <2>1 DEF MigrationInv
    <3>2. Seen(q).objects \subseteq Seen(q)'.objects
      BY <1>1, <1>5, <1>6 DEF Seen
    <3> QED
      BY <3>1, <3>2 DEF Progress, Made, Unsupported
  <2> QED
    BY <1>3, <2>1 DEF MigrationInv
<1>11. InitializedInv'
  <2>1. ASSUME NEW q \in Procs \ {p}, Existing(conn[q].done, db.objects)
        PROVE  Existing(conn[q].done, content)
    BY <1>5, <2>1 DEF Existing
  <2>2. db.objects = Objects => content = Objects
    BY <1>5
  <2> QED
    BY <1>1, <1>3, <1>4, <1>5, <1>6, <2>1, <2>2 DEF InitializedInv
<1> QED
  BY <1>7, <1>8, <1>9, <1>10, <1>11

LEMMA FinishKeeps ==
    ASSUME SchemaInv, UNCHANGED origin, NEW p \in Procs, Finish(p)
    PROVE  SchemaInv'
<1> USE DEF SchemaInv
<1>1. /\ conn[p].at = "finish" /\ writer = None
      /\ db' = [db EXCEPT !.rows = Normalize(@), !.version = IF @ = None THEN Current ELSE @]
      /\ conn' = [conn EXCEPT ![p].at = "ready"] /\ UNCHANGED <<work, writer>>
  BY DEF Finish, GoTo
<1>2. conn'[p].at = "ready" /\ \A q \in Procs \ {p} : conn'[q] = conn[q]
  BY <1>1 DEF SchemaTypeOK
<1>3. db.version \in {None, Current} /\ db \in Contents /\ db.objects = Objects
  BY <1>1, NoneAssumption DEF InitializedInv, SchemaTypeOK
<1>4. Normalize(db.rows) \in SUBSET Rows /\ Normal(Normalize(db.rows))
  BY <1>3, NormalizedRows DEF Contents
<1>5. /\ db'.version = Current /\ db'.objects = Objects /\ Normal(db'.rows)
      /\ db' \in Contents
  <2>1. /\ db'.version = Current /\ db'.objects = db.objects
        /\ db'.rows = Normalize(db.rows)
        /\ db' = [version |-> Current, objects |-> db.objects, rows |-> Normalize(db.rows)]
    BY <1>1, <1>3 DEF Contents
  <2> QED
    BY <1>3, <1>4, <2>1 DEF Contents, Versions, Current
<1>6. SchemaTypeOK'
  BY <1>1, <1>5 DEF SchemaTypeOK, Places
<1>7. UnsupportedInv' /\ WriterInv'
  BY <1>1, Past DEF UnsupportedInv, Unsupported, WriterInv
<1>8. FileInv'
  BY <1>5, CurrentSchema, NoneAssumption DEF FileInv, VersionTellsSchema, Current
<1>9. MigrationInv'
  <2>1. ASSUME NEW q \in Procs \ {p}, conn'[q].at = "migrate" PROVE Progress(q)'
    <3>1. Progress(q) /\ conn'[q] = conn[q]
      BY <1>2, <2>1 DEF MigrationInv
    <3>2. Seen(q).objects \subseteq Seen(q)'.objects
      BY <1>1, <1>3, <1>5 DEF Seen
    <3> QED
      BY <3>1, <3>2 DEF Progress, Made, Unsupported
  <2> QED
    BY <1>2, <2>1 DEF MigrationInv
<1>10. InitializedInv'
  BY <1>1, <1>2, <1>3, <1>5 DEF InitializedInv, Existing
<1> QED
  BY <1>6, <1>7, <1>8, <1>9, <1>10

LEMMA StepSchema == SchemaInv /\ [Next]_vars => SchemaInv'
<1> SUFFICES ASSUME SchemaInv, [Next]_vars PROVE SchemaInv'
  OBVIOUS
<1>1. DatabaseStep /\ UNCHANGED origin
  BY StepDatabase
<1>2. CASE UNCHANGED schemaVars
  BY <1>1, <1>2 DEF schemaVars, SchemaInv, SchemaTypeOK, UnsupportedInv, Unsupported, FileInv,
     VersionTellsSchema, WriterInv, MigrationInv, Progress, Made, Seen, InitializedInv
<1>3. ASSUME NEW p \in Procs, Connect(p) PROVE SchemaInv'
  <2>1. conn' = [conn EXCEPT ![p] = [conn[p] EXCEPT !.at = "read"]]
    BY <1>3 DEF Connect, GoTo
  <2>2. [conn[p] EXCEPT !.at = "read"] \in
            [at : {"idle", "read", "failed"}, version : Versions, done : 0..3]
    BY DEF SchemaInv, SchemaTypeOK, Versions
  <2>3. writer # p
    BY <1>3 DEF Connect, SchemaInv, WriterInv
  <2> QED
    BY <1>1, <1>3, <2>1, <2>2, <2>3, Leaves DEF Connect
<1>4. ASSUME NEW p \in Procs, Lost(p) PROVE SchemaInv'
  <2>1. Idle \in [at : {"idle", "read", "failed"}, version : Versions, done : 0..3]
    BY DEF Idle, Versions
  <2> QED
    BY <1>1, <1>4, <2>1, Leaves DEF Lost, RollBack
<1>5. ASSUME NEW p \in Procs, InitializeStep(p) PROVE SchemaInv'
  BY <1>1, <1>5, ReadVersionKeeps, MigrateStatementKeeps, UpdateVersionKeeps, ValidateKeeps,
     CommitKeeps, CreateKeeps, FinishKeeps, FailKeeps DEF InitializeStep, Busy
<1> QED
  BY <1>1, <1>2, <1>3, <1>4, <1>5 DEF DatabaseStep

THEOREM SchemaInductive == Spec => []SchemaInv
  BY InitSchema, StepSchema, PTL DEF Spec

\* The version in the file never claims an object the file lacks, whatever
\* dies and whoever migrates beside it, and only a chain that began at version
\* 3 leaves a file that cannot be opened again (initialize_schema).
THEOREM FileTold == Spec => []FileTellsTruth
<1>1. SchemaInv => FileTellsTruth
  BY NoneAssumption DEF SchemaInv, FileInv, FileTellsTruth, WedgedOnlyFromThree, Wedged, Current
<1> QED
  BY <1>1, SchemaInductive, PTL

\* A process whose initialize_schema has returned has the current version,
\* every table and column, and rows that do not contradict themselves.
THEOREM ReadyCurrent == Spec => []ReadyIsCurrent
<1>1. SchemaInv => ReadyIsCurrent
  BY DEF SchemaInv, InitializedInv, ReadyIsCurrent, Normal
<1> QED
  BY <1>1, SchemaInductive, PTL

-----------------------------------------------------------------------------
(* Types                                                                   *)

LEMMA InitTypes == Init => TypeOK
<1> SUFFICES ASSUME Init PROVE TypeOK
  OBVIOUS
<1>1. SchemaTypeOK /\ origin \in Initial
  BY InitSchema DEF SchemaInv
<1>2. pc \in [Procs -> {"new", "killed"}]
  BY DEF Init
<1>3. lock \in Procs \cup {None} /\ seen \in [Procs -> {None}] /\ choice \in [Procs -> {"none"}]
  BY DEF Init
<1>4. used \in [Procs -> BOOLEAN] /\ listening \in BOOLEAN
  BY DEF Init
<1>5. port = None /\ chrome = "off" /\ reused = {} /\ kills \in 0..MaxKills
  BY DEF Init
<1> QED
  BY <1>1, <1>2, <1>3, <1>4, <1>5 DEF TypeOK, Over, Guarded

LEMMA StepTypes == TypeOK /\ SchemaInv /\ [Next]_vars => TypeOK'
<1> SUFFICES ASSUME TypeOK, SchemaInv, [Next]_vars PROVE TypeOK'
  OBVIOUS
<1>1. SchemaTypeOK' /\ origin' \in Initial
  BY StepSchema DEF SchemaInv
<1> USE DEF TypeOK, To, Over, Guarded
<1>2. ASSUME NEW p \in Procs, StartStep(p) PROVE TypeOK'
  <2>1. CASE ReadLock(p) \/ CheckPort(p) \/ Probe(p) \/ WriteLock(p)
    BY <1>1, <2>1 DEF ReadLock, CheckPort, Probe, WriteLock
  <2>2. CASE Decide(p)
    BY <1>1, <2>2 DEF Decide, Decision
  <2>3. CASE CleanStaleLock(p) \/ RemoveOwnLock(p)
    BY <1>1, <2>3 DEF CleanStaleLock, RemoveOwnLock, RemoveLock
  <2>4. CASE FindChrome(p) \/ StartUrlResolved(p) \/ LaunchChrome(p) \/ WaitForChrome(p)
    BY <1>1, <2>4 DEF FindChrome, StartUrlResolved, LaunchChrome, WaitForChrome
  <2>5. CASE BindPort(p) \/ LoadApp(p)
    BY ZenonT(40), <1>1, <2>5 DEF BindPort, LoadApp
  <2>6. CASE InitializeDatabase(p)
    BY <1>1, <2>6 DEF InitializeDatabase, startVars
  <2>7. CASE OrphanServes(p) \/ OrphanEnds(p)
    BY <1>1, <2>7 DEF OrphanServes, OrphanEnds, ReleasePort
  <2> QED
    BY <1>2, <2>1, <2>2, <2>3, <2>4, <2>5, <2>6, <2>7 DEF StartStep
<1>3. ASSUME NEW p \in Procs, Stop(p) PROVE TypeOK'
  BY <1>1, <1>3 DEF Stop, ReleasePort
<1>4. ASSUME NEW p \in Procs, Kill(p) PROVE TypeOK'
  <2>1. CASE To(p, "killed") /\ ReleasePort(p)
    BY <1>1, <1>4, <2>1 DEF Kill, ReleasePort
  <2>2. CASE To(p, "orphan") /\ UNCHANGED <<port, listening>>
    BY <1>1, <1>4, <2>2 DEF Kill
  <2> QED
    BY <1>4, <2>1, <2>2 DEF Kill
<1>5. ASSUME NEW p \in Procs, ReusePid(p) PROVE TypeOK'
  BY <1>1, <1>5 DEF ReusePid
<1>6. CASE ChromeReady
  BY <1>1, <1>6 DEF ChromeReady
<1>7. CASE UNCHANGED vars
  BY <1>1, <1>7 DEF vars, startVars
<1> QED
  BY <1>2, <1>3, <1>4, <1>5, <1>6, <1>7 DEF Next

\* The state of the starts, the lock file and the port keeps its types.
THEOREM TypeCorrect == Spec => []TypeOK
<1>1. Init => TypeOK
  BY InitTypes
<1>2. TypeOK /\ SchemaInv /\ [Next]_vars => TypeOK'
  BY StepTypes
<1> QED
  BY <1>1, <1>2, SchemaInductive, PTL DEF Spec

-----------------------------------------------------------------------------
(* The lock file                                                           *)

\* A process that has written its lock at some time.
Written == Guarded \cup {"cleanup", "unlink", "died", "ended", "killed", "orphan"}
Deciding == {"new", "port", "decide"}
Replacing == {"clean", "cleanUnlink", "write", "writing", "cleanup", "unlink"} \cup Guarded

Rival(q, p) == choice[q] \in {"start", "clean"} /\ (seen[q] # p \/ pc[p] = "orphan")
Serving == {"load", "hung", "serving", "orphan"}

\* Only the lock of a process that has written it is there to be read, and a
\* process that goes on to replace the lock it has read found its owner dead.
ReadInv ==
    /\ \A p \in Procs : lock = p => pc[p] \in Written
    /\ \A p, q \in Procs : seen[q] = p => pc[p] \in Written
    /\ \A p, q \in Procs : seen[q] = p /\ choice[q] \in {"start", "clean"} => ~Alive(p)
    /\ \A q \in Procs : pc[q] \in Deciding => choice[q] = "none"
    /\ \A q \in Procs : pc[q] \in Replacing => choice[q] \in {"start", "clean"}

PortInv ==
    /\ port # None => pc[port] \in Serving
    /\ \A p \in Procs : pc[p] \in Serving => port = p
    /\ listening => port # None

\* A process past the writing of its lock has it, or has a rival.
HeldInv ==
    \A p \in Procs : pc[p] \in Guarded \cup {"orphan"} =>
        lock = p \/ \E q \in Procs \ {p} : Rival(q, p)

LockInv == ReadInv /\ PortInv /\ HeldInv

LEMMA InitLock == Init => LockInv
<1> SUFFICES ASSUME Init PROVE LockInv
  OBVIOUS
<1>1. /\ \A p \in Procs : pc[p] \in {"new", "killed"} /\ choice[p] = "none" /\ seen[p] = None
      /\ port = None /\ listening = FALSE
      /\ \A p \in Procs : lock = p => pc[p] = "killed"
  BY DEF Init
<1>2. ReadInv
  BY <1>1 DEF ReadInv, Written, Replacing, Guarded
<1>3. PortInv /\ HeldInv
  BY <1>1 DEF PortInv, HeldInv, Serving, Guarded
<1> QED
  BY <1>2, <1>3 DEF LockInv

LEMMA StepLock == TypeOK /\ LockInv /\ [Next]_vars => LockInv'
<1> SUFFICES ASSUME TypeOK, LockInv, [Next]_vars PROVE LockInv'
  OBVIOUS
<1> USE DEF LockInv, TypeOK
<1>1. ReadInv'
  <2> USE DEF ReadInv, To, Written, Deciding, Replacing, Guarded, Over, Alive
  <2>1. ASSUME NEW p \in Procs, StartStep(p) PROVE ReadInv'
    <3>1. CASE ReadLock(p)
      BY <3>1 DEF ReadLock
    <3>2. CASE CheckPort(p) \/ Probe(p)
      BY <3>2 DEF CheckPort, Probe
    <3>3. CASE Decide(p)
      <4>1. /\ choice' = [choice EXCEPT ![p] = Decision(used[p], seen[p])]
            /\ UNCHANGED <<lock, seen>> /\ pc[p] = "decide"
            /\ pc'[p] \in {"probe", "refused", "write", "clean"}
            /\ pc'[p] \in {"write", "clean"} => choice'[p] \in {"start", "clean"}
            /\ \A q \in Procs \ {p} : pc'[q] = pc[q] /\ choice'[q] = choice[q]
        BY <3>3 DEF Decide, Decision
      <4>2. choice'[p] \in {"start", "clean"} => ~PidExists(seen[p])
        BY <4>1 DEF Decision
      <4>3. ASSUME NEW q \in Procs, seen[p] = q, choice'[p] \in {"start", "clean"}
            PROVE  ~Alive(q)'
        <5>1. q # None /\ ~Alive(q) /\ pc[q] \in Written
          BY <4>2, <4>3, NoneAssumption DEF PidExists
        <5>2. q # p
          BY <4>1, <5>1
        <5> QED
          BY <4>1, <5>1, <5>2
      <4>4. ASSUME NEW q \in Procs, NEW r \in Procs \ {p},
                   seen[r] = q, choice[r] \in {"start", "clean"}
            PROVE  ~Alive(q)'
        <5>1. ~Alive(q) /\ pc[q] \in Written
          BY <4>4
        <5>2. q # p
          BY <4>1, <5>1
        <5> QED
          BY <4>1, <5>1, <5>2
      <4>5. \A q \in Procs : pc[q] \in Written => pc'[q] \in Written
        BY <4>1
      <4>6. \A q \in Procs : pc'[q] \in Deciding => choice'[q] = "none"
        BY <4>1
      <4>7. \A q \in Procs : pc'[q] \in Replacing => choice'[q] \in {"start", "clean"}
        BY <4>1
      <4> HIDE DEF To, Written, Deciding, Replacing, Guarded, Over, Alive
      <4> QED
        BY <4>1, <4>3, <4>4, <4>5, <4>6, <4>7
    <3>4. CASE CleanStaleLock(p) \/ RemoveOwnLock(p)
      BY <3>4 DEF CleanStaleLock, RemoveOwnLock, RemoveLock
    <3>5. CASE WriteLock(p)
      BY <3>5 DEF WriteLock
    <3>6. CASE FindChrome(p) \/ StartUrlResolved(p) \/ LaunchChrome(p) \/ WaitForChrome(p)
      BY <3>6 DEF FindChrome, StartUrlResolved, LaunchChrome, WaitForChrome
    <3>7. CASE BindPort(p) \/ LoadApp(p)
      BY <3>7 DEF BindPort, LoadApp
    <3>8. CASE InitializeDatabase(p)
      BY <3>8 DEF InitializeDatabase, startVars
    <3>9. CASE OrphanServes(p) \/ OrphanEnds(p)
      BY <3>9 DEF OrphanServes, OrphanEnds
    <3> QED
      BY <2>1, <3>1, <3>2, <3>3, <3>4, <3>5, <3>6, <3>7, <3>8, <3>9 DEF StartStep
  <2>2. ASSUME NEW p \in Procs, Stop(p) \/ Kill(p) \/ ReusePid(p) PROVE ReadInv'
    BY <2>2 DEF Stop, Kill, ReusePid
  <2>3. CASE ChromeReady \/ UNCHANGED vars
    BY <2>3 DEF ChromeReady, vars, startVars
  <2> QED
    BY <2>1, <2>2, <2>3 DEF Next
<1>2. PortInv'
  <2> USE DEF PortInv, Serving, To, Guarded, Over, Alive
  <2>1. ASSUME NEW p \in Procs, StartStep(p) PROVE PortInv'
    <3>1. CASE ReadLock(p) \/ CheckPort(p) \/ Probe(p) \/ WriteLock(p)
      BY <3>1 DEF ReadLock, CheckPort, Probe, WriteLock
    <3>2. CASE Decide(p)
      <4>1. /\ pc[p] = "decide" /\ pc'[p] \in {"probe", "refused", "write", "clean"}
            /\ \A q \in Procs \ {p} : pc'[q] = pc[q]
            /\ UNCHANGED <<port, listening>>
        BY <3>2 DEF Decide, Decision
      <4> QED
        BY <4>1
    <3>3. CASE CleanStaleLock(p) \/ RemoveOwnLock(p)
      BY <3>3 DEF CleanStaleLock, RemoveOwnLock, RemoveLock
    <3>4. CASE FindChrome(p) \/ StartUrlResolved(p) \/ LaunchChrome(p) \/ WaitForChrome(p)
      BY <3>4 DEF FindChrome, StartUrlResolved, LaunchChrome, WaitForChrome
    <3>5. CASE BindPort(p) \/ LoadApp(p)
      BY <3>5 DEF BindPort, LoadApp
    <3>6. CASE InitializeDatabase(p)
      BY <3>6 DEF InitializeDatabase, startVars
    <3>7. CASE OrphanServes(p) \/ OrphanEnds(p)
      BY <3>7 DEF OrphanServes, OrphanEnds, ReleasePort
    <3> QED
      BY <2>1, <3>1, <3>2, <3>3, <3>4, <3>5, <3>6, <3>7 DEF StartStep
  <2>2. ASSUME NEW p \in Procs, Stop(p) \/ Kill(p) \/ ReusePid(p) PROVE PortInv'
    <3>1. CASE Stop(p) \/ (Kill(p) /\ To(p, "killed") /\ ReleasePort(p))
      <4>1. /\ pc'[p] \in {"cleanup", "killed"}
            /\ \A q \in Procs \ {p} : pc'[q] = pc[q]
            /\ port' = IF port = p THEN None ELSE port
            /\ listening' = (listening /\ port # p)
        BY <3>1 DEF Stop, ReleasePort
      <4> QED
        BY <4>1
    <3>2. CASE /\ pc[p] \in {"load", "serving"} /\ To(p, "orphan")
               /\ UNCHANGED <<port, listening>>
      BY <3>2
    <3>3. CASE ReusePid(p)
      BY <3>3 DEF ReusePid
    <3> QED
      BY <2>2, <3>1, <3>2, <3>3 DEF Kill
  <2>3. CASE ChromeReady \/ UNCHANGED vars
    BY <2>3 DEF ChromeReady, vars, startVars
  <2> QED
    BY <2>1, <2>2, <2>3 DEF Next
<1>3. HeldInv'
  <2>1. ASSUME NEW p \in Procs, StartStep(p) PROVE HeldInv'
    <3> USE DEF HeldInv, Rival, To, Guarded
    <3>1. CASE ReadLock(p)
      BY <3>1 DEF ReadLock, ReadInv, Deciding
    <3>2. CASE CheckPort(p) \/ Probe(p)
      BY <3>2 DEF CheckPort, Probe
    <3>3. CASE Decide(p)
      <4>1. /\ choice[p] = "none" /\ UNCHANGED <<lock, seen>>
            /\ pc'[p] \notin Guarded \cup {"orphan"}
            /\ \A q \in Procs \ {p} : pc'[q] = pc[q] /\ choice'[q] = choice[q]
        BY <3>3 DEF Decide, Decision, ReadInv, Deciding
      <4>2. ASSUME NEW r \in Procs, pc'[r] \in Guarded \cup {"orphan"}, lock # r
            PROVE  \E q \in Procs \ {r} : Rival(q, r)'
        <5>1. PICK q \in Procs \ {r} : Rival(q, r)
          BY <4>1, <4>2
        <5>2. r # p /\ q # p /\ pc'[r] = pc[r]
          BY <4>1, <4>2, <5>1
        <5> HIDE DEF Guarded
        <5> QED
          BY <4>1, <5>1, <5>2
      <4> QED
        BY <4>1, <4>2
    <3>4. CASE CleanStaleLock(p) \/ RemoveOwnLock(p) \/ WriteLock(p)
      <4>1. pc[p] \in Replacing /\ pc[p] \notin Guarded
        BY <3>4 DEF CleanStaleLock, RemoveOwnLock, RemoveLock, WriteLock, Replacing
      <4>2. UNCHANGED <<seen, choice>>
            /\ (pc'[p] \in Guarded \cup {"orphan"} => lock' = p)
            /\ \A r \in Procs \ {p} : pc'[r] = pc[r]
        BY <3>4 DEF CleanStaleLock, RemoveOwnLock, RemoveLock, WriteLock
      <4>3. ASSUME NEW r \in Procs \ {p}, pc[r] \in Guarded \cup {"orphan"} PROVE Rival(p, r)
        BY <4>1, <4>3 DEF ReadInv, Alive, Over
      <4> QED
        BY <4>2, <4>3
    <3>5. CASE FindChrome(p) \/ StartUrlResolved(p) \/ LaunchChrome(p) \/ WaitForChrome(p)
      BY <3>5 DEF FindChrome, StartUrlResolved, LaunchChrome, WaitForChrome
    <3>6. CASE BindPort(p) \/ LoadApp(p)
      BY <3>6 DEF BindPort, LoadApp
    <3>7. CASE InitializeDatabase(p)
      BY <3>7 DEF InitializeDatabase, startVars
    <3>8. CASE OrphanServes(p) \/ OrphanEnds(p)
      BY <3>8 DEF OrphanServes, OrphanEnds
    <3> QED
      BY <2>1, <3>1, <3>2, <3>3, <3>4, <3>5, <3>6, <3>7, <3>8 DEF StartStep
  <2>2. ASSUME NEW p \in Procs, Stop(p) \/ Kill(p) \/ ReusePid(p) PROVE HeldInv'
    BY <2>2 DEF Stop, Kill, ReusePid, HeldInv, Rival, To, Guarded
  <2>3. CASE ChromeReady \/ UNCHANGED vars
    BY <2>3 DEF ChromeReady, vars, startVars, HeldInv, Rival
  <2> QED
    BY <2>1, <2>2, <2>3 DEF Next
<1> QED
  BY <1>1, <1>2, <1>3

\* The application that answers on the port is the one of the lock file, unless
\* a start removed or replaced that lock which had read the file before the
\* lock was in it, or had found the process it names dead while an orphaned
\* child went on to serve (dev_start.main, single_instance.py).
THEOREM LockKept == Spec => []LockLostOnlyToRival
<1>1. Init => LockInv
  BY InitLock
<1>2. TypeOK /\ LockInv /\ [Next]_vars => LockInv'
  BY StepLock
<1>3. TypeOK /\ LockInv => LockLostOnlyToRival
  BY DEF TypeOK, LockInv, PortInv, HeldInv, Rival, LockLostOnlyToRival, Guarded, Serving
<1> QED
  BY <1>1, <1>2, <1>3, TypeCorrect, PTL DEF Spec
=============================================================================

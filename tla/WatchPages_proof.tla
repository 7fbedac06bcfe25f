--------------------------- MODULE WatchPages_proof ---------------------------
(***************************************************************************)
(* Proofs about WatchPages: what the log of a watch tells of its row and   *)
(* of its snapshot, whatever commands, checks, deletions and restarts come *)
(* between, and that what a page offers has an effect.                     *)
(***************************************************************************)
EXTENDS WatchPages, TLAPS

Orders == [top : Nat, tidy : BOOLEAN, mixed : BOOLEAN]
Budgets == [commands : Nat, checks : Nat]

\* The tables and who is about to write them; each command and each check still
\* to come has its time.
TablesInv ==
    /\ row \in Rows \cup {None}
    /\ snap \in Snapshots \cup {None}
    /\ log \in Events
    /\ clock \in Nat
    /\ command \in [Tabs -> Changes \cup Edits \cup {NoCommand}]
    /\ check \in Checks \cup {None}
    /\ order \in Orders
    /\ budget \in Budgets
    /\ clock + budget.commands + budget.checks <= MaxTime

USE WatchPagesConstants, NoneIsNoName, NoneIsNoRecord

-----------------------------------------------------------------------------
(* The decisions                                                           *)

LEMMA DecidedRow ==
    ASSUME NEW c \in Lifecycle, NEW r
    PROVE  /\ Decided(c, r) \in Rows
           /\ c # "block" => Decided(c, r).paused # "http_403"
           /\ c = "block" => Decided(c, r).paused = "http_403"
  BY DEF Lifecycle, Decided, Control, Rows, Reasons

LEMMA StateOfRow ==
    ASSUME NEW r \in Rows, NEW s \in Snapshots \cup {None}
    PROVE  /\ RuntimeState(r, s) \in RuntimeStates
           /\ Stopped(r) => RuntimeState(r, s) = StopState(r)
           /\ ~Stopped(r) => RuntimeState(r, s) \in ActiveStates
  BY DEF RuntimeState, Stopped, StopState, CheckState, RuntimeStates, ActiveStates,
         PausedStates, Rows, Reasons

LEMMA CommandKinds == Commands \subseteq Lifecycle /\ "block" \notin Commands
                      /\ "edit" \notin Commands /\ "none" \notin Commands
  BY DEF Commands, Lifecycle

\* Whether a command is there, and which, is told by its kind.
LEMMA CommandCases ==
    ASSUME TablesInv, NEW t \in Tabs, command[t] # NoCommand
    PROVE  \/ command[t] \in Changes /\ command[t].kind # "edit"
           \/ command[t] \in Edits /\ command[t].kind = "edit"
              /\ command[t].step = "save"
  BY CommandKinds DEF TablesInv, Changes, Edits

-----------------------------------------------------------------------------
(* Types of the tables                                                     *)

LEMMA InitTables == Init => TablesInv
<1> SUFFICES ASSUME Init PROVE TablesInv
  OBVIOUS
<1>1. PICK s \in Scenarios :
         /\ row = StartRow(s.start)
         /\ snap = StartSnap(s.start)
         /\ log = StartLog(s.start)
         /\ clock = StartTime(s.start)
         /\ order = [top |-> clock, tidy |-> TRUE, mixed |-> FALSE]
         /\ budget = [commands |-> s.commands, checks |-> s.checks]
  BY DEF Init
<1>2. /\ s.commands \in Nat /\ s.checks \in Nat
      /\ s.commands + s.checks < MaxTime
  OBVIOUS
<1>3. row \in Rows
  BY <1>1, DecidedRow DEF StartRow, Fresh, Rows, Reasons, Lifecycle
<1>4. snap \in Snapshots \cup {None}
  BY <1>1 DEF StartSnap, Snapshots, Errors, Backoffs
<1>5. clock \in {0, 1}
  BY <1>1 DEF StartTime
<1>6. StopState(row) \in RuntimeStates
  BY DEF StopState, RuntimeStates, PausedStates
<1>7. log \in Events
  <2>1. NoEvents \in Events
    BY DEF NoEvents, Events
  <2>2. [at |-> 1, to |-> StopState(row)] \in Controlled
    BY <1>2, <1>6 DEF Controlled
  <2> QED
    BY <1>1, <2>1, <2>2 DEF StartLog, Events
<1> QED
  BY <1>1, <1>2, <1>3, <1>4, <1>5, <1>7 DEF Init, TablesInv, Orders, Budgets

LEMMA OrderFields ==
    ASSUME order \in Orders, NEW n \in Nat, NEW b \in BOOLEAN
    PROVE  /\ [order EXCEPT !.tidy = b] \in Orders
           /\ [order EXCEPT !.mixed = b] \in Orders
           /\ [order EXCEPT !.top = n, !.tidy = b] \in Orders
           /\ [order EXCEPT !.top = n, !.tidy = b].top = n
           /\ [order EXCEPT !.top = n, !.tidy = b].tidy = b
           /\ [order EXCEPT !.top = n, !.tidy = b].mixed = order.mixed
  BY DEF Orders

LEMMA OrderTypes ==
    ASSUME order \in Orders, NEW at \in Nat
    PROVE  /\ InOrder(at) \in Orders
           /\ InOrder(at).top = Later(at, order.top)
           /\ InOrder(at).tidy <=> at >= order.top
           /\ InOrder(at).mixed = order.mixed
<1> DEFINE b == at >= order.top
<1>1. Later(at, order.top) \in Nat
  BY DEF Later, Orders
<1>2. InOrder(at) = [order EXCEPT !.top = Later(at, order.top), !.tidy = b]
  BY DEF InOrder
<1>3. b \in BOOLEAN
  OBVIOUS
<1> HIDE DEF b
<1>4. /\ InOrder(at) \in Orders
      /\ InOrder(at).top = Later(at, order.top)
      /\ InOrder(at).tidy = b
      /\ InOrder(at).mixed = order.mixed
  <2> DEFINE n == Later(at, order.top)
             new == [order EXCEPT !.top = n, !.tidy = b]
  <2> HIDE DEF n
  <2>1. n \in Nat
    BY <1>1 DEF n
  <2>2. new \in Orders /\ new.top = n /\ new.tidy = b /\ new.mixed = order.mixed
    BY <1>3, <2>1, OrderFields
  <2> QED
    BY <1>2, <2>2 DEF n
<1> QED
  BY <1>4 DEF b

LEMMA ResultTypes ==
    ASSUME NEW previous, NEW next \in Results(previous)
    PROVE  /\ next \in Snapshots
           /\ next # None
<1>1. \/ next = Result(None, "none", FALSE)
      \/ next = Result("network_error", "ahead", FALSE)
      \/ next = Result("http_403", "none", FALSE)
      \/ \E d \in BOOLEAN : next = Result("parse_failed", "ahead", d)
  BY DEF Results
<1>2. next \in Snapshots
  <2>1. CASE \E d \in BOOLEAN : next = Result("parse_failed", "ahead", d)
    BY <2>1 DEF Result, Snapshots, Errors, Backoffs
  <2>2. CASE next = Result(None, "none", FALSE)
    BY <2>2 DEF Result, Snapshots, Errors, Backoffs
  <2>3. CASE next = Result("network_error", "ahead", FALSE)
    BY <2>3 DEF Result, Snapshots, Errors, Backoffs
  <2>4. CASE next = Result("http_403", "none", FALSE)
    BY <2>4 DEF Result, Snapshots, Errors, Backoffs
  <2> QED
    BY <1>1, <2>1, <2>2, <2>3, <2>4
<1> QED
  BY <1>2

LEMMA DecideTables ==
    ASSUME TablesInv, NEW t \in Tabs, NEW c \in Commands, Decide(t, c),
           budget.commands > 0
    PROVE  /\ clock' = clock + 1
           /\ command' \in [Tabs -> Changes \cup Edits \cup {NoCommand}]
           /\ command'[t] \in Changes
           /\ command'[t].row = Decided(c, row)
           /\ \A u \in Tabs \ {t} : command'[u] = command[u]
<1>1. row \in Rows /\ c \in Lifecycle
  BY CommandKinds DEF Decide, TablesInv
<1> DEFINE new == [kind |-> c, step |-> "save", row |-> Decided(c, row),
                   at |-> clock + 1, to |-> RuntimeState(Decided(c, row), snap)]
<1>2. RuntimeState(Decided(c, row), snap) \in RuntimeStates
  BY <1>1, DecidedRow, StateOfRow DEF TablesInv
<1>3. clock + 1 \in 1..MaxTime
  BY DEF TablesInv, Budgets
<1>4. new \in Changes
  BY <1>1, <1>2, <1>3, DecidedRow DEF Changes
<1>5. command' = [command EXCEPT ![t] = new] /\ clock' = clock + 1
  BY DEF Decide
<1> QED
  BY <1>4, <1>5 DEF TablesInv

LEMMA StepTables == TablesInv /\ [Next]_vars => TablesInv'
<1> SUFFICES ASSUME TablesInv, [Next]_vars PROVE TablesInv'
  OBVIOUS
<1>1. ASSUME NEW t \in Tabs, SaveRow(t) PROVE TablesInv'
  <2>1. command[t].row \in Rows
    BY <1>1, CommandCases DEF SaveRow, Saves, Changes, Edits
  <2>2. CASE command[t].kind = "edit"
    BY <1>1, <2>1, <2>2 DEF SaveRow, Saves, Done, TablesInv, Orders
  <2>3. CASE command[t].kind # "edit"
    <3>1. command[t] \in Changes
      BY <1>1, <2>3, CommandCases DEF SaveRow, Saves
    <3>2. [command[t] EXCEPT !.step = "append"] \in Changes
      BY <3>1 DEF Changes
    <3>4. order' \in Orders
      <4>1. command[t].at \in Nat
        BY <3>1 DEF Changes
      <4> QED
        BY <1>1, <2>3, <4>1, OrderTypes DEF SaveRow, TablesInv
    <3> QED
      BY <1>1, <2>1, <2>3, <3>2, <3>4 DEF SaveRow, TablesInv
  <2> QED
    BY <2>2, <2>3
<1>2. ASSUME NEW t \in Tabs, AppendEvent(t) PROVE TablesInv'
  <2>1. command[t] \in Changes
    BY <1>2, CommandCases DEF AppendEvent
  <2>2. Logged(command[t].at, command[t].to) \in Controlled \cup {None}
    BY <2>1 DEF Logged, Controlled, Changes, TablesInv, Events
  <2>3. log' \in Events
    BY <1>2, <2>2 DEF AppendEvent, TablesInv, Events
  <2> QED
    BY <1>2, <2>3 DEF AppendEvent, Done, TablesInv
<1>3. ASSUME DeleteRow, Spend PROVE TablesInv'
  <2>1. NoEvents \in Events
    BY DEF NoEvents, Events
  <2>2. check' \in Checks \cup {None}
    BY <1>3 DEF DeleteRow, TablesInv, Checks
  <2>3. order' \in Orders
    BY <1>3, OrderFields DEF DeleteRow, TablesInv
  <2>4. budget' \in Budgets /\ clock' + budget'.commands + budget'.checks <= MaxTime
    BY <1>3 DEF DeleteRow, Spend, TablesInv, Budgets
  <2> QED
    BY <1>3, <2>1, <2>2, <2>3, <2>4 DEF DeleteRow, TablesInv
<1>4. ASSUME OtherCommand PROVE TablesInv'
  <2>1. PICK t \in Tabs : (\E c \in Commands : Decide(t, c)) \/ ReadForEdit(t)
    BY <1>4 DEF OtherCommand
  <2>2. ASSUME NEW c \in Commands, Decide(t, c) PROVE TablesInv'
    BY <1>4, <2>2, DecideTables DEF OtherCommand, Spend, tables, TablesInv, Budgets
  <2>3. CASE ReadForEdit(t)
    <3>1. [kind |-> "edit", step |-> "save", row |-> row] \in Edits
      BY <2>3 DEF ReadForEdit, Edits, TablesInv
    <3> QED
      BY <1>4, <2>3, <3>1 DEF OtherCommand, ReadForEdit, Spend, tables, TablesInv, Budgets
  <2> QED
    BY <2>1, <2>2, <2>3
<1>5. ASSUME NEW c \in Commands \cup {"check-now", "delete"}, Click(c) PROVE TablesInv'
  <2>1. CASE c = "delete"
    BY <1>3, <1>5, <2>1 DEF Click
  <2>2. CASE c = "check-now"
    BY <1>5, <2>2 DEF Click, Spend, tables, TablesInv, Budgets
  <2>3. CASE c \in Commands
    <3>1. c # "delete" /\ c # "check-now"
      BY <2>3 DEF Commands, Lifecycle
    <3>2. ThisPage \in Tabs
      BY DEF ThisPage, Tabs
    <3>3. CASE Decide(ThisPage, c)
      BY <1>5, <2>3, <3>1, <3>2, <3>3, DecideTables
         DEF Click, Spend, tables, TablesInv, Budgets
    <3>4. CASE UNCHANGED <<command, clock>>
      BY <1>5, <3>1, <3>4 DEF Click, Spend, tables, TablesInv, Budgets
    <3> QED
      BY <1>5, <3>1, <3>3, <3>4 DEF Click
  <2> QED
    BY <2>1, <2>2, <2>3
<1>6. ASSUME BeginCheck PROVE TablesInv'
  <2>1. check' \in Checks
    BY <1>6 DEF BeginCheck, MayCheck, Checks, TablesInv, Budgets
  <2> QED
    BY <1>6, <2>1 DEF BeginCheck, tables, TablesInv, Budgets
<1>7. ASSUME GateCheck PROVE TablesInv'
  BY <1>7 DEF GateCheck, tables, TablesInv, Checks
<1>8. ASSUME PersistCheck PROVE TablesInv'
  <2>1. check \in Checks
    BY <1>8 DEF PersistCheck, TablesInv
  <2>2. PICK next \in Results(check.snap) : StoreResult(next)
    BY <1>8 DEF PersistCheck
  <2>3. next \in Snapshots
    BY ResultTypes
  <2>4. Decided("block", check.row) \in Rows
    BY DecidedRow DEF Lifecycle
  <2>5. RuntimeState(Decided("block", check.row), next) \in RuntimeStates
    BY <2>3, <2>4, StateOfRow
  <2>6. CASE row # None
    <3>1. Logged(check.at, RuntimeState(Decided("block", check.row), next))
             \in Controlled \cup {None}
      BY <2>1, <2>5 DEF Logged, Controlled, Checks, TablesInv, Events
    <3>2. /\ BackoffSaid(log.backoff, check.snap, next) \in BOOLEAN
          /\ DegradedSaid(log.degraded, check.snap, next) \in BOOLEAN
      BY DEF BackoffSaid, DegradedSaid, TablesInv, Events
    <3>3. log' \in Events
      BY <2>2, <2>6, <3>1, <3>2 DEF StoreResult, TablesInv, Events
    <3>4. InOrder(check.at) \in Orders
      <4>1. check.at \in Nat
        BY <2>1 DEF Checks
      <4> QED
        BY <4>1, OrderTypes DEF TablesInv
    <3>5. order' \in Orders
      BY <2>1, <2>2, <2>6, <3>4 DEF StoreResult, TablesInv, Orders, Checks
    <3> QED
      BY <1>8, <2>2, <2>3, <2>4, <2>6, <3>3, <3>5
         DEF StoreResult, PersistCheck, TablesInv
  <2>7. CASE row = None
    BY <1>8, <2>2, <2>7 DEF StoreResult, PersistCheck, TablesInv
  <2> QED
    BY <2>6, <2>7
<1>9. ASSUME BackoffPasses PROVE TablesInv'
  <2>1. snap' \in Snapshots
    BY <1>9 DEF BackoffPasses, TablesInv, Snapshots, Backoffs
  <2> QED
    BY <1>9, <2>1 DEF BackoffPasses, writers, TablesInv
<1>10. ASSUME Crash PROVE TablesInv'
  <2>1. command' \in [Tabs -> Changes \cup Edits \cup {NoCommand}]
    BY <1>10 DEF Crash
  <2>2. order' \in Orders
    <3> DEFINE b == /\ order.tidy
                    /\ \A t \in Tabs : ~(/\ command[t] # NoCommand
                                          /\ command[t].step = "append"
                                          /\ command[t].at = order.top)
    <3>1. order' = [order EXCEPT !.tidy = b]
      BY <1>10 DEF Crash
    <3>2. b \in BOOLEAN
      OBVIOUS
    <3> HIDE DEF b
    <3> QED
      BY <3>1, <3>2, OrderFields DEF TablesInv
  <2> QED
    BY <1>10, <2>1, <2>2 DEF Crash, Spend, tables, TablesInv, Budgets
<1>11. ASSUME UNCHANGED <<row, snap, log, writers>> PROVE TablesInv'
  BY <1>11 DEF writers, TablesInv
<1>12. CASE SaveDisplay
  BY <1>12 DEF SaveDisplay, Spend, TablesInv, Budgets
<1> QED
  BY <1>1, <1>2, <1>3, <1>4, <1>5, <1>6, <1>7, <1>8, <1>9, <1>10, <1>11, <1>12
     DEF Next, OtherDelete, CheckVersion, RefreshFragments, ServeRead, Receive, Sync,
         tables, vars

\* The result of a check, as the properties see it.
LEMMA StoreEffect ==
    ASSUME TablesInv, PersistCheck, row # None
    PROVE  /\ check \in Checks
           /\ \E next \in Results(check.snap) :
                 /\ snap' = next
                 /\ log'.backoff = BackoffSaid(log.backoff, check.snap, next)
                 /\ log'.degraded = DegradedSaid(log.degraded, check.snap, next)
                 /\ IF next.error = "http_403"
                    THEN /\ row' = Decided("block", check.row)
                         /\ log'.newest = Logged(check.at, "paused_blocked")
                         /\ order'.top = Later(check.at, order.top)
                         /\ order'.tidy <=> check.at >= order.top
                    ELSE /\ row' = row
                         /\ log'.newest = log.newest
                         /\ order'.top = order.top
                         /\ order'.tidy <=> order.tidy
           /\ order'.mixed <=> order.mixed \/ check.stale
<1>1. check \in Checks
  BY DEF PersistCheck, TablesInv
<1>2. PICK next \in Results(check.snap) : StoreResult(next)
  BY DEF PersistCheck
<1>3. check.at \in Nat /\ check.stale \in BOOLEAN
  BY <1>1 DEF Checks
<1> DEFINE base == IF next.error = "http_403" THEN InOrder(check.at) ELSE order
           b == base.mixed \/ check.stale
<1>4. base \in Orders
  BY <1>3, OrderTypes DEF TablesInv
<1>5. order' = [base EXCEPT !.mixed = b]
  BY <1>2 DEF StoreResult
<1>6. b \in BOOLEAN
  OBVIOUS
<1>7. /\ order'.top = base.top
      /\ order'.tidy = base.tidy
      /\ order'.mixed = b
  <2> HIDE DEF base, b
  <2> QED
    BY <1>4, <1>5, <1>6 DEF Orders
<1>8. /\ base.mixed = order.mixed
      /\ next.error = "http_403" => /\ base.top = Later(check.at, order.top)
                                    /\ base.tidy <=> check.at >= order.top
      /\ next.error # "http_403" => base = order
  BY <1>3, OrderTypes DEF TablesInv
<1>9. RuntimeState(Decided("block", check.row), next) = "paused_blocked"
  BY DEF RuntimeState, Stopped, StopState, Decided, Control
<1>10. /\ snap' = next
       /\ log'.backoff = BackoffSaid(log.backoff, check.snap, next)
       /\ log'.degraded = DegradedSaid(log.degraded, check.snap, next)
       /\ next.error = "http_403" =>
             /\ row' = Decided("block", check.row)
             /\ log'.newest = Logged(check.at, "paused_blocked")
       /\ next.error # "http_403" => row' = row /\ log'.newest = log.newest
  BY <1>2, <1>9 DEF StoreResult, ControlLogged
<1>11. order'.mixed <=> order.mixed \/ check.stale
  BY <1>7, <1>8
<1>12. /\ next.error = "http_403" => /\ order'.top = Later(check.at, order.top)
                                     /\ order'.tidy <=> check.at >= order.top
       /\ next.error # "http_403" => order'.top = order.top /\ order'.tidy = order.tidy
  BY <1>7, <1>8
<1> HIDE DEF base, b
<1> QED
  BY <1>1, <1>2, <1>10, <1>11, <1>12

-----------------------------------------------------------------------------
(* The log and the snapshot                                                *)

\* The events agree with the snapshot, and a check that will be compared with
\* the snapshot it read finds the one that the events agree with.
SnapshotInv ==
    /\ ~order.mixed => /\ log.backoff <=> HasBackoff(snap)
                       /\ log.degraded <=> IsDegraded(snap)
    /\ check # None /\ ~check.stale =>
          /\ HasBackoff(check.snap) <=> HasBackoff(snap)
          /\ IsDegraded(check.snap) <=> IsDegraded(snap)

LEMMA InitSnapshot == Init => SnapshotInv
<1> SUFFICES ASSUME Init PROVE SnapshotInv
  OBVIOUS
<1>1. PICK s \in Scenarios : snap = StartSnap(s.start) /\ log = StartLog(s.start)
  BY DEF Init
<1>2. ~HasBackoff(snap) /\ ~IsDegraded(snap)
  BY <1>1 DEF StartSnap, HasBackoff, IsDegraded
<1>3. ~log.backoff /\ ~log.degraded
  BY <1>1 DEF StartLog, NoEvents
<1> QED
  BY <1>2, <1>3 DEF Init, SnapshotInv

LEMMA StepSnapshot == TablesInv /\ SnapshotInv /\ [Next]_vars => SnapshotInv'
<1> SUFFICES ASSUME TablesInv, SnapshotInv, [Next]_vars PROVE SnapshotInv'
  OBVIOUS
<1>1. ASSUME UNCHANGED <<snap, log, check>>, order'.mixed <=> order.mixed
      PROVE  SnapshotInv'
  BY <1>1 DEF SnapshotInv
<1>2. ASSUME NEW t \in Tabs, SaveRow(t) PROVE SnapshotInv'
  <2>1. CASE command[t].kind = "edit"
    BY <1>1, <1>2, <2>1 DEF SaveRow, TablesInv, Orders
  <2>2. CASE command[t].kind # "edit"
    <3>1. command[t].at \in Nat
      BY <1>2, <2>2, CommandCases DEF SaveRow, Saves, Changes
    <3> QED
      BY <1>1, <1>2, <2>2, <3>1, OrderTypes DEF SaveRow, TablesInv
  <2> QED
    BY <2>1, <2>2
<1>3. ASSUME NEW t \in Tabs, AppendEvent(t) PROVE SnapshotInv'
  <2>1. log'.backoff = log.backoff /\ log'.degraded = log.degraded
    BY <1>3 DEF AppendEvent, TablesInv, Events
  <2> QED
    BY <1>3, <2>1 DEF AppendEvent, SnapshotInv
<1>4. ASSUME DeleteRow PROVE SnapshotInv'
  BY <1>4 DEF DeleteRow, SnapshotInv, NoEvents, HasBackoff, IsDegraded, TablesInv, Checks
<1>5. ASSUME NEW c \in Commands \cup {"check-now", "delete"}, Click(c) PROVE SnapshotInv'
  BY <1>1, <1>4, <1>5 DEF Click, tables
<1>6. ASSUME BeginCheck PROVE SnapshotInv'
  BY <1>6 DEF BeginCheck, tables, SnapshotInv
<1>7. ASSUME GateCheck PROVE SnapshotInv'
  BY <1>7 DEF GateCheck, tables, SnapshotInv, TablesInv, Checks
<1>8. ASSUME PersistCheck PROVE SnapshotInv'
  <2>1. CASE row = None
    BY <1>8, <2>1 DEF PersistCheck, StoreResult, SnapshotInv
  <2>2. CASE row # None
    <3>1. PICK next \in Results(check.snap) :
            /\ snap' = next
            /\ log'.backoff = BackoffSaid(log.backoff, check.snap, next)
            /\ log'.degraded = DegradedSaid(log.degraded, check.snap, next)
      BY <1>8, <2>2, StoreEffect
    <3>2. order'.mixed <=> order.mixed \/ check.stale
      BY <1>8, <2>2, StoreEffect
    <3>3. ASSUME ~order'.mixed
          PROVE  /\ log'.backoff <=> HasBackoff(next)
                 /\ log'.degraded <=> IsDegraded(next)
      <4>1. /\ log.backoff <=> HasBackoff(check.snap)
            /\ log.degraded <=> IsDegraded(check.snap)
        BY <1>8, <3>2, <3>3 DEF SnapshotInv, PersistCheck
      <4>2. log'.backoff <=> HasBackoff(next)
        BY <3>1, <4>1 DEF BackoffSaid
      <4>3. log'.degraded <=> IsDegraded(next)
        BY <3>1, <4>1 DEF DegradedSaid
      <4> QED
        BY <4>2, <4>3
    <3> QED
      BY <1>8, <3>1, <3>3 DEF SnapshotInv, PersistCheck
  <2> QED
    BY <2>1, <2>2
<1>9. ASSUME BackoffPasses PROVE SnapshotInv'
  <2>1. snap' # None
    BY <1>9 DEF BackoffPasses, TablesInv, Snapshots, Backoffs
  <2>2. (HasBackoff(snap) /\ HasBackoff(snap)')
    BY <1>9, <2>1 DEF BackoffPasses, TablesInv, Snapshots, HasBackoff
  <2>3. (IsDegraded(snap) <=> IsDegraded(snap)')
    BY <1>9, <2>1 DEF BackoffPasses, TablesInv, Snapshots, IsDegraded
  <2> QED
    BY <1>9, <2>2, <2>3 DEF BackoffPasses, writers, SnapshotInv
<1>10. ASSUME Crash PROVE SnapshotInv'
  BY <1>10 DEF Crash, tables, SnapshotInv, TablesInv, Orders
<1>11. ASSUME UNCHANGED <<row, snap, log, writers>> PROVE SnapshotInv'
  BY <1>11 DEF writers, SnapshotInv
<1>12. CASE SaveDisplay \/ OtherCommand
  BY <1>1, <1>12 DEF SaveDisplay, OtherCommand, tables
<1> QED
  BY <1>2, <1>3, <1>4, <1>5, <1>6, <1>7, <1>8, <1>9, <1>10, <1>11, <1>12
     DEF Next, OtherDelete, CheckVersion, RefreshFragments, ServeRead, Receive, Sync,
         tables, vars

\* The events about the backoff and the parse failures tell what the latest
\* snapshot holds: a check compares its result with the snapshot it read, and
\* that one is still there, or is only past its backoff, unless the watch was
\* deleted meanwhile.
THEOREM LogAndSnapshot == Spec => []LogTellsSnapshot
<1>1. SnapshotInv => LogTellsSnapshot
  BY DEF SnapshotInv, LogTellsSnapshot
<1> QED
  BY InitTables, StepTables, InitSnapshot, StepSnapshot, <1>1, PTL DEF Spec

-----------------------------------------------------------------------------
(* A blocked watch                                                         *)

IsChange(t) == command[t] # NoCommand /\ command[t].kind # "edit"

\* While a check runs no write in order pauses the watch as blocked: only a
\* check does, no command's row is one, and a rule edit that brings such a row
\* back is out of order.
BlockedInv ==
    /\ \A t \in Tabs : IsChange(t) => command[t].row.paused # "http_403"
    /\ order.tidy /\ row # None /\ check # None => row.paused # "http_403"
    /\ BlockedShown

LEMMA InitBlocked == Init => BlockedInv
<1> SUFFICES ASSUME Init PROVE BlockedInv
  OBVIOUS
<1>1. PICK s \in Scenarios : row = StartRow(s.start) /\ snap = StartSnap(s.start)
  BY DEF Init
<1>2. row.paused = "http_403" => s.start = "blocked"
  BY <1>1 DEF StartRow, Decided, Control, Fresh
<1>3. s.start = "blocked" => snap.error = "http_403"
  BY <1>1 DEF StartSnap
<1> QED
  BY <1>2, <1>3 DEF Init, BlockedInv, BlockedShown, IsChange

LEMMA StepBlocked == TablesInv /\ BlockedInv /\ [Next]_vars => BlockedInv'
<1> SUFFICES ASSUME TablesInv, BlockedInv, [Next]_vars PROVE BlockedInv'
  OBVIOUS
<1>1. ASSUME UNCHANGED <<row, snap, command, check>>,
             order'.tidy => order.tidy
      PROVE  BlockedInv'
  BY <1>1 DEF BlockedInv, BlockedShown, IsChange
<1>2. ASSUME NEW t \in Tabs, SaveRow(t) PROVE BlockedInv'
  <2>1. CASE command[t].kind = "edit"
    <3>1. order'.tidy => order.tidy /\ row' = row
      BY <1>2, <2>1 DEF SaveRow, TablesInv, Orders
    <3>2. \A u \in Tabs : IsChange(u)' => IsChange(u) /\ command'[u] = command[u]
      BY <1>2, <2>1 DEF SaveRow, Done, IsChange, TablesInv
    <3> QED
      BY <1>2, <3>1, <3>2 DEF SaveRow, BlockedInv, BlockedShown
  <2>2. CASE command[t].kind # "edit"
    <3>1. command[t] \in Changes
      BY <1>2, <2>2, CommandCases DEF SaveRow, Saves
    <3>2. /\ row' = command[t].row
          /\ command' = [command EXCEPT ![t].step = "append"]
          /\ UNCHANGED <<snap, check>>
      BY <1>2, <2>2 DEF SaveRow
    <3>3. command[t].row.paused # "http_403"
      BY <1>2, <2>2 DEF SaveRow, Saves, BlockedInv, IsChange
    <3>4. \A u \in Tabs : IsChange(u)' => /\ IsChange(u)
                                          /\ command'[u].row = command[u].row
      BY <3>1, <3>2, <2>2, <1>2 DEF IsChange, TablesInv, Changes, SaveRow, Saves
    <3> QED
      BY <3>2, <3>3, <3>4 DEF BlockedInv, BlockedShown
  <2> QED
    BY <2>1, <2>2
<1>3. ASSUME NEW t \in Tabs, AppendEvent(t) PROVE BlockedInv'
  <2>1. \A u \in Tabs : IsChange(u)' => IsChange(u) /\ command'[u] = command[u]
    BY <1>3 DEF AppendEvent, Done, IsChange, TablesInv
  <2> QED
    BY <1>3, <2>1 DEF AppendEvent, BlockedInv, BlockedShown
<1>4. ASSUME DeleteRow PROVE BlockedInv'
  BY <1>4 DEF DeleteRow, BlockedInv, BlockedShown, IsChange
<1>5. ASSUME NEW t \in Tabs, NEW c \in Commands, Decide(t, c), budget.commands > 0,
             UNCHANGED <<row, snap, check, order>>
      PROVE  BlockedInv'
  <2>1. /\ \A u \in Tabs \ {t} : command'[u] = command[u]
        /\ command'[t].row = Decided(c, row)
    BY <1>5, DecideTables
  <2>2. Decided(c, row).paused # "http_403"
    BY DecidedRow, CommandKinds
  <2>3. \A u \in Tabs : IsChange(u)' => command'[u].row.paused # "http_403"
    BY <2>1, <2>2 DEF BlockedInv, IsChange
  <2> QED
    BY <1>5, <2>3 DEF BlockedInv, BlockedShown
<1>6. ASSUME OtherCommand PROVE BlockedInv'
  <2>1. PICK t \in Tabs : (\E c \in Commands : Decide(t, c)) \/ ReadForEdit(t)
    BY <1>6 DEF OtherCommand
  <2>2. CASE \E c \in Commands : Decide(t, c)
    BY <1>5, <1>6, <2>2 DEF OtherCommand, Spend, tables
  <2>3. CASE ReadForEdit(t)
    <3>1. \A u \in Tabs : IsChange(u)' => IsChange(u) /\ command'[u] = command[u]
      BY <2>3 DEF ReadForEdit, IsChange, TablesInv
    <3> QED
      BY <1>6, <3>1 DEF OtherCommand, tables, BlockedInv, BlockedShown
  <2> QED
    BY <2>1, <2>2, <2>3
<1>7. ASSUME NEW c \in Commands \cup {"check-now", "delete"}, Click(c) PROVE BlockedInv'
  <2>1. CASE c \in {"delete", "check-now"}
    BY <1>1, <1>4, <1>7, <2>1 DEF Click, tables
  <2>2. CASE c \in Commands
    <3>1. c # "delete" /\ c # "check-now" /\ ThisPage \in Tabs
      BY <2>2 DEF Commands, Lifecycle, ThisPage, Tabs
    <3>2. CASE Decide(ThisPage, c)
      BY <1>5, <1>7, <2>2, <3>1, <3>2 DEF Click, Spend, tables
    <3>3. CASE UNCHANGED <<command, clock>>
      BY <1>1, <1>7, <3>1, <3>3 DEF Click, tables
    <3> QED
      BY <1>7, <3>1, <3>2, <3>3 DEF Click
  <2> QED
    BY <2>1, <2>2
<1>8. ASSUME BeginCheck PROVE BlockedInv'
  <2>1. row.paused = None
    BY <1>8 DEF BeginCheck, MayCheck, Stopped
  <2> QED
    BY <1>8, <2>1 DEF BeginCheck, tables, BlockedInv, BlockedShown, IsChange
<1>9. ASSUME GateCheck PROVE BlockedInv'
  BY <1>9 DEF GateCheck, tables, BlockedInv, BlockedShown, IsChange
<1>10. ASSUME PersistCheck PROVE BlockedInv'
  <2>1. CASE row = None
    BY <1>10, <2>1 DEF PersistCheck, StoreResult, BlockedInv, BlockedShown, IsChange
  <2>2. CASE row # None
    <3>1. PICK next \in Results(check.snap) :
            /\ snap' = next
            /\ next.error # "http_403" => row' = row /\ (order'.tidy <=> order.tidy)
      BY <1>10, <2>2, StoreEffect
    <3>2. BlockedShown'
      BY <1>10, <2>2, <3>1 DEF BlockedInv, BlockedShown, PersistCheck
    <3> QED
      BY <1>10, <3>2 DEF PersistCheck, BlockedInv, IsChange
  <2> QED
    BY <2>1, <2>2
<1>11. ASSUME BackoffPasses PROVE BlockedInv'
  <2>1. snap'.error = snap.error
    BY <1>11 DEF BackoffPasses, TablesInv, Snapshots
  <2> QED
    BY <1>11, <2>1 DEF BackoffPasses, writers, BlockedInv, BlockedShown, IsChange
<1>12. ASSUME Crash PROVE BlockedInv'
  <2>1. order'.tidy => order.tidy
    BY <1>12 DEF Crash, TablesInv, Orders
  <2>2. \A t \in Tabs : ~IsChange(t)'
    BY <1>12 DEF Crash, IsChange
  <2> QED
    BY <1>12, <2>1, <2>2 DEF Crash, tables, BlockedInv, BlockedShown
<1>13. ASSUME UNCHANGED <<row, snap, log, writers>> PROVE BlockedInv'
  BY <1>1, <1>13 DEF writers
<1>14. CASE SaveDisplay
  BY <1>1, <1>14 DEF SaveDisplay
<1> QED
  BY <1>2, <1>3, <1>4, <1>6, <1>7, <1>8, <1>9, <1>10, <1>11, <1>12, <1>13, <1>14
     DEF Next, OtherDelete, CheckVersion, RefreshFragments, ServeRead, Receive, Sync,
         tables, vars

\* A watch that is paused because the site blocked it shows that block as its
\* latest result, unless its rows were written out of order: the transaction
\* that pauses it stores the block, and no check ends while it is paused.
THEOREM PauseAndBlock == Spec => []BlockedShown
<1>1. BlockedInv => BlockedShown
  BY DEF BlockedInv
<1> QED
  BY InitTables, StepTables, InitBlocked, StepBlocked, <1>1, PTL DEF Spec

-----------------------------------------------------------------------------
(* What a page offers                                                      *)

LEMMA OfferedIn ==
    ASSUME NEW kind, NEW state, NEW c \in Offered(kind, state), c # "delete"
    PROVE  /\ state \in ActiveStates => c = "pause" \/ (c = "check-now" /\ kind = "detail")
           /\ state \in PausedStates => c = "resume"
           /\ state = "manually_disabled" => c = "enable"
<1>1. CASE state \in ActiveStates
  BY <1>1 DEF Offered, ActiveStates, PausedStates
<1>2. CASE state \in PausedStates
  BY <1>2 DEF Offered, ActiveStates, PausedStates
<1>3. CASE state = "manually_disabled"
  BY <1>3 DEF Offered, ActiveStates, PausedStates
<1> QED
  BY <1>1, <1>2, <1>3

LEMMA OfferedTells ==
    ASSUME NEW kind, NEW r, NEW s, NEW c \in Offered(kind, RuntimeState(r, s)),
           c # "delete"
    PROVE  \/ c = "check-now" /\ kind = "detail" /\ ~Stopped(r)
           \/ c = "pause" /\ ~Stopped(r)
           \/ c = "resume" /\ r.enabled /\ r.paused # None
           \/ c = "enable" /\ ~r.enabled
<1>1. CheckState(s) \in ActiveStates
  BY DEF CheckState, ActiveStates
<1>2. CASE ~Stopped(r)
  BY <1>1, <1>2, OfferedIn DEF RuntimeState
<1>3. CASE ~r.enabled
  BY <1>3, OfferedIn DEF RuntimeState, Stopped, StopState
<1>4. CASE r.enabled /\ r.paused # None
  <2>1. StopState(r) \in PausedStates
    BY <1>4 DEF StopState, PausedStates
  <2> QED
    BY <1>4, <2>1, OfferedIn DEF RuntimeState, Stopped
<1> QED
  BY <1>2, <1>3, <1>4 DEF Stopped

LEMMA StepOffer ==
    ASSUME TablesInv, NEW c \in Commands \cup {"check-now"},
           Click(c), page.shown.row = row
    PROVE  IF c = "check-now" THEN page'.kind # "error"
           ELSE command'[ThisPage].row # row
<1>1. /\ page.kind # "error"
      /\ row # None
      /\ c \in Offered(page.kind, RuntimeState(row, page.shown.snap))
  BY DEF Click, Clickable, PageState
<1>2. c # "delete"
  BY DEF Commands, Lifecycle
<1>3. CASE c = "check-now"
  <2>1. page.kind = "detail" /\ ~Stopped(row)
    BY <1>1, <1>2, <1>3, OfferedTells
  <2>2. Checkable(row, snap)
    <3>1. RuntimeState(row, snap) \in ActiveStates
      BY <1>1, <2>1, StateOfRow DEF TablesInv
    <3> QED
      BY <3>1 DEF Checkable, ActiveStates, PausedStates
  <2>3. page' = page
    BY <1>1, <1>3, <2>2 DEF Click
  <2> QED
    BY <1>3, <2>1, <2>3
<1>4. CASE c \in Commands
  <2>1. c # "check-now"
    BY <1>4 DEF Commands, Lifecycle
  <2>2. Decide(ThisPage, c) /\ Spend
    BY <1>1, <1>2, <2>1 DEF Click
  <2>3. command'[ThisPage].row = Decided(c, row)
    BY <1>4, <2>2, DecideTables DEF Spend, ThisPage, Tabs
  <2>4. Decided(c, row) # row
    <3>1. row.paused = "manually_paused" => Stopped(row)
      BY NoneIsNoName DEF Stopped
    <3>2. CASE c = "pause"
      BY <1>1, <3>1, <3>2, OfferedTells DEF Decided, Control
    <3>3. CASE c = "resume"
      BY <1>1, <3>3, OfferedTells DEF Decided, Control
    <3>4. CASE c = "enable"
      BY <1>1, <3>4, OfferedTells DEF Decided, Control
    <3> QED
      BY <1>1, <1>2, <2>1, <3>2, <3>3, <3>4, OfferedTells
  <2> QED
    BY <2>1, <2>3, <2>4
<1> QED
  BY <1>3, <1>4

\* What a page offers for a row that is as it shows it has an effect, whatever
\* the snapshot of the page says and has become: an active state offers what an
\* active row takes, a stopped one what changes that row.
THEOREM OffersTakeEffect == Spec => OfferHasEffect
<1> DEFINE Effect == \A c \in Commands \cup {"check-now"} :
                        Click(c) /\ page.shown.row = row =>
                           IF c = "check-now" THEN page'.kind # "error"
                           ELSE command'[ThisPage].row # row
<1>1. TablesInv /\ [Next]_vars => [Effect]_vars
  BY StepOffer
<1> QED
  BY InitTables, StepTables, <1>1, PTL DEF Spec, OfferHasEffect

-----------------------------------------------------------------------------
(* The page and its requests                                               *)

Values == Rows \cup Snapshots \cup Events \cup BOOLEAN \cup {None}
Contents == [Fields -> Values]

ShownOK(kind, shown) ==
    /\ shown.row \in Rows \cup {None}
    /\ shown.snap \in Snapshots \cup {None}
    /\ StateOK(kind, shown.state)
    /\ shown.display \in BOOLEAN

Pages == {p \in [kind : Kinds, scheduled : BOOLEAN, shown : Contents, token : Contents] :
             ShownOK(p.kind, p.shown)}

\* A request that is served: its contents are whole after their last read.
Reading == [what : {"version", "fragments", "load"}, kind : Kinds, done : Nat,
            shown : Contents, token : Contents]
ReadOK(r) ==
    /\ r.done <= AllReads(r.what, r.kind)
    /\ r.shown.row \in Rows \cup {None}
    /\ r.shown.snap \in Snapshots \cup {None}
    /\ r.what # "version" /\ r.done >= 3 => ShownOK(r.kind, r.shown)
Served == {r \in Reading : ReadOK(r)}

Waits == [what : {"command"}, then : {"fragments", "load"}, kind : Kinds]

RequestsOK(requests) ==
    /\ requests \in [Slots -> Served \cup Waits \cup {Idle}]
    /\ \A s \in Slots \ {"action"} :
          requests[s] # Idle => requests[s].what \in {"version", "fragments"}

\* A command of the page keeps it waiting, and an error page asks for nothing.
PageInv ==
    /\ <<display, synced, looping>> \in BOOLEAN \X BOOLEAN \X BOOLEAN
    /\ page \in Pages \cup {NoPage}
    /\ RequestsOK(request)
    /\ command[ThisPage] # NoCommand => request["action"].what = "command"
    /\ page = NoPage => \A s \in Slots : request[s] = Idle

LEMMA Reads ==
    ASSUME NEW kind \in Kinds
    PROVE  /\ Len(Context) = 3 /\ Len(Revision(kind)) = 3
           /\ Context[1] = {"row"} /\ Context[2] = {"snap"}
           /\ Context[3] = {"state", "display"}
           /\ ContextReads("version") = 0
           /\ \A what : what # "version" => ContextReads(what) = 3
           /\ \A what : AllReads(what, kind) = ContextReads(what) + 3
  BY DEF Context, Revision, ContextReads, AllReads, Kinds

LEMMA CurrentValues ==
    ASSUME TablesInv, <<display, synced, looping>> \in BOOLEAN \X BOOLEAN \X BOOLEAN,
           NEW kind \in Kinds, NEW f \in Fields
    PROVE  /\ Current(kind, f) \in Values
           /\ Label(f, Current(kind, f)) \in Values
           /\ Current(kind, "row") = row
           /\ Current(kind, "snap") = snap
           /\ StateOK(kind, Current(kind, "state"))
           /\ Current(kind, "display") \in BOOLEAN
<1>1. Columns(snap) \in Snapshots \cup {None}
  <2>1. CASE HasBackoff(snap)
    BY <2>1 DEF Columns, HasBackoff, TablesInv, Snapshots, Backoffs
  <2>2. CASE ~HasBackoff(snap)
    BY <2>2 DEF Columns, TablesInv
  <2> QED
    BY <2>1, <2>2
<1>2. synced \in BOOLEAN /\ display \in BOOLEAN
  OBVIOUS
<1>3. CASE f = "row"
  BY <1>1, <1>2, <1>3 DEF Current, Label, Values, TablesInv, StateOK, Kinds
<1>4. CASE f = "snap"
  BY <1>1, <1>2, <1>4 DEF Current, Label, Values, TablesInv, StateOK, Kinds
<1>5. CASE f = "state" \/ f = "display"
  BY <1>2, <1>5 DEF Current, Label, Values, TablesInv, StateOK, Kinds
<1> QED
  BY <1>3, <1>4, <1>5 DEF Fields

LEMMA CurrentTypes ==
    ASSUME TablesInv, PageInv, NEW kind \in Kinds, NEW f \in Fields
    PROVE  /\ Current(kind, f) \in Values
           /\ Label(f, Current(kind, f)) \in Values
           /\ Current(kind, "row") = row
           /\ Current(kind, "snap") = snap
           /\ StateOK(kind, Current(kind, "state"))
           /\ Current(kind, "display") \in BOOLEAN
  BY CurrentValues DEF PageInv

LEMMA AskedTypes ==
    ASSUME NEW what \in {"version", "fragments", "load"}, NEW kind \in Kinds
    PROVE  Asked(what, kind) \in Served
<1>1. Nothing \in Contents
  BY DEF Nothing, Contents, Values
<1>2. Nothing.row = None /\ Nothing.snap = None
  BY DEF Nothing, Fields
<1>3. AllReads(what, kind) \in Nat
  BY Reads
<1> DEFINE r == Asked(what, kind)
<1>4. r \in Reading
  BY <1>1 DEF Asked, Reading
<1>5. r.done = 0 /\ r.what = what /\ r.kind = kind /\ r.shown = Nothing
  BY DEF Asked
<1>6. ReadOK(r)
  <2> HIDE DEF r
  <2> QED
    BY <1>2, <1>3, <1>5 DEF ReadOK
<1> QED
  BY <1>4, <1>6 DEF Served

LEMMA ReadTypes ==
    ASSUME TablesInv, PageInv, NEW r \in Served, r.done # AllReads(r.what, r.kind)
    PROVE  /\ ReadOn(r) \in Served
           /\ ReadOn(r).what = r.what
<1> DEFINE n == r.done + 1
           c == ContextReads(r.what)
           shown == [f \in Fields |->
                        IF f \in Context[n] THEN Current(r.kind, f) ELSE r.shown[f]]
           token == [f \in Fields |->
                        IF f \in Revision(r.kind)[n - c]
                        THEN Label(f, Current(r.kind, f)) ELSE r.token[f]]
<1>1. /\ r.kind \in Kinds /\ r.done \in Nat
      /\ r.what \in {"version", "fragments", "load"}
      /\ r.done < AllReads(r.what, r.kind)
      /\ r.shown \in Contents /\ r.token \in Contents
  <2>1. AllReads(r.what, r.kind) \in Nat
    BY Reads DEF Served, Reading
  <2> QED
    BY <2>1 DEF Served, Reading, ReadOK
<1>2. CASE n <= c
  <2>1. ReadOn(r) = [r EXCEPT !.done = n, !.shown = shown]
    BY <1>2 DEF ReadOn
  <2>2. r.what # "version" /\ c = 3 /\ AllReads(r.what, r.kind) = 6 /\ n \in 1..3
    BY <1>1, <1>2, Reads
  <2>3. shown \in Contents
    BY <1>1, CurrentTypes DEF Contents
  <2>4. shown.row \in Rows \cup {None} /\ shown.snap \in Snapshots \cup {None}
    BY <1>1, CurrentTypes DEF Fields, Served, ReadOK, TablesInv
  <2>5. n >= 3 => ShownOK(r.kind, shown)
    <3>1. SUFFICES ASSUME n = 3 PROVE ShownOK(r.kind, shown)
      BY <2>2
    <3>2. shown.state = Current(r.kind, "state") /\ shown.display = Current(r.kind, "display")
      BY <1>1, <3>1, Reads DEF Fields
    <3>3. StateOK(r.kind, Current(r.kind, "state")) /\ Current(r.kind, "display") \in BOOLEAN
      BY <1>1, CurrentTypes DEF Fields
    <3> QED
      BY <2>4, <3>2, <3>3 DEF ShownOK
  <2> HIDE DEF n, c, shown
  <2>6. n \in Nat /\ n <= 6
    BY <2>2
  <2>7. ReadOn(r) \in Reading
    BY <1>1, <2>1, <2>3, <2>6 DEF Served, Reading
  <2>8. /\ ReadOn(r).what = r.what /\ ReadOn(r).kind = r.kind
        /\ ReadOn(r).done = n /\ ReadOn(r).shown = shown
    BY <2>1 DEF Served, Reading
  <2> QED
    BY <2>2, <2>4, <2>5, <2>6, <2>7, <2>8 DEF Served, ReadOK
<1>3. CASE ~(n <= c)
  <2>1. ReadOn(r) = [r EXCEPT !.done = n, !.token = token]
    BY <1>3 DEF ReadOn
  <2>2. token \in Contents
    BY <1>1, CurrentTypes DEF Contents
  <2>3. n \in Nat /\ n <= AllReads(r.what, r.kind)
    BY <1>1, Reads
  <2>4. r.what # "version" => r.done >= 3
    BY <1>1, <1>3, Reads
  <2> HIDE DEF n, c, token
  <2>5. ReadOn(r) \in Reading
    BY <1>1, <2>1, <2>2, <2>3 DEF Served, Reading
  <2>6. /\ ReadOn(r).what = r.what /\ ReadOn(r).kind = r.kind
        /\ ReadOn(r).done = n /\ ReadOn(r).shown = r.shown
    BY <2>1 DEF Served, Reading
  <2> QED
    BY <2>3, <2>4, <2>5, <2>6 DEF Served, ReadOK
<1> QED
  BY <1>2, <1>3

LEMMA InitPage == Init => PageInv
<1> SUFFICES ASSUME Init PROVE PageInv
  OBVIOUS
<1>1. PICK s \in Scenarios :
         /\ looping = s.looping
         /\ page = IF s.page = "error" THEN NoPage
                   ELSE [kind |-> s.page, scheduled |-> FALSE,
                         shown |-> [f \in Fields |-> Current(s.page, f)],
                         token |-> [f \in Fields |-> Label(f, Current(s.page, f))]]
  BY DEF Init
<1>2. TablesInv
  BY InitTables
<1>3. s.looping \in BOOLEAN /\ s.page \in Kinds \cup {"error"}
  OBVIOUS
<1>4. <<display, synced, looping>> \in BOOLEAN \X BOOLEAN \X BOOLEAN
  BY <1>1, <1>3 DEF Init
<1>5. request \in [Slots -> Served \cup Waits \cup {Idle}] /\ \A x \in Slots : request[x] = Idle
  BY DEF Init
<1>6. command[ThisPage] = NoCommand
  BY DEF Init, ThisPage, Tabs
<1>7. page \in Pages \cup {NoPage}
  <2>1. CASE s.page = "error"
    BY <1>1, <2>1
  <2>2. CASE s.page \in Kinds
    <3> DEFINE shown == [f \in Fields |-> Current(s.page, f)]
               token == [f \in Fields |-> Label(f, Current(s.page, f))]
    <3>1. \A f \in Fields : Current(s.page, f) \in Values
                            /\ Label(f, Current(s.page, f)) \in Values
      BY <1>2, <1>4, <2>2, CurrentValues
    <3>2. shown \in Contents /\ token \in Contents
      BY <3>1 DEF Contents
    <3>3. /\ shown.row = row /\ shown.snap = snap
          /\ shown.state = Current(s.page, "state")
          /\ shown.display = Current(s.page, "display")
      BY DEF Fields, Current
    <3>4. StateOK(s.page, Current(s.page, "state")) /\ Current(s.page, "display") \in BOOLEAN
      BY <1>2, <1>4, <2>2, CurrentValues DEF Fields
    <3>5. ShownOK(s.page, shown)
      BY <1>2, <3>3, <3>4 DEF ShownOK, TablesInv
    <3>6. page = [kind |-> s.page, scheduled |-> FALSE, shown |-> shown, token |-> token]
      BY <1>1, <2>2 DEF Kinds
    <3> HIDE DEF shown, token
    <3> QED
      BY <2>2, <3>2, <3>5, <3>6 DEF Pages
  <2> QED
    BY <1>3, <2>1, <2>2
<1> QED
  BY <1>4, <1>5, <1>6, <1>7 DEF PageInv, RequestsOK

LEMMA RequestChange ==
    ASSUME RequestsOK(request), NEW s \in Slots, NEW r \in Served \cup Waits \cup {Idle},
           s # "action" /\ r # Idle => r.what \in {"version", "fragments"}
    PROVE  RequestsOK([request EXCEPT ![s] = r])
  BY DEF RequestsOK

LEMMA AllIdle == RequestsOK([s \in Slots |-> Idle])
  BY DEF RequestsOK

\* What an answer or a refusal leaves, wherever the page has got to.
LEMMA AnswerKeeps ==
    ASSUME PageInv, NEW t \in Tabs, Answered(t),
           t = ThisPage => request["action"] \in Waits
    PROVE  RequestsOK(request')
<1>1. "action" \in Slots /\ RequestsOK(request)
  BY DEF PageInv, Slots
<1>2. CASE t = ThisPage
  <2>1. request["action"].then \in {"version", "fragments", "load"}
        /\ request["action"].kind \in Kinds
    BY <1>2 DEF Waits
  <2>2. Asked(request["action"].then, request["action"].kind) \in Served
    BY <2>1, AskedTypes
  <2> QED
    BY <1>1, <1>2, <2>2, RequestChange DEF Answered
<1>3. CASE t # ThisPage
  BY <1>1, <1>3 DEF Answered
<1> QED
  BY <1>2, <1>3

LEMMA RefusalKeeps ==
    ASSUME PageInv, NEW what, Refused(what)
    PROVE  /\ RequestsOK(request')
           /\ page' \in Pages \cup {NoPage}
           /\ page' = page \/ \A s \in Slots : request'[s] = Idle
           /\ request'["action"] = Idle
<1>1. "action" \in Slots /\ RequestsOK(request)
  BY DEF PageInv, Slots
<1>2. CASE what = "load"
  BY <1>1, <1>2, AllIdle DEF Refused
<1>3. CASE what # "load"
  <2>1. request' = [request EXCEPT !["action"] = Idle] /\ page' = page
    BY <1>3 DEF Refused
  <2>2. RequestsOK(request') /\ request'["action"] = Idle
    BY <1>1, <2>1, RequestChange DEF RequestsOK
  <2> QED
    BY <2>1, <2>2 DEF PageInv
<1> QED
  BY <1>2, <1>3

LEMMA StepPage == TablesInv /\ PageInv /\ [Next]_vars => PageInv'
<1> SUFFICES ASSUME TablesInv, PageInv, [Next]_vars PROVE PageInv'
  OBVIOUS
<1>0. /\ "action" \in Slots /\ "poll" \in Slots /\ ThisPage \in Tabs
      /\ RequestsOK(request)
      /\ \A s \in Slots : request[s] \in Served \cup Waits \cup {Idle}
  BY DEF Slots, ThisPage, Tabs, PageInv, RequestsOK
<1>a. \A r \in Served \cup Waits \cup {Idle} :
         /\ r = Idle <=> r.what = "none"
         /\ r \in Waits <=> r.what = "command"
  BY DEF Served, Reading, Waits, Idle
<1>1. ASSUME UNCHANGED browser, display' \in BOOLEAN, synced' \in BOOLEAN, looping' = looping,
             command'[ThisPage] = command[ThisPage] \/ command[ThisPage] # NoCommand
      PROVE  PageInv'
  BY <1>1 DEF browser, PageInv, RequestsOK
<1>2. display \in BOOLEAN /\ synced \in BOOLEAN
  BY DEF PageInv
<1>3. ASSUME NEW t \in Tabs, SaveRow(t) PROVE PageInv'
  <2>1. command'[ThisPage] = command[ThisPage] \/ command[ThisPage] # NoCommand
    BY <1>0, <1>3 DEF SaveRow, Saves, Done, TablesInv
  <2> QED
    BY <1>1, <1>2, <1>3, <2>1 DEF SaveRow
<1>4. ASSUME NEW t \in Tabs, AppendEvent(t) PROVE PageInv'
  <2>1. UNCHANGED <<display, synced, looping>> /\ Done(t)
    BY <1>4 DEF AppendEvent
  <2>2. t = ThisPage => /\ request["action"] \in Waits
                        /\ page # NoPage
                        /\ command'[ThisPage] = NoCommand
    BY <1>0, <1>a, <1>4, <2>1 DEF AppendEvent, PageInv, Done, TablesInv
  <2>3. t # ThisPage => command'[ThisPage] = command[ThisPage]
    BY <1>0, <2>1 DEF Done, TablesInv
  <2>4. CASE UNCHANGED browser
    BY <1>1, <1>2, <2>1, <2>2, <2>3, <2>4, <1>4 DEF AppendEvent
  <2>5. CASE Answered(t)
    <3>1. RequestsOK(request')
      BY <2>2, <2>5, AnswerKeeps
    <3>2. page' = page
      BY <2>5 DEF Answered
    <3>3. t # ThisPage => request' = request
      BY <2>5 DEF Answered
    <3> QED
      BY <2>1, <2>2, <2>3, <3>1, <3>2, <3>3 DEF PageInv
  <2>6. CASE t = ThisPage /\ Refused(request["action"].then)
    BY <2>1, <2>2, <2>6, RefusalKeeps DEF PageInv
  <2> QED
    BY <1>4, <2>4, <2>5, <2>6 DEF AppendEvent
<1>5. ASSUME OtherCommand PROVE PageInv'
  <2>1. command'[ThisPage] = command[ThisPage]
    <3>1. PICK t \in Tabs \ {ThisPage} : (\E c \in Commands : Decide(t, c)) \/ ReadForEdit(t)
      BY <1>5 DEF OtherCommand
    <3> QED
      BY <1>0, <3>1 DEF Decide, ReadForEdit, TablesInv
  <2> QED
    BY <1>1, <1>2, <1>5, <2>1 DEF OtherCommand, tables
<1>6. ASSUME NEW c \in Commands \cup {"check-now", "delete"}, Click(c) PROVE PageInv'
  <2> DEFINE what == IF page.kind = "list" THEN "fragments" ELSE "load"
             target == IF c = "delete" THEN "list" ELSE page.kind
  <2>1. /\ page \in Pages /\ page # NoPage /\ page.kind \in Kinds
        /\ request["action"] = Idle
    BY <1>6 DEF Click, Clickable, PageInv, Pages, NoPage, Kinds
  <2>2. command[ThisPage] = NoCommand
    BY <1>0, <1>a, <2>1 DEF PageInv
  <2>3. UNCHANGED <<display, synced, looping>>
    BY <1>6 DEF Click, tables, DeleteRow
  <2>4. target \in Kinds /\ what \in {"fragments", "load"}
    BY <2>1 DEF Kinds
  <2>5. ASSUME NEW r \in Served \cup Waits, page' = page,
               request' = [request EXCEPT !["action"] = r],
               command'[ThisPage] = NoCommand \/ r \in Waits
        PROVE  PageInv'
    <3>1. RequestsOK(request')
      BY <1>0, <2>5, RequestChange
    <3>2. request'["action"] = r
      BY <1>0, <2>5 DEF RequestsOK
    <3> QED
      BY <1>a, <2>1, <2>3, <2>5, <3>1, <3>2 DEF PageInv
  <2>6. Asked(what, target) \in Served /\ Waiting(what, target) \in Waits
    <3> HIDE DEF what, target
    <3> QED
      BY <2>4, AskedTypes DEF Waiting, Waits
  <2>7. CASE Refused(what) /\ command' = command
    BY <2>1, <2>2, <2>3, <2>7, RefusalKeeps DEF PageInv
  <2>8. CASE c = "delete"
    BY <1>6, <2>2, <2>5, <2>6, <2>8 DEF Click, DeleteRow
  <2>9. CASE c = "check-now"
    <3>1. command' = command
      BY <1>6, <2>9 DEF Click
    <3> QED
      BY <1>6, <2>2, <2>5, <2>6, <2>7, <2>9, <3>1 DEF Click
  <2>10. CASE c # "delete" /\ c # "check-now"
    BY <1>6, <2>5, <2>6, <2>7, <2>10 DEF Click
  <2> QED
    BY <2>8, <2>9, <2>10
<1>7. CASE CheckVersion
  <2>1. page \in Pages /\ page # NoPage /\ Asked("version", page.kind) \in Served
    BY <1>7, AskedTypes DEF CheckVersion, PageInv, NoPage, Kinds
  <2>2. RequestsOK(request')
    BY <1>0, <1>7, <2>1, RequestChange DEF CheckVersion, Asked
  <2>3. request'["action"] = request["action"]
    BY <1>0, <1>7 DEF CheckVersion, RequestsOK
  <2> QED
    BY <1>7, <2>1, <2>2, <2>3 DEF CheckVersion, tables, writers, PageInv
<1>8. CASE RefreshFragments
  <2>1. page \in Pages /\ page # NoPage /\ Asked("fragments", page.kind) \in Served
    <3>1. page.scheduled
      BY <1>8 DEF RefreshFragments
    <3>2. page # NoPage
      BY <3>1 DEF NoPage
    <3> QED
      BY <3>2, AskedTypes DEF PageInv, Pages
  <2>2. PICK s \in Fetches : request' = [request EXCEPT ![s] = Asked("fragments", page.kind)]
    BY <1>8 DEF RefreshFragments
  <2>3. s \in Slots /\ s # "action"
    BY DEF Slots
  <2>4. RequestsOK(request')
    BY <1>0, <2>1, <2>2, <2>3, RequestChange DEF Asked
  <2>5. request'["action"] = request["action"]
    BY <1>0, <2>2, <2>3 DEF RequestsOK
  <2>6. page' \in Pages /\ page' # NoPage
    <3>1. page' = [page EXCEPT !.scheduled = FALSE]
      BY <1>8 DEF RefreshFragments
    <3> QED
      BY <2>1, <3>1 DEF Pages, NoPage, Kinds
  <2> QED
    BY <1>8, <2>4, <2>5, <2>6 DEF RefreshFragments, tables, writers, PageInv
<1>9. ASSUME NEW s \in Slots, ServeRead(s) PROVE PageInv'
  <2>1. /\ request[s] \in Served
        /\ page # NoPage
        /\ UNCHANGED <<display, synced, looping, command>>
    BY <1>0, <1>a, <1>9 DEF ServeRead, Serving, PageInv, tables, writers
  <2>2. s = "action" => command[ThisPage] = NoCommand
    BY <1>9 DEF ServeRead, Serving, PageInv
  <2>3. CASE Refused("load") /\ request[s].what = "load"
    <3>1. s = "action"
      BY <1>0, <2>1, <2>3, <1>a DEF RequestsOK
    <3> QED
      BY <2>1, <2>2, <2>3, <3>1, RefusalKeeps DEF PageInv
  <2>4. ASSUME NEW r \in Served \cup {Idle}, r # Idle => r.what = request[s].what,
               request' = [request EXCEPT ![s] = r], page' = page
        PROVE  PageInv'
    <3>1. RequestsOK(request')
      BY <1>0, <1>a, <2>1, <2>4, RequestChange DEF RequestsOK
    <3>2. s # "action" => request'["action"] = request["action"]
      BY <1>0, <2>4 DEF RequestsOK
    <3> QED
      BY <2>1, <2>2, <2>4, <3>1, <3>2 DEF PageInv
  <2>5. ReadOn(request[s]) \in Served /\ ReadOn(request[s]).what = request[s].what
    BY <1>9, <2>1, ReadTypes DEF ServeRead, Read
  <2> QED
    BY <1>9, <2>3, <2>4, <2>5 DEF ServeRead
<1>10. ASSUME NEW s \in Slots, Receive(s) PROVE PageInv'
  <2>1. /\ request[s] \in Served
        /\ page \in Pages /\ page # NoPage
        /\ UNCHANGED <<display, synced, looping, command>>
    BY <1>0, <1>a, <1>10 DEF Receive, Serving, PageInv, tables, writers
  <2>2. s = "action" => command[ThisPage] = NoCommand
    BY <1>10 DEF Receive, Serving, PageInv
  <2>3. RequestsOK(request')
    BY <1>0, <1>10, AllIdle, RequestChange DEF Receive
  <2>4. command[ThisPage] # NoCommand => request'["action"].what = "command"
    <3>1. SUFFICES ASSUME s # "action", command[ThisPage] # NoCommand
                   PROVE  request'["action"] = request["action"]
      BY <2>2 DEF PageInv
    <3>2. request[s].what # "load"
      BY <1>0, <1>10, <3>1 DEF RequestsOK, Receive, Serving
    <3> QED
      BY <1>0, <1>10, <3>1, <3>2 DEF Receive, RequestsOK
  <2>5. page' \in Pages
    <3>1. CASE request[s].what = "version"
      BY <1>10, <2>1, <3>1 DEF Receive, Scheduled, Pages
    <3>2. CASE request[s].what # "version"
      <4>1. ShownOK(request[s].kind, request[s].shown)
        BY <1>10, <2>1, <3>2, Reads DEF Receive, Read, Served, Reading, ReadOK
      <4>2. page' = Applied(request[s])
        BY <1>10, <3>2 DEF Receive
      <4> QED
        BY <2>1, <4>1, <4>2 DEF Applied, Pages, Served, Reading
    <3> QED
      BY <3>1, <3>2
  <2>6. page' # NoPage
    BY <2>5 DEF Pages, NoPage, Kinds
  <2> QED
    BY <2>1, <2>3, <2>4, <2>5, <2>6 DEF PageInv
<1>11. CASE Sync
  BY <1>1, <1>2, <1>11 DEF Sync, tables, writers
<1>12. CASE Crash
  <2>1. RequestsOK(request') /\ \A s \in Slots : request'[s] = Idle
    BY <1>12, AllIdle DEF Crash
  <2>2. command'[ThisPage] = NoCommand
    BY <1>0, <1>12 DEF Crash
  <2>3. page' \in Pages \cup {NoPage}
    BY <1>12 DEF Crash, PageInv
  <2> QED
    BY <1>12, <2>1, <2>2, <2>3 DEF Crash, tables, PageInv
<1>13. CASE SaveDisplay
  BY <1>1, <1>2, <1>13 DEF SaveDisplay
<1>14. ASSUME UNCHANGED <<display, synced, looping, command, browser>> PROVE PageInv'
  BY <1>1, <1>2, <1>14
<1>15. CASE OtherDelete \/ BeginCheck \/ GateCheck \/ PersistCheck \/ BackoffPasses
  BY <1>14, <1>15
     DEF OtherDelete, DeleteRow, BeginCheck, GateCheck, PersistCheck, BackoffPasses,
         tables, writers
<1>16. CASE UNCHANGED vars
  BY <1>14, <1>16 DEF vars, tables, writers
<1> QED
  BY <1>3, <1>4, <1>5, <1>6, <1>7, <1>8, <1>9, <1>10, <1>11, <1>12, <1>13, <1>15, <1>16
     DEF Next

\* The tables, the writers and the page have their types, in every run of any
\* number of tabs and of refreshes: contents are whole once a request is read.
THEOREM TypeCorrect == Spec => []TypeOK
<1>1. TablesInv /\ PageInv => TypeOK
  <2> SUFFICES ASSUME TablesInv, PageInv PROVE TypeOK
    OBVIOUS
  <2>1. clock \in 0..MaxTime
    BY DEF TablesInv, Budgets
  <2>2. /\ page.kind \in Kinds \cup {"error"}
        /\ page.scheduled \in BOOLEAN
        /\ page.kind \in Kinds => ShownOK(page.kind, page.shown)
    <3>1. CASE page = NoPage
      BY <3>1 DEF NoPage, Kinds
    <3>2. CASE page \in Pages
      BY <3>2 DEF Pages
    <3> QED
      BY <3>1, <3>2 DEF PageInv
  <2>3. ASSUME NEW s \in Slots
        PROVE  \/ request[s] = Idle
               \/ request[s].what = "command" /\ s = "action"
               \/ request[s].done \in 0..AllReads(request[s].what, request[s].kind)
    <3>1. CASE request[s] \in Served
      BY <3>1, Reads DEF Served, Reading, ReadOK
    <3>2. CASE request[s] \in Waits
      BY <3>2 DEF PageInv, RequestsOK, Waits, Idle
    <3> QED
      BY <3>1, <3>2 DEF PageInv, RequestsOK
  <2> QED
    BY <2>1, <2>2, <2>3 DEF TypeOK, TablesInv, PageInv, ShownOK
<1> QED
  BY InitTables, StepTables, InitPage, StepPage, <1>1, PTL DEF Spec

-----------------------------------------------------------------------------
(* The log and the row                                                     *)

Appending(t) == IsChange(t) /\ command[t].step = "append"

\* The state a control event names is one of the row's; for a row that is not
\* stopped there may be no event.
Tells(to, r) == IF Stopped(r) THEN to = StopState(r) ELSE to \in ActiveStates
Agrees(event, r) == IF event = None THEN ~Stopped(r) ELSE Tells(event.to, r)

\* The times of those who are about to write are past, each its own, and no
\* event has one of them; no event is later than the last row written.
TimesInv ==
    /\ order.top <= clock
    /\ log.newest # None => log.newest.at <= order.top
    /\ check # None => /\ check.at <= clock
                       /\ log.newest # None => log.newest.at # check.at
    /\ \A t \in Tabs : IsChange(t) =>
          /\ command[t].at <= clock
          /\ command[t].step = "append" => command[t].at <= order.top
          /\ log.newest # None => log.newest.at # command[t].at
          /\ check # None => check.at # command[t].at
          /\ \A u \in Tabs \ {t} : IsChange(u) => command[u].at # command[t].at
          /\ Tells(command[t].to, command[t].row)

\* The row written last is that of a command whose event is still to come, or
\* its event is the newest one.
ControlInv ==
    /\ TimesInv
    /\ order.tidy /\ row # None =>
          \/ \E t \in Tabs : /\ Appending(t)
                             /\ command[t].at = order.top
                             /\ command[t].row = row
          \/ /\ Agrees(log.newest, row)
             /\ order.top = IF log.newest = None THEN 0 ELSE log.newest.at

LEMMA InitControl == Init => ControlInv
<1> SUFFICES ASSUME Init PROVE ControlInv
  OBVIOUS
<1>1. PICK s \in Scenarios :
         /\ row = StartRow(s.start)
         /\ log = StartLog(s.start)
         /\ clock = StartTime(s.start)
         /\ order = [top |-> clock, tidy |-> TRUE, mixed |-> FALSE]
  BY DEF Init
<1>2. check = None /\ \A t \in Tabs : ~IsChange(t)
  BY DEF Init, IsChange
<1>3. [at |-> 1, to |-> StopState(row)] # None
  <2>1. StopState(row) \in RuntimeStates
    BY DEF StopState, RuntimeStates, PausedStates
  <2>2. 1 \in 1..MaxTime
    BY <1>1
  <2> QED
    BY <2>1, <2>2 DEF Controlled
<1>4. CASE Stopped(row)
  <2>1. clock = 1 /\ log.newest = [at |-> 1, to |-> StopState(row)]
    BY <1>1, <1>4 DEF StartTime, StartLog, NoEvents
  <2> QED
    BY <1>1, <1>2, <1>3, <1>4, <2>1 DEF ControlInv, TimesInv, Agrees, Tells
<1>5. CASE ~Stopped(row)
  <2>1. clock = 0 /\ log.newest = None
    BY <1>1, <1>5 DEF StartTime, StartLog, NoEvents
  <2> QED
    BY <1>1, <1>2, <1>5, <2>1 DEF ControlInv, TimesInv, Agrees, Tells
<1> QED
  BY <1>4, <1>5

\* The times as numbers.
LEMMA TimeTypes ==
    ASSUME TablesInv
    PROVE  /\ order.top \in Nat /\ order.tidy \in BOOLEAN /\ clock \in Nat
           /\ log.newest # None => log.newest.at \in Nat \ {0}
           /\ check # None => check.at \in Nat \ {0}
           /\ \A t \in Tabs : IsChange(t) => /\ command[t] \in Changes
                                             /\ command[t].at \in Nat \ {0}
<1>1. log.newest # None => log.newest.at \in Nat \ {0}
  BY DEF TablesInv, Events, Controlled
<1>2. check # None => check.at \in Nat \ {0}
  BY DEF TablesInv, Checks
<1>3. ASSUME NEW t \in Tabs, IsChange(t)
      PROVE  command[t] \in Changes /\ command[t].at \in Nat \ {0}
  BY <1>3, CommandCases DEF IsChange, Changes
<1> QED
  BY <1>1, <1>2, <1>3 DEF TablesInv, Orders

LEMMA DecideControl ==
    ASSUME TablesInv, ControlInv, NEW t \in Tabs, NEW c \in Commands, Decide(t, c),
           command[t] = NoCommand, budget.commands > 0,
           UNCHANGED <<row, log, check, order>>
    PROVE  ControlInv'
<1>1. /\ clock' = clock + 1
      /\ command'[t] \in Changes
      /\ \A u \in Tabs \ {t} : command'[u] = command[u]
  BY DecideTables
<1>2. /\ command'[t].at = clock + 1 /\ command'[t].step = "save"
      /\ command'[t].row = Decided(c, row)
      /\ command'[t].to = RuntimeState(Decided(c, row), snap)
  BY DEF Decide, TablesInv
<1>3. Tells(command'[t].to, command'[t].row)
  <2>1. Decided(c, row) \in Rows /\ snap \in Snapshots \cup {None}
    BY DecidedRow, CommandKinds DEF TablesInv
  <2> QED
    BY <1>2, <2>1, StateOfRow DEF Tells
<1>4. \A u \in Tabs \ {t} : IsChange(u)' <=> IsChange(u)
  BY <1>1 DEF IsChange
<1>5. TimesInv'
  BY <1>1, <1>2, <1>3, <1>4, TimeTypes DEF TimesInv, ControlInv, Tells
<1>6. ASSUME NEW u \in Tabs, Appending(u)
      PROVE  Appending(u)' /\ command'[u] = command[u]
  BY <1>1, <1>6 DEF Appending, IsChange
<1> QED
  BY <1>5, <1>6 DEF ControlInv

LEMMA StepControl == TablesInv /\ PageInv /\ ControlInv /\ [Next]_vars => ControlInv'
<1> SUFFICES ASSUME TablesInv, PageInv, ControlInv, [Next]_vars PROVE ControlInv'
  OBVIOUS
<1>0. ThisPage \in Tabs
  BY DEF ThisPage, Tabs
<1>1. ASSUME UNCHANGED <<row, log, command, clock>>,
             check' = check \/ check' = None \/ (check # None /\ check'.at = check.at),
             order'.top = order.top, order'.tidy => order.tidy
      PROVE  ControlInv'
  BY <1>1, TimeTypes DEF ControlInv, TimesInv, IsChange, Appending
<1>2. ASSUME NEW t \in Tabs, SaveRow(t) PROVE ControlInv'
  <2>1. CASE command[t].kind = "edit"
    <3>1. /\ UNCHANGED <<log, check, clock>>
          /\ order'.top = order.top
          /\ order'.tidy => order.tidy /\ row' = row
      BY <1>2, <2>1 DEF SaveRow, TablesInv, Orders
    <3>2. \A u \in Tabs : /\ IsChange(u)' <=> IsChange(u)
                          /\ IsChange(u) => command'[u] = command[u]
      BY <1>2, <2>1 DEF SaveRow, Done, IsChange, TablesInv
    <3>3. TimesInv'
      BY <3>1, <3>2, TimeTypes DEF ControlInv, TimesInv
    <3> QED
      BY <3>1, <3>2, <3>3 DEF ControlInv, Appending
  <2>2. CASE command[t].kind # "edit"
    <3>1. /\ IsChange(t) /\ command[t] \in Changes /\ command[t].at \in Nat
      BY <1>2, <2>2, TimeTypes DEF SaveRow, Saves, IsChange
    <3>2. /\ UNCHANGED <<log, check, clock>>
          /\ row' = command[t].row
          /\ order'.top = Later(command[t].at, order.top)
          /\ order'.tidy <=> command[t].at >= order.top
      BY <1>2, <2>2, <3>1, OrderTypes DEF SaveRow, TablesInv
    <3>3. /\ command'[t] = [command[t] EXCEPT !.step = "append"]
          /\ \A u \in Tabs \ {t} : command'[u] = command[u]
      BY <1>2, <2>2 DEF SaveRow, TablesInv
    <3>4. /\ command'[t].at = command[t].at /\ command'[t].row = command[t].row
          /\ command'[t].to = command[t].to /\ command'[t].step = "append"
          /\ command'[t].kind = command[t].kind
      BY <3>1, <3>3 DEF Changes
    <3>5. IsChange(t)' /\ \A u \in Tabs \ {t} : IsChange(u)' <=> IsChange(u)
      BY <2>2, <3>1, <3>3, <3>4, CommandKinds DEF IsChange, NoCommand, Changes
    <3>6. order'.top >= order.top /\ order'.top >= command[t].at /\ order'.top <= clock
          /\ order'.top \in Nat
      BY <3>1, <3>2, TimeTypes DEF Later, ControlInv, TimesInv
    <3>7. TimesInv'
      <4>1. ASSUME NEW u \in Tabs, IsChange(u)'
            PROVE  /\ IsChange(u)
                   /\ command'[u].at = command[u].at
                   /\ command'[u].row = command[u].row
                   /\ command'[u].to = command[u].to
                   /\ command'[u].step = command[u].step \/ u = t
        BY <3>1, <3>3, <3>4, <3>5, <4>1
      <4>2. ASSUME NEW u \in Tabs, IsChange(u)'
            PROVE  /\ command'[u].at <= clock
                   /\ command'[u].step = "append" => command'[u].at <= order'.top
                   /\ log.newest # None => log.newest.at # command'[u].at
                   /\ check # None => check.at # command'[u].at
                   /\ Tells(command'[u].to, command'[u].row)
        BY <3>6, <4>1, <4>2, TimeTypes DEF ControlInv, TimesInv
      <4>3. ASSUME NEW u \in Tabs, IsChange(u)', NEW v \in Tabs \ {u}, IsChange(v)'
            PROVE  command'[v].at # command'[u].at
        BY <4>1, <4>3 DEF ControlInv, TimesInv
      <4>4. log.newest # None => log.newest.at <= order'.top
        BY <3>6, TimeTypes DEF ControlInv, TimesInv
      <4>5. check # None => /\ check.at <= clock
                            /\ log.newest # None => log.newest.at # check.at
        BY DEF ControlInv, TimesInv
      <4> QED
        BY <3>2, <3>6, <4>2, <4>3, <4>4, <4>5 DEF TimesInv
    <3>8. order'.tidy => command[t].at = order'.top
      BY <3>1, <3>2, TimeTypes DEF Later
    <3> QED
      BY <3>2, <3>4, <3>5, <3>7, <3>8 DEF ControlInv, Appending
  <2> QED
    BY <2>1, <2>2
<1>3. ASSUME NEW t \in Tabs, AppendEvent(t) PROVE ControlInv'
  <2>1. /\ IsChange(t) /\ Appending(t) /\ command[t] \in Changes
        /\ command[t].at \in Nat \ {0}
    BY <1>3, CommandCases, TimeTypes DEF AppendEvent, IsChange, Appending
  <2>2. /\ UNCHANGED <<row, check, clock, order>>
        /\ command'[t] = NoCommand
        /\ \A u \in Tabs \ {t} : command'[u] = command[u]
    BY <1>3 DEF AppendEvent, Done, TablesInv
  <2>3. ~IsChange(t)' /\ \A u \in Tabs \ {t} : IsChange(u)' <=> IsChange(u)
    BY <2>2 DEF IsChange
  <2>4. CASE row = None
    <3>1. log' = log
      BY <1>3, <2>4 DEF AppendEvent
    <3>2. TimesInv'
      BY <2>2, <2>3, <3>1, TimeTypes DEF ControlInv, TimesInv
    <3> QED
      BY <2>2, <2>4, <3>2 DEF ControlInv
  <2>5. CASE row # None
    <3> DEFINE new == [at |-> command[t].at, to |-> command[t].to]
    <3>1. log'.newest = Logged(command[t].at, command[t].to)
      BY <1>3, <2>5 DEF AppendEvent, TablesInv, Events
    <3>2. \/ /\ log'.newest = log.newest
             /\ log.newest # None /\ log.newest.at > command[t].at
          \/ /\ log'.newest = new
             /\ log.newest # None => ~(log.newest.at > command[t].at)
      BY <3>1 DEF Logged
    <3>3. new # None
      <4>1. new \in Controlled
        BY <2>1 DEF Changes, Controlled
      <4> QED
        BY <4>1
    <3>4. log'.newest # None => /\ log'.newest.at <= order.top
                                /\ log'.newest.at \in {command[t].at} \cup
                                      IF log.newest = None THEN {} ELSE {log.newest.at}
      BY <2>1, <3>2 DEF ControlInv, TimesInv, Appending
    <3>5. TimesInv'
      BY <2>1, <2>2, <2>3, <3>4, TimeTypes DEF ControlInv, TimesInv
    <3>6. SUFFICES ASSUME order.tidy
                   PROVE  \/ \E u \in Tabs : /\ Appending(u)'
                                             /\ command'[u].at = order.top
                                             /\ command'[u].row = row
                          \/ /\ Agrees(log'.newest, row)
                             /\ order.top = IF log'.newest = None THEN 0
                                            ELSE log'.newest.at
      BY <2>2, <3>5 DEF ControlInv
    <3>7. CASE command[t].at = order.top /\ command[t].row = row
      <4>1. log'.newest = new
        BY <2>1, <3>2, <3>7, TimeTypes DEF ControlInv, TimesInv
      <4> QED
        BY <2>1, <3>3, <3>7, <4>1 DEF ControlInv, TimesInv, Agrees
    <3>8. ASSUME NEW u \in Tabs \ {t}, Appending(u), command[u].at = order.top,
                 command[u].row = row
          PROVE  Appending(u)' /\ command'[u].at = order.top /\ command'[u].row = row
      BY <2>2, <3>8 DEF Appending, IsChange
    <3>9. CASE /\ Agrees(log.newest, row)
               /\ order.top = IF log.newest = None THEN 0 ELSE log.newest.at
      <4>1. log.newest # None /\ log.newest.at > command[t].at
        BY <2>1, <3>9, TimeTypes DEF ControlInv, TimesInv, Appending
      <4> QED
        BY <3>2, <3>9, <4>1
    <3> QED
      BY <2>1, <2>5, <3>6, <3>7, <3>8, <3>9 DEF ControlInv
  <2> QED
    BY <2>4, <2>5
<1>4. ASSUME DeleteRow PROVE ControlInv'
  <2>1. /\ UNCHANGED <<command, clock>> /\ row' = None /\ log'.newest = None
        /\ order'.top = order.top
        /\ check' # None => check # None /\ check'.at = check.at
    BY <1>4 DEF DeleteRow, NoEvents, TablesInv, Checks, Orders
  <2> QED
    BY <2>1, TimeTypes DEF ControlInv, TimesInv, IsChange
<1>5. ASSUME OtherCommand PROVE ControlInv'
  <2>1. PICK t \in Tabs : /\ command[t] = NoCommand
                          /\ \/ \E c \in Commands : Decide(t, c)
                             \/ ReadForEdit(t)
    BY <1>5 DEF OtherCommand
  <2>2. CASE \E c \in Commands : Decide(t, c)
    BY <1>5, <2>1, <2>2, DecideControl DEF OtherCommand, Spend, tables
  <2>3. CASE ReadForEdit(t)
    <3>1. \A u \in Tabs : /\ IsChange(u)' <=> IsChange(u)
                          /\ IsChange(u) => command'[u] = command[u]
      BY <2>1, <2>3 DEF ReadForEdit, IsChange, TablesInv
    <3>2. UNCHANGED <<row, log, check, clock, order>>
      BY <1>5, <2>3 DEF OtherCommand, ReadForEdit, tables
    <3> QED
      BY <3>1, <3>2 DEF ControlInv, TimesInv, Appending
  <2> QED
    BY <2>1, <2>2, <2>3
<1>6. ASSUME NEW c \in Commands \cup {"check-now", "delete"}, Click(c) PROVE ControlInv'
  <2>1. CASE c \in {"delete", "check-now"}
    BY <1>1, <1>4, <1>6, <2>1 DEF Click, tables
  <2>2. CASE c \in Commands
    <3>1. c # "delete" /\ c # "check-now"
      BY <2>2 DEF Commands, Lifecycle
    <3>2. command[ThisPage] = NoCommand
      BY <1>6 DEF Click, PageInv, Idle
    <3>3. CASE Decide(ThisPage, c)
      BY <1>0, <1>6, <2>2, <3>1, <3>2, <3>3, DecideControl DEF Click, Spend, tables
    <3>4. CASE UNCHANGED <<command, clock>>
      BY <1>1, <1>6, <3>1, <3>4 DEF Click, tables
    <3> QED
      BY <1>6, <3>1, <3>3, <3>4 DEF Click
  <2> QED
    BY <2>1, <2>2
<1>7. ASSUME BeginCheck PROVE ControlInv'
  <2>1. /\ UNCHANGED <<row, log, command, order>>
        /\ clock' = clock + 1 /\ check'.at = clock + 1
    BY <1>7 DEF BeginCheck, tables
  <2> QED
    BY <2>1, TimeTypes DEF ControlInv, TimesInv, IsChange, Appending
<1>8. ASSUME GateCheck PROVE ControlInv'
  <2>1. check' = None \/ check'.at = check.at
    BY <1>8 DEF GateCheck, TablesInv, Checks
  <2> QED
    BY <1>1, <1>8, <2>1 DEF GateCheck, tables
<1>9. ASSUME PersistCheck PROVE ControlInv'
  <2>1. CASE row = None
    BY <1>1, <1>9, <2>1 DEF PersistCheck, StoreResult
  <2>2. CASE row # None
    <3>1. PICK next \in Results(check.snap) :
             IF next.error = "http_403"
             THEN /\ row' = Decided("block", check.row)
                  /\ log'.newest = Logged(check.at, "paused_blocked")
                  /\ order'.top = Later(check.at, order.top)
                  /\ order'.tidy <=> check.at >= order.top
             ELSE /\ row' = row
                  /\ log'.newest = log.newest
                  /\ order'.top = order.top
                  /\ order'.tidy <=> order.tidy
      BY <1>9, <2>2, StoreEffect
    <3>2. UNCHANGED <<command, clock>> /\ check' = None /\ check # None
      BY <1>9 DEF PersistCheck
    <3>3. CASE next.error # "http_403"
      BY <3>1, <3>2, <3>3 DEF ControlInv, TimesInv, IsChange, Appending
    <3>4. CASE next.error = "http_403"
      <4>1. /\ order'.top \in Nat /\ order'.top >= order.top /\ order'.top >= check.at
            /\ order'.top <= clock
            /\ order'.tidy => order'.top = check.at
        BY <3>1, <3>2, <3>4, TimeTypes DEF Later, ControlInv, TimesInv
      <4> DEFINE new == [at |-> check.at, to |-> "paused_blocked"]
      <4>2. \/ /\ log'.newest = log.newest
               /\ log.newest # None /\ log.newest.at > check.at
            \/ log'.newest = new
        BY <3>1, <3>4 DEF Logged
      <4>3. order'.tidy => log'.newest = new
        BY <3>1, <3>2, <3>4, <4>2, TimeTypes DEF ControlInv, TimesInv
      <4>4. TimesInv'
        <5>1. log'.newest # None =>
                 /\ log'.newest.at <= order'.top
                 /\ log'.newest.at \in {check.at} \cup
                       IF log.newest = None THEN {} ELSE {log.newest.at}
          BY <3>2, <4>1, <4>2, TimeTypes DEF ControlInv, TimesInv
        <5> QED
          BY <3>2, <4>1, <5>1, TimeTypes DEF ControlInv, TimesInv, IsChange
      <4>5. new # None
        <5>1. new \in Controlled
          BY <1>9 DEF PersistCheck, TablesInv, Checks, Controlled, RuntimeStates,
                      PausedStates
        <5> QED
          BY <5>1
      <4>6. Tells("paused_blocked", row')
        BY <3>1, <3>4 DEF Tells, Decided, Control, Stopped, StopState
      <4> QED
        BY <4>1, <4>3, <4>4, <4>5, <4>6 DEF ControlInv, Agrees
    <3> QED
      BY <3>3, <3>4
  <2> QED
    BY <2>1, <2>2
<1>10. ASSUME BackoffPasses PROVE ControlInv'
  BY <1>1, <1>10 DEF BackoffPasses, writers
<1>11. ASSUME Crash PROVE ControlInv'
  <2>1. /\ UNCHANGED <<row, log, clock>> /\ check' = None
        /\ \A t \in Tabs : ~IsChange(t)'
    BY <1>11 DEF Crash, tables, IsChange
  <2>2. /\ order'.top = order.top
        /\ order'.tidy => /\ order.tidy
                          /\ \A t \in Tabs : ~(Appending(t) /\ command[t].at = order.top)
    <3> DEFINE b == /\ order.tidy
                    /\ \A t \in Tabs : ~(/\ command[t] # NoCommand
                                          /\ command[t].step = "append"
                                          /\ command[t].at = order.top)
    <3>1. order' = [order EXCEPT !.tidy = b]
      BY <1>11 DEF Crash
    <3>2. b => /\ order.tidy
               /\ \A t \in Tabs : ~(Appending(t) /\ command[t].at = order.top)
      BY DEF Appending, IsChange
    <3>3. b \in BOOLEAN
      OBVIOUS
    <3> HIDE DEF b
    <3>4. order'.top = order.top /\ order'.tidy = b
      BY <3>1, <3>3 DEF TablesInv, Orders
    <3> QED
      BY <3>2, <3>4
  <2> QED
    BY <2>1, <2>2 DEF ControlInv, TimesInv
<1>12. ASSUME UNCHANGED <<row, log, writers>> PROVE ControlInv'
  BY <1>1, <1>12 DEF writers
<1>13. CASE SaveDisplay
  BY <1>1, <1>13 DEF SaveDisplay
<1> QED
  BY <1>2, <1>3, <1>4, <1>5, <1>6, <1>7, <1>8, <1>9, <1>10, <1>11, <1>12, <1>13
     DEF Next, OtherDelete, CheckVersion, RefreshFragments, ServeRead, Receive, Sync,
         tables, vars

\* The newest control event names the state of the row, however many commands
\* and checks decide and write at once: rows written in the order of their times
\* leave the event of the last one on top, once it is appended.
THEOREM LogFollowsControl == Spec => []LogTellsControl
<1>1. TablesInv /\ ControlInv => LogTellsControl
  <2> SUFFICES ASSUME TablesInv, ControlInv, row # None, order.tidy,
                      \A t \in Tabs : command[t] = NoCommand \/ command[t].step # "append"
               PROVE  Agrees(log.newest, row)
    BY DEF LogTellsControl, Agrees, Tells
  <2> QED
    BY DEF ControlInv, Appending, IsChange
<1> QED
  BY InitTables, StepTables, InitPage, StepPage, InitControl, StepControl, <1>1, PTL
     DEF Spec
=============================================================================

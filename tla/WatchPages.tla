------------------------------ MODULE WatchPages ------------------------------
(***************************************************************************)
(* An open page of the local GUI, the list of watches or the details of    *)
(* one, and everything that changes what it shows: commands of this page   *)
(* and of another tab (web/routes/watch_routes.py, watch_lifecycle.py),    *)
(* checks, saved settings, passing time, a restart.                        *)
(*                                                                         *)
(* The page keeps itself up to date: each second it asks for a version     *)
(* token, and when that differs from the token of what it shows, fetches   *)
(* the fragments again (watch_list_client_scripts.py).  The server reads   *)
(* what a fragment shows and then its token, table by table, each query on *)
(* its own: a write may fall between any two of them.                      *)
(*                                                                         *)
(* There is one watch and at most one check of it at a time; module        *)
(* CheckPipeline has overlapping checks.                                   *)
(*                                                                         *)
(* An operator Name_Variant is Name with a fault put in: it is used only   *)
(* to see that a property notices the fault.                               *)
(***************************************************************************)
EXTENDS WatchLifecycle, Naturals, Sequences

CONSTANTS
    OtherTabs,   \* how many commands of other tabs may be in flight at once
    Fetches,     \* refreshes of the page that may be in flight at once
    Scenarios,   \* which page is open, whether the loop runs, and what has become
                 \* of the watch, with bounds on the checks and on the commands,
                 \* saves and restarts
    MaxTime      \* bound on the times of commands and checks

Kinds == {"list", "detail"}
Starts == {"new", "checked", "paused", "blocked"}

ASSUME WatchPagesConstants ==
    /\ MaxTime \in Nat
    /\ Scenarios \subseteq [page : Kinds \cup {"error"}, looping : BOOLEAN, start : Starts,
                            commands : 0..MaxTime, checks : 0..MaxTime]
    /\ \A s \in Scenarios : s.commands + s.checks < MaxTime
    /\ Fetches \cap {"poll", "action"} = {}
    /\ OtherTabs \in Nat

VARIABLES
    row,       \* the watch in watch_items, or None
    snap,      \* its latest_check_snapshots, or None
    log,       \* its runtime_state_events
    display,   \* the time format of display_settings
    synced,    \* last_watch_sync_at in the runtime status
    looping,   \* whether the loop that sets it runs
    command,   \* what each web thread is about to write
    check,     \* the check in flight, or None
    page,      \* what the page shows, its token, and whether a refresh waits
    request,   \* the requests of the page
    clock,     \* the decisions so far: their times, in order
    budget,    \* commands and checks left
    order      \* history: how the writes of the row followed one another

tables == <<row, snap, log, display>>
writers == <<command, check, clock, budget, order>>
browser == <<page, request>>
vars == <<tables, synced, looping, writers, browser>>

ThisPage == 0
Tabs == 0..OtherTabs
Slots == Fetches \cup {"poll", "action"}
Commands == Lifecycle \ {"block"}

\* The newest control event by its time, and what the events about the
\* backoff and the parse failures said last.
Controlled == [at : 1..MaxTime, to : RuntimeStates]
Events == [newest : Controlled \cup {None},
           backoff : BOOLEAN, degraded : BOOLEAN]
NoEvents == [newest |-> None, backoff |-> FALSE, degraded |-> FALSE]

ASSUME NoneIsNoRecord == None \notin Rows \cup Snapshots \cup Controlled

\* A lifecycle command or a rule edit that has read the row, and a check.
Changes == [kind : Commands, step : {"save", "append"}, row : Rows,
            at : 1..MaxTime, to : RuntimeStates]
Edits == [kind : {"edit"}, step : {"save"}, row : Rows]
NoCommand == [kind |-> "none"]
Checks == [step : {"capture", "persist"}, row : Rows, at : 1..MaxTime,
           snap : Snapshots \cup {None}, stale : BOOLEAN]

-----------------------------------------------------------------------------
(* What a page shows and how it is labelled                                *)

Fields == {"row", "snap", "state", "display"}
Nothing == [f \in Fields |-> None]

\* What the server reads for a page of this kind.
Current(kind, f) ==
    CASE f = "row"     -> row
      [] f = "snap"    -> snap
      [] f = "state"   -> IF kind = "list" THEN synced ELSE log
      [] f = "display" -> display

\* The columns of the table that the version token is made of: they do not tell
\* whether the backoff has passed.
Columns(s) == IF HasBackoff(s) THEN [s EXCEPT !.backoff = "ahead"] ELSE s

Label_NoRow(f, value) ==
    CASE f = "row" -> None [] f = "snap" -> Columns(value) [] OTHER -> value
Label(f, value) == IF f = "snap" THEN Columns(value) ELSE value

\* The queries in their order, build_watch_list_context and
\* build_watch_list_revision, build_watch_detail_context and
\* build_watch_detail_revision.  Queries are one step here where no single
\* write changes what two of them read.
Context == <<{"row"}, {"snap"}, {"state", "display"}>>
Revision(kind) == IF kind = "list"
                  THEN <<{"state"}, {"row"}, {"snap", "display"}>>
                  ELSE <<{"row"}, {"snap"}, {"state", "display"}>>

ContextReads(what) == IF what = "version" THEN 0 ELSE Len(Context)
AllReads(what, kind) == ContextReads(what) + Len(Revision(kind))

Idle == [what |-> "none"]
Asked(what, kind) ==
    [what |-> what, kind |-> kind, done |-> 0, shown |-> Nothing, token |-> Nothing]

\* A command is waited for, and what its answer will hold.
NoPage == [kind |-> "error", scheduled |-> FALSE]
Waiting(what, kind) == [what |-> "command", then |-> what, kind |-> kind]

StateOK(kind, v) == IF kind = "list" THEN v \in BOOLEAN ELSE v \in Events

TypeOK ==
    /\ row \in Rows \cup {None}
    /\ snap \in Snapshots \cup {None}
    /\ log \in Events
    /\ <<display, synced, looping>> \in BOOLEAN \X BOOLEAN \X BOOLEAN
    /\ clock \in 0..MaxTime
    /\ command \in [Tabs -> Changes \cup Edits \cup {NoCommand}]
    /\ check \in Checks \cup {None}
    /\ page.kind \in Kinds \cup {"error"}
    /\ page.scheduled \in BOOLEAN
    /\ page.kind \in Kinds =>
          /\ page.shown.row \in Rows \cup {None}
          /\ page.shown.snap \in Snapshots \cup {None}
          /\ StateOK(page.kind, page.shown.state)
          /\ page.shown.display \in BOOLEAN
    /\ \A s \in Slots :
          \/ request[s] = Idle
          \/ request[s].what = "command" /\ s = "action"
          \/ request[s].done \in 0..AllReads(request[s].what, request[s].kind)

\* What the tables hold of a watch that was checked, paused or blocked before.
StartRow(start) ==
    CASE start = "paused"  -> Decided("pause", Fresh)
      [] start = "blocked" -> Decided("block", Fresh)
      [] OTHER             -> Fresh

StartSnap(start) ==
    IF start = "new" THEN None
    ELSE [error |-> IF start = "blocked" THEN "http_403" ELSE None,
          backoff |-> "none", degraded |-> FALSE]

StartTime(start) == IF Stopped(StartRow(start)) THEN 1 ELSE 0
StartLog(start) ==
    IF StartTime(start) = 0 THEN NoEvents
    ELSE [NoEvents EXCEPT !.newest = [at |-> 1, to |-> StopState(StartRow(start))]]

Init ==
    /\ display = TRUE
    /\ synced = TRUE
    /\ command = [t \in Tabs |-> NoCommand]
    /\ check = None
    /\ request = [s \in Slots |-> Idle]
    /\ \E s \in Scenarios :
          /\ row = StartRow(s.start)
          /\ snap = StartSnap(s.start)
          /\ log = StartLog(s.start)
          /\ clock = StartTime(s.start)
          /\ order = [top |-> clock, tidy |-> TRUE, mixed |-> FALSE]
          /\ looping = s.looping
          /\ budget = [commands |-> s.commands, checks |-> s.checks]
          /\ page = IF s.page = "error" THEN NoPage
                    ELSE [kind |-> s.page, scheduled |-> FALSE,
                          shown |-> [f \in Fields |-> Current(s.page, f)],
                          token |-> [f \in Fields |-> Label(f, Current(s.page, f))]]

-----------------------------------------------------------------------------
(* Lifecycle commands, rule edits and deletions                            *)

Later(x, y) == IF x >= y THEN x ELSE y

\* A lifecycle command or a check writes the row it decided on at this time.
InOrder(at) == [order EXCEPT !.top = Later(at, @), !.tidy = at >= order.top]

\* list_runtime_state_events: ordered by occurred_at, then by insertion.
Logged(at, to) ==
    IF log.newest # None /\ log.newest.at > at THEN log.newest
    ELSE [at |-> at, to |-> to]

\* _get_lifecycle_context and the decision, in the thread of the command.
Decide(t, kind) ==
    /\ row # None
    /\ clock' = clock + 1
    /\ command' = [command EXCEPT ![t] =
          LET next == Decided(kind, row) IN
          [kind |-> kind, step |-> "save", row |-> next, at |-> clock + 1,
           to |-> RuntimeState(next, snap)]]

\* update_notification_rule reads the row, and will write it back with the rule.
ReadForEdit(t) ==
    /\ row # None
    /\ command' = [command EXCEPT ![t] = [kind |-> "edit", step |-> "save", row |-> row]]
    /\ UNCHANGED clock

Saves(t) == command[t] # NoCommand /\ command[t].step = "save"
Done(t) == command' = [command EXCEPT ![t] = NoCommand]

\* The page that waited for the command is answered: with the fragments of the
\* list, or with the page it is redirected to...
Answered(t) ==
    /\ request' = IF t = ThisPage
                  THEN [request EXCEPT !["action"] = Asked(@.then, @.kind)]
                  ELSE request
    /\ UNCHANGED page

\* ... or with an error, which a list ignores and which replaces another page.
Refused(what) ==
    IF what = "load"
    THEN /\ page' = NoPage
         /\ request' = [s \in Slots |-> Idle]
    ELSE /\ request' = [request EXCEPT !["action"] = Idle]
         /\ UNCHANGED page

\* The watch item is saved, wherever the table is by then...
SaveRow(t) ==
    /\ Saves(t)
    /\ row' = command[t].row
    /\ IF command[t].kind = "edit"
       THEN /\ Done(t)
            /\ order' = [order EXCEPT !.tidy = @ /\ row = command[t].row]
       ELSE /\ command' = [command EXCEPT ![t].step = "append"]
            /\ order' = InOrder(command[t].at)
    /\ UNCHANGED <<snap, log, display, synced, looping, check, clock, budget, browser>>

\* ... and then the event, which needs the row.
AppendEvent(t) ==
    /\ command[t] # NoCommand /\ command[t].step = "append"
    /\ IF row # None
       THEN /\ log' = [log EXCEPT !.newest = Logged(command[t].at, command[t].to)]
            /\ Answered(t)
       ELSE /\ UNCHANGED log
            /\ IF t = ThisPage THEN Refused(request["action"].then) ELSE UNCHANGED browser
    /\ Done(t)
    /\ UNCHANGED <<row, snap, display, synced, looping, check, clock, budget, order>>

\* delete_watch_item: one statement, and all that refers to the row.
DeleteRow ==
    /\ row' = None
    /\ snap' = None
    /\ log' = NoEvents
    /\ check' = IF check = None THEN None ELSE [check EXCEPT !.stale = TRUE]
    /\ order' = [order EXCEPT !.mixed = FALSE]
    /\ UNCHANGED <<display, command, clock>>

-----------------------------------------------------------------------------
(* Other tabs                                                              *)

Spend == budget.commands > 0 /\ budget' = [budget EXCEPT !.commands = @ - 1]

OtherCommand ==
    /\ Spend
    /\ \E t \in Tabs \ {ThisPage} :
          /\ command[t] = NoCommand
          /\ \A u \in 1..(t - 1) : command[u] # NoCommand
          /\ (\E kind \in Commands : Decide(t, kind)) \/ ReadForEdit(t)
    /\ UNCHANGED <<tables, check, order, synced, looping, browser>>

OtherDelete ==
    /\ Spend
    /\ DeleteRow
    /\ UNCHANGED <<synced, looping, browser>>

\* save_display_settings
SaveDisplay ==
    /\ Spend
    /\ display' = ~display
    /\ UNCHANGED <<row, snap, log, command, check, clock, order, synced, looping,
                   browser>>

-----------------------------------------------------------------------------
(* A check                                                                 *)

\* The watch is there and nothing stops it: asked before the check begins and
\* at its gates.
MayCheck_WhenEnabled == row # None /\ row.enabled
MayCheck == row # None /\ ~Stopped(row)

\* The row and the snapshot are read one after the other, here in one step.
BeginCheck ==
    /\ check = None
    /\ budget.checks > 0
    /\ MayCheck
    /\ budget' = [budget EXCEPT !.checks = @ - 1]
    /\ clock' = clock + 1
    /\ check' = [step |-> "capture", row |-> row, snap |-> snap,
                 at |-> clock + 1, stale |-> FALSE]
    /\ UNCHANGED <<tables, synced, looping, command, order, browser>>

\* The last gate before the result is stored.
GateCheck ==
    /\ check # None /\ check.step = "capture"
    /\ check' = IF MayCheck THEN [check EXCEPT !.step = "persist"] ELSE None
    /\ UNCHANGED <<tables, synced, looping, command, clock, budget, order, browser>>

Result(e, b, d) == [error |-> e, backoff |-> b, degraded |-> d]

\* What the check may have seen; the third parse failure in a row degrades.
Results(previous) ==
    {Result(None, "none", FALSE), Result("network_error", "ahead", FALSE),
     Result("http_403", "none", FALSE)}
    \cup {Result("parse_failed", "ahead", d) :
             d \in IF previous = None \/ previous.error # "parse_failed" THEN {FALSE}
                   ELSE IF previous.degraded THEN {TRUE} ELSE BOOLEAN}

\* Whether build_runtime_lifecycle_events hands over the event of the control
\* decision.
ControlLogged_Forgotten == FALSE
ControlLogged == TRUE

\* persist_check_outcome, one transaction: the snapshot, the events and, after
\* a 403, the row the check read when it began, paused.
StoreResult(next) ==
    LET blocked == next.error = "http_403"
        paused == Decided("block", check.row)
    IN  IF row = None
        THEN UNCHANGED <<row, snap, log, order>>
        ELSE /\ snap' = next
             /\ row' = IF blocked THEN paused ELSE row
             /\ log' =
                  [newest   |-> IF blocked /\ ControlLogged
                                THEN Logged(check.at, RuntimeState(paused, next))
                                ELSE log.newest,
                   backoff  |-> BackoffSaid(log.backoff, check.snap, next),
                   degraded |-> DegradedSaid(log.degraded, check.snap, next)]
             /\ order' = [IF blocked THEN InOrder(check.at) ELSE order
                          EXCEPT !.mixed = @ \/ check.stale]

PersistCheck ==
    /\ check # None /\ check.step = "persist"
    /\ \E next \in Results(check.snap) : StoreResult(next)
    /\ check' = None
    /\ UNCHANGED <<display, synced, looping, command, clock, budget, browser>>

\* The time until which the watch backs off passes: nothing is written.
BackoffPasses ==
    /\ snap # None /\ snap.backoff = "ahead"
    /\ snap' = [snap EXCEPT !.backoff = "past"]
    /\ UNCHANGED <<row, log, display, synced, looping, writers, browser>>

-----------------------------------------------------------------------------
(* The page in the browser                                                 *)

\* watch_list, watch_detail_page: the context for a watch in this state.
PageState == RuntimeState(page.shown.row, page.shown.snap)
Clickable == IF page.kind = "error" \/ page.shown.row = None THEN {}
             ELSE Offered(page.kind, PageState)

\* The user clicks what the page offers, and the server takes the command.
Click(c) ==
    /\ c \in Clickable
    /\ request["action"] = Idle
    /\ Spend
    /\ LET what == IF page.kind = "list" THEN "fragments" ELSE "load"
           target == IF c = "delete" THEN "list" ELSE page.kind
           Go(answer) == /\ request' = [request EXCEPT !["action"] = answer]
                         /\ UNCHANGED page
       IN  CASE c = "delete" ->
                   DeleteRow /\ Go(Asked(what, target))
             [] c = "check-now" ->
                   /\ IF row # None /\ Checkable(row, snap)
                      THEN Go(Asked(what, target)) ELSE Refused(what)
                   /\ UNCHANGED <<tables, command, check, clock, order>>
             [] OTHER ->
                   /\ IF row = None THEN Refused(what) /\ UNCHANGED <<command, clock>>
                      ELSE Decide(ThisPage, c) /\ Go(Waiting(what, target))
                   /\ UNCHANGED <<tables, check, order>>
    /\ UNCHANGED <<synced, looping>>

\* checkVersion, once a second.
CheckVersion ==
    /\ page.kind \in Kinds
    /\ request["poll"] = Idle
    /\ request' = [request EXCEPT !["poll"] = Asked("version", page.kind)]
    /\ UNCHANGED <<tables, synced, looping, writers, page>>

\* refreshFragments, when its timer goes off.
RefreshFragments ==
    /\ page.scheduled
    /\ \E s \in Fetches :
          /\ request[s] = Idle
          /\ request' = [request EXCEPT ![s] = Asked("fragments", page.kind)]
    /\ page' = [page EXCEPT !.scheduled = FALSE]
    /\ UNCHANGED <<tables, synced, looping, writers>>

Serving(s) == request[s] # Idle /\ request[s].what # "command"
Read(s) == request[s].done = AllReads(request[s].what, request[s].kind)

\* Details of a watch that is gone: 404.
NotFound(s) == request[s].kind = "detail" /\ request[s].done = 0 /\ row = None

\* The answer after the server's next read for it.
ReadOn(r) ==
    LET n == r.done + 1
        c == ContextReads(r.what)
    IN  IF n <= c
        THEN [r EXCEPT !.done = n,
                       !.shown = [f \in Fields |->
                           IF f \in Context[n] THEN Current(r.kind, f) ELSE @[f]]]
        ELSE [r EXCEPT !.done = n,
                       !.token = [f \in Fields |->
                           IF f \in Revision(r.kind)[n - c]
                           THEN Label(f, Current(r.kind, f)) ELSE @[f]]]

\* The server makes one more step of the request.
ServeRead(s) ==
    /\ Serving(s)
    /\ ~Read(s)
    /\ IF NotFound(s)
       THEN IF request[s].what = "load" THEN Refused("load")
            ELSE request' = [request EXCEPT ![s] = Idle] /\ UNCHANGED page
       ELSE request' = [request EXCEPT ![s] = ReadOn(@)] /\ UNCHANGED page
    /\ UNCHANGED <<tables, synced, looping, writers>>

\* What checkVersion makes of its answer: a refresh waits for its timer.
Scheduled(answer) == [page EXCEPT !.scheduled = @ \/ answer.token # page.token]

\* applyWatchListPayload, applyWatchDetailPayload; a whole page leaves nothing
\* of the one it replaces.
Applied(answer) ==
    [kind |-> answer.kind, shown |-> answer.shown, token |-> answer.token,
     scheduled |-> answer.what = "fragments" /\ page.scheduled]

Receive(s) ==
    /\ Serving(s)
    /\ Read(s)
    /\ page' = IF request[s].what = "version" THEN Scheduled(request[s])
               ELSE Applied(request[s])
    /\ request' = IF request[s].what = "load" THEN [x \in Slots |-> Idle]
                  ELSE [request EXCEPT ![s] = Idle]
    /\ UNCHANGED <<tables, synced, looping, writers>>

-----------------------------------------------------------------------------
(* The process                                                             *)

\* A pass of the loop sets last_watch_sync_at.  Passes are seconds apart, and a
\* request takes milliseconds: none sees more than two of the times.
SyncSeen == /\ page.kind = "list" => page.token.state = synced
            /\ \A s \in Slots :
                  Serving(s) /\ request[s].kind = "list" =>
                     {request[s].shown.state, request[s].token.state}
                        \subseteq {None, synced}

Sync ==
    /\ looping
    /\ SyncSeen
    /\ synced' = ~synced
    /\ UNCHANGED <<tables, looping, writers, browser>>

\* The server dies and starts again; the page stays open, its requests fail.
Crash ==
    /\ Spend
    /\ command' = [t \in Tabs |-> NoCommand]
    /\ check' = None
    /\ request' = [s \in Slots |-> Idle]
    /\ page' = IF request["action"] # Idle /\ page.kind = "detail"
               THEN NoPage ELSE page
    /\ order' = [order EXCEPT !.tidy =
                    /\ @
                    /\ \A t \in Tabs :
                          ~(/\ command[t] # NoCommand
                            /\ command[t].step = "append"
                            /\ command[t].at = order.top)]
    /\ UNCHANGED <<tables, synced, looping, clock>>

-----------------------------------------------------------------------------
Next ==
    \/ \E t \in Tabs : SaveRow(t) \/ AppendEvent(t)
    \/ OtherCommand \/ OtherDelete \/ SaveDisplay
    \/ BeginCheck \/ GateCheck \/ PersistCheck \/ BackoffPasses
    \/ \E c \in Commands \cup {"check-now", "delete"} : Click(c)
    \/ CheckVersion \/ RefreshFragments
    \/ \E s \in Slots : ServeRead(s) \/ Receive(s)
    \/ Sync \/ Crash

Spec == Init /\ [][Next]_vars

\* The browser's timers go off, a request is served and answered, and a loop
\* that runs goes on with its passes.
Fairness ==
    /\ WF_vars(CheckVersion)
    /\ WF_vars(RefreshFragments)
    /\ \A s \in Slots : WF_vars(ServeRead(s) \/ Receive(s))
    /\ WF_vars(Sync)

FairSpec == Spec /\ Fairness

-----------------------------------------------------------------------------
(* Properties                                                              *)

\* The newest control event of the log agrees with the row: with the state the
\* row stops the watch in, or that it does not.  Exceptions: the rows were
\* saved in another order than they were decided in, a rule edit wrote back an
\* older row, a restart cut a command between its two writes, or a command is
\* between them now.
LogTellsControl ==
    /\ row # None
    /\ order.tidy
    /\ \A t \in Tabs : command[t] = NoCommand \/ command[t].step # "append"
    => IF Stopped(row)
       THEN log.newest # None /\ log.newest.to = StopState(row)
       ELSE log.newest # None => log.newest.to \in ActiveStates

\* The events about the backoff and the parse failures tell what the snapshot
\* holds, also after its backoff has passed, unless the snapshot was stored by
\* a check whose watch was deleted, and saved again, while it ran.
LogTellsSnapshot ==
    row # None /\ ~order.mixed => /\ log.backoff <=> HasBackoff(snap)
                                  /\ log.degraded <=> IsDegraded(snap)

\* While checks of the watch do not overlap, a watch paused because the site
\* blocked it has that block as its latest result: pause and snapshot are one
\* transaction, whatever restarts come between, and nothing checks a watch that
\* is paused.  A rule edit that writes back the pause of an older row breaks
\* this.  (There may be no result at all: a command wrote the row back after
\* the watch was deleted.)
BlockedShown ==
    row # None /\ row.paused = "http_403" /\ order.tidy => snap = None \/ snap.error = "http_403"

\* What a page offers for a row that is still as the page shows it has an
\* effect: a check is not refused, a command changes the row.
OfferHasEffect ==
    [][\A c \in Commands \cup {"check-now"} :
          Click(c) /\ page.shown.row = row =>
             IF c = "check-now" THEN page'.kind # "error"
             ELSE command'[ThisPage].row # row]_vars

\* The page shows what the tables hold; how long the backoff has passed, only a
\* list whose status keeps changing follows.
UpToDate ==
    /\ page.shown.row = row
    /\ page.shown.display = display
    /\ page.kind = "detail" => page.shown.state = log
    /\ IF page.kind = "list" /\ looping
       THEN page.shown.snap = snap
       ELSE Columns(page.shown.snap) = Columns(snap)

\* The page's token was read after a write that its contents were not.
Mislabelled ==
    \E f \in Fields : page.token[f] # Label(f, page.shown[f])

\* Once the writes have ended (here they do), an open list comes to show what
\* the tables hold, whatever writes fell between the reads of its requests and
\* in whatever order these were answered: its token changes with every pass of
\* the loop.  Without the loop, and for the details of a watch, a mislabelled
\* page stays as it is, and so does that of a deleted watch.
CatchesUp ==
    <>[](\/ page.kind = "error"
         \/ UpToDate
         \/ (page.kind = "list" => ~looping) /\ Mislabelled
         \/ page.kind = "detail" /\ row = None)
=============================================================================

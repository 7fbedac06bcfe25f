# TLA+ verification of hotel_price_watch

`hotel_price_watch` watches hotel prices on ikyu.com for one user: a FastAPI
server, a background monitor on the same asyncio event loop, a dedicated Chrome
reached over CDP, a SQLite database and three notification channels. Paths below
are relative to `src/app/` of the repository unless they begin with `docs/` or
`tests/`.

The project holds TLA+ specifications of the monitor, of the pages and commands
around it, of the tabs it reads, and of the program's start; instances for TLC; and
proofs for TLAPS. `tlc -config X.cfg MCModule` repeats a run, `tlapm M_proof.tla` a
proof; `PROJECT.json` lists the runs, the definitions with the lines they model, the
findings, the hazards and the theorems.

## The system

| Component | State it keeps | Operations | What makes it correct |
|---|---|---|---|
| Scheduler (`monitor/scheduler.py`) | `_scheduled` (interval, next run), `_workers`, `_removed_while_running` | register, remove, dequeue, finish, reschedule, update | at most `max_workers` checks; the longest-due watch goes first; a stored backoff delays the next check; nobody starves |
| Loop and sync (`monitor/runtime.py`, `watch_sync_coordinator.py`) | the list of a pass, the registered ids, the last tick | read the list, sync watch by watch, dispatch | schedule and database converge; a paused or deleted watch is not started |
| Check tasks (`assignment_coordinator.py`, `runtime.py` start/stop) | `inflight_tasks`, assignment tasks, worker slots | check-now, dispatch, cancel, done-callback, start, stop | one check per watch; every caller is answered; every slot comes back; stop leaves nothing behind it cannot name |
| Startup restore (`startup_restore.py`) | its task, the tabs it claimed | find or open the tab of each watch, check it | runs before the scheduled checks; no tab for two watches |
| Check execution (`check_executor.py`, `policies.py`) | copies of watch, notification state and snapshot during a check | setup, capture, three gates, notification, transaction | no effect for a watch that was paused, disabled or deleted before the gate |
| History and backoff (`policies.py`) | `latest_check_snapshots` | build the next snapshot | failures, degraded mode and backoff follow the sequence of results |
| Notification engine (`domain/notification_engine.py`) | `notification_states` | compare, evaluate the rule, update the state | no repetition, no missed event |
| Dispatch and throttling (`monitor/notification_dispatch.py`, `notifiers/`) | cooldowns per channel and key, the cached dispatcher | send to each channel | one failing channel does not silence others; the cooldown holds |
| Lifecycle (`domain/watch_lifecycle_state_machine.py`, `application/watch_lifecycle.py`) | `watch_items.enabled`, `paused_reason`, `runtime_state_events` | enable, disable, pause, resume, 403 pause, check-now | row, snapshot and event log tell the same story |
| Chrome tabs (`infrastructure/browser/`, `sites/ikyu/browser_matching.py`) | the tabs, the tab id of each draft | choose, navigate, reload, read | the page read is the watch's page, and the user's tabs are left alone |
| Creation (`web/watch_creation_workflow.py`, `application/watch_editor.py`, `preview_guard.py`, `watch_creation_cache.py`) | previews in the cache, cooldown of the site, watches with draft and initial price | preview, create, mark existing | the watch is what the form showed; no duplicates; the site is left alone after a block |
| Site adapter and parser (`sites/`) | none | drafts, targets, URLs, candidates, snapshots | what a URL says survives being turned into a target and back |
| SQLite (`infrastructure/db/`) | tables, foreign keys, schema version | repositories, migrations, retention | an outcome is all or nothing; the version tells the schema |
| Start of the program (`tools/dev_start.py`, `monitor/single_instance.py`, `bootstrap/`) | lock file, port, Chrome | decide, lock, launch, serve, clean up | the running instance is found by the next start |
| Pages (`web/`) | what an open page shows, its version token, its requests | render, poll, refresh, command | the page shows the current state and offers what can be done |

How they interact. The loop's pass reads the database in a worker thread,
registers watches with the scheduler, takes due watches out of it and creates an
*assignment* task for each. An assignment and a check-now request share the
*check* task of the watch through `inflight_tasks`. The check awaits Chrome (in a
thread with a connection of its own), the notifiers and the database. Routes run in
the web server's thread pool: a command reads the watch, writes it back, appends its
event, and then calls `remove_watch` on the scheduler directly, without a lock, while
the loop runs. An open page asks for a version token every second and fetches its
fragments when the token has changed.

What is hard here: callbacks that run one turn of the event loop late; values
read before an await (or in another thread, or by an earlier query of the same
request) and used after it; writes in two transactions with a crash or another
writer in between; a stop amid everything; tabs that the user and several checks
navigate; histories of results that no test goes through.

## The modules

| Module | Models | Composes with |
|---|---|---|
| `WorkerPool` | the abstract promise about the `max_workers` slots | refined by the next |
| `MonitorScheduler` | every method of the scheduler and its callers, with time | implements `WorkerPool` |
| `CheckTasks` | tasks, done-callbacks, slots, exceptions, restore and stop on one FIFO event loop, and the threads a stop leaves | gives back the slots that `MonitorScheduler` hands out |
| `WatchSync` | the passes of the loop against web threads, ending assignments and 403 pauses | the registration side of `MonitorScheduler`, at the granularity of awaits |
| `CheckPipeline` | the checks of one watch against commands, deletion and crashes | may run two checks at once because `CheckTasks` shows how that happens |
| `CheckHistory` | snapshot, failures, backoff and notification decisions over a sequence of stored checks | refines what `CheckPipeline` calls "below target" and "other error" |
| `NotificationDispatch` | channels, cooldowns, the cached dispatcher and the settings, for the threads of several checks | the notification step of `CheckPipeline`, channel by channel |
| `WatchLifecycle` | the runtime state of a watch, the decisions of the state machine, the events they write, the commands a page offers | extended by `WatchPages` |
| `WatchPages` | an open page, its polling and its commands, other tabs, checks, restarts | the rows and snapshots of `CheckPipeline`, with their event log |
| `IkyuPages` | signatures, scores, drafts, targets and URLs of the site, and the best tab for one | extended by the next but one and the one after it |
| `IkyuParser` | candidates and snapshots read from a page's payload and JSON-LD | instantiated by the next two |
| `ChromeTabs` | the checks of several watches and the startup restore on shared tabs | the capture of `CheckPipeline`, one check per watch |
| `WatchCreation` | previews, guard, cache, creation of a watch | leaves the watches that the others begin with |
| `SchemaMigration` | `initialize_schema`, with what each statement commits | extended by the next |
| `Startup` | concurrent starts of the program: lock, Chrome, port, database | |
| `MC...` | the constants of the instances | |
| `..._proof` | theorems and proofs of the module of that name; those of `CheckTasks` and `CheckHistory` are in `Checks_proof`, those of `WatchCreation` and `WatchSync` in `WatchDefinitions_proof` | extends what it is about; the second component of a pair has its own names for `Init`, `Next`, `Spec` (`HistorySpec`, `SyncSpec`) |

An operator `Name_Variant` next to `Name` is a faulty version of it; no
specification uses it. It exists to see that a property notices the fault.

### WorkerPool

Slots are taken by a set of watches at once (`dequeue_due_work`), given back one
at a time (`mark_finished`) and all freed by a restart (`clear`). It says nothing
of time, of order or of tasks.

### MonitorScheduler

`registered`, `interval` and `dueIn` are `_scheduled`; `workers` is `_workers`;
`removedWhileRunning` has its own name in the code. Time is relative: `dueIn[w]`
is `next_run_at - now`, `checkedAgo` and `backoffIn` are the timestamps of the
latest snapshot relative to now, and `Tick` moves them. What is overdue keeps only
its order (`Aged`), because the code only compares overdue times with each other.
So the clock needs no bound. One unit of time is much longer than a check. The startup
restore stores a result in a thread (`PersistRestored`) and tells the scheduler of it on the
loop (`MarkCheckCompleted`); a check-now may store another result between the two.

`remove_watch` runs in a web thread and is three steps (`RemoveBegin`,
`RemoveCheck`, `RemoveMark`); methods of the loop that read an entry, rebuild it
and store it back are two steps with `pending` in between. `SyncRead` keeps the
snapshot it read in `item`, and `RegisterWatch`, `RescheduleNow` and
`UpdateInterval` use it later. `LoopDies` is the `KeyError` of an update whose
entry a thread has removed. `bypassed` is a history variable: the watches whose
schedule missed a backoff, set where that happens and cleared when the schedule
takes notice.

### CheckTasks

`ready` is the event loop's queue of callbacks; each action but the arrivals
runs its head (`Runs`). A task that ends queues its done-callbacks in the order
asyncio does: the coordinator's (clears the in-flight entry) was added at creation,
then one for each shielded waiter. A check task is named by the caller that
created it. `raced` remembers the watches for which a task was created while
the old callback was still queued. A callback stays in the queue when the task or the
caller it is for has been cancelled meanwhile, and is run for nothing: `Unneeded` is
the one of a shield whose caller has left, `LoopCancelled` the step of the cancelled loop,
`CancelledCall` that of an assignment which never began. The loop's death itself is
justified in `WatchSync`; here it may happen at any pass.

The `finally` of `run_assignment` reads the latest snapshot before it calls `mark_finished`:
`FinishAssignment` is the read that succeeds, `FinalReadRaises` the one that does not, after
which the slot stays taken (`workers`) though nobody works (`lost`). `broken` are assignments
that ended with an exception and are still in `assignment_tasks`, until their own
done-callback (`ForgetAssignment`) removes them. `stop` is where `runtime.stop()` is; `raised`
is the stop that an exception leaves early: that of a dead loop, of a broken assignment, of
a check that had ended before it was cancelled, or of the final read of an assignment that
stop awaits. The code then skips the cancellations and `clear()`, and so does the model.

A check awaits `asyncio.to_thread`. Cancelling it ends the coroutine at its next step, but
the thread goes on: `CutOff` remembers whose checks stop cancelled midway (`cut`) and whose
threads still work (`orphans`), until `ThreadEnds`. The cancelled restore leaves one, too.

### WatchSync

A pass is `ReadList`, `TakeRegistered`, one `SyncItem` per listed watch (each
after an await), `SyncDone`, `BeginDispatch`, `Dispatch`. `MissingEntry` is the
`KeyError`, `DispatchDies` the "dictionary changed size during iteration" when a
thread removes an entry while the due ones are collected. A command is `SavePaused`
then `RemovePaused`; a check that stores a 403 is `PersistBlocked` then
`RemoveBlocked`. `settled` is a history variable: watches that were inactive, with
their command returned, when the pass read its list.

### CheckPipeline

One watch; `pc[c]` is where check `c` is in `run_watch_check_once`. The setup's
three reads are one step. `copy[c]` is what it read, `capture[c]` a price or an
error class. Each gate reads the control state and is a step of its own; the
effect is another. `Persist` is one transaction: result, notification state and,
after a 403, the *whole* watch item as copied at the start with the pause added;
it rolls back if the watch is gone (foreign keys). A command is `ReadCommand` and
`SaveCommand` (upsert of the whole row). `cooling` holds the prices a channel's
cooldown still suppresses, `CooldownEnds` lifts them. `Crash` loses all checks and
commands in flight. `Raises` ends a check at a gate, in the dispatch (which may have
delivered by then, with the cooldown stored or not) or in the transaction. `NextNotified`
is the notified price the check will store, computed from its copy. History variables:
`open`, the gate each check read; `lastSent`, the price sent last; `record`, whether that
is on record by now (a check has yet to record it, `"kept"`, or `"lost"`); and `fresh`, the
checks that began while it was.

### CheckHistory

Whole checks, one after the other. `Captures` enumerates what a capture can be:
price and availability, a parse failure, or another error. `NextSnapshot` has
failure counts, the degraded flag and the backoff of `decide_error_handling`
(minutes), `NextState` the notification state, `MatchedEvents` the events that are
sent. `effective` is `get_last_effective_availability`. Composite rules are one level
deep (their children are leaves). `repeat`, `outage`, `soldOut`, `sent` and
`alertSince` are history variables the properties compare with.

### NotificationDispatch

`dispatch_notification` runs in a thread per check; `pc[c]` is where it is. `Look` and
`Unpack` are the two statements that read the cache without a lock, `Build` the one
that replaces or clears it; `Dies` is the `TypeError` of unpacking a cleared cache. A
dispatcher is the settings it was built from, so `using[c] = seen[c]` says that the right
one is used. Then each enabled channel is looked up, sent to and recorded
(`CheckThrottle`, `Send` or `SendFails`, `Mark`) in the order of the code. The times are
`checked_at`, taken when the check starts. `MarkFails` is a write that gives up
after the busy timeout and `Crash` the end of the process: both leave a delivery
without its record. `ReadFails` is a read, of the settings or of a cooldown, that raises. A delivery is a `send` that returned. History variables: `told`,
the latest delivery per channel and message; `alone`, checks that met no other
with the same message; `disturbed`, records that cannot be relied on, until a check
alone records anew; `silent`, whether all channels have been off.


### WatchLifecycle

Operators only. `Rows` are the control columns of `watch_items` (a row is disabled
exactly for the reason "manually disabled", which the migration and the commands
keep), `Snapshots` the columns of the latest check that matter; a backoff is none,
ahead or past. `RuntimeState` is `derive_watch_runtime_state`, `Decided` the row of
`decide_watch_lifecycle`, `Offered` the buttons of a page. `BackoffSaid` and
`DegradedSaid` are `build_runtime_lifecycle_events` seen from the reader's end: what the
newest event about the backoff (the parse failures) says.

### WatchPages

One watch, one open page (the list, its details, or the error page), one check at a time.
`row`, `snap`, `log`, `display` are the tables; `log.newest` is the control event that is
listed first, which is the one with the latest `occurred_at`, not the one written last
(`Logged`). A command is `Decide` (read and decide), `SaveRow` and `AppendEvent`, as in
the code two transactions; a rule edit is a read and a save of the whole row; a check that
meets a 403 writes back the row it began with (`StoreResult`). `page` is what the
browser holds: the fields shown, the token they came with, and whether a refresh waits for
its timer. `request` has the poll, the refreshes and the answer of a command; the server
serves each by the reads in `Context` and then those in `Revision`, one query a step, in
the order of `watch_page_service`. `Label` is what a query of the version token
sees of a value. `synced` is `last_watch_sync_at`, which every pass of the loop
changes and which is part of the list's token only. `order` is history: the latest
decision whose row was saved, whether the rows were saved in the order of their
decisions, and whether a check of a deleted row stored its snapshot for a new one.

### IkyuPages

Operators only. A URL is host, path and query; values are numbers or `Malformed`.
`ParseSeedUrl` and `TargetPageUrl` lead from a URL to a draft and back, `Score`,
`Confident`, `UrlsMatch`, `TabMatchesWatch` and `ReadyPage` are the five
different notions the code has of "this page is that watch", `FindBestPage` is
the choice of a tab: of the tabs confident for the watch, the one that no eligible tab
outranks, by score and then by age (`Outranks`). The weights are the code's numbers, and
the lists of names (`CheckInKeys`, ...) are the code's lists in its order.

### IkyuParser

Operators only. A page is the payload of its script (present, missing or
malformed) and its JSON-LD blocks. `ParseCandidates` is what a form offers,
`ParseTargetSnapshot` what a check records, `InitialSnapshot` the price a
new watch begins with.

### ChromeTabs

`tabs` are Chrome's tabs in the order they were opened, `hint` the `browser_tab_id` a draft
remembers, `claim` the tabs the startup has given away. `at[w]` is where the check of `w` is
in `capture_for_url`: choose a tab, ensure it is on target, navigate, reload, read the
content, read the id. Every check has its own connection, so all of them and the user
act on the same tabs between any two steps. `Loads` lets the site block. `job[w].shown` is the
URL the check believed in; `record[w]` keeps, besides the snapshot, the URL it was read
from, which the program does not store.

### WatchCreation

`request[r]` is a request of the browser at one of its awaits or thread steps: a preview
of a tab (`list`, `content`, `url`), a lookup of a seed URL (`http`, `attach`, `look`,
`ready`), a creation (`read`, `save`, `draft`, `initial`), or the fallback preview after a
failed creation. `guard` is what remains of the cooldown, `cache` the previews in
least-recently-used order (`Stored`, `Touched` and `Without` are `store`, `get` and
`discard`), `forms` what the user has before him, the one that `EndFallback` shows beside an
error included. History: `known`, the watches the look for an existing one saw; `used` and
`lost`, the keys of previews that a creation has used or a restart has dropped; and `gone`,
kept with a request and its watch, whether the preview of the very form submitted had
left the cache by then (`Gone`: used, lost, or displaced by as many newer ones as the cache
holds). Candidates, scores and drafts of the
instance's URLs are computed once, by the operators of `IkyuPages` and `IkyuParser`.

### SchemaMigration

`db` is what is committed, `work` what the open transaction sees, `writer` whose it is.
Python's `sqlite3` decides where transactions begin: data definition commits by itself
unless one is open, `UPDATE` opens one, `executescript` commits it. So the statements of
the *first* migration of a chain commit one by one, and all after its version
update together with it (`MigrateStatement`, `UpdateVersion`, `CommitMigrations`). The script
that creates what is missing commits table by table (`CreateMissing`). `Lost` is the end of a connection at any point.

### Startup

`pc[p]` is where the start `p` is in `dev_start.main`; `seen[p]`, `used[p]`, `choice[p]` what it
read and decided. `lock` names a process, or is `Torn` between the truncation and the
writing of the file. `PidExists` accepts every living pid, as `pid_matches_app` does, and
`ReusePid` gives the pid of a dead start to another program. `Guarded` are the steps in the
`try` whose `finally` removes the lock, whoever it names. With reload the application is a
child of that process: `Kill` may leave it as an `"orphan"` that keeps the port and goes on
serving (`OrphanServes`) until it ends. A start initialises the database
with its own `conn` twice (the first for the start page of a new Chrome, the second in the
application), against those of its rivals.

## What the runs show

| Run | Question | Instance |
|---|---|---|
| `scheduler` | which due times may ignore a backoff; refinement of `WorkerPool` | 2 watches, 1 slot, 1 thread, 1 wakeup, 1 failure, backoff none or 2, interval 1; 2.2 million states |
| `scheduler_live` | no starvation | the same without threads and check-now; 301 thousand states |
| `tasks` | what overlaps, stop and what it leaves, answers, slots | 2 watches, 1 slot, 2 requests for the same watch; any of them may fail; 94 thousand states |
| `sync` | what a pass dispatches; convergence | 2 watches, 2 threads, 2 commands or 403s, 1 wakeup; 85 thousand states |
| `pipeline` | effects against gates, repeated sending, recording | 2 checks at once, 1 command thread, 2 commands, crashes or failures, 1 price; 650 thousand states |
| `history` | repetition, parse alert, availability, backoff | 3 prices, 5 rules (two of them composite), 5 failures in a row; 21 thousand states |
| `dispatch` | cooldowns, results, cache | 2 checks with the same message, 2 channels with cooldowns 1 and 2, 3 times, 1 save, 1 fault; 1.8 million states |
| `startup` | lock file, schema and rows after any crash | 2 starts and one killed before, 1 kill, 8 files: none, without a version, old, current, newer; 844 thousand states |
| `browser` | whose tab is navigated, whose price is read, recovery | 2 watches, 5 tabs, the user on a look-alike page and on a hotel page, 1 trouble; 160 thousand states |
| `creation` | duplicates, form against watch, prices against stay, guard, URLs | 2 requests, 2 forms, 2 watches, 2 tabs, cache of 1, 1 trouble, both wirings, the page of two rooms open at first; 420 sample URLs; 1.7 million states |
| `pages` | row, snapshot and log; offers; what a page ends up showing | 2 other tabs, one refresh in flight, 14 scenarios, 7 decisions; 663 thousand states |
| `tasks_exclusion` | refutes one sentence of a comment, see Findings | 1 watch, 2 requests |

The passing runs, property by property:

- `ImplementsPool`: no order of dispatch, finish, removal (from a thread) and
  restart makes the scheduler hand a slot out twice or free one that is held.
- `BackoffBypassed`: a watch starts before its stored backoff has passed only if
  its schedule missed that backoff in one of the ways `bypassed` names: check-now,
  removed and registered again while it ran, or a sync that read the older snapshot.
- `NoStarvation`: with one slot and competitors that are always due, a due watch is
  dispatched.
- `OverlapOnlyAfterRace`: two checks of a watch that share the registry overlap
  only after the done-callback race; there is no other way.
- `StopCleans`: when stop has returned no assignment and no slot is left; what still works
  is a task the race hid, or the thread of a check that stop cancelled midway.
- `RequestAnswered`, `SlotReleased`: callers of a task get their answer and slots
  come back even if the registry forgot the task or stop cancelled it; only an
  assignment that ended without `mark_finished` keeps its slot.
- `SettledNotDispatched`: a pause that had settled before a pass's list is final for it.
- `Converges`: unless the loop dies, a watch that stays active (inactive) ends up
  in (out of) the schedule for good.
- `GateHonoured`: a check notifies and stores only behind a gate it found open. A command
  between the gate and the effect it guards is let through, as in the code.
- `ResentOnlyUnrecorded`: once a message is on record no check that begins later repeats
  it, whatever fails, is edited, paused or resumed meanwhile; a repetition needs a check
  that began before the record, or a record that was lost: by a crash, an exception, a gate or a
  deletion after the sending, or under the older state of another check.
- `KeepsRecording`: a watch that stays active keeps storing results, once the
  failures of the database have ended.
- `RepeatSilent`, `AlertAtThird`, `AvailableOnce`, `SamePriceOnce`, `BackoffNeverShrinks`:
  an unchanged page is silent for every rule; parse failures alert at the third in a
  row; a return to available is told once across failures; a price below the target is not
  told twice running for the same availability, unless a parse alert came between; the
  backoff does not shorten while the same failure goes on.
- `CooldownKept`: no channel delivers a message twice within its cooldown, whatever
  fails, is saved or restarted, except beside a check with the same message or after
  a delivery whose record was lost or overwritten by an older one.
- `OutcomeTrue`: a result tells each channel of the settings read, and what it says
  of each did happen, even if another channel failed.
- `SettingsHonoured`, `DiesOnlyAfterSilence`: threads that share the cache never send by
  each other's settings, and the race for it ends a check only once all
  channels have been switched off.
- `LockLostOnlyToRival`: the application that answers on the port is the one of the
  lock file, unless a start that had read the file before removes or replaces it, or finds
  the owner dead whose child is left on the port. There is no other way to lose it: not
  a torn file or a pid in use again.
- `FileTellsTruth`: the version in the file never claims what the file lacks,
  whatever dies and whoever migrates beside it, and only a chain that begins at
  version 3 can leave a file that no start opens again.
- `ReadyIsCurrent`: an initialised process has every table and column and no row
  whose pause contradicts its enabled flag.
- `ClaimsDiffer`: the startup gives no tab to two watches, whatever the hints of the run
  before say and the user does.
- `NavigatesOnlyOwn`: a check takes no page away from the user; it navigates its
  watch's own tab of before, a new one, or one that showed the target.
- `PriceOfOwnStay`: a price is recorded for the watch's nights and guests, except
  when a page confident for the watch shows another stay, or the tab is navigated after
  the check looked at its URL.
- `Recovers`: a watch alone on its tab has its price again, whatever was closed,
  navigated, blocked or left unsaved.
- `OneWatchPerTarget`: duplicates come only from two submissions that both looked
  before either had saved.
- `WatchAsShown`: every watch is the one its form showed, unless the preview of that very
  form had gone from the cache when it was submitted, so that the tab is read again.
- `PricesOfStay`: the candidates of a form are those of the watch's check-in, guests and rooms.
- `TargetsIdentify`: the stay survives the way from a seed URL through the target to the
  URLs built from it and back, for 420 ways to write one; and a tab is marked as an
  existing watch's exactly if it shows the same room and stay, but for the departure.
- `GuardHeld`: the cooldown after a 403 is shortened only by a preview let in before, or a restart.
- `LogTellsControl`, `LogTellsSnapshot`: the newest events of the log agree with the
  row and the snapshot, through concurrent commands, checks, deletions and crashes. The
  exceptions are named in the properties: rows saved in another order than decided,
  an edit that writes back an older row, a crash between row and event, a check
  of a row deleted and saved anew meanwhile.
- `BlockedShown`: a watch paused by the site's block has the block as its latest result.
- `OfferHasEffect`: while the row is as the page shows it, what the page offers is not
  refused and changes something.
- `CatchesUp`: once the writes have ended, an open list shows what the tables hold, in
  whatever order requests were answered. The exceptions: details (and lists without a
  running loop) labelled with a token newer than their content, and details of a deleted watch.

### The bounds

Two watches and one slot are enough for competition and for every race between a
watch's own actors; the code treats watches alike and independently. One thread
inside `remove_watch` per moment of the loop is enough in `MonitorScheduler`,
because a second one finds the entry gone; `WatchSync` has two. `MaxCommands`,
`MaxWakeups` and `MaxFailures` bound inputs from outside (user, machine, Chrome)
and are named constants; each hazard listed needs at most two of them. In
`CheckHistory` five failures go past the threshold of the alert (3), the degraded
mode and the cap of the generic backoff; three prices allow a drop, a rise and a
price between two targets. In `CheckPipeline` one price and one command thread suffice for the
gates; the second check is the one that overlaps, and a crash, a failure and a command share
the budget of two.
In `NotificationDispatch` time goes to 2, the end of the longer cooldown; one saved
change is enough to make two checks disagree about the settings, and to clear the cache.

In `Startup` two starts are the smallest race; the one killed before leaves a stale lock. Old files
are 1 (unsupported), 2, 3 and 5 (chains that begin with no statement, with two and with
a normalisation), the current one and a newer one. In `ChromeTabs` five tabs are the
start page, the user's, one for each watch and one to spare; one trouble (a closed or
navigated tab, a block, an unsaved hint, a failed load) in every position is the unit the
properties speak of. In `WatchCreation` a cache of one entry is displaced by the
second form; two requests and two watches are the smallest duplicate. The open tab shows
two rooms at first and the seed asks for one, so that content of one stay can be read for
the other; with `Opened = {one, two}` the same properties hold, over 3.4 million states. In `WatchPages` a
scenario has either many writes and no page (2 or 3 commands and up to 3 checks, enough
for a degraded watch and for each exception above) or one page and one write,
which may fall between any two queries of a poll, a refresh and a command's
answer; `MaxTime` is above the number of decisions of any scenario.

### Fairness

Fairness is given to steps the runtime takes by itself, never to users, crashes or
restarts. `MonitorScheduler`: a step of the loop that has begun ends; each pass ends
in a dispatch (strong fairness, since the loop is busy with a sync in between);
captures time out, so a check ends; the restore visits a finite list and ends
(`RestoreDone`, strong, since it is busy with a watch in between), and tells the
scheduler of each result. Checks that end
without a result are bounded by `MaxFailures`: a watch whose checks fail to store
anything for ever keeps its old snapshot and its place at the head of the queue.
`CheckTasks`: the event loop runs what is queued, the last await of a check ends,
stop proceeds. Nothing is assumed of the threads of cancelled checks. `WatchSync`: passes go on until the loop dies; a command, a check and
the restore that have begun end. `CheckPipeline`: the scheduler goes on
starting checks and each await ends. `ChromeTabs`: threads go on, the startup goes
through its list, every watch is checked again and again (`NoStarvation` says why).
`WatchPages`: the browser's two timers go off, a request is served, a living loop passes.
`CheckHistory`, `NotificationDispatch`, `WatchCreation` and `Startup` claim only safety
and assume no fairness.

### Deadlock

`CHECK_DEADLOCK FALSE` everywhere: each model has a bound on outside inputs or a
state in which the program has stopped (a dead loop, a stopped runtime), and
resting there is not an error. Getting stuck earlier is what the liveness
properties are about.

## Findings

`tasks_exclusion` (`assignment_coordinator.py:127`): two checks of a watch run in
parallel. A request that arrives after the task ended and before its callback ran
creates a task, and the callback then removes the new entry.
Line 116 promises to avoid that. The hidden task is also out of reach of `stop()`,
although `runtime.py:156` says it waits for all work in progress to end (`等待所有進行中的工作結束`).

The exceptions written into the properties are where the documents or the comments
promise more than the code does:

- Stop: what `stop()` cancels are coroutines. The threads they await (`check_executor.py:132`,
  254, 301) go on after it has returned, so a capture, a message or a transaction may still
  come, against `runtime.py:156` (`StopCleans`, with the hidden task above). And a loop, an
  assignment or a check that ended with an exception makes `stop()` raise and skip the rest
  (`assignment_coordinator.py:98`, 108).
- Slots: `assignment_coordinator.py:51` says that an assignment updates the scheduler after its
  work. When the read at line 56 raises (a locked or broken database), `mark_finished` is
  skipped: with one such failure for each of `max_workers` no background check runs until the
  program is restarted (`SlotReleased`).
- The loop: a pause or deletion that lands between a pass's look at the registered ids and its
  use kills the loop with a `KeyError` (`watch_sync_coordinator.py:64`) until the next start;
  nothing reports it, and `stop()` then raises and skips its clean-up. `runtime.py:222` says the
  loop synchronises continuously. `Converges` excepts it.
- Backoff and pause: a backoff can be missed (`tests/unit/monitor/test_scheduler.py:40`;
  `BackoffBypassed`); a pass that listed a watch before its pause may dispatch it after
  (`docs/ARCHITECTURE_PLAN.md:123`; `SettledNotDispatched`). The startup restore checks a
  watch without the shared task, so a check-now may run beside it (`runtime.py:214`).
- Results: after a 403 the check writes back the watch as it was at its start
  (`check_executor.py:289`): a disable that landed after the last gate is replaced by the
  pause, a new rule by the old one, although `docs/ARCHITECTURE_PLAN.md:126` has the result of
  a disabled watch discarded.
- Notifications: a crash or an exception after the sending leads to a second one
  (`docs/V1_SPEC.md:161`; `ResentOnlyUnrecorded`). The parse alert overwrites the last notified price
  (`domain/notification_engine.py:92`), so the same price is told again (`SamePriceOnce`). A price
  that rises above the target and falls back to the price told before stays silent
  (`notification_engine.py:158`): `docs/V1_SPEC.md:162` allows another notification, line 161
  does not. `CooldownKept` names two ways around the cooldown (`notifiers/throttling.py:91`).
- Creation: a *tab* preview that meets the block page raises an error without diagnostics, so the
  guard registers the shortest cooldown; as the container is wired
  (`bootstrap/site_wiring.py:51`) no path reaches the long one. Creating from a form, and
  the preview after a failed creation, do not ask the guard; a timeout tells it nothing.
  The content of a tab and its URL are two reads (`PricesOfStay`). The first price of a watch is
  always "available" (`application/watch_creation_snapshot.py:49`). A crash between the two
  saves leaves a watch without a draft.
- Pages: after a command the event is written in a transaction of its own, and events are
  listed by decision time, so the log may end with a state the row does not have
  (`LogTellsControl`). A stale page's pause enables a disabled watch again. A
  save inserts a deleted row again. No page offers to disable a watch.
- Start: any living pid passes for the program (`tools/dev_start.py:49`), and the clean-up
  removes the lock of whoever holds it (line 130).

## What is proved

TLAPS proves, for every value of the constants that satisfies the module's `ASSUME`
(finite sets of watches, absent values outside the sets, an interval longer than
its jitter, scenarios within the bound of time, files as a version of the program leaves
them):

- `MonitorScheduler_proof`: `TypeCorrect`, `WorkersLimited`, `OnlyBypassed`,
  `Refinement`. The invariant is `IInv`: the types, the worker limit, `CheckInv`
  (only workers run checks; a backoff has a check time) and `BackoffInv`. The last one
  is what makes `BackoffBypassed` inductive: it says of *every* entry, and of the entry
  in hand (`pending`), that its due time respects the stored backoff unless its watch
  is running or bypassed; a dispatch only reads it off. `Refinement` maps `workers` to
  `holders`: every action is a step of the pool or leaves the slots alone.
- `CheckPipeline_proof`: `TypeCorrect`, `GatesHonoured`, `ResentUnrecorded`, from `CopyInv`
  (a check past its setup has a copy, one past its capture something it saw, one that
  sends a price its rule holds for), `GateInv` (at a gate the history agrees with the
  watch; past the gate it was open) and `RecordInv`: a record that is kept is in the
  notification state, every check that began with it has a copy of it, and a check that has yet to
  make it will store the price it sent. So a check that began with the record
  finds `ShouldNotify` false, whatever became of the table since.
- `Checks_proof`, of `CheckTasks`: `TasksInductive`, `Overlap`, `CleanStop`,
  `NobodyWaitsInVain`. They rest on `TaskInv`, which speaks of the place of every callback. `TypeOK` and `Once`: no callback is queued twice.
  `TaskQueue` and `CallerQueue`: what is queued for a task or a caller tells where it is.
  `Fresh` and `Shielded`: only a caller that waits has a task, and it waits for one. `ForgottenFirst`:
  the coordinator's callback comes before those of the shields, so whoever is woken finds the
  registry without the task. `Registry`: where no task replaced one that was not yet
  forgotten, the registry holds every task there is. `Stages`: what has ended at each stage of
  `stop`. `Served`: a caller that is not idle has a callback queued or waits for a task,
  and that task has not ended; a slot belongs to an assignment at work. With `TaskQueue` it
  gives `NobodyWaitsInVain`: when nothing is left to run, all callers are idle and
  the slots free but for those of assignments that ended without `mark_finished`, the safety
  half of `RequestAnswered` and `SlotReleased`. `Overlap` and `CleanStop` read their properties off `Registry`. The lemmas on
  the queue (`OrderStays`, `OrderNew`, `HeadIsFirst`, `Appended`) say what taking the
  head and appending do to the order of two callbacks; each action then has a lemma of its own.
- `Checks_proof`, of `CheckHistory`: `HistoryTypeCorrect`, `ToldAtThird`, `ToldAvailableOnce`,
  `SilentOnRepeat`, `LowPriceOnce`, `BackoffGrowing`. Each history variable is tied to what the
  code stores: `StreakInv` (a streak of parse failures is counted while the latest check is
  one), `SoldOutInv` (the effective availability says whether the last check that could tell
  saw the rooms sold out), `OutageInv` (the streak is no longer than the run of failures),
  and `QuietInv`: after a price check the notification state has that
  availability, and a rule whose price is still below its target was silenced by this
  price. `RuleSilenced` carries it from leaf rules to composite ones. `SentInv`: what was
  notified last is what the state holds, unless a parse alert has replaced it since.
  `BackoffInv`: the stored backoff is that of the stored failure count, which the next failure
  raises; `PowersGrow` proves that `2^n` does not fall, and `BackoffGrows` that
  the backoff, with its cap, follows.
- `WatchDefinitions_proof`, of `WatchCreation`: `CreationInductive`, `Compares`, `CooldownHeld`,
  `ShownInductive`, `AsShown`, for any number of requests, forms and watches, any cache size and
  any tabs. `CreationInv`: a request at work was let in with the cooldown it asks for
  (`RequestsWork`); identifiers grow (`WatchesNumbered`); a watch, and a request about to save
  one, knows no watch of its target (`SavesCompared`). `Compares` says that of two
  watches for one target neither had seen the other, `CooldownHeld` that whatever
  changes the cooldown otherwise than by a tick or a restart answers a preview let in before it.
  `ShownInv` adds what is shown: forms have keys of their own (`FormsKeyed`); the cache is a
  sequence of forms without repetition, and a form that is not in it is `Gone`
  (`CacheHolds`), which it remains for good (`GoneLasts`); a creation looks at what its form
  showed unless that form was gone when it was submitted, at each of its steps (`RequestsTraced`). The step that needs
  counting is `RoomMade`: an entry leaves a full cache only when the others in it, with the new
  one, are as many as the cache holds, since keys map the cache into the forms one to one.
- `WatchDefinitions_proof`, what URLs say: `SourcesInductive`, `StayOfPrices`, `TargetsTold`, for any
  URLs. `FirstFound`, `FirstStays` and `FirstMissing` tell what a query says under a list of
  names, before and after parameters have been added; with them `TargetPageRead` and `SearchPageRead`
  show that a stay survives the two URLs built from it, under whichever names the seed said it,
  `PageMarked` that a page marks the watch of its target and no other (`AllFaithful`), and
  `RoomPageRead` that a page taken for ready says the stay of the draft. `SourcesInv`, on top of
  `ShownInv`, follows a preview from the tab or the lookup it comes from: what is read is a page
  in the table of sources, what is looked up has a complete draft, a preview is `Sound` (its
  stay priced as `PricesOfStay` says), and a target is made of a draft and a candidate (`Creatable`).
  They rest on `SiteAssumption`, which says what the program takes from the site: URLs are URLs
  (`IsUrl`), a hotel is a number (`browser_matching.py:35` ignores any other), and the page of a room
  says its stay under `cid`, `ppc` and `rc`, the only names a signature reads, and not under
  the other names that the parser of seed URLs knows (`SaysStay`). A page that said its stay under
  another name would be taken for ready with any stay; TLC checks the assumption for the instance.
- `WatchDefinitions_proof`, of `WatchSync`: `SyncTypeCorrect`, `ListedOnly`, `SettledStaysIdle`, from
  `PassInv`: whatever is in the hands of the pass (`InHand`: the schedule, the entry
  held, the entries removed under the iteration) was listed, and nothing settled was.
- `ChromeTabs_proof`: `TabsInductive`, `ClaimsApart`, `OwnPrices`, `OwnTabs`, for any watches and tabs,
  any URLs and any ranking of pages. `TabsInv` is the types, `ClaimsDiffer` and, of every watch,
  `HasTab` (who has chosen has a tab, be it closed by now), `KeepsOff` (the restoration of a
  watch excludes exactly the tabs claimed before, and nobody claims one meanwhile),
  `ChosenOwn` (before it navigates, a check has its own tab, a new one or one that showed the
  target) and `OnTarget` (from the reload on, what the check believes to be shown is
  accepted for its watch; so is the page of a price that nothing disturbed). `BestPage`, `HintedPage`
  and `MatchingTab` are what the three ways to choose a tab promise.
- `NotificationDispatch_proof`: `TypeCorrect`, `OncePerCooldown`, `Outcome`, `OwnSettings`,
  `RaceNeedsSilence`. `RecordInv` carries the cooldown: where
  nothing disturbed it, the record is the latest delivery or is just being made, and a
  check alone that has passed the throttle stays unthrottled until it sends, because no
  other thread writes that row (`AloneInv`). `ToldInv` (what is recorded or
  reported was delivered) and `TriedInv` (tried and left make up the channels) carry the
  result, `SilenceInv` the race.
- `WatchPages_proof`: `TypeCorrect`, `LogFollowsControl`, `LogAndSnapshot`, `PauseAndBlock`,
  `OffersTakeEffect`, for any number of other tabs and of refreshes in flight. `TablesInv`
  types the tables and the writers, `PageInv` the requests by how far they are served.
  `SnapshotInv`: a check that is not stale holds the snapshot that is stored, but for
  the time of its backoff, so the difference it logs is the difference there is. `BlockedInv`: no
  command decides on a block, and while the rows are in order a check in flight is one of a
  row that is not blocked. `TimesInv` and `ControlInv`: decision times differ, and while
  the rows are in order the newest event is that of the row, or the event that would
  say so is about to be written.

- `Startup_proof`: `TypeCorrect`, `FileTold`, `ReadyCurrent`, `LockKept`, for any number of
  processes and any files that a version of the program can have left (`FilesAssumption`).
  `SchemaInv` follows a chain: `Progress` says that what the chain has made so far is in what its
  process sees, be it committed or in its transaction; `WriterInv` that a transaction takes
  nothing back and, past the check of its version, is whole, so that a commit takes the file to
  the current version in one step (`FileInv`), also for a process that had read an
  older version (`MigrationKeeps`); `UnsupportedInv` that nobody writes to a file of another program
  version. `LockInv`: a lock that can be read is that of a process past its writing, and a
  process that goes on to replace what it read found that owner dead (`ReadInv`); so whoever
  removes the lock of a living process had read another one (`HeldInv`), and an orphan on the
  port, whose owner is dead, loses its lock only to one that had read it dead.

Types are proved and for that reason not checked by a run (`WatchCreation`, whose requests are
records that grow, has `RequestsWork` and `WatchesNumbered` instead); likewise `WorkersLimited`,
which follows from the refinement, and `ListedOnly`. The numbers of watches, slots, threads,
tabs, checks, commands and prices are arbitrary in the theorems; the instances are small.

Only model-checked are:

- liveness, which the prover does not reach: `NoStarvation`, `RequestAnswered`, `SlotReleased`,
  `Converges`, `KeepsRecording`, `Recovers`, `CatchesUp` (what the second and the third need beside
  fairness, that no caller misses an end, is proved as `NobodyWaitsInVain`);
- `MutualExclusion` of the run `tasks_exclusion`, which is false (see Findings).

## Abstractions

- Time in `MonitorScheduler` is in units longer than a check; the jitter is any value
  in its range; no tick falls into the microseconds between two statements of the loop.
- SQLite transactions are atomic and serialised; a crash loses what is not committed.
- Chrome is a capture that returns a price or an error, at any time, in `CheckPipeline`;
  `ChromeTabs` has the capture itself. A notification is sent or suppressed as a whole in
  `CheckPipeline`; the channels are in `NotificationDispatch`.
- In `WatchPages` the decision times stand for `occurred_at`, and a check has one time for
  its events; passes of the loop are seconds apart, so a request sees at most one. The
  event that tells of a recovery is left out of the log.
- `WatchSync` reads an entry and stores it back once per watch, where the code does so for
  `update_interval` and again for `reschedule_now`: between the two pairs a thread can do to
  the entry nothing it could not do between a read and its store, and `SyncItem` says why.
- `IkyuPages` compares paths by their segments; the code compares strings with `startswith`. Ids
  in a path of the site have the same length, so a prefix of the string is one of the segments.
- `MonitorScheduler` has the ends of assignments that reach `mark_finished`; those that do
  not, because the read before it raises, are in `CheckTasks`.
- A preview's `hotel` names, amounts' currencies and wording are constants of the instance.
- The settings page's test notification (a dispatcher and keys of its own) touches
  none of the state modelled; the two transactions of the settings form are two saves.

## Not modelled

Debug captures and their retention (files and one table nobody else reads); the queries for
charts and histories; HTML, formatting and client-side layout; the CDP protocol, the search
for a browser binary and the profile's preferences; the registration of routes and the
wiring of objects beyond the two values `WatchCreation` takes from it.

## Plan

1. The link between `CheckPipeline` and `NotificationDispatch` as a refinement: the effect of a
   check's notification step, channel by channel, as one step of the pipeline.
2. Retention of debug artifacts, if the code comes to rely on them.

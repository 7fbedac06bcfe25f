-------------------------- MODULE MonitorScheduler --------------------------
(***************************************************************************)
(* The in-memory scheduler of the background monitor                       *)
(* (src/app/monitor/scheduler.py) and everything that calls it: the loop   *)
(* that synchronises and dispatches, the assignments that finish, the      *)
(* startup restore, and the web threads that remove a paused watch.        *)
(*                                                                         *)
(* Time is relative: dueIn[w] is next_run_at minus now, so that the model  *)
(* has finitely many states without a bound on the clock.  Of the watches  *)
(* that are overdue only the ORDER of their next_run_at matters to the     *)
(* code, and Aged keeps exactly that.  One unit is much longer than a      *)
(* check: checked_at and the moment the result is stored share a unit.     *)
(*                                                                         *)
(* The scheduler's methods run on the event loop, except remove_watch,     *)
(* which the pause and disable routes call from a thread of the web        *)
(* server's pool without a lock.  Hence remove_watch is three steps in a   *)
(* thread, and every method of the loop that reads an entry, rebuilds it   *)
(* and stores it back is two (pending holds the entry in between).         *)
(*                                                                         *)
(* An operator Name_Variant is Name with a fault put in: it is used only   *)
(* to see that a property notices the fault.                               *)
(***************************************************************************)
EXTENDS Integers, FiniteSets

CONSTANTS
    Watches,      \* ids of the watch items
    Removable,    \* the watches a user may pause or disable
    Checkable,    \* the watches a user may "check now"
    Threads,      \* web threads that may be inside remove_watch at once
    MaxWorkers,   \* max_workers of the runtime (2 in the code)
    Intervals,    \* polling intervals, in time units
    Jitter,       \* largest jitter, in time units
    Backoffs,     \* backoffs a check may store: lengths, or NoTime
    NoTime,       \* the absent timestamp (None)
    MaxWakeups,   \* bound on the rescans after the machine slept
    MaxFailures   \* bound on the checks that end without storing a result

ASSUME SchedulerConstants ==
    /\ IsFiniteSet(Watches)
    /\ Removable \subseteq Watches
    /\ Checkable \subseteq Watches
    /\ MaxWorkers \in Nat
    /\ Intervals \subseteq Nat
    /\ Jitter \in Nat
    /\ \A i \in Intervals : i > Jitter
    /\ NoTime \notin Int
    /\ Backoffs \subseteq Nat \cup {NoTime}
    /\ MaxWakeups \in Nat
    /\ MaxFailures \in Nat

VARIABLES
    registered,   \* keys of _scheduled
    interval,     \* _scheduled[w].interval_seconds
    dueIn,        \* _scheduled[w].next_run_at - now (0 when not registered)
    workers,      \* keys of _workers
    removedWhileRunning,
    pending,      \* an entry read from _scheduled and not yet stored back
    remover,      \* for each web thread: where it is in remove_watch
    check,        \* the check each worker runs: none, running or persisted
    checkedAgo,   \* latest snapshot: now - checked_at
    backoffIn,    \* latest snapshot: backoff_until - now
    item,         \* the latest snapshot the sync loop read for one watch
    restoring,    \* the startup restore is not done
    restored,     \* the result it has stored and not yet told the scheduler
    budget,       \* wakeups and failed checks left
    bypassed      \* history: watches whose schedule missed their backoff

schedule == <<registered, interval, dueIn>>
snapshot == <<checkedAgo, backoffIn>>
vars == <<registered, interval, dueIn, workers, removedWhileRunning, pending,
          remover, check, checkedAgo, backoffIn, item, restoring, restored, budget,
          bypassed>>

None == [step |-> "none"]
Idle == [step |-> "idle"]
Entries == [step : {"store"}, watch : Watches, interval : Intervals, due : Int]
Ages == Int \cup {NoTime}

TypeOK ==
    /\ registered \subseteq Watches
    /\ interval \in [Watches -> Intervals]
    /\ dueIn \in [Watches -> Int]
    /\ workers \subseteq Watches
    /\ removedWhileRunning \subseteq Watches
    /\ pending \in {None} \cup Entries
    /\ remover \in [Threads -> {Idle} \cup
                       [step : {"check", "mark"}, watch : Watches]]
    /\ check \in [Watches -> {"none", "running", "persisted"}]
    /\ checkedAgo \in [Watches -> Ages]
    /\ backoffIn \in [Watches -> Ages]
    /\ item \in {None} \cup [step : {"read", "dead"}, watch : Watches,
                             known : BOOLEAN, checked : Ages, backoff : Ages]
    /\ restoring \in BOOLEAN
    /\ restored \in {None} \cup [step : {"stored"}, watch : Watches, backoff : Ages]
    /\ budget \in [wakeups : Nat, failures : Nat]
    /\ bypassed \subseteq Watches

Init ==
    /\ registered = {}
    /\ interval \in [Watches -> Intervals]
    /\ dueIn = [w \in Watches |-> 0]
    /\ workers = {}
    /\ removedWhileRunning = {}
    /\ pending = None
    /\ remover = [t \in Threads |-> Idle]
    /\ check = [w \in Watches |-> "none"]
    /\ checkedAgo = [w \in Watches |-> NoTime]
    /\ backoffIn = [w \in Watches |-> NoTime]
    /\ item = None
    /\ restoring = TRUE
    /\ restored = None
    /\ budget = [wakeups |-> MaxWakeups, failures |-> MaxFailures]
    /\ bypassed = {}

-----------------------------------------------------------------------------
(* Times                                                                   *)

\* The latest snapshot forbids a check before a moment still to come.
InBackoff(b) == b # NoTime /\ b > 0

\* compute_next_run_at: the first run of a watch that is (re)registered.
ComputeNextRunAt(checked, backoff, i) ==
    IF checked = NoTime THEN 0
    ELSE IF InBackoff(backoff) THEN backoff
    ELSE IF i > checked THEN i - checked ELSE 0

\* _next_due_time with its jitter, unless the snapshot holds a backoff: any
\* backoff_until that is not None is taken as it is, one in the past too.
NextRuns_NoBackoff(backoff, i) == (i - Jitter)..(i + Jitter)
NextRuns(backoff, i) ==
    IF backoff # NoTime THEN {backoff} ELSE (i - Jitter)..(i + Jitter)

\* One unit later.  Overdue entries keep only the order of their times.
Aged(due) ==
    LET later == [w \in Watches |-> due[w] - 1]
    IN  [w \in Watches |->
            CASE w \notin registered -> 0
              [] w \in registered /\ later[w] >= 0 -> later[w]
              [] OTHER -> -Cardinality({later[x] : x \in
                     {y \in registered : later[w] <= later[y] /\ later[y] < 0}})]

\* The oldest age that compute_next_run_at still tells apart.
Oldest == IF Intervals = {} THEN 0
          ELSE CHOOSE i \in Intervals : \A j \in Intervals : j <= i

-----------------------------------------------------------------------------
(* The event loop                                                          *)

LoopFree == pending = None /\ item = None

\* sync_watch_definitions reads, in a thread, the latest snapshot of a watch.
\* item.known stands for "in registered_ids"; that this set was taken once, for
\* all the watches of a pass, is the subject of module WatchSync.
SyncRead(w) ==
    /\ LoopFree
    /\ item' = [step |-> "read", watch |-> w, known |-> w \in registered,
                checked |-> checkedAgo[w], backoff |-> backoffIn[w]]
    /\ UNCHANGED <<registered, interval, dueIn, workers, removedWhileRunning,
                   pending, remover, check, checkedAgo, backoffIn, restoring, restored,
                   budget, bypassed>>

\* The snapshot in hand is no longer the one stored.
StaleItem == \/ item.checked # checkedAgo[item.watch]
             \/ item.backoff # backoffIn[item.watch]

\* register_watch, with the time compute_next_run_at gives.
RegisterWatch ==
    /\ item.step = "read" /\ pending = None
    /\ ~item.known
    /\ LET w == item.watch IN
        /\ registered' = registered \cup {w}
        /\ \E i \in Intervals :
            /\ interval' = [interval EXCEPT ![w] = i]
            /\ dueIn' = [dueIn EXCEPT
                  ![w] = ComputeNextRunAt(item.checked, item.backoff, i)]
        /\ bypassed' = IF StaleItem THEN bypassed \cup {w} ELSE bypassed \ {w}
    /\ item' = None
    /\ UNCHANGED <<workers, removedWhileRunning, pending, remover, check,
                   checkedAgo, backoffIn, restoring, restored, budget>>

\* should_trigger_wakeup_rescan: no backoff to come, and the last check older
\* than the moment the machine woke.
WakeupRescan == /\ ~InBackoff(item.backoff)
                /\ item.checked # NoTime => item.checked > 0

\* reschedule_now after a wakeup: read, rebuild, store.
RescheduleNow ==
    /\ item.step = "read" /\ pending = None
    /\ budget.wakeups > 0
    /\ WakeupRescan
    /\ LET w == item.watch IN
        /\ w \in registered
        /\ pending' = [step |-> "store", watch |-> w,
                       interval |-> interval[w], due |-> 0]
        /\ bypassed' = IF StaleItem THEN bypassed \cup {w} ELSE bypassed
    /\ budget' = [budget EXCEPT !.wakeups = @ - 1]
    /\ UNCHANGED <<registered, interval, dueIn, workers, removedWhileRunning,
                   remover, check, checkedAgo, backoffIn, item, restoring, restored>>

\* update_interval keeps next_run_at: read, rebuild, store.
UpdateInterval ==
    /\ item.step = "read" /\ pending = None
    /\ item.known
    /\ LET w == item.watch IN
        /\ w \in registered
        /\ \E i \in Intervals :
              pending' = [step |-> "store", watch |-> w,
                          interval |-> i, due |-> dueIn[w]]
    /\ item' = None
    /\ UNCHANGED <<registered, interval, dueIn, workers, removedWhileRunning,
                   remover, check, checkedAgo, backoffIn, restoring, restored, budget,
                   bypassed>>

\* A watch removed since the sync saw it, or one not scheduled yet when the
\* machine wakes: update_interval or reschedule_now raises KeyError, nothing
\* handles it and the loop task ends.
LoopDies ==
    /\ item.step = "read" /\ pending = None
    /\ item.watch \notin registered
    /\ \/ item.known /\ UNCHANGED budget
       \/ /\ budget.wakeups > 0
          /\ WakeupRescan
          /\ budget' = [budget EXCEPT !.wakeups = @ - 1]
    /\ item' = [item EXCEPT !.step = "dead"]
    /\ UNCHANGED <<registered, interval, dueIn, workers, removedWhileRunning,
                   pending, remover, check, checkedAgo, backoffIn, restoring, restored,
                   bypassed>>

LoopDead == item.step = "dead"

\* self._scheduled[watch_item_id] = updated
StoreEntry ==
    /\ pending # None
    /\ registered' = registered \cup {pending.watch}
    /\ interval' = [interval EXCEPT ![pending.watch] = pending.interval]
    /\ dueIn' = [dueIn EXCEPT ![pending.watch] = pending.due]
    /\ pending' = None
    /\ UNCHANGED <<workers, removedWhileRunning, remover, check, checkedAgo,
                   backoffIn, item, restoring, restored, budget, bypassed>>

\* dequeue_due_work: the due watches that no worker runs, oldest first, as
\* many as there are free slots.  The loop does not dispatch while the startup
\* restore runs.
Due == {w \in registered \ workers : dueIn[w] <= 0}

Slots_AllFree == MaxWorkers
Slots == MaxWorkers - Cardinality(workers)

OldestDue_Unsorted(S) == S \subseteq Due
OldestDue(S) ==
    /\ S \subseteq Due
    /\ \A w \in S, u \in Due \ S : dueIn[w] <= dueIn[u]

DequeueDueWork ==
    /\ LoopFree
    /\ ~restoring
    /\ Slots > 0
    /\ \E S \in SUBSET Due :
        /\ S # {}
        /\ OldestDue(S)
        /\ Cardinality(S) <= Slots
        /\ S = Due \/ Cardinality(S) = Slots
        /\ workers' = workers \cup S
        /\ check' = [w \in Watches |-> IF w \in S THEN "running" ELSE check[w]]
    /\ UNCHANGED <<registered, interval, dueIn, removedWhileRunning, pending,
                   remover, checkedAgo, backoffIn, item, restoring, restored, budget,
                   bypassed>>

\* The assignment's finally clause: mark_finished with the backoff of the
\* latest snapshot stored.  It frees the slot, and then raises LookupError,
\* which run_assignment suppresses, when the watch was removed meanwhile.
MarkFinished(w) ==
    /\ pending = None
    /\ w \in workers
    /\ \/ check[w] = "persisted" /\ UNCHANGED budget
       \/ /\ check[w] = "running"
          /\ budget.failures > 0
          /\ budget' = [budget EXCEPT !.failures = @ - 1]
    /\ workers' = workers \ {w}
    /\ check' = [check EXCEPT ![w] = "none"]
    /\ IF w \in removedWhileRunning
       THEN /\ removedWhileRunning' = removedWhileRunning \ {w}
            /\ bypassed' = bypassed \cup {w}
            /\ UNCHANGED pending
       ELSE /\ UNCHANGED removedWhileRunning
            /\ IF w \in registered
               THEN /\ \E d \in NextRuns(backoffIn[w], interval[w]) :
                          pending' = [step |-> "store", watch |-> w,
                                      interval |-> interval[w], due |-> d]
                    /\ bypassed' = bypassed \ {w}
               ELSE UNCHANGED <<pending, bypassed>>
    /\ UNCHANGED <<registered, interval, dueIn, remover, checkedAgo,
                   backoffIn, item, restoring, restored>>

\* The startup restore checks a watch itself and stores the result, in a
\* thread...
PersistRestored(w, b) ==
    /\ restoring /\ restored = None
    /\ restored' = [step |-> "stored", watch |-> w, backoff |-> b]
    /\ checkedAgo' = [checkedAgo EXCEPT ![w] = 0]
    /\ backoffIn' = [backoffIn EXCEPT ![w] = b]
    /\ bypassed' = bypassed \cup {w}
    /\ UNCHANGED <<registered, interval, dueIn, workers, removedWhileRunning,
                   pending, remover, check, item, restoring, budget>>

\* ... and calls mark_check_completed with that result, if the watch is still
\* scheduled.  A check-now may have stored another one in between.
MarkCheckCompleted ==
    /\ restored # None /\ pending = None
    /\ restored' = None
    /\ LET w == restored.watch IN
        IF w \in registered
        THEN /\ \E d \in NextRuns(restored.backoff, interval[w]) :
                   pending' = [step |-> "store", watch |-> w,
                               interval |-> interval[w], due |-> d]
             /\ bypassed' = IF restored.backoff = backoffIn[w]
                            THEN bypassed \ {w} ELSE bypassed \cup {w}
        ELSE UNCHANGED <<pending, bypassed>>
    /\ UNCHANGED <<registered, interval, dueIn, workers, removedWhileRunning,
                   remover, check, checkedAgo, backoffIn, item, restoring,
                   budget>>

RestoreDone ==
    /\ restoring /\ restored = None
    /\ restoring' = FALSE
    /\ UNCHANGED <<registered, interval, dueIn, workers, removedWhileRunning,
                   pending, remover, check, checkedAgo, backoffIn, item,
                   restored, budget, bypassed>>

\* remove_watch called on the loop: by the sync, or after a 403 was stored.
RemoveWatch(w) ==
    /\ pending = None
    /\ w \in registered \cap Removable
    /\ registered' = registered \ {w}
    /\ dueIn' = [dueIn EXCEPT ![w] = 0]
    /\ removedWhileRunning' = IF w \in workers
                              THEN removedWhileRunning \cup {w}
                              ELSE removedWhileRunning
    /\ UNCHANGED <<interval, workers, pending, remover, check,
                   checkedAgo, backoffIn, item, restoring, restored, budget, bypassed>>

-----------------------------------------------------------------------------
(* Web threads inside remove_watch                                         *)

RemoveBegin(t, w) ==
    /\ remover[t] = Idle
    /\ registered' = registered \ {w}
    /\ dueIn' = [dueIn EXCEPT ![w] = 0]
    /\ remover' = [remover EXCEPT ![t] = [step |-> "check", watch |-> w]]
    /\ UNCHANGED <<interval, workers, removedWhileRunning, pending,
                   check, checkedAgo, backoffIn, item, restoring, restored, budget,
                   bypassed>>

RemoveCheck(t) ==
    /\ remover[t].step = "check"
    /\ remover' = [remover EXCEPT
          ![t] = IF @.watch \in workers THEN [@ EXCEPT !.step = "mark"]
                                        ELSE Idle]
    /\ UNCHANGED <<registered, interval, dueIn, workers, removedWhileRunning,
                   pending, check, checkedAgo, backoffIn, item, restoring, restored,
                   budget, bypassed>>

RemoveMark(t) ==
    /\ remover[t].step = "mark"
    /\ removedWhileRunning' = removedWhileRunning \cup {remover[t].watch}
    /\ remover' = [remover EXCEPT ![t] = Idle]
    /\ UNCHANGED <<registered, interval, dueIn, workers, pending, check,
                   checkedAgo, backoffIn, item, restoring, restored, budget, bypassed>>

-----------------------------------------------------------------------------
(* Results, time and crashes                                               *)

\* The check a worker runs stores its result: a new latest snapshot.
PersistCheck(w, b) ==
    /\ check[w] = "running"
    /\ check' = [check EXCEPT ![w] = "persisted"]
    /\ checkedAgo' = [checkedAgo EXCEPT ![w] = 0]
    /\ backoffIn' = [backoffIn EXCEPT ![w] = b]
    /\ UNCHANGED <<registered, interval, dueIn, workers, removedWhileRunning,
                   pending, remover, item, restoring, restored, budget, bypassed>>

\* A check-now outside any assignment stores its result.  It never calls the
\* scheduler; a check-now of a watch a worker runs joins the worker's check.
PersistCheckNow(w, b) ==
    /\ w \notin workers
    /\ checkedAgo' = [checkedAgo EXCEPT ![w] = 0]
    /\ backoffIn' = [backoffIn EXCEPT ![w] = b]
    /\ bypassed' = bypassed \cup {w}
    /\ UNCHANGED <<registered, interval, dueIn, workers, removedWhileRunning,
                   pending, remover, check, item, restoring, restored, budget>>

\* No unit ends inside the millisecond-long windows of the loop, nor between
\* the storing of a result and the mark_finished or mark_check_completed that
\* follows it at once.
Tick ==
    /\ LoopFree
    /\ restored = None
    /\ \A w \in Watches : check[w] # "persisted"
    /\ dueIn' = Aged(dueIn)
    /\ checkedAgo' = [w \in Watches |->
          IF checkedAgo[w] # NoTime /\ checkedAgo[w] < Oldest
          THEN checkedAgo[w] + 1 ELSE checkedAgo[w]]
    /\ backoffIn' = [w \in Watches |->
          IF backoffIn[w] # NoTime /\ backoffIn[w] >= 0
          THEN backoffIn[w] - 1 ELSE backoffIn[w]]
    /\ UNCHANGED <<registered, interval, workers, removedWhileRunning, pending,
                   remover, check, item, restoring, restored, budget, bypassed>>

\* The process stops (MonitorScheduler.clear) or dies, and starts again: only
\* the database survives.
Restart ==
    /\ registered' = {}
    /\ workers' = {}
    /\ removedWhileRunning' = {}
    /\ pending' = None
    /\ remover' = [t \in Threads |-> Idle]
    /\ check' = [w \in Watches |-> "none"]
    /\ item' = None
    /\ restoring' = TRUE
    /\ restored' = None
    /\ dueIn' = [w \in Watches |-> 0]
    /\ bypassed' = {}
    /\ UNCHANGED <<interval, checkedAgo, backoffIn, budget>>

Next ==
    \/ \E w \in Watches :
        \/ SyncRead(w)
        \/ MarkFinished(w)
        \/ RemoveWatch(w)
        \/ \E b \in Backoffs : PersistCheck(w, b) \/ PersistRestored(w, b)
    \/ \E w \in Checkable, b \in Backoffs : PersistCheckNow(w, b)
    \/ RegisterWatch
    \/ RescheduleNow
    \/ UpdateInterval
    \/ LoopDies
    \/ StoreEntry
    \/ MarkCheckCompleted
    \/ DequeueDueWork
    \/ RestoreDone
    \/ \E t \in Threads : \/ \E w \in Removable : RemoveBegin(t, w)
                          \/ RemoveCheck(t)
                          \/ RemoveMark(t)
    \/ Tick
    \/ Restart

Spec == Init /\ [][Next]_vars

\* Each pass of the loop ends in dispatch_due_assignments (strong fairness: in
\* between, the loop is busy synchronising), a step of the loop that has begun
\* ends, captures time out, and the restore visits a fixed list of watches.
Fairness ==
    /\ WF_vars(StoreEntry)
    /\ WF_vars(RegisterWatch \/ UpdateInterval \/ LoopDies)
    /\ SF_vars(DequeueDueWork)
    /\ WF_vars(MarkCheckCompleted)
    /\ SF_vars(RestoreDone)
    /\ \A w \in Watches : /\ WF_vars(\E b \in Backoffs : PersistCheck(w, b))
                           /\ SF_vars(MarkFinished(w))

FairSpec == Spec /\ Fairness

-----------------------------------------------------------------------------
(* Properties                                                              *)

\* No more checks run for the scheduler than max_workers allows, whatever the
\* order of dispatches, finishes and removals.
WorkerLimit == Cardinality(workers) <= MaxWorkers

\* The scheduler starts a watch before the backoff stored for it has passed
\* only if the watch's schedule missed that backoff: the result came from a
\* check-now, or arrived after the watch had been removed and scheduled again,
\* or between the sync's read of the snapshot and its use.
BackoffBypassed ==
    [][\A w \in workers' \ workers :
          InBackoff(backoffIn[w]) => w \in bypassed]_vars

\* Unless the loop dies, a watch that is due is dispatched (or removed), even
\* when the workers are always busy with others.
NoStarvation ==
    \A w \in Watches :
        (w \in Due /\ ~restoring) ~> (w \notin Due \/ restoring \/ LoopDead)

\* The slots are used as module WorkerPool specifies: no order of dispatches,
\* finishes, removals and restarts loses one or hands one out twice.
Pool == INSTANCE WorkerPool
        WITH Clients <- Watches, Slots <- MaxWorkers, holders <- workers
ImplementsPool == Pool!Spec
=============================================================================

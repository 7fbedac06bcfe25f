------------------------------ MODULE CheckTasks ------------------------------
(***************************************************************************)
(* Who runs the check of a watch: the in-flight task that the background   *)
(* assignments and "check now" share                                       *)
(* (src/app/monitor/assignment_coordinator.py), the startup restore, which *)
(* checks a watch without that task, and the start and stop of the runtime *)
(* (src/app/monitor/runtime.py).                                           *)
(*                                                                         *)
(* All of it runs on one asyncio event loop, so the interleavings are      *)
(* those of its FIFO queue of callbacks, ready: a task that ends only      *)
(* QUEUES its done-callbacks, the one that clears the in-flight entry      *)
(* first, then those that wake the shielded waiters.                       *)
(*                                                                         *)
(* A check task is named after the caller that created it.  The caller     *)
(* waits for it, so a caller has at most one.  A watch, as a caller, is    *)
(* the background assignment of that watch.                                *)
(*                                                                         *)
(* What a check awaits works in a thread (asyncio.to_thread): cancelling   *)
(* the check ends its coroutine and leaves that thread, an orphan, at      *)
(* work.  Whether a check or an assignment ended with an exception is      *)
(* chosen where stop() would notice it.                                    *)
(*                                                                         *)
(* An operator Name_Variant is Name with a fault put in: it is used only   *)
(* to see that a property notices the fault.                               *)
(***************************************************************************)
EXTENDS Naturals, FiniteSets, Sequences, SequencesExt

CONSTANTS
    Watches,      \* ids of the watch items
    Requests,     \* "check now" requests that may be open at once
    Target,       \* the watch each request is for
    MaxWorkers,   \* max_workers of the runtime
    NoTask        \* no entry in inflight_tasks

Callers == Watches \cup Requests

ASSUME CheckTasksConstants ==
    /\ IsFiniteSet(Callers)
    /\ Watches \cap Requests = {}
    /\ Target \in [Requests -> Watches]
    /\ MaxWorkers \in Nat
    /\ NoTask \notin Callers

VARIABLES
    ready,     \* the event loop's queue of callbacks
    task,      \* the check task each caller created
    waiters,   \* callers shielded on each task, in the order they came
    inflight,  \* inflight_tasks
    caller,    \* idle, called (its step is queued), waiting or woken
    workers,   \* watches that hold a scheduler slot
    restore,   \* pending, the watch the restore checks, or done
    loop,      \* asleep, queued, dead or stopped
    broken,    \* assignments that ended with an exception and that
               \* assignment_tasks still holds
    lost,      \* history: assignments that ended without mark_finished
    stop,      \* where stop() is
    stopping,  \* the check tasks stop() cancelled and awaits
    cut,       \* history: watches with a check that stop() cancelled midway
    orphans,   \* watches with a thread of a cancelled check at work
    raced      \* history: watches whose new task replaced a finished one
               \* before the callback of the finished one had run

endings == <<broken, lost>>
stops == <<stop, stopping, cut, orphans>>
vars == <<ready, task, waiters, inflight, caller, workers, restore, loop,
          endings, stops, raced>>

WatchOf(c) == IF c \in Requests THEN Target[c] ELSE c

\* The restore's phases; a watch in between.
Pending == "pending"
Restored == "done"

Init ==
    /\ ready = <<>>
    /\ task = [c \in Callers |-> "none"]
    /\ waiters = [c \in Callers |-> <<>>]
    /\ inflight = [w \in Watches |-> NoTask]
    /\ caller = [c \in Callers |-> "idle"]
    /\ workers = {}
    /\ restore = Pending
    /\ loop = "queued"
    /\ broken = {}
    /\ lost = {}
    /\ stop = "no"
    /\ stopping = {}
    /\ cut = {}
    /\ orphans = {}
    /\ raced = {}

\* The check tasks of a watch that its registry has not been told to forget,
\* and those among them that have not ended.
Known(w) == {c \in Callers : WatchOf(c) = w /\ task[c] # "none"}
Live(w) == {c \in Known(w) : task[c] # "done"}

Handle(what, c) == [do |-> what, of |-> c]

\* The callbacks of several tasks, queued in one step.
Handles(what, S) == [i \in 1..Cardinality(S) |-> Handle(what, SetToSeq(S)[i])]

\* The callback at the head of the queue runs and queues others.
Runs(h, queued) == /\ ready # <<>>
                   /\ Head(ready) = h
                   /\ ready' = Tail(ready) \o queued

-----------------------------------------------------------------------------
(* Callers                                                                 *)

\* A request reaches the server; the check "may this watch be checked" is the
\* subject of module CheckPipeline.
RequestCheckNow(r) ==
    /\ stop = "no"
    /\ caller[r] = "idle"
    /\ caller' = [caller EXCEPT ![r] = "called"]
    /\ ready' = Append(ready, Handle("call", r))
    /\ UNCHANGED <<task, waiters, inflight, workers, restore, loop, endings,
                   stops, raced>>

\* The task in the registry still runs.
Reusable_Never(t) == FALSE
Reusable(t) == t # NoTask /\ task[t] # "done"

\* _get_or_create_watch_check_task, then await shield(task).
JoinTask(c) ==
    LET t == inflight[WatchOf(c)] IN
    /\ Runs(Handle("call", c), <<>>)
    /\ caller[c] = "called"
    /\ Reusable(t)
    /\ waiters' = [waiters EXCEPT ![t] = Append(@, c)]
    /\ caller' = [caller EXCEPT ![c] = "waiting"]
    /\ UNCHANGED <<task, inflight, workers, restore, loop, endings, stops,
                   raced>>

CreateTask(c) ==
    LET w == WatchOf(c)
        t == inflight[w] IN
    /\ Runs(Handle("call", c), <<Handle("step", c)>>)
    /\ caller[c] = "called"
    /\ ~Reusable(t)
    /\ task' = [task EXCEPT ![c] = "created"]
    /\ waiters' = [waiters EXCEPT ![c] = <<c>>]
    /\ inflight' = [inflight EXCEPT ![w] = c]
    /\ caller' = [caller EXCEPT ![c] = "waiting"]
    /\ raced' = IF t # NoTask /\ task[t] = "done" THEN raced \cup {w} ELSE raced
    /\ UNCHANGED <<workers, restore, loop, endings, stops>>

\* An assignment cancelled before its first step never runs: no mark_finished.
CancelledCall(w) ==
    /\ Runs(Handle("call", w), <<>>)
    /\ caller[w] = "woken"
    /\ caller' = [caller EXCEPT ![w] = "idle"]
    /\ lost' = lost \cup {w}
    /\ UNCHANGED <<task, waiters, inflight, workers, restore, loop, broken,
                   stops, raced>>

\* The shield's outer future gets its result and queues the waiter.
Unshield(c) ==
    /\ Runs(Handle("unshield", c), <<Handle("wake", c)>>)
    /\ caller[c] = "waiting"
    /\ caller' = [caller EXCEPT ![c] = "woken"]
    /\ UNCHANGED <<task, waiters, inflight, workers, restore, loop, endings,
                   stops, raced>>

\* A callback of the shield finds the outer future cancelled: its caller left.
Unneeded(c) ==
    /\ Runs(Handle("unshield", c), <<>>)
    /\ caller[c] # "waiting"
    /\ UNCHANGED <<task, waiters, inflight, caller, workers, restore, loop,
                   endings, stops, raced>>

\* The request is answered, with the exception of its check if that raised.
Answer(r) ==
    /\ Runs(Handle("wake", r), <<>>)
    /\ caller' = [caller EXCEPT ![r] = "idle"]
    /\ UNCHANGED <<task, waiters, inflight, workers, restore, loop, endings,
                   stops, raced>>

\* stop() has cancelled the assignments that it found.
AssignmentsCancelled == stop \in {"awaiting", "inflight", "done", "raised"}

\* mark_finished frees the slot of an assignment.
WorkersLeft_SlotKept(w) == workers
WorkersLeft(w) == workers \ {w}

\* The finally of run_assignment reads the latest snapshot and frees the slot.
\* An exception of the check then ends the assignment; a cancelled one has
\* only its cancellation to tell.
FinishAssignment(w) ==
    /\ Runs(Handle("wake", w), <<>>)
    /\ caller' = [caller EXCEPT ![w] = "idle"]
    /\ workers' = WorkersLeft(w)
    /\ \/ UNCHANGED broken
       \/ ~AssignmentsCancelled /\ broken' = broken \cup {w}
    /\ UNCHANGED <<task, waiters, inflight, restore, loop, lost, stops, raced>>

\* That read raises (the database is locked or gone): the finally ends there,
\* before mark_finished, and the watch keeps its slot.  If stop() awaits the
\* assignment, it is stop() that gets the exception.
FinalReadRaises(w) ==
    /\ Runs(Handle("wake", w), <<>>)
    /\ caller' = [caller EXCEPT ![w] = "idle"]
    /\ lost' = lost \cup {w}
    /\ IF AssignmentsCancelled
       THEN stop' = "raised" /\ UNCHANGED broken
       ELSE broken' = broken \cup {w} /\ UNCHANGED stop
    /\ UNCHANGED <<task, waiters, inflight, workers, restore, loop, stopping,
                   cut, orphans, raced>>

\* The done-callback of an assignment removes it from assignment_tasks.
ForgetAssignment(w) ==
    /\ w \in broken
    /\ broken' = broken \ {w}
    /\ UNCHANGED <<ready, task, waiters, inflight, caller, workers, restore,
                   loop, lost, stops, raced>>

-----------------------------------------------------------------------------
(* Check tasks                                                             *)

\* The first step of a check task.
BeginCheck(c) ==
    /\ Runs(Handle("step", c), <<>>)
    /\ task[c] = "created"
    /\ task' = [task EXCEPT ![c] = "running"]
    /\ UNCHANGED <<waiters, inflight, caller, workers, restore, loop, endings,
                   stops, raced>>

\* The last thing a check awaits (a thread, the browser) is done.
LastAwait(c) ==
    /\ task[c] = "running"
    /\ task' = [task EXCEPT ![c] = "ending"]
    /\ ready' = Append(ready, Handle("step", c))
    /\ UNCHANGED <<waiters, inflight, caller, workers, restore, loop, endings,
                   stops, raced>>

\* The done-callbacks of a task, in the order they were added.
DoneCallbacks_NoWaiters(c) == <<Handle("forget", c)>>
DoneCallbacks(c) ==
    <<Handle("forget", c)>> \o
    [i \in DOMAIN waiters[c] |-> Handle("unshield", waiters[c][i])]

\* The last step of a check, returning, failing or cancelled: the task is done
\* and its done-callbacks are queued.  It is the first step, too, when the
\* watch is paused or the setup raises.
EndCheck(c) ==
    /\ Runs(Handle("step", c), DoneCallbacks(c))
    /\ task[c] \in {"created", "ending"}
    /\ task' = [task EXCEPT ![c] = "done"]
    /\ waiters' = [waiters EXCEPT ![c] = <<>>]
    /\ UNCHANGED <<inflight, caller, workers, restore, loop, endings, stops,
                   raced>>

\* _forget_inflight_task pops the entry of the watch, whichever task it holds.
ForgetTask(c) ==
    /\ Runs(Handle("forget", c), <<>>)
    /\ inflight' = [inflight EXCEPT ![WatchOf(c)] = NoTask]
    /\ task' = [task EXCEPT ![c] = "none"]
    /\ raced' = IF Known(WatchOf(c)) = {c} THEN raced \ {WatchOf(c)} ELSE raced
    /\ UNCHANGED <<waiters, caller, workers, restore, loop, endings, stops>>

-----------------------------------------------------------------------------
(* The loop and the startup restore                                        *)

\* sleep(tick_seconds) or wait_for(restore, tick_seconds) is over.
LoopTick ==
    /\ loop = "asleep"
    /\ loop' = "queued"
    /\ ready' = Append(ready, [do |-> "loop"])
    /\ UNCHANGED <<task, waiters, inflight, caller, workers, restore, endings,
                   stops, raced>>

\* The first pass of the loop is queued by start().
LoopStarts ==
    /\ loop = "queued"
    /\ [do |-> "loop"] \notin ToSet(ready)
    /\ ready' = Append(ready, [do |-> "loop"])
    /\ UNCHANGED <<task, waiters, inflight, caller, workers, restore, loop,
                   endings, stops, raced>>

\* How many watches dequeue_due_work may hand out; none while the restore runs.
FreeSlots == IF restore = Restored THEN MaxWorkers - Cardinality(workers) ELSE 0

\* dispatch_due_assignments: an assignment task for every watch dequeued.
\* Which watches are due is MonitorScheduler's part.
Dispatch ==
    \E S \in SUBSET (Watches \ workers) :
        /\ loop = "queued"
        /\ Cardinality(S) <= FreeSlots
        /\ Runs([do |-> "loop"], Handles("call", S))
        /\ workers' = workers \cup S
        /\ caller' = [c \in Callers |-> IF c \in S THEN "called" ELSE caller[c]]
        /\ loop' = "asleep"
        /\ UNCHANGED <<task, waiters, inflight, restore, endings, stops,
                       raced>>

\* The sync of a pass raised (module WatchSync): the loop task ends.
LoopDies ==
    /\ Runs([do |-> "loop"], <<>>)
    /\ loop = "queued"
    /\ loop' = "dead"
    /\ UNCHANGED <<task, waiters, inflight, caller, workers, restore, endings,
                   stops, raced>>

\* The step of the loop task that stop() cancelled.
LoopCancelled ==
    /\ Runs([do |-> "loop"], <<>>)
    /\ loop = "stopped"
    /\ UNCHANGED <<task, waiters, inflight, caller, workers, restore, loop,
                   endings, stops, raced>>

\* The restore awaits a check of its own for each watch, one after the other.
RestoreCheck(w) ==
    /\ stop = "no"
    /\ restore # Restored /\ restore # w
    /\ restore' = w
    /\ UNCHANGED <<ready, task, waiters, inflight, caller, workers, loop,
                   endings, stops, raced>>

RestoreDone ==
    /\ restore # Restored
    /\ restore' = Restored
    /\ UNCHANGED <<ready, task, waiters, inflight, caller, workers, loop,
                   endings, stops, raced>>

-----------------------------------------------------------------------------
(* stop()                                                                  *)

\* The server stops the runtime once its open requests are answered.
StopBegin ==
    /\ stop = "no"
    /\ \A r \in Requests : caller[r] = "idle"
    /\ stop' = "restore"
    /\ UNCHANGED <<ready, task, waiters, inflight, caller, workers, restore,
                   loop, endings, stopping, cut, orphans, raced>>

\* The checks of the watches in S are cancelled; those of the watches in T were
\* in a thread, which works on.
CutOff(S) == /\ cut' = cut \cup S
             /\ \E T \in SUBSET S : orphans' = orphans \cup T

\* The restore task is cancelled and awaited.
StopRestore ==
    /\ stop = "restore"
    /\ CutOff({restore} \cap Watches)
    /\ restore' = Restored
    /\ stop' = "loop"
    /\ UNCHANGED <<ready, task, waiters, inflight, caller, workers, loop,
                   endings, stopping, raced>>

\* await self._loop_task: a loop that died hands its KeyError to stop().
StopLoop ==
    /\ stop = "loop"
    /\ IF loop = "dead"
       THEN stop' = "raised" /\ UNCHANGED loop
       ELSE stop' = "assignments" /\ loop' = "stopped"
    /\ UNCHANGED <<ready, task, waiters, inflight, caller, workers, restore,
                   endings, stopping, cut, orphans, raced>>

\* cancel_assignment_tasks: an assignment that waits leaves its shield, whose
\* callback will find it gone.  Awaiting one that ended with an exception
\* raises it, and then stop() does nothing more.
CancelAssignments ==
    LET waiting == {w \in Watches : caller[w] = "waiting"} IN
    /\ stop = "assignments"
    /\ caller' = [c \in Callers |->
          IF c \in Watches /\ caller[c] # "idle" THEN "woken" ELSE caller[c]]
    /\ ready' = ready \o Handles("wake", waiting)
    /\ stop' = IF broken = {} THEN "awaiting" ELSE "raised"
    /\ UNCHANGED <<task, waiters, inflight, workers, restore, loop, endings,
                   stopping, cut, orphans, raced>>

\* The assignments have ended: cancel_inflight_tasks cancels the tasks in the
\* registry, and only those.  One that had ended with an exception raises it
\* when awaited.
CancelInflight ==
    /\ stop = "awaiting"
    /\ \A w \in Watches : caller[w] = "idle"
    /\ stopping' = {inflight[w] : w \in Watches} \ {NoTask}
    /\ LET running == {c \in stopping' : task[c] = "running"} IN
        /\ task' = [c \in Callers |->
              IF c \in stopping' /\ task[c] # "done" THEN "ending" ELSE task[c]]
        /\ ready' = ready \o Handles("step", running)
        /\ CutOff({WatchOf(c) : c \in running})
    /\ \/ stop' = "inflight"
       \/ stop' = "raised" /\ \E c \in stopping' : task[c] = "done"
    /\ UNCHANGED <<waiters, inflight, caller, workers, restore, loop, endings,
                   raced>>

\* They have ended too: inflight_tasks.clear() and scheduler.clear().
Ended_NotAwaited(c) == TRUE
Ended(c) == task[c] \in {"none", "done"}

StopDone ==
    /\ stop = "inflight"
    /\ \A c \in stopping : Ended(c)
    /\ inflight' = [w \in Watches |-> NoTask]
    /\ workers' = {}
    /\ stopping' = {}
    /\ stop' = "done"
    /\ UNCHANGED <<ready, task, waiters, caller, restore, loop, endings, cut,
                   orphans, raced>>

\* The thread of a cancelled check has done its work.
ThreadEnds(w) ==
    /\ w \in orphans
    /\ orphans' = orphans \ {w}
    /\ UNCHANGED <<ready, task, waiters, inflight, caller, workers, restore,
                   loop, endings, stop, stopping, cut, raced>>

-----------------------------------------------------------------------------
RunHandle ==
    \/ \E c \in Callers : \/ JoinTask(c) \/ CreateTask(c) \/ Unshield(c)
                          \/ Unneeded(c) \/ BeginCheck(c) \/ EndCheck(c)
                          \/ ForgetTask(c)
    \/ \E r \in Requests : Answer(r)
    \/ \E w \in Watches : \/ FinishAssignment(w) \/ FinalReadRaises(w)
                          \/ CancelledCall(w)
    \/ Dispatch \/ LoopCancelled

Stop == \/ StopRestore \/ StopLoop \/ CancelAssignments \/ CancelInflight
        \/ StopDone

Next ==
    \/ RunHandle
    \/ \E r \in Requests : RequestCheckNow(r)
    \/ \E c \in Callers : LastAwait(c)
    \/ LoopStarts \/ LoopTick \/ LoopDies
    \/ \E w \in Watches : \/ RestoreCheck(w) \/ ForgetAssignment(w)
                          \/ ThreadEnds(w)
    \/ RestoreDone
    \/ StopBegin
    \/ Stop

Spec == Init /\ [][Next]_vars

\* The event loop runs what is queued, captures time out, and stop() awaits.
Fairness ==
    /\ WF_vars(RunHandle)
    /\ WF_vars(Stop)
    /\ \A c \in Callers : WF_vars(LastAwait(c))

FairSpec == Spec /\ Fairness

-----------------------------------------------------------------------------
(* Properties                                                              *)

\* Two checks that share the registry overlap only after a caller created a
\* task while the callback of a finished one was still queued; that callback
\* then drops the entry of the running task.
OverlapOnlyAfterRace ==
    \A w \in Watches : Cardinality(Live(w)) > 1 => w \in raced

\* Background and manual checks of one watch share a task, so that they never
\* run in parallel.
MutualExclusion == \A w \in Watches : Cardinality(Live(w)) <= 1

\* When stop() has returned, no assignment and no slot is left; the only checks
\* that still run are those the race had dropped from the registry, and the
\* only threads that still work are those of checks that stop() cancelled
\* midway.
StopCleans ==
    stop = "done" => /\ \A w \in Watches : caller[w] = "idle"
                     /\ workers = {}
                     /\ \A w \in Watches : Live(w) # {} => w \in raced
                     /\ orphans \subseteq cut

\* Every "check now" is answered, though its task may have been dropped from
\* the registry meanwhile.
RequestAnswered ==
    \A r \in Requests : caller[r] # "idle" ~> caller[r] = "idle"

\* Every dispatched assignment gives its slot back, whatever becomes of its
\* check, of the entry of its task and of stop(), unless it ends without
\* mark_finished: the read before that raises, or stop() cancels the assignment
\* before its first step.
SlotReleased == \A w \in Watches : w \in workers ~> w \notin workers \/ w \in lost
=============================================================================

------------------------------ MODULE WatchSync ------------------------------
(***************************************************************************)
(* One pass after the other of the runtime's loop (_run_loop of            *)
(* src/app/monitor/runtime.py): synchronise the scheduler with the watches *)
(* in the database (watch_sync_coordinator.py), then dispatch what is due. *)
(*                                                                         *)
(* A pass reads the list of watches in a thread, takes the registered ids  *)
(* once, and awaits a thread for the latest snapshot of each watch, while  *)
(* web threads save a paused or deleted watch and then take it out of the  *)
(* scheduler, assignments finish, and a check that met a 403 pauses its    *)
(* own watch.  The methods of the scheduler that read an entry, rebuild it *)
(* and store it back are split where a web thread can remove the entry in  *)
(* between (held).                                                         *)
(*                                                                         *)
(* An operator Name_Variant is Name with a fault put in: it is used only   *)
(* to see that a property notices the fault.                               *)
(***************************************************************************)
EXTENDS Naturals, FiniteSets

CONSTANTS
    Watches,      \* ids of the watch items
    Threads,      \* web threads
    Deletable,    \* the watches a user may delete
    NoWatch,      \* no watch
    MaxCommands,  \* bound on the user's commands and on the 403s
    MaxWakeups    \* bound on the passes that follow a sleep of the machine

ASSUME WatchSyncConstants ==
    /\ IsFiniteSet(Watches)
    /\ Deletable \subseteq Watches
    /\ NoWatch \notin Watches
    /\ MaxCommands \in Nat
    /\ MaxWakeups \in Nat

VARIABLES
    active,      \* database: watches enabled and not paused
    registered,  \* keys of the scheduler's _scheduled
    workers,     \* keys of the scheduler's _workers
    blocking,    \* workers whose check stored a 403 and has yet to remove
    held,        \* the watch whose entry is read and not yet stored back
    ticks,       \* start: start() synchronises; first, loop: _run_loop runs
    restoring,   \* watches the startup restore has not come to
    phase,       \* where the loop is in its pass, or dead
    listed,      \* active_watch_items of the pass
    known,       \* registered_ids of the pass
    todo,        \* watches of listed the pass has not come to
    resumed,     \* resumed_after_sleep of the pass
    gone,        \* entries removed while dequeue_due_work iterates
    thread,      \* for each web thread, the watch it has yet to remove
    commands,    \* commands and 403s left
    wakeups,     \* wakeups left
    settled      \* history: watches inactive since before the pass's list
                 \* was read, and whose command has returned

database == <<active, settled>>
pass == <<ticks, listed, known, todo, resumed>>
users == <<thread, commands>>
syncVars == <<database, pass, users, registered, workers, blocking, held, phase,
          gone, wakeups, restoring>>

Phases == {"idle", "listing", "items", "dispatch", "iterating", "dead"}

SyncTypeOK ==
    /\ active \subseteq Watches
    /\ registered \subseteq Watches
    /\ workers \subseteq Watches
    /\ blocking \subseteq workers
    /\ held \in Watches \cup {NoWatch}
    /\ ticks \in {"start", "first", "loop"}
    /\ restoring \subseteq Watches
    /\ phase \in Phases
    /\ listed \subseteq Watches
    /\ known \subseteq Watches
    /\ todo \subseteq listed
    /\ resumed \in BOOLEAN
    /\ gone \subseteq Watches
    /\ thread \in [Threads -> Watches \cup {NoWatch}]
    /\ commands \in 0..MaxCommands
    /\ wakeups \in 0..MaxWakeups
    /\ settled \subseteq Watches \ active

SyncInit ==
    /\ active \in SUBSET Watches
    /\ registered = {}
    /\ workers = {}
    /\ blocking = {}
    /\ held = NoWatch
    /\ ticks = "start"
    /\ restoring = {}
    /\ phase = "idle"
    /\ listed = {}
    /\ known = {}
    /\ todo = {}
    /\ resumed = FALSE
    /\ gone = {}
    /\ thread = [t \in Threads |-> NoWatch]
    /\ commands = MaxCommands
    /\ wakeups = MaxWakeups
    /\ settled = {}

-----------------------------------------------------------------------------
(* The pass                                                                *)

\* list_all, in a thread: the watches enabled and not paused.  A pass that
\* starts long after the one before knows that the machine slept.
ReadList ==
    /\ phase = "idle"
    /\ \/ resumed' = FALSE /\ UNCHANGED wakeups
       \/ /\ ticks = "loop" /\ wakeups > 0
          /\ resumed' = TRUE
          /\ wakeups' = wakeups - 1
    /\ listed' = active
    /\ settled' = Watches \ (active \cup {thread[t] : t \in Threads} \cup blocking)
    /\ phase' = "listing"
    /\ UNCHANGED <<users, active, registered, workers, blocking, held,
                   ticks, restoring, known, todo, gone>>

\* The entries that stay: the watches no longer listed go.
StillListed_AllKept == registered
StillListed == registered \cap listed

\* Back on the loop: registered_ids, and what stays of them.
TakeRegistered ==
    /\ phase = "listing" /\ held = NoWatch
    /\ known' = registered
    /\ registered' = StillListed
    /\ todo' = listed
    /\ phase' = "items"
    /\ UNCHANGED <<database, users, workers, blocking, held, ticks,
                   restoring, listed, resumed, gone, wakeups>>

\* The rest of the loop's body for w, once its snapshot has been read: after a
\* wakeup that asks for a rescan (due), reschedule_now first.  Its reading and
\* storing of the entry and those of update_interval are one held: a removal
\* within either is one while the entry is held (it is stored back), and one
\* between the two ends as one before both (the loop dies).
MissingEntry(w, due) ==
    \/ due /\ w \notin registered
    \/ w \in known /\ w \notin registered

SyncItem(w) ==
    /\ phase = "items" /\ held = NoWatch
    /\ w \in todo
    /\ \E due \in {FALSE, resumed} :
        \/ /\ MissingEntry(w, due)
           /\ phase' = "dead"
           /\ UNCHANGED <<registered, held, todo>>
        \/ /\ ~MissingEntry(w, due)
           /\ IF w \in known
              THEN held' = w /\ UNCHANGED registered
              ELSE registered' = registered \cup {w} /\ UNCHANGED held
           /\ todo' = todo \ {w}
           /\ UNCHANGED phase
    /\ UNCHANGED <<database, users, workers, blocking, ticks, restoring,
                   listed, known, resumed, gone, wakeups>>

\* update_interval, reschedule_now or mark_finished stores the entry back.
StoreEntry ==
    /\ held # NoWatch
    /\ registered' = registered \cup {held}
    /\ held' = NoWatch
    /\ UNCHANGED <<database, pass, users, workers, blocking, restoring,
                   phase, gone, wakeups>>

\* The pass of start() leads to the startup restore and the loop, the passes of
\* the loop lead to a dispatch.
SyncDone ==
    /\ phase = "items" /\ held = NoWatch
    /\ todo = {}
    /\ IF ticks = "start"
       THEN /\ ticks' = "first"
            /\ phase' = "idle"
            /\ restoring' \in {listed, {}}
       ELSE /\ ticks' = "loop"
            /\ phase' = "dispatch"
            /\ UNCHANGED restoring
    /\ UNCHANGED <<database, users, registered, workers, blocking, held,
                   listed, known, todo, resumed, gone, wakeups>>

\* dequeue_due_work begins to iterate over _scheduled.
BeginDispatch ==
    /\ phase = "dispatch" /\ held = NoWatch
    /\ restoring = {}
    /\ phase' = "iterating"
    /\ gone' = {}
    /\ UNCHANGED <<database, pass, users, registered, workers, blocking,
                   held, restoring, wakeups>>

\* The due watches among those registered get a worker; a watch removed while
\* the iteration went on may have been collected before.
Dispatch ==
    /\ phase = "iterating"
    /\ \E S \in SUBSET ((registered \cup gone) \ workers) : workers' = workers \cup S
    /\ phase' = "idle"
    /\ gone' = {}
    /\ UNCHANGED <<database, pass, users, registered, blocking, held,
                   restoring, wakeups>>

\* The startup restore outlasts the tick: no dispatch in this pass.
RestoreOutlasts ==
    /\ phase = "dispatch"
    /\ restoring # {}
    /\ phase' = "idle"
    /\ UNCHANGED <<database, pass, users, registered, workers, blocking,
                   held, restoring, gone, wakeups>>

\* RuntimeError: dictionary changed size during iteration.
DispatchDies ==
    /\ phase = "iterating"
    /\ gone # {}
    /\ phase' = "dead"
    /\ UNCHANGED <<database, pass, users, registered, workers, blocking,
                   held, restoring, gone, wakeups>>

-----------------------------------------------------------------------------
(* Meanwhile                                                               *)

LoopCanRun == held = NoWatch /\ phase # "iterating"

\* The server takes requests once start() has returned.
CommandAllowed == ticks # "start" /\ commands > 0

\* Whose assignment may end: a check that met a 403 first removes its watch.
Ending == workers \ blocking

\* mark_finished frees the slot and, if the entry is still there, begins to
\* rebuild it; a removed watch makes it raise, which run_assignment swallows.
MarkFinished(w) ==
    /\ LoopCanRun
    /\ w \in Ending
    /\ workers' = workers \ {w}
    /\ held' = IF w \in registered THEN w ELSE NoWatch
    /\ UNCHANGED <<database, pass, users, registered, blocking, restoring,
                   phase, gone, wakeups>>

\* The startup restore is done with w: mark_check_completed, if a result was
\* stored and w is still scheduled.
MarkCheckCompleted(w) ==
    /\ LoopCanRun
    /\ w \in restoring
    /\ restoring' = restoring \ {w}
    /\ held' \in {NoWatch} \cup ({w} \cap registered)
    /\ UNCHANGED <<database, pass, users, registered, workers, blocking,
                   phase, gone, wakeups>>

\* A check stores the pause a 403 calls for, in a thread...
PersistBlocked(w) ==
    /\ w \in workers \cap active
    /\ commands > 0
    /\ commands' = commands - 1
    /\ active' = active \ {w}
    /\ blocking' = blocking \cup {w}
    /\ UNCHANGED <<pass, registered, workers, held, restoring, phase, gone,
                   thread, wakeups, settled>>

\* ... and, back on the loop, removes the watch.
RemoveBlocked(w) ==
    /\ LoopCanRun
    /\ w \in blocking
    /\ registered' = registered \ {w}
    /\ blocking' = blocking \ {w}
    /\ UNCHANGED <<database, pass, users, workers, held, restoring, phase,
                   gone, wakeups>>

\* pause or disable in a web thread: saved...
SavePaused(t, w) ==
    /\ thread[t] = NoWatch
    /\ CommandAllowed
    /\ commands' = commands - 1
    /\ active' = active \ {w}
    /\ thread' = [thread EXCEPT ![t] = w]
    /\ UNCHANGED <<pass, registered, workers, blocking, held, restoring,
                   phase, gone, wakeups, settled>>

\* ... then remove_watch_from_schedule, whatever the loop is doing.
RemovePaused(t) ==
    /\ thread[t] # NoWatch
    /\ registered' = registered \ {thread[t]}
    /\ gone' = IF phase = "iterating" THEN gone \cup (registered \cap {thread[t]})
                                     ELSE gone
    /\ thread' = [thread EXCEPT ![t] = NoWatch]
    /\ UNCHANGED <<database, pass, workers, blocking, held, restoring,
                   phase, commands, wakeups>>

\* resume, enable and create write the database only.
Activate(w) ==
    /\ w \notin active
    /\ CommandAllowed
    /\ commands' = commands - 1
    /\ active' = active \cup {w}
    /\ settled' = settled \ {w}
    /\ UNCHANGED <<pass, registered, workers, blocking, held, restoring,
                   phase, gone, thread, wakeups>>

\* delete writes the database only: the next pass unregisters.
DeleteDefinition(w) ==
    /\ w \in active \cap Deletable
    /\ CommandAllowed
    /\ commands' = commands - 1
    /\ active' = active \ {w}
    /\ UNCHANGED <<pass, registered, workers, blocking, held, restoring,
                   phase, gone, thread, wakeups, settled>>

-----------------------------------------------------------------------------
SyncNext ==
    \/ ReadList \/ TakeRegistered \/ StoreEntry \/ SyncDone
    \/ BeginDispatch \/ Dispatch \/ RestoreOutlasts \/ DispatchDies
    \/ \E w \in Watches : \/ SyncItem(w)
                          \/ MarkFinished(w)
                          \/ MarkCheckCompleted(w)
                          \/ PersistBlocked(w)
                          \/ RemoveBlocked(w)
                          \/ Activate(w)
                          \/ DeleteDefinition(w)
    \/ \E t \in Threads : \/ \E w \in Watches : SavePaused(t, w)
                          \/ RemovePaused(t)

SyncSpec == SyncInit /\ [][SyncNext]_syncVars

\* The loop goes on until it dies, an entry in hand is stored back, a command
\* that has begun ends, and so do a check and the startup restore.
SyncFairness ==
    /\ WF_syncVars(ReadList \/ SyncDone \/ BeginDispatch \/ RestoreOutlasts)
    /\ WF_syncVars(TakeRegistered) /\ WF_syncVars(StoreEntry)
    /\ WF_syncVars(Dispatch \/ DispatchDies)
    /\ WF_syncVars(\E w \in Watches : SyncItem(w))
    /\ \A w \in Watches : /\ SF_syncVars(RemoveBlocked(w))
                           /\ SF_syncVars(MarkFinished(w))
                           /\ SF_syncVars(MarkCheckCompleted(w))
    /\ \A t \in Threads : WF_syncVars(RemovePaused(t))

SyncFairSpec == SyncSpec /\ SyncFairness

-----------------------------------------------------------------------------
(* Properties                                                              *)

\* Nothing is scheduled, when the pass comes to its dispatch, that its list
\* did not hold: neither a command nor an assignment that ends while the pass
\* goes on can bring back a watch the pass took out.
RegisteredWereListed ==
    phase \in {"items", "dispatch", "iterating"} => registered \subseteq listed

\* A pass whose list was read after a watch had been paused, and its command
\* had returned, does not dispatch that watch.
SettledNotDispatched == [][(workers' \ workers) \cap settled = {}]_syncVars

\* Unless the loop dies, a watch that stays active ends up scheduled for good
\* and one that stays inactive ends up not scheduled for good.
Converges ==
    \A w \in Watches :
        /\ <>[](w \in active) => <>[](w \in registered) \/ <>(phase = "dead")
        /\ <>[](w \notin active) => <>[](w \notin registered) \/ <>(phase = "dead")
=============================================================================

------------------------------- MODULE Startup -------------------------------
(***************************************************************************)
(* Starting the program: tools/dev_start.py with the decisions of          *)
(* monitor/single_instance.py, the start of Chrome, the server's port, and *)
(* the initialisation of the database by the start itself and again by the *)
(* application.  Several starts run at once, each an operating system      *)
(* process of its own; each may be stopped or killed.                      *)
(*                                                                         *)
(* An operator Name_Variant is Name with a fault put in: it is used only   *)
(* to see that a property notices the fault.                               *)
(***************************************************************************)
EXTENDS SchemaMigration, FiniteSets

CONSTANTS Gone,            \* starts of an earlier time, killed since
          Torn,            \* a lock file that is being written
          MaxKills,        \* bound: processes killed
          Initial          \* the contents the file may have at first

ASSUME StartupAssumption == /\ MaxKills \in Nat
                            /\ Initial \subseteq Contents
                            /\ Torn \notin Procs \cup {None}
                            /\ Gone \subseteq Procs

\* What a version of the program has left: a file has what its version claims,
\* and one without a version has the columns when it has the tables.
ASSUME FilesAssumption ==
    \A content \in Initial :
        /\ content.version \in MinSupported..Current =>
              SchemaOf(content.version) \subseteq content.objects
        /\ content.version = None /\ "base" \in content.objects =>
              Columns \subseteq content.objects

VARIABLES pc,        \* where each start is in main
          lock,      \* the lock file: None, Torn or the process it names
          seen,      \* the lock record each start has read
          used,      \* whether each start found the port in use
          choice,    \* the decision of each start
          port,      \* the process that has bound the port
          listening, \* whether the application answers on it
          chrome,    \* the dedicated Chrome: "off", "starting" or "ready"
          reused,    \* dead processes whose pid another program has now
          kills,
          origin     \* the content of the database at first

startVars == <<pc, lock, seen, used, choice, port, listening, chrome, reused, kills>>
vars == <<startVars, schemaVars, origin>>

\* An orphan is a server whose reloading parent, the process of main, is gone.
Over == {"reused", "refused", "died", "ended", "killed", "orphan"}
Alive(p) == pc[p] \notin Over \cup {"new"}

\* The steps inside the try block of main: a failure or an interrupt there
\* goes on with the removal of the lock file.
Guarded == {"chrome", "profile", "launch", "wait", "bind", "load", "hung", "serving"}

Init ==
    /\ pc = [p \in Procs |-> IF p \in Gone THEN "killed" ELSE "new"]
    /\ lock \in Gone \cup {None}
    /\ seen = [p \in Procs |-> None]
    /\ used = [p \in Procs |-> FALSE]
    /\ choice = [p \in Procs |-> "none"]
    /\ port = None /\ listening = FALSE
    /\ chrome = "off"
    /\ reused = {} /\ kills = 0
    /\ origin \in Initial
    /\ SchemaInit(origin)

To(p, place) == pc' = [pc EXCEPT ![p] = place]

\* A file that cannot be read or parsed counts as none.
ReadLock(p) ==
    /\ pc[p] = "new"
    /\ seen' = [seen EXCEPT ![p] = IF lock = Torn THEN None ELSE lock]
    /\ To(p, "port")
    /\ UNCHANGED <<lock, used, choice, port, listening, chrome, reused, kills, schemaVars>>

\* A port that is bound but not listened on refuses the connection.
CheckPort(p) ==
    /\ pc[p] = "port"
    /\ used' = [used EXCEPT ![p] = listening]
    /\ To(p, "decide")
    /\ UNCHANGED <<lock, seen, choice, port, listening, chrome, reused, kills, schemaVars>>

PidExists_Never(q) == FALSE
PidExists(q) == q # None /\ (Alive(q) \/ q \in reused)

\* Any living process with the pid of the lock passes for the program.
Decision(inUse, record) ==
    CASE PidExists(record) -> "reuse"
      [] ~PidExists(record) /\ inUse -> "conflict"
      [] ~PidExists(record) /\ ~inUse /\ record = None -> "start"
      [] OTHER -> "clean"

Decide(p) ==
    LET decision == Decision(used[p], seen[p]) IN
    /\ pc[p] = "decide"
    /\ choice' = [choice EXCEPT ![p] = decision]
    /\ To(p, CASE decision = "reuse" -> "probe" [] decision = "conflict" -> "refused"
               [] decision = "start" -> "write" [] decision = "clean" -> "clean")
    /\ UNCHANGED <<lock, seen, used, port, listening, chrome, reused, kills, schemaVars>>

\* GET /health: the instance that answers must be the one of the lock record.
\* An application that is busy for a second does not answer in time.
Probe(p) ==
    /\ pc[p] = "probe"
    /\ \/ To(p, IF listening /\ port = seen[p] THEN "reused" ELSE "refused")
       \/ To(p, "refused")
    /\ UNCHANGED <<lock, seen, used, choice, port, listening, chrome, reused, kills, schemaVars>>

\* remove_lock_record looks whether the file is there and then unlinks it,
\* whoever it names; a file that is gone by then raises.
RemoveLock(p, from, unlinking, after) ==
    /\ \/ pc[p] = from /\ To(p, IF lock = None THEN after ELSE unlinking) /\ UNCHANGED lock
       \/ pc[p] = unlinking /\ lock # None /\ lock' = None /\ To(p, after)
       \/ pc[p] = unlinking /\ lock = None /\ To(p, "died") /\ UNCHANGED lock
    /\ UNCHANGED <<seen, used, choice, port, listening, chrome, reused, kills, schemaVars>>

CleanStaleLock(p) == RemoveLock(p, "clean", "cleanUnlink", "write")

\* write_text truncates the file and then fills it.
WriteLock(p) ==
    /\ \/ pc[p] = "write" /\ lock' = Torn /\ To(p, "writing")
       \/ pc[p] = "writing" /\ lock' = p /\ To(p, "chrome")
    /\ UNCHANGED <<seen, used, choice, port, listening, chrome, reused, kills, schemaVars>>

\* With an attachable Chrome the start goes on to the server; without one it
\* looks up the page of the first active watch, for which it initialises the
\* database, unless there is no file or the runtime is disabled.
FindChrome(p) ==
    /\ pc[p] = "chrome"
    /\ \/ chrome = "ready" /\ To(p, "bind") /\ UNCHANGED schemaVars
       \/ chrome # "ready" /\ To(p, "launch") /\ UNCHANGED schemaVars
       \/ chrome # "ready" /\ To(p, "profile") /\ Connect(p)
    /\ UNCHANGED <<lock, seen, used, choice, port, listening, chrome, reused, kills>>

\* The connection is closed again; a failed initialisation ends the start.
StartUrlResolved(p) ==
    /\ pc[p] = "profile" /\ conn[p].at \in {"ready", "failed"}
    /\ To(p, IF conn[p].at = "ready" THEN "launch" ELSE "cleanup")
    /\ Lost(p)
    /\ UNCHANGED <<lock, seen, used, choice, port, listening, chrome, reused, kills>>

\* ensure_debuggable_chrome: nothing to do, no Chrome to be found, or started.
LaunchChrome(p) ==
    /\ pc[p] = "launch"
    /\ \/ chrome = "ready" /\ To(p, "bind") /\ UNCHANGED chrome
       \/ chrome # "ready" /\ To(p, "cleanup") /\ UNCHANGED chrome
       \/ chrome # "ready" /\ chrome' = "starting" /\ To(p, "wait")
    /\ UNCHANGED <<lock, seen, used, choice, port, listening, reused, kills, schemaVars>>

\* The endpoint answers before the deadline, or does not.
WaitForChrome(p) ==
    /\ pc[p] = "wait"
    /\ To(p, IF chrome = "ready" THEN "bind" ELSE "cleanup")
    /\ UNCHANGED <<lock, seen, used, choice, port, listening, chrome, reused, kills, schemaVars>>

ChromeReady ==
    /\ chrome = "starting" /\ chrome' = "ready"
    /\ UNCHANGED <<pc, lock, seen, used, choice, port, listening, reused, kills, schemaVars>>

\* uvicorn with reload binds the port before the application is loaded, and
\* exits when it is taken.
BindPort(p) ==
    /\ pc[p] = "bind"
    /\ \/ port # None /\ To(p, "cleanup") /\ UNCHANGED <<port, schemaVars>>
       \/ port = None /\ port' = p /\ To(p, "load") /\ Connect(p)
    /\ UNCHANGED <<lock, seen, used, choice, listening, chrome, reused, kills>>

\* build_app_container initialises the database; when that raises, the
\* reloading parent keeps the port and nobody listens.
LoadApp(p) ==
    /\ pc[p] = "load" /\ conn[p].at \in {"ready", "failed"}
    /\ IF conn[p].at = "ready" THEN To(p, "serving") /\ listening' = TRUE
                               ELSE To(p, "hung") /\ UNCHANGED listening
    /\ UNCHANGED <<lock, seen, used, choice, port, chrome, reused, kills, schemaVars>>

InitializeDatabase(p) ==
    /\ pc[p] \in {"profile", "load", "orphan"}
    /\ InitializeStep(p)
    /\ UNCHANGED startVars

ReleasePort(p) ==
    /\ port' = IF port = p THEN None ELSE port
    /\ listening' = (listening /\ port # p)

\* The user stops the start or the server: main goes on with its finally.
Stop(p) ==
    /\ pc[p] \in Guarded
    /\ To(p, "cleanup")
    /\ ReleasePort(p) /\ Lost(p)
    /\ UNCHANGED <<lock, seen, used, choice, chrome, reused, kills>>

RemoveOwnLock(p) == RemoveLock(p, "cleanup", "unlink", "ended")

\* With reload the application runs in a child of the killed process, which
\* may live on and keep the port.
Kill(p) ==
    /\ Alive(p) /\ kills < MaxKills
    /\ kills' = kills + 1
    /\ \/ To(p, "killed") /\ ReleasePort(p) /\ Lost(p)
       \/ /\ pc[p] \in {"load", "serving"} /\ To(p, "orphan")
          /\ UNCHANGED <<port, listening, schemaVars>>
    /\ UNCHANGED <<lock, seen, used, choice, chrome, reused>>

\* The child left behind answers once its database is initialised, and ends
\* when that fails or it is killed too.
OrphanServes(p) ==
    /\ pc[p] = "orphan" /\ conn[p].at = "ready"
    /\ ~listening /\ listening' = TRUE
    /\ UNCHANGED <<pc, lock, seen, used, choice, port, chrome, reused, kills, schemaVars>>

OrphanEnds(p) ==
    /\ pc[p] = "orphan" /\ To(p, "killed")
    /\ ReleasePort(p) /\ Lost(p)
    /\ UNCHANGED <<lock, seen, used, choice, chrome, reused, kills>>

\* Another program gets the pid of a process that is gone, and ends.
ReusePid(p) ==
    /\ pc[p] \in {"killed", "orphan"}
    /\ reused' = IF p \in reused THEN reused \ {p} ELSE reused \cup {p}
    /\ UNCHANGED <<pc, lock, seen, used, choice, port, listening, chrome, kills, schemaVars>>

StartStep(p) ==
    \/ ReadLock(p) \/ CheckPort(p) \/ Decide(p) \/ Probe(p) \/ CleanStaleLock(p)
    \/ WriteLock(p) \/ FindChrome(p) \/ StartUrlResolved(p) \/ LaunchChrome(p)
    \/ WaitForChrome(p) \/ BindPort(p) \/ LoadApp(p) \/ InitializeDatabase(p)
    \/ RemoveOwnLock(p) \/ OrphanServes(p) \/ OrphanEnds(p)

Next ==
    /\ \/ \E p \in Procs : StartStep(p) \/ Stop(p) \/ Kill(p) \/ ReusePid(p)
       \/ ChromeReady
    /\ UNCHANGED origin

Spec == Init /\ [][Next]_vars

------------------------------------------------------------------------------
TypeOK ==
    /\ SchemaTypeOK
    /\ pc \in [Procs -> Over \cup Guarded \cup {"new", "port", "decide", "probe",
                 "clean", "cleanUnlink", "write", "writing", "cleanup", "unlink"}]
    /\ lock \in Procs \cup {None, Torn}
    /\ seen \in [Procs -> Procs \cup {None}]
    /\ used \in [Procs -> BOOLEAN]
    /\ choice \in [Procs -> {"none", "reuse", "conflict", "start", "clean"}]
    /\ port \in Procs \cup {None} /\ listening \in BOOLEAN
    /\ chrome \in {"off", "starting", "ready"}
    /\ reused \subseteq Procs /\ kills \in 0..MaxKills
    /\ origin \in Initial

\* The application that answers on the port is the one of the lock file, so
\* that the next start finds and reuses it, unless a rival start had read the
\* lock file before this application's lock was in it, or this application is
\* an orphan, the process its lock names being dead: such a rival removes or
\* replaces the lock of the running application, which it never looks at again.
LockLostOnlyToRival ==
    listening /\ lock # port =>
        \E q \in Procs \ {port} :
            choice[q] \in {"start", "clean"} /\ (seen[q] # port \/ pc[port] = "orphan")

\* Whatever the crashes and whoever else migrates: the version in the file never
\* claims what the file lacks, and only a migration that began at version 3 can
\* leave a file that no start opens any more.
FileTellsTruth == VersionTellsSchema /\ WedgedOnlyFromThree(origin.version)
=============================================================================

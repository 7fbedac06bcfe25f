---------------------------- MODULE CheckPipeline ----------------------------
(***************************************************************************)
(* One watch item, the checks that run for it                              *)
(* (run_watch_check_once of src/app/monitor/check_executor.py) and the     *)
(* commands a user gives meanwhile (application/watch_lifecycle.py and     *)
(* watch_editor.py): the continue-and-gate policy of monitor/policies.py.  *)
(*                                                                         *)
(* A check copies the watch, the notification state and the latest         *)
(* snapshot when it starts, awaits the browser, and re-reads the control   *)
(* state before each effect: after the capture, before the notification,   *)
(* before the result is stored.  Between a gate's read and the effect      *)
(* there is another await.  A command reads the watch item, and later      *)
(* writes the whole row back (INSERT ... ON CONFLICT DO UPDATE).           *)
(*                                                                         *)
(* There may be two checks at once: module CheckTasks shows how.           *)
(* The rule is "below target", given as the set of prices below the        *)
(* target; module CheckHistory has the whole notification engine.          *)
(*                                                                         *)
(* An operator Name_Variant is Name with a fault put in: it is used only   *)
(* to see that a property notices the fault.                               *)
(***************************************************************************)
EXTENDS Naturals, FiniteSets

CONSTANTS
    Checks,       \* checks of the watch that may be in flight at once
    Threads,      \* web threads with a command for the watch
    Prices,       \* prices a page may show
    Rules,        \* notification rules: the prices below the target
    None,         \* no price, no copy
    MaxCommands   \* bound on the commands, the crashes and the failures of the
                  \* database

ASSUME CheckPipelineConstants ==
    /\ Rules \subseteq SUBSET Prices
    /\ None \notin Prices \cup {"kept", "lost"}
    /\ Checks \cap {"kept", "lost", None} = {}
    /\ MaxCommands \in Nat

VARIABLES
    item,      \* the row of watch_items, or None
    latest,    \* what the latest snapshot holds: ok or an error, None for no row
    notified,  \* last_notified_price of the stored notification state
    cooling,   \* prices whose channel cooldown has not passed
    pc,        \* where each check is
    copy,      \* what each check read when it started
    capture,   \* what each check saw: a price, blocked, or another error
    command,   \* the row each thread is about to write back, or None
    budget,    \* commands, crashes and failures left
    open,      \* history: the watch was active when the check left its last gate
    lastSent,  \* history: the price sent last, None once another was recorded
               \* as notified
    record,    \* history: whether lastSent is recorded: the check that sent it
               \* and may still record it, kept or lost; None with lastSent
    fresh      \* history: checks that began when lastSent was recorded

database == <<item, latest, notified, cooling>>
check == <<pc, copy, capture>>
sent == <<lastSent, record, fresh>>
vars == <<database, check, command, budget, open, sent>>

Controls == {"active", "paused", "disabled", "blocked"}
Items == [control : Controls, rule : Rules]
Errors == {"blocked", "other"}
\* What the commands pause, disable, and enable or resume leave in the row.
Commands == {"paused", "disabled", "active"}

PCs == {"idle", "capture", "gate capture", "gate notify", "notify",
        "gate persist", "persist"}

TypeOK ==
    /\ item \in Items \cup {None}
    /\ latest \in Errors \cup {"ok", None}
    /\ notified \in Prices \cup {None}
    /\ cooling \subseteq Prices
    /\ pc \in [Checks -> PCs]
    /\ copy \in [Checks -> {None} \cup
                    [item : Items, notified : Prices \cup {None}]]
    /\ capture \in [Checks -> Prices \cup Errors \cup {None}]
    /\ command \in [Threads -> Items \cup {None}]
    /\ budget \in 0..MaxCommands
    /\ open \in [Checks -> BOOLEAN]
    /\ lastSent \in Prices \cup {None}
    /\ record \in Checks \cup {"kept", "lost", None}
    /\ fresh \subseteq Checks

Init ==
    /\ \E r \in Rules : item = [control |-> "active", rule |-> r]
    /\ latest = None
    /\ notified = None
    /\ cooling = {}
    /\ pc = [c \in Checks |-> "idle"]
    /\ copy = [c \in Checks |-> None]
    /\ capture = [c \in Checks |-> None]
    /\ command = [t \in Threads |-> None]
    /\ budget = MaxCommands
    /\ open = [c \in Checks |-> FALSE]
    /\ lastSent = None
    /\ record = None
    /\ fresh = {}

Active == item # None /\ item.control = "active"

AtGate == {"gate capture", "gate notify", "gate persist"}

\* The history goes beside every step: it follows the watch while a check is at
\* a gate, and stands still when the check has left it.
RememberGates ==
    open' = [c \in Checks |-> CASE pc'[c] \in AtGate -> Active'
                               [] pc'[c] \in {"idle", "capture"} -> FALSE
                               [] OTHER -> open[c]]

Goes(c, step) == pc' = [pc EXCEPT ![c] = step]

-----------------------------------------------------------------------------
(* A check                                                                 *)

\* run_watch_check_once: nothing to do for a watch that may not be checked.
Begin(c) ==
    /\ pc[c] = "idle"
    /\ Active
    /\ copy' = [copy EXCEPT ![c] = [item |-> item, notified |-> notified]]
    /\ Goes(c, "capture")
    /\ fresh' = IF record = "kept" THEN fresh \cup {c} ELSE fresh \ {c}
    /\ UNCHANGED <<database, capture, command, budget, lastSent, record>>

\* capture_for_url returns a page with a price or fails.
Capture(c, seen) ==
    /\ pc[c] = "capture"
    /\ capture' = [capture EXCEPT ![c] = seen]
    /\ Goes(c, "gate capture")
    /\ UNCHANGED <<database, copy, command, budget, sent>>

\* The check ends: whatever it had in hand is forgotten.
Discard(c) ==
    /\ Goes(c, "idle")
    /\ copy' = [copy EXCEPT ![c] = None]
    /\ capture' = [capture EXCEPT ![c] = None]

\* The check ends without its transaction.  What it sent is not recorded.
Abandon(c) ==
    /\ Discard(c)
    /\ record' = IF record = c THEN "lost" ELSE record
    /\ UNCHANGED <<lastSent, fresh>>

\* evaluate_notification_rule, on what the check read when it started.
ShouldNotify(c) == /\ capture[c] \in copy[c].item.rule
                   /\ capture[c] # copy[c].notified

\* evaluate_task_lifecycle_disposition, at the three checkpoints below.
GateOpen_Ignored == TRUE
GateOpen_StillBlocked == Active /\ latest # "blocked"
GateOpen == Active

GateAfterCapture(c) ==
    /\ pc[c] = "gate capture"
    /\ IF GateOpen
       THEN /\ Goes(c, IF ShouldNotify(c) THEN "gate notify" ELSE "gate persist")
            /\ UNCHANGED <<copy, capture, sent>>
       ELSE Abandon(c)
    /\ UNCHANGED <<database, command, budget>>

GateBeforeNotification(c) ==
    /\ pc[c] = "gate notify"
    /\ IF GateOpen
       THEN Goes(c, "notify") /\ UNCHANGED <<copy, capture, sent>>
       ELSE Abandon(c)
    /\ UNCHANGED <<database, command, budget>>

GateBeforePersist(c) ==
    /\ pc[c] = "gate persist"
    /\ IF GateOpen
       THEN Goes(c, "persist") /\ UNCHANGED <<copy, capture, sent>>
       ELSE Abandon(c)
    /\ UNCHANGED <<database, command, budget>>

\* The notification is sent (and its cooldown stored), fails, or is throttled.
Sends(c) == /\ pc[c] = "notify"
            /\ capture[c] \notin cooling

Delivers(c, state) ==
    /\ Sends(c)
    /\ lastSent' = capture[c]
    /\ record' = state
    /\ fresh' = {}

DispatchNotification(c) ==
    /\ pc[c] = "notify"
    /\ \/ Delivers(c, c) /\ cooling' = cooling \cup {capture[c]}
       \/ UNCHANGED <<cooling, sent>>
    /\ Goes(c, "gate persist")
    /\ UNCHANGED <<item, latest, notified, copy, capture, command, budget>>

\* A database that is locked or gone makes a gate, the dispatch or the
\* transaction raise, which ends the check.  The dispatch may have delivered by
\* then, with its cooldown stored or not.
Raises(c) ==
    /\ pc[c] \notin {"idle", "capture"}
    /\ budget > 0
    /\ budget' = budget - 1
    /\ \/ Abandon(c) /\ UNCHANGED cooling
       \/ /\ Delivers(c, "lost")
          /\ Discard(c)
          /\ cooling' \in {cooling, cooling \cup {capture[c]}}
    /\ UNCHANGED <<item, latest, notified, command>>

\* What the latest snapshot will say.
Outcome(c) == IF capture[c] \in Errors THEN capture[c] ELSE "ok"

\* The snapshot refers to a watch that is gone: the transaction fails.
RolledBack == item = None

\* The notified price of the notification state the check computed, whether
\* its message was sent or not.
NextNotified_ForgottenByError(c) ==
    CASE ShouldNotify(c) -> capture[c]
      [] capture[c] \in Errors -> None
      [] OTHER -> copy[c].notified
NextNotified(c) == IF ShouldNotify(c) THEN capture[c] ELSE copy[c].notified

\* The history of a committed transaction: the sender's own keeps its record,
\* that of a check which began before the record stores an older state over it.
Recorded(c) ==
    IF ShouldNotify(c) /\ capture[c] # lastSent
    THEN lastSent' = None /\ record' = None /\ fresh' = {}
    ELSE /\ record' = CASE record = c -> "kept"
                         [] record = "kept" /\ c \notin fresh -> "lost"
                         [] OTHER -> record
         /\ UNCHANGED <<lastSent, fresh>>

\* persist_check_outcome, one transaction: the latest snapshot first (a
\* deleted watch fails its foreign key and rolls everything back), the
\* notification state, and, after a 403, the whole row the check read when it
\* started, paused.
Persist(c) ==
    /\ pc[c] = "persist"
    /\ IF RolledBack
       THEN UNCHANGED <<item, latest, notified>> /\ Abandon(c)
       ELSE /\ latest' = Outcome(c)
            /\ notified' = NextNotified(c)
            /\ item' = IF capture[c] = "blocked"
                       THEN [copy[c].item EXCEPT !.control = "blocked"]
                       ELSE item
            /\ Recorded(c)
            /\ Discard(c)
    /\ UNCHANGED <<cooling, command, budget>>

\* The channels' cooldown for a price has passed.
CooldownEnds(p) ==
    /\ p \in cooling
    /\ cooling' = cooling \ {p}
    /\ UNCHANGED <<item, latest, notified, check, command, budget, sent>>

-----------------------------------------------------------------------------
(* Commands                                                                *)

\* The row a lifecycle command or a rule edit makes of the row it read.
Commanded(row) ==
    {[row EXCEPT !.control = k] : k \in Commands}
        \cup {[row EXCEPT !.rule = r] : r \in Rules}

\* The row is read, and with it the whole row that will be written is known...
ReadCommand(t) ==
    /\ command[t] = None
    /\ budget > 0
    /\ item # None
    /\ \E row \in Commanded(item) : command' = [command EXCEPT ![t] = row]
    /\ budget' = budget - 1
    /\ UNCHANGED <<database, check, sent>>

\* ... and is written over what the table holds by then, or is inserted.
SaveCommand(t) ==
    /\ command[t] # None
    /\ item' = command[t]
    /\ command' = [command EXCEPT ![t] = None]
    /\ UNCHANGED <<latest, notified, cooling, check, budget, sent>>

\* The row goes, and everything that refers to it.
Delete ==
    /\ budget > 0
    /\ item # None
    /\ item' = None
    /\ latest' = None
    /\ notified' = None
    /\ lastSent' = None
    /\ record' = None
    /\ fresh' = {}
    /\ budget' = budget - 1
    /\ UNCHANGED <<cooling, check, command>>

\* The process dies and starts again.
Crash ==
    /\ budget > 0
    /\ budget' = budget - 1
    /\ pc' = [c \in Checks |-> "idle"]
    /\ copy' = [c \in Checks |-> None]
    /\ capture' = [c \in Checks |-> None]
    /\ command' = [t \in Threads |-> None]
    /\ record' = IF record \in Checks THEN "lost" ELSE record
    /\ UNCHANGED <<database, lastSent, fresh>>

-----------------------------------------------------------------------------
Gate(c) == \/ GateAfterCapture(c)
           \/ GateBeforeNotification(c)
           \/ GateBeforePersist(c)

CheckStep(c) ==
    \/ Begin(c)
    \/ \E seen \in Prices \cup Errors : Capture(c, seen)
    \/ Gate(c)
    \/ DispatchNotification(c)
    \/ Persist(c)

Step ==
    \/ \E c \in Checks : CheckStep(c) \/ Raises(c)
    \/ \E p \in Prices : CooldownEnds(p)
    \/ \E t \in Threads : ReadCommand(t) \/ SaveCommand(t)
    \/ Delete
    \/ Crash

Next == Step /\ RememberGates

Spec == Init /\ [][Next]_vars

\* The scheduler keeps starting checks, and every await of a check ends.
Fairness == \A c \in Checks : WF_vars(CheckStep(c) /\ RememberGates)

FairSpec == Spec /\ Fairness

-----------------------------------------------------------------------------
(* Properties                                                              *)

\* Check c stores its result, or sends a notification, in this step.
Persists(c) == pc[c] = "persist" /\ Persist(c)
Notifies(c) == \E state \in {c, "lost"} : Delivers(c, state)

\* A result is stored, or a notification sent, only by a check that found the
\* watch active when it left the gate before that effect: a pause, a deletion or
\* another check's 403 that precedes the gate leaves no trace of the check.
GateHonoured == [][\A c \in Checks : Persists(c) \/ Notifies(c) => open[c]]_vars

\* The same price is sent twice in a row only by a check that began before the
\* first message was recorded, or after its record was lost: the first sender
\* crashed, raised, was stopped by a gate or met a deleted watch after sending,
\* or a check older than the record stored its own state over it.  No failed
\* check, rule edit, pause or cooldown in between repeats a message.
ResentOnlyUnrecorded ==
    [][\A c \in Checks :
          Notifies(c) /\ capture[c] = lastSent => c \notin fresh]_vars

\* A watch that stays active keeps getting results once the database works: no
\* command or failure, however it was interleaved with a check, leaves it
\* broken.
KeepsRecording ==
    <>[]Active => []<>(\E c \in Checks : pc[c] = "persist")
=============================================================================

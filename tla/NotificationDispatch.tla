------------------------- MODULE NotificationDispatch -------------------------
(***************************************************************************)
(* A notification on its way to the channels: the dispatcher cached by     *)
(* monitor/notification_dispatch.py, the channels one by one with their    *)
(* cooldowns in notifiers/throttling.py, and the settings the user saves   *)
(* meanwhile.  Each check runs dispatch_notification in a thread of its    *)
(* own; the cache and the throttle's table are shared without a lock.      *)
(*                                                                         *)
(* A message is its dedupe key (watch, events, availability and amount);   *)
(* the time it counts from is that of the check's start.  A dispatcher is  *)
(* the settings it was built from.  The test notification of the settings  *)
(* page has a dispatcher, a cache and a throttle of its own and keys that  *)
(* never recur, and is left out.                                           *)
(*                                                                         *)
(* An operator Name_Variant is Name with a fault put in: it is used only   *)
(* to see that a property notices the fault.                               *)
(***************************************************************************)
EXTENDS Naturals

CONSTANTS
    Checks,      \* checks that may be in flight at once
    Keys,        \* dedupe keys
    Channels,    \* numbers of the channels, in the order they are tried
    Cooldown,    \* each channel's cooldown
    Addresses,   \* values of the other settings (topic, server, webhook)
    None,        \* no dispatcher, no key, never
    MaxTime,     \* bound on the clock
    MaxSaves,    \* bound on the saved settings
    MaxFaults    \* bound on crashes and on reads and writes that fail

Settings == [enabled : SUBSET Channels, address : Addresses]

ASSUME NotificationDispatchConstants ==
    /\ Channels \subseteq Nat
    /\ Cooldown \in [Channels -> Nat]
    /\ None \notin Nat \cup Keys \cup Settings
    /\ MaxTime \in Nat /\ MaxSaves \in Nat /\ MaxFaults \in Nat

VARIABLES
    settings,   \* notification_channel_settings
    throttle,   \* notification_throttle_states: last_sent_at per channel and key
    cache,      \* _dispatcher_cache
    pc,         \* where each check is
    key,        \* the message each check has to send
    attempted,  \* its attempted_at, the check's checked_at
    seen,       \* the settings it read
    using,      \* the dispatcher it got
    left,       \* the channels it has yet to try
    outcome,    \* the channels it has tried, and how that went
    now, saves, faults,
    told,       \* history: the latest attempted_at of a delivery, or None
    alone,      \* history: no other check had the same message meanwhile
    disturbed,  \* history: channel and key whose last record cannot be relied on
    silent      \* history: settings without any channel have been saved

database == <<settings, throttle>>
thread == <<pc, key, attempted, seen, using, left, outcome>>
limits == <<now, saves, faults>>
history == <<told, alone, disturbed, silent>>
vars == <<database, cache, thread, limits, history>>

PCs == {"idle", "check", "look", "unpack", "build", "throttle", "send", "mark",
        "done"}
Outcomes == {"untried", "sent", "throttled", "failed"}
Times == 0..MaxTime
Pairs == Channels \X Keys

TypeOK ==
    /\ settings \in Settings
    /\ throttle \in [Pairs -> Times \cup {None}]
    /\ cache \in Settings \cup {None}
    /\ pc \in [Checks -> PCs]
    /\ key \in [Checks -> Keys \cup {None}]
    /\ attempted \in [Checks -> Times]
    /\ seen \in [Checks -> Settings \cup {None}]
    /\ using \in [Checks -> Settings \cup {None}]
    /\ left \in [Checks -> SUBSET Channels]
    /\ outcome \in [Checks -> [Channels -> Outcomes]]
    /\ now \in Times /\ saves \in 0..MaxSaves /\ faults \in 0..MaxFaults
    /\ told \in [Pairs -> Times \cup {None}]
    /\ alone \in [Checks -> BOOLEAN]
    /\ disturbed \subseteq Pairs
    /\ silent \in BOOLEAN

Untried == [n \in Channels |-> "untried"]

Init ==
    /\ settings \in Settings
    /\ throttle = [p \in Pairs |-> None]
    /\ cache = None
    /\ pc = [c \in Checks |-> "idle"]
    /\ key = [c \in Checks |-> None]
    /\ attempted = [c \in Checks |-> 0]
    /\ seen = [c \in Checks |-> None]
    /\ using = [c \in Checks |-> None]
    /\ left = [c \in Checks |-> {}]
    /\ outcome = [c \in Checks |-> Untried]
    /\ now = 0 /\ saves = 0 /\ faults = 0
    /\ told = [p \in Pairs |-> None]
    /\ alone = [c \in Checks |-> FALSE]
    /\ disturbed = {}
    /\ silent = (settings.enabled = {})

Goes(c, step) == pc' = [pc EXCEPT ![c] = step]

\* What the thread held is gone.
Ends(c) ==
    /\ Goes(c, "idle")
    /\ key' = [key EXCEPT ![c] = None]
    /\ attempted' = [attempted EXCEPT ![c] = 0]
    /\ seen' = [seen EXCEPT ![c] = None]
    /\ using' = [using EXCEPT ![c] = None]
    /\ left' = [left EXCEPT ![c] = {}]
    /\ outcome' = [outcome EXCEPT ![c] = Untried]
    /\ alone' = [alone EXCEPT ![c] = FALSE]

-----------------------------------------------------------------------------
(* dispatch_notification                                                   *)

\* A check starts, at the time its message will carry, and finds k to send.
Begin(c, k) ==
    /\ pc[c] = "idle"
    /\ Goes(c, "check")
    /\ key' = [key EXCEPT ![c] = k]
    /\ attempted' = [attempted EXCEPT ![c] = now]
    /\ alone' = [d \in Checks |->
                    IF d = c THEN k \notin {key[e] : e \in Checks \ {c}}
                    ELSE alone[d] /\ key[d] # k]
    /\ UNCHANGED <<database, cache, seen, using, left, outcome, limits, told,
                   disturbed, silent>>

ReadSettings(c) ==
    /\ pc[c] = "check"
    /\ seen' = [seen EXCEPT ![c] = settings]
    /\ Goes(c, "look")
    /\ UNCHANGED <<database, cache, key, attempted, using, left, outcome, limits,
                   history>>

\* _get_or_build_dispatcher: is there a dispatcher?
Look(c) ==
    /\ pc[c] = "look"
    /\ Goes(c, IF cache # None THEN "unpack" ELSE "build")
    /\ UNCHANGED <<database, cache, key, attempted, seen, using, left, outcome,
                   limits, history>>

\* The dispatcher goes on with its notifiers.
Takes(c, dispatcher) ==
    /\ using' = [using EXCEPT ![c] = dispatcher]
    /\ left' = [left EXCEPT ![c] = dispatcher.enabled]
    /\ Goes(c, IF dispatcher.enabled = {} THEN "done" ELSE "throttle")

Reusable_Any(c) == TRUE
Reusable(c) == cache = seen[c]

\* The cache while a thread builds another dispatcher.
Kept_Cleared == None
Kept == cache

\* The cache is read again, and used if it was built from the same settings.
Unpack(c) ==
    /\ pc[c] = "unpack"
    /\ cache # None
    /\ IF Reusable(c)
       THEN Takes(c, cache) /\ UNCHANGED cache
       ELSE Goes(c, "build") /\ cache' = Kept /\ UNCHANGED <<using, left>>
    /\ UNCHANGED <<database, key, attempted, seen, outcome, limits, history>>

\* Another thread has cleared it in between: a TypeError ends the check.
Dies(c) ==
    /\ pc[c] = "unpack"
    /\ cache = None
    /\ Ends(c)
    /\ UNCHANGED <<database, cache, limits, told, disturbed, silent>>

\* A new dispatcher, or none (a result of None) if no channel is enabled.
Build(c) ==
    /\ pc[c] = "build"
    /\ cache' = IF seen[c].enabled = {} THEN None ELSE seen[c]
    /\ Takes(c, seen[c])
    /\ UNCHANGED <<database, key, attempted, seen, outcome, limits, history>>

-----------------------------------------------------------------------------
(* NotificationDispatcher.dispatch                                         *)

\* What the throttle has a row for.
Message(c, n) == <<n, key[c]>>

\* The channel whose turn it is.
Turn(c, n) == n \in left[c] /\ \A m \in left[c] : n <= m

\* Channel n is through.
Tried(c, n, how) ==
    /\ outcome' = [outcome EXCEPT ![c][n] = how]
    /\ left' = [left EXCEPT ![c] = @ \ {n}]
    /\ Goes(c, IF left[c] = {n} THEN "done" ELSE "throttle")

\* PersistentNotificationThrottle.is_throttled
IsThrottled(c, n) ==
    /\ throttle[Message(c, n)] # None
    /\ attempted[c] < throttle[Message(c, n)] + Cooldown[n]

CheckThrottle(c, n) ==
    /\ pc[c] = "throttle"
    /\ Turn(c, n)
    /\ IF IsThrottled(c, n)
       THEN Tried(c, n, "throttled")
       ELSE Goes(c, "send") /\ UNCHANGED <<left, outcome>>
    /\ UNCHANGED <<database, cache, key, attempted, seen, using, limits, history>>

Later(p, time) == IF told[p] = None \/ told[p] < time THEN time ELSE told[p]

\* notifier.send returns.
Send(c, n) ==
    /\ pc[c] = "send"
    /\ Turn(c, n)
    /\ told' = [told EXCEPT ![Message(c, n)] = Later(Message(c, n), attempted[c])]
    /\ Goes(c, "mark")
    /\ UNCHANGED <<database, cache, key, attempted, seen, using, left, outcome,
                   limits, alone, disturbed, silent>>

\* The channels still to be tried after n failed, n included.
AfterFailure_None(c, n) == {n}
AfterFailure(c, n) == left[c]

\* notifier.send raises.
SendFails(c, n) ==
    /\ pc[c] = "send"
    /\ Turn(c, n)
    /\ outcome' = [outcome EXCEPT ![c][n] = "failed"]
    /\ left' = [left EXCEPT ![c] = AfterFailure(c, n) \ {n}]
    /\ Goes(c, IF AfterFailure(c, n) = {n} THEN "done" ELSE "throttle")
    /\ UNCHANGED <<database, cache, key, attempted, seen, using, limits, history>>

\* The rows of the throttle after a delivery: an upsert.
Stored_FirstOnly(c, n) ==
    IF throttle[Message(c, n)] # None THEN throttle
    ELSE [throttle EXCEPT ![Message(c, n)] = attempted[c]]
Stored(c, n) == [throttle EXCEPT ![Message(c, n)] = attempted[c]]

\* mark_delivered.  A delivery on its own makes the record reliable again; one
\* beside another of the same message may be recorded in the other order.
Mark(c, n) ==
    /\ pc[c] = "mark"
    /\ Turn(c, n)
    /\ throttle' = Stored(c, n)
    /\ Tried(c, n, "sent")
    /\ disturbed' = IF alone[c] THEN disturbed \ {Message(c, n)}
                    ELSE disturbed \cup {Message(c, n)}
    /\ UNCHANGED <<settings, cache, key, attempted, seen, using, limits, told,
                   alone, silent>>

\* The store stays locked: the exception leaves the dispatch and ends the check.
MarkFails(c, n) ==
    /\ pc[c] = "mark"
    /\ Turn(c, n)
    /\ faults < MaxFaults
    /\ faults' = faults + 1
    /\ disturbed' = disturbed \cup {Message(c, n)}
    /\ Ends(c)
    /\ UNCHANGED <<database, cache, now, saves, told, silent>>

\* So does that of a read which fails: of the settings, or of the row that
\* tells the cooldown of the next channel.
ReadFails(c) ==
    /\ pc[c] \in {"check", "throttle"}
    /\ faults < MaxFaults
    /\ faults' = faults + 1
    /\ Ends(c)
    /\ UNCHANGED <<database, cache, now, saves, told, disturbed, silent>>

\* The check has its dispatch result, and ends.
End(c) ==
    /\ pc[c] = "done"
    /\ Ends(c)
    /\ UNCHANGED <<database, cache, limits, told, disturbed, silent>>

-----------------------------------------------------------------------------
(* The user, the clock and crashes                                         *)

\* update_notification_channel_settings: one row, written as a whole.
SaveSettings(s) ==
    /\ saves < MaxSaves
    /\ saves' = saves + 1
    /\ settings' = s
    /\ silent' = (silent \/ s.enabled = {})
    /\ UNCHANGED <<throttle, cache, thread, now, faults, told, alone, disturbed>>

Tick ==
    /\ now < MaxTime
    /\ now' = now + 1
    /\ UNCHANGED <<database, cache, thread, saves, faults, history>>

\* Only the database is left.
Crash ==
    /\ faults < MaxFaults
    /\ faults' = faults + 1
    /\ cache' = None
    /\ pc' = [c \in Checks |-> "idle"]
    /\ key' = [c \in Checks |-> None]
    /\ attempted' = [c \in Checks |-> 0]
    /\ seen' = [c \in Checks |-> None]
    /\ using' = [c \in Checks |-> None]
    /\ left' = [c \in Checks |-> {}]
    /\ outcome' = [c \in Checks |-> Untried]
    /\ alone' = [c \in Checks |-> FALSE]
    /\ disturbed' = disturbed \cup
                    {p \in Pairs : \E c \in Checks : /\ pc[c] = "mark"
                                                     /\ Turn(c, p[1])
                                                     /\ key[c] = p[2]}
    /\ UNCHANGED <<database, now, saves, told, silent>>

Try(c, n) == \/ CheckThrottle(c, n)
             \/ Send(c, n)
             \/ SendFails(c, n)
             \/ Mark(c, n)
             \/ MarkFails(c, n)

Next ==
    \/ \E c \in Checks : \/ \E k \in Keys : Begin(c, k)
                         \/ ReadSettings(c)
                         \/ Look(c)
                         \/ Unpack(c)
                         \/ Dies(c)
                         \/ Build(c)
                         \/ \E n \in Channels : Try(c, n)
                         \/ ReadFails(c)
                         \/ End(c)
    \/ \E s \in Settings \ {settings} : SaveSettings(s)
    \/ Tick
    \/ Crash

Spec == Init /\ [][Next]_vars

-----------------------------------------------------------------------------
(* Properties                                                              *)

\* A channel delivers a message at most once per cooldown, across restarts,
\* checks and changes of the settings, except beside another check with the same
\* message and after a delivery whose record was lost or overwritten by an older.
CooldownKept ==
    [][\A c \in Checks, n \in Channels :
          Send(c, n) /\ alone[c] /\ Message(c, n) \notin disturbed
          => \/ told[Message(c, n)] = None
             \/ attempted[c] >= told[Message(c, n)] + Cooldown[n]]_vars

\* A dispatch accounts for every channel of the settings it read, a failing one
\* stops no other, and what it reports is so: a sent channel delivered
\* this message since the check began, a throttled one did within its cooldown.
OutcomeTrue ==
    \A c \in Checks : pc[c] = "done" =>
        /\ {n \in Channels : outcome[c][n] # "untried"} = seen[c].enabled
        /\ \A n \in seen[c].enabled :
              LET last == told[Message(c, n)] IN
              /\ outcome[c][n] = "sent" => last # None /\ last >= attempted[c]
              /\ outcome[c][n] = "throttled" =>
                    last # None /\ attempted[c] < last + Cooldown[n]

\* A delivery uses the channels and addresses of the settings its own dispatch
\* has read, whatever other checks put into the cache.
SettingsHonoured ==
    [][\A c \in Checks, n \in Channels :
          Send(c, n) => n \in seen[c].enabled /\ using[c] = seen[c]]_vars

\* The race for the cache ends a check only if the user at some time had all
\* channels off.
DiesOnlyAfterSilence == [][\A c \in Checks : Dies(c) => silent]_vars
=============================================================================

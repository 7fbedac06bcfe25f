----------------------------- MODULE CheckHistory -----------------------------
(***************************************************************************)
(* What the stored checks of one watch leave behind, check after check:    *)
(* the latest snapshot with its failures and backoff (monitor/policies.py) *)
(* and the decision to notify (domain/notification_engine.py) with the     *)
(* state that keeps it from repeating itself.                              *)
(*                                                                         *)
(* Checks follow one another here; a check that is discarded, or dies      *)
(* before its transaction, changes nothing.  Modules CheckTasks and        *)
(* CheckPipeline say when checks overlap and what is then stored.          *)
(*                                                                         *)
(* An operator Name_Variant is Name with a fault put in: it is used only   *)
(* to see that a property notices the fault.                               *)
(***************************************************************************)
EXTENDS Integers, FiniteSets

CONSTANTS
    Prices,       \* prices a page may show
    Rules,        \* notification rules a user may choose
    None,         \* an absent price, snapshot or availability
    MaxFailures   \* bound on the failures in a row

Leaf(r) == \/ r = [kind |-> "any_drop"]
           \/ r.kind = "below_target_price" /\ r.target \in Nat \ {0}

ASSUME CheckHistoryConstants ==
    /\ Prices \subseteq Nat
    /\ None \notin Nat \cup {"available", "sold_out", "parse_failed", "target_missing",
                             "network_error", "http_429", "http_403"}
    /\ \A r \in Rules :
          IF r.kind \in {"and", "or"}
          THEN Cardinality(r.children) >= 2 /\ \A l \in r.children : Leaf(l)
          ELSE Leaf(r)
    /\ MaxFailures \in Nat

VARIABLES
    rule,      \* the watch's notification rule
    latest,    \* latest_check_snapshots, or None
    effective, \* the newest available or sold_out among check_events, or None
    state,     \* notification_states
    events,    \* the notification events of the last stored check
    repeat,    \* history: what the last check saw, None since a rule edit
    outage,    \* history: parse failures stored in a row
    soldOut,   \* history: sold out was stored since became_available was sent
    sent,      \* history: the price and availability notified last, or None
    alertSince \* history: parse failures were told since then

history == <<repeat, outage, soldOut, sent, alertSince>>
historyVars == <<rule, latest, effective, state, events, history>>

Definite == {"available", "sold_out"}
Availabilities == Definite \cup {"unknown", "parse_error", "target_missing"}
EventKinds == {"price_drop", "below_target_price", "became_available",
               "parse_failed"}

\* What a capture leads to: a page of the offer, a page without it, a page that
\* cannot be parsed, or an exception of the browser or its blocking detector.
Seen(p, a, e) == [price |-> p, availability |-> a, error |-> e]

Captures ==
    {Seen(p, a, None) : p \in Prices \cup {None}, a \in Definite \cup {"unknown"}}
    \cup {Seen(None, "parse_error", "parse_failed"),
          Seen(None, "target_missing", "target_missing")}
    \cup {Seen(None, "unknown", e) :
              e \in {"network_error", "http_429", "http_403"}}

Errors == {c.error : c \in Captures} \ {None}

Snapshots == [price : Prices \cup {None}, availability : Availabilities,
              error : Errors \cup {None}, failures : 0..MaxFailures,
              backoff : Int, degraded : BOOLEAN]

ASSUME NoneIsNoRecord == None \notin Captures /\ None \notin Snapshots

States == [price : Prices \cup {None}, availability : Availabilities \cup {None},
           parseFailures : 0..MaxFailures, alerted : BOOLEAN]

HistoryTypeOK ==
    /\ rule \in Rules
    /\ latest \in Snapshots \cup {None}
    /\ effective \in Definite \cup {None}
    /\ state \in States
    /\ events \subseteq EventKinds
    /\ repeat \in Captures \cup {None}
    /\ outage \in 0..MaxFailures
    /\ soldOut \in BOOLEAN
    /\ sent \in Captures \cup {None}
    /\ alertSince \in BOOLEAN

\* A new watch: nothing stored, or the price its preview showed.
Initial(p) == [price |-> p, availability |-> "available", error |-> None,
               failures |-> 0, backoff |-> 0, degraded |-> FALSE]

HistoryInit ==
    /\ rule \in Rules
    /\ \/ latest = None /\ effective = None
       \/ \E p \in Prices : latest = Initial(p) /\ effective = "available"
    /\ state = [price |-> None, availability |-> None, parseFailures |-> 0,
                alerted |-> FALSE]
    /\ events = {}
    /\ repeat = None
    /\ outage = 0
    /\ soldOut = FALSE
    /\ sent = None
    /\ alertSince = FALSE

-----------------------------------------------------------------------------
(* decide_error_handling                                                   *)

Capped(minutes, most) == IF minutes <= most THEN minutes ELSE most

\* Minutes until backoff_until, 0 for none; a 403 pauses the watch instead.
BackoffMinutes(error, failures) ==
    LET factor == 2 ^ (failures - 1) IN
    CASE error = "http_429"        -> Capped(15 * factor, 120)
      [] error = "network_error"   -> Capped(5 * factor, 30)
      [] error = "parse_failed"    -> Capped(5 * factor, 30)
      [] error = "target_missing"  -> Capped(30 * factor, 240)
      [] OTHER                     -> 0

-----------------------------------------------------------------------------
(* compare_snapshots, evaluate_notification_rule                           *)

PriceDropped(seen) ==
    /\ latest # None /\ latest.price # None
    /\ seen.price # None
    /\ seen.price < latest.price

\* The availability looked back to: the newest definite one of check_events, or
\* else the one of the latest snapshot, which is then not definite.
BecameAvailable_LatestOnly(seen) ==
    latest # None /\ latest.availability = "sold_out" /\ seen.availability = "available"
BecameAvailable(seen) ==
    effective = "sold_out" /\ seen.availability = "available"

ParseFailed(seen) == seen.availability = "parse_error"

\* _is_same_notification_context
SameContext_Never(seen) == FALSE
SameContext(seen) == /\ state.price = seen.price
                     /\ state.availability = seen.availability

\* _evaluate_leaf_rule
LeafEvents(leaf, seen) ==
    IF leaf.kind = "any_drop"
    THEN {e \in {"price_drop"} : PriceDropped(seen)}
    ELSE {e \in {"below_target_price"} :
             /\ seen.price # None
             /\ seen.price < leaf.target
             /\ ~SameContext(seen)}

\* _evaluate_rule_events
RuleEvents(r, seen) ==
    IF r.kind \in {"and", "or"}
    THEN LET matched == {LeafEvents(l, seen) : l \in r.children}
         IN  IF r.kind = "and" /\ {} \in matched THEN {} ELSE UNION matched
    ELSE LeafEvents(r, seen)

\* _update_parse_failure_state
ParseFailures(seen) == IF ParseFailed(seen) THEN state.parseFailures + 1 ELSE 0

\* Three in a row make the watch degraded, which is told once.
Alert_EveryTime(seen) == ParseFailed(seen) /\ ParseFailures(seen) >= 3
Alert(seen) == /\ ParseFailed(seen)
               /\ ParseFailures(seen) >= 3
               /\ ~state.alerted

\* The events to notify.
MatchedEvents(seen) ==
    RuleEvents(rule, seen)
        \cup {e \in {"became_available"} : BecameAvailable(seen)}
        \cup {e \in {"parse_failed"} : Alert(seen)}

\* The state the check leaves, whether the notification is delivered or not.
NextState_SeenKept(seen) ==
    [price         |-> seen.price,
     availability  |-> seen.availability,
     parseFailures |-> ParseFailures(seen),
     alerted       |-> ParseFailed(seen) /\ (state.alerted \/ Alert(seen))]
NextState(seen) ==
    LET notified == MatchedEvents(seen) # {} IN
    [price         |-> IF notified THEN seen.price ELSE state.price,
     availability  |-> IF notified THEN seen.availability ELSE state.availability,
     parseFailures |-> ParseFailures(seen),
     alerted       |-> ParseFailed(seen) /\ (state.alerted \/ Alert(seen))]

-----------------------------------------------------------------------------
(* build_monitor_check_artifacts, persist_check_outcome                    *)

Previous == IF latest = None THEN 0 ELSE latest.failures

Failures_AfreshOnceDegraded(seen) ==
    IF seen.error = None THEN 0
    ELSE IF state.parseFailures >= 3 THEN 1 ELSE Previous + 1
Failures(seen) == IF seen.error = None THEN 0 ELSE Previous + 1

\* The newest definite availability, once this check is stored.
Effective(seen) == IF seen.availability \in Definite THEN seen.availability
                   ELSE effective

NextSnapshot(seen) ==
    [price        |-> seen.price,
     availability |-> seen.availability,
     error        |-> seen.error,
     failures     |-> Failures(seen),
     backoff      |-> BackoffMinutes(seen.error, Failures(seen)),
     degraded     |-> NextState(seen).parseFailures >= 3]

Remember(seen) ==
    /\ repeat' = seen
    /\ outage' = IF ParseFailed(seen) THEN outage + 1 ELSE 0
    /\ soldOut' = (\/ seen.availability = "sold_out"
                   \/ soldOut /\ "became_available" \notin events')
    /\ sent' = IF events' \cap {"price_drop", "below_target_price",
                                "became_available"} # {}
               THEN seen ELSE sent
    /\ alertSince' = (sent' = sent /\ (alertSince \/ "parse_failed" \in events'))

\* A check stores its result.
StoreCheck(seen) ==
    /\ Failures(seen) <= MaxFailures
    /\ events' = MatchedEvents(seen)
    /\ state' = NextState(seen)
    /\ latest' = NextSnapshot(seen)
    /\ effective' = Effective(seen)
    /\ Remember(seen)
    /\ UNCHANGED rule

\* update_notification_rule: the notification state is kept.
EditRule(r) ==
    /\ rule' = r
    /\ repeat' = None
    /\ events' = {}
    /\ UNCHANGED <<latest, effective, state, outage, soldOut, sent, alertSince>>

HistoryNext ==
    \/ \E seen \in Captures : StoreCheck(seen)
    \/ \E r \in Rules \ {rule} : EditRule(r)

HistorySpec == HistoryInit /\ [][HistoryNext]_historyVars

-----------------------------------------------------------------------------
(* Properties                                                              *)

Checks(seen) == repeat' = seen /\ StoreCheck(seen)

\* While the page does not change, nothing is sent again: a check that sees
\* what the check before it saw notifies nothing, whatever the rule is made of
\* (a page that cannot be parsed is the subject of AlertAtThird).
RepeatSilent ==
    [][\A seen \in Captures :
          Checks(seen) /\ repeat = seen /\ ~ParseFailed(seen) => events' = {}]_historyVars

\* Parse failures are told once per outage, by the third in a row, whatever
\* other failures, rule edits and notifications came before.
AlertAtThird ==
    [][\A seen \in Captures :
          Checks(seen) => ("parse_failed" \in events' <=> outage' = 3)]_historyVars

\* A return to "available" is told once, after it was seen sold out, and is
\* never missed because failed checks lie in between.
AvailableOnce ==
    [][\A seen \in Captures :
          Checks(seen) =>
              ("became_available" \in events'
                  <=> soldOut /\ seen.availability = "available")]_historyVars

\* The backoff does not get shorter while a watch keeps failing the same way.
BackoffNeverShrinks ==
    [][latest # None /\ latest.error # None /\ latest'.error = latest.error
          => latest'.backoff >= latest.backoff]_historyVars

\* A price below the target is not notified twice for the same availability
\* without another notification in between, through failed checks, rises above
\* the target and edits of the rule.  The alert about parse failures breaks
\* this: it overwrites the price and the availability that were notified.
SamePriceOnce ==
    [][\A seen \in Captures :
          Checks(seen) /\ "below_target_price" \in events' /\ sent = seen
          => alertSince]_historyVars
=============================================================================

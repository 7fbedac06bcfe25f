---------------------------- MODULE WatchLifecycle ----------------------------
(***************************************************************************)
(* The decisions about the life of a watch item: what state it is in       *)
(* (domain/watch_runtime_state.py), what a command makes of its row and    *)
(* which events are written down (watch_lifecycle_state_machine.py), and   *)
(* what a page offers to do with it (web/ui_presenters.py).                *)
(*                                                                         *)
(* A row is the control part of a row of watch_items.  A snapshot is what  *)
(* latest_check_snapshots holds of the last check; its backoff_until is    *)
(* absent, ahead, or past.                                                 *)
(*                                                                         *)
(* An operator Name_Variant is Name with a fault put in: it is used only   *)
(* to see that a property notices the fault.                               *)
(***************************************************************************)

CONSTANT None   \* an absent reason, error, snapshot or row

ASSUME NoneIsNoName ==
    None \notin {"manually_disabled", "manually_paused", "http_403",
                 "network_error", "parse_failed"}

Reasons == {"manually_disabled", "manually_paused", "http_403"}
\* A row is disabled for that reason, and only for it.
Rows == {r \in [enabled : BOOLEAN, paused : Reasons \cup {None}] :
            r.enabled <=> r.paused # "manually_disabled"}
Fresh == [enabled |-> TRUE, paused |-> None]

Errors == {"http_403", "network_error", "parse_failed"}
Backoffs == {"none", "ahead", "past"}
Snapshots == [error : Errors \cup {None}, backoff : Backoffs, degraded : BOOLEAN]

ActiveStates == {"active", "backoff_active", "degraded_active", "recover_pending"}
PausedStates == {"manually_paused", "paused_blocked", "paused_other"}
RuntimeStates == ActiveStates \cup PausedStates \cup {"manually_disabled"}

-----------------------------------------------------------------------------
(* derive_watch_runtime_state                                              *)

\* A row that stops the watch says so before any snapshot is looked at.
Stopped(r) == ~r.enabled \/ r.paused # None

StopState(r) ==
    IF ~r.enabled THEN "manually_disabled"
    ELSE CASE r.paused = "http_403"        -> "paused_blocked"
           [] r.paused = "manually_paused" -> "manually_paused"
           [] OTHER                        -> "paused_other"

CheckState(s) ==
    IF s = None THEN "active"
    ELSE IF s.error = "http_403" THEN "recover_pending"
    ELSE IF s.backoff = "ahead" THEN "backoff_active"
    ELSE IF s.degraded THEN "degraded_active"
    ELSE "active"

RuntimeState(r, s) == IF Stopped(r) THEN StopState(r) ELSE CheckState(s)

-----------------------------------------------------------------------------
(* decide_watch_lifecycle                                                  *)

Lifecycle == {"enable", "disable", "pause", "resume", "block"}

Control(e, p) == [enabled |-> e, paused |-> p]

\* The row a command leaves, whatever the row was before.
Decided(command, r) ==
    CASE command \in {"enable", "resume"} -> Control(TRUE, None)
      [] command = "disable"              -> Control(FALSE, "manually_disabled")
      [] command = "pause"                -> Control(TRUE, "manually_paused")
      [] command = "block"                -> Control(TRUE, "http_403")

\* _decide_check_now
Checkable(r, s) ==
    RuntimeState(r, s) \notin PausedStates \cup {"manually_disabled"}

-----------------------------------------------------------------------------
(* build_runtime_lifecycle_events: the change of a check's snapshot        *)

HasBackoff(s) == s # None /\ s.backoff # "none"
IsDegraded(s) == s # None /\ s.degraded

\* Whether the last event about the backoff says that there is one: an event
\* is written when the check's own snapshot differs from the one it replaces.
BackoffSaid_OnlyAhead(said, old, new) ==
    CASE old # None /\ old.backoff = "past" -> said
      [] ~HasBackoff(old) /\ HasBackoff(new) -> TRUE
      [] HasBackoff(old) /\ ~HasBackoff(new) -> FALSE
      [] OTHER                               -> said
BackoffSaid(said, old, new) ==
    CASE ~HasBackoff(old) /\ HasBackoff(new) -> TRUE
      [] HasBackoff(old) /\ ~HasBackoff(new) -> FALSE
      [] OTHER                               -> said

DegradedSaid(said, old, new) ==
    CASE ~IsDegraded(old) /\ IsDegraded(new) -> TRUE
      [] IsDegraded(old) /\ ~IsDegraded(new) -> FALSE
      [] OTHER                               -> said

-----------------------------------------------------------------------------
(* build_watch_action_presentations                                        *)

\* The commands a page of this kind offers for a watch in this state; no page
\* offers to disable one.
Offered_CheckAnyEnabled(kind, state) ==
    {c \in {"check-now"} : kind = "detail" /\ state # "manually_disabled"}
    \cup {"delete"}
    \cup CASE state \in ActiveStates -> {"pause"}
           [] state \in PausedStates -> {"resume"}
           [] OTHER                  -> {"enable"}
Offered(kind, state) ==
    {c \in {"check-now"} : kind = "detail" /\ state \in ActiveStates}
    \cup {"delete"}
    \cup CASE state \in ActiveStates -> {"pause"}
           [] state \in PausedStates -> {"resume"}
           [] OTHER                  -> {"enable"}
=============================================================================

------------------------------ MODULE WorkerPool ------------------------------
(***************************************************************************)
(* What the scheduler promises about its max_workers slots: a slot is held *)
(* by one watch, several may be handed out at once but never more than are *)
(* free, they are given back one at a time, and a restart frees them all.  *)
(* Nothing else touches them; in particular a watch that is removed while  *)
(* it is checked keeps its slot.                                           *)
(*                                                                         *)
(* MonitorScheduler implements this specification: which watch gets a slot *)
(* is its part.  Whether every assignment gives its slot back is that of   *)
(* module CheckTasks.                                                      *)
(***************************************************************************)
EXTENDS Naturals, FiniteSets

CONSTANTS
    Clients,      \* who may hold a slot
    Slots         \* number of slots

VARIABLE holders  \* clients that hold a slot

Init == holders = {}

Take(S) ==
    /\ S # {}
    /\ S \cap holders = {}
    /\ Cardinality(holders) + Cardinality(S) <= Slots
    /\ holders' = holders \cup S

Release(w) ==
    /\ w \in holders
    /\ holders' = holders \ {w}

Reset == holders' = {}

Next ==
    \/ \E S \in SUBSET Clients : Take(S)
    \/ \E w \in Clients : Release(w)
    \/ Reset

Spec == Init /\ [][Next]_holders
=============================================================================

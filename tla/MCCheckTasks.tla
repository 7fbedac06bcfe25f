---------------------------- MODULE MCCheckTasks ----------------------------
(***************************************************************************)
(* Instances of CheckTasks for TLC.                                        *)
(***************************************************************************)
EXTENDS CheckTasks

CONSTANTS w1, w2, r1, r2

OneWatch == {w1}
TwoWatches == {w1, w2}
TwoRequests == {r1, r2}
AllForW1 == [r \in Requests |-> w1]
=============================================================================

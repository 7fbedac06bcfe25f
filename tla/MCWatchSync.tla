---------------------------- MODULE MCWatchSync ----------------------------
(***************************************************************************)
(* Instances of WatchSync for TLC.                                         *)
(***************************************************************************)
EXTENDS WatchSync

CONSTANTS w1, w2, t1, t2

NoWatches == {}
OneWatch == {w1}
TwoWatches == {w1, w2}
OneThread == {t1}
TwoThreads == {t1, t2}
=============================================================================

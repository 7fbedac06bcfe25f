------------------------- MODULE MCMonitorScheduler -------------------------
(***************************************************************************)
(* Instances of MonitorScheduler for TLC.                                  *)
(***************************************************************************)
EXTENDS MonitorScheduler

CONSTANTS w1, w2, t1

TwoWatches == {w1, w2}
OneThread == {t1}
NoThreads == {}
OnlyW1 == {w1}
NoWatches == {}

\* A check succeeds, or stores a backoff longer than the interval.
SuccessOrBackoff == {NoTime, 2}
UnitInterval == {1}
=============================================================================

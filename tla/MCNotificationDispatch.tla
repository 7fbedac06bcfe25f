------------------------ MODULE MCNotificationDispatch ------------------------
(***************************************************************************)
(* Instances of NotificationDispatch for TLC.                              *)
(***************************************************************************)
EXTENDS NotificationDispatch, TLC

CONSTANTS c1, c2, k1, k2, here, there

TwoChecks == {c1, c2}
OneKey == {k1}
TwoChannels == {1, 2}
OneAddress == {here}

\* Like the desktop and ntfy: the second stays silent for longer.
Cooldowns == <<1, 2>>

Symmetry == Permutations(TwoChecks)
=============================================================================

--------------------------- MODULE MCCheckPipeline ---------------------------
(***************************************************************************)
(* Instances of CheckPipeline for TLC.                                     *)
(***************************************************************************)
EXTENDS CheckPipeline

CONSTANTS c1, c2, t1, low

TwoChecks == {c1, c2}
OneThread == {t1}
OnePrice == {low}

\* One price, and a target above it or one below it.
OnePriceRules == {{low}, {}}
=============================================================================

------------------------------ MODULE MCStartup ------------------------------
(***************************************************************************)
(* Instances of Startup for TLC.                                           *)
(***************************************************************************)
EXTENDS Startup

CONSTANTS p0, p1, p2

\* Two starts, and one that was killed before them.
Starts == {p0, p1, p2}
Earlier == {p0}

\* Rows an old version could hold: both kinds of contradiction.
OldRows == {[enabled |-> FALSE, paused |-> "other"],
            [enabled |-> TRUE, paused |-> "manually_disabled"]}

\* No file, one without a version, and files of old versions, the
\* unsupported ones before and after included.
Files ==
    {[version |-> None, objects |-> {}, rows |-> {}],
     [version |-> None, objects |-> Objects, rows |-> {}]}
    \cup {[version |-> n, objects |-> SchemaOf(n), rows |-> OldRows] : n \in {1, 2, 3, 5, Current, Current + 1}}
=============================================================================

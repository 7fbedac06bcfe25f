---------------------------- MODULE MCWatchPages ----------------------------
(***************************************************************************)
(* Instances of WatchPages for TLC.                                        *)
(***************************************************************************)
EXTENDS WatchPages

OneFetch == {"fetch"}

Scenario(p, l, start, c, n) ==
    [page |-> p, looping |-> l, start |-> start, commands |-> c, checks |-> n]

\* No page open and many writes, or a page and few.
AllScenarios ==
    {Scenario("error", FALSE, "checked", 2, 3), Scenario("error", FALSE, "checked", 3, 1),
     Scenario("list", TRUE, "checked", 0, 1), Scenario("list", FALSE, "new", 0, 1),
     Scenario("detail", FALSE, "checked", 0, 1), Scenario("list", TRUE, "checked", 1, 0)}
    \cup {Scenario("list", FALSE, start, 1, 0) : start \in Starts}
    \cup {Scenario("detail", FALSE, start, 1, 0) : start \in Starts}
=============================================================================

--------------------------- MODULE MCCheckHistory ---------------------------
(***************************************************************************)
(* Instances of CheckHistory for TLC.                                      *)
(***************************************************************************)
EXTENDS CheckHistory

AnyDrop == [kind |-> "any_drop"]
Below(t) == [kind |-> "below_target_price", target |-> t]
Both == [kind |-> "and", children |-> {AnyDrop, Below(3)}]
Either == [kind |-> "or", children |-> {AnyDrop, Below(2)}]

ThreePrices == {1, 2, 3}
AllRules == {AnyDrop, Below(2), Below(3), Both, Either}
=============================================================================

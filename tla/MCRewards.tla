------------------------------ MODULE MCRewards -----------------------------
(* Counters, missions, shields and stock on a path of four cells, with the *)
(* catalog published, an older release serving beside this one, and the    *)
(* migration applied that settles what the older one has reserved.         *)
EXTENDS GameSessionProperties, TLC

Cell0 == <<[type |-> "mission", shield |-> "shield", cost |-> 1],
           [type |-> "none"]>>
Cell1 == <<[type |-> "counter_add", counter |-> "bank", quantity |-> 1],
           [type |-> "grant_item", item |-> "shield", quantity |-> 1]>>
Cell2 == <<[type |-> "counter_settle", counter |-> "bank", shield |-> NoItem, cost |-> 0]>>
Land == (0 :> Cell0) @@ (1 :> Cell1) @@ (2 :> Cell2) @@ (3 :> <<>>)
Pass == (0 :> <<>>) @@ (1 :> <<>>) @@ (3 :> <<>>)
        @@ (2 :> <<[type |-> "counter_add", counter |-> "bank", quantity |-> 1],
                   [type |-> "grant_item", item |-> "shield", quantity |-> 1]>>)
(* Version "two" of the board changes a cell, version "three" of that one  *)
(* only its dice.                                                          *)
MCBoard == [b \in {"one", "two", "three"} |->
              [onLand |-> IF b = "one" THEN Land ELSE [Land EXCEPT ![0] = <<>>],
               onPass |-> Pass, dice |-> 1, sides |-> IF b = "three" THEN 3 ELSE 2]]
Empty == [bank |-> 1]
Full == [active |-> {"shield"}, max |-> [shield |-> 2]]
Later == {[active |-> {"shield"}, max |-> [shield |-> 1]],
          [active |-> {}, max |-> [shield |-> 1]]}
=============================================================================

------------------------------ MODULE MCTravel ------------------------------
(* Travel, locks, pauses and multipliers on a path of four cells, and on   *)
(* a board where two cells send the pawn to one another for ever, stopped  *)
(* only by the limits on one command's effects and steps.                  *)
EXTENDS GameSessionProperties, TLC

Travel == [type |-> "choose_destination", allowed |-> {1, 2, 3}, exclude |-> TRUE,
           onArrival |-> TRUE]
Move(direction) ==
  [type |-> "move_steps", steps |-> 2, direction |-> direction, onPass |-> FALSE,
   onArrival |-> TRUE]
Toggle == [type |-> "set_direction", direction |-> "toggle"]
Skip == [type |-> "skip_rolls_or_doubles", left |-> 2, onDoubles |-> "move_sum",
         faces |-> {}]
Faces == [type |-> "dice_faces", left |-> 0, onDoubles |-> "release_only", faces |-> {2}]
LockUntil(release) == [type |-> "movement_lock", release |-> release]

Land == (0 :> <<>>) @@ (1 :> <<Travel>>) @@ (2 :> <<LockUntil(Skip)>>)
        @@ (3 :> <<[type |-> "modify_roll", factor |-> 2, uses |-> 1], Move("with_current")>>)
Endless == (0 :> <<>>) @@ (1 :> <<Travel, Move("with_current")>>)
           @@ (2 :> <<LockUntil(Faces)>>) @@ (3 :> <<Toggle, Move("against_current")>>)
Nothing == [c \in 0 .. 3 |-> <<>>]
MCBoard == [b \in {"one", "endless"} |->
              [onLand |-> IF b = "one" THEN Land ELSE Endless, onPass |-> Nothing,
               dice |-> 1, sides |-> 2]]
NoCounters == [c \in {} |-> 0]
NoCatalog == [active |-> {}, max |-> [i \in {} |-> 0]]
=============================================================================

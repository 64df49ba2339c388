----------------------------- MODULE TravelTurn -----------------------------
(***************************************************************************)
(* The travel reservation of apps/api/src/travel-turn.ts.  A player who    *)
(* lands on a travel cell chooses a destination, and the trip takes the    *)
(* place of the next normal turn.  The choice and the turn can come in     *)
(* either order, so a reservation records both and these operators decide  *)
(* what happens when one of them changes.                                  *)
(*                                                                         *)
(* A reservation r has the fields                                          *)
(*   selected   the chosen cell, or NoCell                                 *)
(*   turn       the revision of the command whose turn it holds, or NoTurn *)
(*   cancelled  whether the operator has cancelled the trip                *)
(***************************************************************************)
EXTENDS Integers

NoCell == -1
NoTurn == 0

HoldsTurn(r) == r.turn # NoTurn
HasChoice(r) == r.selected # NoCell

(* mutant: cancelling a trip gives up the turn it holds *)
decideTravelLosingTurn(r, paused) ==
  CASE r.cancelled                                             -> "cancel"
    [] ~r.cancelled /\ HoldsTurn(r) /\ HasChoice(r) /\ ~paused -> "move"
    [] OTHER                                                   -> "wait"

(* What a reservation is ready for, given whether movement is held back.   *)
decideTravel(r, paused) ==
  CASE r.cancelled /\ ~HoldsTurn(r)                            -> "cancel"
    [] r.cancelled /\ HoldsTurn(r) /\ ~paused                  -> "return_turn"
    [] ~r.cancelled /\ HoldsTurn(r) /\ HasChoice(r) /\ ~paused -> "move"
    [] OTHER                                                   -> "wait"

(* A turn is given to the reservation.  An explicit roll is allowed while  *)
(* the session is paused, so the decision that follows ignores the pause.  *)
reserveTravelTurn(r, turn) == [r EXCEPT !.turn = turn]

(* An immediate move uses the turn already reserved, or the command's own. *)
moveTravelNow(r, turn) ==
  IF HoldsTurn(r) THEN r ELSE reserveTravelTurn(r, turn)
=============================================================================

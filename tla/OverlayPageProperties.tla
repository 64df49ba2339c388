------------------------ MODULE OverlayPageProperties -----------------------
(* What a viewer of the broadcast sees.                                    *)
EXTENDS OverlayPage

(* What is shown never goes back, whether it came by a poll or was pushed: *)
(* not to an older game, revision, presentation or layout.  A page that was*)
(* refused, or opened again, begins anew.                                  *)
ShownAdvances ==
  [][accepted # None /\ accepted' # None =>
       /\ accepted'.layout >= accepted.layout
       /\ accepted'.game = NoGame \/ accepted.game = NoGame
            \/ accepted'.game.id > accepted.game.id
            \/ /\ accepted'.game.id = accepted.game.id
               /\ accepted'.game.revision >= accepted.game.revision
               /\ accepted'.game.epoch >= accepted.game.epoch]_vars

(* A pawn that rests stands where the accepted game has it.                *)
AtRest         == view.run = None /\ view.queue = <<>> /\ ~due
PawnRestsRight == AtRest /\ Shown # NoGame => view.cell = Shown.cell

(* The page's variables have their types, and a pawn that rests stands     *)
(* where the accepted game has it.                                         *)
PageSafe == PageTypeOK /\ PawnRestsRight

(* An animation begins where the pawn stands: the viewer never sees it jump*)
(* to the start of a path.                                                 *)
BeginsAtPawn ==
  [][view'.run # None /\ view'.run # view.run => view'.run.command.from = view.cell]_vars

(* The pawn only moves along a command of the presentation that is shown,  *)
(* or to where the game has it: "a snapshot that arrives late, or the      *)
(* animation of an earlier session, does not overwrite the new state of the*)
(* game" (docs/overlays.md:22).                                            *)
MotionIsCurrent ==
  [][view'.cell # view.cell =>
       \/ view'.cell = rendered'.cell
       \/ /\ view.run # None \/ view'.run # None
          /\ \A V \in {view, view'} : V.run # None => V.run.key \in {rendered.key, rendered'.key}
     ]_<<view, rendered>>

(* A page with the live address shows the newest layout and the pawn where *)
(* the game has it, again and again, however many events and answers are   *)
(* lost.                                                                   *)
UpToDate ==
  /\ accepted # None /\ accepted.layout = layout /\ accepted.game = game
  /\ AtRest /\ (game # NoGame => view.cell = game.cell)
CatchesUp == []<>(address # token \/ UpToDate)

(* A socket of an address that was rotated away is closed, even one that   *)
(* was let in before the rotation and registered after it.                 *)
RetiredIsClosed == [](address # token => <>(address = token \/ socket # "registered"))
=============================================================================

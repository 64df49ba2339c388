------------------------------ MODULE MCOverlay -----------------------------
(* A page on a board of two cells.  Two rare events are explored before    *)
(* the first game; after it one, with games that changed once, or twice if *)
(* it concerns neither sockets nor layouts nor addresses.  Rolls that leave*)
(* the pawn occur among other rolls, without a rare event before them or a *)
(* third change after them.                                                *)
EXTENDS OverlayPageProperties

LinkAtRest == socket = "off" /\ layout = 0 /\ token = 1
Rolls == \A i \in DOMAIN game.commands : game.commands[i].dice
Moves == \A i \in DOMAIN game.commands : game.commands[i].dice => game.commands[i].path # <<>>
Apart == \/ games = 0
         \/ rare <= 1 /\ game.revision <= 1 /\ Moves
         \/ LinkAtRest /\ rare <= 1 /\ game.revision <= 2 /\ Moves
         \/ /\ LinkAtRest /\ rare = 0 /\ Rolls
            /\ game.revision <= 2 \/ (Moves /\ Len(game.commands) = CommandLimit)
=============================================================================

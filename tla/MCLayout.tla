------------------------------ MODULE MCLayout ------------------------------
(* Two operators who publish panels, one who edits the live layout.        *)
EXTENDS LiveLayoutProperties

CONSTANTS ann, bob, carl, board, dice
=============================================================================

------------------------------ MODULE MCConsole -----------------------------
(* A console that creates a game and ends it.                  *)
EXTENDS CommandChannelProperties

CONSTANTS create, end
=============================================================================

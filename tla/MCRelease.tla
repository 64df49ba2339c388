------------------------------ MODULE MCRelease -----------------------------
(* Two slots and a few releases.                                           *)
EXTENDS ReleaseDeployProperties

CONSTANTS blue, green
=============================================================================

------------------------------ MODULE MCCordnGroups ------------------------------
(* Small instances of CordnGroups for TLC. *)
EXTENDS CordnGroups

CONSTANTS a, b, g
=============================================================================

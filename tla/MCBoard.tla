------------------------------- MODULE MCBoard -------------------------------
(***************************************************************************)
(* Instances of Board for TLC: a memory of the old map and a new one.      *)
(***************************************************************************)
EXTENDS Board

CONSTANTS old, new, hanoi, hue
=============================================================================

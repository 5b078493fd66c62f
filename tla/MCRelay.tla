------------------------------- MODULE MCRelay -------------------------------
(***************************************************************************)
(* Instances of Relay for TLC: a new memory with a file, one the map       *)
(* published before the hub, and memories the hub refuses.                 *)
(***************************************************************************)
EXTENDS Relay

CONSTANTS backend, export
=============================================================================

------------------------------- MODULE MCFeed -------------------------------
(***************************************************************************)
(* Instances of Feed for TLC: two publications, which share a cleaned file *)
(* and have one of their own each, or one publication.                     *)
(***************************************************************************)
EXTENDS Feed

CONSTANTS a, b, ma, mb, both, w1, w2, site

SharedMedia == [p \in {a, b} |-> IF p = a THEN {ma, both} ELSE {mb, both}]
OneMedia    == [p \in {a} |-> {ma}]
=============================================================================

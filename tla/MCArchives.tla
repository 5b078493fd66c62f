------------------------------ MODULE MCArchives ------------------------------
(***************************************************************************)
(* Instances of Archives for TLC: one worker as docker-compose.vps.yml     *)
(* starts it, a web page and a post of a social platform.                  *)
(***************************************************************************)
EXTENDS Archives

CONSTANTS page, post, job1, job2, back1, back2, back3, w1, w2

\* Nothing but the copy at archive.org, a page that archive.org has or has not, a wall it has not.
SomeOutcomes ==
  {[content |-> FALSE, ia |-> TRUE, wall |-> FALSE], [content |-> TRUE, ia |-> TRUE, wall |-> FALSE],
   [content |-> TRUE, ia |-> FALSE, wall |-> FALSE], [content |-> TRUE, ia |-> FALSE, wall |-> TRUE]}
=============================================================================

---------------------------- MODULE MCPublishing ----------------------------
(***************************************************************************)
(* Instances of Publishing for TLC: two owners, an editor and an admin of  *)
(* the instance who is no member, two of them at work in a session.        *)
(***************************************************************************)
EXTENDS Publishing, TLC

CONSTANTS ann, ben, cam, root, n, s1

OwnersAndEditor == (ann :> 5) @@ (ben :> 5) @@ (cam :> 3) @@ (root :> 0)

Members == {{"access", ann}, {"access", ann, ben}, {"access", ann, root}}
TeamWork == {{"manage", ann, ben}, {"import", ann}, {"sources", ann}}
Desk == {{"publication", ann, ben}, {"publication", "triage", ann, cam}, {"batch", ann, cam}}
OneMatter == Members \cup TeamWork \cup Desk
\* The members' sessions are the widest, that of a publication and the triage page the longest.
Acts == [u \in OneMatter |-> IF "access" \in u THEN 3 ELSE 5]
=============================================================================

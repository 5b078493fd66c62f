------------------------------- MODULE MCSite -------------------------------
(***************************************************************************)
(* Instances of Site for TLC: a case that is published, withdrawn, and     *)
(* another one after it; one visitor who sends up to two forms.            *)
(***************************************************************************)
EXTENDS Site

CONSTANTS a, b, s1, s2

ThreeBuilds == [g \in 0 .. 2 |-> IF g = 0 THEN {} ELSE IF g = 1 THEN {a} ELSE {b}]

\* Reading while the feed changes; sending two forms and going on; asking for a receipt.
Visits == {{"feed", "home", "map", "case", "evidence"}, {"report", "how"}, {"submit", "receipts", "check"}}
=============================================================================

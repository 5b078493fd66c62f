------------------------------ MODULE MCMapApp ------------------------------
(***************************************************************************)
(* Instances of MapApp for TLC: two cities with a case and a memory each.  *)
(***************************************************************************)
EXTENDS MapApp

CONSTANTS hanoi, hue, seed, m1, m2, mine, k1, k2

Where == [m \in {seed, m1, m2, mine} |-> IF m = m2 THEN hue ELSE hanoi]
Part  == [m \in {seed, m1, m2, mine} |-> IF m = m1 THEN k1 ELSE IF m = m2 THEN k2 ELSE None]
Place == [k \in {k1, k2} |-> IF k = k1 THEN hanoi ELSE hue]

\* Every two or three groups of controls that act on each other.
Visits == {{"compose", "city"}, {"compose", "read"}, {"compose", "search"}, {"search", "city"}, {"list", "search"},
           {"list", "case", "read"}, {"list", "case", "city"}, {"read", "case", "compose"}}
=============================================================================

--------------------------- MODULE MCCaptureQueue ---------------------------
(***************************************************************************)
(* Instances of CaptureQueue for TLC: two links of one platform, or of two *)
(* captures each, one or two worker processes with one or two slots.       *)
(***************************************************************************)
EXTENDS CaptureQueue

CONSTANTS i1, i2, c1, c2, c3, p1, p2, s1, s2, r1, r2

\* Two captures of the first link, one of the second.
ThreeCaptures == [c \in {c1, c2, c3} |-> IF c = c3 THEN i2 ELSE i1]
TwoOfOne      == [c \in {c1, c2} |-> i1]
JustOne       == [c \in {c1} |-> i1]
OneEach       == [c \in {c1, c2} |-> IF c = c1 THEN i1 ELSE i2]

\* Both links are of a platform that limits this server.
SamePlatform == [i \in {i1, i2} |-> "tiktok"]
OnePlatform  == [i \in {i1} |-> "tiktok"]

\* Both slots in one process, or one in each of two.
OneProcess   == [s \in {s1, s2} |-> p1]
TwoProcesses == [s \in {s1, s2} |-> IF s = s1 THEN p1 ELSE p2]
=============================================================================

------------------------------ MODULE MCConsole ------------------------------
(***************************************************************************)
(* Instances of Console for TLC: one session at a time, a few pages long.  *)
(***************************************************************************)
EXTENDS Console

CONSTANTS row, sub, line, p1, p2, l1, l2, n1, n2

RowSubmissionLine == <<row, sub, line>>

\* Signing in and moving between pages that poll, watch or do neither; an invite; windows; then each page and
\* each form by itself.
OneAtATime == {
  {"sign_in", "projects", "inbox", "admin"}, {"sign_in", "invite", "incidents"},
  {"sign_in", "window", "incident", "projects"},
  {"incident_open"}, {"incident_open", "follow"}, {"incident_open", "comment"},
  {"item_open"}, {"item_open", "recapture"}, {"item_open", "copy"},
  {"adding"}, {"picking"}, {"new_open"}, {"saving"}, {"notices"}, {"maps"}, {"tour"}, {"correcting"}}
=============================================================================

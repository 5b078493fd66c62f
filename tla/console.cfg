\* One person at one tab: signing in, pages, windows, an incident and a link left open, material, a new incident.
SPECIFICATION FairSpec
CONSTANTS
  row = row sub = sub line = line p1 = p1 p2 = p2 l1 = l1 l2 = l2 n1 = n1 n2 = n2
  Picked <- RowSubmissionLine
  Submissions = {sub}
  Lines = {line}
  Known = {}
  Projects = {p1, p2}
  Links = {l1, l2}
  Notices = {n1, n2}
  Fields = {"title", "author"}
  Sessions <- OneAtATime
  Steps = 3
  MaxVisits = 3
  MaxRefused = 1
  MaxChanges = 3
  MaxAnswers = 2
  MaxLost = 1
INVARIANTS PollsAreCurrent ShownIsHeld
PROPERTIES RefusedSignsOut IncidentCatchesUp
\* The window closes, the form is left: nothing more is done in those sessions.
CHECK_DEADLOCK FALSE

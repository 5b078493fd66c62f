\* What happens in the end, with a worker killed or a commit whose acknowledgement is lost.
SPECIFICATION FairSpec
CONSTANTS
  i1 = i1 i2 = i2 c1 = c1 c2 = c2 c3 = c3
  p1 = p1 p2 = p2 s1 = s1 s2 = s2 r1 = r1 r2 = r2
  None = None
  GoodVerdicts = {"complete"}
  OpenWeb = {"web", "document"}
  Items = {i1, i2}
  Captures = {c1, c2}
  ItemOf <- OneEach
  Platform <- SamePlatform
  Procs = {p1}
  Slots = {s1, s2}
  ProcOf <- OneProcess
  Requesters = {r1}
  Recapturers = {}
  MaxAttempts = 2
  RateLimitMaxAttempts = 3
  MayOutlive = TRUE
  LostAcks = TRUE
  MaxFaults = 1
INVARIANT VerdictHasEvidence
PROPERTIES QueuedIsDone RestartsRecover

\* Two worker processes side by side, no attempt longer than STUCK_AFTER_MINUTES, saves only.
SPECIFICATION Spec
CONSTANTS
  i1 = i1 i2 = i2 c1 = c1 c2 = c2 c3 = c3
  p1 = p1 p2 = p2 s1 = s1 s2 = s2 r1 = r1 r2 = r2
  None = None
  GoodVerdicts = {"complete"}
  OpenWeb = {"web", "document"}
  Items = {i1, i2}
  Captures = {c1, c2, c3}
  ItemOf <- ThreeCaptures
  Platform <- SamePlatform
  Procs = {p1, p2}
  Slots = {s1, s2}
  ProcOf <- TwoProcesses
  Requesters = {r1, r2}
  Recapturers = {}
  MaxAttempts = 2
  RateLimitMaxAttempts = 3
  MayOutlive = FALSE
  LostAcks = FALSE
  MaxFaults = 1
INVARIANTS StatusTruthful OneInProgress
PROPERTY ImplementsLedger

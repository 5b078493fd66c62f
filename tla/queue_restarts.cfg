\* One worker process with two slots, killed and restarted; both API calls that ask for captures.
SPECIFICATION Spec
CONSTANTS
  i1 = i1 i2 = i2 c1 = c1 c2 = c2 c3 = c3
  p1 = p1 p2 = p2 s1 = s1 s2 = s2 r1 = r1 r2 = r2
  None = None
  GoodVerdicts = {"complete"}
  OpenWeb = {"web", "document"}
  Items = {i1}
  Captures = {c1, c2}
  ItemOf <- TwoOfOne
  Platform <- OnePlatform
  Procs = {p1}
  Slots = {s1, s2}
  ProcOf <- OneProcess
  Requesters = {r1, r2}
  Recapturers = {r1, r2}
  MaxAttempts = 2
  RateLimitMaxAttempts = 3
  MayOutlive = TRUE
  LostAcks = FALSE
  MaxFaults = 2
INVARIANTS TypeOK ExclusiveClaim OnlyFinalAttempt
PROPERTY DoneIsFinal

\* One worker that may die, the Archive API and direct additions in ArchiveBox.
SPECIFICATION FairSpec
CONSTANTS
  page = page post = post job1 = job1 job2 = job2 back1 = back1 back2 = back2 back3 = back3 w1 = w1 w2 = w2
  None = None
  Links = {post}
  Social = {post}
  JobIds = {job1}
  SweepIds = {back1, back2}
  Outcomes <- SomeOutcomes
  Workers = {w1}
  MayStrand = FALSE
  MaxAttempts = 2
  MaxClaims = 2
  MaxCaptures = 2
  MaxFaults = 1
INVARIANTS StatusTruthful RecordedOnce
PROPERTIES Settles DirectlyAddedIsFound
CHECK_DEADLOCK FALSE

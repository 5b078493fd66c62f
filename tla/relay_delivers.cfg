\* The backend and export-to-hub.js forward at the same time, requests time out and arrive late, processes die.
SPECIFICATION FairSpec
CONSTANTS
  backend = backend export = export
  None = None
  Memories = {1, 2}
  WithFile = {1, 2}
  Legacy = {2}
  RefusedText = {}
  RefusedFile = {2}
  Procs = {backend, export}
  MayOutlive = TRUE
  MaxFaults = 2
INVARIANTS NothingLost SentIsThere FailedIsRefused
PROPERTY Delivered ImplementsHandover
\* At rest: every memory is forwarded or refused.
CHECK_DEADLOCK FALSE

\* The migration: the hub is connected, local rows and the feed are both served.
SPECIFICATION FairSpec
CONSTANTS
  old = old new = new hanoi = hanoi hue = hue None = None
  Mems = {old, new}
  Old = {old}
  Cities = {hanoi, hue}
  Home = hanoi
  Source = "both"
  MaxEdits = 2
  MaxFaults = 1
INVARIANTS ReviewedOnly PublicFileIsThere
PROPERTIES EventuallyServed
CHECK_DEADLOCK FALSE

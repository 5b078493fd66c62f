\* One worker building, with builds that fail or die, while publications change.
SPECIFICATION Spec
CONSTANTS
  a = a b = b ma = ma mb = mb both = both
  w1 = w1 w2 = w2 site = site
  Pubs = {a, b}
  Media = {ma, mb, both}
  MediaOf <- SharedMedia
  Builders = {w1}
  Readers = {}
  MaxVersion = 2
  MaxRepublish = 0
  MaxRebuilds = 0
  MaxFailures = 1
  MaxCrashes = 1
  MaxTimeouts = 0
INVARIANTS FeedMatches WithdrawnIsGone IndexComplete
\* At rest: every version is used up and nothing is left to build.
CHECK_DEADLOCK FALSE

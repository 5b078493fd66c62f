\* A site reads the feed while it is rebuilt, and drops what was withdrawn; no build fails.
SPECIFICATION FairSpec
CONSTANTS
  a = a b = b ma = ma mb = mb both = both
  w1 = w1 w2 = w2 site = site
  Pubs = {a}
  Media = {ma}
  MediaOf <- OneMedia
  Builders = {w1}
  Readers = {site}
  MaxVersion = 2
  MaxRepublish = 1
  MaxRebuilds = 1
  MaxFailures = 0
  MaxCrashes = 0
  MaxTimeouts = 1
INVARIANT ReaderFinishes
PROPERTY SitesForget

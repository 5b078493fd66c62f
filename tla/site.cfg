\* One visitor reads the site while the feed changes, or sends two forms; every call to the hub may fail.
SPECIFICATION SiteFairSpec
CONSTANTS
  a = a b = b s1 = s1 s2 = s2 NoSub = NoSub
  Cases = {a, b}
  CasesOf <- ThreeBuilds
  Subs = {s1, s2}
  Limit = 1
  Sessions <- Visits
  MaxGen = 2
  MaxLoads = 1
INVARIANTS ReceiptIsGood
PROPERTIES SiteCatchesUp SendEnds

\* A visitor moves between the map, the list, the sheet, the cases and the search while requests are answered.
SPECIFICATION FairSpec
CONSTANTS
  hanoi = hanoi hue = hue seed = seed m1 = m1 m2 = m2 mine = mine k1 = k1 k2 = k2 None = None
  Cities = {hanoi, hue}
  Home = hanoi
  Seed = {seed}
  Served = {m1, m2}
  Own = {mine}
  CityOf <- Where
  CaseOf <- Part
  Cases = {k1, k2}
  CaseCity <- Place
  Topical = {m1, k1}
  Areas = {{m1}, {mine}}
  Sessions <- Visits
  MaxCalls = 2
  MaxHist = 2
INVARIANTS QueryHasItsPanel PlaceOfTheSheet
PROPERTIES ListAnswers

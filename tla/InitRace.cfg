SPECIFICATION LiveSpec
CONSTANTS
  Processes = {p1, p2}
  Ids = {a, b}
  Kinds <- BothKinds
  MaxMishaps = 2
  Absent = Absent
  Torn = Torn
INVARIANTS
  TypeOK
  RowMeansMarker
  MarkerWhole
PROPERTIES
  MarkerForGood
  Registration

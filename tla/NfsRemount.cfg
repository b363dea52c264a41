SPECIFICATION Spec
CONSTANTS
  NumObjects = 1
  Uris = {1}
  Bytes <- MCBytes
  UriOf <- MCOwnUri
  Expected <- MCExpected
  Manifests = {1}
  Workers = {w1}
  Missing = Missing
  MaxMishaps = 2
  MaxChanges = 0
  Roots = {home, clone, foreign}
  Marked = {home, clone}
  Preexisting <- MCBytes
  Absent = Absent
  Torn = Torn
INVARIANTS
  VerifiedExact
PROPERTIES
  PublishedWhereBound

SPECIFICATION Spec
CONSTANTS
  NumObjects = 1
  Uris = {1}
  Bytes <- MCBytes
  UriOf <- MCOwnUri
  Expected <- MCExpected
  Manifests = {1}
  Workers = {w1, w2}
  Missing = Missing
  MaxMishaps = 2
  MaxChanges = 1
  Roots = {home}
  Marked = {home}
  Preexisting <- MCBytes
  Absent = Absent
  Torn = Torn
INVARIANTS
  VerifiedExact
  AttemptBeforeTouch
  PassMeansVerified
PROPERTIES
  SchemaRespected
  NeverOverwritten

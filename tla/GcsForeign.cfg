SPECIFICATION Spec
CONSTANTS
  NumObjects = 2
  Uris = {1}
  Bytes <- MCBytes
  UriOf <- MCOneUri
  Expected <- MCExpected
  Manifests = {}
  Workers = {w1}
  Missing = Missing
  MaxMishaps = 1
  MaxChanges = 1
  MaxForeign = 2
  Preexisting <- MCBytes
  Absent = Absent
INVARIANTS
  TypeOK
  VerifiedWasHeld
  VerifiedHolds
  AboutToMarkIsExact

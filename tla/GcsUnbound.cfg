SPECIFICATION Spec
CONSTANTS
  NumObjects = 1
  Uris = {1}
  Bytes <- MCBytes
  UriOf <- MCOwnUri
  Expected <- MCExpected
  Manifests = {1}
  Workers = {w1}
  Missing = Missing
  MaxMishaps = 0
  MaxChanges = 0
  MaxForeign = 1
  Preexisting = {}
  Absent = Absent
PROPERTIES
  MarksUnderIdentity

SPECIFICATION Spec
CONSTANTS
  NumObjects = 1
  Uris = {1}
  Bytes <- MCBytes
  UriOf <- MCOwnUri
  Expected <- MCExpected
  Manifests = {1}
  Workers = {w1, w2}
  Missing = Missing
  MaxMishaps = 0
  MaxChanges = 0
  Roots = {home}
  Marked = {home}
  Preexisting = {}
  Absent = Absent
  Torn = Torn
PROPERTIES
  CreatedWholeOnce

SPECIFICATION LiveSpec
CONSTANTS
  NumObjects = 1
  Uris = {1}
  Bytes <- MCBytes
  UriOf <- MCOwnUri
  Expected <- MCExpected
  Manifests = {1}
  Workers = {w1, w2}
  Missing = Missing
  MaxMishaps = 2
  MaxChanges = 0
  MaxForeign = 0
  Preexisting <- MCBytes
  Absent = Absent
PROPERTIES
  GcsContractSpec
  GcsConvergence

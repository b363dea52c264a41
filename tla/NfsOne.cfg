SPECIFICATION LiveSpec
CONSTANTS
  NumObjects = 2
  Uris = {1}
  Bytes <- MCBytes
  UriOf <- MCUriOf
  Expected <- MCExpected
  Manifests = {1, 2}
  Workers = {w1}
  Missing = Missing
  MaxMishaps = 4
  MaxChanges = 1
  Roots = {home}
  Marked = {home}
  Preexisting <- MCBytes
  Absent = Absent
  Torn = Torn
INVARIANTS
  TypeOK
  NoStrandedPartial
PROPERTIES
  CreatedWholeOnce
  ContractSpec
  Convergence

SPECIFICATION Spec
CONSTANTS
  Occurrences = {o1, o2}
  Artifacts = {clip, cam, report}
  Recordings = {r1, r2}
  RawMedia = {clip, cam}
  Slots <- MCSlots
  SourceOf <- MCSourceOf
  Releases <- MCReleases
  Workloads <- MCWorkloads
  MaxStatements = 2
  None = None
  o1 = o1
  o2 = o2
  clip = clip
  report = report
  r1 = r1
  s1 = s1
  s2 = s2
  cam = cam
  r2 = r2
  s3 = s3
  Targets = {t1}
  t1 = t1
  x = x
  y = y
INVARIANTS
  LedgerTypeOK
  EventsAreTrue
  CapturesAreAsserted
  CompletedWorkHolds
  UpgradeCriterion
PROPERTIES
  FactsAreKept
  UpgradesAtOnce
  ListingSpec
SYMMETRY MCSymmetry

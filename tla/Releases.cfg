\* Two packagings, one edit and one audit of a release directory.
CONSTANTS
  v1 = v1  c1 = c1  c2 = c2  d1 = d1  d2 = d2  t1 = t1  t2 = t2
  key1 = key1  x1 = x1  x2 = x2
  Options <- MCOptions
  NoKey = NoKey
  InPlace = InPlace
  NotPrebuilt = NotPrebuilt
  MaxPackages = 2
  MaxEdits = 1
  Audits <- MCAudits
  Blanks <- MCBlanks
  Host = t1
  AnyField = AnyField
  DiffBaselines <- MCDiffBaselines
  MaxAudits = 1
SPECIFICATION ReleaseSpec
ACTION_CONSTRAINT Plainly
INVARIANTS AcceptedReleaseIsOnePackage QuietReleaseVerifies ZeroExitIsAccepted
  DriftIsAccepted
CHECK_DEADLOCK FALSE

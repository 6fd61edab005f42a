SPECIFICATION Spec
CONSTANTS
  b1 = b1
  b2 = b2
  f1 = f1
  f2 = f2
  None = None
  Builds <- TwoBuilds
  Inputs <- TwoInputs
  Names = {1, 2, 3, 4}
  Prepared = {1, 2}
  MaxEntries = 4
  MaxFiles = 2
  MaxFileBytes = 1
  MaxTotalBytes = 1
  Disturbances = 2
SYMMETRY Symmetric
INVARIANTS
  ArtifactIsOwn
  LeftoversNeverBlock
  MarkedMeansWhole
  CopyWithinLimits
CHECK_DEADLOCK FALSE

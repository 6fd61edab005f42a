SPECIFICATION Spec
CONSTANTS
  c1 = c1
  c2 = c2
  c3 = c3
  p1 = p1
  Creators <- ThreeCreators
  Pids <- OnePid
  Attempts = 2
  UserActions = 1
SYMMETRY Symmetric
INVARIANTS
  NoDebris
  VerifiedMeansComplete
PROPERTIES
  DestinationKept
CHECK_DEADLOCK FALSE

SPECIFICATION FairSpec
CONSTANTS
  Probes = 2
  ForkKinds <- AllKinds
  Checks <- RequiredThenOptional
INVARIANTS
  NoGroupLeft
  ReportedOnce
  SetupKeepsLocks
PROPERTIES
  MigrationFirst
  Finishes
CHECK_DEADLOCK FALSE

SPECIFICATION Spec
CONSTANTS
  Creds = {k1, k2}
  Refreshers = {boot}
  Boot = boot
  Fetchers = {f1}
  None = None
SYMMETRY Symmetry
INVARIANTS
  LiveSessionIsKept

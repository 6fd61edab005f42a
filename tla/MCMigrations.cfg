SPECIFICATION Spec
CONSTANTS
  Adders = {a1, a2}
  Servers = {s1, s2}
  ValidNames = {alpha, beta}
  InvalidNames = {Bad}
  MaxVersion = 3
  Edits = 1
  Drift = 2
  Inputs = {mine, other}
  Product = mine
INVARIANTS
  ServesItsHistory
  ServersAgree
  OnlyReleasedIsBuilt
SYMMETRY Symmetric
CHECK_DEADLOCK FALSE

SPECIFICATION Spec
CONSTANTS
  Commands = {c1, c2, c3, c4}
  Entries = {e1, e2}
  Accounts = {a1, a2}
  PoolSize = 2
  Nobody = Nobody
  NoEntry = NoEntry
  NoAccount = NoAccount
SYMMETRY Symmetry
INVARIANTS
  ProgressExact
  NobodyStuck
PROPERTIES
  OnlyItsAccountChanges
  ImplementsShelf

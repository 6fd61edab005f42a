SPECIFICATION Spec
CONSTANTS
  Requests = {e1, r1, r2, r3}
  Earlier = {e1}
  Routes = {"product", "logout", "start", "callback", "exchange"}
  Clients = {c1, c2}
  Accounts = {a1, a2}
  None = None
SYMMETRY Symmetry
INVARIANTS
  SingleUse
  SignInReturnsToStarter
  RecordOutlivesLease
PROPERTIES
  NoAccessAfterLogout

SPECIFICATION Spec
CONSTANTS
  Creds = {k1, k2}
  Refreshers = {boot, r1}
  Boot = boot
  Fetchers = {f1}
  None = None
SYMMETRY Symmetry
INVARIANTS
  KeptUnlessOvertaken
  LoadingIsServed
PROPERTIES
  AnswersBelongToSession
  SignOutRevokes

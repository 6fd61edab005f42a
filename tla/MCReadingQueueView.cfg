SPECIFICATION FairSpec
CONSTANTS
  NoCursor = NoCursor
  NoFetch = NoFetch
  NoPage = NoPage
  o1 = o1
  o2 = o2
  Account = Account
  Old <- TwoOld
  New = {n1}
  Variants <- TwoVariants
  QueryRetries = 1
  MaxVersion = 1
  MaxRefreshes = 2
  MaxSwitches = 1
  MaxAbsences = 1
INVARIANTS
  NoticeIsEarned
  ShownInOrder
  NothingSkipped
  BlockedWhileRefreshing
PROPERTIES
  SavedIsSettled
CHECK_DEADLOCK FALSE

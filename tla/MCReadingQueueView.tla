------------------------- MODULE MCReadingQueueView -------------------------
(* A queue of two old entries and those created meanwhile, pages of one    *)
(* entry, and two variants: every entry newest first, so that a new one    *)
(* commits behind the cursors already passed, and the completed ones.      *)
EXTENDS ReadingQueueView

CONSTANTS o1, o2, Account

TwoOld == <<o1, o2>>

TwoVariants ==
  {[status |-> "all", sort |-> "newest", limit |-> 1, scope |-> Account],
   [status |-> "completed", sort |-> "oldest", limit |-> 1, scope |-> Account]}
=============================================================================

------------------------- MODULE ReadingQueueScreen -------------------------
(***************************************************************************)
(* The Reading Queue screen: its state, with that of the server it reads,  *)
(* and what its user may rely on.  ReadingQueueView has the steps.         *)
(***************************************************************************)
EXTENDS ReadingQueuePaging

CONSTANTS
  NoFetch,
  Variants      \* the contexts the user switches between

VARIABLES
  order,      \* the entries whose insert began, in the order of their keys
  row,        \* what is committed of each entry
  version,    \* how many changes are committed
  answers,    \* the changes this screen asked for and has no answer to yet
  saved,      \* the newest change that was acknowledged
  variant,    \* the variant on the screen
  data,       \* the pages of each variant, none before the first fetch
  failed,     \* isError of each variant
  fetch,      \* the fetch of each variant, in flight or paused
  late,       \* reads that were answered when their fetch was cancelled
  absent,     \* which of the network and the focus is away
  absences,   \* how often one of them went away
  returned,   \* those that are back, which the queries have not heard of yet
  revision,   \* saveRevision
  needs,      \* savedNeedsRefresh
  generation, \* refreshGeneration
  refreshing, \* refreshing
  switches,   \* how often the variant changed
  firstRead   \* history: the newest first page that arrived for its fetch

-----------------------------------------------------------------------------
(* The notice that a save may be missing from the list goes away only when *)
(* a first page that was read after every acknowledged save has arrived    *)
(* for a fetch that was not cancelled (use-reading-queue.ts 40-48).        *)
NoticeIsEarned == ~needs => firstRead >= saved

(* A list shows no entry twice and none out of its order, whatever         *)
(* commits between the reads of its pages, a late insert among them.       *)
ShownInOrder ==
  \A v \in Variants : \A i, j \in DOMAIN data[v] :
    \A k \in DOMAIN data[v][i].items, l \in DOMAIN data[v][j].items :
      i < j \/ (i = j /\ k < l)
        => Precedes(v.sort, data[v][i].items[k], data[v][j].items[l])

(* An entry that the filter selected at the read of every page of a list   *)
(* is in the list, unless it lies beyond the last page that was loaded.    *)
(* (One that commits late, behind a cursor already passed, was not there   *)
(* when the first page was read.)                                          *)
NothingSkipped ==
  \A v \in Variants :
    data[v] # <<>> =>
      LET last == data[v][Len(data[v])]
          throughout == {p \in DOMAIN order : \A i \in DOMAIN data[v] : p \in data[v][i].had}
      IN  \A p \in throughout :
            \/ \E i \in DOMAIN data[v] : \E k \in DOMAIN data[v][i].items :
                 data[v][i].items[k] = p
            \/ last.next # NoCursor /\ Precedes(v.sort, last.next.position, p)

(* `refreshing' is set for exactly as long as the newest refresh awaits    *)
(* its read, a pause between two attempts included: neither an older       *)
(* refresh that it overtook nor a change of the filter lifts it early or   *)
(* leaves it behind (use-reading-queue.ts 86-91).  A refresh asked for     *)
(* without a network awaits nothing: refetchQueries resolves at once, and  *)
(* what the fetch reads when the network is back, nobody waits for.        *)
BlockedWhileRefreshing ==
  refreshing <=> /\ generation > 0
                 /\ fetch[variant] # NoFetch /\ fetch[variant].waiter = generation

(* isError: a fetch without pages to show is pending again.                *)
IsError(v) == failed[v] /\ (data[v] # <<>> \/ fetch[v] = NoFetch)

(* The read of page one that a save asks for ends, also one that was      *)
(* paused for want of a network, once the network is back: the notice goes *)
(* away, or the error appears that kept the list from being read again,    *)
(* unless the network or the focus goes away (again), or the user shows a  *)
(* list whose "Load more" was left waiting.  A change of the filter starts *)
(* the read anew, so the user must let it be in the end.  (The error does  *)
(* not stay: "Load more" clears it and the notice with it, although the    *)
(* first page was not read again.)                                         *)
SavedIsSettled ==
  needs /\ fetch[variant] # NoFetch /\ fetch[variant].kind = "all"
    ~> \/ ~needs \/ IsError(variant) \/ absent # {}
       \/ fetch[variant] # NoFetch /\ fetch[variant].kind = "next"
=============================================================================

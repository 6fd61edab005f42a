-------------------------- MODULE ReadingQueueView --------------------------
(***************************************************************************)
(* The Reading Queue screen of the product template (use-reading-queue.ts) *)
(* over the pages of ReadingQueuePaging, while entries are created and     *)
(* change state.                                                           *)
(*                                                                         *)
(* The view keeps a list of pages for each variant (a status filter and a  *)
(* sort), grows it with "Load more", starts over from page one on a        *)
(* refresh, and remembers that a save was acknowledged until a first page  *)
(* read after it has arrived.  The query cache (TanStack Query) is         *)
(* external: a fetch of a variant, one at a time, reads the pages one      *)
(* after the other and stores them all at its end; a fetch that is         *)
(* cancelled stores nothing.  Without a network a fetch is paused before   *)
(* its first attempt, without the network or the focus before a further    *)
(* one; it goes on when both are there.                                    *)
(*                                                                         *)
(* An action is what one event runs before the event loop takes the next:  *)
(* the awaits of refresh before its refetch wait for promises that are     *)
(* settled already.                                                        *)
(***************************************************************************)
EXTENDS ReadingQueueScreen, FiniteSets, SequencesExt

CONSTANTS
  NoPage,
  Old,          \* the entries of the account when the screen opens, in order
  New,          \* the entries created while it is open
  QueryRetries, \* how often a fetch repeats a read that failed in transport
  MaxVersion,   \* bound on the changes committed
  MaxRefreshes, \* bound on the refreshes
  MaxSwitches,  \* bound on the changes of variant
  MaxAbsences   \* bound on the departures of the network and the focus

Entries == {Old[i] : i \in DOMAIN Old} \cup New

(* A cursor the server signed; a page that was read, with the version it   *)
(* was read at and the positions the filter selected then; a fetch.        *)
Cursors == [context : Variants, position : Nat]

Pages == [items : Seq(Nat), next : Cursors \cup {NoCursor}, at : Nat, had : SUBSET Nat]

Fetches == [kind : {"all", "next"}, base : Seq(Pages), want : Nat, got : Seq(Pages),
            revision : Nat, failures : 0 .. QueryRetries,
            answer : Pages \cup {NoPage}, waiter : Nat,
            pause : {"none", "start", "retry"}]

(* What the runtime tells the query cache of: onlineManager, focusManager. *)
Signals == {"network", "focus"}

ASSUME ViewAssumption ==
  /\ NoCursor \notin Cursors /\ NoPage \notin Pages /\ NoFetch \notin Fetches
  /\ Old \in Seq(Entries)
  /\ \A v \in Variants : v.limit \in 1 .. MaxPageSize
  /\ {QueryRetries, MaxVersion, MaxRefreshes, MaxSwitches, MaxAbsences} \subseteq Nat

server == <<order, row, version, answers>>
view == <<variant, data, failed, fetch, late, revision, needs, generation,
          refreshing, switches>>
signals == <<absent, absences, returned>>
vars == <<server, saved, view, signals, firstRead>>

(* Types; no more saves are acknowledged or read than changes committed.   *)
TypeOK ==
  /\ order \in Seq(Entries)
  /\ row \in [Entries -> {"absent", "queued", "completed"}]
  /\ version \in 0 .. MaxVersion /\ answers \subseteq 1 .. version
  /\ saved \in 0 .. version /\ firstRead \in 0 .. version
  /\ variant \in Variants
  /\ data \in [Variants -> Seq(Pages)] /\ failed \in [Variants -> BOOLEAN]
  /\ fetch \in [Variants -> Fetches \cup {NoFetch}]
  /\ late \subseteq [first : BOOLEAN, revision : Nat]
  /\ generation \in 0 .. MaxRefreshes /\ revision \in 0 .. generation
  /\ needs \in BOOLEAN /\ refreshing \in BOOLEAN /\ switches \in 0 .. MaxSwitches
  /\ absent \subseteq Signals /\ returned \subseteq Signals /\ absences \in 0 .. MaxAbsences

Newest(a, b) == IF a >= b THEN a ELSE b

-----------------------------------------------------------------------------
(* Fetches *)

(* A fetch of `want' pages from page one (a first load, a refetch) or, for *)
(* kind "next", of the page after the last one of base.  A page read       *)
(* starts with it, so it notes the save revision it starts at.  `waiter'   *)
(* is the generation of the refresh that awaits it, 0 for none: nobody     *)
(* awaits a fetch that is paused from the start.                           *)
Fetch(kind, pages, waiter, rev) ==
  [kind |-> kind, base |-> pages, want |-> Newest(Len(pages), 1), got |-> <<>>,
   revision |-> rev, failures |-> 0, answer |-> NoPage,
   waiter |-> IF "network" \in absent THEN 0 ELSE waiter,
   pause |-> IF "network" \in absent THEN "start" ELSE "none"]

(* A fetch that is at work: fetchStatus `fetching'. *)
Runs(f) == f # NoFetch /\ f.pause = "none"

(* A paused fetch goes on: its read begins. *)
GoesOn(f) == [f EXCEPT !.pause = "none", !.revision = revision]

(* A read is repeated, as soon as nothing is away. *)
Repeats(f) ==
  [f EXCEPT !.failures = @ + 1, !.answer = NoPage, !.revision = revision,
            !.pause = IF absent = {} THEN "none" ELSE "retry"]

Param(f) ==
  IF f.kind = "next" THEN Last(f.base).next
  ELSE IF f.got = <<>> THEN NoCursor
  ELSE Last(f.got).next

ReadsFirst(f) == Param(f) = NoCursor

(* Cancelling a fetch aborts its read; an answer that has arrived already  *)
(* still runs the rest of queryFn, with the signal aborted.                *)
Cancelled(f) ==
  IF f = NoFetch \/ f.answer = NoPage
  THEN {}
  ELSE {[first |-> ReadsFirst(f), revision |-> f.revision]}

(* Mutant: whoever awaited a fetch ends the refreshing.                    *)
FinishesAny(f, gen) == f # NoFetch /\ f.waiter > 0

(* The end of a fetch ends the refreshing when the newest refresh awaits   *)
(* it (the `finally' of refresh).                                          *)
Finishes(f, gen) == f # NoFetch /\ f.waiter = gen

(* Mutant: a read that was aborted counts too. *)
AcknowledgesAborted(first, aborted, rev) == first /\ rev = revision

(* Mutant: the page parameter is tested the wrong way round. *)
AcknowledgesLater(first, aborted, rev) == ~first /\ ~aborted /\ rev = revision

(* A read acknowledges the saves when it is of the first page, was not     *)
(* aborted, and no save was acknowledged since it started.                 *)
Acknowledges(first, aborted, rev) == first /\ ~aborted /\ rev = revision

-----------------------------------------------------------------------------
(* The server and its other users *)

(* The insert of a new entry begins: created_at is fixed. *)
BeginCreate(e) ==
  /\ e \in New \ {order[i] : i \in DOMAIN order}
  /\ order' = Append(order, e)
  /\ UNCHANGED <<row, version, answers, saved, view, signals, firstRead>>

Commit(e, state) ==
  /\ version < MaxVersion
  /\ row' = [row EXCEPT ![e] = state]
  /\ version' = version + 1
  /\ answers' = answers \cup {version'}
  /\ UNCHANGED <<order, saved, view, signals, firstRead>>

CommitCreate(e) ==
  /\ e \in {order[i] : i \in DOMAIN order}
  /\ row[e] = "absent"
  /\ Commit(e, "queued")

(* A change of state, asked for here or, when its answer never comes, on   *)
(* another device.                                                         *)
ChangeState(e) ==
  /\ row[e] # "absent"
  /\ Commit(e, IF row[e] = "queued" THEN "completed" ELSE "queued")

-----------------------------------------------------------------------------
(* The view *)

Init ==
  /\ order = Old
  /\ row = [e \in Entries |-> IF e \in New THEN "absent" ELSE "queued"]
  /\ version = 0 /\ answers = {} /\ saved = 0
  /\ variant \in Variants
  /\ data = [v \in Variants |-> <<>>]
  /\ failed = [v \in Variants |-> FALSE]
  /\ absent \in SUBSET Signals /\ absences = Cardinality(absent)
  /\ absences <= MaxAbsences /\ returned = {}
  /\ fetch = [v \in Variants |-> IF v = variant THEN Fetch("all", <<>>, 0, 0) ELSE NoFetch]
  /\ late = {}
  /\ revision = 0 /\ needs = FALSE
  /\ generation = 0 /\ refreshing = FALSE
  /\ switches = 0 /\ firstRead = 0

(* refresh: a new generation; every variant after a save, else the one on  *)
(* the screen, is cancelled and cut to its first page, and the one on the  *)
(* screen is read again from page one.  When that fetch is paused, refresh *)
(* is over.                                                                *)
Refresh(afterSave) ==
  LET gen == generation + 1
      touched == IF afterSave THEN Variants ELSE {variant}
      rev == IF afterSave THEN revision + 1 ELSE revision
  IN  /\ generation < MaxRefreshes
      /\ generation' = gen
      /\ revision' = rev
      /\ needs' = (needs \/ afterSave)
      /\ late' = late \cup UNION {Cancelled(fetch[v]) : v \in touched}
      /\ data' = [v \in Variants |->
                    IF v \in touched /\ data[v] # <<>> THEN <<Head(data[v])>> ELSE data[v]]
      /\ failed' = [v \in Variants |-> failed[v] /\ ~(v \in touched /\ data[v] # <<>>)]
      /\ fetch' = [v \in Variants |->
                     IF v = variant THEN Fetch("all", data'[v], gen, rev)
                     ELSE IF v \in touched THEN NoFetch ELSE fetch[v]]
      /\ refreshing' = ("network" \notin absent /\ ~Finishes(fetch[variant], gen))
      /\ UNCHANGED <<variant, switches, signals>>

(* "Refresh from first page" waits for a refresh or for a refetch that is  *)
(* not paused; "Retry queue", after an error, does not.                    *)
PressRefresh ==
  /\ \/ IsError(variant)
     \/ ~refreshing /\ (Runs(fetch[variant]) => fetch[variant].kind = "next")
  /\ Refresh(FALSE)
  /\ UNCHANGED <<server, saved, firstRead>>

(* A create or a change is answered: onSuccess of its mutation. *)
SaveAnswered(n) ==
  /\ n \in answers
  /\ answers' = answers \ {n}
  /\ saved' = Newest(saved, n)
  /\ Refresh(TRUE)
  /\ UNCHANGED <<order, row, version, firstRead>>

(* A fetch in flight or paused is left as it is. *)
LoadMore ==
  /\ ~refreshing
  /\ fetch[variant] = NoFetch
  /\ data[variant] # <<>> /\ Last(data[variant]).next # NoCursor
  /\ fetch' = [fetch EXCEPT ![variant] = Fetch("next", data[variant], 0, revision)]
  /\ UNCHANGED <<server, saved, variant, data, failed, late, revision, needs,
                 generation, refreshing, switches, signals, firstRead>>

(* The route names another variant.  The fetch of the one left is          *)
(* cancelled; one that has not begun for want of a network is cancelled or *)
(* left waiting, as the library has it.  The pages of the one shown are    *)
(* read again, unless its fetch was left waiting.                          *)
Switch(v) ==
  /\ v # variant
  /\ switches < MaxSwitches
  /\ switches' = switches + 1
  /\ variant' = v
  /\ late' = late \cup Cancelled(fetch[variant])
  /\ refreshing' = (refreshing /\ ~Finishes(fetch[variant], generation))
  /\ \E left \in {fetch[variant], NoFetch} :
       /\ left # NoFetch => left.pause = "start"
       /\ fetch' = [fetch EXCEPT ![variant] = left,
                       ![v] = IF @ = NoFetch THEN Fetch("all", data[v], 0, revision) ELSE @]
  /\ UNCHANGED <<server, saved, data, failed, revision, needs, generation, signals, firstRead>>

-----------------------------------------------------------------------------
(* The network and the focus *)

Leave(x) ==
  /\ x \notin absent /\ absences < MaxAbsences
  /\ absent' = absent \cup {x} /\ absences' = absences + 1
  /\ UNCHANGED <<server, saved, view, returned, firstRead>>

Return(x) ==
  /\ x \in absent
  /\ absent' = absent \ {x} /\ returned' = returned \cup {x}
  /\ UNCHANGED <<server, saved, view, absences, firstRead>>

(* The queries hear of it when the mutations that were held back are over: *)
(* every page on the screen is read again, unless a fetch is in flight,    *)
(* and what was paused goes on if nothing is away.                         *)
Resume(x) ==
  /\ x \in returned
  /\ returned' = returned \ {x}
  /\ fetch' = [v \in Variants |->
                 IF fetch[v] = NoFetch
                 THEN IF v = variant THEN Fetch("all", data[v], 0, revision) ELSE NoFetch
                 ELSE IF fetch[v].pause # "none" /\ absent = {}
                 THEN GoesOn(fetch[v])
                 ELSE fetch[v]]
  /\ UNCHANGED <<server, saved, variant, data, failed, late, revision, needs,
                 generation, refreshing, switches, absent, absences, firstRead>>

-----------------------------------------------------------------------------
(* The life of a read *)

(* The server reads the page that is asked for. *)
ServerAnswers(v) ==
  /\ Runs(fetch[v]) /\ fetch[v].answer = NoPage
  /\ Accepts(v, Param(fetch[v]))
  /\ LET page == ListReadingEntries(order, row, v, Param(fetch[v]))
     IN  fetch' = [fetch EXCEPT ![v].answer =
                     [items |-> page.items, next |-> page.next, at |-> version,
                      had |-> Selected(order, row, v)]]
  /\ UNCHANGED <<server, saved, variant, data, failed, late, revision, needs,
                 generation, refreshing, switches, signals, firstRead>>

(* What the end of the fetch of v means for a refresh that awaits it. *)
Ends(v) == refreshing' = (refreshing /\ ~(v = variant /\ Finishes(fetch[v], generation)))

(* A page arrives: it may acknowledge the saves, and ends the fetch or     *)
(* starts the read of the next page.                                       *)
PageArrives(v) ==
  /\ Runs(fetch[v]) /\ fetch[v].answer # NoPage
  /\ LET f == fetch[v]
         pages == Append(IF f.kind = "next" THEN f.base ELSE f.got, f.answer)
     IN  /\ needs' = (needs /\ ~Acknowledges(ReadsFirst(f), FALSE, f.revision))
         /\ firstRead' = IF ReadsFirst(f) THEN Newest(firstRead, f.answer.at) ELSE firstRead
         /\ IF f.kind = "all" /\ Len(pages) < f.want /\ f.answer.next # NoCursor
            THEN /\ fetch' = [fetch EXCEPT ![v] =
                       [f EXCEPT !.got = pages, !.answer = NoPage, !.revision = revision]]
                 /\ UNCHANGED <<data, failed, refreshing>>
            ELSE /\ fetch' = [fetch EXCEPT ![v] = NoFetch]
                 /\ data' = [data EXCEPT ![v] = pages]
                 /\ failed' = [failed EXCEPT ![v] = FALSE]
                 /\ Ends(v)
  /\ UNCHANGED <<server, saved, variant, late, revision, generation, switches, signals>>

(* A read of the variant on the screen fails in transport.                 *)
ReadAgain(v) ==
  /\ v = variant
  /\ Runs(fetch[v]) /\ fetch[v].failures < QueryRetries
  /\ fetch' = [fetch EXCEPT ![v] = Repeats(@)]
  /\ UNCHANGED <<server, saved, variant, data, failed, late, revision, needs,
                 generation, refreshing, switches, signals, firstRead>>

(* A read fails with a Problem, or once too often, or is left behind. *)
FetchFails(v) ==
  /\ Runs(fetch[v])
  /\ fetch' = [fetch EXCEPT ![v] = NoFetch]
  /\ failed' = [failed EXCEPT ![v] = TRUE]
  /\ Ends(v)
  /\ UNCHANGED <<server, saved, variant, data, late, revision, needs, generation,
                 switches, signals, firstRead>>

(* The rest of queryFn runs for a read that was aborted. *)
LateRead(r) ==
  /\ r \in late
  /\ late' = late \ {r}
  /\ needs' = (needs /\ ~Acknowledges(r.first, TRUE, r.revision))
  /\ UNCHANGED <<server, saved, variant, data, failed, fetch, revision, generation,
                 refreshing, switches, signals, firstRead>>

Settle(v) == ServerAnswers(v) \/ PageArrives(v) \/ ReadAgain(v) \/ FetchFails(v)

Next ==
  \/ \E e \in Entries : BeginCreate(e) \/ CommitCreate(e) \/ ChangeState(e)
  \/ PressRefresh \/ LoadMore
  \/ \E n \in answers : SaveAnswered(n)
  \/ \E v \in Variants : Switch(v) \/ Settle(v)
  \/ \E x \in Signals : Leave(x) \/ Return(x) \/ Resume(x)
  \/ \E r \in late : LateRead(r)

Spec == Init /\ [][Next]_vars

(* Every request that was sent is answered or fails by its deadline, those *)
(* of the mutations that were held back among them.  Nothing obliges the   *)
(* network or the focus to return, and a paused fetch to go on before.     *)
FairSpec ==
  /\ Spec
  /\ \A v \in Variants : WF_vars(Settle(v))
  /\ WF_vars(absent = {} /\ \E x \in Signals : Resume(x))
=============================================================================

------------------------- MODULE ReadingQueuePaging -------------------------
(***************************************************************************)
(* How the server answers GET /reading-queue: a page of one account's      *)
(* entries, picked by a status filter, ordered by (created_at, id) and     *)
(* started after the position a cursor names.                              *)
(*                                                                         *)
(* The table is given as two values: `order' lists the entries in the      *)
(* order of their keys, which is the order in which the transactions that  *)
(* insert them began, for created_at is the time a transaction began; a    *)
(* position is an index of it.  `row' is what is committed: the state of   *)
(* an entry, or "absent" before its insert commits.                        *)
(***************************************************************************)
EXTENDS Integers, Sequences, FiniteSets

CONSTANT NoCursor \* asked for or answered when there is no cursor

Statuses == {"all", "queued", "completed"}
Sorts == {"oldest", "newest"}

MaxPageSize == 50

(* What a page is asked for, and what its cursor is signed with. *)
Contexts(Scopes, Limits) ==
  [status : Statuses, sort : Sorts, limit : Limits, scope : Scopes]

Cursor(context, position) == [context |-> context, position |-> position]

(* A cursor is only good for the context it was signed for. *)
Decodes(cursor, context) == cursor # NoCursor => cursor.context = context

Selects(status, state) == state # "absent" /\ (status = "all" \/ state = status)

(* Position i comes before position j in the sort a page is asked for. *)
Precedes(sort, i, j) == IF sort = "oldest" THEN i < j ELSE i > j

(* Mutant: the keyset comparison includes the position of the cursor. *)
FollowsOrEquals(context, cursor, i) ==
  cursor # NoCursor => ~Precedes(context.sort, i, cursor.position)

Follows(context, cursor, i) ==
  cursor # NoCursor => Precedes(context.sort, cursor.position, i)

(* The positions the filter selects. *)
Selected(order, row, context) ==
  {i \in DOMAIN order : Selects(context.status, row[order[i]])}

(* The positions S in the sort a page is asked for: ORDER BY. *)
Sorted(sort, S) ==
  CHOOSE s \in [1 .. Cardinality(S) -> S] :
    \A i, j \in DOMAIN s : i < j => Precedes(sort, s[i], s[j])

(* The rows of the query, before its LIMIT. *)
Remaining(order, row, context, cursor) ==
  {i \in Selected(order, row, context) : Follows(context, cursor, i)}

Rows(order, row, context, cursor) ==
  Sorted(context.sort, Remaining(order, row, context, cursor))

(* Mutant: the cursor is taken from the extra row that was only fetched to *)
(* see whether there is a next page.                                       *)
NextCursorOfExtraRow(context, rows) ==
  IF Len(rows) > context.limit
  THEN Cursor(context, rows[context.limit + 1])
  ELSE NoCursor

(* There is a next page when the query finds a row beyond the limit; its   *)
(* cursor names the last row that is kept.                                 *)
NextCursor(context, rows) ==
  IF Len(rows) > context.limit
  THEN Cursor(context, rows[context.limit])
  ELSE NoCursor

(* The request is refused before the database is read when its limit is    *)
(* out of range or its cursor is another context's.                        *)
Accepts(context, cursor) ==
  /\ context.limit \in 1 .. MaxPageSize
  /\ Decodes(cursor, context)

ListReadingEntries(order, row, context, cursor) ==
  LET rows == Rows(order, row, context, cursor)
  IN  [items |-> SubSeq(rows, 1, IF Len(rows) > context.limit
                                 THEN context.limit ELSE Len(rows)),
       next  |-> NextCursor(context, rows)]
=============================================================================

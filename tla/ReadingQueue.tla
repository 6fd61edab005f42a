----------------------------- MODULE ReadingQueue -----------------------------
(***************************************************************************)
(* The reading-queue use cases over PostgreSQL at READ COMMITTED           *)
(* (crates/application/src/lib.rs, crates/persistence-postgres/src/lib.rs):*)
(* each command is one transaction on a pooled connection, one action per  *)
(* statement.  Row locks, the visibility of uncommitted writes and the     *)
(* wait of ON CONFLICT for a row another transaction is inserting are      *)
(* PostgreSQL's and external.  A statement or the connection can fail at   *)
(* any point, and so can the answer to a COMMIT, whose outcome is then     *)
(* unknown to the command.  No command is retried.                         *)
(***************************************************************************)
EXTENDS Integers, FiniteSets

CONSTANTS
  Commands,   \* requests, each executed at most once
  Entries, Accounts,
  PoolSize,   \* connections of the pool
  Nobody, NoEntry, NoAccount

ASSUME ReadingAssumption ==
  /\ IsFiniteSet(Entries)
  /\ PoolSize \in Nat \ {0}
  /\ Nobody \notin Commands /\ NoEntry \notin Entries /\ NoAccount \notin Accounts

VARIABLES
  shelf,         \* committed state of each entry, "absent" before its insert
  owner,         \* committed account_id of each entry
  rows,          \* accounts with a committed reading_progress row
  completed,     \* committed completed_entries
  entryLock,     \* who holds each entry's row
  progressLock,  \* who holds or inserts each account's progress row
  tx,            \* position of each command's transaction
  op, account, target,   \* the command's arguments
  count,         \* completed_entries as the command's UPDATE left or its SELECT saw it
  reply,         \* what the use case returned
  committed      \* commands whose transaction took effect (history)

tables == <<shelf, owner, rows, completed>>
locks  == <<entryLock, progressLock>>
args   == <<op, account, target>>
vars == <<tables, locks, tx, args, count, reply, committed>>

-----------------------------------------------------------------------------
Ops     == {"create", "complete", "reopen", "progress"}
TxAt    == {"idle", "begun", "rowed", "locked", "updated", "ready", "done"}
Replies == {"none", "ok", "notFound", "conflict", "unavailable", "storage",
            "unknown"}

Init ==
  /\ shelf = [e \in Entries |-> "absent"]
  /\ owner = [e \in Entries |-> NoAccount]
  /\ rows = {} /\ completed = [a \in Accounts |-> 0]
  /\ entryLock = [e \in Entries |-> Nobody]
  /\ progressLock = [a \in Accounts |-> Nobody]
  /\ tx = [c \in Commands |-> "idle"]
  /\ op = [c \in Commands |-> "progress"]
  /\ account = [c \in Commands |-> NoAccount]
  /\ target = [c \in Commands |-> NoEntry]
  /\ count = [c \in Commands |-> 0]
  /\ reply = [c \in Commands |-> "none"]
  /\ committed = {}

Open == {c \in Commands : tx[c] \notin {"idle", "done"}}

Advance(c, from, to) == tx[c] = from /\ tx' = [tx EXCEPT ![c] = to]

\* The transaction ends and every lock it holds is released.
End(c, answer) ==
  /\ tx' = [tx EXCEPT ![c] = "done"]
  /\ reply' = [reply EXCEPT ![c] = answer]
  /\ entryLock' = [e \in Entries |-> IF entryLock[e] = c THEN Nobody ELSE entryLock[e]]
  /\ progressLock' = [a \in Accounts |->
                        IF progressLock[a] = c THEN Nobody ELSE progressLock[a]]

\* Mutant: a command returns early and its transaction stays open.
RollbackForgotten(c, answer) ==
  /\ tx' = [tx EXCEPT ![c] = "done"]
  /\ reply' = [reply EXCEPT ![c] = answer]
  /\ UNCHANGED <<tables, locks, args, count, committed>>

Rollback(c, answer) ==
  /\ End(c, answer)
  /\ UNCHANGED <<tables, args, count, committed>>

\* Bound: gen_random_uuid always has an id, Entries only so many.
IdsLeft ==
  Cardinality({c \in Commands : op[c] = "create" /\ c \in Open \cup committed})
    < Cardinality(Entries)

\* begin(): a connection is free.  The target of a change may be any id a
\* client has, whoever owns it.
Begin(c) ==
  /\ Cardinality(Open) < PoolSize
  /\ Advance(c, "idle", "begun")
  /\ \E o \in Ops, a \in Accounts, e \in Entries :
       /\ o = "create" => IdsLeft
       /\ op' = [op EXCEPT ![c] = o]
       /\ account' = [account EXCEPT ![c] = a]
       /\ target' = [target EXCEPT ![c] = IF o \in {"complete", "reopen"}
                                          THEN e ELSE NoEntry]
  /\ UNCHANGED <<tables, locks, count, reply, committed>>

-----------------------------------------------------------------------------
(* What the statements wait for.                                           *)

\* Mutant: account_id is missing from the WHERE clause.
FoundAnywhere(c) == shelf[target[c]] # "absent"

\* The row the SELECT sees: committed, and of the command's own account.
Found(c) == shelf[target[c]] # "absent" /\ owner[target[c]] = account[c]

\* The transaction whose end PostgreSQL makes the next statement of c wait
\* for: one that inserts the same progress row, or holds the row that
\* SELECT ... FOR UPDATE or UPDATE wants.
Blocker(c) ==
  CASE tx[c] = "begun" /\ op[c] = "create" /\ account[c] \notin rows
         -> progressLock[account[c]]
    [] tx[c] = "begun" /\ op[c] \in {"complete", "reopen"} /\ Found(c)
         -> entryLock[target[c]]
    [] tx[c] = "updated" /\ account[c] \in rows
         -> progressLock[account[c]]
    [] OTHER -> Nobody

-----------------------------------------------------------------------------
(* CreateReadingEntry.                                                     *)

\* INSERT INTO reading_progress ... ON CONFLICT DO NOTHING: a committed row
\* is left alone, a row being inserted is waited for.
InsertProgressRow(c) ==
  /\ op[c] = "create" /\ Advance(c, "begun", "rowed")
  /\ Blocker(c) = Nobody
  /\ IF account[c] \in rows
     THEN UNCHANGED progressLock
     ELSE progressLock' = [progressLock EXCEPT ![account[c]] = c]
  /\ UNCHANGED <<tables, entryLock, args, count, reply, committed>>

\* INSERT INTO reading_queue_entries: a fresh id, seen by nobody else yet.
InsertEntry(c) ==
  /\ op[c] = "create" /\ Advance(c, "rowed", "ready")
  /\ \E e \in Entries :
       /\ shelf[e] = "absent" /\ entryLock[e] = Nobody
       /\ target' = [target EXCEPT ![c] = e]
       /\ entryLock' = [entryLock EXCEPT ![e] = c]
  /\ UNCHANGED <<tables, progressLock, op, account, count, reply, committed>>

-----------------------------------------------------------------------------
(* ChangeReadingEntryStateAndRecordProgress.                               *)

From(o) == IF o = "complete" THEN "queued" ELSE "completed"
To(o)   == IF o = "complete" THEN "completed" ELSE "queued"
Delta(o) == IF o = "complete" THEN 1 ELSE -1

MissingEntry(c) ==
  /\ op[c] \in {"complete", "reopen"} /\ tx[c] = "begun"
  /\ ~Found(c)
  /\ Rollback(c, "notFound")

\* SELECT ... FOR UPDATE waits for the row and reads its latest version;
\* the domain transition accepts it.
LockEntry(c) ==
  /\ op[c] \in {"complete", "reopen"} /\ Found(c)
  /\ Advance(c, "begun", "locked") /\ Blocker(c) = Nobody
  /\ shelf[target[c]] = From(op[c])
  /\ entryLock' = [entryLock EXCEPT ![target[c]] = c]
  /\ UNCHANGED <<tables, progressLock, args, count, reply, committed>>

RefuseTransition(c) ==
  /\ op[c] \in {"complete", "reopen"} /\ tx[c] = "begun" /\ Found(c)
  /\ Blocker(c) = Nobody
  /\ shelf[target[c]] # From(op[c])
  /\ Rollback(c, "conflict")

\* UPDATE reading_queue_entries: exactly the locked row.
UpdateState(c) ==
  /\ Advance(c, "locked", "updated")
  /\ UNCHANGED <<tables, locks, args, count, reply, committed>>

\* The WHERE clause of UPDATE reading_progress.
Adjustable(c) ==
  account[c] \in rows /\ completed[account[c]] + Delta(op[c]) >= 0

Adjusted(c) == [count EXCEPT ![c] = completed[account[c]] + Delta(op[c])]

\* Mutant: the new count is computed from a read that does not lock.
AdjustProgressUnlocked(c) ==
  /\ tx[c] = "updated"
  /\ IF Adjustable(c)
     THEN /\ Advance(c, "updated", "ready")
          /\ count' = Adjusted(c)
          /\ UNCHANGED <<tables, locks, args, reply, committed>>
     ELSE Rollback(c, "unavailable")

\* UPDATE reading_progress waits for a committed row and then adds to its
\* latest version.  No row updated: InvariantUnavailable.
AdjustProgress(c) ==
  /\ tx[c] = "updated" /\ Blocker(c) = Nobody
  /\ IF Adjustable(c)
     THEN /\ Advance(c, "updated", "ready")
          /\ count' = Adjusted(c)
          /\ progressLock' = [progressLock EXCEPT ![account[c]] = c]
          /\ UNCHANGED <<tables, entryLock, args, reply, committed>>
     ELSE Rollback(c, "unavailable")

-----------------------------------------------------------------------------
(* GetReadingProgress: one statement, one snapshot.  No row although there *)
(* are entries: InvariantUnavailable.                                      *)

LoadProgress(c) ==
  /\ op[c] = "progress" /\ tx[c] = "begun"
  /\ IF account[c] \in rows \/ \A e \in Entries : owner[e] # account[c]
     THEN /\ Advance(c, "begun", "ready")
          /\ count' = [count EXCEPT ![c] = completed[account[c]]]
          /\ UNCHANGED <<tables, locks, args, reply, committed>>
     ELSE Rollback(c, "unavailable")

-----------------------------------------------------------------------------
(* The end of a transaction.                                               *)

Written(c) == IF op[c] = "create" THEN "queued" ELSE To(op[c])

\* What the transaction wrote becomes visible, all of it.
Apply(c) ==
  /\ shelf' = [shelf EXCEPT ![target[c]] = Written(c)]
  /\ IF op[c] = "create"
     THEN /\ owner' = [owner EXCEPT ![target[c]] = account[c]]
          /\ rows' = rows \cup {account[c]}
          /\ UNCHANGED completed
     ELSE /\ completed' = [completed EXCEPT ![account[c]] = count[c]]
          /\ UNCHANGED <<owner, rows>>

Commit(c, answer) ==
  /\ tx[c] = "ready"
  /\ IF op[c] = "progress" THEN UNCHANGED tables ELSE Apply(c)
  /\ End(c, answer)
  /\ committed' = committed \cup {c}
  /\ UNCHANGED <<args, count>>

Succeed(c) == Commit(c, "ok")

\* Mutant: a commit whose answer is lost is reported as a plain failure.
AnswerLostAsStorage(c) == Commit(c, "storage")

\* COMMIT took effect or not, and the answer did not arrive.
AnswerLost(c) == Commit(c, "unknown")
CommitLost(c) == tx[c] = "ready" /\ Rollback(c, "unknown")

\* A statement fails, the connection breaks, the request is dropped or the
\* process dies: PostgreSQL rolls the open transaction back.
Fail(c) == c \in Open /\ tx[c] # "ready" /\ Rollback(c, "storage")

\* begin() gives up waiting for a connection.
BeginFails(c) == tx[c] = "idle" /\ Rollback(c, "storage")

-----------------------------------------------------------------------------
Statement(c) ==
  \/ InsertProgressRow(c) \/ InsertEntry(c)
  \/ MissingEntry(c) \/ LockEntry(c) \/ RefuseTransition(c)
  \/ UpdateState(c) \/ AdjustProgress(c)
  \/ LoadProgress(c)
  \/ Succeed(c)

Fault(c) == AnswerLost(c) \/ CommitLost(c) \/ Fail(c) \/ BeginFails(c)

\* Every command has been answered; not a step of the code.
Answered == (\A c \in Commands : tx[c] = "done") /\ UNCHANGED vars

Next ==
  \/ \E c \in Commands : Begin(c) \/ Statement(c) \/ Fault(c)
  \/ Answered

Spec == Init /\ [][Next]_vars

-----------------------------------------------------------------------------
(* Properties.                                                             *)

\* Every committed entry has an account: account_id is NOT NULL.
TypeOK ==
  /\ shelf \in [Entries -> {"absent", "queued", "completed"}]
  /\ owner \in [Entries -> Accounts \cup {NoAccount}]
  /\ \A e \in Entries : shelf[e] = "absent" <=> owner[e] = NoAccount
  /\ rows \subseteq Accounts /\ completed \in [Accounts -> Nat]
  /\ entryLock \in [Entries -> Commands \cup {Nobody}]
  /\ progressLock \in [Accounts -> Commands \cup {Nobody}]
  /\ tx \in [Commands -> TxAt] /\ op \in [Commands -> Ops]
  /\ account \in [Commands -> Accounts \cup {NoAccount}]
  /\ target \in [Commands -> Entries \cup {NoEntry}]
  /\ count \in [Commands -> Nat] /\ reply \in [Commands -> Replies]
  /\ committed \subseteq Commands

CompletedOf(a) == {e \in Entries : shelf[e] = "completed" /\ owner[e] = a}

(***************************************************************************)
(* The derived state is exact: at every committed state completed_entries  *)
(* is the number of completed entries of the account, and an account with  *)
(* an entry has its row, whatever commands interleave and fail.            *)
(***************************************************************************)
ProgressExact ==
  \A a \in Accounts :
    /\ completed[a] = Cardinality(CompletedOf(a))
    /\ a \notin rows => \A e \in Entries : owner[e] # a

(***************************************************************************)
(* InvariantUnavailable is never returned: the row that adjust and load    *)
(* need is there whenever an entry is, and never goes below zero.          *)
(***************************************************************************)
NeverUnavailable == \A c \in Commands : reply[c] # "unavailable"

(***************************************************************************)
(* Exactly one of the conflicting commands commits: the commands that took *)
(* effect on an entry are one create and then completes and reopens in     *)
(* turn, so that no two completes act on one queued state.                 *)
(***************************************************************************)
CommittedOn(e, o) == {c \in committed : op[c] = o /\ target[c] = e}

EffectsAlternate ==
  \A e \in Entries :
    /\ Cardinality(CommittedOn(e, "create")) = IF shelf[e] = "absent" THEN 0 ELSE 1
    /\ Cardinality(CommittedOn(e, "complete"))
         = Cardinality(CommittedOn(e, "reopen"))
           + IF shelf[e] = "completed" THEN 1 ELSE 0

(***************************************************************************)
(* An entry changes only by the commit of a command its own account sent   *)
(* for it, and never changes account.                                      *)
(***************************************************************************)
OnlyItsAccountChanges ==
  [][\A e \in Entries : shelf[e] # "absent" =>
       /\ owner'[e] = owner[e]
       /\ shelf'[e] # shelf[e] => \E c \in committed' \ committed :
            target[c] = e /\ account[c] = owner[e]]_vars

(***************************************************************************)
(* The statements of a command implement one atomic effect; a command that *)
(* was answered with an error other than an unknown outcome had none.      *)
(***************************************************************************)
VerdictOf(c) ==
  IF reply[c] \in {"notFound", "conflict", "unavailable", "storage"} THEN "refused"
  ELSE IF c \in committed THEN "done"
  ELSE "none"

Shelf == INSTANCE ReadingShelf
  WITH progress <- completed, verdict <- [c \in Commands |-> VerdictOf(c)]

ImplementsShelf == Shelf!Spec

(***************************************************************************)
(* Nobody is stuck: while transactions are open, one of them waits for no  *)
(* other.  No two of them wait for each other's rows, the pool is never    *)
(* held by waiting transactions alone, and every end releases what others  *)
(* wait for.  (A transaction that waits for no other can send its next     *)
(* statement, and none has more than six, so each command that got a       *)
(* connection is answered.)                                                *)
(***************************************************************************)
NobodyStuck == Open # {} => \E c \in Open : Blocker(c) = Nobody
=============================================================================

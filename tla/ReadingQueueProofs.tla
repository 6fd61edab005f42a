-------------------------- MODULE ReadingQueueProofs --------------------------
(***************************************************************************)
(* Proofs about ReadingQueue, for every number of commands, entries,       *)
(* accounts and connections.  The inductive invariant is the lock          *)
(* discipline: what a command has read under a row lock stays true until   *)
(* its transaction ends.                                                   *)
(*                                                                         *)
(* The second half proves the properties of the screen that reads the      *)
(* queue page by page, ReadingQueueView, for every queue, page size and    *)
(* set of variants.  Its inductive invariant says what a list of pages is: *)
(* each page behind the ones before it, and nothing left out between the   *)
(* start of the list and the cursor at its end.                            *)
(***************************************************************************)
EXTENDS ReadingQueue, ReadingQueueScreen, FiniteSetTheorems, SequenceTheorems, TLAPS

Changes(c) == op[c] \in {"complete", "reopen"}

\* What a command knows of its arguments at each position.
ArgInv ==
  \A c \in Commands :
    /\ c \in Open => account[c] \in Accounts
    /\ c \in Open /\ Changes(c) => target[c] \in Entries
    /\ tx[c] = "rowed" => op[c] = "create"
    /\ tx[c] \in {"locked", "updated"} => Changes(c)

\* A command whose transaction is open has neither answered nor committed.
OpenInv ==
  \A c \in Commands : tx[c] # "done" => reply[c] = "none" /\ c \notin committed

RowSafe(c) == account[c] \in rows \/ progressLock[account[c]] = c

CreateSafe(c) ==
  /\ target[c] \in Entries
  /\ entryLock[target[c]] = c /\ shelf[target[c]] = "absent"

EntrySafe(c) ==
  /\ entryLock[target[c]] = c
  /\ shelf[target[c]] = From(op[c]) /\ owner[target[c]] = account[c]

CountSafe(c) ==
  /\ account[c] \in rows /\ progressLock[account[c]] = c
  /\ count[c] = completed[account[c]] + Delta(op[c])

\* The lock discipline.
LockInv ==
  \A c \in Commands :
    /\ tx[c] \in {"rowed", "ready"} /\ op[c] = "create" => RowSafe(c)
    /\ tx[c] = "ready" /\ op[c] = "create" => CreateSafe(c)
    /\ tx[c] \in {"locked", "updated", "ready"} /\ Changes(c) => EntrySafe(c)
    /\ tx[c] = "ready" /\ Changes(c) => CountSafe(c)

IInv == TypeOK /\ ArgInv /\ OpenInv /\ LockInv /\ ProgressExact /\ NeverUnavailable

-----------------------------------------------------------------------------
(* What the steps preserve, part by part.                                  *)

LEMMA InitInv == Init => IInv
<1>1. ASSUME Init PROVE ProgressExact
  <2>1. \A a \in Accounts : CompletedOf(a) = {}
    BY <1>1 DEF Init, CompletedOf
  <2> QED
    BY <1>1, <2>1, FS_EmptySet, ReadingAssumption DEF Init, ProgressExact
<1> QED
  BY <1>1 DEF Init, IInv, TypeOK, ArgInv, OpenInv, LockInv, Open, Changes,
              NeverUnavailable, TxAt, Ops, Replies

\* The exactness of the progress only looks at the tables.
LEMMA TablesKept ==
  ASSUME ProgressExact, UNCHANGED tables
  PROVE  ProgressExact'
BY DEF ProgressExact, CompletedOf, tables

LEMMA RollbackStep ==
  ASSUME IInv, NEW c \in Commands,
         NEW answer \in {"notFound", "conflict", "storage", "unknown"},
         Rollback(c, answer)
  PROVE  IInv'
<1> USE DEF IInv, Rollback, End, tables, args
<1>1. TypeOK'
  BY DEF TypeOK, TxAt, Replies
<1>2. ArgInv' /\ OpenInv' /\ NeverUnavailable'
  BY DEF TypeOK, ArgInv, OpenInv, NeverUnavailable, Open, Changes
<1>3. LockInv'
  BY DEF TypeOK, ArgInv, LockInv, Open, Changes, RowSafe, CreateSafe, EntrySafe, CountSafe
<1> QED BY <1>1, <1>2, <1>3, TablesKept

LEMMA BeginStep ==
  ASSUME IInv, NEW c \in Commands, Begin(c)
  PROVE  IInv'
<1> USE DEF IInv, Begin, Advance, tables, locks, args
<1>1. TypeOK'
  BY DEF TypeOK, TxAt, Ops
<1>2. ArgInv' /\ OpenInv' /\ NeverUnavailable'
  BY DEF TypeOK, ArgInv, OpenInv, NeverUnavailable, Open, Changes
<1>3. LockInv'
  BY DEF TypeOK, LockInv, Changes, RowSafe, CreateSafe, EntrySafe, CountSafe
<1> QED BY <1>1, <1>2, <1>3, TablesKept

LEMMA CreateStep ==
  ASSUME IInv, NEW c \in Commands, InsertProgressRow(c) \/ InsertEntry(c)
  PROVE  IInv'
<1> USE DEF IInv, Advance, tables, locks, args
<1>1. CASE InsertProgressRow(c)
  <2> USE <1>1 DEF InsertProgressRow
  <2>0. account[c] \in rows \/ progressLock[account[c]] = Nobody
    BY DEF Blocker
  <2>1. TypeOK' BY DEF TypeOK, TxAt, ArgInv, Open
  <2>2. ArgInv' /\ OpenInv' /\ NeverUnavailable'
    BY DEF TypeOK, ArgInv, OpenInv, NeverUnavailable, Open, Changes
  <2>3. LockInv'
    BY <2>0, ReadingAssumption
    DEF TypeOK, ArgInv, LockInv, Open, Changes, RowSafe, CreateSafe, EntrySafe, CountSafe
  <2> QED BY <2>1, <2>2, <2>3, TablesKept
<1>2. CASE InsertEntry(c)
  <2> USE <1>2 DEF InsertEntry
  <2>1. TypeOK' BY DEF TypeOK, TxAt
  <2>2. ArgInv' /\ OpenInv' /\ NeverUnavailable'
    BY DEF TypeOK, ArgInv, OpenInv, NeverUnavailable, Open, Changes
  <2>3. LockInv'
    BY ReadingAssumption
    DEF TypeOK, ArgInv, LockInv, Open, Changes, RowSafe, CreateSafe, EntrySafe, CountSafe
  <2> QED BY <2>1, <2>2, <2>3, TablesKept
<1> QED BY <1>1, <1>2

LEMMA LockStep ==
  ASSUME IInv, NEW c \in Commands, LockEntry(c) \/ UpdateState(c)
  PROVE  IInv'
<1> USE DEF IInv, Advance, LockEntry, UpdateState, tables, locks, args
<1>0. LockEntry(c) => entryLock[target[c]] = Nobody
  BY DEF Blocker
<1>1. TypeOK'
  BY DEF TypeOK, TxAt, ArgInv, Open, Changes
<1>2. ArgInv' /\ OpenInv' /\ NeverUnavailable'
  BY DEF TypeOK, ArgInv, OpenInv, NeverUnavailable, Open, Changes
<1>3. LockInv'
  BY <1>0, ReadingAssumption
  DEF TypeOK, ArgInv, LockInv, Open, Changes, Found, RowSafe, CreateSafe, EntrySafe, CountSafe
<1>4. UNCHANGED tables
  OBVIOUS
<1> QED BY <1>1, <1>2, <1>3, <1>4, TablesKept

\* The completed entries of an account are finitely many.
LEMMA CompletedFinite ==
  ASSUME NEW a \in Accounts
  PROVE  /\ IsFiniteSet(CompletedOf(a)) /\ Cardinality(CompletedOf(a)) \in Nat
         /\ Cardinality(CompletedOf(a)) = 0 <=> CompletedOf(a) = {}
<1>1. CompletedOf(a) \subseteq Entries
  BY DEF CompletedOf
<1>2. IsFiniteSet(CompletedOf(a))
  BY <1>1, FS_Subset, ReadingAssumption
<1> QED
  BY <1>2, FS_CardinalityType, FS_EmptySet

\* A change that locked its entry finds the progress row, high enough.
LEMMA AlwaysAdjustable ==
  ASSUME IInv, NEW c \in Commands, tx[c] = "updated"
  PROVE  Adjustable(c)
<1> DEFINE a == account[c]
<1>1. Changes(c) /\ a \in Accounts /\ target[c] \in Entries /\ EntrySafe(c)
  BY DEF IInv, ArgInv, LockInv, Open
<1>2. a \in rows
  BY <1>1 DEF IInv, ProgressExact, EntrySafe
<1>3. completed[a] \in Nat /\ completed[a] = Cardinality(CompletedOf(a))
  BY <1>1 DEF IInv, TypeOK, ProgressExact
<1>4. CASE op[c] = "complete"
  BY <1>2, <1>3, <1>4 DEF Adjustable, Delta
<1>5. CASE op[c] = "reopen"
  <2>1. target[c] \in CompletedOf(a)
    BY <1>1, <1>5 DEF EntrySafe, CompletedOf, From
  <2>2. completed[a] # 0
    BY <1>1, <1>3, <2>1, CompletedFinite
  <2> QED
    BY <1>2, <1>3, <1>5, <2>2 DEF Adjustable, Delta
<1> QED BY <1>1, <1>4, <1>5 DEF Changes

LEMMA AdjustStep ==
  ASSUME IInv, NEW c \in Commands, AdjustProgress(c)
  PROVE  IInv'
<1>1. Adjustable(c)
  BY AlwaysAdjustable DEF AdjustProgress
<1>2. /\ Advance(c, "updated", "ready") /\ count' = Adjusted(c)
      /\ account[c] \in rows /\ progressLock[account[c]] = Nobody
      /\ progressLock' = [progressLock EXCEPT ![account[c]] = c]
      /\ UNCHANGED <<tables, entryLock, args, reply, committed>>
  BY <1>1 DEF AdjustProgress, Adjustable, Blocker
<1>3. /\ account[c] \in Accounts /\ Changes(c) /\ EntrySafe(c)
      /\ completed[account[c]] + Delta(op[c]) \in Nat
  <2>1. account[c] \in Accounts /\ Changes(c) /\ EntrySafe(c)
    BY <1>2 DEF IInv, ArgInv, LockInv, Open, Advance
  <2>2. completed[account[c]] \in Nat
    BY <2>1 DEF IInv, TypeOK
  <2> QED BY <1>1, <2>1, <2>2 DEF Adjustable, Delta
<1> USE DEF IInv, Advance, Adjusted, tables, args
<1>4. TypeOK'
  BY <1>2, <1>3 DEF TypeOK, TxAt
<1>5. ArgInv' /\ OpenInv' /\ NeverUnavailable'
  BY <1>2 DEF TypeOK, ArgInv, OpenInv, NeverUnavailable, Open, Changes
<1>6. LockInv'
  BY <1>2, <1>3, ReadingAssumption
  DEF TypeOK, ArgInv, LockInv, Open, Changes, RowSafe, CreateSafe, EntrySafe, CountSafe
<1> QED BY <1>2, <1>4, <1>5, <1>6, TablesKept

LEMMA LoadStep ==
  ASSUME IInv, NEW c \in Commands, LoadProgress(c)
  PROVE  IInv'
<1>1. account[c] \in Accounts /\ op[c] = "progress" /\ tx[c] = "begun"
  BY DEF IInv, ArgInv, Open, LoadProgress
<1>2. /\ Advance(c, "begun", "ready")
      /\ count' = [count EXCEPT ![c] = completed[account[c]]]
      /\ UNCHANGED <<tables, locks, args, reply, committed>>
  BY <1>1 DEF LoadProgress, IInv, ProgressExact
<1> USE DEF IInv, Advance, tables, locks, args
<1>3. TypeOK'
  BY <1>1, <1>2 DEF TypeOK, TxAt
<1>4. ArgInv' /\ OpenInv' /\ NeverUnavailable'
  BY <1>2 DEF TypeOK, ArgInv, OpenInv, NeverUnavailable, Open, Changes
<1>5. LockInv'
  BY <1>1, <1>2 DEF TypeOK, LockInv, Changes, RowSafe, CreateSafe, EntrySafe, CountSafe
<1> QED BY <1>2, <1>3, <1>4, <1>5, TablesKept

-----------------------------------------------------------------------------
(* The commit of a command that wrote.                                     *)

\* What a transaction that is ready to commit knows.
LEMMA ReadyKnows ==
  ASSUME IInv, NEW c \in Commands, tx[c] = "ready", op[c] # "progress"
  PROVE  /\ account[c] \in Accounts /\ target[c] \in Entries /\ c \notin committed
         /\ entryLock[target[c]] = c
         /\ op[c] = "create" => shelf[target[c]] = "absent" /\ RowSafe(c)
         /\ Changes(c) => EntrySafe(c) /\ CountSafe(c) /\ count[c] \in Nat
         /\ op[c] = "create" \/ op[c] = "complete" \/ op[c] = "reopen"
<1>1. op[c] \in Ops /\ account[c] \in Accounts /\ c \notin committed /\ count[c] \in Nat
  BY DEF IInv, TypeOK, ArgInv, OpenInv, Open
<1>2. op[c] = "create" \/ op[c] = "complete" \/ op[c] = "reopen"
  BY <1>1 DEF Ops
<1>3. CASE op[c] = "create"
  BY <1>1, <1>2, <1>3 DEF IInv, LockInv, CreateSafe, Changes
<1>4. CASE Changes(c)
  BY <1>1, <1>2, <1>4 DEF IInv, ArgInv, LockInv, EntrySafe, Changes, Open
<1> QED BY <1>2, <1>3, <1>4 DEF Changes

\* One entry completed moves the progress of its account by one.
LEMMA ExactApply ==
  ASSUME IInv, NEW c \in Commands, tx[c] = "ready", op[c] # "progress", Apply(c)
  PROVE  ProgressExact'
<1> PICK e, b : e = target[c] /\ b = account[c]
  OBVIOUS
<1>0. /\ TypeOK /\ ProgressExact
      /\ shelf' = [shelf EXCEPT ![e] = Written(c)]
      /\ e \in Entries /\ b \in Accounts
      /\ op[c] = "create" => shelf[e] = "absent"
      /\ Changes(c) \/ op[c] = "create"
  BY ReadyKnows DEF IInv, Apply, Changes
<1>1. CASE op[c] = "create"
  <2>1. \A a \in Accounts : CompletedOf(a)' = CompletedOf(a)
    BY <1>0, <1>1 DEF Apply, Written, CompletedOf, TypeOK
  <2>2. ASSUME NEW a \in Accounts, a \notin rows', NEW d \in Entries
        PROVE  owner'[d] # a
    BY <1>0, <1>1, <2>2 DEF Apply, ProgressExact, TypeOK
  <2> QED
    BY <1>0, <1>1, <2>1, <2>2 DEF Apply, ProgressExact
<1>2. CASE Changes(c)
  <2>0. /\ op[c] # "create" /\ EntrySafe(c) /\ CountSafe(c)
        /\ completed' = [completed EXCEPT ![b] = count[c]]
        /\ UNCHANGED <<owner, rows>>
    BY <1>2, ReadyKnows DEF Apply, Changes
  <2>1. \A a \in Accounts \ {b} : CompletedOf(a)' = CompletedOf(a)
    BY <1>0, <2>0 DEF CompletedOf, TypeOK, EntrySafe
  <2>2. completed'[b] = Cardinality(CompletedOf(b)')
    <3>1. completed[b] = Cardinality(CompletedOf(b)) /\ IsFiniteSet(CompletedOf(b))
      BY <1>0, CompletedFinite DEF ProgressExact
    <3>2. completed'[b] = completed[b] + Delta(op[c])
      BY <1>0, <2>0 DEF TypeOK, CountSafe
    <3>3. CASE op[c] = "complete"
      <4>1. e \notin CompletedOf(b) /\ CompletedOf(b)' = CompletedOf(b) \cup {e}
        BY <1>0, <2>0, <3>3 DEF CompletedOf, TypeOK, EntrySafe, Written, From, To
      <4>2. Cardinality(CompletedOf(b) \cup {e}) = Cardinality(CompletedOf(b)) + 1
        BY <3>1, <4>1, FS_AddElement
      <4>3. Cardinality(CompletedOf(b)') = Cardinality(CompletedOf(b)) + 1
        BY <4>1, <4>2
      <4> QED BY <3>1, <3>2, <3>3, <4>3 DEF Delta
    <3>4. CASE op[c] = "reopen"
      <4>1. e \in CompletedOf(b) /\ CompletedOf(b)' = CompletedOf(b) \ {e}
        BY <1>0, <2>0, <3>4 DEF CompletedOf, TypeOK, EntrySafe, Written, From, To
      <4>2. Cardinality(CompletedOf(b)) \in Nat
        BY <1>0, CompletedFinite
      <4> QED BY <3>1, <3>2, <3>4, <4>1, <4>2, FS_RemoveElement DEF Delta
    <3> QED BY <1>2, <3>3, <3>4 DEF Changes
  <2> QED
    BY <1>0, <2>0, <2>1, <2>2 DEF ProgressExact, TypeOK
<1> QED BY <1>0, <1>1, <1>2

LEMMA CommitStep ==
  ASSUME IInv, NEW c \in Commands, NEW answer \in {"ok", "unknown"}, Commit(c, answer)
  PROVE  IInv'
<1> USE DEF IInv, Commit, End, tables, args
<1>1. CASE op[c] = "progress"
  <2>1. TypeOK'
    BY <1>1 DEF TypeOK, TxAt, Replies
  <2>2. ArgInv' /\ OpenInv' /\ NeverUnavailable'
    BY <1>1 DEF TypeOK, ArgInv, OpenInv, NeverUnavailable, Open, Changes
  <2>3. LockInv'
    BY <1>1 DEF TypeOK, ArgInv, LockInv, Open, Changes,
                RowSafe, CreateSafe, EntrySafe, CountSafe
  <2> QED BY <1>1, <2>1, <2>2, <2>3, TablesKept
<1>2. CASE op[c] # "progress"
  <2>0. Apply(c) /\ tx[c] = "ready"
    BY <1>2
  <2>1. TypeOK'
    <3>1. /\ Written(c) \in {"queued", "completed"}
          /\ account[c] \in Accounts /\ target[c] \in Entries
          /\ Changes(c) => EntrySafe(c) /\ count[c] \in Nat
          /\ Changes(c) \/ op[c] = "create"
      BY <1>2, <2>0, ReadyKnows DEF Written, To, Changes
    <3>2. /\ shelf' \in [Entries -> {"absent", "queued", "completed"}]
          /\ owner' \in [Entries -> Accounts \cup {NoAccount}]
          /\ rows' \subseteq Accounts /\ completed' \in [Accounts -> Nat]
      BY <2>0, <3>1 DEF TypeOK, Apply, Changes
    <3>3. \A e \in Entries : shelf'[e] = "absent" <=> owner'[e] = NoAccount
      BY <2>0, <3>1, ReadingAssumption DEF TypeOK, Apply, Changes, EntrySafe, From
    <3>4. /\ entryLock' \in [Entries -> Commands \cup {Nobody}]
          /\ progressLock' \in [Accounts -> Commands \cup {Nobody}]
          /\ tx' \in [Commands -> TxAt] /\ reply' \in [Commands -> Replies]
          /\ committed' \subseteq Commands
      BY DEF TypeOK, TxAt, Replies
    <3> QED BY <3>2, <3>3, <3>4 DEF TypeOK
  <2>2. ArgInv' /\ OpenInv' /\ NeverUnavailable'
    BY DEF TypeOK, ArgInv, OpenInv, NeverUnavailable, Open, Changes
  <2>3. LockInv'
    <3> SUFFICES ASSUME NEW d \in Commands, tx[d] # "done", d # c
                 PROVE  /\ tx[d] \in {"rowed", "ready"} /\ op[d] = "create" => RowSafe(d)'
                        /\ tx[d] = "ready" /\ op[d] = "create" => CreateSafe(d)'
                        /\ tx[d] \in {"locked", "updated", "ready"} /\ Changes(d)
                             => EntrySafe(d)'
                        /\ tx[d] = "ready" /\ Changes(d) => CountSafe(d)'
      BY DEF LockInv, Changes, TypeOK
    <3>1. ASSUME tx[d] \in {"rowed", "ready"}, op[d] = "create" PROVE RowSafe(d)'
      BY <2>0, <3>1, ReadyKnows DEF TypeOK, LockInv, RowSafe, Apply, ArgInv, Open
    <3>2. ASSUME tx[d] = "ready", op[d] = "create" PROVE CreateSafe(d)'
      BY <2>0, <3>2, <1>2, ReadyKnows DEF TypeOK, LockInv, CreateSafe, Apply
    <3>3. ASSUME tx[d] \in {"locked", "updated", "ready"}, Changes(d)
          PROVE  EntrySafe(d)'
      BY <2>0, <3>3, <1>2, ReadyKnows
      DEF TypeOK, LockInv, EntrySafe, Apply, ArgInv, Open, Changes
    <3>4. ASSUME tx[d] = "ready", Changes(d) PROVE CountSafe(d)'
      BY <2>0, <3>4, <1>2, ReadyKnows
      DEF TypeOK, LockInv, CountSafe, Apply, ArgInv, Open, Changes
    <3> QED BY <3>1, <3>2, <3>3, <3>4
  <2> QED BY <1>2, <2>0, <2>1, <2>2, <2>3, ExactApply
<1> QED BY <1>1, <1>2

-----------------------------------------------------------------------------
(* The theorems.                                                           *)

LEMMA AnswerKinds ==
  ASSUME IInv, NEW c \in Commands, Statement(c) \/ Fault(c)
  PROVE  \/ InsertProgressRow(c) \/ InsertEntry(c)
         \/ LockEntry(c) \/ UpdateState(c) \/ AdjustProgress(c) \/ LoadProgress(c)
         \/ \E answer \in {"ok", "unknown"} : Commit(c, answer)
         \/ \E answer \in {"notFound", "conflict", "storage", "unknown"} : Rollback(c, answer)
BY DEF Statement, Fault, MissingEntry, RefuseTransition, Succeed, AnswerLost,
       CommitLost, Fail, BeginFails

LEMMA NextInv == IInv /\ [Next]_vars => IInv'
<1> SUFFICES ASSUME IInv, [Next]_vars PROVE IInv'
  OBVIOUS
<1>1. ASSUME NEW c \in Commands, Statement(c) \/ Fault(c) PROVE IInv'
  BY <1>1, AnswerKinds, CreateStep, LockStep, AdjustStep, LoadStep, CommitStep, RollbackStep
<1>2. CASE UNCHANGED vars
  BY <1>2, TablesKept
  DEF IInv, vars, tables, locks, args, TypeOK, ArgInv, OpenInv, LockInv, Open, Changes,
      RowSafe, CreateSafe, EntrySafe, CountSafe, NeverUnavailable
<1> QED
  BY <1>1, <1>2, BeginStep DEF Next, Answered

THEOREM Invariance == Spec => []IInv
BY InitInv, NextInv, PTL DEF Spec

\* The state of the queue, of its locks and of its commands is well typed,
\* and every committed entry has an account (the tables of 0002 and 0007).
THEOREM TypeCorrect == Spec => []TypeOK
BY Invariance, PTL DEF IInv

\* completed_entries is the number of completed entries of its account at
\* every committed state, whatever commands interleave and fail.
THEOREM ProgressIsExact == Spec => []ProgressExact
BY Invariance, PTL DEF IInv

\* adjust_reading_progress and load_reading_progress never return
\* InvariantUnavailable.
THEOREM RowsNeverMissing == Spec => []NeverUnavailable
BY Invariance, PTL DEF IInv

-----------------------------------------------------------------------------
(* Every step of the commands is one atomic effect on the shelf, or none.  *)

Verdicts == [c \in Commands |-> VerdictOf(c)]

LEMMA SilentStep ==
  ASSUME UNCHANGED <<tables, reply, committed>>
  PROVE  UNCHANGED Shelf!vars
BY DEF Shelf!vars, VerdictOf, tables

LEMMA RefusedStep ==
  ASSUME IInv, NEW c \in Commands,
         NEW answer \in {"notFound", "conflict", "storage", "unknown"},
         Rollback(c, answer), tx[c] # "done"
  PROVE  [Shelf!Next]_Shelf!vars
<1>1. /\ reply \in [Commands -> Replies] /\ reply' = [reply EXCEPT ![c] = answer]
      /\ reply[c] = "none" /\ c \notin committed
      /\ UNCHANGED <<tables, committed>>
  BY DEF IInv, TypeOK, OpenInv, Rollback, End
<1>2. CASE answer = "unknown"
  BY <1>1, <1>2 DEF Shelf!vars, VerdictOf, tables
<1>3. CASE answer # "unknown"
  <2>1. /\ Verdicts[c] = "none"
        /\ Verdicts' = [Verdicts EXCEPT ![c] = "refused"]
    BY <1>1, <1>3 DEF Verdicts, VerdictOf
  <2>2. Shelf!Refuse(c)
    BY <1>1, <2>1 DEF Shelf!Refuse, Shelf!Decide, Verdicts, tables
  <2> QED BY <2>2 DEF Shelf!Next
<1> QED BY <1>2, <1>3

LEMMA EffectStep ==
  ASSUME IInv, NEW c \in Commands, NEW answer \in {"ok", "unknown"}, Commit(c, answer)
  PROVE  Shelf!Next
<1>1. /\ reply' = [reply EXCEPT ![c] = answer] /\ committed' = committed \cup {c}
      /\ reply \in [Commands -> Replies] /\ tx[c] = "ready"
      /\ reply[c] = "none" /\ c \notin committed
  BY DEF IInv, TypeOK, OpenInv, Commit, End
<1>2. /\ Verdicts[c] = "none"
      /\ Verdicts' = [Verdicts EXCEPT ![c] = "done"]
  BY <1>1 DEF Verdicts, VerdictOf
<1>3. Shelf!Decide(c, "done")
  BY <1>2 DEF Shelf!Decide, Verdicts
<1>4. CASE op[c] = "progress"
  <2>1. Shelf!Look(c)
    BY <1>3, <1>4 DEF Shelf!Look, Commit, tables
  <2> QED BY <2>1 DEF Shelf!Next
<1>5. CASE op[c] # "progress"
  <2>1. Apply(c)
    BY <1>5 DEF Commit
  <2>2. CASE op[c] = "create"
    <3>1. Shelf!Create(c, target[c], account[c])
      BY <1>1, <1>3, <1>5, <2>1, <2>2, ReadyKnows DEF Shelf!Create, Apply, Written
    <3> QED BY <1>1, <1>5, <3>1, ReadyKnows DEF Shelf!Next
  <2>3. CASE Changes(c)
    <3>1. /\ target[c] \in Entries /\ EntrySafe(c) /\ CountSafe(c)
          /\ completed' = [completed EXCEPT ![account[c]] = count[c]]
          /\ shelf' = [shelf EXCEPT ![target[c]] = To(op[c])] /\ owner' = owner
      BY <1>1, <1>5, <2>1, <2>3, ReadyKnows DEF Apply, Changes, Written
    <3>2. CASE op[c] = "complete"
      <4>1. Shelf!Change(c, target[c], "queued", "completed", 1)
        BY <1>3, <3>1, <3>2 DEF Shelf!Change, EntrySafe, CountSafe, From, To, Delta
      <4> QED BY <3>1, <4>1 DEF Shelf!Next
    <3>3. CASE op[c] = "reopen"
      <4>1. Shelf!Change(c, target[c], "completed", "queued", -1)
        BY <1>3, <3>1, <3>3 DEF Shelf!Change, EntrySafe, CountSafe, From, To, Delta
      <4> QED BY <3>1, <4>1 DEF Shelf!Next
    <3> QED BY <2>3, <3>2, <3>3 DEF Changes
  <2> QED BY <1>1, <1>5, <2>2, <2>3, ReadyKnows DEF Changes
<1> QED BY <1>4, <1>5

\* Each command has one atomic effect or none, and an error that is not an
\* unknown outcome means none.
THEOREM CommandsAreAtomic == Spec => ImplementsShelf
<1>1. Init => Shelf!Init
  BY DEF Init, Shelf!Init, VerdictOf
<1>2. IInv /\ [Next]_vars => [Shelf!Next]_Shelf!vars
  <2> SUFFICES ASSUME IInv, [Next]_vars PROVE [Shelf!Next]_Shelf!vars
    OBVIOUS
  <2>1. ASSUME NEW c \in Commands, Statement(c) \/ Fault(c)
        PROVE  [Shelf!Next]_Shelf!vars
    <3>1. tx[c] # "done"
      BY <2>1 DEF Statement, Fault, InsertProgressRow, InsertEntry, MissingEntry, LockEntry,
          RefuseTransition, UpdateState, AdjustProgress, LoadProgress, Succeed, AnswerLost,
          Commit, CommitLost, Fail, BeginFails, Open, Advance
    <3>2. CASE \E answer \in {"ok", "unknown"} : Commit(c, answer)
      BY <3>2, EffectStep
    <3>3. CASE \E answer \in {"notFound", "conflict", "storage", "unknown"} : Rollback(c, answer)
      BY <3>1, <3>3, RefusedStep
    <3>4. CASE InsertProgressRow(c) \/ InsertEntry(c) \/ LockEntry(c) \/ UpdateState(c)
      BY <3>4, SilentStep
      DEF InsertProgressRow, InsertEntry, LockEntry, UpdateState, tables
    <3>5. CASE AdjustProgress(c)
      <4>1. Adjustable(c)
        BY <3>5, AlwaysAdjustable DEF AdjustProgress
      <4> QED BY <3>5, <4>1, SilentStep DEF AdjustProgress, tables
    <3>6. CASE LoadProgress(c)
      <4>1. account[c] \in Accounts
        BY <3>6 DEF IInv, ArgInv, Open, LoadProgress
      <4> QED BY <3>6, <4>1, SilentStep DEF LoadProgress, IInv, ProgressExact, tables
    <3> QED BY <2>1, <3>2, <3>3, <3>4, <3>5, <3>6, AnswerKinds
  <2>2. CASE \E c \in Commands : Begin(c)
    BY <2>2, SilentStep DEF Begin, tables
  <2>3. CASE UNCHANGED vars
    BY <2>3, SilentStep DEF vars, tables
  <2> QED BY <2>1, <2>2, <2>3 DEF Next, Answered
<1> QED BY <1>1, <1>2, Invariance, PTL DEF Spec, ImplementsShelf, Shelf!Spec

-----------------------------------------------------------------------------
(* Who changes an entry, and how often.                                    *)

\* The commit of a writing command.
Writes(c) ==
  /\ tx[c] = "ready" /\ op[c] # "progress" /\ Apply(c)
  /\ committed' = committed \cup {c} /\ UNCHANGED args

\* Only such a commit touches the tables.
LEMMA TablesMove ==
  ASSUME IInv, [Next]_vars
  PROVE  \/ UNCHANGED <<shelf, owner>>
         \/ \E c \in Commands : Writes(c)
<1>1. ASSUME NEW c \in Commands, Statement(c) \/ Fault(c)
      PROVE  UNCHANGED <<shelf, owner>> \/ \E answer \in {"ok", "unknown"} : Commit(c, answer)
  BY <1>1, AnswerKinds
  DEF InsertProgressRow, InsertEntry, LockEntry, UpdateState, AdjustProgress, LoadProgress,
      Rollback, tables
<1>2. ASSUME NEW c \in Commands, NEW answer \in {"ok", "unknown"}, Commit(c, answer)
      PROVE  UNCHANGED <<shelf, owner>> \/ Writes(c)
  BY <1>2 DEF Commit, Writes, tables
<1>3. ASSUME NEW c \in Commands, Begin(c) PROVE UNCHANGED <<shelf, owner>>
  BY <1>3 DEF Begin, tables
<1>4. CASE UNCHANGED vars
  BY <1>4 DEF vars, tables
<1> QED BY <1>1, <1>2, <1>3, <1>4 DEF Next, Answered

\* An entry changes only by the commit of a command of its own account
\* that names it, and never changes account.
THEOREM OthersEntriesKept == Spec => OnlyItsAccountChanges
<1> DEFINE Kept(e) ==
      shelf[e] # "absent" =>
        /\ owner'[e] = owner[e]
        /\ shelf'[e] # shelf[e] => \E c \in committed' \ committed :
             target[c] = e /\ account[c] = owner[e]
<1>1. IInv /\ [Next]_vars => \A e \in Entries : Kept(e)
  <2> SUFFICES ASSUME IInv, [Next]_vars, NEW e \in Entries PROVE Kept(e)
    OBVIOUS
  <2>1. CASE UNCHANGED <<shelf, owner>>
    BY <2>1
  <2>2. ASSUME NEW c \in Commands, Writes(c) PROVE Kept(e)
    <3>1. /\ target[c] \in Entries /\ c \in committed' \ committed
          /\ op[c] = "create" => shelf[target[c]] = "absent"
          /\ op[c] # "create" => owner[target[c]] = account[c] /\ owner' = owner
      BY <2>2, ReadyKnows DEF Writes, Apply, EntrySafe, Changes
    <3>2. CASE e = target[c]
      BY <3>1, <3>2
    <3>3. CASE e # target[c]
      BY <2>2, <3>1, <3>3 DEF Writes, Apply, IInv, TypeOK
    <3> QED BY <3>2, <3>3
  <2> QED BY <2>1, <2>2, TablesMove
<1> QED BY <1>1, Invariance, PTL DEF Spec, OnlyItsAccountChanges

EffectInv == IsFiniteSet(committed) /\ EffectsAlternate

\* A step that writes nothing leaves the history of every entry alone.
LEMMA HistoryKept ==
  ASSUME IInv, [Next]_vars, UNCHANGED <<shelf, owner>>, IsFiniteSet(committed),
         ~ \E c \in Commands : Writes(c)
  PROVE  /\ IsFiniteSet(committed')
         /\ \A e \in Entries, o \in {"create", "complete", "reopen"} :
              CommittedOn(e, o)' = CommittedOn(e, o)
<1> USE DEF CommittedOn
<1>1. ASSUME NEW c \in Commands, NEW answer \in {"ok", "unknown"}, Commit(c, answer)
      PROVE  /\ committed' = committed \cup {c} /\ op[c] = "progress"
             /\ UNCHANGED args
  BY <1>1 DEF Commit, Writes
<1>2. ASSUME NEW c \in Commands, Begin(c) \/ InsertEntry(c)
      PROVE  /\ UNCHANGED committed /\ c \notin committed
             /\ \A d \in Commands \ {c} : op'[d] = op[d] /\ target'[d] = target[d]
  BY <1>2 DEF Begin, InsertEntry, Advance, IInv, OpenInv, TypeOK
<1>3. ASSUME NEW c \in Commands,
             \/ InsertProgressRow(c) \/ LockEntry(c) \/ UpdateState(c)
             \/ AdjustProgress(c) \/ LoadProgress(c)
             \/ \E answer \in {"notFound", "conflict", "storage", "unknown"} : Rollback(c, answer)
      PROVE  UNCHANGED <<committed, op, target>>
  BY <1>3 DEF InsertProgressRow, LockEntry, UpdateState, AdjustProgress, LoadProgress,
              Rollback, args
<1>4. CASE UNCHANGED vars
  BY <1>4 DEF vars, args
<1>5. ASSUME NEW c \in Commands, Begin(c) \/ InsertEntry(c)
      PROVE  /\ IsFiniteSet(committed')
             /\ \A e \in Entries, o \in {"create", "complete", "reopen"} :
                  CommittedOn(e, o)' = CommittedOn(e, o)
  BY <1>2, <1>5 DEF IInv, TypeOK
<1>6. ASSUME NEW c \in Commands, NEW answer \in {"ok", "unknown"}, Commit(c, answer)
      PROVE  /\ IsFiniteSet(committed')
             /\ \A e \in Entries, o \in {"create", "complete", "reopen"} :
                  CommittedOn(e, o)' = CommittedOn(e, o)
  <2>1. IsFiniteSet(committed')
    BY <1>1, <1>6, FS_AddElement
  <2> QED BY <1>1, <1>6, <2>1 DEF args
<1>7. ASSUME NEW c \in Commands, Statement(c) \/ Fault(c)
      PROVE  /\ IsFiniteSet(committed')
             /\ \A e \in Entries, o \in {"create", "complete", "reopen"} :
                  CommittedOn(e, o)' = CommittedOn(e, o)
  <2> HIDE DEF CommittedOn
  <2>1. CASE UNCHANGED <<committed, op, target>>
    BY <2>1 DEF CommittedOn
  <2> QED BY <1>3, <1>5, <1>6, <1>7, <2>1, AnswerKinds
<1> QED
  BY <1>4, <1>5, <1>7 DEF Next, Answered

LEMMA HistoryGrows ==
  ASSUME IInv, EffectInv, NEW c \in Commands, Writes(c)
  PROVE  EffectInv'
<1> DEFINE N(e, o) == Cardinality(CommittedOn(e, o))
<1> PICK d, w : d = target[c] /\ w = op[c]
  OBVIOUS
<1>1. /\ d \in Entries /\ c \notin committed
      /\ w = "create" => shelf[d] = "absent"
      /\ w \in {"complete", "reopen"} => shelf[d] = From(w)
      /\ w \in {"create", "complete", "reopen"}
      /\ shelf' = [shelf EXCEPT ![d] = IF w = "create" THEN "queued" ELSE To(w)]
      /\ shelf \in [Entries -> {"absent", "queued", "completed"}]
  BY ReadyKnows DEF Writes, Apply, Written, EntrySafe, Changes, IInv, TypeOK
<1>2. IsFiniteSet(committed')
  BY FS_AddElement DEF EffectInv, Writes
<1>3. \A e \in Entries, o \in Ops : IsFiniteSet(CommittedOn(e, o)) /\ N(e, o) \in Nat
  <2> TAKE e \in Entries, o \in Ops
  <2>1. CommittedOn(e, o) \subseteq committed
    BY DEF CommittedOn
  <2> QED BY <2>1, FS_Subset, FS_CardinalityType DEF EffectInv
<1>4. \A e \in Entries, o \in Ops :
        ~ (e = d /\ o = w) => CommittedOn(e, o)' = CommittedOn(e, o)
  BY DEF CommittedOn, Writes, args
<1>5. CommittedOn(d, w)' = CommittedOn(d, w) \cup {c} /\ c \notin CommittedOn(d, w)
  BY <1>1 DEF CommittedOn, Writes, args
<1>6. Cardinality(CommittedOn(d, w)') = N(d, w) + 1
  <2>1. IsFiniteSet(CommittedOn(d, w))
    BY <1>1, <1>3 DEF Ops
  <2>2. Cardinality(CommittedOn(d, w) \cup {c}) = N(d, w) + 1
    BY <1>5, <2>1, FS_AddElement
  <2> QED BY <1>5, <2>2
<1>7. ASSUME NEW e \in Entries
      PROVE  /\ Cardinality(CommittedOn(e, "create")') = IF shelf'[e] = "absent" THEN 0 ELSE 1
             /\ Cardinality(CommittedOn(e, "complete")')
                  = Cardinality(CommittedOn(e, "reopen")')
                    + IF shelf'[e] = "completed" THEN 1 ELSE 0
  <2>1. /\ N(e, "create") = IF shelf[e] = "absent" THEN 0 ELSE 1
        /\ N(e, "complete") = N(e, "reopen") + IF shelf[e] = "completed" THEN 1 ELSE 0
        /\ N(e, "complete") \in Nat /\ N(e, "reopen") \in Nat
    BY <1>3 DEF EffectInv, EffectsAlternate, Ops
  <2>2. CASE e # d
    <3>1. \A o \in Ops : Cardinality(CommittedOn(e, o)') = N(e, o)
      BY <1>4, <2>2
    <3>2. shelf'[e] = shelf[e]
      BY <1>1, <2>2
    <3> HIDE DEF N
    <3> QED BY <2>1, <3>1, <3>2 DEF Ops
  <2>3. CASE e = d
    <3>1. \A o \in Ops : Cardinality(CommittedOn(e, o)') = IF o = w THEN N(e, o) + 1 ELSE N(e, o)
      BY <1>4, <1>6, <2>3
    <3>2. /\ shelf'[e] = IF w = "create" THEN "queued" ELSE To(w)
          /\ w = "create" => shelf[e] = "absent"
          /\ w # "create" => shelf[e] = From(w)
      BY <1>1, <2>3
    <3> HIDE DEF N
    <3>3. CASE w = "create"
      BY <2>1, <3>1, <3>2, <3>3 DEF Ops
    <3>4. CASE w = "complete"
      BY <2>1, <3>1, <3>2, <3>4 DEF Ops, From, To
    <3>5. CASE w = "reopen"
      BY <2>1, <3>1, <3>2, <3>5 DEF Ops, From, To
    <3> QED BY <1>1, <3>3, <3>4, <3>5
  <2> QED BY <2>2, <2>3
<1> QED BY <1>2, <1>7 DEF EffectInv, EffectsAlternate

\* The commands that took effect on an entry are one create and then
\* completes and reopens in turn: of two conflicting commands one commits.
THEOREM ConflictsSerialize == Spec => []EffectsAlternate
<1>1. Init => EffectInv
  <2>1. ASSUME Init PROVE \A e \in Entries, o \in Ops : CommittedOn(e, o) = {}
    BY <2>1 DEF Init, CommittedOn
  <2>2. Cardinality({}) = 0 /\ IsFiniteSet({})
    BY FS_EmptySet
  <2>3. ASSUME Init PROVE \A e \in Entries : shelf[e] = "absent"
    BY <2>3 DEF Init
  <2>4. ASSUME Init PROVE IsFiniteSet(committed)
    BY <2>2, <2>4 DEF Init
  <2> QED BY <2>1, <2>2, <2>3, <2>4 DEF EffectInv, EffectsAlternate, Ops
<1>2. IInv /\ EffectInv /\ [Next]_vars => EffectInv'
  <2> SUFFICES ASSUME IInv, EffectInv, [Next]_vars PROVE EffectInv'
    OBVIOUS
  <2>1. CASE \E c \in Commands : Writes(c)
    BY <2>1, HistoryGrows
  <2>2. CASE ~ \E c \in Commands : Writes(c)
    <3>1. UNCHANGED <<shelf, owner>>
      BY <2>2, TablesMove
    <3> QED BY <2>2, <3>1, HistoryKept DEF EffectInv, EffectsAlternate
  <2> QED BY <2>1, <2>2
<1>3. EffectInv => EffectsAlternate
  BY DEF EffectInv
<1> QED BY <1>1, <1>2, <1>3, Invariance, PTL DEF Spec

-----------------------------------------------------------------------------
(* Nobody waits for ever.                                                  *)

\* Who holds a row: a progress row is held from its INSERT, or from the last
\* UPDATE of a change, to the end; the row of an entry from the SELECT that
\* locked it or the INSERT.
HolderInv ==
  /\ \A a \in Accounts : progressLock[a] # Nobody =>
       tx[progressLock[a]] \in {"rowed", "ready"}
  /\ \A e \in Entries : entryLock[e] # Nobody =>
       tx[entryLock[e]] \in {"locked", "updated", "ready"}

LEMMA HolderNext ==
  ASSUME IInv, HolderInv, [Next]_vars
  PROVE  HolderInv'
<1>1. ASSUME NEW c \in Commands, NEW answer, End(c, answer) PROVE HolderInv'
  BY <1>1 DEF IInv, TypeOK, HolderInv, End
<1>2. ASSUME NEW c \in Commands, Statement(c) \/ Fault(c) PROVE HolderInv'
  <2>1. CASE InsertProgressRow(c)
    BY <2>1 DEF IInv, TypeOK, HolderInv, InsertProgressRow, Advance
  <2>2. CASE InsertEntry(c)
    BY <2>2 DEF IInv, TypeOK, HolderInv, InsertEntry, Advance
  <2>3. CASE LockEntry(c) \/ UpdateState(c)
    BY <2>3 DEF IInv, TypeOK, HolderInv, LockEntry, UpdateState, Advance, locks
  <2>4. CASE AdjustProgress(c)
    <3>1. Adjustable(c)
      BY <2>4, AlwaysAdjustable DEF AdjustProgress
    <3> QED BY <2>4, <3>1 DEF IInv, TypeOK, HolderInv, AdjustProgress, Advance
  <2>5. CASE LoadProgress(c)
    <3>1. Advance(c, "begun", "ready") /\ UNCHANGED locks
      BY <2>5 DEF LoadProgress, IInv, ArgInv, ProgressExact, Open
    <3> QED BY <3>1 DEF IInv, TypeOK, HolderInv, Advance, locks
  <2> QED BY <1>1, <1>2, <2>1, <2>2, <2>3, <2>4, <2>5, AnswerKinds DEF Commit, Rollback
<1>3. ASSUME NEW c \in Commands, Begin(c) PROVE HolderInv'
  BY <1>3 DEF IInv, TypeOK, HolderInv, Begin, Advance, locks
<1>4. CASE UNCHANGED vars
  BY <1>4 DEF HolderInv, vars, locks
<1> QED BY <1>2, <1>3, <1>4 DEF Next, Answered

\* A command that is past its INSERT of the progress row, or ready, waits for
\* nobody; one that holds an entry can only wait for the progress row.
LEMMA HolderRuns ==
  ASSUME IInv, HolderInv
  PROVE  /\ \A a \in Accounts : progressLock[a] # Nobody =>
              progressLock[a] \in Open /\ Blocker(progressLock[a]) = Nobody
         /\ \A e \in Entries : entryLock[e] # Nobody =>
              /\ entryLock[e] \in Open
              /\ \/ Blocker(entryLock[e]) = Nobody
                 \/ \E a \in Accounts : Blocker(entryLock[e]) = progressLock[a]
<1>1. ASSUME NEW d \in Commands, tx[d] \in {"rowed", "locked", "ready"}
      PROVE  d \in Open /\ Blocker(d) = Nobody
  BY <1>1 DEF Open, Blocker
<1>2. ASSUME NEW d \in Commands, tx[d] = "updated"
      PROVE  /\ d \in Open
             /\ \/ Blocker(d) = Nobody
                \/ \E a \in Accounts : Blocker(d) = progressLock[a]
  BY <1>2 DEF Open, Blocker, IInv, ArgInv
<1>3. /\ \A a \in Accounts : progressLock[a] \in Commands \cup {Nobody}
      /\ \A e \in Entries : entryLock[e] \in Commands \cup {Nobody}
  BY DEF IInv, TypeOK
<1> QED BY <1>1, <1>2, <1>3 DEF HolderInv

\* While transactions are open, one of them waits for no other: a row of an
\* entry is always locked before the progress row, and whoever holds the
\* progress row has nothing left to wait for.
THEOREM NoDeadlock == Spec => []NobodyStuck
<1>1. Init => HolderInv
  BY DEF Init, HolderInv
<1>2. IInv /\ HolderInv /\ [Next]_vars => HolderInv'
  BY HolderNext
<1>3. IInv /\ HolderInv => NobodyStuck
  <2> SUFFICES ASSUME IInv, HolderInv, NEW c \in Open
               PROVE  \E d \in Open : Blocker(d) = Nobody
    BY DEF NobodyStuck
  <2>1. \/ Blocker(c) = Nobody
        \/ \E a \in Accounts : Blocker(c) = progressLock[a]
        \/ \E e \in Entries : Blocker(c) = entryLock[e]
    BY DEF Blocker, IInv, ArgInv, Open, Changes
  <2>2. ASSUME NEW a \in Accounts, progressLock[a] # Nobody
        PROVE  \E d \in Open : Blocker(d) = Nobody
    BY <2>2, HolderRuns
  <2>3. ASSUME NEW e \in Entries, entryLock[e] # Nobody
        PROVE  \E d \in Open : Blocker(d) = Nobody
    BY <2>2, <2>3, HolderRuns
  <2> QED BY <2>1, <2>2, <2>3
<1> QED BY <1>1, <1>2, <1>3, Invariance, PTL DEF Spec

-----------------------------------------------------------------------------
(* The screen over the pages of the queue.                                 *)

CONSTANTS NoPage, Old, New, QueryRetries, MaxVersion, MaxRefreshes, MaxSwitches, MaxAbsences

View == INSTANCE ReadingQueueView

-----------------------------------------------------------------------------
(* The order of a list, and ORDER BY.                                      *)

\* Each sort is a strict total order of the positions.
LEMMA PrecedesIsOrder ==
  ASSUME NEW sort, NEW i \in Nat, NEW j \in Nat, NEW k \in Nat
  PROVE  /\ ~ View!Precedes(sort, i, i)
         /\ i = j \/ View!Precedes(sort, i, j) \/ View!Precedes(sort, j, i)
         /\ View!Precedes(sort, i, j) => ~ View!Precedes(sort, j, i)
         /\ View!Precedes(sort, i, j) /\ View!Precedes(sort, j, k) => View!Precedes(sort, i, k)
BY DEF View!Precedes

\* Every finite set of positions has an ascending sequence without
\* repetition.
LEMMA SortedExists ==
  ASSUME NEW sort, NEW S \in SUBSET Nat, IsFiniteSet(S)
  PROVE  \E s \in [1 .. Cardinality(S) -> S] :
           \A i, j \in DOMAIN s : i < j => View!Precedes(sort, s[i], s[j])
<1> DEFINE n == Cardinality(S)
           UpTo(p) == {q \in S : ~ View!Precedes(sort, p, q)}
           rank == [p \in S |-> Cardinality(UpTo(p))]
<1>1. n \in Nat
  BY FS_CardinalityType
<1>2. ASSUME NEW p \in S
      PROVE  /\ p \in UpTo(p) /\ UpTo(p) \subseteq S /\ IsFiniteSet(UpTo(p))
             /\ rank[p] = Cardinality(UpTo(p)) /\ rank[p] \in 1 .. n
  <2>1. p \in UpTo(p) /\ UpTo(p) \subseteq S
    BY <1>2, PrecedesIsOrder
  <2>2. IsFiniteSet(UpTo(p)) /\ Cardinality(UpTo(p)) <= n
    BY <2>1, FS_Subset
  <2>3. Cardinality(UpTo(p)) \in Nat /\ Cardinality(UpTo(p)) # 0
    BY <2>1, <2>2, FS_CardinalityType, FS_EmptySet
  <2> HIDE DEF n, UpTo
  <2> QED BY <1>1, <2>1, <2>2, <2>3
<1>3. ASSUME NEW p \in S, NEW q \in S, View!Precedes(sort, p, q)
      PROVE  rank[p] < rank[q]
  <2>1. UpTo(p) \subseteq UpTo(q)
    <3> SUFFICES ASSUME NEW r \in UpTo(p) PROVE r \in UpTo(q)
      OBVIOUS
    <3>1. r \in Nat /\ p \in Nat /\ q \in Nat /\ r \in S
      OBVIOUS
    <3> QED BY <1>3, <3>1, PrecedesIsOrder
  <2>2. q \in UpTo(q) /\ q \notin UpTo(p)
    BY <1>2, <1>3
  <2>3. UpTo(p) # UpTo(q)
    BY <2>2
  <2>4. Cardinality(UpTo(p)) <= Cardinality(UpTo(q))
        /\ Cardinality(UpTo(p)) # Cardinality(UpTo(q))
    BY <1>2, <2>1, <2>3, FS_Subset
  <2> HIDE DEF UpTo
  <2>5. /\ rank[p] = Cardinality(UpTo(p)) /\ rank[q] = Cardinality(UpTo(q))
        /\ rank[p] \in Int /\ rank[q] \in Int
    BY <1>2, <1>1
  <2> QED BY <2>4, <2>5
<1>4. rank \in Bijection(S, 1 .. n)
  <2> HIDE DEF n
  <2>1. rank \in [S -> 1 .. n]
    BY <1>2 DEF rank
  <2> HIDE DEF rank
  <2>2. \A p, q \in S : rank[p] = rank[q] => p = q
    <3> SUFFICES ASSUME NEW p \in S, NEW q \in S, p # q PROVE rank[p] # rank[q]
      OBVIOUS
    <3>1. View!Precedes(sort, p, q) \/ View!Precedes(sort, q, p)
      BY PrecedesIsOrder
    <3>2. rank[p] \in Int /\ rank[q] \in Int
      BY <1>1, <2>1
    <3> QED BY <1>3, <3>1, <3>2
  <2>3. rank \in Injection(S, 1 .. n)
    BY <2>1, <2>2 DEF Injection, IsInjective
  <2>4. IsFiniteSet(1 .. n) /\ Cardinality(1 .. n) = n
    BY <1>1, FS_Interval
  <2>5. rank \in Surjection(S, 1 .. n)
    BY <2>3, <2>4, FS_Injection DEF n
  <2> QED BY <2>3, <2>5 DEF Bijection
<1> DEFINE s == [i \in 1 .. n |-> CHOOSE p \in S : rank[p] = i]
<1>5. ASSUME NEW i \in 1 .. n PROVE s[i] \in S /\ rank[s[i]] = i
  <2> HIDE DEF n, rank
  <2>1. \E p \in S : rank[p] = i
    BY <1>4 DEF Bijection, Surjection
  <2> QED BY <2>1
<1>6. s \in [1 .. n -> S]
  <2> HIDE DEF n, rank
  <2> QED BY <1>5
<1>7. ASSUME NEW i \in 1 .. n, NEW j \in 1 .. n, i < j
      PROVE  View!Precedes(sort, s[i], s[j])
  <2>1. s[i] \in S /\ s[j] \in S /\ rank[s[i]] = i /\ rank[s[j]] = j
    BY <1>5
  <2> HIDE DEF n, rank, s
  <2>2. s[i] # s[j] /\ ~ (rank[s[j]] < rank[s[i]])
    BY <1>1, <1>7, <2>1
  <2> QED BY <1>3, <2>1, <2>2, PrecedesIsOrder
<1> HIDE DEF s, rank
<1>8. DOMAIN s = 1 .. n
  BY <1>6
<1> QED BY <1>6, <1>7, <1>8

LEMMA CardinalityIs ==
  ASSUME NEW S
  PROVE  View!Cardinality(S) = Cardinality(S)
BY Zenon DEF View!Cardinality, Cardinality

\* What the query returns: the set, in its order.
LEMMA SortedIs ==
  ASSUME NEW sort, NEW S \in SUBSET Nat, IsFiniteSet(S)
  PROVE  /\ View!Sorted(sort, S) \in Seq(S)
         /\ \A i, j \in 1 .. Len(View!Sorted(sort, S)) :
              i < j => View!Precedes(sort, View!Sorted(sort, S)[i], View!Sorted(sort, S)[j])
         /\ \A p \in S : \E i \in 1 .. Len(View!Sorted(sort, S)) : View!Sorted(sort, S)[i] = p
<1> DEFINE n == Cardinality(S)
           s == View!Sorted(sort, S)
<1>1. /\ s \in [1 .. n -> S]
      /\ \A i, j \in DOMAIN s : i < j => View!Precedes(sort, s[i], s[j])
  BY SortedExists, CardinalityIs DEF View!Sorted
<1>2. n \in Nat
  BY FS_CardinalityType
<1> HIDE DEF s
<1>3. s \in Injection(1 .. n, S)
  <2> HIDE DEF n
  <2>1. ASSUME NEW i \in 1 .. n, NEW j \in 1 .. n, s[i] = s[j], i < j PROVE FALSE
    <3>1. View!Precedes(sort, s[i], s[j]) /\ s[i] \in Nat
      BY <1>1, <2>1
    <3> QED BY <2>1, <3>1, PrecedesIsOrder
  <2>2. ASSUME NEW i \in 1 .. n, NEW j \in 1 .. n, s[i] = s[j] PROVE i = j
    <3>1. i < j \/ j < i \/ i = j
      BY <1>2
    <3> QED BY <2>1, <2>2, <3>1
  <2> QED BY <1>1, <2>2 DEF Injection, IsInjective
<1>4. s \in Surjection(1 .. n, S)
  <2>1. Cardinality(1 .. n) = n
    <3> HIDE DEF n
    <3> QED BY <1>2, FS_Interval
  <2> QED BY <1>3, <2>1, FS_Injection
<1> HIDE DEF n
<1>5. s \in Seq(S) /\ Len(s) = n
  BY <1>1, <1>2
<1>6. \A p \in S : \E i \in 1 .. n : s[i] = p
  BY <1>4 DEF Surjection
<1> QED BY <1>1, <1>5, <1>6 DEF s
-----------------------------------------------------------------------------
(* Pages, and lists of pages.                                              *)

InOrder(sort, page) ==
  \A k, l \in DOMAIN page.items :
    k < l => View!Precedes(sort, page.items[k], page.items[l])

Has(page, q) == \E k \in DOMAIN page.items : page.items[k] = q

Beyond(sort, page, q) ==
  page.next # NoCursor /\ View!Precedes(sort, page.next.position, q)

\* The cursor of a page lies behind none of the items.
Covers(sort, page, items) ==
  page.next # NoCursor =>
    \A k \in DOMAIN items : ~ View!Precedes(sort, page.next.position, items[k])

\* What the answer to a cursor shows: the rows behind the cursor, all that
\* were there up to its own cursor.
Answers(sort, cursor, page) ==
  /\ InOrder(sort, page)
  /\ Covers(sort, page, page.items)
  /\ cursor # NoCursor =>
       \A k \in DOMAIN page.items : View!Precedes(sort, cursor.position, page.items[k])
  /\ cursor # NoCursor /\ page.next # NoCursor =>
       View!Precedes(sort, cursor.position, page.next.position)
  /\ \A q \in page.had :
       (cursor # NoCursor => View!Precedes(sort, cursor.position, q))
         => Has(page, q) \/ Beyond(sort, page, q)

\* A list of pages: each one in order, behind the ones before it, its cursor
\* behind nothing shown so far, and nothing left out between its start and
\* that cursor.
PagesInOrder(sort, pages) ==
  /\ \A i \in DOMAIN pages : InOrder(sort, pages[i])
  /\ \A i, j \in DOMAIN pages : i < j =>
       \A k \in DOMAIN pages[i].items, l \in DOMAIN pages[j].items :
         View!Precedes(sort, pages[i].items[k], pages[j].items[l])

PagesCovered(sort, pages) ==
  \A i, j \in DOMAIN pages : i <= j => Covers(sort, pages[j], pages[i].items)

PagesComplete(sort, pages) ==
  \A j \in DOMAIN pages : \A q \in Nat :
    (\A i \in 1 .. j : q \in pages[i].had) =>
      (\E i \in 1 .. j : Has(pages[i], q)) \/ Beyond(sort, pages[j], q)

Chain(sort, pages) ==
  PagesInOrder(sort, pages) /\ PagesCovered(sort, pages) /\ PagesComplete(sort, pages)

\* The cursor at the end of a list.
EndOf(pages) == IF pages = <<>> THEN NoCursor ELSE View!Last(pages).next

-----------------------------------------------------------------------------

\* Everything of S is in the list.
Lists(found, S) == \A p \in S : \E i \in 1 .. Len(found) : found[i] = p

\* The rows of the query.
LEMMA RowsOfServer ==
  ASSUME Len(order) \in Nat, DOMAIN order = 1 .. Len(order), NEW ctx, NEW cursor
  PROVE  \A S, found : S = View!Remaining(order, row, ctx, cursor) 
            /\ found = View!Rows(order, row, ctx, cursor) =>
         /\ S \in SUBSET Nat /\ View!Selected(order, row, ctx) \in SUBSET Nat
         /\ found \in Seq(S)
         /\ \A i, j \in 1 .. Len(found) : i < j => View!Precedes(ctx.sort, found[i], found[j])
         /\ Lists(found, S)
<1> SUFFICES ASSUME NEW S, NEW found, S = View!Remaining(order, row, ctx, cursor),
                    found = View!Rows(order, row, ctx, cursor)
             PROVE  /\ S \in SUBSET Nat /\ View!Selected(order, row, ctx) \in SUBSET Nat
                    /\ found \in Seq(S)
                    /\ \A i, j \in 1 .. Len(found) : i < j => View!Precedes(ctx.sort, found[i], found[j])
                    /\ Lists(found, S)
  OBVIOUS
<1>1. S \subseteq 1 .. Len(order) /\ View!Selected(order, row, ctx) \subseteq 1 .. Len(order)
  BY DEF View!Selected, View!Remaining
<1>2. IsFiniteSet(1 .. Len(order)) /\ 1 .. Len(order) \subseteq Nat
  BY FS_Interval
<1>3. found = View!Sorted(ctx.sort, S)
  BY DEF View!Rows
<1>4. IsFiniteSet(S) /\ S \in SUBSET Nat
  BY <1>1, <1>2, FS_Subset
<1>5. View!Selected(order, row, ctx) \in SUBSET Nat
  BY <1>1, <1>2
<1>6. /\ found \in Seq(S)
      /\ \A i, j \in 1 .. Len(found) : i < j => View!Precedes(ctx.sort, found[i], found[j])
      /\ \A p \in S : \E i \in 1 .. Len(found) : found[i] = p
  BY <1>3, <1>4, SortedIs
<1> QED BY <1>4, <1>5, <1>6 DEF Lists

LEMMA PrefixOfNats ==
  ASSUME NEW S \in SUBSET Nat, NEW found \in Seq(S), NEW n \in 0 .. Len(found)
  PROVE  SubSeq(found, 1, n) \in Seq(Nat)
<1>1. Len(found) \in Nat /\ n \in Int /\ 1 \in Int
  BY LenProperties
<1>2. \A i \in 1 .. n : i \in 1 .. Len(found)
  BY <1>1
<1>3. \A i \in 1 .. n : found[i] \in S
  BY <1>2, ElementOfSeq
<1>4. \A i \in 1 .. n : found[i] \in Nat
  BY <1>3
<1> QED BY <1>1, <1>4, SubSeqProperties

\* A page is the rows up to the limit, with a cursor of the last one when
\* there are more.
LEMMA PageOfRows ==
  ASSUME NEW sort, NEW limit \in Nat, limit >= 1, NEW S \in SUBSET Nat,
         NEW found \in Seq(S),
         \A i, j \in 1 .. Len(found) : i < j => View!Precedes(sort, found[i], found[j]),
         NEW n \in 0 .. Len(found),
         n = IF Len(found) > limit THEN limit ELSE Len(found),
         NEW items, items = SubSeq(found, 1, n)
  PROVE  /\ items \in Seq(Nat) /\ DOMAIN items = 1 .. n
         /\ \A k \in 1 .. n : items[k] = found[k] /\ items[k] \in S
         /\ \A k, l \in 1 .. n : k < l => View!Precedes(sort, items[k], items[l])
         /\ Len(found) > limit =>
              /\ n = limit /\ n \in 1 .. Len(found) /\ found[n] \in S
         /\ ~ (Len(found) > limit) => n = Len(found)
<1>1. /\ Len(found) \in Nat
      /\ \A i \in 1 .. Len(found) : found[i] \in S /\ found[i] \in Nat
  <2>1. Len(found) \in Nat
    BY LenProperties
  <2>2. \A i \in 1 .. Len(found) : found[i] \in S
    BY ElementOfSeq
  <2> QED BY <2>1, <2>2
<1>2. \A i \in 1 .. n : i \in 1 .. Len(found)
  BY <1>1
<1>3. /\ items \in Seq(Nat) /\ Len(items) = n
      /\ \A k \in 1 .. n : items[k] = found[k]
  <2>1. /\ SubSeq(found, 1, n) \in Seq(Nat)
        /\ Len(SubSeq(found, 1, n)) = IF 1 <= n THEN n - 1 + 1 ELSE 0
        /\ \A i \in 1 .. n - 1 + 1 : SubSeq(found, 1, n)[i] = found[1 + i - 1]
    <3>1. \A i \in 1 .. n : found[i] \in Nat
      BY <1>1, <1>2
    <3>2. n \in Int /\ 1 \in Int
      BY <1>1
    <3> QED BY <3>1, <3>2, SubSeqProperties
  <2>2. items \in Seq(Nat) /\ Len(items) = n
    BY <1>1, <2>1
  <2>3. ASSUME NEW k \in 1 .. n PROVE items[k] = found[k]
    <3>1. k \in 1 .. n - 1 + 1 /\ 1 + k - 1 = k
      BY <1>1
    <3> QED BY <2>1, <3>1
  <2> QED BY <2>2, <2>3
<1>4. DOMAIN items = 1 .. n
  BY <1>3
<1>5. \A k \in 1 .. n : items[k] = found[k] /\ items[k] \in S
  BY <1>1, <1>2, <1>3
<1>6. \A k, l \in 1 .. n : k < l => View!Precedes(sort, items[k], items[l])
  BY <1>2, <1>3
<1>7. Len(found) > limit => n = limit /\ n \in 1 .. Len(found) /\ found[n] \in S
  BY <1>1
<1> QED BY <1>3, <1>4, <1>5, <1>6, <1>7

IsPage(page) ==
  page = [items |-> page.items, next |-> page.next, at |-> page.at, had |-> page.had]

\* What the server answers to a cursor.
LEMMA AnswerOfServer ==
  ASSUME View!ViewAssumption, Len(order) \in Nat, DOMAIN order = 1 .. Len(order),
         version \in Nat,
         NEW ctx \in Variants, NEW cursor, NEW answer,
         answer = View!ListReadingEntries(order, row, ctx, cursor),
         NEW page, IsPage(page), page.items = answer.items, page.next = answer.next,
         page.at = version, page.had = View!Selected(order, row, ctx)
  PROVE  page \in View!Pages /\ Answers(ctx.sort, cursor, page)
<1>1. PICK S, found :
        /\ S = View!Remaining(order, row, ctx, cursor)
        /\ found = View!Rows(order, row, ctx, cursor)
  OBVIOUS
<1>2. S \in SUBSET Nat /\ found \in Seq(S) /\ View!Selected(order, row, ctx) \in SUBSET Nat
  <2>1. S \in SUBSET Nat BY <1>1, RowsOfServer
  <2>2. found \in Seq(S) BY <1>1, RowsOfServer
  <2>3. View!Selected(order, row, ctx) \in SUBSET Nat BY <1>1, RowsOfServer
  <2> QED BY <2>1, <2>2, <2>3
<1>3. \A i, j \in 1 .. Len(found) : i < j => View!Precedes(ctx.sort, found[i], found[j])
  BY <1>1, RowsOfServer
<1>4. \A p \in S : \E i \in 1 .. Len(found) : found[i] = p
  <2>1. Lists(found, S)
    BY <1>1, RowsOfServer
  <2> QED BY <2>1 DEF Lists
<1>5. PICK limit \in 1 .. 50 : limit = ctx.limit
  BY DEF View!ViewAssumption, View!MaxPageSize
<1>6. NoCursor \notin View!Cursors
  BY DEF View!ViewAssumption
<1>7. limit \in Nat /\ limit >= 1
  OBVIOUS
<1>8. PICK n : n = IF Len(found) > limit THEN limit ELSE Len(found)
  OBVIOUS
<1>9. n \in 0 .. Len(found) /\ Len(found) \in Nat
  BY <1>2, <1>5, <1>8
<1>10. /\ page.items = SubSeq(found, 1, n)
       /\ page.next = IF Len(found) > limit THEN View!Cursor(ctx, found[limit]) ELSE NoCursor
       /\ page.at = version /\ page.had = View!Selected(order, row, ctx)
  BY <1>1, <1>5, <1>8 DEF View!ListReadingEntries, View!NextCursor
<1>11. \A i \in S : /\ i \in Nat /\ i \in page.had
                    /\ cursor # NoCursor => View!Precedes(ctx.sort, cursor.position, i)
  BY <1>1, <1>2, <1>10 DEF View!Follows, View!Remaining
<1>12. ASSUME NEW q \in page.had, cursor # NoCursor => View!Precedes(ctx.sort, cursor.position, q)
       PROVE  q \in S
  BY <1>1, <1>10, <1>12 DEF View!Follows, View!Remaining
<1>13. /\ page.items \in Seq(Nat) /\ DOMAIN page.items = 1 .. n
       /\ \A k \in 1 .. n : page.items[k] = found[k] /\ page.items[k] \in S
       /\ \A k, l \in 1 .. n : k < l => View!Precedes(ctx.sort, page.items[k], page.items[l])
       /\ Len(found) > limit =>
            /\ n = limit /\ n \in 1 .. Len(found) /\ found[n] \in S
            /\ \A k \in 1 .. n : ~ View!Precedes(ctx.sort, found[n], page.items[k])
            /\ \A k \in 1 .. Len(found) : k > n => View!Precedes(ctx.sort, found[n], found[k])
       /\ ~ (Len(found) > limit) => n = Len(found)
  <2> USE <1>2, <1>7, <1>3, <1>8, <1>9, <1>10
  <2>1. page.items \in Seq(Nat)
    <3>1. SubSeq(found, 1, n) \in Seq(Nat)
      BY <1>2, <1>9, PrefixOfNats
    <3> QED BY <1>10, <3>1
  <2>2. DOMAIN page.items = 1 .. n BY PageOfRows
  <2>3. \A k \in 1 .. n : page.items[k] = found[k] /\ page.items[k] \in S BY PageOfRows
  <2>4. \A k, l \in 1 .. n : k < l => View!Precedes(ctx.sort, page.items[k], page.items[l])
    BY PageOfRows
  <2>5. ASSUME Len(found) > limit
        PROVE  /\ n = limit /\ n \in 1 .. Len(found) /\ found[n] \in S
               /\ \A k \in 1 .. n : ~ View!Precedes(ctx.sort, found[n], page.items[k])
               /\ \A k \in 1 .. Len(found) : k > n => View!Precedes(ctx.sort, found[n], found[k])
    <3> USE <2>5
    <3>1. n = limit /\ n \in 1 .. Len(found) BY <1>9
    <3>2. found[n] \in S BY PageOfRows
    <3>3. ASSUME NEW k \in 1 .. n PROVE ~ View!Precedes(ctx.sort, found[n], page.items[k])
      <4>1. page.items[k] = found[k] /\ found[k] \in Nat /\ found[n] \in Nat
        BY <2>3, <3>2
      <4>2. k = n \/ k < n
        BY <1>9
      <4>3. k \in 1 .. Len(found)
        BY <1>9
      <4>4. k < n => View!Precedes(ctx.sort, found[k], found[n])
        BY <1>3, <3>1, <4>3
      <4> QED BY <4>1, <4>2, <4>4, PrecedesIsOrder
    <3>4. \A k \in 1 .. Len(found) : k > n => View!Precedes(ctx.sort, found[n], found[k])
      BY <3>1
    <3> QED BY <3>1, <3>2, <3>3, <3>4
  <2>6. ~ (Len(found) > limit) => n = Len(found) BY PageOfRows
  <2> QED BY <2>1, <2>2, <2>3, <2>4, <2>5, <2>6
<1>14. ASSUME Len(found) > limit
       PROVE  /\ page.next \in View!Cursors /\ page.next.position = found[n]
              /\ page.next # NoCursor
  <2>1. page.next = View!Cursor(ctx, found[n]) /\ found[n] \in Nat
    BY <1>10, <1>11, <1>13, <1>14
  <2> QED BY <1>6, <2>1 DEF View!Cursor, View!Cursors
<1>15. page.next # NoCursor => Len(found) > limit
  BY <1>10
<1>16. page \in View!Pages
  <2>1. page.next \in View!Cursors \cup {NoCursor}
    BY <1>14, <1>15
  <2>2. page.had \in SUBSET Nat /\ page.at \in Nat
    BY <1>2, <1>10
  <2> QED BY <1>13, <2>1, <2>2 DEF View!Pages, IsPage
<1>17. InOrder(ctx.sort, page) /\ Covers(ctx.sort, page, page.items)
  BY <1>13, <1>14, <1>15 DEF InOrder, Covers
<1>18. /\ cursor # NoCursor =>
            \A k \in DOMAIN page.items : View!Precedes(ctx.sort, cursor.position, page.items[k])
       /\ cursor # NoCursor /\ page.next # NoCursor =>
            View!Precedes(ctx.sort, cursor.position, page.next.position)
  BY <1>11, <1>13, <1>14, <1>15
<1>19. ASSUME NEW q \in page.had, cursor # NoCursor => View!Precedes(ctx.sort, cursor.position, q)
       PROVE  Has(page, q) \/ Beyond(ctx.sort, page, q)
  <2>1. q \in S
    BY <1>12, <1>19
  <2>2. PICK i \in 1 .. Len(found) : found[i] = q
    BY <1>4, <2>1
  <2>3. CASE i \in 1 .. n
    BY <1>13, <2>2, <2>3 DEF Has
  <2>4. CASE ~ (i \in 1 .. n)
    <3>1. Len(found) > limit /\ i > n
      BY <1>5, <1>9, <1>13, <2>4
    <3> QED BY <1>13, <1>14, <2>2, <3>1 DEF Beyond
  <2> QED BY <2>3, <2>4
<1> QED BY <1>16, <1>17, <1>18, <1>19 DEF Answers
-----------------------------------------------------------------------------
(* What happens to a list: it starts empty, grows at its end, is cut to    *)
(* its first page.                                                         *)

LEMMA ChainEmpty ==
  ASSUME NEW sort
  PROVE  Chain(sort, <<>>)
BY DEF Chain, PagesInOrder, PagesCovered, PagesComplete

LEMMA ChainHead ==
  ASSUME NEW sort, NEW pages \in Seq(View!Pages), pages # <<>>, Chain(sort, pages)
  PROVE  Chain(sort, <<Head(pages)>>) /\ <<Head(pages)>> \in Seq(View!Pages)
<1> DEFINE one == <<Head(pages)>>
<1>1. /\ one \in Seq(View!Pages) /\ DOMAIN one = {1} /\ one[1] = pages[1]
      /\ 1 \in DOMAIN pages
  OBVIOUS
<1> HIDE DEF one
<1>2. PagesInOrder(sort, one)
  BY <1>1 DEF Chain, PagesInOrder
<1>3. PagesCovered(sort, one)
  BY <1>1 DEF Chain, PagesCovered
<1>4. PagesComplete(sort, one)
  <2>1. 1 .. 1 = {1}
    OBVIOUS
  <2> QED BY <1>1, <2>1 DEF Chain, PagesComplete
<1> QED BY <1>1, <1>2, <1>3, <1>4 DEF Chain, one

LEMMA ChainAppend ==
  ASSUME View!ViewAssumption, NEW sort,
         NEW pages \in Seq(View!Pages), Chain(sort, pages),
         NEW page \in View!Pages, Answers(sort, EndOf(pages), page),
         pages # <<>> => EndOf(pages) # NoCursor
  PROVE  Chain(sort, Append(pages, page)) /\ Append(pages, page) \in Seq(View!Pages)
<1> DEFINE n == Len(pages)
           more == Append(pages, page)
<1>1. /\ n \in Nat /\ DOMAIN pages = 1 .. n
      /\ more \in Seq(View!Pages) /\ DOMAIN more = 1 .. n + 1
      /\ more[n + 1] = page /\ \A i \in 1 .. n : more[i] = pages[i]
  BY LenProperties, AppendProperties
<1>2. pages # <<>> <=> n > 0
  BY <1>1, EmptySeq
<1>3. ASSUME n > 0
      PROVE  /\ EndOf(pages) = pages[n].next /\ pages[n].next # NoCursor
             /\ pages[n].next.position \in Nat /\ n \in 1 .. n
  <2>1. EndOf(pages) = pages[n].next /\ n \in 1 .. n /\ pages[n] \in View!Pages
    BY <1>1, <1>2, <1>3, ElementOfSeq DEF EndOf, View!Last
  <2>2. pages[n].next \in View!Cursors
    BY <1>2, <1>3, <2>1 DEF View!Pages
  <2> QED BY <1>2, <1>3, <2>1, <2>2 DEF View!Cursors
<1>4. /\ \A i \in 1 .. n : \A k \in DOMAIN pages[i].items : pages[i].items[k] \in Nat
      /\ \A k \in DOMAIN page.items : page.items[k] \in Nat
      /\ page.next # NoCursor => page.next.position \in Nat
  <2>1. ASSUME NEW p \in View!Pages
        PROVE  /\ \A k \in DOMAIN p.items : p.items[k] \in Nat
               /\ p.next # NoCursor => p.next.position \in Nat
    <3>1. p.items \in Seq(Nat) /\ p.next \in View!Cursors \cup {NoCursor}
      BY DEF View!Pages
    <3>2. \A k \in DOMAIN p.items : p.items[k] \in Nat
      BY <3>1, ElementOfSeq, LenProperties
    <3>3. \A d \in View!Cursors : d.position \in Nat
      BY DEF View!Cursors
    <3> QED BY <3>1, <3>2, <3>3
  <2>2. ASSUME NEW i \in 1 .. n
        PROVE  \A k \in DOMAIN pages[i].items : pages[i].items[k] \in Nat
    <3>1. pages[i] \in View!Pages
      BY ElementOfSeq
    <3> QED BY <2>1, <3>1
  <2>3. /\ \A k \in DOMAIN page.items : page.items[k] \in Nat
        /\ page.next # NoCursor => page.next.position \in Nat
    BY <2>1
  <2> QED BY <2>2, <2>3
<1> HIDE DEF n, more
\* The new page lies behind every page before it.
<1>5. ASSUME NEW i \in 1 .. n, NEW k \in DOMAIN pages[i].items
      PROVE  /\ ~ View!Precedes(sort, pages[n].next.position, pages[i].items[k])
             /\ n > 0 /\ pages[i].items[k] \in Nat
  <2>1. n > 0 /\ i <= n /\ n \in 1 .. n
    BY <1>1
  <2>2. Covers(sort, pages[n], pages[i].items)
    BY <1>1, <2>1 DEF Chain, PagesCovered
  <2> QED BY <1>3, <1>4, <2>1, <2>2 DEF Covers
<1>6. ASSUME NEW i \in 1 .. n, NEW k \in DOMAIN pages[i].items, NEW l \in DOMAIN page.items
      PROVE  View!Precedes(sort, pages[i].items[k], page.items[l])
  <2>1. View!Precedes(sort, pages[n].next.position, page.items[l])
    BY <1>3, <1>5 DEF Answers
  <2>2. PICK a \in Nat, b \in Nat, c \in Nat :
          a = pages[i].items[k] /\ b = pages[n].next.position /\ c = page.items[l]
    BY <1>3, <1>4, <1>5
  <2>3. ~ View!Precedes(sort, b, a) /\ View!Precedes(sort, b, c)
    BY <1>5, <2>1, <2>2
  <2>4. View!Precedes(sort, a, c)
    BY <2>3, PrecedesIsOrder
  <2> QED BY <2>2, <2>4
<1>7. ASSUME NEW i \in 1 .. n, NEW k \in DOMAIN pages[i].items, page.next # NoCursor
      PROVE  ~ View!Precedes(sort, page.next.position, pages[i].items[k])
  <2>1. View!Precedes(sort, pages[n].next.position, page.next.position)
    BY <1>3, <1>5, <1>7 DEF Answers
  <2>2. PICK a \in Nat, b \in Nat, c \in Nat :
          a = pages[i].items[k] /\ b = pages[n].next.position /\ c = page.next.position
    BY <1>3, <1>4, <1>5, <1>7
  <2>3. ~ View!Precedes(sort, b, a) /\ View!Precedes(sort, b, c)
    BY <1>5, <2>1, <2>2
  <2>4. ~ View!Precedes(sort, c, a)
    BY <2>3, PrecedesIsOrder
  <2> QED BY <2>2, <2>4
<1>8. PagesInOrder(sort, more)
  <2>1. ASSUME NEW i \in DOMAIN more PROVE InOrder(sort, more[i])
    <3>1. i = n + 1 \/ i \in 1 .. n
      BY <1>1
    <3> QED BY <1>1, <3>1 DEF Chain, PagesInOrder, Answers
  <2>2. ASSUME NEW i \in DOMAIN more, NEW j \in DOMAIN more, i < j,
               NEW k \in DOMAIN more[i].items, NEW l \in DOMAIN more[j].items
        PROVE  View!Precedes(sort, more[i].items[k], more[j].items[l])
    <3>1. i \in 1 .. n /\ (j = n + 1 \/ j \in 1 .. n) /\ more[i] = pages[i]
      BY <1>1, <2>2
    <3>2. CASE j = n + 1
      BY <1>1, <1>6, <3>1, <3>2
    <3>3. CASE j \in 1 .. n
      BY <1>1, <2>2, <3>1, <3>3 DEF Chain, PagesInOrder
    <3> QED BY <3>1, <3>2, <3>3
  <2> QED BY <2>1, <2>2 DEF PagesInOrder
<1>9. PagesCovered(sort, more)
  <2> SUFFICES ASSUME NEW i \in DOMAIN more, NEW j \in DOMAIN more, i <= j
               PROVE  Covers(sort, more[j], more[i].items)
    BY DEF PagesCovered
  <2>1. CASE j \in 1 .. n
    <3>1. i \in 1 .. n
      BY <1>1, <2>1
    <3> QED BY <1>1, <2>1, <3>1 DEF Chain, PagesCovered
  <2>2. CASE j = n + 1 /\ i = n + 1
    BY <1>1, <2>2 DEF Answers
  <2>3. CASE j = n + 1 /\ i \in 1 .. n
    BY <1>1, <1>7, <2>3 DEF Covers
  <2>4. (i \in 1 .. n \/ i = n + 1) /\ (j \in 1 .. n \/ j = n + 1)
    BY <1>1
  <2> QED BY <1>1, <2>1, <2>2, <2>3, <2>4
<1>10. PagesComplete(sort, more)
  <2> SUFFICES ASSUME NEW j \in DOMAIN more, NEW q \in Nat,
                      \A i \in 1 .. j : q \in more[i].had
               PROVE  (\E i \in 1 .. j : Has(more[i], q)) \/ Beyond(sort, more[j], q)
    BY DEF PagesComplete
  <2>1. CASE j \in 1 .. n
    <3>1. \A i \in 1 .. j : i \in 1 .. n /\ more[i] = pages[i]
      BY <1>1, <2>1
    <3>2. j \in 1 .. j
      BY <2>1
    <3> QED BY <1>1, <2>1, <3>1, <3>2 DEF Chain, PagesComplete
  <2>2. CASE j = n + 1
    <3>1. q \in page.had /\ more[j] = page /\ j \in 1 .. j
      BY <1>1, <2>2
    <3>2. CASE EndOf(pages) # NoCursor => View!Precedes(sort, EndOf(pages).position, q)
      BY <3>1, <3>2 DEF Answers
    <3>3. CASE EndOf(pages) # NoCursor /\ ~ View!Precedes(sort, EndOf(pages).position, q)
      <4>1. n > 0
        BY <1>1, <1>2, <3>3 DEF EndOf
      <4>2. n \in DOMAIN pages /\ \A i \in 1 .. n : q \in pages[i].had
        <5>1. n \in DOMAIN pages /\ \A i \in 1 .. n : i \in 1 .. j /\ more[i] = pages[i]
          BY <1>1, <2>2, <4>1
        <5> QED BY <5>1
      <4>3. (\E i \in 1 .. n : Has(pages[i], q)) \/ Beyond(sort, pages[n], q)
        BY <4>2 DEF Chain, PagesComplete
      <4>4. PICK i \in 1 .. n : Has(pages[i], q)
        BY <1>3, <3>3, <4>1, <4>3 DEF Beyond
      <4>5. i \in 1 .. j /\ more[i] = pages[i]
        BY <1>1, <2>2
      <4> QED BY <4>4, <4>5
    <3> QED BY <3>2, <3>3
  <2> QED BY <1>1, <2>1, <2>2
<1> QED BY <1>1, <1>8, <1>9, <1>10 DEF Chain, more
-----------------------------------------------------------------------------
(* The invariant of the view.                                              *)

\* The pages a fetch has so far.
Grown(f) == IF f.kind = "next" THEN f.base ELSE f.got

\* No refresh but those begun is awaited, and none by a fetch that was
\* paused from the start; the answer that is in, was read after every
\* acknowledged save; the fetch goes on where its pages end.
Sound(v, f, gen, sav, ver) ==
  /\ f.waiter <= gen
  /\ f.pause = "start" => f.waiter = 0
  /\ f.answer # NoPage => sav <= f.answer.at /\ f.answer.at <= ver
  /\ f.kind = "next" => f.base # <<>>
  /\ Chain(v.sort, Grown(f))
  /\ Grown(f) # <<>> => EndOf(Grown(f)) # NoCursor
  /\ f.answer # NoPage => Answers(v.sort, EndOf(Grown(f)), f.answer)

Good(v, f, gen, sav, ver) ==
  f # NoFetch => f \in View!Fetches /\ Sound(v, f, gen, sav, ver)

FetchesAreGood == \A v \in Variants : Good(v, fetch[v], generation, saved, version)

\* A refresh awaits the fetch of the variant on the screen.
ShownIsAwaited == \A v \in Variants : v # variant /\ fetch[v] # NoFetch => fetch[v].waiter = 0

ListsAreChains == \A v \in Variants : Chain(v.sort, data[v])

ViewInv ==
  /\ View!ViewAssumption /\ View!TypeOK
  /\ NoticeIsEarned /\ BlockedWhileRefreshing
  /\ FetchesAreGood /\ ShownIsAwaited /\ ListsAreChains

LEMMA FieldsOfFetch ==
  ASSUME View!ViewAssumption, NEW f \in View!Fetches
  PROVE  /\ f # NoFetch /\ f.kind \in {"all", "next"}
         /\ f.base \in Seq(View!Pages) /\ f.got \in Seq(View!Pages)
         /\ f.revision \in Nat /\ f.waiter \in Nat /\ f.failures \in 0 .. QueryRetries
         /\ f.answer \in View!Pages \cup {NoPage}
         /\ Grown(f) \in Seq(View!Pages)
BY DEF View!Fetches, View!ViewAssumption, Grown

\* Time goes on for a fetch.
LEMMA GoodLater ==
  ASSUME View!ViewAssumption, NEW v, NEW f, NEW gen \in Nat, NEW sav, NEW ver \in Nat,
         Good(v, f, gen, sav, ver), NEW later \in Nat, gen <= later,
         NEW latest \in Nat, ver <= latest
  PROVE  Good(v, f, later, sav, latest)
<1> SUFFICES ASSUME f # NoFetch PROVE f \in View!Fetches /\ Sound(v, f, later, sav, latest)
  BY DEF Good
<1>1. f \in View!Fetches /\ Sound(v, f, gen, sav, ver)
  BY DEF Good
<1>2. f.waiter \in Nat /\ (f.answer # NoPage => f.answer.at \in Nat)
  BY <1>1, FieldsOfFetch DEF View!Pages
<1>3. f.waiter <= later
  BY <1>1, <1>2 DEF Sound
<1>4. f.answer # NoPage => sav <= f.answer.at /\ f.answer.at <= latest
  BY <1>1, <1>2 DEF Sound
<1> QED BY <1>1, <1>3, <1>4 DEF Sound

\* A fetch that starts, from page one or behind the pages of a list.
LEMMA NewFetch ==
  ASSUME View!ViewAssumption, NEW kind \in {"all", "next"}, NEW pages \in Seq(View!Pages),
         NEW waiter \in Nat, NEW rev \in Nat,
         NEW f, f = View!Fetch(kind, pages, waiter, rev)
  PROVE  /\ f \in View!Fetches /\ f # NoFetch
         /\ f.kind = kind /\ f.base = pages /\ f.got = <<>> /\ f.answer = NoPage
         /\ f.waiter = IF "network" \in absent THEN 0 ELSE waiter
         /\ f.pause = "start" => f.waiter = 0
<1>1. Len(pages) \in Nat /\ <<>> \in Seq(View!Pages)
  BY LenProperties, EmptySeq
<1>2. View!Newest(Len(pages), 1) \in Nat
  BY <1>1 DEF View!Newest
<1>3. 0 \in 0 .. QueryRetries
  BY DEF View!ViewAssumption
<1>4. f \in View!Fetches
  BY <1>1, <1>2, <1>3 DEF View!Fetch, View!Fetches
<1>5. f # NoFetch
  BY <1>4 DEF View!ViewAssumption
<1> QED BY <1>4, <1>5 DEF View!Fetch

LEMMA NewIsGood ==
  ASSUME View!ViewAssumption, NEW v, NEW pages \in Seq(View!Pages),
         NEW waiter \in Nat, NEW rev \in Nat, NEW gen \in Nat, waiter <= gen, NEW sav, NEW ver,
         NEW f, f = View!Fetch("all", pages, waiter, rev)
  PROVE  Good(v, f, gen, sav, ver)
<1>1. /\ f \in View!Fetches /\ f.kind = "all" /\ f.got = <<>> /\ f.answer = NoPage
      /\ f.waiter = IF "network" \in absent THEN 0 ELSE waiter
      /\ f.pause = "start" => f.waiter = 0
  BY NewFetch
<1>2. f.waiter <= gen
  BY <1>1
<1>3. Grown(f) = <<>>
  BY <1>1 DEF Grown
<1> QED BY <1>1, <1>2, <1>3, ChainEmpty DEF Good, Sound

LEMMA ViewInit ==
  ASSUME View!ViewAssumption, View!Init
  PROVE  ViewInv
<1>1. /\ {QueryRetries, MaxVersion, MaxRefreshes, MaxSwitches, MaxAbsences} \subseteq Nat
      /\ Old \in Seq(View!Entries)
  BY DEF View!ViewAssumption
<1>2. <<>> \in Seq(View!Pages)
  BY EmptySeq
<1>3. ASSUME NEW v \in Variants
      PROVE  /\ Good(v, fetch[v], generation, saved, version)
             /\ fetch[v] \in View!Fetches \cup {NoFetch}
             /\ v # variant => fetch[v] = NoFetch
  <2>1. fetch[v] = IF v = variant THEN View!Fetch("all", <<>>, 0, 0) ELSE NoFetch
    BY DEF View!Init
  <2>2. CASE v = variant
    <3>1. PICK z \in Nat : z = 0 /\ z <= z
      OBVIOUS
    <3>2. fetch[v] = View!Fetch("all", <<>>, z, z) /\ generation = z
      BY <2>1, <2>2, <3>1 DEF View!Init
    <3>3. Good(v, fetch[v], generation, saved, version)
      BY <1>2, <3>1, <3>2, NewIsGood
    <3> QED BY <2>2, <3>3 DEF Good
  <2>3. CASE v # variant
    BY <2>1, <2>3 DEF Good
  <2> QED BY <2>2, <2>3
<1>4. View!TypeOK
  <2>1. MaxVersion \in Nat /\ MaxRefreshes \in Nat /\ MaxSwitches \in Nat /\ MaxAbsences \in Nat
    BY <1>1
  <2>2. order \in Seq(View!Entries)
    BY <1>1 DEF View!Init
  <2>3. row \in [View!Entries -> {"absent", "queued", "completed"}]
    BY DEF View!Init
  <2>4. data \in [Variants -> Seq(View!Pages)]
    BY <1>2 DEF View!Init
  <2>5. failed \in [Variants -> BOOLEAN] /\ variant \in Variants
    BY DEF View!Init
  <2>6. /\ version \in 0 .. MaxVersion /\ answers \subseteq 1 .. version
        /\ saved \in 0 .. version /\ firstRead \in 0 .. version
        /\ generation \in 0 .. MaxRefreshes /\ revision \in 0 .. generation
        /\ needs \in BOOLEAN /\ refreshing \in BOOLEAN /\ switches \in 0 .. MaxSwitches
        /\ late \subseteq [first : BOOLEAN, revision : Nat]
    <3>1. /\ version = 0 /\ answers = {} /\ saved = 0 /\ firstRead = 0
          /\ generation = 0 /\ revision = 0 /\ switches = 0 /\ late = {}
          /\ needs = FALSE /\ refreshing = FALSE
      BY DEF View!Init
    <3>2. answers \subseteq 1 .. version /\ late \subseteq [first : BOOLEAN, revision : Nat]
      BY <3>1
    <3>3. version \in 0 .. MaxVersion /\ generation \in 0 .. MaxRefreshes /\ switches \in 0 .. MaxSwitches
      BY <2>1, <3>1
    <3>4. saved \in 0 .. version /\ firstRead \in 0 .. version /\ revision \in 0 .. generation
      BY <3>1
    <3> QED BY <3>1, <3>2, <3>3, <3>4
  <2>7. /\ absent \subseteq View!Signals /\ returned \subseteq View!Signals
        /\ absences \in 0 .. MaxAbsences
    <3>1. /\ absent \subseteq View!Signals /\ returned = {}
          /\ absences = View!Cardinality(absent) /\ absences <= MaxAbsences
      BY DEF View!Init
    <3>2. IsFiniteSet(View!Signals)
      <4>1. View!Signals = {"network"} \cup {"focus"}
        BY DEF View!Signals
      <4>2. IsFiniteSet({"network"}) /\ IsFiniteSet({"focus"})
        BY FS_Singleton
      <4> QED BY <4>1, <4>2, FS_Union
    <3>3. IsFiniteSet(absent)
      BY <3>1, <3>2, FS_Subset
    <3>4. Cardinality(absent) \in Nat
      BY <3>3, FS_CardinalityType
    <3>5. absences \in Nat
      BY <3>1, <3>4, CardinalityIs
    <3> QED BY <2>1, <3>1, <3>5
  <2>8. fetch \in [Variants -> View!Fetches \cup {NoFetch}]
    <3>1. fetch = [v \in Variants |-> fetch[v]]
      BY DEF View!Init
    <3> QED BY <1>3, <3>1
  <2> QED BY <2>2, <2>3, <2>4, <2>5, <2>6, <2>7, <2>8 DEF View!TypeOK
<1>5. NoticeIsEarned /\ BlockedWhileRefreshing
  BY DEF View!Init, NoticeIsEarned, BlockedWhileRefreshing
<1>6. FetchesAreGood /\ ShownIsAwaited
  BY <1>3 DEF FetchesAreGood, ShownIsAwaited
<1>7. ListsAreChains
  BY ChainEmpty DEF View!Init, ListsAreChains
<1> QED BY <1>4, <1>5, <1>6, <1>7 DEF ViewInv

\* What every step finds.
LEMMA ViewFacts ==
  ASSUME ViewInv
  PROVE  /\ version \in Nat /\ saved \in Nat /\ firstRead \in Nat
         /\ generation \in Nat /\ revision \in Nat
         /\ saved <= version /\ revision <= generation
         /\ variant \in Variants /\ data \in [Variants -> Seq(View!Pages)]
         /\ fetch \in [Variants -> View!Fetches \cup {NoFetch}]
         /\ \A v \in Variants : Good(v, fetch[v], generation, saved, version)
         /\ \A v \in Variants : Chain(v.sort, data[v])
BY DEF ViewInv, View!TypeOK, FetchesAreGood, ListsAreChains

\* The fetch of one variant changes, or ends.
LEMMA OneFetch ==
  ASSUME ViewInv, NEW v \in Variants, NEW f,
         Good(v, f, generation, saved, version),
         fetch' = [fetch EXCEPT ![v] = f],
         v # variant /\ f # NoFetch => f.waiter = 0,
         UNCHANGED <<generation, saved, version, variant>>
  PROVE  /\ fetch' \in [Variants -> View!Fetches \cup {NoFetch}]
         /\ FetchesAreGood' /\ ShownIsAwaited'
<1>1. fetch' \in [Variants -> View!Fetches \cup {NoFetch}]
  BY ViewFacts DEF Good
<1>2. \A u \in Variants : fetch'[u] = IF u = v THEN f ELSE fetch[u]
  BY ViewFacts
<1>3. FetchesAreGood'
  BY <1>2, ViewFacts DEF FetchesAreGood
<1>4. ShownIsAwaited'
  BY <1>2 DEF ViewInv, ShownIsAwaited
<1> QED BY <1>1, <1>3, <1>4

\* Whoever awaits a fetch still does when the fetch goes on.
LEMMA StillBlocked ==
  ASSUME ViewInv, NEW v \in Variants, NEW f, fetch' = [fetch EXCEPT ![v] = f], f # NoFetch,
         IF fetch[v] = NoFetch THEN f.waiter = 0 ELSE f.waiter = fetch[v].waiter,
         UNCHANGED <<generation, variant, refreshing>>
  PROVE  BlockedWhileRefreshing'
<1>1. fetch'[variant] = IF variant = v THEN f ELSE fetch[variant]
  BY ViewFacts
<1>2. generation \in Nat
  BY ViewFacts
<1>3. CASE variant # v
  BY <1>1, <1>3 DEF ViewInv, BlockedWhileRefreshing
<1>4. CASE variant = v /\ fetch[v] = NoFetch
  <2>1. refreshing = FALSE
    BY <1>4 DEF ViewInv, BlockedWhileRefreshing, View!TypeOK
  <2>2. ~ (generation > 0 /\ f.waiter = generation)
    BY <1>2, <1>4
  <2> QED BY <1>1, <1>4, <2>1, <2>2 DEF BlockedWhileRefreshing
<1>5. CASE variant = v /\ fetch[v] # NoFetch
  BY <1>1, <1>5 DEF ViewInv, BlockedWhileRefreshing
<1> QED BY <1>3, <1>4, <1>5

\* The server moves; the view does not.
LEMMA ServerStep ==
  ASSUME ViewInv, NEW e \in View!Entries,
         View!BeginCreate(e) \/ View!CommitCreate(e) \/ View!ChangeState(e)
  PROVE  ViewInv'
<1>1. /\ UNCHANGED <<saved, firstRead, variant, data, failed, fetch, late, revision, needs,
                     generation, refreshing, switches, absent, absences, returned>>
      /\ \/ order' = Append(order, e) /\ UNCHANGED <<row, version, answers>>
         \/ /\ UNCHANGED order /\ version < MaxVersion /\ version' = version + 1
            /\ answers' = answers \cup {version'}
            /\ \E state \in {"queued", "completed"} : row' = [row EXCEPT ![e] = state]
  BY DEF View!BeginCreate, View!CommitCreate, View!ChangeState, View!Commit, View!view,
         View!signals
<1>2. View!TypeOK'
  <2>1. /\ order \in Seq(View!Entries)
        /\ row \in [View!Entries -> {"absent", "queued", "completed"}]
        /\ version \in 0 .. MaxVersion /\ answers \subseteq 1 .. version
        /\ MaxVersion \in Nat
    BY DEF ViewInv, View!TypeOK, View!ViewAssumption
  <2>2. order' \in Seq(View!Entries)
    BY <1>1, <2>1, AppendProperties
  <2>3. row' \in [View!Entries -> {"absent", "queued", "completed"}]
    BY <1>1, <2>1
  <2>4. version' \in 0 .. MaxVersion /\ version <= version' /\ answers' \subseteq 1 .. version'
    <3>1. version' \in 0 .. MaxVersion /\ version <= version'
      BY <1>1, <2>1
    <3>2. ASSUME NEW a \in answers' PROVE a \in 1 .. version'
      <4>1. a \in 1 .. version \/ (a = version' /\ version' = version + 1)
        BY <1>1, <2>1
      <4> QED BY <2>1, <3>1, <4>1
    <3> QED BY <3>1, <3>2
  <2>5. saved' \in 0 .. version' /\ firstRead' \in 0 .. version'
    BY <1>1, <2>1, <2>4 DEF ViewInv, View!TypeOK
  <2> QED BY <1>1, <2>2, <2>3, <2>4, <2>5 DEF ViewInv, View!TypeOK
<1>3. NoticeIsEarned' /\ BlockedWhileRefreshing' /\ ShownIsAwaited' /\ ListsAreChains'
  BY <1>1 DEF ViewInv, NoticeIsEarned, BlockedWhileRefreshing, ShownIsAwaited,
              ListsAreChains
<1>4. FetchesAreGood'
  <2>1. version' \in Nat /\ version <= version' /\ generation' = generation /\ saved' = saved
    BY <1>1, ViewFacts
  <2>2. ASSUME NEW v \in Variants PROVE Good(v, fetch[v], generation, saved, version')
    <3>1. Good(v, fetch[v], generation, saved, version) /\ generation <= generation
      BY ViewFacts
    <3> QED BY <2>1, <3>1, ViewFacts, GoodLater DEF ViewInv
  <2> QED BY <1>1, <2>1, <2>2 DEF FetchesAreGood
<1>5. View!ViewAssumption'
  BY DEF ViewInv
<1> QED BY <1>2, <1>3, <1>4, <1>5 DEF ViewInv
-----------------------------------------------------------------------------
(* The steps of the view.                                                  *)

LEMMA CancelledType ==
  ASSUME ViewInv, NEW v \in Variants
  PROVE  View!Cancelled(fetch[v]) \subseteq [first : BOOLEAN, revision : Nat]
<1>1. View!ReadsFirst(fetch[v]) \in BOOLEAN
  BY DEF View!ReadsFirst
<1>2. fetch[v] # NoFetch => fetch[v].revision \in Nat
  BY ViewFacts, FieldsOfFetch DEF ViewInv
<1> QED BY <1>1, <1>2 DEF View!Cancelled

\* refresh, whatever started it.
LEMMA RefreshStep ==
  ASSUME ViewInv, NEW afterSave \in BOOLEAN, View!Refresh(afterSave),
         version' = version, afterSave \/ saved' = saved
  PROVE  /\ data' \in [Variants -> Seq(View!Pages)] /\ failed' \in [Variants -> BOOLEAN]
         /\ variant' = variant /\ switches' = switches
         /\ UNCHANGED <<absent, absences, returned>>
         /\ fetch' \in [Variants -> View!Fetches \cup {NoFetch}]
         /\ late' \subseteq [first : BOOLEAN, revision : Nat]
         /\ generation' \in 0 .. MaxRefreshes /\ revision' \in 0 .. generation'
         /\ needs' = (needs \/ afterSave) /\ needs' \in BOOLEAN /\ refreshing' \in BOOLEAN
         /\ BlockedWhileRefreshing' /\ FetchesAreGood' /\ ShownIsAwaited' /\ ListsAreChains'
<1>1. /\ generation \in Nat /\ generation < MaxRefreshes /\ MaxRefreshes \in Nat
      /\ generation' = generation + 1
      /\ revision' = IF afterSave THEN revision + 1 ELSE revision
      /\ variant \in Variants /\ variant' = variant /\ revision \in 0 .. generation
  BY DEF View!Refresh, ViewInv, View!TypeOK, View!ViewAssumption
<1>2. generation' \in 0 .. MaxRefreshes /\ revision' \in 0 .. generation' /\ generation' \in Nat
      /\ revision' \in Nat /\ generation' > 0 /\ generation <= generation'
  BY <1>1
<1>3. \A v \in Variants : data'[v] = data[v] \/ (data[v] # <<>> /\ data'[v] = <<Head(data[v])>>)
  BY DEF View!Refresh
<1>4. \A v \in Variants : data[v] \in Seq(View!Pages) /\ Chain(v.sort, data[v])
  BY ViewFacts
<1>5. \A v \in Variants : data'[v] \in Seq(View!Pages) /\ Chain(v.sort, data'[v])
  BY <1>3, <1>4, ChainHead
<1>6. data' \in [Variants -> Seq(View!Pages)]
  <2>1. DOMAIN data' = Variants /\ data' = [v \in DOMAIN data' |-> data'[v]]
    BY DEF View!Refresh
  <2> QED BY <1>5, <2>1
<1>7. ListsAreChains'
  BY <1>5 DEF ListsAreChains
<1>8. /\ fetch'[variant] = View!Fetch("all", data'[variant], generation', revision')
      /\ \A v \in Variants : v # variant =>
           fetch'[v] = NoFetch \/ (~ afterSave /\ fetch'[v] = fetch[v])
      /\ fetch' = [v \in Variants |-> fetch'[v]]
  BY <1>1 DEF View!Refresh
<1>9. /\ fetch'[variant] \in View!Fetches /\ fetch'[variant] # NoFetch
      /\ fetch'[variant].waiter = IF "network" \in absent THEN 0 ELSE generation'
  <2>1. View!ViewAssumption /\ data'[variant] \in Seq(View!Pages)
    BY <1>1, <1>5 DEF ViewInv
  <2> QED BY <1>2, <1>8, <2>1, NewFetch
<1>10. ASSUME NEW v \in Variants
       PROVE  Good(v, fetch'[v], generation', saved', version')
  <2>1. CASE v = variant
    <3>1. View!ViewAssumption /\ data'[variant] \in Seq(View!Pages) /\ generation' <= generation'
      BY <1>1, <1>2, <1>5 DEF ViewInv
    <3> QED BY <1>2, <1>8, <2>1, <3>1, NewIsGood
  <2>2. CASE v # variant /\ fetch'[v] = NoFetch
    BY <2>2 DEF Good
  <2>3. CASE v # variant /\ ~ afterSave /\ fetch'[v] = fetch[v]
    <3>1. Good(v, fetch[v], generation, saved, version) /\ version \in Nat /\ version <= version
      BY ViewFacts
    <3>2. Good(v, fetch[v], generation', saved, version)
      BY <1>1, <1>2, <3>1, GoodLater DEF ViewInv
    <3> QED BY <2>3, <3>2
  <2> QED BY <1>8, <2>1, <2>2, <2>3
<1>11. fetch' \in [Variants -> View!Fetches \cup {NoFetch}] /\ FetchesAreGood'
  <2>1. \A v \in Variants : fetch'[v] \in View!Fetches \cup {NoFetch}
    BY <1>10 DEF Good
  <2>2. FetchesAreGood'
    BY <1>10 DEF FetchesAreGood
  <2> QED BY <1>8, <2>1, <2>2
<1>12. ShownIsAwaited'
  BY <1>1, <1>8 DEF ViewInv, ShownIsAwaited
<1>13. refreshing' = ("network" \notin absent)
  <2>1. fetch[variant] # NoFetch => fetch[variant].waiter <= generation /\ fetch[variant].waiter \in Nat
    BY ViewFacts, FieldsOfFetch DEF ViewInv, Good, Sound
  <2>2. fetch[variant] # NoFetch => fetch[variant].waiter # generation + 1
    BY <1>1, <2>1
  <2> QED BY <1>1, <2>2 DEF View!Refresh, View!Finishes
<1>14. BlockedWhileRefreshing'
  <2>1. CASE "network" \in absent
    <3>1. refreshing' = FALSE
      BY <1>13, <2>1
    <3>2. fetch'[variant'].waiter = 0
      BY <1>1, <1>9, <2>1
    <3>3. fetch'[variant'].waiter # generation'
      BY <1>2, <3>2
    <3> QED BY <3>1, <3>3 DEF BlockedWhileRefreshing
  <2>2. CASE "network" \notin absent
    <3>1. refreshing' = TRUE
      BY <1>13, <2>2
    <3>2. fetch'[variant'] # NoFetch /\ fetch'[variant'].waiter = generation'
      BY <1>1, <1>9, <2>2
    <3> QED BY <1>2, <3>1, <3>2 DEF BlockedWhileRefreshing
  <2> QED BY <2>1, <2>2
<1>15. failed' \in [Variants -> BOOLEAN]
  BY DEF View!Refresh, ViewInv, View!TypeOK
<1>16. late' \subseteq [first : BOOLEAN, revision : Nat]
  <2>1. PICK touched \in SUBSET Variants :
          late' = late \cup UNION {View!Cancelled(fetch[v]) : v \in touched}
    BY <1>1 DEF View!Refresh
  <2>2. \A v \in Variants : View!Cancelled(fetch[v]) \subseteq [first : BOOLEAN, revision : Nat]
    BY CancelledType
  <2>3. late \subseteq [first : BOOLEAN, revision : Nat]
    BY DEF ViewInv, View!TypeOK
  <2> QED BY <2>1, <2>2, <2>3
<1>17. /\ variant' = variant /\ switches' = switches /\ UNCHANGED <<absent, absences, returned>>
       /\ needs' = (needs \/ afterSave) /\ needs' \in BOOLEAN /\ refreshing' \in BOOLEAN
  BY <1>13 DEF View!Refresh, View!signals
<1> QED BY <1>2, <1>6, <1>7, <1>11, <1>12, <1>14, <1>15, <1>16, <1>17

LEMMA PressStep ==
  ASSUME ViewInv, View!PressRefresh
  PROVE  ViewInv'
<1>1. View!Refresh(FALSE) /\ UNCHANGED <<order, row, version, answers, saved, firstRead>>
  BY DEF View!PressRefresh, View!server
<1>2. View!TypeOK'
  BY <1>1, RefreshStep DEF ViewInv, View!TypeOK
<1>3. NoticeIsEarned'
  <2>1. needs' = needs
    BY <1>1, RefreshStep DEF ViewInv, View!TypeOK
  <2> QED BY <1>1, <2>1 DEF ViewInv, NoticeIsEarned
<1> QED BY <1>1, <1>2, <1>3, RefreshStep DEF ViewInv

\* After a save the notice stands until a page is read.
LEMMA SaveStep ==
  ASSUME ViewInv, NEW n \in answers, View!SaveAnswered(n)
  PROVE  ViewInv'
<1>1. /\ View!Refresh(TRUE) /\ UNCHANGED <<order, row, version, firstRead>>
      /\ answers' = answers \ {n} /\ saved' = View!Newest(saved, n)
  BY DEF View!SaveAnswered
<1>2. answers' \subseteq 1 .. version /\ saved' \in 0 .. version
  <2>1. answers \subseteq 1 .. version /\ saved \in 0 .. version /\ version \in Nat
    BY DEF ViewInv, View!TypeOK
  <2>2. n \in 1 .. version /\ (saved' = saved \/ saved' = n)
    BY <1>1, <2>1 DEF View!Newest
  <2> QED BY <1>1, <2>1, <2>2
<1>3. View!TypeOK'
  BY <1>1, <1>2, RefreshStep DEF ViewInv, View!TypeOK
<1>4. NoticeIsEarned'
  <2>1. needs' = TRUE
    BY <1>1, RefreshStep
  <2> QED BY <2>1 DEF NoticeIsEarned
<1> QED BY <1>1, <1>3, <1>4, RefreshStep DEF ViewInv

LEMMA LoadMoreStep ==
  ASSUME ViewInv, View!LoadMore
  PROVE  ViewInv'
<1> DEFINE f == View!Fetch("next", data[variant], 0, revision)
<1>1. /\ fetch[variant] = NoFetch
      /\ data[variant] # <<>> /\ View!Last(data[variant]).next # NoCursor
      /\ fetch' = [fetch EXCEPT ![variant] = f]
      /\ UNCHANGED <<order, row, version, answers, saved, variant, data, failed, late, revision,
                     needs, generation, refreshing, switches, absent, absences, returned,
                     firstRead>>
  BY DEF View!LoadMore, View!server, View!signals
<1>2. /\ variant \in Variants /\ data[variant] \in Seq(View!Pages) /\ revision \in Nat
      /\ generation \in Nat /\ Chain(variant.sort, data[variant])
  BY ViewFacts
<1>3. /\ f \in View!Fetches /\ f # NoFetch /\ f.kind = "next" /\ f.base = data[variant]
      /\ f.waiter = 0 /\ f.answer = NoPage
  BY <1>2, NewFetch DEF ViewInv
<1> HIDE DEF f
<1>4. Good(variant, f, generation, saved, version)
  <2>1. Grown(f) = data[variant]
    BY <1>3 DEF Grown
  <2>2. EndOf(Grown(f)) # NoCursor
    BY <1>1, <2>1 DEF EndOf
  <2>3. f.waiter <= generation
    BY <1>2, <1>3
  <2> QED BY <1>1, <1>2, <1>3, <2>1, <2>2, <2>3 DEF Good, Sound
<1>5. /\ fetch' \in [Variants -> View!Fetches \cup {NoFetch}]
      /\ FetchesAreGood' /\ ShownIsAwaited'
  BY <1>1, <1>2, <1>4, OneFetch
<1>6. View!TypeOK'
  BY <1>1, <1>5 DEF ViewInv, View!TypeOK
<1>7. BlockedWhileRefreshing'
  BY <1>1, <1>2, <1>3, StillBlocked
<1>8. NoticeIsEarned' /\ ListsAreChains'
  BY <1>1 DEF ViewInv, NoticeIsEarned, ListsAreChains
<1> QED BY <1>5, <1>6, <1>7, <1>8 DEF ViewInv

LEMMA SwitchStep ==
  ASSUME ViewInv, NEW v \in Variants, View!Switch(v)
  PROVE  ViewInv'
<1> DEFINE f == View!Fetch("all", data[v], 0, revision)
<1>1. /\ v # variant /\ variant' = v /\ switches < MaxSwitches /\ switches' = switches + 1
      /\ late' = late \cup View!Cancelled(fetch[variant])
      /\ refreshing' = (refreshing /\ ~ View!Finishes(fetch[variant], generation))
      /\ UNCHANGED <<order, row, version, answers, saved, data, failed, revision, needs,
                     generation, absent, absences, returned, firstRead>>
  BY DEF View!Switch, View!server, View!signals
<1>2. /\ data[v] \in Seq(View!Pages) /\ revision \in Nat /\ generation \in Nat
      /\ switches \in 0 .. MaxSwitches /\ MaxSwitches \in Nat /\ 0 <= generation
      /\ fetch \in [Variants -> View!Fetches \cup {NoFetch}] /\ variant \in Variants
  BY ViewFacts DEF ViewInv, View!TypeOK, View!ViewAssumption
<1>3. PICK left \in {fetch[variant], NoFetch} :
        /\ left # NoFetch => left.pause = "start"
        /\ fetch' = [fetch EXCEPT ![variant] = left, ![v] = IF @ = NoFetch THEN f ELSE @]
  BY DEF View!Switch
<1>4. f \in View!Fetches /\ f # NoFetch /\ f.waiter = 0 /\ Good(v, f, generation, saved, version)
  <2>1. View!ViewAssumption /\ 0 \in Nat
    BY DEF ViewInv
  <2>2. f \in View!Fetches /\ f # NoFetch /\ f.waiter = 0
    BY <1>2, <2>1, NewFetch
  <2>3. Good(v, f, generation, saved, version)
    BY <1>2, <2>1, NewIsGood
  <2> QED BY <2>2, <2>3
<1> HIDE DEF f
<1>5. /\ fetch'[v] = IF fetch[v] = NoFetch THEN f ELSE fetch[v]
      /\ fetch'[variant] = left
      /\ \A u \in Variants \ {v, variant} : fetch'[u] = fetch[u]
      /\ fetch' \in [Variants -> View!Fetches \cup {NoFetch}]
  BY <1>1, <1>2, <1>3, <1>4
<1>6. FetchesAreGood'
  <2>1. ASSUME NEW u \in Variants PROVE Good(u, fetch'[u], generation, saved, version)
    <3>1. CASE u = v
      BY <1>4, <1>5, <3>1, ViewFacts
    <3>2. CASE u = variant
      <4>1. fetch'[u] = fetch[u] \/ fetch'[u] = NoFetch
        BY <1>3, <1>5, <3>2
      <4> QED BY <4>1, ViewFacts DEF Good
    <3>3. CASE u # v /\ u # variant
      BY <1>5, <3>3, ViewFacts
    <3> QED BY <3>1, <3>2, <3>3
  <2> QED BY <1>1, <2>1 DEF FetchesAreGood
<1>7. ASSUME NEW u \in Variants, fetch'[u] # NoFetch
      PROVE  fetch'[u].waiter = 0
  <2>1. CASE u = v
    BY <1>1, <1>4, <1>5, <2>1 DEF ViewInv, ShownIsAwaited
  <2>2. CASE u = variant
    <3>1. left = fetch[variant] /\ left # NoFetch /\ left.pause = "start"
      BY <1>3, <1>5, <1>7, <2>2
    <3>2. Good(variant, fetch[variant], generation, saved, version)
      BY <1>2, ViewFacts
    <3> QED BY <1>5, <2>2, <3>1, <3>2 DEF Good, Sound
  <2>3. CASE u # v /\ u # variant
    BY <1>5, <1>7, <2>3 DEF ViewInv, ShownIsAwaited
  <2> QED BY <2>1, <2>2, <2>3
<1>8. ShownIsAwaited'
  BY <1>7 DEF ShownIsAwaited
<1>9. refreshing' = FALSE
  BY <1>1 DEF ViewInv, BlockedWhileRefreshing, View!Finishes
<1>10. BlockedWhileRefreshing'
  <2>1. generation' = generation /\ variant' = v /\ (fetch'[v] # NoFetch => fetch'[v].waiter = 0)
    BY <1>1, <1>7
  <2> QED BY <1>2, <1>9, <2>1 DEF BlockedWhileRefreshing
<1>11. View!TypeOK'
  <2>1. late' \subseteq [first : BOOLEAN, revision : Nat]
    BY <1>1, <1>2, CancelledType DEF ViewInv, View!TypeOK
  <2>2. switches' \in 0 .. MaxSwitches
    BY <1>1, <1>2
  <2> QED BY <1>1, <1>5, <1>9, <2>1, <2>2 DEF ViewInv, View!TypeOK
<1>12. NoticeIsEarned' /\ ListsAreChains'
  BY <1>1 DEF ViewInv, NoticeIsEarned, ListsAreChains
<1> QED BY <1>6, <1>8, <1>10, <1>11, <1>12 DEF ViewInv
-----------------------------------------------------------------------------
(* The network and the focus.                                              *)

LEMMA SignalStep ==
  ASSUME ViewInv, NEW x \in View!Signals, View!Leave(x) \/ View!Return(x)
  PROVE  ViewInv'
<1>1. /\ UNCHANGED <<order, row, version, answers, saved, variant, data, failed, fetch, late,
                     revision, needs, generation, refreshing, switches, firstRead>>
      /\ absent' \subseteq absent \cup {x} /\ returned' \subseteq returned \cup {x}
      /\ absences' = absences \/ (absences < MaxAbsences /\ absences' = absences + 1)
  BY DEF View!Leave, View!Return, View!server, View!view
<1>2. /\ absent' \subseteq View!Signals /\ returned' \subseteq View!Signals
      /\ absences' \in 0 .. MaxAbsences
  <2>1. /\ absent \subseteq View!Signals /\ returned \subseteq View!Signals
        /\ absences \in 0 .. MaxAbsences /\ MaxAbsences \in Nat
    BY DEF ViewInv, View!TypeOK, View!ViewAssumption
  <2> QED BY <1>1, <2>1
<1>3. View!TypeOK'
  BY <1>1, <1>2 DEF ViewInv, View!TypeOK
<1>4. NoticeIsEarned' /\ BlockedWhileRefreshing' /\ ListsAreChains'
  BY <1>1 DEF ViewInv, NoticeIsEarned, BlockedWhileRefreshing, ListsAreChains
<1>5. FetchesAreGood' /\ ShownIsAwaited'
  BY <1>1 DEF ViewInv, FetchesAreGood, ShownIsAwaited
<1> QED BY <1>3, <1>4, <1>5 DEF ViewInv

\* What was paused goes on as it was.
LEMMA ResumedFetch ==
  ASSUME ViewInv, NEW v \in Variants, fetch[v] # NoFetch,
         NEW f, f = View!GoesOn(fetch[v])
  PROVE  Good(v, f, generation, saved, version) /\ f # NoFetch /\ f.waiter = fetch[v].waiter
<1>1. /\ fetch[v] \in View!Fetches /\ Sound(v, fetch[v], generation, saved, version)
      /\ revision \in Nat
  BY ViewFacts DEF Good
<1>2. /\ f \in View!Fetches /\ f.waiter = fetch[v].waiter /\ f.kind = fetch[v].kind
      /\ f.base = fetch[v].base /\ f.got = fetch[v].got /\ f.answer = fetch[v].answer
      /\ f.pause = "none"
  BY <1>1 DEF View!Fetches, View!GoesOn
<1>3. f # NoFetch
  BY <1>2, FieldsOfFetch DEF ViewInv
<1>4. Grown(f) = Grown(fetch[v])
  BY <1>2 DEF Grown
<1> QED BY <1>1, <1>2, <1>3, <1>4 DEF Good, Sound

LEMMA ResumeStep ==
  ASSUME ViewInv, NEW x \in View!Signals, View!Resume(x)
  PROVE  ViewInv'
<1>1. /\ returned' = returned \ {x}
      /\ UNCHANGED <<order, row, version, answers, saved, variant, data, failed, late, revision,
                     needs, generation, refreshing, switches, absent, absences, firstRead>>
  BY DEF View!Resume, View!server
<1>2. ASSUME NEW v \in Variants
      PROVE  \/ fetch'[v] = fetch[v]
             \/ /\ fetch[v] = NoFetch /\ v = variant
                /\ fetch'[v] = View!Fetch("all", data[v], 0, revision)
             \/ fetch[v] # NoFetch /\ fetch'[v] = View!GoesOn(fetch[v])
  BY DEF View!Resume
<1>3. ASSUME NEW v \in Variants
      PROVE  /\ Good(v, fetch'[v], generation, saved, version)
             /\ fetch[v] # NoFetch => fetch'[v] # NoFetch /\ fetch'[v].waiter = fetch[v].waiter
             /\ fetch[v] = NoFetch /\ fetch'[v] # NoFetch => fetch'[v].waiter = 0
  <2>1. CASE fetch'[v] = fetch[v]
    BY <2>1, ViewFacts
  <2>2. CASE fetch[v] = NoFetch /\ fetch'[v] = View!Fetch("all", data[v], 0, revision)
    <3>1. /\ data[v] \in Seq(View!Pages) /\ revision \in Nat /\ generation \in Nat
          /\ 0 <= generation /\ View!ViewAssumption
      BY ViewFacts DEF ViewInv
    <3>2. fetch'[v].waiter = 0
      BY <2>2, <3>1, NewFetch
    <3>3. Good(v, fetch'[v], generation, saved, version)
      BY <2>2, <3>1, NewIsGood
    <3> QED BY <2>2, <3>2, <3>3
  <2>3. CASE fetch[v] # NoFetch /\ fetch'[v] = View!GoesOn(fetch[v])
    BY <2>3, ResumedFetch
  <2> QED BY <1>2, <2>1, <2>2, <2>3
<1>4. fetch' \in [Variants -> View!Fetches \cup {NoFetch}]
  <2>1. fetch' = [v \in Variants |-> fetch'[v]]
    BY DEF View!Resume
  <2>2. \A v \in Variants : fetch'[v] \in View!Fetches \cup {NoFetch}
    BY <1>3 DEF Good
  <2> QED BY <2>1, <2>2
<1>5. FetchesAreGood'
  BY <1>1, <1>3 DEF FetchesAreGood
<1>6. ShownIsAwaited'
  BY <1>1, <1>3 DEF ViewInv, ShownIsAwaited
<1>7. BlockedWhileRefreshing'
  <2>1. variant \in Variants /\ generation \in Nat
    BY ViewFacts
  <2>2. CASE fetch[variant] = NoFetch
    <3>1. refreshing = FALSE
      BY <2>2 DEF ViewInv, BlockedWhileRefreshing, View!TypeOK
    <3>2. ~ (generation > 0 /\ fetch'[variant] # NoFetch /\ fetch'[variant].waiter = generation)
      BY <1>3, <2>1, <2>2
    <3> QED BY <1>1, <3>1, <3>2 DEF BlockedWhileRefreshing
  <2>3. CASE fetch[variant] # NoFetch
    <3>1. fetch'[variant] # NoFetch /\ fetch'[variant].waiter = fetch[variant].waiter
      BY <1>3, <2>1, <2>3
    <3> QED BY <1>1, <2>3, <3>1 DEF ViewInv, BlockedWhileRefreshing
  <2> QED BY <2>2, <2>3
<1>8. View!TypeOK'
  <2>1. returned' \subseteq View!Signals
    BY <1>1 DEF ViewInv, View!TypeOK
  <2> QED BY <1>1, <1>4, <2>1 DEF ViewInv, View!TypeOK
<1>9. NoticeIsEarned' /\ ListsAreChains'
  BY <1>1 DEF ViewInv, NoticeIsEarned, ListsAreChains
<1> QED BY <1>5, <1>6, <1>7, <1>8, <1>9 DEF ViewInv
-----------------------------------------------------------------------------
(* The life of a read.                                                     *)

\* The page parameter is the cursor at the end of what the fetch has.
LEMMA ParamIs ==
  ASSUME NEW v, NEW f, NEW gen, NEW sav, NEW ver, Sound(v, f, gen, sav, ver)
  PROVE  View!Param(f) = EndOf(Grown(f))
BY DEF Sound, View!Param, EndOf, Grown

LEMMA AnswerStep ==
  ASSUME ViewInv, NEW v \in Variants, View!ServerAnswers(v)
  PROVE  ViewInv'
<1> DEFINE list == View!ListReadingEntries(order, row, v, View!Param(fetch[v]))
           page == [items |-> list.items, next |-> list.next, at |-> version,
                    had |-> View!Selected(order, row, v)]
           f == [fetch[v] EXCEPT !.answer = page]
<1>1. /\ fetch[v] # NoFetch /\ fetch' = [fetch EXCEPT ![v].answer = page]
      /\ UNCHANGED <<order, row, version, answers, saved, variant, data, failed, late, revision,
                     needs, generation, refreshing, switches, absent, absences, returned,
                     firstRead>>
  BY DEF View!ServerAnswers, View!Runs, View!server, View!signals
<1>2. /\ Len(order) \in Nat /\ DOMAIN order = 1 .. Len(order) /\ version \in Nat
      /\ saved \in Nat /\ saved <= version
      /\ fetch[v] \in View!Fetches /\ Sound(v, fetch[v], generation, saved, version)
  BY <1>1, LenProperties, ViewFacts DEF ViewInv, View!TypeOK, Good
<1>3. page \in View!Pages /\ Answers(v.sort, View!Param(fetch[v]), page)
  <2>1. /\ IsPage(page) /\ page.items = list.items /\ page.next = list.next
        /\ page.at = version /\ page.had = View!Selected(order, row, v)
    BY DEF IsPage
  <2> HIDE DEF page, list
  <2>2. list = View!ListReadingEntries(order, row, v, View!Param(fetch[v]))
    BY DEF list
  <2> QED BY <1>2, <2>1, <2>2, AnswerOfServer DEF ViewInv
<1>4. page.at = version /\ page # NoPage
  BY <1>3 DEF ViewInv, View!ViewAssumption
<1> HIDE DEF page, list
<1>5. /\ f \in View!Fetches /\ f.answer = page /\ f.pause = fetch[v].pause
      /\ f.kind = fetch[v].kind /\ f.base = fetch[v].base /\ f.got = fetch[v].got
      /\ f.waiter = fetch[v].waiter
  BY <1>1, <1>2, <1>3 DEF View!Fetches
<1>6. f # NoFetch /\ fetch' = [fetch EXCEPT ![v] = f]
  <2>1. f # NoFetch
    BY <1>5, FieldsOfFetch DEF ViewInv
  <2>2. fetch' = [fetch EXCEPT ![v] = f]
    BY <1>1
  <2> QED BY <2>1, <2>2
<1> HIDE DEF f
<1>7. Good(v, f, generation, saved, version)
  <2>1. Grown(f) = Grown(fetch[v])
    BY <1>5 DEF Grown
  <2>2. View!Param(fetch[v]) = EndOf(Grown(fetch[v]))
    BY <1>2, ParamIs
  <2>3. saved <= f.answer.at /\ f.answer.at <= version
    BY <1>2, <1>4, <1>5
  <2>4. Answers(v.sort, EndOf(Grown(f)), f.answer)
    BY <1>3, <1>5, <2>1, <2>2
  <2> QED BY <1>2, <1>5, <2>1, <2>3, <2>4 DEF Good, Sound
<1>8. /\ fetch' \in [Variants -> View!Fetches \cup {NoFetch}]
      /\ FetchesAreGood' /\ ShownIsAwaited'
  <2>1. v # variant => f.waiter = 0
    BY <1>1, <1>5 DEF ViewInv, ShownIsAwaited
  <2> QED BY <1>1, <1>6, <1>7, <2>1, OneFetch
<1>9. BlockedWhileRefreshing'
  BY <1>1, <1>5, <1>6, StillBlocked
<1>10. View!TypeOK'
  BY <1>1, <1>8 DEF ViewInv, View!TypeOK
<1>11. NoticeIsEarned' /\ ListsAreChains'
  BY <1>1 DEF ViewInv, NoticeIsEarned, ListsAreChains
<1> QED BY <1>8, <1>9, <1>10, <1>11 DEF ViewInv

\* A fetch ends: nothing waits for it any more.
LEMMA EndedFetch ==
  ASSUME ViewInv, NEW v \in Variants, fetch' = [fetch EXCEPT ![v] = NoFetch], View!Ends(v),
         UNCHANGED <<variant, generation, saved, version>>
  PROVE  /\ fetch' \in [Variants -> View!Fetches \cup {NoFetch}] /\ refreshing' \in BOOLEAN
         /\ BlockedWhileRefreshing' /\ FetchesAreGood' /\ ShownIsAwaited'
<1>1. Good(v, NoFetch, generation, saved, version)
  BY DEF Good
<1>2. /\ fetch' \in [Variants -> View!Fetches \cup {NoFetch}]
      /\ FetchesAreGood' /\ ShownIsAwaited'
  BY <1>1, OneFetch
<1>3. fetch'[variant] = IF variant = v THEN NoFetch ELSE fetch[variant]
  BY ViewFacts
<1>4. CASE v = variant
  <2>1. refreshing' = FALSE
    BY <1>4 DEF ViewInv, BlockedWhileRefreshing, View!Finishes, View!Ends
  <2> QED BY <1>2, <1>3, <1>4, <2>1 DEF BlockedWhileRefreshing
<1>5. CASE v # variant
  <2>1. refreshing' = refreshing
    BY <1>5 DEF View!Ends, ViewInv, View!TypeOK
  <2> QED BY <1>2, <1>3, <1>5, <2>1 DEF ViewInv, View!TypeOK, BlockedWhileRefreshing
<1> QED BY <1>4, <1>5

LEMMA FetchFailsStep ==
  ASSUME ViewInv, NEW v \in Variants, View!FetchFails(v)
  PROVE  ViewInv'
<1>1. /\ fetch' = [fetch EXCEPT ![v] = NoFetch] /\ View!Ends(v)
      /\ failed' = [failed EXCEPT ![v] = TRUE]
      /\ UNCHANGED <<order, row, version, answers, saved, variant, data, late, revision, needs,
                     generation, switches, absent, absences, returned, firstRead>>
  BY DEF View!FetchFails, View!server, View!signals
<1>2. failed' \in [Variants -> BOOLEAN]
  BY <1>1 DEF ViewInv, View!TypeOK
<1>3. View!TypeOK'
  BY <1>1, <1>2, EndedFetch DEF ViewInv, View!TypeOK
<1>4. NoticeIsEarned' /\ ListsAreChains'
  BY <1>1 DEF ViewInv, NoticeIsEarned, ListsAreChains
<1> QED BY <1>1, <1>3, <1>4, EndedFetch DEF ViewInv

LEMMA ReadAgainStep ==
  ASSUME ViewInv, NEW v \in Variants, View!ReadAgain(v)
  PROVE  ViewInv'
<1> DEFINE f == View!Repeats(fetch[v])
<1>1. fetch' = [fetch EXCEPT ![v] = f]
  BY DEF View!ReadAgain
<1>2. /\ v = variant /\ fetch[v] # NoFetch /\ fetch[v].failures < QueryRetries
      /\ UNCHANGED <<order, row, version, answers, saved, variant, data, failed, late, revision,
                     needs, generation, refreshing, switches, absent, absences, returned,
                     firstRead>>
  BY DEF View!ReadAgain, View!Runs, View!server, View!signals
<1>3. /\ fetch[v] \in View!Fetches /\ Sound(v, fetch[v], generation, saved, version)
      /\ revision \in Nat /\ QueryRetries \in Nat /\ fetch[v].failures \in 0 .. QueryRetries
  BY <1>2, ViewFacts, FieldsOfFetch DEF ViewInv, View!ViewAssumption, Good
<1>4. fetch[v].failures + 1 \in 0 .. QueryRetries
  BY <1>2, <1>3
<1>5. /\ f \in View!Fetches /\ f.answer = NoPage /\ f.pause \in {"none", "retry"}
      /\ f.kind = fetch[v].kind /\ f.base = fetch[v].base /\ f.got = fetch[v].got
      /\ f.waiter = fetch[v].waiter
  BY <1>3, <1>4 DEF View!Fetches, View!Repeats
<1>6. f # NoFetch /\ fetch' = [fetch EXCEPT ![v] = f]
  BY <1>1, <1>5, FieldsOfFetch DEF ViewInv
<1> HIDE DEF f
<1>7. Good(v, f, generation, saved, version)
  <2>1. Grown(f) = Grown(fetch[v])
    BY <1>5 DEF Grown
  <2>2. f.pause # "start"
    BY <1>5
  <2> QED BY <1>3, <1>5, <2>1, <2>2 DEF Good, Sound
<1>8. /\ fetch' \in [Variants -> View!Fetches \cup {NoFetch}]
      /\ FetchesAreGood' /\ ShownIsAwaited'
  BY <1>2, <1>6, <1>7, OneFetch
<1>9. BlockedWhileRefreshing'
  BY <1>2, <1>5, <1>6, StillBlocked
<1>10. View!TypeOK'
  BY <1>2, <1>8 DEF ViewInv, View!TypeOK
<1>11. NoticeIsEarned' /\ ListsAreChains'
  BY <1>2 DEF ViewInv, NoticeIsEarned, ListsAreChains
<1> QED BY <1>8, <1>9, <1>10, <1>11 DEF ViewInv

LEMMA LateReadStep ==
  ASSUME ViewInv, NEW r \in late, View!LateRead(r)
  PROVE  ViewInv'
<1>1. /\ late' = late \ {r} /\ needs' = needs
      /\ UNCHANGED <<order, row, version, answers, saved, variant, data, failed, fetch, revision,
                     generation, refreshing, switches, absent, absences, returned, firstRead>>
  BY DEF View!LateRead, View!Acknowledges, View!server, View!signals, ViewInv, View!TypeOK
<1>2. View!TypeOK'
  BY <1>1 DEF ViewInv, View!TypeOK
<1>3. NoticeIsEarned' /\ BlockedWhileRefreshing' /\ ListsAreChains'
  BY <1>1 DEF ViewInv, NoticeIsEarned, BlockedWhileRefreshing, ListsAreChains
<1>4. FetchesAreGood' /\ ShownIsAwaited'
  BY <1>1 DEF ViewInv, FetchesAreGood, ShownIsAwaited
<1> QED BY <1>2, <1>3, <1>4 DEF ViewInv

\* A page that arrives lengthens the list; a first page withdraws the notice.
LEMMA ArriveStep ==
  ASSUME ViewInv, NEW v \in Variants, View!PageArrives(v)
  PROVE  ViewInv'
<1> DEFINE f == fetch[v]
           pages == Append(Grown(f), f.answer)
           goesOn == /\ f.kind = "all" /\ Len(pages) < f.want
                     /\ f.answer.next # NoCursor
           g == [f EXCEPT !.got = pages, !.answer = NoPage, !.revision = revision]
<1>1. /\ f # NoFetch /\ f.answer # NoPage /\ f.pause = "none"
      /\ needs' = (needs /\ ~ View!Acknowledges(View!ReadsFirst(f), FALSE, f.revision))
      /\ firstRead' = IF View!ReadsFirst(f) THEN View!Newest(firstRead, f.answer.at)
                      ELSE firstRead
      /\ UNCHANGED <<order, row, version, answers, saved, variant, late, revision, generation,
                     switches, absent, absences, returned>>
  BY DEF View!PageArrives, View!Runs, View!server, View!signals
<1>2. IF goesOn
      THEN /\ fetch' = [fetch EXCEPT ![v] = g]
           /\ UNCHANGED <<data, failed, refreshing>>
      ELSE /\ fetch' = [fetch EXCEPT ![v] = NoFetch] /\ data' = [data EXCEPT ![v] = pages]
           /\ failed' = [failed EXCEPT ![v] = FALSE]
           /\ View!Ends(v)
  BY DEF View!PageArrives, Grown
<1>3. /\ f \in View!Fetches /\ Sound(v, f, generation, saved, version)
      /\ revision \in Nat /\ generation \in Nat
      /\ f.answer \in View!Pages /\ Grown(f) \in Seq(View!Pages)
  <2>1. f \in View!Fetches /\ Sound(v, f, generation, saved, version)
    BY <1>1, ViewFacts DEF Good
  <2>2. View!ViewAssumption
    BY DEF ViewInv
  <2> QED BY <1>1, <2>1, <2>2, ViewFacts, FieldsOfFetch
<1>4. pages \in Seq(View!Pages) /\ Chain(v.sort, pages)
  <2>1. /\ Chain(v.sort, Grown(f))
        /\ Grown(f) # <<>> => EndOf(Grown(f)) # NoCursor
        /\ Answers(v.sort, EndOf(Grown(f)), f.answer)
    BY <1>1, <1>3 DEF Sound
  <2>2. View!ViewAssumption
    BY DEF ViewInv
  <2> HIDE DEF f
  <2> QED BY <1>3, <2>1, <2>2, ChainAppend
<1>5. EndOf(pages) = f.answer.next
  <2> HIDE DEF f
  <2>1. /\ Len(pages) = Len(Grown(f)) + 1 /\ Len(Grown(f)) \in Nat
        /\ pages[Len(Grown(f)) + 1] = f.answer
    BY <1>3, LenProperties, AppendProperties
  <2>2. pages # <<>>
    BY <2>1, EmptySeq
  <2> HIDE DEF pages
  <2> QED BY <2>1, <2>2 DEF EndOf, View!Last
<1> HIDE DEF pages, f
<1>6. /\ needs' \in BOOLEAN /\ firstRead' \in 0 .. version /\ firstRead <= firstRead'
      /\ View!ReadsFirst(f) => saved <= firstRead'
  <2>1. /\ firstRead \in 0 .. version /\ version \in Nat /\ saved \in 0 .. version
        /\ needs \in BOOLEAN
    BY DEF ViewInv, View!TypeOK
  <2>2. f.answer.at \in Nat /\ saved <= f.answer.at /\ f.answer.at <= version
    BY <1>1, <1>3 DEF Sound, View!Pages
  <2>3. needs' \in BOOLEAN
    BY <1>1, <2>1
  <2>4. CASE View!ReadsFirst(f)
    BY <1>1, <2>1, <2>2, <2>3, <2>4 DEF View!Newest
  <2>5. CASE ~ View!ReadsFirst(f)
    BY <1>1, <2>1, <2>3, <2>5
  <2> QED BY <2>4, <2>5
<1>7. NoticeIsEarned'
  <2>1. saved \in Nat /\ firstRead \in Nat /\ firstRead' \in Nat
    BY <1>6 DEF ViewInv, View!TypeOK
  <2>2. CASE View!ReadsFirst(f)
    BY <1>1, <1>6, <2>2 DEF NoticeIsEarned
  <2>3. CASE ~ View!ReadsFirst(f)
    <3>1. needs' = needs
      BY <1>1, <2>3 DEF View!Acknowledges, ViewInv, View!TypeOK
    <3>2. ~ needs => firstRead' >= saved
      <4>1. ~ needs => firstRead >= saved
        BY DEF ViewInv, NoticeIsEarned
      <4> QED BY <1>6, <2>1, <4>1
    <3>3. saved' = saved
      BY <1>1
    <3> QED BY <3>1, <3>2, <3>3 DEF NoticeIsEarned
  <2> QED BY <2>2, <2>3
<1>8. CASE goesOn
  <2>1. fetch' = [fetch EXCEPT ![v] = g] /\ UNCHANGED <<data, failed, refreshing>>
    BY <1>2, <1>8
  <2>2. /\ g \in View!Fetches /\ g.answer = NoPage /\ g.kind = "all"
        /\ g.got = pages /\ g.waiter = f.waiter /\ g.pause = "none"
    BY <1>1, <1>3, <1>4, <1>8 DEF View!Fetches
  <2>3. g # NoFetch /\ f = fetch[v] /\ EndOf(pages) # NoCursor
    BY <1>5, <1>8, <2>2, FieldsOfFetch DEF ViewInv, f
  <2> HIDE DEF g, goesOn
  <2>4. Good(v, g, generation, saved, version)
    <3>1. Grown(g) = pages
      BY <2>2 DEF Grown
    <3> QED BY <1>3, <1>4, <2>2, <2>3, <3>1 DEF Good, Sound
  <2>5. /\ fetch' \in [Variants -> View!Fetches \cup {NoFetch}]
        /\ FetchesAreGood' /\ ShownIsAwaited'
    <3>1. v # variant => g.waiter = 0
      BY <1>1, <2>2, <2>3 DEF ViewInv, ShownIsAwaited
    <3> QED BY <1>1, <2>1, <2>4, <3>1, OneFetch
  <2>6. BlockedWhileRefreshing'
    BY <1>1, <2>1, <2>2, <2>3, StillBlocked
  <2>7. View!TypeOK'
    BY <1>1, <1>6, <2>1, <2>5 DEF ViewInv, View!TypeOK
  <2>8. ListsAreChains'
    BY <2>1 DEF ViewInv, ListsAreChains
  <2> QED BY <1>7, <2>5, <2>6, <2>7, <2>8 DEF ViewInv
<1>9. CASE ~ goesOn
  <2>1. /\ fetch' = [fetch EXCEPT ![v] = NoFetch] /\ data' = [data EXCEPT ![v] = pages]
        /\ failed' = [failed EXCEPT ![v] = FALSE] /\ View!Ends(v)
    BY <1>2, <1>9
  <2> HIDE DEF goesOn
  <2>2. data' \in [Variants -> Seq(View!Pages)] /\ failed' \in [Variants -> BOOLEAN]
    BY <1>4, <2>1 DEF ViewInv, View!TypeOK
  <2>3. View!TypeOK'
    BY <1>1, <1>6, <2>1, <2>2, EndedFetch DEF ViewInv, View!TypeOK
  <2>4. ListsAreChains'
    BY <1>4, <2>1 DEF ViewInv, View!TypeOK, ListsAreChains
  <2> QED BY <1>1, <1>7, <2>1, <2>3, <2>4, EndedFetch DEF ViewInv
<1> QED BY <1>8, <1>9

LEMMA ViewNext ==
  ASSUME ViewInv, [View!Next]_View!vars
  PROVE  ViewInv'
<1>1. CASE UNCHANGED View!vars
  <2>1. UNCHANGED <<order, row, version, answers, saved, variant, data, failed, fetch, late,
                    revision, needs, generation, refreshing, switches, absent, absences,
                    returned, firstRead>>
    BY <1>1 DEF View!vars, View!server, View!view, View!signals
  <2>2. View!TypeOK'
    BY <2>1 DEF ViewInv, View!TypeOK
  <2>3. NoticeIsEarned' /\ BlockedWhileRefreshing' /\ ListsAreChains'
    BY <2>1 DEF ViewInv, NoticeIsEarned, BlockedWhileRefreshing, ListsAreChains
  <2>4. FetchesAreGood' /\ ShownIsAwaited'
    BY <2>1 DEF ViewInv, FetchesAreGood, ShownIsAwaited
  <2> QED BY <2>2, <2>3, <2>4 DEF ViewInv
<1>2. ASSUME NEW v \in Variants, View!Settle(v)
      PROVE  ViewInv'
  BY <1>2, AnswerStep, ArriveStep, ReadAgainStep, FetchFailsStep DEF View!Settle
<1>3. ASSUME NEW x \in View!Signals, View!Leave(x) \/ View!Return(x) \/ View!Resume(x)
      PROVE  ViewInv'
  BY <1>3, SignalStep, ResumeStep
<1> QED
  BY <1>1, <1>2, <1>3, ServerStep, PressStep, LoadMoreStep, SaveStep, SwitchStep, LateReadStep
  DEF View!Next

THEOREM ViewInvariance ==
  ASSUME View!ViewAssumption
  PROVE  View!Spec => []ViewInv
<1>1. View!Init => ViewInv
  BY ViewInit
<1>2. ViewInv /\ [View!Next]_View!vars => ViewInv'
  BY ViewNext
<1> QED BY <1>1, <1>2, PTL DEF View!Spec

\* The screen's pages, fetches and flags are well typed, and it has seen no
\* more saves than were committed (the refs of useReadingQueue).
THEOREM ViewTypes ==
  ASSUME View!ViewAssumption
  PROVE  View!Spec => []View!TypeOK
BY ViewInvariance, PTL DEF ViewInv

\* savedNeedsRefresh is withdrawn only by a first page that was read after
\* every acknowledged save and arrived for a fetch that was not cancelled.
THEOREM NoticesAreEarned ==
  ASSUME View!ViewAssumption
  PROVE  View!Spec => []NoticeIsEarned
BY ViewInvariance, PTL DEF ViewInv

\* The newest refresh, and no other, blocks pagination: for exactly as long
\* as the fetch it awaits is at work or paused between two attempts.  One
\* asked for without a network awaits nothing.
THEOREM RefreshBlocks ==
  ASSUME View!ViewAssumption
  PROVE  View!Spec => []BlockedWhileRefreshing
BY ViewInvariance, PTL DEF ViewInv

\* No list shows an entry twice or out of its order, whatever commits
\* between the reads of its pages.
THEOREM ListsInOrder ==
  ASSUME View!ViewAssumption
  PROVE  View!Spec => []ShownInOrder
<1>1. ViewInv => ShownInOrder
  <2> SUFFICES ASSUME ViewInv, NEW v \in Variants,
                      NEW i \in DOMAIN data[v], NEW j \in DOMAIN data[v],
                      NEW k \in DOMAIN data[v][i].items, NEW l \in DOMAIN data[v][j].items,
                      i < j \/ (i = j /\ k < l)
               PROVE  Precedes(v.sort, data[v][i].items[k], data[v][j].items[l])
    BY DEF ShownInOrder
  <2>1. PagesInOrder(v.sort, data[v])
    BY DEF ViewInv, ListsAreChains, Chain
  <2> QED BY <2>1 DEF PagesInOrder, InOrder, Precedes, View!Precedes
<1> QED BY <1>1, ViewInvariance, PTL

\* What the filter selected at the read of every page of a list is in it,
\* or lies beyond its last page.
THEOREM ListsComplete ==
  ASSUME View!ViewAssumption
  PROVE  View!Spec => []NothingSkipped
<1>1. ViewInv => NothingSkipped
  <2> SUFFICES ASSUME ViewInv, NEW v \in Variants, data[v] # <<>>, NEW p \in DOMAIN order,
                      \A i \in DOMAIN data[v] : p \in data[v][i].had
               PROVE  \/ \E i \in DOMAIN data[v] : \E k \in DOMAIN data[v][i].items :
                           data[v][i].items[k] = p
                      \/ /\ data[v][Len(data[v])].next # NoCursor
                         /\ Precedes(v.sort, data[v][Len(data[v])].next.position, p)
    BY DEF NothingSkipped
  <2>1. data[v] \in Seq(View!Pages) /\ order \in Seq(View!Entries)
    BY DEF ViewInv, View!TypeOK
  <2>2. PICK n \in Nat : n = Len(data[v]) /\ DOMAIN data[v] = 1 .. n /\ n # 0
    BY <2>1, LenProperties, EmptySeq
  <2>3. p \in Nat
    BY <2>1, LenProperties
  <2>4. PagesComplete(v.sort, data[v])
    BY DEF ViewInv, ListsAreChains, Chain
  <2>5. n \in DOMAIN data[v] /\ \A i \in 1 .. n : p \in data[v][i].had
    BY <2>2
  <2>6. (\E i \in 1 .. n : Has(data[v][i], p)) \/ Beyond(v.sort, data[v][n], p)
    BY <2>3, <2>4, <2>5 DEF PagesComplete
  <2> QED BY <2>2, <2>6 DEF Has, Beyond, Precedes, View!Precedes
<1> QED BY <1>1, ViewInvariance, PTL
=============================================================================

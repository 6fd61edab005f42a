---------------------- MODULE PostCommitExecutorProofs ----------------------
(***************************************************************************)
(* What holds of the post-commit executor for every set of tasks and       *)
(* callers and every configured bound.                                     *)
(***************************************************************************)
EXTENDS PostCommitExecutor, FiniteSetTheorems, TLAPS

(***************************************************************************)
(* The type invariant is not inductive by itself: a join settles a task    *)
(* with its body's result, and "aborted" is no terminal event.  Results    *)
(* become "aborted" only after the manager has stopped joining.            *)
(***************************************************************************)
AbortedLate ==
  \A t \in Tasks : result[t] = "aborted" => mgr \in {"aborting", "returned"}

TypeInv == TypeOK /\ AbortedLate

-----------------------------------------------------------------------------
(* Every batch of tasks is finite, so a counter can move by its size.      *)
LEMMA Countable ==
  ASSUME NEW S \in SUBSET Tasks
  PROVE  IsFiniteSet(S) /\ Cardinality(S) \in Nat
BY ConfigAssumption, FS_Subset, FS_CardinalityType

(* The channel holds tasks only.                                           *)
LEMMA QueuedAreTasks ==
  ASSUME queue \in Seq(Tasks)
  PROVE  Queued \in SUBSET Tasks
<1>1. \A i \in 1..Len(queue) : queue[i] \in Tasks
  OBVIOUS
<1> QED BY <1>1 DEF Queued

(* Settling a batch keeps the books well formed.                           *)
LEMMA SettleType ==
  ASSUME TypeOK, NEW S \in SUBSET Tasks, NEW o \in Terminal, Settle(S, o)
  PROVE  /\ outcome' \in [Tasks -> Terminal \cup {"none"}]
         /\ metrics' \in [Counters -> Nat]
<1>1. Cardinality(S) \in Nat
  BY Countable
<1>2. outcome' \in [Tasks -> Terminal \cup {"none"}]
  BY DEF Settle, TypeOK
<1>3. o \in Counters /\ metrics[o] + Cardinality(S) \in Nat
  BY <1>1 DEF TypeOK, Counters
<1>4. metrics' \in [Counters -> Nat]
  BY <1>3 DEF Settle, TypeOK
<1> QED BY <1>2, <1>4

(* What try_submit changes is well typed.                                  *)
LEMMA SubmitterType ==
  ASSUME TypeInv, NEW t \in Tasks, CheckAccepting(t) \/ Submitter(t)
  PROVE  TypeInv'
<1> USE DEF TypeInv, TypeOK, AbortedLate, admission, clock, channel, working,
            books, closing, loop, executor, SubmitterAdvances, SubmitterAt
<1>1. CASE CheckAccepting(t)
  BY <1>1 DEF CheckAccepting
<1>2. CASE TakePermit(t)
  BY <1>2 DEF TakePermit
<1>3. CASE Push(t)
  BY <1>3 DEF Push
<1>4. CASE CountAdmission(t)
  BY <1>4 DEF CountAdmission, Counters
<1>5. CASE CountRejection(t)
  BY <1>5 DEF CountRejection, Counters
<1> QED BY <1>1, <1>2, <1>3, <1>4, <1>5 DEF Submitter

(* What the manager changes is well typed.                                 *)
LEMMA BeginShutdownType ==
  ASSUME TypeOK, BeginShutdown
  PROVE  /\ outcome' \in [Tasks -> Terminal \cup {"none"}]
         /\ metrics' \in [Counters -> Nat]
         /\ shuttingDown' \in BOOLEAN /\ rxClosed' \in BOOLEAN
         /\ queue' \in Seq(Tasks)
<1>1. Queued \in SUBSET Tasks
  BY QueuedAreTasks DEF TypeOK
<1>2. "Cancelled" \in Terminal
  BY DEF Terminal
<1> QED BY <1>1, <1>2, SettleType DEF BeginShutdown

LEMMA ReceiveType ==
  ASSUME TypeOK, queue # <<>>
  PROVE  Head(queue) \in Tasks /\ Tail(queue) \in Seq(Tasks)
BY DEF TypeOK

LEMMA ReturnType ==
  ASSUME TypeOK, NEW kind \in {"Graceful", "DeadlineExceeded"}, Return(kind)
  PROVE  report' \in Reports \cup {NoReport} /\ mgr' \in ManagerAt
BY DEF TypeOK, Return, Reports, ManagerAt

LEMMA ManagerType ==
  ASSUME TypeInv, Manager
  PROVE  TypeInv'
<1> USE DEF TypeInv, AbortedLate, outside, admission, clock, channel, working,
            books, closing, loop, ManagerAdvances, ManagerAt
<1>1. CASE ReturnGraceful
  BY <1>1, ReturnType DEF ReturnGraceful, TypeOK, Return
<1>2. CASE ForceShutdown
  <2>1. names \in SUBSET Tasks /\ "Cancelled" \in Terminal
    BY DEF TypeOK, Terminal
  <2>2. /\ outcome' \in [Tasks -> Terminal \cup {"none"}]
        /\ metrics' \in [Counters -> Nat]
    BY <1>2, <2>1, SettleType DEF ForceShutdown
  <2> QED BY <1>2, <2>2 DEF ForceShutdown, TypeOK
<1>3. CASE NoticeShutdown
  BY <1>3, BeginShutdownType DEF NoticeShutdown, TypeOK
<1>4. CASE ControlPending
  BY <1>4 DEF ControlPending, TypeOK
<1>5. ASSUME NEW t \in Tasks, JoinEnded(t)
      PROVE  TypeInv'
  <2>1. result[t] \in Terminal
    BY <1>5 DEF JoinEnded, Ended, TypeOK
  <2>2. {t} \in SUBSET Tasks
    OBVIOUS
  <2>3. /\ outcome' \in [Tasks -> Terminal \cup {"none"}]
        /\ metrics' \in [Counters -> Nat]
    BY <1>5, <2>1, <2>2, SettleType DEF JoinEnded
  <2> QED BY <1>5, <2>3 DEF JoinEnded, TypeOK
<1>6. CASE JoinPending
  BY <1>6 DEF JoinPending, TypeOK
<1>7. CASE ReceiveExpired
  <2>1. {Head(queue)} \in SUBSET Tasks /\ "TimedOut" \in Terminal
    BY <1>7, ReceiveType DEF ReceiveExpired, Terminal
  <2>2. queue' \in Seq(Tasks)
    BY <1>7, ReceiveType DEF ReceiveExpired
  <2>3. /\ outcome' \in [Tasks -> Terminal \cup {"none"}]
        /\ metrics' \in [Counters -> Nat]
    BY <1>7, <2>1, SettleType DEF ReceiveExpired
  <2> QED BY <1>7, <2>2, <2>3 DEF ReceiveExpired, TypeOK
<1>8. CASE ReceiveStart
  BY <1>8, ReceiveType DEF ReceiveStart, TypeOK
<1>9. CASE ReceiveDisconnected
  BY <1>9, BeginShutdownType DEF ReceiveDisconnected, TypeOK
<1>10. CASE ReceivePending
  BY <1>10 DEF ReceivePending, TypeOK
<1>11. CASE Wake
  BY <1>11 DEF Wake, TypeOK
<1>12. ASSUME NEW t \in Tasks, JoinAborted(t)
       PROVE  TypeInv'
  BY <1>12 DEF JoinAborted, TypeOK
<1>13. CASE ReturnForced
  BY <1>13, ReturnType DEF ReturnForced, TypeOK, Return
<1> QED BY <1>1, <1>2, <1>3, <1>4, <1>5, <1>6, <1>7, <1>8, <1>9, <1>10, <1>11,
           <1>12, <1>13 DEF Manager

(* What the clock and the bodies change is well typed.                     *)
LEMMA BodyType ==
  ASSUME TypeInv, NEW t \in Tasks, BodyEnds(t) \/ Expire(t)
  PROVE  TypeInv'
<1> USE DEF TypeInv, TypeOK, AbortedLate, outside, admission, clock, channel,
            working, books, closing, loop, executor
<1>1. CASE Expire(t)
  BY <1>1 DEF Expire
<1>2. ASSUME NEW o \in {"Completed", "Failed", "TimedOut", "Panicked"},
             EndBody(t, o)
      PROVE  TypeInv'
  BY <1>2 DEF EndBody, BodyResult, Terminal
<1> QED BY <1>1, <1>2 DEF BodyEnds

(* What shutdown() and the dropped handles change is well typed.           *)
LEMMA CallerType ==
  ASSUME TypeInv, NEW c \in Callers,
         CloseAdmission(c) \/ Caller(c) \/ Abandon(c)
  PROVE  TypeInv'
<1> USE DEF TypeInv, TypeOK, AbortedLate, admission, clock, channel, working,
            books, closing, loop, executor, CallerAdvances, CallerAt
<1>1. CASE CloseAdmission(c)
  BY <1>1 DEF CloseAdmission
<1>2. CASE SendSignal(c)
  BY <1>2 DEF SendSignal
<1>3. CASE LockManager(c)
  BY <1>3 DEF LockManager
<1>4. CASE JoinManager(c)
  BY <1>4 DEF JoinManager
<1>5. CASE ReadReport(c)
  <2>1. ReportFallback \in Reports
    BY DEF ReportFallback, Reports
  <2> QED BY <1>5, <2>1 DEF ReadReport
<1>6. CASE Abandon(c)
  BY <1>6 DEF Abandon
<1> QED BY <1>1, <1>2, <1>3, <1>4, <1>5, <1>6 DEF Caller

-----------------------------------------------------------------------------
(* The strengthened type invariant is inductive.                           *)
LEMMA TypeInvariant == Spec => []TypeInv
<1>1. Init => TypeInv
  <2> SUFFICES ASSUME Init PROVE TypeInv
    OBVIOUS
  <2> USE DEF Init
  <2>1. metrics \in [Counters -> Nat] /\ queue \in Seq(Tasks)
    OBVIOUS
  <2>2. returned \in [Callers -> Reports \cup {NoReport}]
    OBVIOUS
  <2>3. /\ sub \in [Tasks -> SubmitterAt]
        /\ caller \in [Callers -> CallerAt]
        /\ mgr \in ManagerAt
    BY DEF SubmitterAt, CallerAt, ManagerAt
  <2>4. /\ result \in [Tasks -> Terminal \cup {"none", "aborted"}]
        /\ outcome \in [Tasks -> Terminal \cup {"none"}]
        /\ AbortedLate
    BY DEF AbortedLate
  <2>5. TypeOK
    BY <2>1, <2>2, <2>3, <2>4 DEF TypeOK
  <2> QED BY <2>4, <2>5 DEF TypeInv
<1>2. TypeInv /\ [Next]_vars => TypeInv'
  <2> SUFFICES ASSUME TypeInv, [Next]_vars PROVE TypeInv'
    OBVIOUS
  <2> USE DEF TypeInv, TypeOK, AbortedLate, outside, admission, clock,
              channel, working, books, closing, loop, executor
  <2>1. CASE ElapseGrace
    BY <2>1 DEF ElapseGrace
  <2>2. CASE DropSender \/ DropWatch
    BY <2>2 DEF DropSender, DropWatch
  <2>3. CASE UNCHANGED vars
    BY <2>3 DEF vars
  <2>4. CASE Quiescent
    BY <2>4 DEF Quiescent, vars
  <2> QED BY <2>1, <2>2, <2>3, <2>4, SubmitterType, ManagerType, BodyType,
             CallerType DEF Next
<1> QED BY <1>1, <1>2, PTL DEF Spec

(***************************************************************************)
(* Type correctness: in particular every terminal event is one of the five *)
(* and every counter stays a natural number.                               *)
(***************************************************************************)
THEOREM TypeCorrect == Spec => []TypeOK
BY TypeInvariant, PTL DEF TypeInv

-----------------------------------------------------------------------------
(* Receiving takes exactly the head out of a channel without duplicates.   *)
Distinct == \A i, j \in 1..Len(queue) : queue[i] = queue[j] => i = j

LEMMA PushQueued ==
  ASSUME queue \in Seq(Tasks), Distinct, NEW t \in Tasks, t \notin Queued,
         queue' = Append(queue, t)
  PROVE  Queued' = Queued \cup {t} /\ Distinct'
<1>1. /\ Len(queue') = Len(queue) + 1 /\ Len(queue) \in Nat
      /\ \A i \in 1..Len(queue) : queue'[i] = queue[i]
      /\ queue'[Len(queue) + 1] = t
  OBVIOUS
<1>2. Queued' = Queued \cup {t}
  BY <1>1 DEF Queued
<1>3. Distinct'
  BY <1>1 DEF Queued, Distinct
<1> QED BY <1>2, <1>3

LEMMA ReceiveQueued ==
  ASSUME queue \in Seq(Tasks), Distinct, queue # <<>>, queue' = Tail(queue)
  PROVE  /\ Head(queue) \in Queued
         /\ Queued' = Queued \ {Head(queue)}
         /\ Distinct'
<1>1. /\ Len(queue) \in Nat /\ Len(queue) >= 1 /\ Len(queue') = Len(queue) - 1
      /\ \A i \in 1..(Len(queue) - 1) : queue'[i] = queue[i + 1]
      /\ Head(queue) = queue[1]
  OBVIOUS
<1>2. Head(queue) \in Queued
  BY <1>1 DEF Queued
<1>3. Distinct'
  BY <1>1 DEF Distinct
<1>4. ASSUME NEW x \in Queued' PROVE x \in Queued \ {Head(queue)}
  <2>1. PICK i \in 1..(Len(queue) - 1) : x = queue[i + 1]
    BY <1>1 DEF Queued
  <2> QED BY <1>1, <2>1 DEF Queued, Distinct
<1>5. ASSUME NEW x \in Queued \ {Head(queue)} PROVE x \in Queued'
  <2>1. PICK i \in 1..Len(queue) : x = queue[i]
    BY DEF Queued
  <2>2. i - 1 \in 1..(Len(queue) - 1) /\ x = queue'[i - 1]
    BY <1>1, <2>1
  <2> QED BY <1>1, <2>2 DEF Queued
<1> QED BY <1>2, <1>3, <1>4, <1>5

(***************************************************************************)
(* That each task is in one place is inductive once active_names is tied   *)
(* to the position of the manager: it names the whole JoinSet until the    *)
(* forced shutdown clears it, and is empty from then on.                   *)
(***************************************************************************)
NamesFollowManager ==
  names = IF mgr \in {"aborting", "returned"} THEN {} ELSE active

AccountInv == TypeInv /\ Accounted /\ NamesFollowManager

LEMMA SubmitterAccount ==
  ASSUME AccountInv, NEW t \in Tasks, CheckAccepting(t) \/ Submitter(t)
  PROVE  Accounted' /\ NamesFollowManager'
<1> USE DEF AccountInv, TypeInv, TypeOK, Accounted, NamesFollowManager, Accepted,
            admission, clock, channel, working, books, closing, loop, executor,
            SubmitterAdvances
<1>1. CASE CheckAccepting(t)
  BY <1>1 DEF CheckAccepting, Queued
<1>2. CASE TakePermit(t)
  BY <1>2 DEF TakePermit, Queued
<1>3. CASE Push(t)
  <2>1. t \notin Queued /\ t \notin active /\ outcome[t] = "none"
    BY <1>3 DEF Push
  <2>2. Queued' = Queued \cup {t} /\ Distinct'
    BY <1>3, <2>1, PushQueued DEF Push, Distinct
  <2> QED BY <1>3, <2>1, <2>2 DEF Push, Distinct
<1>4. CASE CountAdmission(t)
  BY <1>4 DEF CountAdmission, Queued
<1>5. CASE CountRejection(t)
  BY <1>5 DEF CountRejection, Queued
<1> QED BY <1>1, <1>2, <1>3, <1>4, <1>5 DEF Submitter

(* Whatever the manager settles had no terminal event before.              *)
OutcomeKept == \A t \in Tasks : outcome[t] # "none" => outcome'[t] = outcome[t]

LEMMA BeginShutdownAccount ==
  ASSUME AccountInv, BeginShutdown, UNCHANGED <<sub, working>>,
         mgr \notin {"aborting", "returned"}, mgr' = "control"
  PROVE  /\ Accounted' /\ NamesFollowManager'
         /\ OutcomeKept
<1> USE DEF AccountInv, TypeInv, TypeOK, Accounted, NamesFollowManager, Accepted,
            working, OutcomeKept
<1>1. Queued \subseteq Tasks
  BY QueuedAreTasks
<1>2. Queued' = {} /\ queue' = <<>>
  BY DEF Queued, BeginShutdown
<1> QED BY <1>1, <1>2 DEF BeginShutdown, Settle

LEMMA ManagerAccount ==
  ASSUME AccountInv, Manager
  PROVE  Accounted' /\ NamesFollowManager' /\ OutcomeKept
<1> USE DEF AccountInv, TypeInv, TypeOK, Accounted, NamesFollowManager, Accepted,
            outside, admission, clock, channel, working, books, closing, loop,
            ManagerAdvances, OutcomeKept
<1>1. CASE ReturnGraceful
  BY <1>1 DEF ReturnGraceful, Return, Queued
<1>2. CASE ForceShutdown
  BY <1>2 DEF ForceShutdown, Settle, Queued
<1>3. CASE NoticeShutdown
  BY <1>3, BeginShutdownAccount DEF NoticeShutdown
<1>4. CASE ControlPending
  BY <1>4 DEF ControlPending, Queued
<1>5. ASSUME NEW t \in Tasks, JoinEnded(t)
      PROVE  Accounted' /\ NamesFollowManager' /\ OutcomeKept
  <2>1. outcome[t] = "none" /\ result[t] # "none" /\ t \in active
    BY <1>5 DEF JoinEnded, Ended
  <2>2. Queued' = Queued /\ queue' = queue
    BY <1>5 DEF JoinEnded, Queued
  <2> QED BY <1>5, <2>1, <2>2 DEF JoinEnded, Settle
<1>6. CASE JoinPending
  <2>1. mgr = "join" /\ mgr' \in {"recv", "parked"}
    BY <1>6 DEF JoinPending, MayReceive
  <2>2. UNCHANGED <<sub, queue, active, names, outcome>>
    BY <1>6 DEF JoinPending
  <2> QED BY <2>1, <2>2 DEF Queued
<1>7. CASE ReceiveExpired
  <2>1. /\ Head(queue) \in Queued /\ Queued' = Queued \ {Head(queue)}
        /\ Distinct'
    BY <1>7, ReceiveQueued DEF ReceiveExpired, Distinct
  <2>2. Head(queue) \in Tasks
    BY <2>1, QueuedAreTasks
  <2> QED BY <1>7, <2>1, <2>2 DEF ReceiveExpired, Settle, Distinct
<1>8. CASE ReceiveStart
  <2>1. /\ Head(queue) \in Queued /\ Queued' = Queued \ {Head(queue)}
        /\ Distinct'
    BY <1>8, ReceiveQueued DEF ReceiveStart, Distinct
  <2>2. Head(queue) \in Tasks
    BY <2>1, QueuedAreTasks
  <2> QED BY <1>8, <2>1, <2>2 DEF ReceiveStart, Distinct
<1>9. CASE ReceiveDisconnected
  BY <1>9, BeginShutdownAccount DEF ReceiveDisconnected
<1>10. CASE ReceivePending
  BY <1>10 DEF ReceivePending, Queued
<1>11. CASE Wake
  BY <1>11 DEF Wake, Queued
<1>12. ASSUME NEW t \in Tasks, JoinAborted(t)
       PROVE  Accounted' /\ NamesFollowManager' /\ OutcomeKept
  BY <1>12 DEF JoinAborted, Queued
<1>13. CASE ReturnForced
  BY <1>13 DEF ReturnForced, Return, Queued
<1> QED BY <1>1, <1>2, <1>3, <1>4, <1>5, <1>6, <1>7, <1>8, <1>9, <1>10, <1>11,
           <1>12, <1>13 DEF Manager

(* The remaining actors leave channel, JoinSet and books alone.            *)
LEMMA OthersAccount ==
  ASSUME AccountInv,
         \/ \E t \in Tasks : Expire(t) \/ BodyEnds(t)
         \/ ElapseGrace \/ DropSender \/ DropWatch \/ UNCHANGED vars
         \/ \E c \in Callers : CloseAdmission(c) \/ Caller(c) \/ Abandon(c)
  PROVE  Accounted' /\ NamesFollowManager' /\ OutcomeKept
<1>1. UNCHANGED <<sub, queue, active, names, mgr, outcome>>
  BY DEF Expire, BodyEnds, EndBody, ElapseGrace, DropSender, DropWatch, vars,
         CloseAdmission, Caller, SendSignal, LockManager, JoinManager,
         ReadReport, Abandon, outside, channel, working, books, loop, executor
<1> QED BY <1>1 DEF AccountInv, Accounted, NamesFollowManager, Accepted, Queued,
                    OutcomeKept

LEMMA AccountStep ==
  AccountInv /\ [Next]_vars => Accounted' /\ NamesFollowManager' /\ OutcomeKept
<1>1. ASSUME NEW t \in Tasks, CheckAccepting(t) \/ Submitter(t)
      PROVE  UNCHANGED outcome
  BY <1>1 DEF CheckAccepting, Submitter, TakePermit, Push, CountAdmission,
              CountRejection, books
<1> QED BY <1>1, SubmitterAccount, ManagerAccount, OthersAccount
        DEF Next, Quiescent, OutcomeKept

LEMMA AccountInvariant == Spec => []AccountInv
<1>1. Init => Accounted /\ NamesFollowManager
  BY DEF Init, Accounted, NamesFollowManager, Accepted, Queued
<1>2. AccountInv /\ [Next]_vars => Accounted' /\ NamesFollowManager'
  BY AccountStep
<1> QED BY <1>1, <1>2, TypeInvariant, PTL DEF Spec, AccountInv

(***************************************************************************)
(* Every task that try_send took is in exactly one of channel, JoinSet and *)
(* books, whatever interleaving of submitters, drain, joins and aborts:    *)
(* the executor neither loses track of a task nor runs or reports it twice.*)
(***************************************************************************)
THEOREM AcceptedTasksAccounted == Spec => []Accounted
BY AccountInvariant, PTL DEF AccountInv

(***************************************************************************)
(* No task has a second terminal event.                                    *)
(***************************************************************************)
THEOREM OneTerminalEvent == Spec => OutcomeStable
<1>1. AccountInv /\ [Next]_vars
        => [\A t \in Tasks : outcome[t] # "none" => outcome'[t] = outcome[t]]_vars
  BY AccountStep DEF OutcomeKept
<1> QED BY <1>1, AccountInvariant, PTL DEF Spec, OutcomeStable

-----------------------------------------------------------------------------
(***************************************************************************)
(* shutdown().  When nobody drops the future, the manager mutex is free    *)
(* and the handle taken only after the taker has awaited the manager and   *)
(* stored its report; whoever reads the report comes later than that.      *)
(***************************************************************************)
Stopped ==
  mgr = "returned" =>
    /\ active = {} /\ report \in Reports
    /\ \A o \in Terminal : report.metrics[o] = metrics[o]

HasLock(c) == caller[c] \in {"joining", "reading"}

Handover ==
  /\ \A c, d \in Callers : HasLock(c) /\ HasLock(d) => c = d
  /\ \A c \in Callers : HasLock(c) => lock = "taken" /\ handleTaken
  /\ \A c \in Callers : caller[c] \in {"reading", "returned"} => mgr = "returned"
  /\ \A c \in Callers : caller[c] = "reading" => stored = report
  /\ \A c \in Callers : caller[c] = "returned" => returned[c] = report
  /\ lock = "free" /\ handleTaken => mgr = "returned" /\ stored = report

CloseInv == TypeInv /\ Stopped /\ Handover

(* The manager's last report is never touched again.                       *)
LEMMA ManagerClose ==
  ASSUME CloseInv, Manager
  PROVE  Stopped' /\ Handover'
<1>1. mgr # "returned"
  BY DEF Manager, ReturnGraceful, ForceShutdown, NoticeShutdown, ControlPending,
         JoinEnded, JoinPending, ReceiveExpired, ReceiveStart,
         ReceiveDisconnected, ReceivePending, Wake, JoinAborted, ReturnForced,
         ManagerAdvances
<1>2. UNCHANGED closing
  BY DEF Manager, ReturnGraceful, ForceShutdown, NoticeShutdown, ControlPending,
         JoinEnded, JoinPending, ReceiveExpired, ReceiveStart,
         ReceiveDisconnected, ReceivePending, Wake, JoinAborted, ReturnForced,
         outside
<1>3. Handover'
  BY <1>1, <1>2 DEF CloseInv, Handover, HasLock, closing
<1>4. ASSUME NEW kind \in {"Graceful", "DeadlineExceeded"}, Return(kind),
             active = {}, UNCHANGED <<working, books>>
      PROVE  Stopped'
  <2>1. report' \in Reports
    BY <1>4 DEF Return, Reports, CloseInv, TypeInv, TypeOK
  <2>2. report'.metrics = metrics
    BY <1>4 DEF Return
  <2> QED BY <1>4, <2>1, <2>2 DEF Stopped, working, books
<1>5. CASE ReturnGraceful
  BY <1>3, <1>4, <1>5 DEF ReturnGraceful
<1>6. CASE ReturnForced
  BY <1>3, <1>4, <1>6 DEF ReturnForced
<1>7. CASE ~ReturnGraceful /\ ~ReturnForced
  <2>1. mgr' # "returned"
    BY <1>1, <1>7
    DEF Manager, ForceShutdown, NoticeShutdown, ControlPending, JoinEnded,
        JoinPending, ReceiveExpired, ReceiveStart, ReceiveDisconnected,
        ReceivePending, Wake, JoinAborted, ManagerAdvances, outside, loop
  <2> QED BY <1>3, <2>1 DEF Stopped
<1> QED BY <1>5, <1>6, <1>7

(* Submitters move only the two admission counters.                        *)
LEMMA SubmitterClose ==
  ASSUME CloseInv, NEW t \in Tasks, CheckAccepting(t) \/ Submitter(t)
  PROVE  Stopped' /\ Handover'
<1>1. UNCHANGED <<mgr, active, report, closing>>
  BY DEF CheckAccepting, Submitter, TakePermit, Push, CountAdmission,
         CountRejection, loop, executor, channel, working
<1>2. \A o \in Terminal : metrics'[o] = metrics[o]
  BY DEF CheckAccepting, Submitter, TakePermit, Push, CountAdmission,
         CountRejection, books, Terminal, CloseInv, TypeInv, TypeOK, Counters
<1> QED BY <1>1, <1>2 DEF CloseInv, Stopped, Handover, HasLock, closing

LEMMA CallerClose ==
  ASSUME CloseInv, NEW c \in Callers, CloseAdmission(c) \/ Caller(c)
  PROVE  Stopped' /\ Handover'
<1> USE DEF CloseInv, TypeInv, TypeOK, CallerAdvances, CallerAt
<1>1. UNCHANGED <<mgr, active, report, metrics>>
  BY DEF CloseAdmission, Caller, SendSignal, LockManager, JoinManager,
         ReadReport, loop, executor, channel, working, books
<1>2. Stopped'
  BY <1>1 DEF Stopped
<1>3. CASE CloseAdmission(c)
  BY <1>1, <1>2, <1>3 DEF CloseAdmission, Handover, HasLock
<1>4. CASE SendSignal(c)
  BY <1>1, <1>2, <1>4 DEF SendSignal, Handover, HasLock
<1>5. CASE LockManager(c)
  BY <1>1, <1>2, <1>5 DEF LockManager, Handover, HasLock
<1>6. CASE JoinManager(c)
  BY <1>1, <1>2, <1>6 DEF JoinManager, Handover, HasLock
<1>7. CASE ReadReport(c)
  <2>1. stored = report /\ mgr = "returned" /\ HasLock(c)
    BY <1>7 DEF ReadReport, Handover, HasLock
  <2>2. stored # NoReport
    BY <2>1 DEF Stopped, Reports, NoReport
  <2> QED BY <1>1, <1>2, <1>7, <2>1, <2>2 DEF ReadReport, Handover, HasLock
<1> QED BY <1>3, <1>4, <1>5, <1>6, <1>7 DEF Caller

(* A caller that dropped its future never comes back.                      *)
LEMMA AbandonedStays ==
  ASSUME TypeOK, [Next]_vars, NoneAbandoned'
  PROVE  NoneAbandoned /\ \A c \in Callers : ~Abandon(c)
<1>1. ASSUME NEW c \in Callers, caller[c] = "abandoned"
      PROVE  caller'[c] = "abandoned"
  <2>1. CASE \E d \in Callers : CloseAdmission(d) \/ Caller(d) \/ Abandon(d)
    BY <1>1, <2>1
    DEF TypeOK, CloseAdmission, Caller, SendSignal, LockManager, JoinManager,
        ReadReport, Abandon, CallerAdvances, NoneAbandoned
  <2>2. CASE ~\E d \in Callers : CloseAdmission(d) \/ Caller(d) \/ Abandon(d)
    <3>1. UNCHANGED caller
      BY <2>2
      DEF Next, vars, CheckAccepting, Submitter, TakePermit, Push, CountAdmission,
          CountRejection, Expire, BodyEnds, EndBody, Manager, ReturnGraceful,
          ForceShutdown, NoticeShutdown, ControlPending, JoinEnded, JoinPending,
          ReceiveExpired, ReceiveStart, ReceiveDisconnected, ReceivePending,
          Wake, JoinAborted, ReturnForced, ElapseGrace, DropSender, DropWatch,
          Quiescent, closing, outside
    <3> QED BY <1>1, <3>1
  <2> QED BY <2>1, <2>2
<1>2. ASSUME NEW c \in Callers, Abandon(c) PROVE FALSE
  BY <1>2 DEF Abandon, NoneAbandoned, TypeOK
<1> QED BY <1>1, <1>2 DEF NoneAbandoned

LEMMA CloseInvariant ==
  Spec => [](TypeInv /\ (NoneAbandoned => Stopped /\ Handover))
<1> DEFINE Closed == NoneAbandoned => Stopped /\ Handover
<1>1. Init => Closed
  BY DEF Init, Stopped, Handover, HasLock
<1>2. TypeInv /\ Closed /\ [Next]_vars => Closed'
  <2> SUFFICES ASSUME TypeInv, Closed, [Next]_vars, NoneAbandoned'
               PROVE  Stopped' /\ Handover'
    OBVIOUS
  <2>1. NoneAbandoned /\ \A c \in Callers : ~Abandon(c)
    BY AbandonedStays DEF TypeInv
  <2>2. CloseInv
    BY <2>1 DEF CloseInv
  <2>3. CASE \/ \E t \in Tasks : Expire(t) \/ BodyEnds(t)
            \/ ElapseGrace \/ DropSender \/ DropWatch \/ UNCHANGED vars
    <3>1. UNCHANGED <<mgr, active, report, metrics, closing>>
      BY <2>3 DEF Expire, BodyEnds, EndBody, ElapseGrace, DropSender, DropWatch,
                  vars, outside, channel, working, books, loop, executor
    <3> QED BY <2>2, <3>1 DEF CloseInv, Stopped, Handover, HasLock, closing
  <2> QED BY <2>1, <2>2, <2>3, SubmitterClose, ManagerClose, CallerClose
          DEF Next, Quiescent
<1> QED BY <1>1, <1>2, TypeInvariant, PTL DEF Spec

(***************************************************************************)
(* Once shutdown() has returned, no body is left running, for any number   *)
(* of racing callers that all await it.                                    *)
(***************************************************************************)
THEOREM ShutdownStops == Spec => []ReturnedMeansStopped
<1>1. Stopped /\ Handover =>
        \A c \in Callers : caller[c] = "returned" => mgr = "returned" /\ active = {}
  BY DEF Stopped, Handover
<1>2. TypeInv /\ (NoneAbandoned => Stopped /\ Handover) => ReturnedMeansStopped
  BY <1>1 DEF ReturnedMeansStopped
<1> QED BY <1>2, CloseInvariant, PTL

(***************************************************************************)
(* All those callers get the manager's one report, and its terminal counts *)
(* never change afterwards.                                                *)
(***************************************************************************)
THEOREM ShutdownReportsAgree == Spec => []OneReport
<1>1. TypeInv /\ (NoneAbandoned => Stopped /\ Handover) => OneReport
  BY DEF Stopped, Handover, OneReport
<1> QED BY <1>1, CloseInvariant, PTL
-----------------------------------------------------------------------------
(***************************************************************************)
(* The books.  A counter is the number of tasks with its mark; a step      *)
(* marks tasks that had no mark before and adds as many as it marks.       *)
(***************************************************************************)
Ends(o)  == {t \in Tasks : outcome[t] = o}
Subs(k)  == {t \in Tasks : sub[t] = k}
Counted  == \A o \in Terminal : metrics[o] = Cardinality(Ends(o))
Admitted == \A k \in {"admitted", "rejected"} : metrics[k] = Cardinality(Subs(k))

LEMMA AddUp ==
  ASSUME NEW S \in SUBSET Tasks, NEW T \in SUBSET Tasks, S \cap T = {}
  PROVE  Cardinality(S \cup T) = Cardinality(S) + Cardinality(T)
<1>1. IsFiniteSet(S) /\ IsFiniteSet(T) /\ Cardinality(S) \in Nat /\ Cardinality(T) \in Nat
  BY Countable
<1>2. Cardinality(S \cap T) = 0
  BY FS_EmptySet
<1>3. Cardinality(S \cup T) = Cardinality(S) + Cardinality(T) - Cardinality(S \cap T)
  BY <1>1, FS_Union
<1> QED BY <1>1, <1>2, <1>3

LEMMA SettleCounts ==
  ASSUME TypeOK, Counted, NEW S \in SUBSET Tasks, NEW o \in Terminal, Settle(S, o),
         \A t \in S : outcome[t] = "none"
  PROVE  Counted' /\ \A k \in {"admitted", "rejected"} : metrics'[k] = metrics[k]
<1>1. ASSUME NEW p \in Terminal, p # o
      PROVE  metrics'[p] = Cardinality(Ends(p)')
  <2>1. Ends(p)' = Ends(p)
    BY <1>1 DEF Ends, Settle, Terminal
  <2>2. metrics'[p] = metrics[p]
    BY <1>1 DEF Settle, TypeOK, Counters
  <2> QED BY <2>1, <2>2 DEF Counted
<1>2. metrics'[o] = Cardinality(Ends(o)')
  <2>1. Ends(o)' = Ends(o) \cup S
    BY DEF Ends, Settle
  <2>2. Ends(o) \cap S = {} /\ Ends(o) \subseteq Tasks
    BY DEF Ends, Terminal
  <2>3. Cardinality(Ends(o)') = Cardinality(Ends(o)) + Cardinality(S)
    BY <2>1, <2>2, AddUp
  <2>4. metrics'[o] = metrics[o] + Cardinality(S)
    BY DEF Settle, TypeOK, Counters
  <2> QED BY <2>3, <2>4 DEF Counted
<1>3. \A k \in {"admitted", "rejected"} : metrics'[k] = metrics[k]
  BY DEF Settle, TypeOK, Counters, Terminal
<1> QED BY <1>1, <1>2, <1>3 DEF Counted

(* Whatever the manager does to the books, it settles unsettled tasks.     *)
LEMMA ManagerSettles ==
  ASSUME AccountInv, Manager
  PROVE  /\ sub' = sub
         /\ \/ UNCHANGED books
            \/ \E S \in SUBSET Tasks, o \in Terminal :
                 Settle(S, o) /\ \A t \in S : outcome[t] = "none"
<1> USE DEF AccountInv, TypeInv, TypeOK, Accounted, outside, ManagerAdvances, Terminal
<1>1. CASE ForceShutdown
  <2>1. names \in SUBSET Tasks /\ \A t \in names : outcome[t] = "none"
    OBVIOUS
  <2> QED BY <1>1, <2>1 DEF ForceShutdown
<1>2. CASE NoticeShutdown \/ ReceiveDisconnected
  <2>1. Queued \in SUBSET Tasks
    BY QueuedAreTasks
  <2>2. \A t \in Queued : outcome[t] = "none"
    BY <2>1
  <2> QED BY <1>2, <2>1, <2>2 DEF NoticeShutdown, ReceiveDisconnected, BeginShutdown
<1>3. ASSUME NEW t \in Tasks, JoinEnded(t)
      PROVE  /\ sub' = sub
             /\ \E S \in SUBSET Tasks, o \in Terminal :
                  Settle(S, o) /\ \A u \in S : outcome[u] = "none"
  <2>1. t \in active /\ mgr = "join" /\ result[t] # "none"
    BY <1>3 DEF JoinEnded, Ended
  <2>2. outcome[t] = "none"
    BY <2>1 DEF NamesFollowManager
  <2>3. result[t] \in Terminal
    BY <2>1 DEF AbortedLate
  <2>4. Settle({t}, result[t]) /\ sub' = sub
    BY <1>3 DEF JoinEnded
  <2> QED BY <2>2, <2>3, <2>4
<1>4. CASE ReceiveExpired
  <2>1. Head(queue) \in Queued /\ Queued \in SUBSET Tasks
    BY <1>4, ReceiveQueued, QueuedAreTasks DEF ReceiveExpired, Distinct
  <2>2. outcome[Head(queue)] = "none"
    BY <2>1
  <2>3. Settle({Head(queue)}, "TimedOut") /\ sub' = sub
    BY <1>4 DEF ReceiveExpired
  <2> QED BY <2>1, <2>2, <2>3
<1>5. CASE \/ ReturnGraceful \/ ControlPending \/ JoinPending \/ ReceiveStart
           \/ ReceivePending \/ Wake \/ ReturnForced \/ \E t \in Tasks : JoinAborted(t)
  BY <1>5 DEF ReturnGraceful, ControlPending, JoinPending, ReceiveStart, ReceivePending,
              Wake, ReturnForced, JoinAborted
<1> QED BY <1>1, <1>2, <1>3, <1>4, <1>5 DEF Manager

LEMMA ManagerCounts ==
  ASSUME AccountInv, Counted, Admitted, Manager
  PROVE  Counted' /\ Admitted'
<1>1. TypeOK /\ sub' = sub
  BY ManagerSettles DEF AccountInv, TypeInv
<1>2. CASE UNCHANGED books
  BY <1>1, <1>2 DEF books, Counted, Admitted, Ends, Subs
<1>3. CASE \E S \in SUBSET Tasks, o \in Terminal :
             Settle(S, o) /\ \A t \in S : outcome[t] = "none"
  <2>1. Counted' /\ \A k \in {"admitted", "rejected"} : metrics'[k] = metrics[k]
    BY <1>1, <1>3, SettleCounts
  <2> QED BY <1>1, <2>1 DEF Admitted, Subs
<1> QED BY <1>2, <1>3, ManagerSettles

(* A submitter counts itself as it reaches the end of try_submit.          *)
LEMMA EndCounts ==
  ASSUME TypeOK, Counted, Admitted, NEW t \in Tasks,
         NEW k \in {"admitted", "rejected"}, sub[t] \notin {"admitted", "rejected"},
         sub' = [sub EXCEPT ![t] = k], metrics' = [metrics EXCEPT ![k] = @ + 1],
         UNCHANGED outcome
  PROVE  Counted' /\ Admitted'
<1>1. Counted'
  <2>1. \A o \in Terminal : metrics'[o] = metrics[o] /\ Ends(o)' = Ends(o)
    BY DEF Terminal, Ends, TypeOK, Counters
  <2> QED BY <2>1 DEF Counted
<1>2. metrics'[k] = Cardinality(Subs(k)')
  <2>1. Subs(k)' = Subs(k) \cup {t} /\ Subs(k) \cap {t} = {} /\ Subs(k) \subseteq Tasks
    BY DEF Subs, TypeOK
  <2>2. Cardinality({t}) = 1
    BY FS_Singleton
  <2>3. Cardinality(Subs(k)') = Cardinality(Subs(k)) + 1
    BY <2>1, <2>2, AddUp
  <2>4. metrics'[k] = metrics[k] + 1
    BY DEF TypeOK, Counters
  <2> QED BY <2>3, <2>4 DEF Admitted
<1>3. ASSUME NEW j \in {"admitted", "rejected"}, j # k
      PROVE  metrics'[j] = Cardinality(Subs(j)')
  <2>1. Subs(j)' = Subs(j) /\ metrics'[j] = metrics[j]
    BY <1>3 DEF Subs, TypeOK, Counters
  <2> QED BY <2>1 DEF Admitted
<1> QED BY <1>1, <1>2, <1>3 DEF Admitted

LEMMA SubmitterCounts ==
  ASSUME AccountInv, Counted, Admitted, NEW t \in Tasks, CheckAccepting(t) \/ Submitter(t)
  PROVE  Counted' /\ Admitted'
<1>1. TypeOK
  BY DEF AccountInv, TypeInv
<1>2. CASE CheckAccepting(t) \/ TakePermit(t) \/ Push(t)
  <2>1. /\ UNCHANGED books
        /\ \E to \in {"checked", "refused", "permit", "sent"} :
             /\ sub' = [sub EXCEPT ![t] = to]
             /\ sub[t] \in {"idle", "checked", "permit"}
    BY <1>2 DEF CheckAccepting, TakePermit, Push, SubmitterAdvances
  <2>2. \A k \in {"admitted", "rejected"} : Subs(k)' = Subs(k)
    BY <1>1, <2>1 DEF Subs, TypeOK
  <2> QED BY <2>1, <2>2 DEF books, Counted, Admitted, Ends
<1>3. CASE CountAdmission(t) \/ CountRejection(t)
  BY <1>1, <1>3, EndCounts DEF CountAdmission, CountRejection, SubmitterAdvances
<1> QED BY <1>2, <1>3 DEF Submitter

(***************************************************************************)
(* Every counter of the report is the number of tasks it stands for, for   *)
(* batches of any size and counts in any order.                            *)
(***************************************************************************)
THEOREM CountersAreExact == Spec => []CountersMatch
<1>1. Init => Counted /\ Admitted
  <2> SUFFICES ASSUME Init PROVE Counted /\ Admitted
    OBVIOUS
  <2>1. \A o \in Terminal : Ends(o) = {} /\ metrics[o] = 0
    BY DEF Init, Ends, Terminal, Counters
  <2>2. \A k \in {"admitted", "rejected"} : Subs(k) = {} /\ metrics[k] = 0
    BY DEF Init, Subs, Counters
  <2> QED BY <2>1, <2>2, FS_EmptySet DEF Counted, Admitted
<1>2. AccountInv /\ Counted /\ Admitted /\ [Next]_vars => Counted' /\ Admitted'
  <2> SUFFICES ASSUME AccountInv, Counted, Admitted, [Next]_vars PROVE Counted' /\ Admitted'
    OBVIOUS
  <2>1. CASE \/ \E t \in Tasks : Expire(t) \/ BodyEnds(t)
             \/ ElapseGrace \/ DropSender \/ DropWatch \/ UNCHANGED vars
             \/ \E c \in Callers : CloseAdmission(c) \/ Caller(c) \/ Abandon(c)
    <3>1. UNCHANGED <<sub, books>>
      BY <2>1 DEF Expire, BodyEnds, EndBody, ElapseGrace, DropSender, DropWatch, vars,
         CloseAdmission, Caller, SendSignal, LockManager, JoinManager, ReadReport, Abandon,
         outside, books
    <3> QED BY <3>1 DEF Counted, Admitted, Ends, Subs, books
  <2> QED BY <2>1, SubmitterCounts, ManagerCounts DEF Next, Quiescent
<1>3. Counted /\ Admitted => CountersMatch
  BY DEF Counted, Admitted, Ends, Subs, CountersMatch
<1> QED BY <1>1, <1>2, <1>3, AccountInvariant, PTL DEF Spec
-----------------------------------------------------------------------------
(***************************************************************************)
(* The abstract promise.  Of the concrete state the refinement needs, next *)
(* to the accounting: the channel is closed exactly when the flag of the   *)
(* loop is set, and the fourth arm is reached only with room for a body.   *)
(***************************************************************************)
ArmsInv ==
  /\ rxClosed = shuttingDown
  /\ mgr = "recv" => ~shuttingDown /\ Cardinality(active) < MaxConcurrency

RefineInv == AccountInv /\ ArmsInv

LEMMA ArmsStep ==
  AccountInv /\ ArmsInv /\ [Next]_vars => ArmsInv'
<1> SUFFICES ASSUME AccountInv, ArmsInv, [Next]_vars PROVE ArmsInv'
  OBVIOUS
<1>1. CASE Manager
  <2>1. CASE NoticeShutdown \/ ReceiveDisconnected
    BY <2>1 DEF NoticeShutdown, ReceiveDisconnected, BeginShutdown, ManagerAdvances, ArmsInv
  <2>2. CASE JoinPending
    BY <2>2 DEF JoinPending, ManagerAdvances, MayReceive, channel, working, ArmsInv
  <2>3. CASE \/ ReturnGraceful \/ ForceShutdown \/ ControlPending \/ ReceiveExpired
             \/ ReceiveStart \/ ReceivePending \/ Wake \/ ReturnForced
             \/ \E t \in Tasks : JoinEnded(t) \/ JoinAborted(t)
    <3>1. UNCHANGED <<rxClosed, shuttingDown>> /\ mgr' # "recv"
      BY <2>3
         DEF ReturnGraceful, ForceShutdown, ControlPending, ReceiveExpired, ReceiveStart,
         ReceivePending, Wake, ReturnForced, JoinEnded, JoinAborted, Return, ManagerAdvances,
         channel, loop
    <3> QED BY <3>1 DEF ArmsInv
  <2> QED BY <1>1, <2>1, <2>2, <2>3 DEF Manager
<1>2. CASE ~Manager
  <2>1. UNCHANGED <<rxClosed, shuttingDown, mgr, active>>
    BY <1>2 DEF Next, vars, CheckAccepting, Submitter, TakePermit, Push, CountAdmission,
       CountRejection, Expire, BodyEnds, EndBody, ElapseGrace, CloseAdmission, Caller, SendSignal,
       LockManager, JoinManager, ReadReport, Abandon, DropSender, DropWatch, Quiescent,
       executor, loop, channel, working
  <2> QED BY <2>1 DEF ArmsInv
<1> QED BY <1>1, <1>2

(* A step that moves no task and closes nothing is invisible.              *)
LEMMA Invisible ==
  ASSUME UNCHANGED rxClosed, \A t \in Tasks : PhaseOf(t)' = PhaseOf(t)
  PROVE  UNCHANGED Abstract!vars
BY DEF Abstract!vars

(* One that moves the tasks of S to p moves them in the abstract.          *)
LEMMA Moves ==
  ASSUME NEW S \in SUBSET Tasks, NEW p,
         \A t \in Tasks : PhaseOf(t)' = IF t \in S THEN p ELSE PhaseOf(t)
  PROVE  Abstract!Move(S, p)
BY DEF Abstract!Move

LEMMA InPhase ==
  ASSUME NEW p
  PROVE  Abstract!In(p) = {t \in Tasks : PhaseOf(t) = p}
BY DEF Abstract!In

LEMMA SubmitterRefines ==
  ASSUME RefineInv, NEW t \in Tasks, CheckAccepting(t) \/ Submitter(t)
  PROVE  [Abstract!Next]_Abstract!vars
<1>1. TypeOK /\ Accounted /\ rxClosed' = rxClosed
  BY DEF RefineInv, AccountInv, TypeInv, CheckAccepting, Submitter, TakePermit, Push,
     CountAdmission, CountRejection, executor, channel
<1>2. UNCHANGED <<names, outcome>>
  BY DEF CheckAccepting, Submitter, TakePermit, Push, CountAdmission, CountRejection,
     executor, working, books
<1>3. PICK to \in SubmitterAt : sub' = [sub EXCEPT ![t] = to]
  BY DEF CheckAccepting, Submitter, TakePermit, Push, CountAdmission, CountRejection,
     SubmitterAdvances, SubmitterAt
<1>4. \A u \in Tasks \ {t} : PhaseOf(u)' = PhaseOf(u)
  BY <1>1, <1>2, <1>3 DEF PhaseOf, Accepted, TypeOK
<1>5. sub'[t] = to
  BY <1>1, <1>3 DEF TypeOK
<1>6. CASE Accepted(t) \/ to \in {"checked", "permit"} \/ sub[t] = "refused"
  <2>1. PhaseOf(t)' = PhaseOf(t)
    BY <1>1, <1>2, <1>5, <1>6 DEF PhaseOf, Accepted, CheckAccepting, Submitter, TakePermit,
       Push, CountAdmission, CountRejection, SubmitterAdvances, TypeOK
  <2> QED BY <1>1, <1>4, <2>1, Invisible
<1>7. CASE ~Accepted(t) /\ to \notin {"checked", "permit"} /\ sub[t] # "refused"
  <2>1. sub[t] \in {"idle", "checked", "permit"} /\ to \in {"refused", "sent"}
    BY <1>1, <1>5, <1>7 DEF Accepted, CheckAccepting, Submitter, TakePermit, Push,
       CountAdmission, CountRejection, SubmitterAdvances, TypeOK
  <2>2. outcome[t] = "none" /\ t \notin names
    BY <1>1, <1>7 DEF Accounted
  <2>3. PhaseOf(t) = "offered"
    BY <2>1, <2>2 DEF PhaseOf, Accepted
  <2>4. PhaseOf(t)' = IF to = "sent" THEN "accepted" ELSE "rejected"
    BY <1>2, <1>5, <2>1, <2>2 DEF PhaseOf, Accepted
  <2>5. Abstract!Reject(t) \/ Abstract!Accept(t)
    BY <1>1, <1>4, <2>3, <2>4, Moves DEF Abstract!Reject, Abstract!Accept
  <2> QED BY <2>5 DEF Abstract!Next
<1> QED BY <1>6, <1>7
(* What the phases say of the channel and of active_names.                 *)
LEMMA PhaseMeans ==
  ASSUME AccountInv, NEW t \in Tasks
  PROVE  /\ PhaseOf(t) = "settled"  <=> outcome[t] # "none"
         /\ PhaseOf(t) = "running"  <=> t \in names
         /\ PhaseOf(t) = "accepted" <=> t \in Queued
BY DEF AccountInv, TypeInv, TypeOK, Accounted, PhaseOf, Accepted

(* To settle a batch is to move its tasks to the last phase.               *)
LEMMA SettleMoves ==
  ASSUME TypeOK, NEW S \in SUBSET Tasks, NEW o \in Terminal, Settle(S, o),
         UNCHANGED sub, \A t \in Tasks \ S : t \in names' <=> t \in names
  PROVE  Abstract!Move(S, "settled")
<1>1. \A t \in S : PhaseOf(t)' = "settled"
  BY DEF Settle, PhaseOf, Terminal
<1>2. \A t \in Tasks \ S : PhaseOf(t)' = PhaseOf(t)
  BY DEF Settle, PhaseOf, Accepted
<1> QED BY <1>1, <1>2, Moves

LEMMA ClosingRefines ==
  ASSUME RefineInv, BeginShutdown, ~shuttingDown, UNCHANGED <<sub, working>>
  PROVE  Abstract!Next
<1>1. TypeOK /\ ~rxClosed /\ rxClosed' = TRUE
  BY DEF RefineInv, AccountInv, TypeInv, ArmsInv, BeginShutdown
<1>2. Queued \in SUBSET Tasks
  BY <1>1, QueuedAreTasks DEF TypeOK
<1>3. Abstract!In("accepted") = Queued
  BY <1>2, InPhase, PhaseMeans DEF RefineInv
<1>4. Abstract!Move(Queued, "settled")
  BY <1>1, <1>2, SettleMoves DEF BeginShutdown, working, Terminal
<1>5. Abstract!Close
  BY <1>1, <1>3, <1>4 DEF Abstract!Close
<1> QED BY <1>5 DEF Abstract!Next

(* Tasks that active_names tracks are those that run.                      *)
LEMMA FinishRefines ==
  ASSUME RefineInv, NEW S \in SUBSET names, NEW o \in Terminal, Settle(S, o),
         names' = names \ S, UNCHANGED <<sub, rxClosed>>
  PROVE  Abstract!Next
<1>1. TypeOK /\ names \in SUBSET Tasks
  BY DEF RefineInv, AccountInv, TypeInv, TypeOK
<1>2. Abstract!In("running") = names
  BY <1>1, InPhase, PhaseMeans DEF RefineInv
<1>3. Abstract!Move(S, "settled")
  BY <1>1, SettleMoves
<1>4. Abstract!Finish(S)
  BY <1>2, <1>3 DEF Abstract!Finish
<1> QED BY <1>1, <1>4 DEF Abstract!Next

LEMMA ReceiveRefines ==
  ASSUME RefineInv, ReceiveExpired \/ ReceiveStart
  PROVE  Abstract!Next
<1>1. /\ mgr = "recv" /\ queue # <<>> /\ UNCHANGED <<sub, rxClosed>>
      /\ TypeOK /\ Accounted /\ NamesFollowManager
  BY DEF ReceiveExpired, ReceiveStart, ManagerAdvances, outside, RefineInv, AccountInv,
     TypeInv
<1>2. ~rxClosed /\ Cardinality(active) < MaxConcurrency /\ names = active
  BY <1>1 DEF RefineInv, ArmsInv, NamesFollowManager
<1>3. Head(queue) \in Queued /\ Queued \subseteq Tasks
  <2>1. queue \in Seq(Tasks)
    BY <1>1 DEF TypeOK
  <2>2. Queued \subseteq Tasks
    BY <2>1, QueuedAreTasks
  <2>3. Len(queue) >= 1 /\ Head(queue) = queue[1]
    BY <1>1, <2>1
  <2>4. 1 \in 1..Len(queue)
    BY <2>1, <2>3
  <2> QED BY <2>2, <2>3, <2>4 DEF Queued
<1>4. PICK t \in Tasks : t = Head(queue)
  BY <1>3
<1>5. PhaseOf(t) = "accepted" /\ outcome[t] = "none" /\ t \notin names
  BY <1>1, <1>3, <1>4, PhaseMeans DEF RefineInv, Accounted
<1>6. CASE ReceiveExpired
  <2>1. Abstract!Move({t}, "settled")
    <3>1. Settle({t}, "TimedOut") /\ names' = names
      BY <1>6, <1>4 DEF ReceiveExpired, working
    <3> QED BY <1>1, <1>3, <3>1, SettleMoves DEF Terminal
  <2>2. Abstract!Expire(t)
    BY <1>1, <1>2, <1>3, <1>5, <2>1 DEF Abstract!Expire
  <2> QED BY <1>3, <2>2 DEF Abstract!Next
<1>7. CASE ReceiveStart
  <2>1. names' = names \cup {t} /\ UNCHANGED outcome
    BY <1>7, <1>4 DEF ReceiveStart, books
  <2>2. PhaseOf(t)' = "running" /\ \A u \in Tasks \ {t} : PhaseOf(u)' = PhaseOf(u)
    BY <1>1, <1>5, <2>1 DEF PhaseOf, Accepted
  <2>3. Abstract!Move({t}, "running")
    BY <1>3, <2>2, Moves
  <2>4. Abstract!In("running") = names
    BY <1>1, InPhase, PhaseMeans DEF RefineInv, TypeOK
  <2>5. Abstract!Start(t)
    <3>1. Cardinality(Abstract!In("running")) < MaxConcurrency
      BY <1>2, <2>4
    <3>2. ~rxClosed /\ UNCHANGED rxClosed /\ [u \in Tasks |-> PhaseOf(u)][t] = "accepted"
      BY <1>1, <1>2, <1>5
    \* LossyWork counts with an instance of its own.
    <3>3. Abstract!Cardinality(names) = Cardinality(names)
      BY DEF Abstract!Cardinality, Cardinality
    <3> QED BY <2>3, <2>4, <3>1, <3>2, <3>3 DEF Abstract!Start
  <2> QED BY <1>3, <2>5 DEF Abstract!Next
<1> QED BY <1>6, <1>7

LEMMA ManagerRefines ==
  ASSUME RefineInv, Manager
  PROVE  [Abstract!Next]_Abstract!vars
<1>1. CASE NoticeShutdown \/ ReceiveDisconnected
  <2>1. ~shuttingDown
    BY <1>1 DEF NoticeShutdown, ReceiveDisconnected, ManagerAdvances, RefineInv, ArmsInv
  <2> QED BY <1>1, <2>1, ClosingRefines DEF NoticeShutdown, ReceiveDisconnected, outside
<1>2. CASE ForceShutdown
  <2>1. /\ names' = names \ names /\ Settle(names, "Cancelled") /\ UNCHANGED <<sub, rxClosed>>
    BY <1>2 DEF ForceShutdown, outside, channel
  <2> QED BY <2>1, FinishRefines DEF Terminal
<1>3. ASSUME NEW t \in Tasks, JoinEnded(t)
      PROVE  Abstract!Next
  <2>1. t \in active /\ mgr = "join" /\ result[t] # "none"
    BY <1>3 DEF JoinEnded, Ended, ManagerAdvances
  <2>2. t \in names /\ result[t] \in Terminal
    BY <2>1 DEF RefineInv, AccountInv, TypeInv, TypeOK, AbortedLate, NamesFollowManager
  <2>3. Settle({t}, result[t]) /\ names' = names \ {t} /\ UNCHANGED <<sub, rxClosed>>
    BY <1>3 DEF JoinEnded, outside, channel
  <2> QED BY <2>2, <2>3, FinishRefines
<1>4. CASE ReceiveExpired \/ ReceiveStart
  BY <1>4, ReceiveRefines
<1>5. CASE \/ ReturnGraceful \/ ControlPending \/ JoinPending \/ ReceivePending
           \/ Wake \/ ReturnForced \/ \E t \in Tasks : JoinAborted(t)
  <2>1. UNCHANGED <<sub, rxClosed, names, outcome>>
    BY <1>5 DEF ReturnGraceful, ControlPending, JoinPending, ReceivePending, Wake,
       ReturnForced, JoinAborted, outside, channel, working, books
  <2> QED BY <2>1, Invisible DEF PhaseOf, Accepted
<1> QED BY <1>1, <1>2, <1>3, <1>4, <1>5 DEF Manager

(***************************************************************************)
(* The executor implements the seam, for every capacity and concurrency:   *)
(* a task settles at most once, no more than MaxConcurrency run together,  *)
(* closing settles all that wait, and nothing starts after it.             *)
(***************************************************************************)
THEOREM SeamIsImplemented == Spec => ImplementsLossyWork
<1>1. Init => Abstract!Init
  BY DEF Init, Abstract!Init, PhaseOf, Accepted
<1>2. RefineInv /\ [Next]_vars => [Abstract!Next]_Abstract!vars
  <2> SUFFICES ASSUME RefineInv, [Next]_vars PROVE [Abstract!Next]_Abstract!vars
    OBVIOUS
  <2>1. CASE \/ \E t \in Tasks : Expire(t) \/ BodyEnds(t)
             \/ ElapseGrace \/ DropSender \/ DropWatch \/ UNCHANGED vars
             \/ \E c \in Callers : CloseAdmission(c) \/ Caller(c) \/ Abandon(c)
    <3>1. UNCHANGED <<sub, rxClosed, names, outcome>>
      BY <2>1 DEF Expire, BodyEnds, EndBody, ElapseGrace, DropSender, DropWatch, vars,
         CloseAdmission, Caller, SendSignal, LockManager, JoinManager, ReadReport, Abandon,
         outside, executor, loop, channel, working, books
    <3> QED BY <3>1, Invisible DEF PhaseOf, Accepted
  <2> QED BY <2>1, SubmitterRefines, ManagerRefines DEF Next, Quiescent
<1>3. Init => ArmsInv
  BY DEF Init, ArmsInv
<1> QED BY <1>1, <1>2, <1>3, ArmsStep, AccountInvariant, PTL
        DEF Spec, RefineInv, ImplementsLossyWork, Abstract!Spec
=============================================================================

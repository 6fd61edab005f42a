-------------------------- MODULE PostCommitExecutor --------------------------
(***************************************************************************)
(* The bounded, explicitly lossy executor for work submitted after a       *)
(* commit: crates/application/src/post_commit.rs of the product workspace. *)
(*                                                                         *)
(* Actors: one submitter per task, running try_submit on any thread; the   *)
(* manager task, whose biased select! is modelled arm by arm, because what *)
(* an arm polls can change before the next arm is polled; the spawned task *)
(* bodies; the callers of shutdown; and the clock, which only ever makes a *)
(* task's deadline or the shutdown grace pass.                             *)
(*                                                                         *)
(* The tokio channel is external.  try_send takes a semaphore permit and   *)
(* only then appends to the list; closing the receiver closes the          *)
(* semaphore, and try_recv on an empty list returns without waiting for a  *)
(* permit that is still held.                                              *)
(***************************************************************************)
EXTENDS Naturals, Sequences, FiniteSets

CONSTANTS
  Tasks,           \* tasks, each given to try_submit at most once
  Callers,         \* callers of shutdown()
  Abandoning,      \* the callers that may drop the shutdown() future
  QueueCapacity,
  MaxConcurrency

ASSUME ConfigAssumption ==
  /\ IsFiniteSet(Tasks)
  /\ Abandoning \subseteq Callers
  /\ QueueCapacity \in Nat \ {0}
  /\ MaxConcurrency \in Nat \ {0}

VARIABLES
  accepting,     \* ExecutorInner.accepting
  signal,        \* the value in the shutdown watch channel
  handles,       \* "held", then the fields of ExecutorInner drop in order
  sub,           \* position of each task's submitter in try_submit
  expired,       \* tasks whose admitted_deadline has passed
  queue,         \* tasks in the channel, oldest first
  rxClosed,      \* receiver.close() was called
  mgr,           \* position of run_manager
  shuttingDown,
  graceElapsed,  \* shutdown_deadline has passed
  active,        \* the JoinSet
  names,         \* the keys of active_names
  result,        \* what each spawned body ended with
  outcome,       \* the terminal event emitted for each task
  metrics,
  report,        \* what run_manager returned
  lock,          \* the manager mutex: "free" or "taken"
  handleTaken,   \* manager.take() has happened
  stored,        \* ExecutorInner.report
  caller,        \* position of each caller in shutdown()
  returned       \* the report shutdown() gave each caller

admission == <<accepting, signal, handles>>
channel   == <<queue, rxClosed>>
working   == <<active, names, result>>
books     == <<outcome, metrics>>
clock     == <<expired, graceElapsed>>
closing   == <<lock, handleTaken, stored, caller, returned>>
outside   == <<admission, sub, clock, closing>>
loop      == <<mgr, shuttingDown, report>>
executor  == <<loop, channel, working>>
vars == <<admission, sub, clock, channel, mgr, shuttingDown, working, books,
          report, closing>>

-----------------------------------------------------------------------------
Terminal == {"Completed", "Failed", "TimedOut", "Cancelled", "Panicked"}
Counters == Terminal \cup {"admitted", "rejected"}
NoReport == [outcome |-> "none", metrics |-> [k \in Counters |-> 0]]
Reports  == [outcome : {"Graceful", "DeadlineExceeded"},
             metrics : [Counters -> Nat]]

SubmitterAt == {"idle", "checked", "permit", "sent", "admitted",
                "refused", "rejected"}
ManagerAt   == {"control", "join", "recv", "parked", "aborting", "returned"}
CallerAt    == {"idle", "closed", "locking", "joining", "reading",
                "returned", "abandoned"}

Init ==
  /\ accepting = TRUE /\ signal = FALSE /\ handles = "held"
  /\ sub = [t \in Tasks |-> "idle"]
  /\ expired = {} /\ graceElapsed = FALSE
  /\ queue = <<>> /\ rxClosed = FALSE
  /\ mgr = "control" /\ shuttingDown = FALSE
  /\ active = {} /\ names = {}
  /\ result = [t \in Tasks |-> "none"]
  /\ outcome = [t \in Tasks |-> "none"]
  /\ metrics = [k \in Counters |-> 0]
  /\ report = NoReport
  /\ lock = "free" /\ handleTaken = FALSE /\ stored = NoReport
  /\ caller = [c \in Callers |-> "idle"]
  /\ returned = [c \in Callers |-> NoReport]

Queued  == {queue[i] : i \in 1..Len(queue)}
Permits == {t \in Tasks : sub[t] = "permit"}

SubmitterAdvances(t, from, to) ==
  /\ sub[t] = from
  /\ sub' = [sub EXCEPT ![t] = to]

ManagerAdvances(from, to) == mgr = from /\ mgr' = to

CallerAdvances(c, from, to) ==
  /\ caller[c] = from
  /\ caller' = [caller EXCEPT ![c] = to]

-----------------------------------------------------------------------------
(* try_submit.  The deadline is anchored right after the accepting flag is *)
(* read; the permit, the append and the two counters are separate steps.   *)

CheckAccepting(t) ==
  /\ handles = "held"
  /\ SubmitterAdvances(t, "idle", IF accepting THEN "checked" ELSE "refused")
  /\ UNCHANGED <<executor, admission, clock, books, closing>>

HasRoom == Len(queue) + Cardinality(Permits) < QueueCapacity

TakePermit(t) ==
  /\ SubmitterAdvances(t, "checked",
                       IF ~rxClosed /\ HasRoom THEN "permit" ELSE "refused")
  /\ UNCHANGED <<executor, admission, clock, books, closing>>

Push(t) ==
  /\ SubmitterAdvances(t, "permit", "sent")
  /\ queue' = Append(queue, t)
  /\ UNCHANGED <<loop, admission, clock, rxClosed, working, books, closing>>

CountAdmission(t) ==
  /\ SubmitterAdvances(t, "sent", "admitted")
  /\ metrics' = [metrics EXCEPT !["admitted"] = @ + 1]
  /\ UNCHANGED <<executor, admission, clock, outcome, closing>>

CountRejection(t) ==
  /\ SubmitterAdvances(t, "refused", "rejected")
  /\ metrics' = [metrics EXCEPT !["rejected"] = @ + 1]
  /\ UNCHANGED <<executor, admission, clock, outcome, closing>>

Submitter(t) == TakePermit(t) \/ Push(t) \/ CountAdmission(t) \/ CountRejection(t)

-----------------------------------------------------------------------------
(* run_manager.                                                            *)

\* Mutant: the counter moves once for a whole batch.
SettleCountingOnce(S, o) ==
  /\ outcome' = [t \in Tasks |-> IF t \in S THEN o ELSE outcome[t]]
  /\ metrics' = [metrics EXCEPT ![o] = @ + 1]

\* terminal_event for every task of S: count it, publish it.
Settle(S, o) ==
  /\ outcome' = [t \in Tasks |-> IF t \in S THEN o ELSE outcome[t]]
  /\ metrics' = [metrics EXCEPT ![o] = @ + Cardinality(S)]

\* Mutant: the flag of the loop is not set.
BeginShutdownUnflagged ==
  /\ UNCHANGED shuttingDown
  /\ rxClosed' = TRUE
  /\ Settle(Queued, "Cancelled")
  /\ queue' = <<>>

BeginShutdown ==
  /\ shuttingDown' = TRUE
  /\ rxClosed' = TRUE
  /\ Settle(Queued, "Cancelled")
  /\ queue' = <<>>

Return(kind) ==
  /\ mgr' = "returned"
  /\ report' = [outcome |-> kind, metrics |-> metrics]

\* The head of the loop.
ReturnGraceful ==
  /\ mgr = "control" /\ shuttingDown /\ active = {}
  /\ Return("Graceful")
  /\ UNCHANGED <<outside, channel, shuttingDown, working, books>>

\* Mutant: active_names is not cleared.
ForceShutdownKeepingNames ==
  /\ ManagerAdvances("control", "aborting")
  /\ shuttingDown /\ active # {} /\ graceElapsed
  /\ Settle(names, "Cancelled")
  /\ UNCHANGED <<outside, channel, shuttingDown, working, report>>

\* First arm: the grace is over; settle what is tracked, then abort it.
ForceShutdown ==
  /\ ManagerAdvances("control", "aborting")
  /\ shuttingDown /\ active # {} /\ graceElapsed
  /\ Settle(names, "Cancelled")
  /\ names' = {}
  /\ UNCHANGED <<outside, channel, shuttingDown, active, result, report>>

\* Second arm: the flag was sent, or its sender was dropped.
ShutdownSeen == signal \/ handles = "dropped"

NoticeShutdown ==
  /\ ManagerAdvances("control", "control")
  /\ ~shuttingDown /\ ShutdownSeen
  /\ BeginShutdown
  /\ UNCHANGED <<outside, working, report>>

ControlPending ==
  /\ ManagerAdvances("control", "join")
  /\ IF shuttingDown THEN active # {} /\ ~graceElapsed ELSE ~ShutdownSeen
  /\ UNCHANGED <<outside, channel, shuttingDown, working, books, report>>

\* Third arm: a body has ended; its name is removed and its outcome settled.
Ended == {t \in active : result[t] # "none"}

JoinEnded(t) ==
  /\ ManagerAdvances("join", "control")
  /\ t \in Ended
  /\ active' = active \ {t} /\ names' = names \ {t}
  /\ Settle({t}, result[t])
  /\ UNCHANGED <<outside, channel, shuttingDown, result, report>>

\* Mutant: one body too many.
MayReceiveOneMore == ~shuttingDown /\ Cardinality(active) <= MaxConcurrency

MayReceive == ~shuttingDown /\ Cardinality(active) < MaxConcurrency

JoinPending ==
  /\ ManagerAdvances("join", IF MayReceive THEN "recv" ELSE "parked")
  /\ Ended = {}
  /\ UNCHANGED <<outside, channel, shuttingDown, working, books, report>>

\* Fourth arm: a task comes out of the queue, or every sender is gone.
ReceiveExpired ==
  /\ ManagerAdvances("recv", "control")
  /\ queue # <<>> /\ Head(queue) \in expired
  /\ Settle({Head(queue)}, "TimedOut")
  /\ queue' = Tail(queue)
  /\ UNCHANGED <<outside, rxClosed, shuttingDown, working, report>>

ReceiveStart ==
  /\ ManagerAdvances("recv", "control")
  /\ queue # <<>> /\ Head(queue) \notin expired
  /\ active' = active \cup {Head(queue)}
  /\ names' = names \cup {Head(queue)}
  /\ queue' = Tail(queue)
  /\ UNCHANGED <<outside, rxClosed, shuttingDown, result, books, report>>

ReceiveDisconnected ==
  /\ ManagerAdvances("recv", "control")
  /\ queue = <<>> /\ handles # "held"
  /\ BeginShutdown
  /\ UNCHANGED <<outside, working, report>>

ReceivePending ==
  /\ ManagerAdvances("recv", "parked")
  /\ queue = <<>> /\ handles = "held"
  /\ UNCHANGED <<outside, channel, shuttingDown, working, books, report>>

\* Mutant: a send does not wake the receiver.
WakeWithoutSends ==
  /\ ManagerAdvances("parked", "control")
  /\ \/ IF shuttingDown THEN graceElapsed ELSE ShutdownSeen
     \/ Ended # {}
  /\ UNCHANGED <<outside, channel, shuttingDown, working, books, report>>

\* Mutant: neither the shutdown signal nor the grace wakes the manager.
WakeWithoutControl ==
  /\ ManagerAdvances("parked", "control")
  /\ Ended # {} \/ (MayReceive /\ (queue # <<>> \/ handles # "held"))
  /\ UNCHANGED <<outside, channel, shuttingDown, working, books, report>>

\* A waker of some arm fires, and the select! is polled from its first arm.
Wake ==
  /\ ManagerAdvances("parked", "control")
  /\ \/ IF shuttingDown THEN graceElapsed ELSE ShutdownSeen
     \/ Ended # {}
     \/ MayReceive /\ (queue # <<>> \/ handles # "held")
  /\ UNCHANGED <<outside, channel, shuttingDown, working, books, report>>

\* abort_all was called: each body is dropped at its next await, unless it
\* ended before; join_next discards what it ended with.
JoinAborted(t) ==
  /\ mgr = "aborting" /\ t \in active
  /\ active' = active \ {t}
  /\ result' = [result EXCEPT ![t] = IF @ = "none" THEN "aborted" ELSE @]
  /\ UNCHANGED <<outside, loop, channel, names, books>>

\* Mutant: the manager returns without joining what it aborted.
ReturnForcedEarly ==
  /\ mgr = "aborting"
  /\ Return("DeadlineExceeded")
  /\ UNCHANGED <<outside, channel, shuttingDown, working, books>>

ReturnForced ==
  /\ mgr = "aborting" /\ active = {}
  /\ Return("DeadlineExceeded")
  /\ UNCHANGED <<outside, channel, shuttingDown, working, books>>

Manager ==
  \/ ReturnGraceful \/ ForceShutdown \/ NoticeShutdown \/ ControlPending
  \/ \E t \in Tasks : JoinEnded(t)
  \/ JoinPending
  \/ ReceiveExpired \/ ReceiveStart \/ ReceiveDisconnected \/ ReceivePending
  \/ Wake
  \/ \E t \in Tasks : JoinAborted(t)
  \/ ReturnForced

-----------------------------------------------------------------------------
(* The spawned body: timeout_at around the work, then the cancellation     *)
(* observer, which a panic skips.                                          *)

BodyResult(o) == IF signal /\ o # "Panicked" THEN "Cancelled" ELSE o

EndBody(t, o) ==
  /\ t \in active /\ result[t] = "none"
  /\ o = "TimedOut" => t \in expired
  /\ result' = [result EXCEPT ![t] = BodyResult(o)]
  /\ UNCHANGED <<outside, loop, channel, active, names, books>>

BodyEnds(t) ==
  \E o \in {"Completed", "Failed", "TimedOut", "Panicked"} : EndBody(t, o)

(* The clock.                                                              *)

Expire(t) ==
  /\ sub[t] \in {"checked", "permit", "sent", "admitted"} /\ t \notin expired
  /\ result[t] = "none" /\ outcome[t] = "none"   \* nobody reads it later
  /\ expired' = expired \cup {t}
  /\ UNCHANGED <<executor, admission, sub, graceElapsed, books, closing>>

ElapseGrace ==
  /\ shuttingDown /\ ~graceElapsed
  /\ graceElapsed' = TRUE
  /\ UNCHANGED <<executor, admission, sub, expired, books, closing>>

-----------------------------------------------------------------------------
(* shutdown().                                                             *)

CloseAdmission(c) ==
  /\ handles = "held"
  /\ CallerAdvances(c, "idle", "closed")
  /\ accepting' = FALSE
  /\ UNCHANGED <<executor, signal, handles, sub, clock, books, lock,
                 handleTaken, stored, returned>>

SendSignal(c) ==
  /\ CallerAdvances(c, "closed", "locking")
  /\ signal' = (signal \/ mgr # "returned")
  /\ UNCHANGED <<executor, accepting, handles, sub, clock, books, lock,
                 handleTaken, stored, returned>>

LockManager(c) ==
  /\ lock = "free"
  /\ CallerAdvances(c, "locking", IF handleTaken THEN "reading" ELSE "joining")
  /\ lock' = "taken"
  /\ handleTaken' = TRUE
  /\ UNCHANGED <<executor, admission, sub, clock, books, stored, returned>>

\* Mutant: the report is not stored for later callers.
JoinManagerUnstored(c) ==
  /\ mgr = "returned"
  /\ CallerAdvances(c, "joining", "returned")
  /\ returned' = [returned EXCEPT ![c] = report]
  /\ lock' = "free"
  /\ UNCHANGED <<executor, admission, sub, clock, books, handleTaken, stored>>

JoinManager(c) ==
  /\ mgr = "returned"
  /\ CallerAdvances(c, "joining", "returned")
  /\ stored' = report
  /\ returned' = [returned EXCEPT ![c] = report]
  /\ lock' = "free"
  /\ UNCHANGED <<executor, admission, sub, clock, books, handleTaken>>

\* Nobody stored a report: a Graceful one is made up.
ReportFallback == [outcome |-> "Graceful", metrics |-> metrics]

ReadReport(c) ==
  /\ CallerAdvances(c, "reading", "returned")
  /\ returned' = [returned EXCEPT ![c] =
                    IF stored = NoReport THEN ReportFallback ELSE stored]
  /\ lock' = "free"
  /\ UNCHANGED <<executor, admission, sub, clock, books, handleTaken, stored>>

\* The future is dropped at one of its awaits; a guard it held is released
\* and the join handle it took is gone.
Abandon(c) ==
  /\ c \in Abandoning /\ caller[c] \in {"locking", "joining"}
  /\ caller' = [caller EXCEPT ![c] = "abandoned"]
  /\ lock' = IF caller[c] = "joining" THEN "free" ELSE lock
  /\ UNCHANGED <<executor, admission, sub, clock, books, handleTaken, stored,
                 returned>>

Caller(c) == SendSignal(c) \/ LockManager(c) \/ JoinManager(c) \/ ReadReport(c)

(* The last handle is dropped without a call in progress: the sender goes  *)
(* first, then the watch.                                                  *)

NobodyCalling ==
  /\ \A t \in Tasks : sub[t] \in {"idle", "admitted", "rejected"}
  /\ \A c \in Callers : caller[c] \in {"idle", "returned", "abandoned"}

DropSender ==
  /\ handles = "held" /\ NobodyCalling
  /\ handles' = "senderDropped"
  /\ UNCHANGED <<executor, accepting, signal, sub, clock, books, closing>>

DropWatch ==
  /\ handles = "senderDropped"
  /\ handles' = "dropped"
  /\ UNCHANGED <<executor, accepting, signal, sub, clock, books, closing>>

\* Nothing is left to do; not a step of the code.
Quiescent ==
  /\ mgr = "returned" /\ NobodyCalling
  /\ UNCHANGED vars

-----------------------------------------------------------------------------
Next ==
  \/ \E t \in Tasks : CheckAccepting(t) \/ Submitter(t) \/ Expire(t)
  \/ \E t \in Tasks : BodyEnds(t)
  \/ Manager
  \/ ElapseGrace
  \/ \E c \in Callers : CloseAdmission(c) \/ Caller(c) \/ Abandon(c)
  \/ DropSender \/ DropWatch
  \/ Quiescent

Spec == Init /\ [][Next]_vars

(***************************************************************************)
(* The runtime polls a woken task again, timers fire, and a body yields,   *)
(* so that timeout_at ends it once its deadline has passed.  Nothing       *)
(* obliges anyone to submit, to call shutdown or to drop the handles, and  *)
(* a body may ignore the cancellation.                                     *)
(***************************************************************************)
Fairness ==
  /\ \A t \in Tasks :
       /\ WF_vars(Submitter(t))
       /\ WF_vars(Expire(t))
       /\ WF_vars(t \in expired /\ BodyEnds(t))
  /\ WF_vars(Manager)
  /\ WF_vars(ElapseGrace)
  /\ \A c \in Callers : SF_vars(LockManager(c)) /\ WF_vars(Caller(c))
  /\ WF_vars(DropWatch)

FairSpec == Spec /\ Fairness

-----------------------------------------------------------------------------
(* Properties.                                                             *)

TypeOK ==
  /\ accepting \in BOOLEAN /\ signal \in BOOLEAN
  /\ handles \in {"held", "senderDropped", "dropped"}
  /\ sub \in [Tasks -> SubmitterAt]
  /\ expired \subseteq Tasks /\ graceElapsed \in BOOLEAN
  /\ queue \in Seq(Tasks) /\ rxClosed \in BOOLEAN
  /\ mgr \in ManagerAt /\ shuttingDown \in BOOLEAN
  /\ active \subseteq Tasks /\ names \subseteq Tasks
  /\ result \in [Tasks -> Terminal \cup {"none", "aborted"}]
  /\ outcome \in [Tasks -> Terminal \cup {"none"}]
  /\ metrics \in [Counters -> Nat]
  /\ report \in Reports \cup {NoReport} /\ stored \in Reports \cup {NoReport}
  /\ lock \in {"free", "taken"} /\ handleTaken \in BOOLEAN
  /\ caller \in [Callers -> CallerAt]
  /\ returned \in [Callers -> Reports \cup {NoReport}]

Accepted(t) == sub[t] \in {"sent", "admitted"}

(***************************************************************************)
(* A task that try_send took is at every moment in exactly one place: once *)
(* in the channel, tracked by active_names, or settled; a task it did not  *)
(* take is in none of them.  active_names always names the bodies in the   *)
(* JoinSet that have no terminal event yet, so that the forced shutdown    *)
(* reports every one of them and no join reports a second time.            *)
(***************************************************************************)
Accounted ==
  /\ \A i, j \in 1..Len(queue) : queue[i] = queue[j] => i = j
  /\ names = {t \in active : outcome[t] = "none"}
  /\ \A t \in Tasks :
       /\ Accepted(t) <=> (t \in Queued \/ t \in names \/ outcome[t] # "none")
       /\ t \in Queued => t \notin active /\ outcome[t] = "none"

(***************************************************************************)
(* Each terminal counter counts the tasks that ended so, and the admitted  *)
(* and rejected counters the submitters that came to the end of try_submit;*)
(* a count lags only while its submitter is between try_send and fetch_add.*)
(***************************************************************************)
CountersMatch ==
  /\ \A o \in Terminal : metrics[o] = Cardinality({t \in Tasks : outcome[t] = o})
  /\ \A k \in {"admitted", "rejected"} :
       metrics[k] = Cardinality({t \in Tasks : sub[t] = k})

(***************************************************************************)
(* A task never has two terminal events, whichever of the join, the drain, *)
(* the queue deadline and the forced shutdown comes first.                 *)
(***************************************************************************)
OutcomeStable ==
  [][\A t \in Tasks : outcome[t] # "none" => outcome'[t] = outcome[t]]_vars

(***************************************************************************)
(* The seam implements its abstract promise: a task settles at most once,  *)
(* no more than max_concurrency run together, closing settles all that     *)
(* wait, and after it nothing starts.                                      *)
(***************************************************************************)
PhaseOf(t) ==
  IF outcome[t] # "none" THEN "settled"
  ELSE IF t \in names THEN "running"
  ELSE IF Accepted(t) THEN "accepted"
  ELSE IF sub[t] \in {"refused", "rejected"} THEN "rejected"
  ELSE "offered"

Abstract == INSTANCE LossyWork
  WITH phase <- [t \in Tasks |-> PhaseOf(t)], closed <- rxClosed

ImplementsLossyWork == Abstract!Spec

(***************************************************************************)
(* Once shutdown() has returned to a caller, the manager has stopped and   *)
(* no body is left running, however many callers raced, as long as none    *)
(* dropped its future: then no report is stored, and the next caller is   *)
(* told Graceful at once (post_commit.rs:291), whatever the manager does.  *)
(***************************************************************************)
NoneAbandoned == \A c \in Callers : caller[c] # "abandoned"

ReturnedMeansStopped ==
  NoneAbandoned =>
    \A c \in Callers : caller[c] = "returned" => mgr = "returned" /\ active = {}

(***************************************************************************)
(* All callers of shutdown() get the same report, its outcome is the one   *)
(* the manager ended with, and its terminal counts are final.              *)
(***************************************************************************)
OneReport ==
  NoneAbandoned =>
    \A c \in Callers : caller[c] = "returned" =>
      /\ returned[c] = report
      /\ \A o \in Terminal : returned[c].metrics[o] = metrics[o]

(***************************************************************************)
(* shutdown() always returns, although bodies may ignore the cancellation: *)
(* the grace bounds the wait, and an abandoned caller blocks nobody.       *)
(***************************************************************************)
ShutdownReturns ==
  \A c \in Callers :
    caller[c] = "closed" ~> caller[c] \in {"returned", "abandoned"}

(***************************************************************************)
(* A task in the channel of an open executor gets a terminal event,        *)
(* whatever the bodies before it do: its own deadline and theirs see to it.*)
(***************************************************************************)
QueuedSettles ==
  \A t \in Tasks : (t \in Queued /\ ~rxClosed) ~> outcome[t] # "none"

(***************************************************************************)
(* Dropping the last handle without a shutdown() stops the manager too.    *)
(***************************************************************************)
DroppedStops == (handles = "dropped") ~> (mgr = "returned")

(***************************************************************************)
(* post_commit.rs:5 lists the ways admitted work can be lost; each but the *)
(* crash leaves a terminal event.  A graceful shutdown is not among them,  *)
(* so after one every admitted task has its terminal event.                *)
(***************************************************************************)
NoSilentLoss ==
  report.outcome = "Graceful" =>
    \A t \in Tasks : sub[t] = "admitted" => outcome[t] # "none"
=============================================================================

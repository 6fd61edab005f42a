-------------------------- MODULE ChildSupervisor --------------------------
(* The child processes of one `yydra` command, and how they are taken down.  *)
(*                                                                         *)
(*   dev      a migration, then a backend and a frontend, watched together   *)
(*   migrate  `run_process`: one migration                                  *)
(*   setup    `run_process` twice, between a snapshot of the two lock files   *)
(*            and their restoration                                         *)
(*   doctor   a sequence of bounded probes run by `process::capture`         *)
(*                                                                         *)
(* Every child leads a process group of its own.  What else lives in the     *)
(* group is the operating system's: descendants that SIGKILL can reach        *)
(* ("killable": whether they heed SIGTERM is theirs, and any may end by        *)
(* itself), that it has reached ("dying"), and that this user may not signal  *)
(* ("foreign").  A descendant that has left for a session of its own          *)
(* ("stray") is in no group that is signalled, but still holds the output     *)
(* that it inherited.                                                        *)
EXTENDS Naturals, Sequences

CONSTANTS Probes,      \* looks at a signalled group before SIGKILL (40)
          ForkKinds,   \* the kinds of descendants that children start
          Checks       \* doctor's probes, in order: is the tool required?

ASSUME ProbesAssumption == Probes \in Nat \ {0}
ASSUME ForkKindsAssumption == ForkKinds \subseteq {"killable", "foreign", "stray"}
ASSUME ChecksAssumption == Checks \in Seq(BOOLEAN) /\ Checks # <<>>

Commands == {"dev", "migrate", "setup", "doctor"}
Kids == {"migration", "backend", "frontend", "cargo", "npm", "tool"}
Kinds == {"killable", "dying", "foreign", "stray"}
Locks == <<"Cargo.lock", "package-lock.json">>
LockFiles == {"Cargo.lock", "package-lock.json"}

VARIABLES
  command,   \* one of Commands
  format,    \* message format: only "json" pipes a child's output
  sink,      \* our own standard output; a write to a broken one panics
  shutdown,  \* the flag that the signal handler sets
  late,      \* the running probe is past its timeout
  leader,    \* the child itself: none, running, dying, zombie or reaped
  exit,      \* the status it ended with
  rest,      \* the kinds of its descendants, in its group or out of it
  armed,     \* its handle would still kill the group when dropped
  pc, todo,  \* the supervisor's step, and the children it is about
  tries,     \* looks taken at the group being terminated
  goal,      \* why it is being terminated, then what the command returns
  lock,      \* each lock file: as committed, or rewritten by a tool
  drifted,   \* setup's view of them: unread, clean, restored or unrestored
  checks,    \* the probes that doctor has not reported
  failures,  \* the required probes that failed, as the summary counts them
  fails,     \* events emitted with severity "error"
  result     \* what the command returned

world == <<command, format>>
os == <<leader, exit, rest>>
doctor == <<checks, failures, late>>
setup == <<lock, drifted>>
vars == <<world, sink, shutdown, os, armed, pc, todo, tries, goal, setup, doctor,
          fails, result>>

Results == {"-", "ok", "err", "panic"}
Goals == Results \cup {"stopped", "succeeded", "failed", "noFrontend", "exited"}
Steps == {"start", "snapshot", "spawn", "poll", "check", "signal", "probing", "kill",
          "wait", "join", "conclude", "drop", "grace", "dropwait", "restore", "report",
          "done"}

TypeOK ==
  /\ command \in Commands /\ format \in {"human", "json"}
  /\ sink \in {"open", "broken"} /\ shutdown \in BOOLEAN /\ late \in BOOLEAN
  /\ leader \in [Kids -> {"none", "running", "dying", "zombie", "reaped"}]
  /\ exit \in [Kids -> {"-", "ok", "bad"}]
  /\ rest \in [Kids -> SUBSET Kinds]
  /\ armed \in [Kids -> BOOLEAN]
  /\ pc \in Steps /\ todo \in Seq(Kids \cup LockFiles) /\ tries \in 0..Probes /\ goal \in Goals
  /\ lock \in [LockFiles -> {"committed", "rewritten"}]
  /\ drifted \in {"unread", "clean", "restored", "unrestored"}
  /\ checks \in Seq(BOOLEAN) /\ failures \in Nat /\ fails \in Nat
  /\ result \in Results

Init ==
  /\ command \in Commands /\ format \in {"human", "json"}
  /\ sink = "open" /\ shutdown = FALSE /\ late = FALSE
  /\ leader = [k \in Kids |-> "none"] /\ exit = [k \in Kids |-> "-"]
  /\ rest = [k \in Kids |-> {}] /\ armed = [k \in Kids |-> FALSE]
  /\ pc = "start" /\ todo = <<>> /\ tries = 0 /\ goal = "-"
  /\ lock = [l \in LockFiles |-> "committed"] /\ drifted = "unread"
  /\ checks = (IF command = "doctor" THEN Checks ELSE <<>>)
  /\ failures = 0 /\ fails = 0 /\ result = "-"

-----------------------------------------------------------------------------
(* The operating system's view of a group.                                   *)

Reaped(k) == IF leader[k] = "zombie" THEN "reaped" ELSE leader[k]

Members(k) == rest[k] \ {"stray"}

\* killpg finds nobody; killpg finds only processes it may not signal.
Absent(k) == Reaped(k) \in {"none", "reaped"} /\ Members(k) = {}
Refused(k) == Reaped(k) \in {"none", "reaped"} /\ Members(k) = {"foreign"}

\* SIGTERM, then try_wait having reaped first; the child itself may ignore it.
Terminated(k) ==
  /\ \E s \in (IF leader[k] = "running" THEN {"running", "dying"} ELSE {Reaped(k)}) :
       leader' = [leader EXCEPT ![k] = s]
  /\ UNCHANGED <<rest, exit>>

\* SIGKILL: nothing it reaches can refuse.
After(kinds) ==
  IF "killable" \in kinds THEN (kinds \ {"killable"}) \cup {"dying"} ELSE kinds
Killed(k, s) ==
  /\ rest' = [rest EXCEPT ![k] = After(@)]
  /\ leader' = [leader EXCEPT ![k] = IF s = "running" THEN "dying" ELSE s]
  /\ UNCHANGED exit

Reap(k) == leader' = [leader EXCEPT ![k] = Reaped(k)] /\ UNCHANGED <<exit, rest>>

\* Nothing of the group lives on that this user could have killed.
Gone(k) == leader[k] \in {"none", "reaped"} /\ Members(k) \subseteq {"dying", "foreign"}

\* The forwarding thread reads until every holder of the child's output is gone,
\* one that has left the group included; doctor's probes write to files.
Piped == format = "json" /\ command # "doctor"
OutputEnded(k) == Piped => rest[k] = {}

-----------------------------------------------------------------------------
(* Leaving: locals are dropped on every way out, a panic included.           *)

Leave(r) == pc' = "drop" /\ goal' = r /\ todo' = <<>> /\ UNCHANGED tries

\* dev emits events while children are live, a phase when it starts and ends.
Speaks == command = "dev" \/ (command # "doctor" /\ pc \in {"spawn", "conclude"})
Panic == Speaks /\ sink = "broken" /\ Leave("panic")
Heard == ~(Speaks /\ sink = "broken")

First == CASE command = "doctor" -> <<"tool">> [] command = "setup" -> <<"cargo">>
           [] OTHER -> <<"migration">>

\* Verification of the workspace, and the shutdown handler; doctor only looks for
\* the workspace here, and main() reports if there is none.
Start ==
  /\ pc = "start"
  /\ \/ /\ pc' = IF command = "setup" THEN "snapshot" ELSE "spawn"
        /\ todo' = First /\ UNCHANGED <<tries, goal, fails>>
        /\ UNCHANGED result
     \/ /\ fails' = fails + 1
        /\ IF command = "doctor"
           THEN pc' = "done" /\ result' = "err" /\ UNCHANGED <<todo, tries, goal>>
           ELSE Leave("err") /\ UNCHANGED result
  /\ UNCHANGED <<world, sink, shutdown, os, armed, setup, doctor>>

\* Both locks are read before a tool runs.
Snapshot ==
  /\ pc = "snapshot"
  /\ \/ pc' = "spawn" /\ drifted' = "clean" /\ UNCHANGED <<todo, tries, goal, fails>>
     \/ fails' = fails + 1 /\ Leave("err") /\ UNCHANGED drifted
  /\ UNCHANGED <<world, sink, shutdown, os, armed, lock, doctor, result>>

\* A child starts as the leader of a new group, with an armed handle.
SpawnChild(k) ==
  /\ leader' = [leader EXCEPT ![k] = "running"]
  /\ rest' = [rest EXCEPT ![k] = {}] /\ exit' = [exit EXCEPT ![k] = "-"]
  /\ armed' = [armed EXCEPT ![k] = TRUE] /\ late' = FALSE

CancelledBeforeStart == command = "doctor" /\ shutdown

\* It cannot be started: a backend that runs already is taken down.
SpawnFails(k) ==
  IF k = "frontend"
  THEN pc' = "signal" /\ todo' = <<"backend">> /\ goal' = "noFrontend" /\ tries' = 0
  ELSE Leave("err")

\* spawn_reported_dev_child, or the spawns of run_process and capture.
Spawn ==
  /\ pc = "spawn"
  /\ LET k == Head(todo) IN
     \/ Panic /\ UNCHANGED <<os, armed, late, fails>>
     \/ /\ Heard /\ ~CancelledBeforeStart
        /\ SpawnChild(k)
        /\ IF k = "backend" THEN pc' = "spawn" /\ todo' = <<"frontend">>
                            ELSE pc' = "poll" /\ todo' = <<>>
        /\ UNCHANGED <<tries, goal, fails>>
     \/ /\ Heard /\ SpawnFails(k)
        /\ fails' = IF command = "dev" THEN fails + 1 ELSE fails
        /\ UNCHANGED <<os, armed, late>>
  /\ UNCHANGED <<world, sink, shutdown, setup, checks, failures, result>>

Watched == CASE leader["backend"] # "none" -> <<"backend", "frontend">>
             [] leader["npm"] # "none" -> <<"npm">>
             [] OTHER -> First

CaptureAbandoned == command = "doctor" /\ (shutdown \/ late)

\* Shutdown was requested: the frontend goes first.
Stop == /\ pc' = "signal" /\ goal' = "stopped" /\ tries' = 0
        /\ todo' = IF Len(Watched) = 1 THEN Watched ELSE <<"frontend", "backend">>

\* The top of every supervision loop: the flag first, then a probe's timeout.
Poll ==
  /\ pc = "poll"
  /\ CASE CaptureAbandoned -> Leave("err")
       [] command # "doctor" /\ shutdown -> Panic \/ (Heard /\ Stop)
       [] OTHER -> pc' = "check" /\ todo' = Watched /\ UNCHANGED <<tries, goal>>
  /\ UNCHANGED <<world, sink, shutdown, os, armed, setup, doctor, fails, result>>

Peer(k) == IF k = "backend" THEN "frontend" ELSE "backend"

\* A probe ended: what it left running is killed at once.
Disarm(k) ==
  /\ Killed(k, "reaped") /\ armed' = [armed EXCEPT ![k] = FALSE]
  /\ Leave(IF exit[k] = "ok" THEN "ok" ELSE "err") /\ UNCHANGED fails

\* A step ended: its descendants are terminated before its status counts.
StepExited(k) ==
  /\ Reap(k) /\ pc' = "signal" /\ todo' = <<k>> /\ tries' = 0
  /\ goal' = IF exit[k] = "ok" THEN "succeeded" ELSE "failed"
  /\ UNCHANGED <<armed, fails>>

\* dev_child_exited: its own descendants first, then the other child.
DevChildExited(k) ==
  /\ Reap(k) /\ fails' = fails + 1 /\ UNCHANGED armed
  /\ \/ Panic
     \/ /\ Heard /\ pc' = "signal" /\ todo' = <<k, Peer(k)>>
        /\ tries' = 0 /\ goal' = "exited"

\* try_wait on the next watched child.
Check ==
  /\ pc = "check"
  /\ LET k == Head(todo) IN
     CASE leader[k] # "zombie" ->
            /\ todo' = Tail(todo) /\ pc' = IF Len(todo) = 1 THEN "poll" ELSE "check"
            /\ UNCHANGED <<tries, goal, os, armed, fails>>
       [] leader[k] = "zombie" /\ k = "tool" -> Disarm(k)
       [] leader[k] = "zombie" /\ k \in {"migration", "cargo", "npm"} -> StepExited(k)
       [] leader[k] = "zombie" /\ k \in {"backend", "frontend"} -> DevChildExited(k)
  /\ UNCHANGED <<world, sink, shutdown, setup, doctor, result>>

-----------------------------------------------------------------------------
(* terminate_child.                                                          *)

\* Mutant: a group whose leader was reaped is taken for finished.
SignalLiveLeader ==
  /\ pc = "signal"
  /\ LET k == Head(todo) IN
       IF leader[k] = "reaped"
       THEN /\ armed' = [armed EXCEPT ![k] = FALSE] /\ pc' = "join"
            /\ UNCHANGED <<os, todo, tries, goal>>
       ELSE Terminated(k) /\ pc' = "probing" /\ UNCHANGED <<armed, todo, tries, goal>>
  /\ UNCHANGED <<world, sink, shutdown, setup, doctor, fails, result>>

Signal ==
  /\ pc = "signal"
  /\ LET k == Head(todo) IN
       IF Refused(k) THEN Reap(k) /\ Leave("err")
                     ELSE Terminated(k) /\ pc' = "probing" /\ UNCHANGED <<todo, tries, goal>>
  /\ UNCHANGED <<world, sink, shutdown, armed, setup, doctor, fails, result>>

Probe ==
  /\ pc = "probing"
  /\ LET k == Head(todo) IN
     /\ Reap(k)
     /\ CASE Absent(k) -> /\ armed' = [armed EXCEPT ![k] = FALSE]
                          /\ pc' = "join" /\ UNCHANGED <<todo, tries, goal>>
          [] Refused(k) -> Leave("err") /\ UNCHANGED armed
          [] OTHER -> /\ tries' = tries + 1
                      /\ pc' = IF tries + 1 = Probes THEN "kill" ELSE "probing"
                      /\ UNCHANGED <<todo, goal, armed>>
  /\ UNCHANGED <<world, sink, shutdown, setup, doctor, fails, result>>

\* Mutant: it only waits for a group that ignores SIGTERM.
KillNobody ==
  /\ pc = "kill" /\ pc' = "wait"
  /\ UNCHANGED <<world, sink, shutdown, os, armed, todo, tries, goal, setup, doctor, fails, result>>

\* Mutant: only the child is killed, not its group.
KillChildOnly ==
  /\ pc = "kill"
  /\ LET k == Head(todo) IN
       /\ leader' = [leader EXCEPT ![k] = IF @ = "running" THEN "dying" ELSE @]
       /\ UNCHANGED <<exit, rest>>
  /\ pc' = "wait"
  /\ UNCHANGED <<world, sink, shutdown, armed, todo, tries, goal, setup, doctor, fails, result>>

Kill ==
  /\ pc = "kill"
  /\ LET k == Head(todo) IN
       IF leader[k] = "reaped" /\ Refused(k)
       THEN Leave("err") /\ UNCHANGED os
       ELSE Killed(k, leader[k]) /\ pc' = "wait" /\ UNCHANGED <<todo, tries, goal>>
  /\ UNCHANGED <<world, sink, shutdown, armed, setup, doctor, fails, result>>

Wait ==
  /\ pc = "wait"
  /\ LET k == Head(todo) IN
       /\ leader[k] \in {"zombie", "reaped"}
       /\ Reap(k) /\ armed' = [armed EXCEPT ![k] = FALSE]
  /\ pc' = "join"
  /\ UNCHANGED <<world, sink, shutdown, todo, tries, goal, setup, doctor, fails, result>>

Join ==
  /\ pc = "join" /\ OutputEnded(Head(todo))
  /\ IF Len(todo) > 1 THEN pc' = "signal" /\ todo' = Tail(todo) /\ tries' = 0
                      ELSE pc' = "conclude" /\ UNCHANGED <<todo, tries>>
  /\ UNCHANGED <<world, sink, shutdown, os, armed, goal, setup, doctor, fails, result>>

\* run_process returned; setup goes on from cargo to npm.
ConcludeRunProcess ==
  /\ UNCHANGED fails
  /\ IF goal = "succeeded" /\ todo = <<"cargo">>
     THEN pc' = "spawn" /\ todo' = <<"npm">> /\ UNCHANGED <<tries, goal>>
     ELSE Leave(IF goal = "succeeded" THEN "ok" ELSE "err")

ConcludeDev ==
  /\ fails' = IF goal = "failed" THEN fails + 1 ELSE fails
  /\ CASE goal = "succeeded" ->
            pc' = "spawn" /\ todo' = <<"backend">> /\ UNCHANGED <<tries, goal>>
       [] goal = "stopped" -> Leave("ok")
       [] goal \in {"failed", "noFrontend", "exited"} -> Leave("err")

\* What the loops do once everything they had to terminate is down.
Conclude ==
  /\ pc = "conclude"
  /\ \/ Panic /\ UNCHANGED fails
     \/ Heard /\ command = "dev" /\ ConcludeDev
     \/ command # "dev" /\ ConcludeRunProcess
  /\ UNCHANGED <<world, sink, shutdown, os, armed, setup, doctor, result>>

-----------------------------------------------------------------------------
(* Dropping the handles that are still armed, the last declared first.       *)

DropOrder == <<"frontend", "backend", "migration", "cargo", "npm", "tool">>
NextDropped(k) ==
  \E i \in DOMAIN DropOrder : /\ DropOrder[i] = k /\ armed[k]
                  /\ \A j \in 1..(i - 1) : ~armed[DropOrder[j]]

\* ManagedChild kills at once; CapturedChild asks first and waits a second.
Drop ==
  /\ pc = "drop"
  /\ \E k \in Kids :
       /\ NextDropped(k) /\ todo' = <<k>>
       /\ IF k = "tool"
          THEN /\ pc' = "grace"
               /\ IF Refused(k) THEN UNCHANGED os ELSE Terminated(k)
          ELSE pc' = "dropwait" /\ Killed(k, leader[k])
  /\ UNCHANGED <<world, sink, shutdown, armed, tries, goal, setup, doctor, fails, result>>

\* The child was reaped, or its second is over.
Grace ==
  /\ pc = "grace"
  /\ Killed(Head(todo), Reaped(Head(todo)))
  /\ pc' = "dropwait"
  /\ UNCHANGED <<world, sink, shutdown, armed, todo, tries, goal, setup, doctor, fails, result>>

DropWait ==
  /\ pc = "dropwait"
  /\ LET k == Head(todo) IN
       /\ leader[k] \in {"zombie", "reaped"} /\ OutputEnded(k)
       /\ Reap(k) /\ armed' = [armed EXCEPT ![k] = FALSE]
  /\ pc' = "drop" /\ todo' = <<>>
  /\ UNCHANGED <<world, sink, shutdown, tries, goal, setup, doctor, fails, result>>

\* Mutant: the locks are looked at only after both tools succeeded.
RestoresAfterSuccess == command = "setup" /\ drifted = "clean" /\ goal = "ok"

\* Once the locks were read, setup looks at the locks, whatever the tools said.
Restores == command = "setup" /\ drifted = "clean" /\ goal # "panic" /\ sink = "open"

\* Mutant: main() reports again what a phase has reported.
ReturnReporting ==
  /\ pc = "drop" /\ \A k \in Kids : ~armed[k]
  /\ IF command = "doctor" THEN pc' = "report" /\ UNCHANGED <<result, fails>>
     ELSE /\ pc' = "done" /\ result' = goal
          /\ fails' = IF goal = "err" THEN fails + 1 ELSE fails
  /\ UNCHANGED <<world, sink, shutdown, os, armed, todo, tries, goal, setup, doctor>>

Return ==
  /\ pc = "drop" /\ \A k \in Kids : ~armed[k]
  /\ CASE command = "doctor" -> pc' = "report" /\ UNCHANGED <<todo, result, fails>>
       [] Restores -> /\ pc' = "restore" /\ todo' = Locks /\ UNCHANGED result
                      /\ fails' = IF goal = "err" THEN fails + 1 ELSE fails
       [] OTHER -> /\ pc' = "done" /\ UNCHANGED todo
                   /\ result' = IF drifted = "clean" /\ sink = "broken" THEN "panic" ELSE goal
                   /\ fails' = IF goal = "err" /\ fails = 0 THEN 1 ELSE fails
  /\ UNCHANGED <<world, sink, shutdown, os, armed, tries, goal, setup, doctor>>

\* verify_and_restore_locks, one lock at a time: a lock that reads differently
\* is written back, and a failure to do so returns at once.  Its own failure is
\* a second event beside that of a tool.
Restore ==
  /\ pc = "restore"
  /\ LET l == Head(todo) IN
     \/ /\ drifted' = (IF lock[l] = "committed" THEN drifted ELSE "restored")
        /\ lock' = [lock EXCEPT ![l] = "committed"] /\ todo' = Tail(todo)
     \/ /\ lock[l] # "committed" /\ drifted' = "unrestored"
        /\ todo' = <<>> /\ UNCHANGED lock
  /\ IF todo' # <<>> THEN pc' = "restore" /\ UNCHANGED <<fails, result>>
     ELSE /\ pc' = "done"
          /\ result' = IF goal = "ok" /\ drifted' = "clean" THEN "ok" ELSE "err"
          /\ fails' = IF drifted' = "clean" THEN fails ELSE fails + 1
  /\ UNCHANGED <<world, sink, shutdown, os, armed, tries, goal, doctor>>

\* Doctor's summary looks at the flag, then at the count; a bad one is an event
\* of its own.
Summary(count, events) ==
  LET bad == shutdown \/ count # 0 IN
  /\ pc' = "done" /\ UNCHANGED todo
  /\ result' = IF bad THEN "err" ELSE "ok"
  /\ fails' = IF bad THEN events + 1 ELSE events

\* Doctor reports one probe and goes on to the next: a required one that failed
\* is counted and is an error, an optional one only a warning.
Report ==
  /\ pc = "report"
  /\ LET bad == IF goal = "err" /\ Head(checks) THEN 1 ELSE 0
     IN /\ failures' = failures + bad /\ checks' = Tail(checks)
        /\ IF Len(checks) > 1
           THEN pc' = "spawn" /\ todo' = <<"tool">> /\ fails' = fails + bad /\ UNCHANGED result
           ELSE Summary(failures + bad, fails + bad)
  /\ UNCHANGED <<world, sink, shutdown, os, armed, tries, goal, setup, late>>

Supervisor ==
  \/ Start \/ Snapshot \/ Restore \/ Spawn \/ Poll \/ Check
  \/ Signal \/ Probe \/ Kill \/ Wait \/ Join
  \/ Conclude \/ Drop \/ Grace \/ DropWait \/ Return \/ Report

-----------------------------------------------------------------------------
(* Everybody else.                                                           *)

others == <<world, armed, pc, todo, tries, goal, drifted, checks, failures, fails, result>>

Interrupt == pc # "start" /\ ~shutdown /\ shutdown' = TRUE
             /\ UNCHANGED <<others, sink, late, os, lock>>
SinkBreaks == command # "doctor" /\ sink = "open" /\ sink' = "broken"
              /\ UNCHANGED <<others, shutdown, late, os, lock>>
TimeIsUp == command = "doctor" /\ ~late /\ late' = TRUE
            /\ UNCHANGED <<others, shutdown, sink, os, lock>>

\* A tool of setup, or a descendant of one, rewrites a lock file.  Descendants
\* that no signal of ours reaches (any more) are taken to leave the locks alone.
Rewrites(k) ==
  /\ k \in {"cargo", "npm"}
  /\ leader[k] \in {"running", "dying"} \/ "killable" \in rest[k]
  /\ \E l \in LockFiles : lock' = [lock EXCEPT ![l] = "rewritten"]
  /\ UNCHANGED <<others, sink, shutdown, late, os>>

Exits(k) ==
  /\ leader[k] \in {"running", "dying"}
  /\ leader' = [leader EXCEPT ![k] = "zombie"]
  /\ \E s \in {"ok", "bad"} : exit' = [exit EXCEPT ![k] = s]
  /\ UNCHANGED <<others, sink, shutdown, late, lock, rest>>

\* A stray matters only for the output it holds.
Forks(k) ==
  /\ leader[k] = "running"
  /\ \E m \in ForkKinds : /\ m = "stray" => Piped
                          /\ rest' = [rest EXCEPT ![k] = @ \cup {m}]
  /\ UNCHANGED <<others, sink, shutdown, late, lock, leader, exit>>

Vanishes(k) ==
  /\ \E m \in rest[k] : rest' = [rest EXCEPT ![k] = @ \ {m}]
  /\ UNCHANGED <<others, sink, shutdown, late, lock, leader, exit>>

\* The kernel finishes what a signal began.
Dies(k) ==
  \/ leader[k] = "dying" /\ Exits(k)
  \/ /\ "dying" \in rest[k] /\ rest' = [rest EXCEPT ![k] = @ \ {"dying"}]
     /\ UNCHANGED <<others, sink, shutdown, late, lock, leader, exit>>

Next ==
  \/ Supervisor \/ Interrupt \/ SinkBreaks \/ TimeIsUp
  \/ \E k \in Kids : Exits(k) \/ Forks(k) \/ Vanishes(k) \/ Rewrites(k)

Spec == Init /\ [][Next]_vars

\* The supervising thread runs, time passes, and a dying process dies.
Fairness == /\ WF_vars(Supervisor) /\ WF_vars(TimeIsUp)
            /\ \A k \in Kids : WF_vars(Dies(k))
FairSpec == Spec /\ Fairness

-----------------------------------------------------------------------------
(* Properties.                                                               *)

\* Whatever way a command ends - success, failure, Ctrl-C, a failing
\* termination, a panic of the reporter in the middle of it - no process that
\* it started, and no descendant that stayed in the group of one, is left that
\* it could have killed.
NoGroupLeft == result # "-" => \A k \in Kids : Gone(k)

\* The backend starts only after a migration that succeeded, and after every
\* descendant it left in its group was taken down, as far as this user may,
\* also when the migration ended while those still ran.
MigrationFirst ==
  [][leader["backend"] = "none" /\ leader'["backend"] = "running"
       => exit["migration"] = "ok" /\ Gone("migration")]_vars

\* Every failure is reported exactly once, whether a phase, a supervision loop
\* or only main() saw it: once for a command that fails, twice if setup's tools
\* and its locks both failed, never for one that succeeds.  doctor reports each
\* required probe that failed and, once, the outcome: as many errors as its
\* summary counts and one more, also if it is interrupted in the middle of it.
SetupFailedTwice == goal = "err" /\ drifted \in {"restored", "unrestored"}
ReportedOnce ==
  /\ result = "ok" => fails = 0
  /\ result = "err" /\ command = "doctor" => fails = failures + 1
  /\ result = "err" /\ command # "doctor" => fails = IF SetupFailedTwice THEN 2 ELSE 1

\* A setup that returns, and could write, leaves both locks as they were
\* committed, although tools, or descendants in their groups that outlived them,
\* rewrote them at any time; it succeeds only if none did.
SetupKeepsLocks ==
  command = "setup" /\ result \in {"ok", "err"} /\ drifted # "unrestored" =>
    /\ \A l \in LockFiles : lock[l] = "committed"
    /\ result = "ok" => drifted = "clean"

\* A forwarded output is held by a process that no signal of ours ends.
HeldOpen == Piped /\ \E k \in Kids : rest[k] \cap {"foreign", "stray"} # {}
Ending == \/ shutdown \/ (command = "doctor" /\ pc # "start")
          \/ leader["backend"] = "zombie" \/ leader["frontend"] = "zombie"

\* Ctrl-C, or the end of the backend or the frontend, ends the command, even
\* if children ignore SIGTERM; and doctor ends whatever its probes do.  The
\* only thing that can hold a command is a descendant out of the reach of its
\* signals, foreign or stray, that keeps a forwarded output open for ever.
Finishes == (Ending ~> result # "-") \/ <>[]HeldOpen
=============================================================================

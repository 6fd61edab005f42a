----------------------- MODULE ChildSupervisorProofs -----------------------
(* What holds of every command with its children, whatever the number of     *)
(* looks, the descendants that children start and the checks of doctor: no   *)
(* group outlives the command, the backend starts over a finished migration, *)
(* lock files are kept, and each failure is reported once.                   *)
EXTENDS ChildSupervisor, TLAPS

-----------------------------------------------------------------------------
(* The inductive invariant.                                                  *)

Terminating == {"signal", "probing", "kill", "wait", "join", "conclude"}
Leaving == {"drop", "grace", "dropwait", "report", "restore"}
Holding == {"snapshot", "spawn", "check", "grace", "dropwait", "restore"} \cup Terminating

Reasons == {"stopped", "succeeded", "failed", "noFrontend", "exited"}

\* What each step finds in todo, tries, goal and checks; with TypeOK inductive.
ShapeInv ==
  /\ pc \in Holding => todo # <<>>
  /\ pc # "restore" => todo \in Seq(Kids)
  /\ pc = "signal" => tries = 0
  /\ pc = "probing" => tries < Probes
  /\ pc \in Terminating => goal \in Reasons
  /\ pc \in Leaving => goal \in {"ok", "err", "panic"}
  /\ pc = "report" => command = "doctor"
  /\ pc \in {"snapshot", "restore"} => command = "setup"
  /\ command = "doctor" /\ pc # "done" => checks # <<>>

TypeInv == TypeOK /\ ShapeInv

\* A handle is disarmed only over a group of which nothing is left, and nothing
\* comes back into such a group.
Stopped(k) == leader[k] # "running" /\ Members(k) \subseteq {"dying", "foreign"}
GroupInv ==
  /\ \A k \in Kids : ~armed[k] => Gone(k)
  /\ pc \in {"wait", "dropwait"} => Stopped(Head(todo))
  /\ pc \in {"start", "report", "restore", "done"} => \A k \in Kids : ~armed[k]
  /\ result # "-" => pc = "done"

\* dev concludes a successful step only over a migration that succeeded.
DevKids == {"migration", "backend", "frontend"}
DevTodo ==
  /\ todo \in Seq(DevKids)
  /\ \A k \in Kids \ DevKids : leader[k] = "none" /\ ~armed[k]
DevDone ==
  pc \in Terminating /\ goal = "succeeded" =>
    /\ todo = <<"migration">> /\ exit["migration"] = "ok"
    /\ leader["migration"] = "reaped"
    /\ pc \in {"join", "conclude"} => ~armed["migration"]
DevNext ==
  pc = "spawn" /\ Head(todo) = "backend" => exit["migration"] = "ok" /\ ~armed["migration"]
DevInv == command = "dev" => DevTodo /\ DevDone /\ DevNext

\* Only dev has a backend and a frontend.
OnlyDevInv ==
  command # "dev" =>
    /\ leader["backend"] = "none" /\ leader["frontend"] = "none"
    /\ pc \in {"snapshot", "spawn"} => Head(todo) \notin {"backend", "frontend"}

\* Nothing rewrites a lock before setup has read it or after it restores it.
LockInv ==
  /\ command # "setup" => drifted = "unread"
  /\ command = "setup" =>
       /\ drifted = "unread" =>
            /\ pc \in {"start", "snapshot", "drop", "done"}
            /\ pc = "drop" => goal # "ok"
            /\ \A k \in Kids : ~armed[k]
            /\ \A l \in LockFiles : lock[l] = "committed"
       /\ pc \in {"start", "snapshot"} => drifted = "unread"
       /\ drifted \in {"restored", "unrestored"} => pc \in {"restore", "done"}
       /\ pc = "restore" =>
            /\ drifted \in {"clean", "restored"}
            /\ \/ todo = Locks
               \/ todo = <<"package-lock.json">> /\ lock["Cargo.lock"] = "committed"
  /\ SetupKeepsLocks

\* The errors that doctor has reported, and those that another command has.
DoctorFails ==
  /\ pc = "start" => failures = 0
  /\ pc # "done" => fails = failures
  /\ result = "ok" => fails = 0
  /\ result = "err" => fails = failures + 1
OtherFails ==
  /\ pc \notin {"restore", "done"} => fails \in {0, 1}
  /\ pc \in {"start", "snapshot", "spawn", "poll", "check"} => fails = 0
  /\ pc \in Terminating /\ goal \in {"stopped", "succeeded", "failed"} => fails = 0
  /\ pc \in Leaving /\ goal = "ok" => fails = 0
  /\ command = "setup" /\ drifted = "clean" /\ pc \notin {"restore", "done"} => fails = 0
  /\ pc = "restore" => goal \in {"ok", "err"} /\ fails = IF goal = "err" THEN 1 ELSE 0
  /\ result = "ok" => fails = 0
  /\ result = "err" => fails = IF SetupFailedTwice THEN 2 ELSE 1
FailInv ==
  /\ command = "doctor" => DoctorFails
  /\ command # "doctor" => OtherFails

IInv == TypeInv /\ GroupInv /\ DevInv /\ OnlyDevInv /\ LockInv /\ FailInv
-----------------------------------------------------------------------------
(* Sequences.                                                                *)

\* A sequence is empty if its length says so.
LEMMA EmptyLength ==
  ASSUME NEW S, NEW s \in Seq(S), s = <<>> \/ Len(s) = 0
  PROVE s = <<>> /\ Len(s) = 0
OBVIOUS

\* A sequence that is not empty has a head, and a tail that is one shorter.
LEMMA NonEmpty ==
  ASSUME NEW S, NEW s \in Seq(S), s # <<>>
  PROVE /\ Head(s) \in S /\ Tail(s) \in Seq(S)
        /\ Len(s) \in Nat /\ Len(s) > 0 /\ Len(Tail(s)) = Len(s) - 1
        /\ Len(s) # 1 => Len(s) > 1 /\ Tail(s) # <<>>
<1>1. Len(s) \in Nat /\ Len(s) # 0
  BY EmptyLength
<1>2. Head(s) \in S /\ Tail(s) \in Seq(S) /\ Len(Tail(s)) = Len(s) - 1
  BY <1>1
<1>3. PICK t \in Seq(S) : t = Tail(s) /\ Len(t) = Len(s) - 1
  BY <1>2
<1>4. t = <<>> => Len(t) = 0
  BY EmptyLength
<1> QED
  BY <1>1, <1>2, <1>3, <1>4

\* Sequences over fewer elements are sequences over more.
LEMMA Wider ==
  ASSUME NEW S, NEW s \in Seq(S), NEW T, S \subseteq T
  PROVE s \in Seq(T)
OBVIOUS

\* The short sequences that the supervisor writes.
LEMMA Short ==
  ASSUME NEW S
  PROVE /\ <<>> \in Seq(S)
        /\ \A a \in S : /\ <<a>> \in Seq(S) /\ <<a>> # <<>>
                        /\ Head(<<a>>) = a /\ Len(<<a>>) = 1 /\ Tail(<<a>>) = <<>>
        /\ \A a, b \in S : /\ <<a, b>> \in Seq(S) /\ <<a, b>> # <<>>
                           /\ Head(<<a, b>>) = a /\ Len(<<a, b>>) = 2
                           /\ Tail(<<a, b>>) = <<b>>
<1>1. <<>> \in Seq(S)
  OBVIOUS
<1>2. ASSUME NEW a \in S
      PROVE /\ <<a>> \in Seq(S) /\ <<a>> # <<>>
            /\ Head(<<a>>) = a /\ Len(<<a>>) = 1 /\ Tail(<<a>>) = <<>>
  <2>1. <<a>> \in Seq(S) /\ <<a>> # <<>> /\ Head(<<a>>) = a /\ Len(<<a>>) = 1
    OBVIOUS
  <2>2. Tail(<<a>>) \in Seq(S) /\ Len(Tail(<<a>>)) = 0
    BY <2>1
  <2> QED
    BY <2>1, <2>2, EmptyLength
<1>3. ASSUME NEW a \in S, NEW b \in S
      PROVE /\ <<a, b>> \in Seq(S) /\ <<a, b>> # <<>>
            /\ Head(<<a, b>>) = a /\ Len(<<a, b>>) = 2 /\ Tail(<<a, b>>) = <<b>>
  <2>1. <<a, b>> \in Seq(S) /\ <<a, b>> # <<>> /\ Head(<<a, b>>) = a
        /\ Len(<<a, b>>) = 2
    OBVIOUS
  <2>2. Tail(<<a, b>>) \in Seq(S) /\ Len(Tail(<<a, b>>)) = 1
        /\ Tail(<<a, b>>)[1] = b
    BY <2>1
  <2>3. ASSUME NEW s \in Seq(S), Len(s) = 1, s[1] = b PROVE s = <<b>>
    BY <2>3
  <2> QED
    BY <2>1, <2>2, <2>3
<1> QED
  BY <1>1, <1>2, <1>3

\* The children that a step puts into todo by name.
LEMMA Named ==
  /\ <<>> \in Seq(Kids)
  /\ \A k \in Kids : <<k>> \in Seq(Kids) /\ <<k>> # <<>>
  /\ <<"backend">> \in Seq(Kids) /\ <<"backend">> # <<>>
  /\ <<"frontend">> \in Seq(Kids) /\ <<"frontend">> # <<>>
  /\ <<"npm">> \in Seq(Kids) /\ <<"npm">> # <<>>
  /\ First \in Seq(Kids) /\ First # <<>>
<1>1. <<>> \in Seq(Kids) /\ \A k \in Kids : <<k>> \in Seq(Kids) /\ <<k>> # <<>>
  BY Short
<1>2. "backend" \in Kids /\ "frontend" \in Kids /\ "npm" \in Kids /\ "tool" \in Kids
      /\ "cargo" \in Kids /\ "migration" \in Kids
  BY DEF Kids
<1>3. First = <<"tool">> \/ First = <<"cargo">> \/ First = <<"migration">>
  BY DEF First
<1> QED
  BY <1>1, <1>2, <1>3

-----------------------------------------------------------------------------
(* Types and shapes.                                                         *)

\* A step that is about children finds one at the head of todo.
LEMMA Busy ==
  ASSUME TypeInv, pc \in Holding, pc # "restore"
  PROVE /\ todo \in Seq(Kids) /\ Head(todo) \in Kids /\ Tail(todo) \in Seq(Kids)
        /\ Len(todo) \in Nat /\ Len(todo) > 0
        /\ Len(todo) # 1 => Len(todo) > 1 /\ Tail(todo) # <<>>
<1>1. todo \in Seq(Kids) /\ todo # <<>>
  BY DEF TypeInv, ShapeInv
<1> QED
  BY <1>1, NonEmpty

\* What try_wait on a watched child can lead to.
LEMMA CheckCases ==
  ASSUME TypeInv, Check, NEW k, k = Head(todo)
  PROVE /\ k \in Kids
        /\ \/ /\ leader[k] # "zombie" /\ todo' = Tail(todo)
              /\ Len(todo) = 1 => pc' = "poll"
              /\ Len(todo) # 1 => pc' = "check"
              /\ UNCHANGED <<tries, goal, os, armed, fails>>
           \/ leader[k] = "zombie" /\ k = "tool" /\ Disarm(k)
           \/ leader[k] = "zombie" /\ k \in {"migration", "cargo", "npm"} /\ StepExited(k)
           \/ leader[k] = "zombie" /\ k \in {"backend", "frontend"} /\ DevChildExited(k)
<1>1. k \in Kids
  BY Busy DEF Check, Holding, Terminating
<1> QED
  BY <1>1 DEF Check, Kids
\* Snapshot keeps the types and the shape of todo.
LEMMA TypeSnapshot ==
  ASSUME TypeInv, Snapshot PROVE TypeInv'
<1>1. todo \in Seq(Kids) /\ TRUE
  BY Busy DEF Snapshot, TypeInv, ShapeInv, Holding, Terminating
<1>2. todo' \in Seq(Kids) /\ (pc' \in Holding => todo' # <<>>)
  <2>1. \/ pc' = "drop" /\ todo' = <<>>
        \/ todo' = todo
    BY DEF Snapshot, Leave
  <2> QED
    BY <1>1, <2>1, Short DEF Kids, Holding, Terminating, Snapshot, TypeInv, ShapeInv
<1>3. todo' \in Seq(Kids \cup LockFiles)
  BY <1>2, Wider
<1>4. TypeOK'
  BY <1>1, <1>3, ProbesAssumption, ForkKindsAssumption DEF Snapshot, Leave, TypeInv,
    TypeOK, Commands, Kids, Kinds, LockFiles, Steps, Goals, Results, world, os, doctor,
    setup
<1>5. ShapeInv'
  BY <1>1, <1>2, <1>3, ProbesAssumption DEF Snapshot, Leave, TypeInv, TypeOK, ShapeInv,
    Holding, Terminating, Reasons, Leaving, world, os, doctor, setup, Kids, LockFiles
<1> QED
  BY <1>4, <1>5 DEF TypeInv

\* Spawn keeps the types and the shape of todo.
LEMMA TypeSpawn ==
  ASSUME TypeInv, Spawn PROVE TypeInv'
<1>1. todo \in Seq(Kids) /\ Head(todo) \in Kids
  BY Busy DEF Spawn, TypeInv, ShapeInv, Holding, Terminating
<1>2. todo' \in Seq(Kids) /\ (pc' \in Holding => todo' # <<>>)
  <2>1. \/ pc' = "drop" /\ todo' = <<>>
        \/ todo' = <<"frontend">>
        \/ pc' = "poll" /\ todo' = <<>>
        \/ todo' = <<"backend">>
    BY DEF Spawn, Panic, Leave, SpawnFails
  <2> QED
    BY <2>1, Named DEF Holding, Terminating
<1>3. todo' \in Seq(Kids \cup LockFiles)
  BY <1>2, Wider
<1>4. TypeOK'
  <2>1. /\ leader' \in [Kids -> {"none", "running", "dying", "zombie", "reaped"}]
        /\ exit' \in [Kids -> {"-", "ok", "bad"}] /\ rest' \in [Kids -> SUBSET Kinds]
        /\ armed' \in [Kids -> BOOLEAN]
    BY <1>1 DEF Spawn, Panic, Heard, Speaks, Leave, CancelledBeforeStart, SpawnChild,
      SpawnFails, TypeInv, TypeOK, Kinds, os
  <2>2. pc' \in Steps /\ tries' \in 0..Probes /\ goal' \in Goals /\ fails' \in Nat
    BY <1>1, ProbesAssumption DEF Spawn, Panic, Heard, Speaks, Leave,
      CancelledBeforeStart, SpawnChild, SpawnFails, TypeInv, TypeOK, ShapeInv, Kids,
      Steps, Goals, Results, Reasons, Terminating
  <2> QED
    BY <1>3, <2>1, <2>2 DEF Spawn, SpawnChild, TypeInv, TypeOK, Commands, world, doctor,
      setup
<1>5. ShapeInv'
  BY <1>1, <1>2, <1>3, ProbesAssumption DEF Spawn, Panic, Heard, Speaks, Leave,
    CancelledBeforeStart, SpawnChild, SpawnFails, TypeInv, TypeOK, ShapeInv, Holding,
    Terminating, Reasons, Leaving, world, os, doctor, setup, Kids, LockFiles
<1> QED
  BY <1>4, <1>5 DEF TypeInv

\* Poll keeps the types and the shape of todo.
LEMMA TypePoll ==
  ASSUME TypeInv, Poll PROVE TypeInv'
<1>1. todo \in Seq(Kids) /\ TRUE
  BY Busy DEF Poll, TypeInv, ShapeInv, Holding, Terminating
<1>2. todo' \in Seq(Kids) /\ (pc' \in Holding => todo' # <<>>)
  <2>1. Watched \in Seq(Kids) /\ Watched # <<>>
    <3>1. Watched \in {<<"backend", "frontend">>, <<"npm">>, First}
      BY DEF Watched
    <3>2. <<"backend", "frontend">> \in Seq(Kids) /\ <<"backend", "frontend">> # <<>>
      BY Short DEF Kids
    <3> QED
      BY <3>1, <3>2, Named
  <2>2. \/ pc' = "drop" /\ todo' = <<>>
        \/ todo' = Watched
        \/ todo' = <<"frontend", "backend">>
    BY DEF Poll, Leave, Panic, Stop
  <2> QED
    <3>1. <<>> \in Seq(Kids) /\ <<"frontend", "backend">> \in Seq(Kids)
          /\ <<"frontend", "backend">> # <<>>
      BY Short DEF Kids
    <3> QED
      BY <2>1, <2>2, <3>1 DEF Holding, Terminating
<1>3. todo' \in Seq(Kids \cup LockFiles)
  BY <1>2, Wider
<1>4. TypeOK'
  BY <1>1, <1>3, ProbesAssumption, ForkKindsAssumption DEF Poll, CaptureAbandoned, Leave,
    Panic, Heard, Speaks, Stop, Watched, First, TypeInv, TypeOK, Commands, Kids, Kinds,
    LockFiles, Steps, Goals, Results, world, os, doctor, setup
<1>5. ShapeInv'
  BY <1>1, <1>2, <1>3, ProbesAssumption DEF Poll, CaptureAbandoned, Leave, Panic, Heard,
    Speaks, Stop, Watched, First, TypeInv, TypeOK, ShapeInv, Holding, Terminating,
    Reasons, Leaving, world, os, doctor, setup, Kids, LockFiles
<1> QED
  BY <1>4, <1>5 DEF TypeInv

\* Signal keeps the types and the shape of todo.
LEMMA TypeSignal ==
  ASSUME TypeInv, Signal PROVE TypeInv'
<1>1. todo \in Seq(Kids) /\ Head(todo) \in Kids
  BY Busy DEF Signal, TypeInv, ShapeInv, Holding, Terminating
<1>2. todo' \in Seq(Kids) /\ (pc' \in Holding => todo' # <<>>)
  <2>1. \/ pc' = "drop" /\ todo' = <<>>
        \/ todo' = todo
    BY DEF Signal, Leave
  <2> QED
    BY <1>1, <2>1, Short DEF Holding, Terminating, Signal, TypeInv, ShapeInv
<1>3. todo' \in Seq(Kids \cup LockFiles)
  BY <1>2, Wider
<1>4. TypeOK'
  BY <1>1, <1>3, ProbesAssumption, ForkKindsAssumption DEF Signal, Refused, Members, Reaped, Reap,
    Leave, Terminated, After, TypeInv, TypeOK, Commands, Kids, Kinds, LockFiles, Steps,
    Goals, Results, world, os, doctor, setup
<1>5. ShapeInv'
  BY <1>1, <1>2, <1>3, ProbesAssumption DEF Signal, Refused, Members, Reaped, Reap, Leave,
    Terminated, After, TypeInv, TypeOK, ShapeInv, Holding, Terminating, Reasons, Leaving,
    world, os, doctor, setup, Kids, LockFiles
<1> QED
  BY <1>4, <1>5 DEF TypeInv

\* Probe keeps the types and the shape of todo.
LEMMA TypeProbe ==
  ASSUME TypeInv, Probe PROVE TypeInv'
<1>1. todo \in Seq(Kids) /\ Head(todo) \in Kids
  BY Busy DEF Probe, TypeInv, ShapeInv, Holding, Terminating
<1>2. todo' \in Seq(Kids) /\ (pc' \in Holding => todo' # <<>>)
  <2>1. \/ pc' = "drop" /\ todo' = <<>>
        \/ todo' = todo
    BY DEF Probe, Leave
  <2> QED
    BY <1>1, <2>1, Short DEF Holding, Terminating, Probe, TypeInv, ShapeInv
<1>3. todo' \in Seq(Kids \cup LockFiles)
  BY <1>2, Wider
<1>4. TypeOK'
  <2>1. /\ leader' \in [Kids -> {"none", "running", "dying", "zombie", "reaped"}]
        /\ exit' \in [Kids -> {"-", "ok", "bad"}] /\ rest' \in [Kids -> SUBSET Kinds]
        /\ armed' \in [Kids -> BOOLEAN]
    BY <1>1 DEF Probe, Reap, Reaped, Absent, Members, Refused, Leave, TypeInv, TypeOK, Kinds, os
  <2>2. pc' \in Steps /\ tries' \in 0..Probes /\ goal' \in Goals /\ fails' \in Nat
    BY <1>1, ProbesAssumption DEF Probe, Reap, Reaped, Absent, Members, Refused, Leave, TypeInv,
      TypeOK, ShapeInv, Kids, Steps, Goals, Results, Reasons, Terminating
  <2> QED
    BY <1>3, <2>1, <2>2 DEF Probe, TypeInv, TypeOK, Commands, world, doctor, setup
<1>5. ShapeInv'
  BY <1>1, <1>2, <1>3, ProbesAssumption DEF Probe, Reap, Reaped, Absent, Members, Refused, Leave,
    TypeInv, TypeOK, ShapeInv, Holding, Terminating, Reasons, Leaving, world, os, doctor,
    setup, Kids, LockFiles
<1> QED
  BY <1>4, <1>5 DEF TypeInv

\* Kill keeps the types and the shape of todo.
LEMMA TypeKill ==
  ASSUME TypeInv, Kill PROVE TypeInv'
<1>1. todo \in Seq(Kids) /\ Head(todo) \in Kids
  BY Busy DEF Kill, TypeInv, ShapeInv, Holding, Terminating
<1>2. todo' \in Seq(Kids) /\ (pc' \in Holding => todo' # <<>>)
  <2>1. \/ pc' = "drop" /\ todo' = <<>>
        \/ todo' = todo
    BY DEF Kill, Leave
  <2> QED
    BY <1>1, <2>1, Short DEF Holding, Terminating, Kill, TypeInv, ShapeInv
<1>3. todo' \in Seq(Kids \cup LockFiles)
  BY <1>2, Wider
<1>4. TypeOK'
  BY <1>1, <1>3, ProbesAssumption, ForkKindsAssumption DEF Kill, Refused, Members, Reaped, Leave,
    Killed, After, TypeInv, TypeOK, Commands, Kids, Kinds, LockFiles, Steps, Goals,
    Results, world, os, doctor, setup
<1>5. ShapeInv'
  BY <1>1, <1>2, <1>3, ProbesAssumption DEF Kill, Refused, Members, Reaped, Leave, Killed, After,
    TypeInv, TypeOK, ShapeInv, Holding, Terminating, Reasons, Leaving, world, os, doctor,
    setup, Kids, LockFiles
<1> QED
  BY <1>4, <1>5 DEF TypeInv

\* Join keeps the types and the shape of todo.
LEMMA TypeJoin ==
  ASSUME TypeInv, Join PROVE TypeInv'
<1>1. todo \in Seq(Kids) /\ Head(todo) \in Kids
  BY Busy DEF Join, TypeInv, ShapeInv, Holding, Terminating
<1>2. todo' \in Seq(Kids) /\ (pc' \in Holding => todo' # <<>>)
  <2>1. \/ Len(todo) # 1 /\ todo' = Tail(todo)
        \/ todo' = todo
    BY Busy DEF Join, Holding, Terminating
  <2> QED
    BY <1>1, <2>1, Busy DEF Holding, Terminating, Join, TypeInv, ShapeInv
<1>3. todo' \in Seq(Kids \cup LockFiles)
  BY <1>2, Wider
<1>4. TypeOK'
  BY <1>1, <1>3, ProbesAssumption, ForkKindsAssumption DEF Join, OutputEnded, Piped, TypeInv,
    TypeOK, Commands, Kids, Kinds, LockFiles, Steps, Goals, Results, world, os, doctor,
    setup
<1>5. ShapeInv'
  BY <1>1, <1>2, <1>3, ProbesAssumption DEF Join, OutputEnded, Piped, TypeInv, TypeOK, ShapeInv,
    Holding, Terminating, Reasons, Leaving, world, os, doctor, setup, Kids, LockFiles
<1> QED
  BY <1>4, <1>5 DEF TypeInv

\* Conclude keeps the types and the shape of todo.
LEMMA TypeConclude ==
  ASSUME TypeInv, Conclude PROVE TypeInv'
<1>1. todo \in Seq(Kids) /\ Head(todo) \in Kids
  BY Busy DEF Conclude, TypeInv, ShapeInv, Holding, Terminating
<1>2. todo' \in Seq(Kids) /\ (pc' \in Holding => todo' # <<>>)
  <2>1. goal \in Reasons
    BY DEF TypeInv, ShapeInv, Conclude, Terminating
  <2>2. \/ pc' = "drop" /\ todo' = <<>>
        \/ todo' = <<"npm">>
        \/ todo' = <<"backend">>
    BY <2>1 DEF Conclude, Panic, Leave, ConcludeDev, ConcludeRunProcess, Reasons
  <2> QED
    BY <2>2, Named DEF Holding, Terminating
<1>3. todo' \in Seq(Kids \cup LockFiles)
  BY <1>2, Wider
<1>4. TypeOK'
  <2>1. goal \in Reasons /\ tries \in 0..Probes /\ fails \in Nat
    BY DEF TypeInv, TypeOK, ShapeInv, Conclude, Terminating
  <2>2. /\ pc' \in {"drop", "spawn"} /\ tries' = tries
        /\ goal' \in {goal, "ok", "err", "panic"} /\ fails' \in {fails, fails + 1}
    BY <2>1 DEF Conclude, Panic, Leave, ConcludeDev, ConcludeRunProcess, Reasons
  <2>3. pc' \in Steps /\ goal' \in Goals /\ fails' \in Nat /\ tries' \in 0..Probes
    BY <2>1, <2>2 DEF Steps, Goals, Results, Reasons
  <2> QED
    BY <1>3, <2>3 DEF Conclude, TypeInv, TypeOK, world, os, doctor, setup
<1>5. ShapeInv'
  BY <1>1, <1>2, <1>3, ProbesAssumption DEF Conclude, Panic, Heard, Speaks, Leave,
    ConcludeDev, ConcludeRunProcess, TypeInv, TypeOK, ShapeInv, Holding, Terminating,
    Reasons, Leaving, world, os, doctor, setup, Kids, LockFiles
<1> QED
  BY <1>4, <1>5 DEF TypeInv

\* Check keeps the types and the shape of todo.
LEMMA TypeCheck ==
  ASSUME TypeInv, Check PROVE TypeInv'
<1> DEFINE k == Head(todo)
<1>0. UNCHANGED <<world, sink, shutdown, setup, doctor, result>> /\ pc = "check"
  BY DEF Check
<1>1. k \in Kids /\ todo \in Seq(Kids) /\ Tail(todo) \in Seq(Kids)
      /\ (Len(todo) # 1 => Tail(todo) # <<>>)
  BY Busy, <1>0 DEF Holding, Terminating
<1>2. CASE /\ leader[k] # "zombie" /\ todo' = Tail(todo)
           /\ Len(todo) = 1 => pc' = "poll"
           /\ Len(todo) # 1 => pc' = "check"
           /\ UNCHANGED <<tries, goal, os, armed, fails>>
  <2>1. todo' \in Seq(Kids \cup LockFiles)
    BY <1>1, <1>2, Wider
  <2>2. TypeOK'
    BY <1>0, <1>2, <2>1 DEF TypeInv, TypeOK, os, world, setup, doctor, Steps
  <2>3. ShapeInv'
    BY <1>0, <1>1, <1>2 DEF TypeInv, ShapeInv, Holding, Leaving, Terminating, Reasons,
      world, doctor
  <2> QED
    BY <2>2, <2>3 DEF TypeInv
<1>3. CASE Disarm(k)
  <2>1. pc' = "drop" /\ goal' \in {"ok", "err"} /\ todo' = <<>> /\ UNCHANGED <<tries, fails>>
    BY <1>3 DEF Disarm, Leave
  <2>2. /\ leader' \in [Kids -> {"none", "running", "dying", "zombie", "reaped"}]
        /\ exit' \in [Kids -> {"-", "ok", "bad"}] /\ rest' \in [Kids -> SUBSET Kinds]
        /\ armed' \in [Kids -> BOOLEAN]
    BY <1>1, <1>3 DEF Disarm, Killed, After, TypeInv, TypeOK, Kinds
  <2>3. todo' \in Seq(Kids) /\ todo' \in Seq(Kids \cup LockFiles)
    BY <2>1, Short
  <2>4. TypeOK'
    BY <1>0, <2>1, <2>2, <2>3 DEF TypeInv, TypeOK, world, setup, doctor, Steps, Goals,
      Results
  <2>5. ShapeInv'
    BY <1>0, <2>1, <2>3 DEF TypeInv, ShapeInv, Holding, Leaving, Terminating, Reasons,
      world, doctor
  <2> QED
    BY <2>4, <2>5 DEF TypeInv
<1>4. CASE StepExited(k)
  <2>1. pc' = "signal" /\ goal' \in Reasons /\ todo' = <<k>> /\ tries' = 0 /\ fails' = fails
    BY <1>4 DEF StepExited, Reasons
  <2>2. /\ leader' \in [Kids -> {"none", "running", "dying", "zombie", "reaped"}]
        /\ exit' \in [Kids -> {"-", "ok", "bad"}] /\ rest' \in [Kids -> SUBSET Kinds]
        /\ armed' \in [Kids -> BOOLEAN]
    BY <1>1, <1>4 DEF StepExited, Reap, Reaped, TypeInv, TypeOK
  <2>3. todo' \in Seq(Kids) /\ todo' \in Seq(Kids \cup LockFiles) /\ todo' # <<>>
    BY <1>1, <2>1, Short
  <2>4. TypeOK'
    BY <1>0, <2>1, <2>2, <2>3, ProbesAssumption DEF TypeInv, TypeOK, world, setup,
      doctor, Steps, Reasons, Goals
  <2>5. ShapeInv'
    BY <1>0, <2>1, <2>3 DEF TypeInv, ShapeInv, Holding, Leaving, Terminating, Reasons,
      world, doctor
  <2> QED
    BY <2>4, <2>5 DEF TypeInv
<1>5. CASE DevChildExited(k)
  <2>1. \/ pc' = "drop" /\ goal' = "panic" /\ todo' = <<>> /\ tries' = tries
        \/ pc' = "signal" /\ goal' = "exited" /\ todo' = <<k, Peer(k)>> /\ tries' = 0
    BY <1>5 DEF DevChildExited, Panic, Leave
  <2>2. /\ leader' \in [Kids -> {"none", "running", "dying", "zombie", "reaped"}]
        /\ exit' \in [Kids -> {"-", "ok", "bad"}] /\ rest' \in [Kids -> SUBSET Kinds]
        /\ armed' \in [Kids -> BOOLEAN] /\ fails' \in Nat
    BY <1>1, <1>5 DEF DevChildExited, Reap, Reaped, TypeInv, TypeOK
  <2>3. Peer(k) \in Kids
    BY DEF Peer, Kids
  <2>4. /\ todo' \in Seq(Kids) /\ todo' \in Seq(Kids \cup LockFiles)
        /\ pc' = "signal" => todo' # <<>>
    <3>1. CASE todo' = <<>> /\ pc' = "drop"
      BY <3>1, Short
    <3>2. CASE todo' = <<k, Peer(k)>>
      BY <1>1, <2>3, <3>2, Short
    <3> QED
      BY <2>1, <3>1, <3>2
  <2>5. TypeOK'
    BY <1>0, <2>1, <2>2, <2>4, ProbesAssumption DEF TypeInv, TypeOK, world, setup,
      doctor, Steps, Results, Goals
  <2>6. ShapeInv'
    BY <1>0, <2>1, <2>4 DEF TypeInv, ShapeInv, Holding, Leaving, Terminating, Reasons,
      world, doctor
  <2> QED
    BY <2>5, <2>6 DEF TypeInv
<1> QED
  BY <1>2, <1>3, <1>4, <1>5, CheckCases

\* Start keeps the types and the shape of todo.
LEMMA TypeStart ==
  ASSUME TypeInv, Start PROVE TypeInv'
<1>1. \/ todo' \in Seq(Kids) /\ todo' # <<>>
      \/ pc' \in {"drop", "done"} /\ todo' \in Seq(Kids)
  BY Named DEF Start, Leave, TypeInv, ShapeInv
<1>2. todo' \in Seq(Kids \cup LockFiles)
  BY <1>1, Wider
<1>3. TypeOK'
  BY <1>2 DEF TypeInv, TypeOK, Start, Leave, First, Goals, Steps, world, os, doctor,
    setup, Results
<1>4. ShapeInv'
  BY <1>1, <1>2 DEF TypeInv, ShapeInv, Start, Leave, First, world, os, doctor, setup,
    Holding, Leaving, Terminating
<1> QED BY <1>3, <1>4 DEF TypeInv

\* Restore keeps the types and the shape of todo.
LEMMA TypeRestore ==
  ASSUME TypeInv, Restore PROVE TypeInv'
<1>1. todo \in Seq(Kids \cup LockFiles) /\ todo # <<>> /\ pc = "restore"
  BY DEF Restore, TypeInv, TypeOK, ShapeInv, Holding
<1>2. Tail(todo) \in Seq(Kids \cup LockFiles) /\ <<>> \in Seq(Kids \cup LockFiles)
      /\ <<>> \in Seq(Kids)
  BY <1>1, NonEmpty, Short
<1>3. todo' \in Seq(Kids \cup LockFiles)
  BY <1>2 DEF Restore
<1>4. \/ pc' = "restore" /\ todo' # <<>> /\ result' = result /\ fails' = fails
      \/ /\ pc' = "done" /\ todo' = <<>> /\ result' \in Results /\ fails' \in {fails, fails + 1}
  BY DEF Restore, Results
<1>5. TypeOK'
  <2>1. drifted' \in {"unread", "clean", "restored", "unrestored"}
        /\ lock' \in [LockFiles -> {"committed", "rewritten"}]
    BY DEF Restore, TypeInv, TypeOK
  <2>2. pc' \in Steps /\ result' \in Results /\ fails' \in Nat
    BY <1>4 DEF TypeInv, TypeOK, Steps
  <2> QED
    BY <1>3, <2>1, <2>2 DEF Restore, TypeInv, TypeOK, world, os, doctor
<1>6. ShapeInv'
  BY <1>2, <1>4 DEF Restore, TypeInv, ShapeInv, Holding, Leaving, Terminating, Reasons,
    world, doctor
<1> QED
  BY <1>5, <1>6 DEF TypeInv

\* Return keeps the types and the shape of todo.
LEMMA TypeReturn ==
  ASSUME TypeInv, Return PROVE TypeInv'
<1>1. todo \in Seq(Kids) /\ todo \in Seq(Kids \cup LockFiles) /\ pc = "drop"
  BY DEF Return, TypeInv, TypeOK, ShapeInv
<1>2. Locks \in Seq(Kids \cup LockFiles) /\ Locks # <<>>
  BY Short DEF Locks, LockFiles
<1>3. \/ pc' \in {"report", "done"} /\ todo' = todo
      \/ pc' = "restore" /\ todo' = Locks
  BY DEF Return
<1>4. result' \in Results /\ fails' \in Nat /\ pc' \in Steps
  BY DEF Return, TypeInv, TypeOK, ShapeInv, Leaving, Goals, Results, Steps
<1> QED
  BY <1>1, <1>2, <1>3, <1>4 DEF Return, Restores, TypeInv, TypeOK, ShapeInv, Holding,
    Leaving, Terminating, world, os, doctor, setup

\* Report keeps the types and the shape of todo.
LEMMA TypeReport ==
  ASSUME TypeInv, Report PROVE TypeInv'
<1>1. checks \in Seq(BOOLEAN) /\ checks # <<>> /\ command = "doctor"
  BY DEF Report, TypeInv, TypeOK, ShapeInv
<1>2. /\ Tail(checks) \in Seq(BOOLEAN) /\ Len(checks) > 0 /\ Len(checks) \in Nat
      /\ Len(checks) # 1 => Tail(checks) # <<>>
  BY <1>1, NonEmpty
<1>3. /\ fails' \in {fails + 0, fails + 1, fails + 0 + 1, fails + 1 + 1}
      /\ \/ Len(checks) > 1 /\ pc' = "spawn" /\ todo' = <<"tool">> /\ result' = result
         \/ pc' = "done" /\ todo' = todo /\ result' \in Results
  BY DEF Report, Summary, Results
<1>4. /\ todo' \in Seq(Kids) /\ todo' \in Seq(Kids \cup LockFiles)
      /\ pc' = "spawn" => todo' # <<>>
  <2>1. todo \in Seq(Kids) /\ <<"tool">> \in Seq(Kids) /\ <<"tool">> # <<>>
    BY Short DEF Report, TypeInv, ShapeInv, Kids
  <2> QED
    BY <1>3, <2>1, Wider
<1>5. checks' = Tail(checks) /\ failures' \in Nat
  <2>1. failures \in Nat
    BY DEF TypeInv, TypeOK
  <2>2. checks' = Tail(checks) /\ failures' \in {failures + 0, failures + 1}
    BY DEF Report
  <2> QED
    BY <2>1, <2>2
<1>6. UNCHANGED <<command, format, sink, shutdown, os, armed, tries, goal, setup, late>>
  BY DEF Report, world
<1>7. TypeOK'
  BY <1>2, <1>3, <1>4, <1>5, <1>6 DEF TypeInv, TypeOK, os, setup, Steps
<1>8. ShapeInv'
  BY <1>1, <1>2, <1>3, <1>4, <1>5, <1>6 DEF TypeInv, ShapeInv, Holding, Leaving,
    Terminating, world
<1> QED
  BY <1>7, <1>8 DEF TypeInv

\* Every step keeps the types and the shape of todo.
LEMMA TypeStep ==
  ASSUME TypeInv, [Next]_vars PROVE TypeInv'
<1>1. CASE Start
  BY <1>1, TypeStart
<1>2. CASE Snapshot
  BY <1>2, TypeSnapshot
<1>3. CASE Restore
  BY <1>3, TypeRestore
<1>4. CASE Spawn
  BY <1>4, TypeSpawn
<1>5. CASE Poll
  BY <1>5, TypePoll
<1>6. CASE Check
  BY <1>6, TypeCheck
<1>7. CASE Signal
  BY <1>7, TypeSignal
<1>8. CASE Probe
  BY <1>8, TypeProbe
<1>9. CASE Kill
  BY <1>9, TypeKill
<1>10. CASE Join
  BY <1>10, TypeJoin
<1>11. CASE Conclude
  BY <1>11, TypeConclude
<1>12. CASE Return
  BY <1>12, TypeReturn
<1>13. CASE Report
  BY <1>13, TypeReport
<1> USE DEF TypeInv, TypeOK, ShapeInv, Commands, Kids, Kinds, LockFiles, Steps, Goals,
  Results, Holding, Terminating, Reasons, Leaving, world, os, doctor, setup
<1>14. CASE Wait
  BY <1>14, Short, Wider DEF Wait, Reap, Reaped
<1>15. CASE Drop
  BY <1>15, Short, Wider DEF Drop, NextDropped, DropOrder, Refused, Members, Reaped, Terminated,
    Killed, After
<1>16. CASE Grace
  BY <1>16, Short, Wider DEF Grace, Killed, After, Reaped
<1>17. CASE DropWait
  BY <1>17, Short, Wider DEF DropWait, OutputEnded, Piped, Reap, Reaped
<1>18. CASE Interrupt
  BY <1>18, Short, Wider DEF Interrupt, others
<1>19. CASE SinkBreaks
  BY <1>19, Short, Wider DEF SinkBreaks, others
<1>20. CASE TimeIsUp
  BY <1>20, Short, Wider DEF TimeIsUp, others
<1>21. CASE \E k \in Kids : Exits(k)
  BY <1>21, ForkKindsAssumption DEF Exits, others
<1>22. CASE \E k \in Kids : Forks(k)
  BY <1>22, ForkKindsAssumption DEF Forks, others
<1>23. CASE \E k \in Kids : Vanishes(k)
  BY <1>23, ForkKindsAssumption DEF Vanishes, others
<1>24. CASE \E k \in Kids : Rewrites(k)
  BY <1>24, ForkKindsAssumption DEF Rewrites, others
<1>25. CASE UNCHANGED vars
  BY <1>25 DEF vars
<1> QED
  BY <1>1, <1>2, <1>3, <1>4, <1>5, <1>6, <1>7, <1>8, <1>9, <1>10, <1>11, <1>12, <1>13,
    <1>14, <1>15, <1>16, <1>17, <1>18, <1>19, <1>20, <1>21, <1>22, <1>23, <1>24, <1>25 DEF
    Next, Supervisor

-----------------------------------------------------------------------------
(* Groups.                                                                   *)

\* Check keeps groups gone.
LEMMA GroupCheck ==
  ASSUME TypeInv, GroupInv, Check PROVE GroupInv'
<1> DEFINE k == Head(todo)
<1>0. pc = "check" /\ result' = result /\ result = "-"
  BY DEF Check, GroupInv
<1>1. /\ k \in Kids /\ \A j \in Kids : ~armed[j] => Gone(j)
      /\ leader \in [Kids -> {"none", "running", "dying", "zombie", "reaped"}]
      /\ rest \in [Kids -> SUBSET Kinds] /\ armed \in [Kids -> BOOLEAN]
  BY Busy, <1>0 DEF Holding, Terminating, GroupInv, TypeInv, TypeOK
<1>2. CASE UNCHANGED <<os, armed>> /\ pc' \in {"poll", "check"}
  BY <1>0, <1>1, <1>2 DEF GroupInv, os, Gone, Members
<1>3. CASE Disarm(k)
  <2>1. pc' = "drop"
    BY <1>3 DEF Disarm, Leave
  <2>2. \A j \in Kids : ~armed'[j] => Gone(j)'
    BY <1>1, <1>3 DEF Disarm, Killed, After, Gone, Members, Kinds
  <2> QED
    BY <1>0, <2>1, <2>2 DEF GroupInv
<1>4. CASE Reap(k) /\ UNCHANGED armed /\ pc' \in {"signal", "drop"}
  <2>1. \A j \in Kids : ~armed'[j] => Gone(j)'
    BY <1>1, <1>4 DEF Reap, Reaped, Gone, Members
  <2> QED
    BY <1>0, <1>4, <2>1 DEF GroupInv
<1>5. StepExited(k) \/ DevChildExited(k) =>
        Reap(k) /\ UNCHANGED armed /\ pc' \in {"signal", "drop"}
  BY DEF StepExited, DevChildExited, Panic, Leave
<1> QED
  BY <1>2, <1>3, <1>4, <1>5, CheckCases

\* After SIGKILL no member of a group lives on that could have been killed.
LEMMA KilledMembers ==
  ASSUME NEW kinds \in SUBSET Kinds
  PROVE /\ After(kinds) \in SUBSET Kinds
        /\ After(kinds) \ {"stray"} \subseteq {"dying", "foreign"}
BY DEF After, Kinds

\* Signal keeps groups gone.
LEMMA GroupSignal ==
  ASSUME TypeInv, GroupInv, Signal PROVE GroupInv'
<1> DEFINE k == Head(todo)
<1>0. /\ pc = "signal" /\ pc' \in {"drop", "probing"}
      /\ result' = result /\ result = "-" /\ armed' = armed
  BY DEF Signal, GroupInv, Leave
<1>1. /\ k \in Kids /\ \A j \in Kids : ~armed[j] => Gone(j)
      /\ leader \in [Kids -> {"none", "running", "dying", "zombie", "reaped"}]
      /\ rest \in [Kids -> SUBSET Kinds]
  BY Busy, <1>0 DEF Holding, Terminating, GroupInv, TypeInv, TypeOK
<1>2. CASE Reap(k)
  BY <1>0, <1>1, <1>2 DEF GroupInv, Reap, Reaped, Gone, Members
<1>3. CASE Terminated(k)
  <2>1. PICK s \in (IF leader[k] = "running" THEN {"running", "dying"} ELSE {Reaped(k)}) :
          leader' = [leader EXCEPT ![k] = s]
    BY <1>3 DEF Terminated
  <2>2. rest' = rest
    BY <1>3 DEF Terminated
  <2>3. \A j \in Kids : ~armed'[j] => Gone(j)'
    BY <1>0, <1>1, <2>1, <2>2 DEF Gone, Members, Reaped, After
  <2> QED
    BY <1>0, <2>3 DEF GroupInv
<1> QED
  BY <1>2, <1>3 DEF Signal

\* Conclude keeps groups gone.
LEMMA GroupConclude ==
  ASSUME TypeInv, GroupInv, Conclude PROVE GroupInv'
<1>1. pc = "conclude" /\ goal \in Reasons /\ UNCHANGED <<os, armed, result>>
  BY DEF Conclude, TypeInv, ShapeInv, Terminating
<1>2. pc' \in {"drop", "spawn"}
  BY <1>1 DEF Conclude, Panic, Leave, ConcludeDev, ConcludeRunProcess, Reasons
<1> QED
  BY <1>1, <1>2 DEF GroupInv, Gone, Members, os

\* Every step keeps groups gone.
LEMMA GroupStep ==
  ASSUME TypeInv, GroupInv, [Next]_vars PROVE GroupInv'
<1>1. CASE Check
  BY <1>1, GroupCheck
<1>2. CASE Signal
  BY <1>2, GroupSignal
<1>3. CASE Conclude
  BY <1>3, GroupConclude
<1> USE DEF TypeInv, TypeOK, ShapeInv, Commands, Kids, Kinds, LockFiles, Steps, Goals,
  Results, Holding, Terminating, Reasons, Leaving, GroupInv, Gone, Members, Stopped, world, os,
  doctor, setup
<1>4. CASE Interrupt \/ SinkBreaks \/ TimeIsUp \/ Start \/ Snapshot \/ Join \/ UNCHANGED vars
  BY <1>4 DEF vars, Interrupt, others, SinkBreaks, TimeIsUp, Start, Leave, First,
    Snapshot, Join, OutputEnded
<1>5. CASE Restore
  BY <1>5 DEF Restore, LockFiles
<1>6. CASE Spawn
  <2>1. /\ pc = "spawn" /\ pc' \in {"drop", "signal", "spawn", "poll"}
        /\ result' = result /\ result = "-"
    BY <1>6 DEF Spawn, Panic, Leave, SpawnFails
  <2>2. \A j \in Kids : ~armed'[j] => UNCHANGED <<leader[j], rest[j]>> /\ ~armed[j]
    BY <1>6, Busy DEF Spawn, SpawnChild
  <2> QED
    BY <2>1, <2>2
<1>7. CASE Poll
  BY <1>7 DEF Poll, CaptureAbandoned, Leave, Panic, Heard, Speaks, Stop, Watched, First
<1>8. CASE Probe
  BY <1>8 DEF Probe, Reap, Reaped, Absent, Members, Refused, Leave
<1>9. CASE Kill
  <2>1. CASE UNCHANGED os /\ Leave("err")
    BY <1>9, <2>1 DEF Kill, Leave
  <2>2. CASE Killed(Head(todo), leader[Head(todo)])
    <3>1. /\ pc' \in {"wait", "drop"} /\ UNCHANGED <<armed, result>> /\ result = "-"
          /\ Head(todo) \in Kids /\ (pc' = "wait" => todo' = todo)
      BY <1>9, Busy DEF Kill, Leave
    <3>2. After(rest[Head(todo)]) \ {"stray"} \subseteq {"dying", "foreign"}
      BY <3>1, KilledMembers
    <3>3. pc' = "wait" => Stopped(Head(todo))'
      BY <2>2, <3>1, <3>2 DEF Killed
    <3>4. \A j \in Kids : ~armed[j] => Gone(j)'
      BY <2>2, <3>1, <3>2 DEF Killed
    <3> QED
      BY <3>1, <3>3, <3>4
  <2> QED
    BY <1>9, <2>1, <2>2 DEF Kill
<1>10. CASE Wait
  BY <1>10 DEF Wait, Reap, Reaped
<1>11. CASE Drop
  BY <1>11 DEF Drop, NextDropped, DropOrder, Refused, Members, Reaped, Terminated, Killed, After
<1>12. CASE Grace
  BY <1>12 DEF Grace, Killed, After, Reaped
<1>13. CASE DropWait
  BY <1>13 DEF DropWait, OutputEnded, Piped, Reap, Reaped
<1>14. CASE Return
  BY <1>14 DEF Return, Restores, Locks
<1>15. CASE Report
  BY <1>15 DEF Report, Summary
<1>16. CASE \E k \in Kids : Exits(k)
  BY <1>16, ForkKindsAssumption DEF Exits, others
<1>17. CASE \E k \in Kids : Forks(k)
  BY <1>17, ForkKindsAssumption DEF Forks, others
<1>18. CASE \E k \in Kids : Vanishes(k)
  BY <1>18, ForkKindsAssumption DEF Vanishes, others
<1>19. CASE \E k \in Kids : Rewrites(k)
  BY <1>19, ForkKindsAssumption DEF Rewrites, others
<1> QED
  BY <1>1, <1>2, <1>3, <1>4, <1>5, <1>6, <1>7, <1>8, <1>9, <1>10, <1>11, <1>12, <1>13,
    <1>14, <1>15, <1>16, <1>17, <1>18, <1>19 DEF Next, Supervisor

-----------------------------------------------------------------------------
(* dev.                                                                      *)

\* What the steps of dev rest on.
LEMMA DevFacts ==
  ASSUME TypeInv, DevInv, command = "dev"
  PROVE /\ DevTodo /\ DevDone /\ DevNext
        /\ leader \in [Kids -> {"none", "running", "dying", "zombie", "reaped"}]
        /\ armed \in [Kids -> BOOLEAN] /\ exit \in [Kids -> {"-", "ok", "bad"}]
        /\ \A k \in DevKids : k \in Kids
        /\ pc \in Holding => Head(todo) \in DevKids /\ Tail(todo) \in Seq(DevKids)
BY NonEmpty DEF DevInv, TypeInv, TypeOK, ShapeInv, DevTodo, DevKids, Kids

\* Start keeps what dev relies on.
LEMMA DevStart ==
  ASSUME TypeInv, DevInv, Start PROVE DevInv'
<1> SUFFICES ASSUME command = "dev" PROVE (DevTodo /\ DevDone /\ DevNext)'
  BY DEF Start, world, DevInv
<1>1. \/ pc' = "spawn" /\ todo' = <<"migration">>
      \/ pc' = "drop" /\ todo' = <<>>
  BY DEF Start, First, Leave
<1>2. /\ <<"migration">> \in Seq(DevKids) /\ Head(<<"migration">>) = "migration"
      /\ <<>> \in Seq(DevKids)
  BY Short DEF DevKids
<1> QED
  BY <1>1, <1>2, DevFacts DEF Start, os, DevTodo, DevDone, DevNext, Terminating

\* Spawn keeps what dev relies on.
LEMMA DevSpawn ==
  ASSUME TypeInv, DevInv, Spawn PROVE DevInv'
<1> SUFFICES ASSUME command = "dev" PROVE (DevTodo /\ DevDone /\ DevNext)'
  BY DEF Spawn, world, DevInv
<1> DEFINE k == Head(todo)
<1>1. k \in DevKids /\ pc = "spawn"
  BY DevFacts DEF Spawn, Holding
<1>2. <<"frontend">> \in Seq(DevKids) /\ Head(<<"frontend">>) = "frontend"
      /\ <<>> \in Seq(DevKids) /\ <<"backend">> \in Seq(DevKids)
  BY Short DEF DevKids
<1>3. CASE pc' = "drop" /\ todo' = <<>> /\ UNCHANGED <<os, armed>>
  BY <1>2, <1>3, DevFacts DEF os, DevTodo, DevDone, DevNext, Terminating
<1>4. CASE /\ pc' = "signal" /\ goal' = "noFrontend" /\ todo' = <<"backend">>
           /\ UNCHANGED <<os, armed>>
  BY <1>2, <1>4, DevFacts DEF os, DevTodo, DevDone, DevNext
<1>5. CASE /\ SpawnChild(k)
           /\ \/ pc' = "spawn" /\ todo' = <<"frontend">>
              \/ pc' = "poll" /\ todo' = <<>>
  <2>1. DevTodo'
    <3>1. todo' \in Seq(DevKids)
      BY <1>2, <1>5
    <3>2. \A j \in Kids \ DevKids : leader'[j] = leader[j] /\ armed'[j] = armed[j]
      BY <1>1, <1>5, DevFacts DEF SpawnChild
    <3> QED
      BY <3>1, <3>2, DevFacts DEF DevTodo
  <2> QED
    BY <1>2, <1>5, <2>1 DEF DevDone, DevNext, Terminating
<1> QED
  BY <1>3, <1>4, <1>5 DEF Spawn, Panic, Leave, SpawnFails

\* Poll keeps what dev relies on.
LEMMA DevPoll ==
  ASSUME TypeInv, DevInv, Poll PROVE DevInv'
<1> SUFFICES ASSUME command = "dev" PROVE (DevTodo /\ DevDone /\ DevNext)'
  BY DEF Poll, world, DevInv
<1>1. leader["npm"] = "none"
  BY DevFacts DEF DevTodo, DevKids, Kids
<1>2. Watched = <<"migration">> \/ Watched = <<"backend", "frontend">>
  BY <1>1 DEF Watched, First
<1>3. /\ <<"migration">> \in Seq(DevKids) /\ <<>> \in Seq(DevKids)
      /\ <<"backend", "frontend">> \in Seq(DevKids) /\ <<"frontend", "backend">> \in Seq(DevKids)
  BY Short DEF DevKids
<1>4. Watched \in Seq(DevKids)
  BY <1>2, <1>3
<1>5. \/ pc' = "drop" /\ todo' = <<>>
      \/ pc' = "check" /\ todo' = Watched
      \/ /\ pc' = "signal" /\ goal' = "stopped"
         /\ todo' = Watched \/ todo' = <<"frontend", "backend">>
  BY DEF Poll, CaptureAbandoned, Panic, Leave, Stop
<1>6. todo' \in Seq(DevKids)
  BY <1>3, <1>4, <1>5
<1> QED
  BY <1>5, <1>6, DevFacts DEF Poll, os, DevTodo, DevDone, DevNext, Terminating

\* Check keeps what dev relies on.
LEMMA DevCheck ==
  ASSUME TypeInv, DevInv, Check PROVE DevInv'
<1> SUFFICES ASSUME command = "dev" PROVE (DevTodo /\ DevDone /\ DevNext)'
  BY DEF Check, world, DevInv
<1> DEFINE k == Head(todo)
<1>0. pc = "check"
  BY DEF Check
<1>1. k \in DevKids /\ k \in Kids /\ Tail(todo) \in Seq(DevKids)
  BY <1>0, DevFacts DEF Holding
<1>2. CASE /\ pc' \in {"poll", "check"} /\ todo' = Tail(todo)
           /\ UNCHANGED <<os, armed>>
  BY <1>1, <1>2, DevFacts DEF os, DevTodo, DevDone, DevNext, Terminating
<1>3. ASSUME Reap(k), UNCHANGED armed, todo' \in Seq(DevKids) PROVE DevTodo'
  BY <1>1, <1>3, DevFacts DEF Reap, Reaped, DevTodo, DevKids
<1>4. CASE leader[k] = "zombie" /\ k = "migration" /\ StepExited(k)
  <2>1. todo' = <<"migration">> /\ <<"migration">> \in Seq(DevKids)
    BY <1>4, Short DEF StepExited, DevKids
  <2>2. DevTodo'
    BY <1>3, <1>4, <2>1 DEF StepExited
  <2>3. leader'["migration"] = "reaped" /\ exit' = exit /\ pc' = "signal"
        /\ goal' = IF exit["migration"] = "ok" THEN "succeeded" ELSE "failed"
    BY <1>1, <1>4, DevFacts DEF StepExited, Reap, Reaped
  <2> QED
    BY <2>1, <2>2, <2>3 DEF DevDone, DevNext
<1>5. CASE DevChildExited(k)
  <2>1. \/ pc' = "drop" /\ todo' = <<>>
        \/ pc' = "signal" /\ goal' = "exited" /\ todo' = <<k, Peer(k)>>
    BY <1>5 DEF DevChildExited, Panic, Leave
  <2>2. Peer(k) \in DevKids
    BY DEF Peer, DevKids
  <2>3. <<>> \in Seq(DevKids) /\ <<k, Peer(k)>> \in Seq(DevKids)
    BY <1>1, <2>2, Short
  <2>4. DevTodo'
    BY <1>3, <1>5, <2>1, <2>3 DEF DevChildExited
  <2> QED
    BY <2>1, <2>4 DEF DevDone, DevNext, Terminating
<1> QED
  BY <1>1, <1>2, <1>4, <1>5, CheckCases DEF DevKids

\* Signal keeps what dev relies on.
LEMMA DevSignal ==
  ASSUME TypeInv, DevInv, Signal PROVE DevInv'
<1> SUFFICES ASSUME command = "dev" PROVE (DevTodo /\ DevDone /\ DevNext)'
  BY DEF Signal, world, DevInv
<1> DEFINE k == Head(todo)
<1>0. pc = "signal" /\ armed' = armed /\ exit' = exit
  BY DEF Signal, Reap, Terminated
<1>1. k \in DevKids /\ k \in Kids /\ <<>> \in Seq(DevKids)
  BY <1>0, DevFacts, Short DEF Holding, Terminating
<1>2. CASE Reap(k) /\ Leave("err")
  BY <1>0, <1>1, <1>2, DevFacts DEF Reap, Reaped, Leave, DevTodo, DevDone, DevNext,
    DevKids, Terminating
<1>3. CASE Terminated(k) /\ pc' = "probing" /\ UNCHANGED <<todo, goal>>
  <2>1. PICK s \in (IF leader[k] = "running" THEN {"running", "dying"} ELSE {Reaped(k)}) :
          leader' = [leader EXCEPT ![k] = s]
    BY <1>3 DEF Terminated
  <2>2. DevTodo'
    BY <1>0, <1>1, <1>3, <2>1, DevFacts DEF DevTodo, DevKids
  <2>3. DevDone'
    BY <1>0, <1>1, <1>3, <2>1, DevFacts DEF DevDone, Terminating, Reaped
  <2> QED
    BY <1>3, <2>2, <2>3 DEF DevNext
<1> QED
  BY <1>2, <1>3 DEF Signal

\* Probe keeps what dev relies on.
LEMMA DevProbe ==
  ASSUME TypeInv, DevInv, Probe PROVE DevInv'
<1> SUFFICES ASSUME command = "dev" PROVE (DevTodo /\ DevDone /\ DevNext)'
  BY DEF Probe, world, DevInv
<1> DEFINE k == Head(todo)
<1>0. pc = "probing" /\ Reap(k)
  BY DEF Probe
<1>1. k \in DevKids /\ k \in Kids /\ <<>> \in Seq(DevKids)
  BY <1>0, DevFacts, Short DEF Holding, Terminating
<1>2. \/ pc' = "join" /\ todo' = todo /\ goal' = goal /\ armed' = [armed EXCEPT ![k] = FALSE]
      \/ pc' = "drop" /\ todo' = <<>> /\ armed' = armed
      \/ pc' \in {"kill", "probing"} /\ todo' = todo /\ goal' = goal /\ armed' = armed
  BY DEF Probe, Leave
<1>3. DevTodo'
  <2>1. todo' \in Seq(DevKids)
    BY <1>1, <1>2, DevFacts DEF DevTodo
  <2>2. \A j \in Kids \ DevKids : leader'[j] = leader[j] /\ armed'[j] = armed[j]
    BY <1>0, <1>1, <1>2, DevFacts DEF Reap
  <2> QED
    BY <2>1, <2>2, DevFacts DEF DevTodo
<1>4. DevDone'
  <2> SUFFICES ASSUME pc' \in Terminating, goal' = "succeeded" PROVE DevDone'
    BY DEF DevDone
  <2>1. todo' = todo /\ goal = "succeeded"
    BY <1>2 DEF Terminating
  <2>2. /\ k = "migration" /\ todo = <<"migration">> /\ exit["migration"] = "ok"
        /\ leader["migration"] = "reaped"
    BY <1>0, <2>1, DevFacts DEF DevDone, Terminating
  <2> QED
    BY <1>0, <1>1, <1>2, <2>1, <2>2, DevFacts DEF DevDone, Reap, Reaped
<1> QED
  BY <1>2, <1>3, <1>4 DEF DevNext

\* Kill keeps what dev relies on.
LEMMA DevKill ==
  ASSUME TypeInv, DevInv, Kill PROVE DevInv'
<1> SUFFICES ASSUME command = "dev" PROVE (DevTodo /\ DevDone /\ DevNext)'
  BY DEF Kill, world, DevInv
<1> DEFINE k == Head(todo)
<1>0. pc = "kill" /\ armed' = armed /\ exit' = exit
  BY DEF Kill, Killed, os
<1>1. k \in DevKids /\ k \in Kids /\ <<>> \in Seq(DevKids)
  BY <1>0, DevFacts, Short DEF Holding, Terminating
<1>2. CASE pc' = "drop" /\ todo' = <<>> /\ UNCHANGED os
  BY <1>0, <1>1, <1>2, DevFacts DEF os, DevTodo, DevDone, DevNext, Terminating
<1>3. CASE Killed(k, leader[k]) /\ pc' = "wait" /\ UNCHANGED <<todo, goal>>
  <2>1. DevTodo'
    BY <1>0, <1>1, <1>3, DevFacts DEF Killed, DevTodo
  <2>2. DevDone'
    BY <1>0, <1>1, <1>3, DevFacts DEF Killed, DevDone, Terminating
  <2> QED
    BY <1>3, <2>1, <2>2 DEF DevNext
<1> QED
  BY <1>2, <1>3 DEF Kill, Leave

\* Join keeps what dev relies on.
LEMMA DevJoin ==
  ASSUME TypeInv, DevInv, Join PROVE DevInv'
<1> SUFFICES ASSUME command = "dev" PROVE (DevTodo /\ DevDone /\ DevNext)'
  BY DEF Join, world, DevInv
<1>1. pc = "join" /\ UNCHANGED <<os, armed, goal>> /\ Tail(todo) \in Seq(DevKids)
  BY DevFacts DEF Join, Holding, Terminating
<1>2. \/ pc' = "signal" /\ todo' = Tail(todo) /\ Len(todo) > 1
      \/ pc' = "conclude" /\ todo' = todo
  BY DEF Join
<1>3. DevTodo'
  BY <1>1, <1>2, DevFacts DEF os, DevTodo
<1>4. goal = "succeeded" => todo = <<"migration">> /\ Len(todo) = 1
  BY <1>1, DevFacts, Short DEF DevDone, Terminating, DevKids
<1> QED
  BY <1>1, <1>2, <1>3, <1>4, DevFacts DEF os, DevDone, DevNext, Terminating

\* Conclude keeps what dev relies on.
LEMMA DevConclude ==
  ASSUME TypeInv, DevInv, Conclude PROVE DevInv'
<1> SUFFICES ASSUME command = "dev" PROVE (DevTodo /\ DevDone /\ DevNext)'
  BY DEF Conclude, world, DevInv
<1>1. pc = "conclude" /\ goal \in Reasons /\ UNCHANGED <<os, armed>>
  BY DEF Conclude, TypeInv, ShapeInv, Terminating
<1>2. \/ pc' = "drop" /\ todo' = <<>>
      \/ pc' = "spawn" /\ todo' = <<"backend">> /\ goal = "succeeded"
  BY <1>1 DEF Conclude, Panic, Leave, ConcludeDev, Reasons
<1>3. todo' \in Seq(DevKids)
  BY <1>2, Short DEF DevKids
<1>4. goal = "succeeded" => exit["migration"] = "ok" /\ ~armed["migration"]
  BY <1>1, DevFacts DEF DevDone, Terminating
<1> QED
  BY <1>1, <1>2, <1>3, <1>4, DevFacts DEF os, DevTodo, DevDone, DevNext, Terminating

\* Every step keeps what dev relies on.
LEMMA DevStep ==
  ASSUME TypeInv, GroupInv, DevInv, [Next]_vars PROVE DevInv'
<1>1. CASE Start
  BY <1>1, DevStart
<1>2. CASE Spawn
  BY <1>2, DevSpawn
<1>3. CASE Poll
  BY <1>3, DevPoll
<1>4. CASE Check
  BY <1>4, DevCheck
<1>5. CASE Signal
  BY <1>5, DevSignal
<1>6. CASE Probe
  BY <1>6, DevProbe
<1>7. CASE Kill
  BY <1>7, DevKill
<1>8. CASE Join
  BY <1>8, DevJoin
<1>9. CASE Conclude
  BY <1>9, DevConclude
<1> USE DEF TypeInv, TypeOK, ShapeInv, Commands, Kids, Kinds, LockFiles, Steps, Goals,
  Results, Holding, Terminating, Reasons, Leaving, GroupInv, DevInv, DevTodo, DevDone,
  DevNext, DevKids, Gone, Members, Stopped, world, os, doctor, setup
<1>10. CASE Interrupt \/ SinkBreaks \/ TimeIsUp \/ UNCHANGED vars
  BY <1>10 DEF vars, Interrupt, others, SinkBreaks, TimeIsUp
<1>11. CASE Snapshot
  BY <1>11 DEF Snapshot, Leave
<1>12. CASE Restore
  BY <1>12 DEF Restore, LockFiles
<1>13. CASE Wait
  BY <1>13 DEF Wait, Reap, Reaped
<1>14. CASE Drop
  BY <1>14 DEF Drop, NextDropped, DropOrder, Refused, Members, Reaped, Terminated, Killed, After
<1>15. CASE Grace
  BY <1>15 DEF Grace, Killed, After, Reaped
<1>16. CASE DropWait
  BY <1>16 DEF DropWait, OutputEnded, Piped, Reap, Reaped
<1>17. CASE Return
  BY <1>17 DEF Return, Restores, Locks
<1>18. CASE Report
  BY <1>18 DEF Report, Summary
<1>19. CASE \E k \in Kids : Exits(k)
  BY <1>19 DEF Exits, others
<1>20. CASE \E k \in Kids : Forks(k)
  BY <1>20 DEF Forks, others
<1>21. CASE \E k \in Kids : Vanishes(k)
  BY <1>21 DEF Vanishes, others
<1>22. CASE \E k \in Kids : Rewrites(k)
  BY <1>22 DEF Rewrites, others
<1> QED
  BY <1>1, <1>2, <1>3, <1>4, <1>5, <1>6, <1>7, <1>8, <1>9, <1>10, <1>11, <1>12, <1>13,
    <1>14, <1>15, <1>16, <1>17, <1>18, <1>19, <1>20, <1>21, <1>22 DEF Next, Supervisor

\* Check starts no server outside dev.
LEMMA OnlyDevCheck ==
  ASSUME TypeInv, OnlyDevInv, Check PROVE OnlyDevInv'
<1> DEFINE k == Head(todo)
<1> SUFFICES ASSUME command # "dev" PROVE OnlyDevInv'
  BY DEF Check, world, OnlyDevInv
<1>1. leader["backend"] = "none" /\ leader["frontend"] = "none" /\ k \in Kids
      /\ leader \in [Kids -> {"none", "running", "dying", "zombie", "reaped"}]
  BY Busy DEF OnlyDevInv, Check, Holding, Terminating, TypeInv, TypeOK
<1>2. leader[k] = "zombie" => k \notin {"backend", "frontend"}
  BY <1>1
<1>3. /\ pc' \in {"poll", "check", "drop", "signal"}
      /\ leader'["backend"] = "none" /\ leader'["frontend"] = "none"
  <2>1. CASE UNCHANGED os /\ pc' \in {"poll", "check"}
    BY <1>1, <2>1 DEF os
  <2>2. CASE leader[k] = "zombie" /\ Disarm(k)
    BY <1>1, <1>2, <2>2 DEF Disarm, Killed, Leave
  <2>3. CASE leader[k] = "zombie" /\ StepExited(k)
    BY <1>1, <1>2, <2>3 DEF StepExited, Reap
  <2> QED
    BY <1>2, <2>1, <2>2, <2>3, CheckCases
<1> QED
  BY <1>3 DEF OnlyDevInv

\* Every step starts no server outside dev.
LEMMA OnlyDevStep ==
  ASSUME TypeInv, GroupInv, OnlyDevInv, [Next]_vars PROVE OnlyDevInv'
<1>1. CASE Check
  BY <1>1, OnlyDevCheck
<1> USE DEF TypeInv, TypeOK, ShapeInv, Commands, Kids, Kinds, LockFiles, Steps, Goals,
  Results, Holding, Terminating, Reasons, Leaving, GroupInv, OnlyDevInv, Gone, Members, Stopped,
  world, os, doctor, setup
<1>2. CASE Interrupt \/ SinkBreaks \/ TimeIsUp \/ UNCHANGED vars
  BY <1>2 DEF vars, Interrupt, others, SinkBreaks, TimeIsUp
<1>3. CASE Start
  BY <1>3, Short DEF Start, Leave, First
<1>4. CASE Snapshot
  BY <1>4, Short DEF Snapshot, Leave
<1>5. CASE Restore
  BY <1>5, Short DEF Restore, LockFiles
<1>6. CASE Spawn
  BY <1>6, Short DEF Spawn, Panic, Heard, Speaks, Leave, CancelledBeforeStart, SpawnChild,
    SpawnFails
<1>7. CASE Poll
  BY <1>7, Short DEF Poll, CaptureAbandoned, Leave, Panic, Heard, Speaks, Stop, Watched,
    First
<1>8. CASE Signal
  BY <1>8, Short DEF Signal, Refused, Members, Reaped, Reap, Leave, Terminated, After
<1>9. CASE Probe
  BY <1>9, Short DEF Probe, Reap, Reaped, Absent, Members, Refused, Leave
<1>10. CASE Kill
  BY <1>10, Short DEF Kill, Refused, Members, Reaped, Leave, Killed, After
<1>11. CASE Wait
  BY <1>11, Short DEF Wait, Reap, Reaped
<1>12. CASE Join
  BY <1>12, Short DEF Join, OutputEnded
<1>13. CASE Conclude
  BY <1>13, Short DEF Conclude, Panic, Heard, Speaks, Leave, ConcludeDev, ConcludeRunProcess
<1>14. CASE Drop
  BY <1>14, Short DEF Drop, NextDropped, DropOrder, Refused, Members, Reaped, Terminated, Killed,
    After
<1>15. CASE Grace
  BY <1>15, Short DEF Grace, Killed, After, Reaped
<1>16. CASE DropWait
  BY <1>16, Short DEF DropWait, OutputEnded, Piped, Reap, Reaped
<1>17. CASE Return
  BY <1>17, Short DEF Return, Restores, Locks
<1>18. CASE Report
  BY <1>18, Short DEF Report, Summary
<1>19. CASE \E k \in Kids : Exits(k)
  BY <1>19 DEF Exits, others
<1>20. CASE \E k \in Kids : Forks(k)
  BY <1>20 DEF Forks, others
<1>21. CASE \E k \in Kids : Vanishes(k)
  BY <1>21 DEF Vanishes, others
<1>22. CASE \E k \in Kids : Rewrites(k)
  BY <1>22 DEF Rewrites, others
<1> QED
  BY <1>1, <1>2, <1>3, <1>4, <1>5, <1>6, <1>7, <1>8, <1>9, <1>10, <1>11, <1>12, <1>13,
    <1>14, <1>15, <1>16, <1>17, <1>18, <1>19, <1>20, <1>21, <1>22 DEF Next, Supervisor

-----------------------------------------------------------------------------
(* Lock files.                                                               *)

\* Restore keeps the lock files accounted for.
LEMMA LockRestore ==
  ASSUME TypeInv, GroupInv, LockInv, FailInv, Restore PROVE LockInv'
<1> DEFINE l == Head(todo)
<1>1. /\ pc = "restore" /\ command = "setup" /\ UNCHANGED <<armed, command, goal>>
      /\ drifted \in {"clean", "restored"} /\ goal \in {"ok", "err"} /\ result = "-"
      /\ lock \in [LockFiles -> {"committed", "rewritten"}]
  <2>1. pc = "restore" /\ UNCHANGED <<armed, command, goal>> /\ command = "setup"
    BY DEF Restore, world, TypeInv, ShapeInv
  <2>2. drifted \in {"clean", "restored"}
    BY <2>1 DEF LockInv
  <2>3. result = "-"
    BY <2>1 DEF GroupInv, TypeInv, TypeOK, Results
  <2>4. goal \in {"ok", "err"}
    BY <2>1 DEF FailInv, OtherFails
  <2> QED
    BY <2>1, <2>2, <2>3, <2>4 DEF TypeInv, TypeOK
<1>2. CASE lock[l] # "committed" /\ drifted' = "unrestored" /\ todo' = <<>>
  <2>1. pc' = "done"
    BY <1>2 DEF Restore
  <2> QED
    BY <1>1, <1>2, <2>1 DEF LockInv, SetupKeepsLocks
<1>3. CASE /\ drifted' = (IF lock[l] = "committed" THEN drifted ELSE "restored")
           /\ lock' = [lock EXCEPT ![l] = "committed"] /\ todo' = Tail(todo)
  <2>1. CASE todo = Locks
    <3>1. l = "Cargo.lock" /\ todo' = <<"package-lock.json">> /\ <<"package-lock.json">> # <<>>
      BY <1>3, <2>1, Short DEF Locks, LockFiles
    <3>2. pc' = "restore" /\ result' = result
      BY <3>1 DEF Restore
    <3>3. lock'["Cargo.lock"] = "committed"
      BY <1>1, <1>3, <3>1 DEF LockFiles
    <3> QED
      BY <1>1, <1>3, <3>1, <3>2, <3>3 DEF LockInv, SetupKeepsLocks
  <2>2. CASE todo = <<"package-lock.json">> /\ lock["Cargo.lock"] = "committed"
    <3>1. l = "package-lock.json" /\ todo' = <<>>
      BY <1>3, <2>2, Short
    <3>2. pc' = "done" /\ result' = IF goal = "ok" /\ drifted' = "clean" THEN "ok" ELSE "err"
      BY <3>1 DEF Restore
    <3>3. \A f \in LockFiles : lock'[f] = "committed"
      BY <1>1, <1>3, <2>2, <3>1 DEF LockFiles
    <3> QED
      BY <1>1, <1>3, <3>2, <3>3 DEF LockInv, SetupKeepsLocks
  <2> QED
    BY <1>1, <2>1, <2>2 DEF LockInv
<1> QED
  BY <1>2, <1>3 DEF Restore

\* Check keeps the lock files accounted for.
LEMMA LockCheck ==
  ASSUME TypeInv, GroupInv, LockInv, Check PROVE LockInv'
<1>1. /\ pc = "check" /\ UNCHANGED <<command, lock, drifted, result>> /\ result = "-"
      /\ pc' \in {"poll", "check", "drop", "signal"}
  BY CheckCases DEF Check, Disarm, StepExited, DevChildExited, Panic, Leave, world, setup,
    GroupInv
<1> QED
  BY <1>1 DEF LockInv, SetupKeepsLocks

\* A child whose handle is disarmed has nobody left to rewrite a lock.
LEMMA GoneRewritesNothing ==
  ASSUME TypeInv, GroupInv, NEW k \in Kids, Rewrites(k) PROVE armed[k]
<1>1. SUFFICES ASSUME ~armed[k] PROVE FALSE
  BY DEF TypeInv, TypeOK
<1>2. leader[k] \in {"none", "reaped"} /\ rest[k] \ {"stray"} \subseteq {"dying", "foreign"}
  BY <1>1 DEF GroupInv, Gone, Members
<1>3. "killable" \notin rest[k]
  BY <1>2
<1> QED
  BY <1>2, <1>3 DEF Rewrites

\* Every step keeps the lock files accounted for.
LEMMA LockStep ==
  ASSUME TypeInv, GroupInv, FailInv, LockInv, [Next]_vars PROVE LockInv'
<1>1. CASE Restore
  BY <1>1, LockRestore
<1>2. CASE Check
  BY <1>2, LockCheck
<1> USE DEF TypeInv, TypeOK, ShapeInv, Commands, Kids, Kinds, LockFiles, Steps, Goals,
  Results, Holding, Terminating, Reasons, Leaving, GroupInv, LockInv, Gone, Members,
  SetupKeepsLocks, Locks, world, os, doctor, setup
<1>3. CASE Interrupt \/ SinkBreaks \/ TimeIsUp \/ UNCHANGED vars
  BY <1>3 DEF vars, Interrupt, others, SinkBreaks, TimeIsUp
<1>4. CASE Start
  BY <1>4 DEF Start, Leave, First
<1>5. CASE Snapshot
  BY <1>5 DEF Snapshot, Leave
<1>6. CASE Spawn
  BY <1>6 DEF Spawn, Panic, Heard, Speaks, Leave, CancelledBeforeStart, SpawnChild,
    SpawnFails
<1>7. CASE Poll
  BY <1>7 DEF Poll, CaptureAbandoned, Leave, Panic, Heard, Speaks, Stop, Watched, First
<1>8. CASE Signal
  BY <1>8 DEF Signal, Refused, Members, Reaped, Reap, Leave, Terminated, After
<1>9. CASE Probe
  BY <1>9 DEF Probe, Reap, Reaped, Absent, Members, Refused, Leave
<1>10. CASE Kill
  BY <1>10 DEF Kill, Refused, Members, Reaped, Leave, Killed, After
<1>11. CASE Wait
  BY <1>11 DEF Wait, Reap, Reaped
<1>12. CASE Join
  BY <1>12 DEF Join, OutputEnded
<1>13. CASE Conclude
  BY <1>13 DEF Conclude, Panic, Heard, Speaks, Leave, ConcludeDev, ConcludeRunProcess
<1>14. CASE Drop
  BY <1>14 DEF Drop, NextDropped, DropOrder, Refused, Members, Reaped, Terminated, Killed, After
<1>15. CASE Grace
  BY <1>15 DEF Grace, Killed, After, Reaped
<1>16. CASE DropWait
  BY <1>16 DEF DropWait, OutputEnded, Piped, Reap, Reaped
<1>17. CASE Return
  BY <1>17 DEF Return, Restores, Locks
<1>18. CASE Report
  BY <1>18 DEF Report, Summary
<1>19. CASE \E k \in Kids : Exits(k)
  BY <1>19 DEF Exits, others
<1>20. CASE \E k \in Kids : Forks(k)
  BY <1>20 DEF Forks, others
<1>21. CASE \E k \in Kids : Vanishes(k)
  BY <1>21 DEF Vanishes, others
<1>22. CASE \E k \in Kids : Rewrites(k)
  <2>1. PICK k \in Kids : Rewrites(k)
    BY <1>22
  <2>2. armed[k]
    BY <2>1, GoneRewritesNothing
  <2> QED
    BY <2>1, <2>2 DEF Rewrites, others
<1> QED
  BY <1>1, <1>2, <1>3, <1>4, <1>5, <1>6, <1>7, <1>8, <1>9, <1>10, <1>11, <1>12, <1>13,
    <1>14, <1>15, <1>16, <1>17, <1>18, <1>19, <1>20, <1>21, <1>22 DEF Next, Supervisor

-----------------------------------------------------------------------------
(* Reports.                                                                  *)

\* Restore keeps the count of failures.
LEMMA FailRestore ==
  ASSUME TypeInv, GroupInv, LockInv, OnlyDevInv, OtherFails, command # "doctor",
         Restore PROVE OtherFails'
<1>1. /\ pc = "restore" /\ UNCHANGED <<command, goal>> /\ goal \in {"ok", "err"}
      /\ fails = (IF goal = "err" THEN 1 ELSE 0) /\ result = "-" /\ command = "setup"
  BY DEF Restore, world, OtherFails, GroupInv, TypeInv, ShapeInv
<1>2. drifted' \in {"clean", "restored", "unrestored"}
  BY <1>1 DEF Restore, LockInv
<1>3. CASE pc' = "restore" /\ UNCHANGED <<fails, result>>
  BY <1>1, <1>3 DEF OtherFails, SetupFailedTwice, Leaving, Terminating
<1>4. CASE /\ pc' = "done"
           /\ result' = IF goal = "ok" /\ drifted' = "clean" THEN "ok" ELSE "err"
           /\ fails' = IF drifted' = "clean" THEN fails ELSE fails + 1
  BY <1>1, <1>2, <1>4 DEF OtherFails, SetupFailedTwice, Leaving, Terminating
<1> QED
  BY <1>3, <1>4 DEF Restore

\* Check keeps the count of failures.
LEMMA FailCheck ==
  ASSUME TypeInv, GroupInv, LockInv, OnlyDevInv, OtherFails, command # "doctor",
         Check PROVE OtherFails'
<1> DEFINE k == Head(todo)
<1>1. /\ pc = "check" /\ UNCHANGED <<command, drifted, result>> /\ result = "-" /\ fails = 0
  BY DEF Check, world, setup, GroupInv, OtherFails
<1>2. \/ pc' \in {"poll", "check"} /\ fails' = 0
      \/ pc' = "drop" /\ goal' \in {"ok", "err"} /\ fails' = 0
      \/ pc' = "signal" /\ fails' = 0
      \/ /\ pc' \in {"drop", "signal"} /\ goal' \in {"panic", "exited"} /\ fails' = 1
         /\ k \in {"backend", "frontend"} /\ leader[k] # "none"
  BY <1>1, CheckCases DEF Disarm, StepExited, DevChildExited, Panic, Leave
<1>3. k \in {"backend", "frontend"} /\ leader[k] # "none" => command = "dev"
  BY DEF OnlyDevInv
<1>4. CASE pc' \in {"poll", "check"} /\ fails' = 0
  BY <1>1, <1>4 DEF OtherFails, SetupFailedTwice, Leaving, Terminating
<1>5. CASE pc' = "drop" /\ goal' \in {"ok", "err"} /\ fails' = 0
  BY <1>1, <1>5 DEF OtherFails, SetupFailedTwice, Leaving, Terminating
<1>6. CASE pc' = "signal" /\ fails' = 0
  BY <1>1, <1>6 DEF OtherFails, SetupFailedTwice, Leaving, Terminating
<1>7. CASE /\ pc' \in {"drop", "signal"} /\ goal' \in {"panic", "exited"} /\ fails' = 1
           /\ command = "dev"
  BY <1>1, <1>7 DEF OtherFails, SetupFailedTwice, Leaving, Terminating
<1> QED
  BY <1>2, <1>3, <1>4, <1>5, <1>6, <1>7

\* Start keeps the count of failures.
LEMMA FailStart ==
  ASSUME TypeInv, GroupInv, LockInv, OnlyDevInv, OtherFails, command # "doctor",
         Start PROVE OtherFails'
<1>1. /\ pc = "start" /\ UNCHANGED <<command, drifted, result>> /\ result = "-" /\ fails = 0
      /\ command = "setup" => drifted = "unread"
  BY DEF Start, world, setup, GroupInv, OtherFails, LockInv, TypeInv, TypeOK, Results
<1>2. \/ pc' \in {"snapshot", "spawn"} /\ fails' = 0
      \/ pc' = "drop" /\ goal' = "err" /\ fails' = 1
  BY <1>1 DEF Start, Leave
<1> QED
  BY <1>1, <1>2 DEF OtherFails, SetupFailedTwice, Leaving, Terminating

\* Snapshot keeps the count of failures.
LEMMA FailSnapshot ==
  ASSUME TypeInv, GroupInv, LockInv, OnlyDevInv, OtherFails, command # "doctor",
         Snapshot PROVE OtherFails'
<1>1. /\ pc = "snapshot" /\ UNCHANGED <<command, result>> /\ result = "-" /\ fails = 0
      /\ command = "setup" /\ drifted = "unread"
  BY DEF Snapshot, world, GroupInv, OtherFails, LockInv, TypeInv, TypeOK, ShapeInv, Results
<1>2. \/ pc' = "spawn" /\ fails' = 0
      \/ pc' = "drop" /\ goal' = "err" /\ fails' = 1 /\ drifted' = "unread"
  BY <1>1 DEF Snapshot, Leave
<1> QED
  BY <1>1, <1>2 DEF OtherFails, SetupFailedTwice, Leaving, Terminating

\* Conclude keeps the count of failures.
LEMMA FailConclude ==
  ASSUME TypeInv, GroupInv, LockInv, OnlyDevInv, OtherFails, command # "doctor",
         Conclude PROVE OtherFails'
<1>1. /\ pc = "conclude" /\ UNCHANGED <<command, drifted, result>> /\ result = "-"
      /\ goal \in Reasons /\ fails \in {0, 1}
      /\ goal \in {"stopped", "succeeded", "failed"} => fails = 0
      /\ command = "setup" /\ drifted = "clean" => fails = 0
  BY DEF Conclude, world, setup, GroupInv, OtherFails, TypeInv, TypeOK, ShapeInv,
    Terminating, Results
<1>2. CASE command = "dev"
  <2>1. \/ pc' = "spawn" /\ fails' = 0
        \/ pc' = "drop" /\ goal' = "ok" /\ fails' = 0
        \/ pc' = "drop" /\ goal' \in {"err", "panic"} /\ fails' \in {0, 1}
    <3>1. CASE Panic /\ UNCHANGED fails
      BY <1>1, <3>1 DEF Panic, Leave
    <3>2. CASE ConcludeDev /\ goal = "succeeded"
      BY <1>1, <3>2 DEF ConcludeDev
    <3>3. CASE ConcludeDev /\ goal = "stopped"
      BY <1>1, <3>3 DEF ConcludeDev, Leave
    <3>4. CASE ConcludeDev /\ goal = "failed"
      BY <1>1, <3>4 DEF ConcludeDev, Leave
    <3>5. CASE ConcludeDev /\ goal \in {"noFrontend", "exited"}
      <4>1. pc' = "drop" /\ goal' = "err" /\ fails' = fails
        BY <3>5 DEF ConcludeDev, Leave
      <4> QED
        BY <1>1, <4>1
    <3> QED
      BY <1>1, <1>2, <3>1, <3>2, <3>3, <3>4, <3>5 DEF Conclude, Reasons
  <2> QED
    BY <1>1, <1>2, <2>1 DEF OtherFails, SetupFailedTwice, Leaving, Terminating
<1>3. CASE command # "dev"
  <2>1. /\ fails' = fails
        /\ \/ pc' = "spawn" /\ goal = "succeeded"
           \/ pc' = "drop" /\ goal' = "ok" /\ goal = "succeeded"
           \/ pc' = "drop" /\ goal' \in {"err", "panic"}
    BY <1>1, <1>3 DEF Conclude, Panic, Leave, ConcludeRunProcess
  <2> QED
    BY <1>1, <1>3, <2>1 DEF OtherFails, SetupFailedTwice, Leaving, Terminating
<1> QED
  BY <1>2, <1>3

\* Return keeps the count of failures.
LEMMA FailReturn ==
  ASSUME TypeInv, GroupInv, LockInv, OnlyDevInv, OtherFails, command # "doctor",
         Return PROVE OtherFails'
<1>1. /\ pc = "drop" /\ UNCHANGED <<command, drifted, goal>> /\ result = "-"
      /\ goal \in {"ok", "err", "panic"} /\ fails \in {0, 1} /\ (goal = "ok" => fails = 0)
      /\ command = "setup" /\ drifted = "clean" => fails = 0
  BY DEF Return, world, setup, GroupInv, OtherFails, TypeInv, TypeOK, ShapeInv, Leaving,
    Results
<1>3. CASE Restores
  <2>1. /\ pc' = "restore" /\ result' = result /\ goal \in {"ok", "err"} /\ fails = 0
        /\ fails' = IF goal = "err" THEN fails + 1 ELSE fails
    BY <1>1, <1>3 DEF Return, Restores
  <2> QED
    BY <1>1, <1>3, <2>1 DEF OtherFails, SetupFailedTwice, Leaving, Terminating
<1>4. CASE ~Restores
  <2>1. /\ pc' = "done" /\ result' \in {goal, "panic"}
        /\ fails' = IF goal = "err" /\ fails = 0 THEN 1 ELSE fails
    BY <1>4 DEF Return
  <2>2. drifted \notin {"restored", "unrestored"}
    BY <1>1 DEF LockInv
  <2> QED
    BY <1>1, <1>4, <2>1, <2>2 DEF OtherFails, SetupFailedTwice, Leaving, Terminating
<1> QED
  BY <1>3, <1>4

\* Every step of a command other than doctor keeps the count.
LEMMA OtherStep ==
  ASSUME TypeInv, GroupInv, LockInv, OnlyDevInv, OtherFails, command # "doctor", [Next]_vars
  PROVE OtherFails'
<1>1. CASE Start
  BY <1>1, FailStart
<1>2. CASE Snapshot
  BY <1>2, FailSnapshot
<1>3. CASE Restore
  BY <1>3, FailRestore
<1>4. CASE Check
  BY <1>4, FailCheck
<1>5. CASE Conclude
  BY <1>5, FailConclude
<1>6. CASE Return
  BY <1>6, FailReturn
<1>7. CASE Report
  BY <1>7 DEF Report, TypeInv, ShapeInv
<1> USE DEF TypeInv, TypeOK, ShapeInv, Commands, Kids, Kinds, LockFiles, Steps, Goals,
  Results, Holding, Terminating, Reasons, Leaving, GroupInv, LockInv, OtherFails,
  SetupFailedTwice,
  world, os, doctor, setup
<1>8. CASE Interrupt \/ SinkBreaks \/ TimeIsUp \/ UNCHANGED vars
  BY <1>8 DEF vars, Interrupt, others, SinkBreaks, TimeIsUp
<1>9. CASE Spawn
  BY <1>9 DEF Spawn, Panic, Heard, Speaks, Leave, CancelledBeforeStart, SpawnChild,
    SpawnFails
<1>10. CASE Poll
  BY <1>10 DEF Poll, CaptureAbandoned, Leave, Panic, Heard, Speaks, Stop, Watched, First
<1>11. CASE Signal
  BY <1>11 DEF Signal, Refused, Members, Reaped, Reap, Leave, Terminated, After
<1>12. CASE Probe
  BY <1>12 DEF Probe, Reap, Reaped, Absent, Members, Refused, Leave
<1>13. CASE Kill
  BY <1>13 DEF Kill, Refused, Members, Reaped, Leave, Killed, After
<1>14. CASE Wait
  BY <1>14 DEF Wait, Reap, Reaped
<1>15. CASE Join
  BY <1>15 DEF Join, OutputEnded
<1>16. CASE Drop
  BY <1>16 DEF Drop, NextDropped, DropOrder, Refused, Members, Reaped, Terminated, Killed, After
<1>17. CASE Grace
  BY <1>17 DEF Grace, Killed, After, Reaped
<1>18. CASE DropWait
  BY <1>18 DEF DropWait, OutputEnded, Piped, Reap, Reaped
<1>19. CASE \E k \in Kids : Exits(k)
  BY <1>19 DEF Exits, others
<1>20. CASE \E k \in Kids : Forks(k)
  BY <1>20 DEF Forks, others
<1>21. CASE \E k \in Kids : Vanishes(k)
  BY <1>21 DEF Vanishes, others
<1>22. CASE \E k \in Kids : Rewrites(k)
  BY <1>22 DEF Rewrites, others
<1> QED
  BY <1>1, <1>2, <1>3, <1>4, <1>5, <1>6, <1>7, <1>8, <1>9, <1>10, <1>11, <1>12, <1>13,
    <1>14, <1>15, <1>16, <1>17, <1>18, <1>19, <1>20, <1>21, <1>22 DEF Next, Supervisor

\* Report counts what it reports, and the summary adds one.
LEMMA DoctorReport ==
  ASSUME TypeInv, DoctorFails, GroupInv, Report PROVE DoctorFails'
<1> DEFINE bad == IF goal = "err" /\ Head(checks) THEN 1 ELSE 0
<1>1. /\ pc = "report" /\ result = "-" /\ fails = failures /\ failures \in Nat
      /\ bad \in {0, 1} /\ failures' = failures + bad
  BY DEF Report, DoctorFails, GroupInv, TypeInv, TypeOK, Results
<1>2. CASE pc' = "spawn" /\ fails' = fails + bad /\ result' = result
  BY <1>1, <1>2 DEF DoctorFails
<1>3. CASE Summary(failures + bad, fails + bad)
  <2>1. PICK n \in Nat : n = failures'
    BY TypeReport DEF TypeInv, TypeOK
  <2>2. Summary(n, n) /\ failures' = n
    BY <1>1, <1>3, <2>1
  <2>3. CASE shutdown \/ n # 0
    BY <2>1, <2>2, <2>3 DEF Summary, DoctorFails
  <2>4. CASE ~(shutdown \/ n # 0)
    BY <2>1, <2>2, <2>4 DEF Summary, DoctorFails
  <2> QED
    BY <2>3, <2>4
<1> QED
  BY <1>2, <1>3 DEF Report

\* Whatever else doctor does counts nothing and reports nothing.
LEMMA DoctorSilent ==
  ASSUME TypeInv, GroupInv, LockInv, OnlyDevInv, command = "doctor", [Next]_vars,
         ~Start, ~Report
  PROVE /\ UNCHANGED <<fails, failures, result>>
        /\ pc' = "start" => pc = "start"
        /\ pc = "done" => pc' = "done"
<1>1. CASE Check
  <2>1. pc = "check" /\ failures' = failures /\ result' = result
    BY <1>1 DEF Check, doctor
  <2>2. fails' = fails /\ pc' # "start"
    <3>1. Head(todo) \in {"backend", "frontend"} => leader[Head(todo)] = "none"
      BY DEF OnlyDevInv
    <3> QED
      BY <1>1, <3>1, CheckCases DEF Disarm, Leave, StepExited
  <2> QED
    BY <2>1, <2>2
<1>2. CASE Conclude
  BY <1>2 DEF Conclude, Panic, Leave, ConcludeRunProcess, doctor
<1>3. CASE Snapshot \/ Restore
  BY <1>3 DEF Snapshot, Restore, TypeInv, ShapeInv
<1>4. CASE Return
  BY <1>4 DEF Return, Restores, doctor
<1>5. CASE Spawn
  BY <1>5 DEF Spawn, Panic, Leave, SpawnChild, SpawnFails
<1>6. CASE Poll \/ Signal \/ Probe \/ Kill \/ Wait \/ Join
  BY <1>6 DEF Poll, Panic, Leave, Stop, Signal, Probe, Kill, Wait, Join, doctor
<1>7. CASE Drop \/ Grace \/ DropWait
  BY <1>7 DEF Drop, Grace, DropWait, doctor
<1>8. CASE Interrupt \/ SinkBreaks \/ TimeIsUp \/ UNCHANGED vars
  BY <1>8 DEF vars, Interrupt, others, SinkBreaks, TimeIsUp, doctor
<1>9. CASE \E k \in Kids : Exits(k) \/ Forks(k) \/ Vanishes(k) \/ Rewrites(k)
  BY <1>9 DEF Exits, Forks, Vanishes, Rewrites, others
<1> QED
  BY <1>1, <1>2, <1>3, <1>4, <1>5, <1>6, <1>7, <1>8, <1>9 DEF Next, Supervisor

\* Every step of doctor keeps the count.
LEMMA DoctorStep ==
  ASSUME TypeInv, GroupInv, LockInv, OnlyDevInv, DoctorFails, command = "doctor", [Next]_vars
  PROVE DoctorFails'
<1>1. CASE Start
  <2>1. pc = "start" /\ fails = 0 /\ failures = 0 /\ failures' = 0 /\ result = "-"
    BY <1>1 DEF Start, DoctorFails, GroupInv, doctor, TypeInv, TypeOK, Results
  <2>2. \/ pc' \in {"spawn", "snapshot"} /\ fails' = 0 /\ result' = "-"
        \/ pc' = "done" /\ fails' = 1 /\ result' = "err"
    BY <1>1, <2>1 DEF Start
  <2> QED
    BY <2>1, <2>2 DEF DoctorFails
<1>2. CASE Report
  BY <1>2, DoctorReport
<1>3. CASE ~Start /\ ~Report
  BY <1>3, DoctorSilent DEF DoctorFails
<1> QED
  BY <1>1, <1>2, <1>3

\* The command is what it was from the start.
LEMMA SameCommand ==
  ASSUME [Next]_vars PROVE command' = command
BY DEF Next, Supervisor, Start, Snapshot, Restore, Spawn, Poll, Check, Signal, Probe, Kill,
  Wait, Join, Conclude, Drop, Grace, DropWait, Return, Report, Interrupt, SinkBreaks,
  TimeIsUp, Exits, Forks, Vanishes, Rewrites, others, vars, world

\* Every step keeps the count of failures.
LEMMA FailStep ==
  ASSUME TypeInv, GroupInv, LockInv, OnlyDevInv, FailInv, [Next]_vars PROVE FailInv'
<1>1. command' = command
  BY SameCommand
<1> QED
  BY <1>1, DoctorStep, OtherStep DEF FailInv

-----------------------------------------------------------------------------
(* The theorems.                                                             *)

\* The invariant holds before a command has done anything.
LEMMA InitIInv ==
  ASSUME Init PROVE IInv
<1>1. <<>> \in Seq(Kids) /\ <<>> \in Seq(Kids \cup LockFiles) /\ <<>> \in Seq(DevKids)
      /\ <<>> \in Seq(BOOLEAN)
  BY Short
<1>2. checks \in Seq(BOOLEAN) /\ (command = "doctor" => checks # <<>>)
  BY <1>1, ChecksAssumption DEF Init
<1>3. TypeInv
  <2>1. TypeOK
    <3>1. /\ leader \in [Kids -> {"none", "running", "dying", "zombie", "reaped"}]
          /\ exit \in [Kids -> {"-", "ok", "bad"}] /\ rest \in [Kids -> SUBSET Kinds]
          /\ armed \in [Kids -> BOOLEAN] /\ lock \in [LockFiles -> {"committed", "rewritten"}]
      BY DEF Init
    <3>2. pc \in Steps /\ tries \in 0..Probes /\ goal \in Goals /\ result \in Results
      BY ProbesAssumption DEF Init, Steps, Goals, Results
    <3> QED
      BY <1>1, <1>2, <3>1, <3>2 DEF Init, TypeOK
  <2>2. ShapeInv
    BY <1>1, <1>2 DEF Init, ShapeInv, Holding, Terminating, Leaving
  <2> QED
    BY <2>1, <2>2 DEF TypeInv
<1>4. GroupInv /\ DevInv /\ OnlyDevInv
  BY <1>1 DEF Init, GroupInv, Gone, Members, DevInv, DevTodo, DevDone, DevNext, OnlyDevInv,
    Terminating, Kids
<1>5. LockInv /\ FailInv
  BY DEF Init, LockInv, SetupKeepsLocks, FailInv, DoctorFails, OtherFails, Terminating,
    Leaving
<1> QED
  BY <1>3, <1>4, <1>5 DEF IInv

\* Every step keeps it.
LEMMA NextIInv ==
  ASSUME IInv, [Next]_vars PROVE IInv'
BY TypeStep, GroupStep, DevStep, OnlyDevStep, LockStep, FailStep DEF IInv

\* So it holds for ever.
THEOREM Invariance == Spec => []IInv
<1>1. Init => IInv
  BY InitIInv
<1>2. IInv /\ [Next]_vars => IInv'
  BY NextIInv
<1> QED
  BY <1>1, <1>2, PTL DEF Spec

\* The variables keep their types, whatever the probes, the descendants and the
\* checks of doctor.
THEOREM TypeCorrect == Spec => []TypeOK
<1>1. IInv => TypeOK
  BY DEF IInv, TypeInv
<1> QED
  BY <1>1, Invariance, PTL

\* However a command ends, it leaves no process behind that it could have killed.
THEOREM GroupsGone == Spec => []NoGroupLeft
<1>1. IInv => NoGroupLeft
  BY DEF IInv, GroupInv, NoGroupLeft
<1> QED
  BY <1>1, Invariance, PTL

\* Every failure is reported exactly once: by doctor each required probe that
\* failed and then the outcome, by the other commands each failing phase.
THEOREM FailuresReported == Spec => []ReportedOnce
<1>1. IInv => ReportedOnce
  BY DEF IInv, FailInv, DoctorFails, OtherFails, ReportedOnce
<1> QED
  BY <1>1, Invariance, PTL

\* setup leaves the lock files as they were committed.
THEOREM LocksKept == Spec => []SetupKeepsLocks
<1>1. IInv => SetupKeepsLocks
  BY DEF IInv, LockInv
<1> QED
  BY <1>1, Invariance, PTL

\* Only a spawn brings a backend to life.
LEMMA BackendStarts ==
  ASSUME TypeInv, [Next]_vars, leader["backend"] = "none", leader'["backend"] = "running"
  PROVE Spawn /\ Head(todo) = "backend"
<1>1. /\ leader \in [Kids -> {"none", "running", "dying", "zombie", "reaped"}]
      /\ "backend" \in Kids
  BY DEF TypeInv, TypeOK, Kids
<1>2. CASE Check
  <2>1. UNCHANGED leader \/ Killed(Head(todo), "reaped") \/ Reap(Head(todo))
    BY <1>2, CheckCases DEF os, Disarm, StepExited, DevChildExited
  <2> QED
    BY <1>1, <2>1 DEF Killed, Reap, Reaped
<1>3. CASE Spawn
  <2>1. SpawnChild(Head(todo))
    BY <1>1, <1>3 DEF Spawn, os
  <2> QED
    BY <1>1, <1>3, <2>1 DEF SpawnChild
<1>4. CASE Signal \/ Drop \/ Grace
  <2>1. \E k \in Kids \cup {Head(todo)} :
          \/ UNCHANGED leader
          \/ Reap(k) \/ Terminated(k) \/ Killed(k, leader[k]) \/ Killed(k, Reaped(k))
    BY <1>4 DEF Signal, Drop, Grace, os
  <2> QED
    BY <1>1, <2>1 DEF Reap, Reaped, Terminated, Killed
<1>5. CASE \/ Start \/ Snapshot \/ Restore \/ Poll \/ Join \/ Conclude \/ Return \/ Report
           \/ Interrupt \/ SinkBreaks \/ TimeIsUp \/ UNCHANGED vars
  <2>1. UNCHANGED leader
    BY <1>5 DEF Start, Snapshot, Restore, Poll, Join, Conclude, Return, Report, Interrupt,
      SinkBreaks, TimeIsUp, vars, os
  <2> QED
    BY <1>1, <2>1
<1>6. CASE Probe \/ Kill \/ Wait \/ DropWait
  <2>1. UNCHANGED leader \/ Reap(Head(todo)) \/ Killed(Head(todo), leader[Head(todo)])
    BY <1>6 DEF Probe, Kill, Wait, DropWait, os
  <2> QED
    BY <1>1, <2>1 DEF Reap, Reaped, Killed
<1>7. CASE \E k \in Kids : Exits(k) \/ Forks(k) \/ Vanishes(k) \/ Rewrites(k)
  <2>1. UNCHANGED leader \/ \E k \in Kids : leader' = [leader EXCEPT ![k] = "zombie"]
    BY <1>7 DEF Exits, Forks, Vanishes, Rewrites, os
  <2> QED
    BY <1>1, <2>1
<1> QED
  BY <1>2, <1>3, <1>4, <1>5, <1>6, <1>7 DEF Next, Supervisor

\* The backend starts only after a migration that succeeded and of whose group
\* nothing is left.
THEOREM MigrationComesFirst == Spec => MigrationFirst
<1> DEFINE Step == leader["backend"] = "none" /\ leader'["backend"] = "running"
                     => exit["migration"] = "ok" /\ Gone("migration")
<1>1. IInv /\ [Next]_vars => [Step]_vars
  <2> SUFFICES ASSUME IInv, [Next]_vars, leader["backend"] = "none",
                      leader'["backend"] = "running"
               PROVE exit["migration"] = "ok" /\ Gone("migration")
    OBVIOUS
  <2>1. pc = "spawn" /\ Head(todo) = "backend"
    BY BackendStarts DEF IInv, Spawn
  <2>2. command = "dev"
    BY <2>1 DEF IInv, OnlyDevInv
  <2>3. exit["migration"] = "ok" /\ ~armed["migration"]
    BY <2>1, <2>2 DEF IInv, DevInv, DevNext
  <2> QED
    BY <2>3 DEF IInv, GroupInv, Kids
<1> QED
  BY <1>1, Invariance, PTL DEF Spec, MigrationFirst
=============================================================================

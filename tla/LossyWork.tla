------------------------------ MODULE LossyWork ------------------------------
(***************************************************************************)
(* What the post-commit seam promises about one batch of optional tasks,   *)
(* without saying how.  A task is offered once.  It is rejected, or it is  *)
(* accepted and from then on settles at most once, with or without having  *)
(* run.  No more than MaxConcurrency tasks run together.  The seam closes  *)
(* once: closing settles all the tasks that wait, and nothing starts after *)
(* it.  A task accepted after the seam closed is lost without a trace.     *)
(* The work is lossy, so nothing obliges an accepted task to run.          *)
(***************************************************************************)
EXTENDS Naturals, FiniteSets

CONSTANTS Tasks, MaxConcurrency

VARIABLES
  phase,   \* where each task is
  closed   \* no task starts any more

vars == <<phase, closed>>

Phase == {"offered", "rejected", "accepted", "running", "settled"}

In(p) == {t \in Tasks : phase[t] = p}

Move(S, p) == phase' = [t \in Tasks |-> IF t \in S THEN p ELSE phase[t]]

Init ==
  /\ phase = [t \in Tasks |-> "offered"]
  /\ closed = FALSE

Reject(t) ==
  /\ phase[t] = "offered"
  /\ Move({t}, "rejected")
  /\ UNCHANGED closed

Accept(t) ==
  /\ phase[t] = "offered"
  /\ Move({t}, "accepted")
  /\ UNCHANGED closed

Start(t) ==
  /\ ~closed
  /\ phase[t] = "accepted"
  /\ Cardinality(In("running")) < MaxConcurrency
  /\ Move({t}, "running")
  /\ UNCHANGED closed

\* A waiting task settles while the seam is open (its deadline passed).
Expire(t) ==
  /\ ~closed
  /\ phase[t] = "accepted"
  /\ Move({t}, "settled")
  /\ UNCHANGED closed

\* Running tasks settle, one or many at a time.
Finish(S) ==
  /\ S \subseteq In("running")
  /\ Move(S, "settled")
  /\ UNCHANGED closed

Close ==
  /\ ~closed
  /\ closed' = TRUE
  /\ Move(In("accepted"), "settled")

Next ==
  \/ \E t \in Tasks : Reject(t) \/ Accept(t) \/ Start(t) \/ Expire(t)
  \/ \E S \in SUBSET Tasks : Finish(S)
  \/ Close

Spec == Init /\ [][Next]_vars
=============================================================================

----------------------------- MODULE ReadingShelf -----------------------------
(***************************************************************************)
(* The reading queue as its clients may think of it: every command has one *)
(* atomic effect, or none.  An entry is created queued for one account,    *)
(* completed, and reopened, and the progress of its account moves in the   *)
(* same step.  A command that is refused touches nothing.                  *)
(***************************************************************************)
EXTENDS Integers

CONSTANTS Commands, Entries, Accounts, NoAccount

VARIABLES
  shelf,      \* state of each entry
  owner,      \* account of each entry
  progress,   \* completed entries of each account
  verdict     \* what became of each command

vars == <<shelf, owner, progress, verdict>>

Init ==
  /\ shelf = [e \in Entries |-> "absent"]
  /\ owner = [e \in Entries |-> NoAccount]
  /\ progress = [a \in Accounts |-> 0]
  /\ verdict = [c \in Commands |-> "none"]

Decide(c, v) ==
  /\ verdict[c] = "none"
  /\ verdict' = [verdict EXCEPT ![c] = v]

Create(c, e, a) ==
  /\ Decide(c, "done")
  /\ shelf[e] = "absent"
  /\ shelf' = [shelf EXCEPT ![e] = "queued"]
  /\ owner' = [owner EXCEPT ![e] = a]
  /\ UNCHANGED progress

Change(c, e, from, to, delta) ==
  /\ Decide(c, "done")
  /\ shelf[e] = from
  /\ shelf' = [shelf EXCEPT ![e] = to]
  /\ progress' = [progress EXCEPT ![owner[e]] = @ + delta]
  /\ UNCHANGED owner

Look(c) ==
  /\ Decide(c, "done")
  /\ UNCHANGED <<shelf, owner, progress>>

Refuse(c) ==
  /\ Decide(c, "refused")
  /\ UNCHANGED <<shelf, owner, progress>>

Next ==
  \E c \in Commands :
    \/ \E e \in Entries :
         \/ \E a \in Accounts : Create(c, e, a)
         \/ Change(c, e, "queued", "completed", 1)
         \/ Change(c, e, "completed", "queued", -1)
    \/ Look(c)
    \/ Refuse(c)

Spec == Init /\ [][Next]_vars
=============================================================================

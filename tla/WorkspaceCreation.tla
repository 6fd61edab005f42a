------------------------- MODULE WorkspaceCreation -------------------------
(* `yydra new`: several creators of one destination beside its user.         *)
(*                                                                         *)
(* A creator looks at the destination, reserves a staging directory next to   *)
(* it, writes the whole workspace there part by part, and renames the stage   *)
(* onto the destination.  Any of them may be killed at any point, may carry   *)
(* the process id of an earlier one (or of one in another container), and     *)
(* may find that the user made or filled the destination meanwhile.           *)
EXTENDS Naturals, FiniteSets, Sequences, SequencesExt

CONSTANTS Creators, Pids,
          Attempts,    \* names tried for a stage (1024)
          UserActions  \* bound on what the user does to the destination

ASSUME AttemptsAssumption == Attempts \in Nat \ {0}
ASSUME UserActionsAssumption == UserActions \in Nat

\* Mutant: the authorities are written before the template.
PartsAuthoritiesFirst == <<"licenses", "inventory", "origin", "product">>

\* What is written, in order.  "origin" stands for every file of the template
\* that is verified later, "product" for those that become the user's own.
Parts == <<"origin", "product", "licenses", "inventory">>
Verified == Range(Parts) \ {"product"}

VARIABLES
  dest,     \* what is at the destination: absent, a file, or a directory
  stages,   \* the staging directories that exist: name -> contents
  pid, pc,
  stage,    \* the name each creator reserved
  written,  \* parts it has written
  result,   \* what the command returned
  torn,     \* history: removing its stage has begun
  stuck,    \* removing its own stage failed
  moves     \* actions of the user

vars == <<dest, stages, pid, pc, stage, written, result, torn, stuck, moves>>

Absent == [kind |-> "absent", files |-> {}]
AFile == [kind |-> "file", files |-> {}]
Dir(files) == [kind |-> "dir", files |-> files]

\* A file of a workspace: who wrote it, what it is, and whether all of it.
File(c, part, whole) == [by |-> c, part |-> part, whole |-> whole]
Theirs == [by |-> "user", part |-> "product", whole |-> TRUE]
Complete(c) == {File(c, p, TRUE) : p \in Range(Parts)}

Names == Pids \X (0..(Attempts - 1))
NoStage == <<"none">>

TypeOK ==
  /\ dest.kind \in {"absent", "file", "dir"}
  /\ DOMAIN stages \subseteq Names
  /\ pid \in [Creators -> Pids] /\ stage \in [Creators -> Names \cup {NoStage}]
  /\ pc \in [Creators -> {"inputs", "inspect", "reserve", "write", "rename", "cleanup", "done"}]
  /\ written \in [Creators -> 0..Len(Parts)]
  /\ result \in [Creators -> {"-", "ok", "err", "killed"}]
  /\ torn \in [Creators -> BOOLEAN] /\ stuck \in [Creators -> BOOLEAN]
  /\ moves \in 0..UserActions

Init ==
  /\ dest \in {Absent, AFile, Dir({}), Dir({Theirs})}
  /\ stages = [n \in {} |-> {}]
  /\ pid \in [Creators -> Pids]
  /\ pc = [c \in Creators |-> "inputs"] /\ stage = [c \in Creators |-> NoStage]
  /\ written = [c \in Creators |-> 0] /\ result = [c \in Creators |-> "-"]
  /\ torn = [c \in Creators |-> FALSE] /\ stuck = [c \in Creators |-> FALSE]
  /\ moves = 0

Goes(c, from, to) == pc[c] = from /\ pc' = [pc EXCEPT ![c] = to]
Ends(c, r) == pc' = [pc EXCEPT ![c] = "done"] /\ result' = [result EXCEPT ![c] = r]

\* The licence, name and id are accepted or not; nothing is touched before.
Inputs(c) ==
  /\ \/ Goes(c, "inputs", "inspect") /\ UNCHANGED result
     \/ pc[c] = "inputs" /\ Ends(c, "err")
  /\ UNCHANGED <<dest, stages, pid, stage, written, torn, stuck, moves>>

Free(d) == d \in {Absent, Dir({})}

\* inspect_destination, and the destination's parent.
Inspect(c) ==
  /\ \/ Free(dest) /\ Goes(c, "inspect", "reserve") /\ UNCHANGED result
     \/ pc[c] = "inspect" /\ Ends(c, "err")
  /\ UNCHANGED <<dest, stages, pid, stage, written, torn, stuck, moves>>

Tried(c) == {a \in 0..(Attempts - 1) : <<pid[c], a>> \in DOMAIN stages}
Untried(c) == {a \in 0..(Attempts - 1) : \A b \in 0..(a - 1) : b \in Tried(c)} \ Tried(c)

With(n)    == [m \in DOMAIN stages \cup {n} |-> IF m = n THEN {} ELSE stages[m]]
Without(n) == [m \in DOMAIN stages \ {n} |-> stages[m]]

\* Mutant: create_dir_all, which accepts a directory that exists.
ReserveShared(c) ==
  /\ pc[c] = "reserve"
  /\ LET n == <<pid[c], 0>> IN
       /\ stages' = IF n \in DOMAIN stages THEN stages ELSE With(n)
       /\ stage' = [stage EXCEPT ![c] = n] /\ Goes(c, "reserve", "write")
       /\ UNCHANGED <<result, stuck>>
  /\ UNCHANGED <<dest, pid, written, torn, moves>>

\* create_dir decides: the first name that nobody has.
Reserve(c) ==
  /\ pc[c] = "reserve"
  /\ \/ \E a \in Untried(c) :
          /\ stages' = With(<<pid[c], a>>)
          /\ stage' = [stage EXCEPT ![c] = <<pid[c], a>>]
          /\ Goes(c, "reserve", "write") /\ UNCHANGED <<result, stuck>>
     \/ \E a \in Untried(c) :                     \* its mode cannot be set
          /\ \E left \in BOOLEAN :
               /\ stages' = IF left THEN With(<<pid[c], a>>) ELSE stages
               /\ stage' = [stage EXCEPT ![c] = IF left THEN <<pid[c], a>> ELSE NoStage]
               /\ stuck' = [stuck EXCEPT ![c] = left]
          /\ Ends(c, "err")
     \/ Ends(c, "err") /\ UNCHANGED <<stages, stage, stuck>>
  /\ UNCHANGED <<dest, pid, written, torn, moves>>

Staged(c) == IF stage[c] \in DOMAIN stages THEN stages[stage[c]] ELSE {}

\* materialize and write_distribution_authorities, one part at a time: a file
\* exists before all its bytes do.
Write(c) ==
  /\ pc[c] = "write"
  /\ LET part == Parts[written[c] + 1] IN
     \/ /\ File(c, part, FALSE) \notin Staged(c) /\ stage[c] \in DOMAIN stages
        /\ stages' = [stages EXCEPT ![stage[c]] = @ \cup {File(c, part, FALSE)}]
        /\ UNCHANGED <<pc, written>>
     \/ /\ File(c, part, FALSE) \in Staged(c)
        /\ stages' = [stages EXCEPT ![stage[c]] =
                        (@ \ {File(c, part, FALSE)}) \cup {File(c, part, TRUE)}]
        /\ written' = [written EXCEPT ![c] = @ + 1]
        /\ pc' = [pc EXCEPT ![c] = IF written[c] + 1 = Len(Parts) THEN "rename" ELSE "write"]
     \/ Goes(c, "write", "cleanup") /\ UNCHANGED <<stages, written>>
  /\ UNCHANGED <<dest, pid, stage, result, torn, stuck, moves>>

\* rename(2): onto nothing or an empty directory, else it fails.
Rename(c) ==
  /\ \/ /\ Free(dest) /\ pc[c] = "rename" /\ Ends(c, "ok")
        /\ dest' = Dir(Staged(c)) /\ stages' = Without(stage[c])
     \/ Goes(c, "rename", "cleanup") /\ UNCHANGED <<dest, stages, result>>
  /\ UNCHANGED <<pid, stage, written, torn, stuck, moves>>

\* Mutant: the error returns before the stage is removed.
CleanupNothing(c) ==
  /\ pc[c] = "cleanup" /\ Ends(c, "err")
  /\ UNCHANGED <<dest, stages, pid, stage, written, torn, stuck, moves>>

\* remove_dir_all on the failed stage: its contents go in the order of the
\* directory, which is any order, then the directory; it may fail at any of them.
Cleanup(c) ==
  /\ pc[c] = "cleanup"
  /\ \/ /\ \E f \in Staged(c) : stages' = [stages EXCEPT ![stage[c]] = @ \ {f}]
        /\ torn' = [torn EXCEPT ![c] = TRUE] /\ UNCHANGED <<pc, result, stuck>>
     \/ /\ Staged(c) = {} /\ stages' = Without(stage[c]) /\ Ends(c, "err")
        /\ UNCHANGED <<torn, stuck>>
     \/ /\ stuck' = [stuck EXCEPT ![c] = TRUE] /\ Ends(c, "err")
        /\ UNCHANGED <<stages, torn>>
  /\ UNCHANGED <<dest, pid, stage, written, moves>>

Creator(c) == Inputs(c) \/ Inspect(c) \/ Reserve(c) \/ Write(c) \/ Rename(c) \/ Cleanup(c)

\* SIGKILL, or Ctrl-C: `new` installs no handler.
Killed(c) ==
  /\ pc[c] # "done" /\ Ends(c, "killed")
  /\ UNCHANGED <<dest, stages, pid, stage, written, torn, stuck, moves>>

\* The user makes, fills, empties or removes the destination.
User ==
  /\ moves < UserActions /\ moves' = moves + 1
  /\ \/ dest = Absent /\ dest' \in {Dir({}), AFile}
     \/ dest.kind = "dir" /\ dest' = Dir(dest.files \cup {Theirs})
     \/ dest # Absent /\ dest' = Absent
  /\ UNCHANGED <<stages, pid, pc, stage, written, result, torn, stuck>>

Next == User \/ \E c \in Creators : Creator(c) \/ Killed(c)

Spec == Init /\ [][Next]_vars

-----------------------------------------------------------------------------
(* Properties.                                                               *)

\* verify_workspace, as far as a new directory goes: every part that the
\* Distribution owns is there, whole, and nothing else is checked.
Verifies(files) == \E c \in Creators : \A p \in Verified : File(c, p, TRUE) \in files

\* Nobody but the user changes a destination, except that one creator's whole
\* workspace, never a part of one nor a mixture of two, takes the place of
\* nothing or of an empty directory, whoever was killed at any point.
DestinationKept ==
  [][dest' # dest /\ moves' = moves =>
       Free(dest) /\ \E c \in Creators : dest' = Dir(Complete(c))]_vars

\* A creator that ended by itself left no stage behind, unless the removal
\* failed; a stage that exists is one creator's, running or killed.
NoDebris ==
  \A n \in DOMAIN stages :
    \E c \in Creators : /\ stage[c] = n /\ (stuck[c] \/ result[c] \in {"-", "killed"})
                        /\ \A f \in stages[n] : f.by = c

\* What passes verification is a complete workspace: a stage, however far its
\* creator got before it failed or was killed, because the inventory is written
\* last and vouches for the product files that are not verified; and what a
\* creator put at the destination.  Only a stage whose removal was cut off is
\* exempt: it can have lost any of its files before it loses the inventory.
VerifiedMeansComplete ==
  /\ \A n \in DOMAIN stages : Verifies(stages[n]) =>
       \E c \in Creators : /\ stages[n] \subseteq Complete(c)
                           /\ stages[n] = Complete(c) \/ torn[c]
  /\ Verifies(dest.files) => \E c \in Creators : Complete(c) \subseteq dest.files
=============================================================================

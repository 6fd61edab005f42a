----------------------- MODULE WorkspaceCreationProofs -----------------------
(* What holds of `yydra new` for every number of creators, process ids and   *)
(* names, and whatever the user does: a stage has one owner who alone writes *)
(* and removes it, so no mixture of two workspaces and no part of one ever   *)
(* reaches a destination.                                                    *)
EXTENDS WorkspaceCreation, TLAPS

-----------------------------------------------------------------------------
(* The inductive invariant.                                                  *)

\* A creator whose stage is there: it runs, was killed, or could not remove it.
Holds(c) == stage[c] # NoStage /\ (stuck[c] \/ result[c] \in {"-", "killed"})

\* What creator c wrote as far as whole parts go.
Whole(c) == {File(c, Parts[i], TRUE) : i \in 1..written[c]}

\* Where a creator is, and what it has reserved and written by then.
Before == {"inputs", "inspect", "reserve"}
Within == {"write", "rename", "cleanup"}
Place(c) ==
  /\ pc[c] \in Before => stage[c] = NoStage /\ written[c] = 0
  /\ pc[c] \in Within => stage[c] # NoStage
  /\ pc[c] = "done" <=> result[c] # "-"
  /\ pc[c] = "write" => written[c] < 4
  /\ pc[c] = "rename" => written[c] = 4
  /\ stuck[c] => result[c] = "err"
  /\ torn[c] => pc[c] \in {"cleanup", "done"} /\ result[c] # "ok"
PlaceInv == \A c \in Creators : Place(c)

\* A stage is of the one creator that reserved its name ...
OwnerInv ==
  /\ \A n \in DOMAIN stages : \E c \in Creators : stage[c] = n /\ Holds(c)
  /\ \A c \in Creators : Holds(c) => stage[c] \in DOMAIN stages
  /\ \A c, d \in Creators : Holds(c) /\ Holds(d) /\ stage[c] = stage[d] => c = d

\* ... and has what that one wrote, whole parts and perhaps some of the next,
\* or what removing it has left of that.
Part(c) == File(c, Parts[written[c] + 1], FALSE)
Made(c) ==
  \/ stages[stage[c]] = Whole(c)
  \/ written[c] < 4 /\ stages[stage[c]] = Whole(c) \cup {Part(c)}
Left(c) ==
  \/ stages[stage[c]] \subseteq Whole(c)
  \/ written[c] < 4 /\ stages[stage[c]] \subseteq Whole(c) \cup {Part(c)}
Content(c) == IF torn[c] THEN Left(c) ELSE Made(c)
ContentInv == \A c \in Creators : Holds(c) => Content(c)

\* What verifies at the destination is one creator's, whatever the user added.
DestInv == Verifies(dest.files) => \E c \in Creators : Complete(c) \subseteq dest.files

IInv == TypeOK /\ PlaceInv /\ OwnerInv /\ ContentInv /\ DestInv

-----------------------------------------------------------------------------
(* The parts, and the names.                                                 *)

LEMMA PartsFacts ==
  /\ Len(Parts) = 4 /\ Parts[1] = "origin" /\ Parts[2] = "product"
  /\ Parts[3] = "licenses" /\ Parts[4] = "inventory"
  /\ Range(Parts) = {Parts[i] : i \in 1..4}
<1>1. /\ Len(Parts) = 4 /\ Parts[1] = "origin" /\ Parts[2] = "product"
      /\ Parts[3] = "licenses" /\ Parts[4] = "inventory" /\ DOMAIN Parts = 1..4
  BY DEF Parts
<1> HIDE DEF Parts
<1>2. Range(Parts) = {Parts[i] : i \in 1..4}
  BY <1>1 DEF Range
<1> QED
  BY <1>1, <1>2

\* A creator that wrote all parts has a complete workspace.
LEMMA AllWritten ==
  ASSUME NEW c \in Creators, written[c] = Len(Parts)
  PROVE  Whole(c) = Complete(c)
BY PartsFacts DEF Whole, Complete

LEMMA NoName == NoStage \notin Names
<1>1. ASSUME NEW n \in Names PROVE Len(n) = 2
  BY DEF Names
<1>2. Len(NoStage) = 1
  BY DEF NoStage
<1> QED
  BY <1>1, <1>2

\* Creator c reserves the name n, which nobody had.
Takes(c, n) ==
  /\ n \notin DOMAIN stages /\ n # NoStage
  /\ DOMAIN stages' = DOMAIN stages \cup {n} /\ stages'[n] = {}
  /\ \A m \in DOMAIN stages : stages'[m] = stages[m]
  /\ stage'[c] = n /\ stage' \in [Creators -> Names \cup {NoStage}]

\* A name is taken, and kept even if its mode cannot be set, or none is.
LEMMA ReserveEffect ==
  ASSUME TypeOK, NEW c \in Creators, stage[c] = NoStage, ~stuck[c], Reserve(c)
  PROVE  /\ pc[c] = "reserve" /\ UNCHANGED <<dest, pid, written, torn, moves>>
         /\ \/ /\ stages' = stages /\ stage' = stage /\ stuck' = stuck /\ Ends(c, "err")
            \/ /\ \E n \in Names : Takes(c, n)
               /\ \/ Goes(c, "reserve", "write") /\ UNCHANGED <<result, stuck>>
                  \/ Ends(c, "err") /\ stuck' = [stuck EXCEPT ![c] = TRUE]
<1> DEFINE name(a) == <<pid[c], a>>
<1>1. \A a \in Untried(c) : name(a) \in Names /\ name(a) \notin DOMAIN stages
  BY DEF Untried, Tried, Names, TypeOK
<1>2. ASSUME NEW a \in Untried(c), stages' = With(name(a)), stage' = [stage EXCEPT ![c] = name(a)]
      PROVE  Takes(c, name(a))
  <2>1. name(a) \in Names /\ name(a) \notin DOMAIN stages /\ name(a) # NoStage
    BY <1>1, NoName
  <2> HIDE DEF name
  <2>2. /\ DOMAIN stages' = DOMAIN stages \cup {name(a)} /\ stages'[name(a)] = {}
        /\ \A m \in DOMAIN stages : stages'[m] = stages[m]
    BY <1>2, <2>1 DEF With
  <2>3. stage'[c] = name(a) /\ stage' \in [Creators -> Names \cup {NoStage}]
    BY <1>2, <2>1 DEF TypeOK
  <2> QED
    BY <2>1, <2>2, <2>3 DEF Takes
<1>3. pc[c] = "reserve" /\ UNCHANGED <<dest, pid, written, torn, moves>>
  BY DEF Reserve
<1>4. CASE \E a \in Untried(c) :
             /\ stages' = With(name(a)) /\ stage' = [stage EXCEPT ![c] = name(a)]
             /\ Goes(c, "reserve", "write") /\ UNCHANGED <<result, stuck>>
  BY <1>1, <1>2, <1>3, <1>4
<1>5. CASE \E a \in Untried(c) :
             /\ stages' = With(name(a)) /\ stage' = [stage EXCEPT ![c] = name(a)]
             /\ stuck' = [stuck EXCEPT ![c] = TRUE] /\ Ends(c, "err")
  BY <1>1, <1>2, <1>3, <1>5
<1>6. CASE /\ stages' = stages /\ stage' = [stage EXCEPT ![c] = NoStage]
           /\ stuck' = [stuck EXCEPT ![c] = FALSE] /\ Ends(c, "err")
  <2>1. stage' = stage /\ stuck' = stuck
    BY <1>6 DEF TypeOK
  <2> QED
    BY <1>3, <1>6, <2>1
<1>7. CASE Ends(c, "err") /\ UNCHANGED <<stages, stage, stuck>>
  BY <1>3, <1>7
<1> QED
  BY <1>4, <1>5, <1>6, <1>7 DEF Reserve

-----------------------------------------------------------------------------
(* A step changes what its creator owns.                                     *)

\* Creators other than c, and what c holds, before a step of c.
LEMMA OthersKept ==
  ASSUME TypeOK, NEW c \in Creators, Creator(c) \/ Killed(c)
  PROVE  /\ UNCHANGED <<pid, moves>>
         /\ \A d \in Creators \ {c} :
              /\ pc'[d] = pc[d] /\ stage'[d] = stage[d] /\ written'[d] = written[d]
              /\ result'[d] = result[d] /\ stuck'[d] = stuck[d] /\ torn'[d] = torn[d]
<1>1. CASE Inputs(c) \/ Inspect(c) \/ Killed(c)
  BY <1>1 DEF Inputs, Inspect, Killed, Goes, Ends, TypeOK
<1>2. CASE Reserve(c)
  BY <1>2 DEF Reserve, Goes, Ends, TypeOK
<1>3. CASE Write(c)
  BY <1>3 DEF Write, Goes, Ends, TypeOK
<1>4. CASE Rename(c) \/ Cleanup(c)
  BY <1>4 DEF Rename, Cleanup, Goes, Ends, TypeOK
<1> QED
  BY <1>1, <1>2, <1>3, <1>4 DEF Creator

\* Where a creator that is about to reserve, or holds a stage, stands.
LEMMA Standing ==
  ASSUME IInv, NEW c \in Creators
  PROVE  /\ pc[c] = "reserve" => stage[c] = NoStage /\ ~stuck[c] /\ written[c] = 0
         /\ pc[c] \in {"write", "rename"} => ~torn[c]
         /\ pc[c] \in Within =>
              Holds(c) /\ ~stuck[c] /\ stage[c] \in Names /\ stage[c] \in DOMAIN stages
BY DEF IInv, TypeOK, PlaceInv, Place, OwnerInv, Before, Within, Holds

\* The whole of a part is written, or some of it, or writing fails.
WritesSome(c) ==
  /\ pc' = pc /\ written' = written
  /\ stages'[stage[c]] = stages[stage[c]] \cup {File(c, Parts[written[c] + 1], FALSE)}
WritesRest(c) ==
  /\ pc'[c] = IF written[c] + 1 = 4 THEN "rename" ELSE "write"
  /\ written' = [written EXCEPT ![c] = written[c] + 1]
  /\ File(c, Parts[written[c] + 1], FALSE) \in stages[stage[c]]
  /\ stages'[stage[c]] = (stages[stage[c]] \ {File(c, Parts[written[c] + 1], FALSE)})
                           \cup {File(c, Parts[written[c] + 1], TRUE)}
LEMMA WriteEffect ==
  ASSUME IInv, NEW c \in Creators, Write(c)
  PROVE  /\ pc[c] = "write" /\ UNCHANGED <<dest, pid, stage, result, torn, stuck, moves>>
         /\ written[c] \in 0..3
         /\ \/ Goes(c, "write", "cleanup") /\ stages' = stages /\ written' = written
            \/ /\ DOMAIN stages' = DOMAIN stages
               /\ \A m \in DOMAIN stages : m # stage[c] => stages'[m] = stages[m]
               /\ WritesSome(c) \/ WritesRest(c)
<1>1. pc[c] = "write" /\ UNCHANGED <<dest, pid, stage, result, torn, stuck, moves>>
  BY DEF Write
<1>2. written[c] \in 0..3 /\ stage[c] \in DOMAIN stages
  BY <1>1, PartsFacts, Standing DEF IInv, TypeOK, PlaceInv, Place, Within
<1>3. Staged(c) = stages[stage[c]]
  BY <1>2 DEF Staged
<1>4. CASE Goes(c, "write", "cleanup") /\ UNCHANGED <<stages, written>>
  BY <1>1, <1>2, <1>4
<1> DEFINE some == File(c, Parts[written[c] + 1], FALSE)
           all  == File(c, Parts[written[c] + 1], TRUE)
<1>5. CASE /\ stages' = [stages EXCEPT ![stage[c]] = stages[stage[c]] \cup {some}]
           /\ UNCHANGED <<pc, written>>
  BY <1>1, <1>2, <1>5 DEF WritesSome
<1>6. CASE /\ some \in Staged(c)
           /\ stages' = [stages EXCEPT ![stage[c]] = (stages[stage[c]] \ {some}) \cup {all}]
           /\ written' = [written EXCEPT ![c] = written[c] + 1]
           /\ pc' = [pc EXCEPT ![c] = IF written[c] + 1 = Len(Parts) THEN "rename" ELSE "write"]
  <2>1. pc'[c] = IF written[c] + 1 = 4 THEN "rename" ELSE "write"
    BY <1>6, PartsFacts DEF IInv, TypeOK
  <2>2. WritesRest(c)
    BY <1>2, <1>3, <1>6, <2>1 DEF WritesRest
  <2> QED
    BY <1>1, <1>2, <1>6, <2>2
<1> QED
  BY <1>4, <1>5, <1>6 DEF Write

\* A stage goes onto the destination, or is removed, or stays.
LEMMA RemoveEffect ==
  ASSUME NEW n, n \in DOMAIN stages, stages' = Without(n)
  PROVE  /\ DOMAIN stages' = DOMAIN stages \ {n}
         /\ \A m \in DOMAIN stages : m # n => stages'[m] = stages[m]
BY DEF Without

\* The stage loses a file, or is removed, or stays as it is.
LosesSome(c) ==
  /\ DOMAIN stages' = DOMAIN stages
  /\ \A m \in DOMAIN stages : m # stage[c] => stages'[m] = stages[m]
  /\ stages'[stage[c]] \subseteq stages[stage[c]]
  /\ torn' = [torn EXCEPT ![c] = TRUE] /\ UNCHANGED <<pc, result, stuck>>
LEMMA CleanupEffect ==
  ASSUME IInv, NEW c \in Creators, Cleanup(c)
  PROVE  /\ pc[c] = "cleanup" /\ UNCHANGED <<dest, pid, stage, written, moves>>
         /\ \/ LosesSome(c)
            \/ stages' = Without(stage[c]) /\ Ends(c, "err") /\ UNCHANGED <<torn, stuck>>
            \/ /\ stages' = stages /\ torn' = torn /\ Ends(c, "err")
               /\ stuck' = [stuck EXCEPT ![c] = TRUE]
<1>1. pc[c] = "cleanup" /\ UNCHANGED <<dest, pid, stage, written, moves>>
  BY DEF Cleanup
<1>2. stage[c] \in DOMAIN stages /\ Staged(c) = stages[stage[c]]
  BY <1>1, Standing DEF Within, Staged
<1>3. CASE /\ \E f \in Staged(c) : stages' = [stages EXCEPT ![stage[c]] = @ \ {f}]
           /\ torn' = [torn EXCEPT ![c] = TRUE] /\ UNCHANGED <<pc, result, stuck>>
  BY <1>1, <1>2, <1>3 DEF LosesSome
<1> QED
  BY <1>1, <1>3 DEF Cleanup

LEMMA TypeStep ==
  ASSUME IInv, NEW c \in Creators, Creator(c) \/ Killed(c)
  PROVE  TypeOK'
<1> USE DEF IInv
<1>1. CASE Inputs(c) \/ Inspect(c) \/ Killed(c)
  BY <1>1 DEF Inputs, Inspect, Killed, Goes, Ends, TypeOK
<1>2. CASE Reserve(c)
  <2>1. pc[c] = "reserve"
    BY <1>2 DEF Reserve
  <2>2. DOMAIN stages' \subseteq Names /\ stage' \in [Creators -> Names \cup {NoStage}]
    <3>1. TypeOK /\ stage[c] = NoStage /\ ~stuck[c]
      BY <2>1, Standing DEF IInv
    <3>2. \/ stages' = stages /\ stage' = stage
          \/ \E n \in Names : Takes(c, n)
      BY <1>2, <3>1, ReserveEffect
    <3>3. CASE stages' = stages /\ stage' = stage
      BY <3>1, <3>3 DEF TypeOK
    <3>4. ASSUME NEW n \in Names, Takes(c, n)
          PROVE  DOMAIN stages' \subseteq Names /\ stage' \in [Creators -> Names \cup {NoStage}]
      BY <3>1, <3>4 DEF Takes, TypeOK
    <3> QED
      BY <3>2, <3>3, <3>4
  <2> QED
    <3>1. /\ pc' \in [Creators -> {"inputs", "inspect", "reserve", "write", "rename", "cleanup", "done"}]
          /\ result' \in [Creators -> {"-", "ok", "err", "killed"}]
          /\ stuck' \in [Creators -> BOOLEAN]
      BY <1>2, <2>1, ReserveEffect, Standing DEF Goes, Ends, TypeOK, IInv
    <3>2. UNCHANGED <<dest, pid, written, torn, moves>>
      BY <1>2 DEF Reserve
    <3> QED
      BY <2>2, <3>1, <3>2 DEF TypeOK
<1>3. CASE Write(c)
  <2>1. DOMAIN stages' \subseteq Names
    BY <1>3, WriteEffect DEF TypeOK
  <2>2. written' \in [Creators -> 0..4]
    <3>1. written \in [Creators -> 0..4] /\ written[c] \in 0..3
      BY <1>3, WriteEffect, PartsFacts DEF TypeOK
    <3>2. written' = written \/ written' = [written EXCEPT ![c] = written[c] + 1]
      BY <1>3, WriteEffect DEF WritesSome, WritesRest
    <3> QED
      BY <3>1, <3>2
  <2>3. pc' \in [Creators -> {"inputs", "inspect", "reserve", "write", "rename", "cleanup", "done"}]
    BY <1>3 DEF Write, Goes, TypeOK
  <2> QED
    BY <1>3, <2>1, <2>2, <2>3, WriteEffect, PartsFacts DEF TypeOK
<1>4. CASE Rename(c)
  <2>1. dest'.kind \in {"absent", "file", "dir"}
    BY <1>4 DEF Rename, Dir, TypeOK
  <2>2. DOMAIN stages' \subseteq DOMAIN stages
    BY <1>4 DEF Rename, Without
  <2> QED
    BY <1>4, <2>1, <2>2 DEF Rename, Goes, Ends, TypeOK
<1>5. CASE Cleanup(c)
  <2>1. DOMAIN stages' \subseteq DOMAIN stages
    BY <1>5, CleanupEffect DEF LosesSome, Without
  <2> QED
    BY <1>5, <2>1 DEF Cleanup, Goes, Ends, TypeOK
<1> QED
  BY <1>1, <1>2, <1>3, <1>4, <1>5 DEF Creator

LEMMA PlaceStep ==
  ASSUME IInv, NEW c \in Creators, Creator(c) \/ Killed(c)
  PROVE  PlaceInv'
<1>1. ASSUME NEW d \in Creators \ {c}
      PROVE  Place(d)'
  BY <1>1, OthersKept DEF IInv, PlaceInv, Place
<1>2. Place(c) /\ TypeOK
  BY DEF IInv, PlaceInv
<1>3. Place(c)'
  <2>1. CASE Inputs(c) \/ Inspect(c) \/ Killed(c)
    BY <1>2, <2>1 DEF Inputs, Inspect, Killed, Goes, Ends, TypeOK, Place, Before, Within
  <2>2. CASE Reserve(c)
    <3>1. /\ pc[c] = "reserve" /\ result[c] = "-" /\ written[c] = 0 /\ ~stuck[c]
          /\ ~torn[c] /\ torn' = torn
      BY <1>2, <2>2, Standing DEF Reserve, Place
    <3>2. CASE stages' = stages /\ stage' = stage /\ stuck' = stuck /\ Ends(c, "err")
      BY <1>2, <3>1, <3>2 DEF Ends, TypeOK, Place, Before, Within
    <3>3. CASE \E n \in Names : Takes(c, n)
      <4>1. stage'[c] # NoStage /\ written' = written
        BY <2>2, <3>3 DEF Takes, Reserve
      <4>2. \/ pc'[c] = "write" /\ result'[c] = "-" /\ ~stuck'[c]
            \/ pc'[c] = "done" /\ result'[c] = "err"
        BY <1>2, <2>2, <3>1 DEF Reserve, Goes, Ends, TypeOK
      <4> QED
        BY <3>1, <4>1, <4>2 DEF Place, Before, Within
    <3> QED
      BY <1>2, <2>2, <3>1, <3>2, <3>3, ReserveEffect, Standing
  <2>3. CASE Write(c)
    <3>1. /\ pc[c] = "write" /\ written[c] \in 0..3
          /\ UNCHANGED <<stage, result, torn, stuck>>
      BY <2>3, WriteEffect
    <3>2. stage[c] # NoStage /\ result[c] = "-" /\ ~stuck[c] /\ ~torn[c]
      BY <1>2, <3>1 DEF Place, Within
    <3>3. \/ Goes(c, "write", "cleanup") \/ WritesSome(c) \/ WritesRest(c)
      BY <2>3, WriteEffect
    <3>4. CASE Goes(c, "write", "cleanup")
      BY <1>2, <3>1, <3>2, <3>4 DEF Goes, TypeOK, Place, Before, Within
    <3>5. CASE WritesSome(c)
      BY <3>1, <3>2, <3>5 DEF WritesSome, Place, Before, Within
    <3>6. CASE WritesRest(c)
      <4>1. written'[c] = written[c] + 1 /\ pc'[c] = IF written[c] + 1 = 4 THEN "rename" ELSE "write"
        BY <1>2, <3>6 DEF WritesRest, TypeOK
      <4> QED
        BY <3>1, <3>2, <4>1 DEF Place, Before, Within
    <3> QED
      BY <3>3, <3>4, <3>5, <3>6
  <2>4. CASE Rename(c)
    BY <1>2, <2>4 DEF Rename, Goes, Ends, TypeOK, Place, Before, Within
  <2>5. CASE Cleanup(c)
    BY <1>2, <2>5, CleanupEffect DEF LosesSome, Ends, TypeOK, Place, Before, Within
  <2> QED
    BY <2>1, <2>2, <2>3, <2>4, <2>5 DEF Creator
<1> QED
  BY <1>1, <1>3 DEF PlaceInv

\* A creator that does not reserve, write or remove keeps the stages.
LEMMA Disturbs ==
  ASSUME IInv, NEW c \in Creators, Creator(c) \/ Killed(c)
  PROVE  \/ UNCHANGED <<stages, stage, written, torn>>
         \/ Reserve(c) /\ \E n \in Names : Takes(c, n)
         \/ Write(c)
         \/ Cleanup(c) /\ LosesSome(c)
         \/ /\ Rename(c) \/ Cleanup(c)
            /\ stages' = Without(stage[c]) /\ UNCHANGED <<stage, written, torn>>
<1>1. CASE Inputs(c) \/ Inspect(c) \/ Killed(c)
  BY <1>1 DEF Inputs, Inspect, Killed
<1>2. CASE Reserve(c)
  <2>1. TypeOK /\ stage[c] = NoStage /\ ~stuck[c]
    BY <1>2, Standing DEF Reserve, IInv
  <2> QED
    BY <1>2, <2>1, ReserveEffect
<1>3. CASE Rename(c)
  BY <1>3 DEF Rename
<1>4. CASE Cleanup(c)
  BY <1>4, CleanupEffect
<1> QED
  BY <1>1, <1>2, <1>3, <1>4 DEF Creator
-----------------------------------------------------------------------------
(* A stage has one owner, and holds what that one wrote.                     *)

\* What one creator's step leaves of who holds what.
LEMMA HoldsKept ==
  ASSUME IInv, NEW c \in Creators, Creator(c) \/ Killed(c), NEW d \in Creators \ {c}
  PROVE  (Holds(d)' <=> Holds(d)) /\ stage'[d] = stage[d]
BY OthersKept DEF IInv, Holds

\* The actions that leave the stages alone leave who holds them alone, too.
LEMMA HolderStays ==
  ASSUME IInv, NEW c \in Creators, Creator(c) \/ Killed(c),
         UNCHANGED <<stages, stage, torn>>
  PROVE  Holds(c)' <=> Holds(c)
<1>1. TypeOK /\ Place(c)
  BY DEF IInv, PlaceInv
<1>2. CASE stage[c] = NoStage
  BY <1>2 DEF Holds
<1>3. CASE Inputs(c) \/ Inspect(c)
  <2>1. stage[c] = NoStage
    BY <1>1, <1>3 DEF Inputs, Inspect, Goes, Place, Before
  <2> QED
    BY <2>1 DEF Holds
<1>4. CASE Killed(c)
  BY <1>1, <1>4 DEF Killed, Ends, TypeOK, Place, Holds
<1>5. CASE Reserve(c)
  <2>1. stage[c] = NoStage
    BY <1>1, <1>5 DEF Reserve, Place, Before
  <2> QED
    BY <2>1 DEF Holds
<1>6. CASE Write(c)
  BY <1>6 DEF Write, Holds
<1>7. CASE Rename(c) \/ Cleanup(c)
  <2>1. pc[c] \in Within
    BY <1>7 DEF Rename, Cleanup, Goes, Within
  <2>2. stage[c] \in DOMAIN stages /\ result[c] = "-"
    BY <1>1, <2>1, Standing DEF Place, Within
  <2>3. stages' # Without(stage[c])
    BY <2>2 DEF Without
  <2>4. CASE Rename(c)
    BY <2>3, <2>4 DEF Rename, Holds
  <2>5. CASE Cleanup(c)
    <3>1. LosesSome(c) \/ stuck'[c]
      BY <1>1, <2>3, <2>5, CleanupEffect DEF TypeOK
    <3> QED
      BY <2>2, <3>1 DEF Holds, LosesSome
  <2> QED
    BY <1>7, <2>4, <2>5
<1> QED
  BY <1>3, <1>4, <1>5, <1>6, <1>7 DEF Creator

\* A creator that takes a name holds it; one whose stage went holds none.
LEMMA TakerHolds ==
  ASSUME IInv, NEW c \in Creators, Reserve(c), NEW n \in Names, Takes(c, n)
  PROVE  /\ Holds(c)' /\ stage'[c] = n /\ ~Holds(c) /\ written[c] = 0 /\ written' = written
         /\ ~torn[c] /\ torn' = torn
<1>1. pc[c] = "reserve" /\ written' = written /\ torn' = torn
  BY DEF Reserve
<1>2. /\ TypeOK /\ stage[c] = NoStage /\ ~stuck[c] /\ result[c] = "-" /\ written[c] = 0
      /\ ~torn[c]
  BY <1>1, Standing DEF IInv, PlaceInv, Place
<1>3. stage'[c] = n /\ stage' # stage /\ n # NoStage
  BY <1>2 DEF Takes
<1>4. stuck'[c] \/ result'[c] = "-"
  BY <1>2, <1>3, ReserveEffect DEF TypeOK
<1> QED
  BY <1>1, <1>2, <1>3, <1>4 DEF Holds

LEMMA RemoverHolds ==
  ASSUME IInv, NEW c \in Creators, Rename(c) \/ Cleanup(c), stages' = Without(stage[c])
  PROVE  Holds(c) /\ ~Holds(c)' /\ stage[c] \in DOMAIN stages
<1>1. pc[c] \in Within
  BY DEF Rename, Cleanup, Goes, Within
<1>2. TypeOK /\ Holds(c) /\ ~stuck[c] /\ stage[c] \in DOMAIN stages
  BY <1>1, Standing DEF IInv
<1>3. stages' # stages
  BY <1>2 DEF Without
<1>4. result'[c] \in {"ok", "err"} /\ ~stuck'[c]
  <2>1. CASE Rename(c)
    BY <1>2, <1>3, <2>1 DEF Rename, Ends, TypeOK
  <2>2. CASE Cleanup(c)
    <3>1. ~LosesSome(c)
      BY <1>2 DEF LosesSome, Without
    <3> QED
      BY <1>2, <1>3, <2>2, <3>1, CleanupEffect DEF Ends, TypeOK
  <2> QED
    BY <2>1, <2>2
<1> QED
  BY <1>2, <1>4 DEF Holds

LEMMA OwnerStep ==
  ASSUME IInv, NEW c \in Creators, Creator(c) \/ Killed(c)
  PROVE  OwnerInv'
<1>1. OwnerInv /\ \A d \in Creators \ {c} : (Holds(d)' <=> Holds(d)) /\ stage'[d] = stage[d]
  BY HoldsKept DEF IInv
<1>2. CASE DOMAIN stages' = DOMAIN stages /\ stage'[c] = stage[c] /\ (Holds(c)' <=> Holds(c))
  BY <1>1, <1>2 DEF OwnerInv
<1>3. CASE UNCHANGED <<stages, stage, torn>>
  BY <1>2, <1>3, HolderStays
<1>4. ASSUME Reserve(c), NEW n \in Names, Takes(c, n)
      PROVE  OwnerInv'
  <2>1. Holds(c)' /\ stage'[c] = n /\ ~Holds(c)
    BY <1>4, TakerHolds
  <2>2. n \notin DOMAIN stages /\ DOMAIN stages' = DOMAIN stages \cup {n}
    BY <1>4 DEF Takes
  <2> QED
    BY <1>1, <2>1, <2>2 DEF OwnerInv
<1>5. CASE Write(c)
  <2>1. DOMAIN stages' = DOMAIN stages /\ stage' = stage /\ result' = result /\ stuck' = stuck
    BY <1>5, WriteEffect
  <2> QED
    BY <1>2, <2>1 DEF Holds
<1>7. CASE Cleanup(c) /\ LosesSome(c)
  <2>1. DOMAIN stages' = DOMAIN stages /\ stage' = stage /\ result' = result /\ stuck' = stuck
    BY <1>7, CleanupEffect DEF LosesSome
  <2> QED
    BY <1>2, <2>1 DEF Holds
<1>6. CASE (Rename(c) \/ Cleanup(c)) /\ stages' = Without(stage[c]) /\ stage' = stage
  <2>1. Holds(c) /\ ~Holds(c)' /\ stage[c] \in DOMAIN stages
    BY <1>6, RemoverHolds
  <2>2. DOMAIN stages' = DOMAIN stages \ {stage[c]}
    BY <1>6, <2>1, RemoveEffect
  <2> QED
    BY <1>1, <2>1, <2>2 DEF OwnerInv
<1> QED
  BY <1>3, <1>4, <1>5, <1>6, <1>7, Disturbs

LEMMA ContentOther ==
  ASSUME IInv, NEW c \in Creators, Creator(c) \/ Killed(c),
         NEW d \in Creators \ {c}, Holds(d)'
  PROVE  Content(d)'
<1>1. /\ Holds(d) /\ stage'[d] = stage[d] /\ written'[d] = written[d]
      /\ torn'[d] = torn[d] /\ stage[d] \in DOMAIN stages /\ Content(d)
  BY HoldsKept, OthersKept DEF IInv, OwnerInv, ContentInv
<1>2. stages'[stage[d]] = stages[stage[d]]
  <2>1. CASE stages' = stages
    BY <2>1
  <2>2. ASSUME NEW n \in Names, Takes(c, n) PROVE stages'[stage[d]] = stages[stage[d]]
    BY <1>1, <2>2 DEF Takes
  <2>3. Holds(c) => stage[c] # stage[d]
    BY <1>1 DEF IInv, OwnerInv
  <2>4. CASE Write(c)
    <3>1. Holds(c)
      BY <2>4, WriteEffect, Standing DEF Within
    <3> QED
      BY <1>1, <2>3, <2>4, <3>1, WriteEffect
  <2>5. CASE (Rename(c) \/ Cleanup(c)) /\ stages' = Without(stage[c])
    BY <1>1, <2>3, <2>5, RemoverHolds, RemoveEffect
  <2>6. CASE Cleanup(c) /\ LosesSome(c)
    <3>1. Holds(c)
      BY <2>6, CleanupEffect, Standing DEF Within
    <3> QED
      BY <1>1, <2>3, <2>6, <3>1 DEF LosesSome
  <2> QED
    BY <2>1, <2>2, <2>4, <2>5, <2>6, Disturbs
<1>3. Whole(d)' = Whole(d) /\ Part(d)' = Part(d)
  BY <1>1 DEF Whole, Part
<1> QED
  BY <1>1, <1>2, <1>3 DEF Content, Made, Left

LEMMA WholeGrows ==
  ASSUME NEW c \in Creators, written[c] \in 0..3, written'[c] = written[c] + 1
  PROVE  Whole(c)' = Whole(c) \cup {File(c, Parts[written[c] + 1], TRUE)}
<1>1. 1..(written[c] + 1) = (1..written[c]) \cup {written[c] + 1}
  OBVIOUS
<1> QED
  BY <1>1 DEF Whole

LEMMA ContentOwn ==
  ASSUME IInv, NEW c \in Creators, Creator(c) \/ Killed(c), Holds(c)'
  PROVE  Content(c)'
<1>1. TypeOK /\ (Holds(c) => Content(c))
  BY DEF IInv, ContentInv
<1>2. CASE UNCHANGED <<stages, stage, written, torn>>
  <2>1. Content(c)
    BY <1>1, <1>2, HolderStays
  <2> QED
    BY <1>2, <2>1 DEF Content, Made, Left, Part, Whole
<1>3. ASSUME Reserve(c), NEW n \in Names, Takes(c, n)
      PROVE  Content(c)'
  <2>1. stage'[c] = n /\ written'[c] = 0 /\ stages'[n] = {} /\ ~torn'[c]
    BY <1>3, TakerHolds DEF Takes
  <2>2. Whole(c)' = {}
    BY <2>1 DEF Whole
  <2> QED
    BY <2>1, <2>2 DEF Content, Made
<1>4. CASE Write(c)
  <2>1. /\ written[c] \in 0..3 /\ UNCHANGED <<stage, torn>>
        /\ ~torn[c] /\ ~torn'[c] /\ Made(c)
    BY <1>1, <1>4, WriteEffect, Standing DEF Within, Content
  <2>2. \/ stages' = stages /\ written' = written
        \/ WritesSome(c) \/ WritesRest(c)
    BY <1>4, WriteEffect
  <2>3. CASE stages' = stages /\ written' = written
    BY <1>2, <2>1, <2>3
  <2>4. CASE WritesSome(c)
    <3>1. written'[c] = written[c] /\ stage'[c] = stage[c] /\ Whole(c)' = Whole(c)
      BY <2>1, <2>4 DEF WritesSome, Whole
    <3>2. stages'[stage[c]] = Whole(c) \cup {Part(c)}
      BY <2>1, <2>4 DEF WritesSome, Made, Part
    <3>3. written'[c] < 4 /\ stages'[stage'[c]] = Whole(c)' \cup {Part(c)'}
      BY <2>1, <3>1, <3>2 DEF Part
    <3> QED
      BY <2>1, <3>3 DEF Content, Made
  <2>5. CASE WritesRest(c)
    <3>1. Part(c) \notin Whole(c)
      BY DEF Whole, File, Part
    <3>2. stages[stage[c]] = Whole(c) \cup {Part(c)}
      BY <2>1, <2>5, <3>1 DEF WritesRest, Made, Part
    <3>3. written'[c] = written[c] + 1
      BY <1>1, <2>5 DEF WritesRest, TypeOK
    <3>4. stages'[stage[c]] = Whole(c) \cup {File(c, Parts[written[c] + 1], TRUE)}
      BY <2>5, <3>1, <3>2 DEF WritesRest, Part
    <3>5. stages'[stage[c]] = Whole(c)'
      BY <2>1, <3>3, <3>4, WholeGrows
    <3> QED
      BY <2>1, <3>5 DEF Content, Made
  <2> QED
    BY <2>2, <2>3, <2>4, <2>5
<1>5. CASE (Rename(c) \/ Cleanup(c)) /\ stages' = Without(stage[c])
  BY <1>5, RemoverHolds
<1>6. CASE Cleanup(c) /\ LosesSome(c)
  <2>1. /\ UNCHANGED <<stage, written>> /\ torn'[c]
        /\ stages'[stage[c]] \subseteq stages[stage[c]]
    BY <1>1, <1>6, CleanupEffect DEF LosesSome, TypeOK
  <2>2. Left(c)
    <3>1. Content(c)
      BY <1>1, <1>6, CleanupEffect, Standing DEF Within
    <3> QED
      BY <3>1 DEF Content, Made, Left
  <2>3. Whole(c)' = Whole(c) /\ Part(c)' = Part(c)
    BY <2>1 DEF Whole, Part
  <2> QED
    BY <2>1, <2>2, <2>3 DEF Content, Left
<1> QED
  BY <1>2, <1>3, <1>4, <1>5, <1>6, Disturbs

LEMMA ContentStep ==
  ASSUME IInv, NEW c \in Creators, Creator(c) \/ Killed(c)
  PROVE  ContentInv'
<1>1. \A d \in Creators : Holds(d)' => Content(d)'
  BY ContentOther, ContentOwn
<1> QED
  BY <1>1 DEF ContentInv

-----------------------------------------------------------------------------
(* What is put at the destination.                                           *)

\* Only a rename changes the destination beside its user, and it puts the whole
\* workspace of the one creator that renames in the place of nothing.
LEMMA RenameIsWhole ==
  ASSUME IInv, NEW c \in Creators, Rename(c), dest' # dest
  PROVE  Free(dest) /\ dest' = Dir(Complete(c))
<1>1. Free(dest) /\ pc[c] = "rename" /\ dest' = Dir(Staged(c))
  BY DEF Rename
<1>2. Holds(c) /\ stage[c] \in DOMAIN stages /\ written[c] = 4
  BY <1>1, Standing DEF Within, IInv, PlaceInv, Place
<1>3. Staged(c) = Whole(c)
  <2>1. Made(c)
    BY <1>1, <1>2, Standing DEF IInv, ContentInv, Content
  <2>2. ~(written[c] < 4)
    BY <1>2
  <2> QED
    BY <1>2, <2>1, <2>2 DEF Staged, Made
<1>4. Whole(c) = Complete(c)
  BY <1>2, AllWritten, PartsFacts
<1> QED
  BY <1>1, <1>3, <1>4

\* A creator leaves the destination alone, but for its rename.
LEMMA OnlyRename ==
  ASSUME NEW c \in Creators, Creator(c) \/ Killed(c), dest' # dest
  PROVE  Rename(c)
BY DEF Creator, Killed, Inputs, Inspect, Reserve, Write, Cleanup

LEMMA DestStep ==
  ASSUME IInv, NEW c \in Creators, Creator(c) \/ Killed(c)
  PROVE  DestInv'
<1>1. CASE dest' = dest
  BY <1>1 DEF IInv, DestInv, Verifies
<1>2. CASE dest' # dest
  <2>1. dest' = Dir(Complete(c))
    BY <1>2, OnlyRename, RenameIsWhole
  <2>2. dest'.files = Complete(c)
    BY <2>1 DEF Dir
  <2> QED
    BY <2>2 DEF DestInv
<1> QED
  BY <1>1, <1>2

\* Nothing of the user's makes a destination verify.
LEMMA DestUser ==
  ASSUME IInv, User
  PROVE  DestInv'
<1>1. "origin" \in Verified /\ "product" \notin Verified
  BY PartsFacts DEF Verified
<1>2. \/ dest'.files = {} \/ dest'.files = dest.files \cup {Theirs}
  BY DEF User, Absent, AFile, Dir
<1>3. ASSUME NEW c \in Creators, NEW p \in Verified, File(c, p, TRUE) \in dest'.files
      PROVE  File(c, p, TRUE) \in dest.files
  <2>1. File(c, p, TRUE).part = p /\ Theirs.part = "product"
    BY DEF File, Theirs
  <2>2. File(c, p, TRUE) # Theirs
    BY <1>1, <2>1
  <2> QED
    BY <1>2, <1>3, <2>2
<1>4. Verifies(dest.files)' => Verifies(dest.files) /\ dest.files \subseteq dest'.files
  BY <1>1, <1>2, <1>3 DEF Verifies
<1> QED
  BY <1>4 DEF IInv, DestInv

-----------------------------------------------------------------------------
(* The theorems.                                                             *)

\* The invariant is about what creators hold, not about the destination.
LEMMA Untouched ==
  ASSUME IInv, UNCHANGED <<stages, pid, pc, stage, written, result, torn, stuck>>
  PROVE  PlaceInv' /\ OwnerInv' /\ ContentInv'
<1>1. PlaceInv'
  BY DEF IInv, PlaceInv, Place
<1>2. \A c \in Creators :
        (Holds(c)' <=> Holds(c)) /\ Whole(c)' = Whole(c) /\ Part(c)' = Part(c)
  BY DEF Holds, Whole, Part
<1>3. OwnerInv'
  BY <1>2 DEF IInv, OwnerInv
<1>4. ASSUME NEW c \in Creators, Holds(c)'
      PROVE  Content(c)'
  <2>1. Content(c)
    BY <1>2, <1>4 DEF IInv, ContentInv
  <2> QED
    BY <1>2, <2>1 DEF Content, Made, Left
<1>5. ContentInv'
  BY <1>4 DEF ContentInv
<1> QED
  BY <1>1, <1>3, <1>5

\* The user changes the destination only.
LEMMA UserStep ==
  ASSUME IInv, User
  PROVE  IInv'
<1>1. UNCHANGED <<stages, pid, pc, stage, written, result, torn, stuck>>
  BY DEF User
<1>2. PlaceInv' /\ OwnerInv' /\ ContentInv'
  BY <1>1, Untouched
<1>3. dest'.kind \in {"absent", "file", "dir"}
  BY DEF User, Absent, AFile, Dir
<1>4. moves' \in 0..UserActions
  BY UserActionsAssumption DEF User, IInv, TypeOK
<1>5. DestInv'
  BY DestUser
<1> QED
  BY <1>1, <1>2, <1>3, <1>4, <1>5 DEF IInv, TypeOK

LEMMA Initially ==
  ASSUME Init
  PROVE  IInv
<1>1. TypeOK
  <2>1. dest.kind \in {"absent", "file", "dir"}
    BY DEF Init, Absent, AFile, Dir
  <2>2. DOMAIN stages \subseteq Names /\ moves \in 0..UserActions
    BY UserActionsAssumption DEF Init
  <2>3. written \in [Creators -> 0..Len(Parts)]
    BY PartsFacts DEF Init
  <2> QED
    BY <2>1, <2>2, <2>3 DEF Init, TypeOK
<1>2. \A c \in Creators : ~Holds(c)
  BY DEF Init, Holds
<1>3. PlaceInv
  BY DEF Init, PlaceInv, Place, Before, Within
<1>4. DOMAIN stages = {}
  BY DEF Init
<1>5. DestInv
  <2>1. "origin" \in Verified /\ "product" \notin Verified
    BY PartsFacts DEF Verified
  <2>2. \A f \in dest.files : f.part = "product"
    BY DEF Init, Absent, AFile, Dir, Theirs
  <2>3. \A c \in Creators : File(c, "origin", TRUE).part = "origin"
    BY DEF File
  <2>4. ~Verifies(dest.files)
    BY <2>1, <2>2, <2>3 DEF Verifies
  <2> QED
    BY <2>4 DEF DestInv
<1> QED
  BY <1>1, <1>2, <1>3, <1>4, <1>5 DEF IInv, OwnerInv, ContentInv

LEMMA Invariance == Spec => []IInv
<1>1. ASSUME IInv, [Next]_vars
      PROVE  IInv'
  <2>1. CASE User
    BY <1>1, <2>1, UserStep
  <2>2. ASSUME NEW c \in Creators, Creator(c) \/ Killed(c)
        PROVE  IInv'
    BY <1>1, <2>2, TypeStep, PlaceStep, OwnerStep, ContentStep, DestStep DEF IInv
  <2>3. CASE UNCHANGED vars
    BY <1>1, <2>3, Untouched DEF vars, IInv, TypeOK, DestInv, Verifies
  <2> QED
    BY <1>1, <2>1, <2>2, <2>3 DEF Next
<1> QED
  BY <1>1, Initially, PTL DEF Spec

\* Every variable keeps its type: a stage always has one of the names tried.
THEOREM TypeCorrect == Spec => []TypeOK
<1>1. IInv => TypeOK
  BY DEF IInv
<1> QED
  BY <1>1, Invariance, PTL

\* A stage that exists is one creator's, who runs, was killed or could not
\* remove it, and nobody else put anything into it.
THEOREM NothingLeftBehind == Spec => []NoDebris
<1>1. ASSUME IInv, NEW n \in DOMAIN stages
      PROVE  \E c \in Creators : /\ stage[c] = n /\ (stuck[c] \/ result[c] \in {"-", "killed"})
                                 /\ \A f \in stages[n] : f.by = c
  <2>1. PICK c \in Creators : stage[c] = n /\ Holds(c)
    BY <1>1 DEF IInv, OwnerInv
  <2>2. stages[n] \subseteq Whole(c) \cup {Part(c)}
    BY <1>1, <2>1 DEF IInv, ContentInv, Content, Made, Left
  <2>3. \A f \in stages[n] : f.by = c
    BY <2>2 DEF Whole, Part, File
  <2> QED
    BY <2>1, <2>3 DEF Holds
<1>2. IInv => NoDebris
  BY <1>1 DEF NoDebris
<1> QED
  BY <1>2, Invariance, PTL

\* What verifies is complete, for the inventory is written last and vouches for
\* the rest: a stage, unless its removal was cut off, and a destination.
THEOREM InventoryVouches == Spec => []VerifiedMeansComplete
<1>1. ASSUME IInv, NEW n \in DOMAIN stages, Verifies(stages[n])
      PROVE  \E c \in Creators : /\ stages[n] \subseteq Complete(c)
                                 /\ stages[n] = Complete(c) \/ torn[c]
  <2>1. PICK c \in Creators : stage[c] = n /\ Holds(c)
    BY <1>1 DEF IInv, OwnerInv
  <2>2. Content(c) /\ written[c] \in 0..4
    BY <1>1, <2>1, PartsFacts DEF IInv, ContentInv, TypeOK
  <2>3. PICK e \in Creators : File(e, "inventory", TRUE) \in stages[n]
    <3>1. "inventory" \in Verified
      BY PartsFacts DEF Verified
    <3> QED
      BY <1>1, <3>1 DEF Verifies
  <2>4. File(e, "inventory", TRUE) \in Whole(c)
    <3>1. File(e, "inventory", TRUE).whole /\ ~Part(c).whole
      BY DEF File, Part
    <3> QED
      BY <2>1, <2>2, <2>3, <3>1 DEF Content, Made, Left
  <2>5. PICK i \in 1..written[c] : Parts[i] = "inventory"
    BY <2>4 DEF Whole, File
  <2>6. written[c] = 4
    BY <2>2, <2>5, PartsFacts
  <2>7. Whole(c) = Complete(c) /\ ~(written[c] < 4)
    BY <2>6, AllWritten, PartsFacts
  <2>8. stages[n] \subseteq Complete(c) /\ (stages[n] = Complete(c) \/ torn[c])
    BY <2>1, <2>2, <2>7 DEF Content, Made, Left
  <2> QED
    BY <2>8
<1>2. IInv => VerifiedMeansComplete
  BY <1>1 DEF VerifiedMeansComplete, IInv, DestInv
<1> QED
  BY <1>2, Invariance, PTL

\* Nobody but the user changes a destination, beside the rename of one whole
\* workspace.
THEOREM DestinationIsKept == Spec => DestinationKept
<1>1. ASSUME IInv, [Next]_vars, dest' # dest, moves' = moves
      PROVE  Free(dest) /\ \E c \in Creators : dest' = Dir(Complete(c))
  <2>1. ~User
    BY <1>1, UserActionsAssumption DEF User, IInv, TypeOK
  <2>2. PICK c \in Creators : Creator(c) \/ Killed(c)
    BY <1>1, <2>1 DEF Next, vars
  <2>3. Rename(c)
    BY <1>1, <2>2, OnlyRename
  <2> QED
    BY <1>1, <2>3, RenameIsWhole
<1>2. IInv /\ [Next]_vars => [dest' # dest /\ moves' = moves =>
        Free(dest) /\ \E c \in Creators : dest' = Dir(Complete(c))]_vars
  BY <1>1
<1> QED
  BY <1>2, Invariance, PTL DEF Spec, DestinationKept
=============================================================================

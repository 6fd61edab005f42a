-------------------------- MODULE AndroidBuildProofs --------------------------
(* What holds of builds of any number of inputs and of a seed of any size,    *)
(* however many builds run one after the other or at once, and wherever one   *)
(* fails or is killed.                                                        *)
EXTENDS AndroidBuild, FiniteSetTheorems, WellFoundedInduction, TLAPS

-----------------------------------------------------------------------------
(* The inductive invariant.                                                  *)

\* Copying, on the way to the tool that `then` names.
Seeds(b, then) == pc[b] \in {"seed", "list", "copy"} /\ mem[b].then = then

\* A build has a tool while it waits for it, and nothing of a copy outside one.
PosOf(b) ==
  /\ tool[b].runs # "expo" => tool[b].reads = {}
  /\ pc[b] = "idle" => tool[b] = NoTool
  /\ pc[b] # "done" => end[b] = Running
  /\ Busy(b) => (tool[b].runs = "expo" <=> pc[b] = "expo")
  /\ Busy(b) => (tool[b].runs = "gradle" <=> pc[b] = "gradle")
  /\ pc[b] # "copy" => mem[b].cur = 0 /\ mem[b].files = 0 /\ mem[b].bytes = 0
  /\ pc[b] \in {"before", "expo", "after", "judge"} => mem[b].then = "expo"
  /\ pc[b] \in {"idle", "log", "open", "clean", "check"} => mem[b] = Fresh
PosInv == \A b \in Builds : PosOf(b)

\* A build alone stays alone until it has ended and so has its tool.
AloneInv ==
  \A b \in Builds : alone[b] /\ (Busy(b) \/ tool[b] # NoTool) => Others(b) = {}

\* What the invocation's files and the host are to a build that is alone.
Own(b) == alone[b] /\ Busy(b)
FixedOf(b) ==
  /\ pc[b] = "open" => "log" \notin fixed
  /\ pc[b] \notin {"log", "assemble", "gradle", "output"} => "script" \notin fixed
OwnApk(b, apk) == apk.by = b /\ (steady[b] => apk.from \in past)
HostOf(b) ==
  /\ pc[b] \in {"check", "before"} \/ Seeds(b, "expo") => host = NoHost
  /\ pc[b] = "expo" => ~host.whole
  /\ pc[b] \in {"expo", "after", "judge", "init", "assemble", "gradle"} \/ Seeds(b, "init") =>
       host.apk = None
  /\ pc[b] \in {"init", "assemble", "gradle", "output"} \/ Seeds(b, "init") =>
       (steady[b] => host.from \in past)
  /\ pc[b] = "output" => host.apk = None \/ OwnApk(b, host.apk)

\* What the walks say of the inputs, while none of them gets contents back: p is
\* what they were when expo started.
Generated(b, p) ==
  \A f \in Inputs :
    /\ mem[b].seen[f] <= p[f] /\ p[f] <= inputs[f]
    /\ (pc[b] = "expo" /\ f \notin tool[b].reads) \/ (pc[b] \in {"after", "judge"} /\ host.whole)
       => p[f] <= host.from[f] /\ host.from[f] <= inputs[f]
    /\ pc[b] \in {"after", "judge"} /\ host.whole /\ ~mem[b].drift /\ f \notin mem[b].left =>
         host.from[f] <= mem[b].seen[f]
WalkOf(b) ==
  /\ pc[b] = "before" /\ steady[b] =>
       \A f \in Inputs \ mem[b].left : mem[b].seen[f] <= inputs[f]
  /\ pc[b] = "judge" => mem[b].left = {}
  /\ steady[b] /\ (Seeds(b, "expo") \/ pc[b] \in {"expo", "after", "judge"}) =>
       \E p \in past : Generated(b, p)

\* A first seeding has returned.
PastSeed(b) ==
  \/ pc[b] \in {"expo", "after", "judge", "init", "assemble", "gradle", "output"}
  \/ pc[b] = "seed" /\ mem[b].then = "init"

\* Where a cache comes from: a seeded build goes on only over a marked one.
CacheInv ==
  /\ DOMAIN cache.files # {} \/ marker # None => cache.there
  /\ \A b \in Builds : seeded[b] /\ PastSeed(b) => marker # None
  /\ cache.there /\ marker = None =>
       \E c \in Builds : ~seeded[c] \/ pc[c] = "copy" \/ end[c].result \in {"err", "killed"}

\* What a copying build has copied, and what it counts.
CopyOf(b) ==
  /\ pc[b] = "list" => CopiedBy(b) = {}
  /\ pc[b] = "copy" =>
       /\ cache.there
       /\ mem[b].cur # 0 => mem[b].cur \in CopiedBy(b)
       /\ mem[b].files = Cardinality(CopiedBy(b)) /\ mem[b].bytes = Cardinality(BytesBy(b))
       /\ \A n \in CopiedBy(b) \ {mem[b].cur} : cache.files[n].whole /\ n \notin mem[b].todo
       /\ changes.seed # "names" => Prepared \ mem[b].todo \subseteq CopiedBy(b)
CopyInv == \A b \in Builds : CopyOf(b)

\* What a copy finds that nothing else disturbs.
CopyAlone(b) == pc[b] \in {"list", "copy"} => DOMAIN cache.files = CopiedBy(b) /\ marker = None

OwnInv == \A b \in Builds : Own(b) => FixedOf(b) /\ HostOf(b) /\ WalkOf(b) /\ CopyAlone(b)

SeedInv ==
  /\ changes.count = 0 => changes.seed = "nothing"
  /\ changes.seed # "names" => DOMAIN seed = Prepared /\ DOMAIN cache.files \subseteq Prepared
MarkInv ==
  marker # None =>
    /\ pc[marker] # "idle"
    /\ changes.seed # "names" => DOMAIN cache.files = Prepared
    /\ alone[marker] => \A c \in Builds : pc[c] \notin {"list", "copy"}

IInv == /\ TypeOK /\ PosInv /\ AloneInv /\ OwnInv /\ CacheInv /\ CopyInv /\ SeedInv /\ MarkInv
        /\ ArtifactIsOwn /\ LeftoversNeverBlock /\ MarkedMeansWhole /\ CopyWithinLimits

-----------------------------------------------------------------------------
(* Types.                                                                    *)

\* A step of build b, or of a tool it started.
Step(b) ==
  Opening(b) \/ Generating(b) \/ Seeding(b) \/ Assembling(b) \/ Breaks(b) \/ Killed(b)

LEMMA FreshMemory == Fresh \in Memory /\ [Fresh EXCEPT !.then = "init"] \in Memory
<1>1. 0 \in Sizes /\ [f \in Inputs |-> 0] \in Contents
  BY LimitsAssumption DEF Sizes, Contents
<1> QED
  BY <1>1 DEF Fresh, Memory

\* What the steps of a build change in its memory.
LEMMA Remembering ==
  ASSUME NEW m \in Memory
  PROVE  /\ \A f \in Inputs, n \in Nat :
              /\ [m EXCEPT !.left = @ \ {f}, !.seen[f] = n] \in Memory
              /\ [m EXCEPT !.left = @ \ {f}, !.drift = @ \/ n # m.seen[f]] \in Memory
         /\ \A ok \in BOOLEAN : [m EXCEPT !.exit = ok, !.left = Inputs] \in Memory
         /\ [m EXCEPT !.size = 0, !.files = 0, !.bytes = 0] \in Memory
         /\ \A S \in SUBSET Names : [m EXCEPT !.todo = S] \in Memory
         /\ \A n \in Names, s \in Sizes :
              [m EXCEPT !.cur = n, !.size = s, !.files = @ + 1] \in Memory
         /\ [m EXCEPT !.bytes = @ + 1] \in Memory
         /\ [m EXCEPT !.todo = @ \ {m.cur}, !.cur = 0] \in Memory
<1>1. ASSUME NEW f \in Inputs, NEW n \in Nat
      PROVE  /\ [m EXCEPT !.left = @ \ {f}, !.seen[f] = n] \in Memory
             /\ [m EXCEPT !.left = @ \ {f}, !.drift = @ \/ n # m.seen[f]] \in Memory
  BY DEF Memory, Contents
<1>2. ASSUME NEW ok \in BOOLEAN PROVE [m EXCEPT !.exit = ok, !.left = Inputs] \in Memory
  BY DEF Memory
<1>3. [m EXCEPT !.size = 0, !.files = 0, !.bytes = 0] \in Memory
  <2>1. 0 \in Sizes
    BY LimitsAssumption DEF Sizes
  <2> QED
    BY <2>1 DEF Memory
<1>4. ASSUME NEW S \in SUBSET Names PROVE [m EXCEPT !.todo = S] \in Memory
  BY DEF Memory
<1>5. ASSUME NEW n \in Names, NEW s \in Sizes
      PROVE  [m EXCEPT !.cur = n, !.size = s, !.files = @ + 1] \in Memory
  <2>1. n \in Names \cup {0} /\ m.files + 1 \in Nat
    BY DEF Memory
  <2> QED
    BY <2>1 DEF Memory
<1>6. [m EXCEPT !.bytes = @ + 1] \in Memory
  BY DEF Memory
<1>7. [m EXCEPT !.todo = @ \ {m.cur}, !.cur = 0] \in Memory
  BY DEF Memory
<1> QED
  BY <1>1, <1>2, <1>3, <1>4, <1>5, <1>6, <1>7

\* What a failing build leaves of itself.
LEMMA Failing ==
  ASSUME TypeOK, NEW b \in Builds, NEW c \in {"-", "exists", "dirty", "incomplete"}, Fails(b, c)
  PROVE  /\ pc' \in [Builds -> Positions] /\ mem' \in [Builds -> Memory]
         /\ end' \in [Builds -> Endings]
<1>1. [result |-> "err", cause |-> c, apk |-> None] \in Endings
  BY DEF Endings
<1> QED
  BY <1>1, FreshMemory DEF Fails, Ends, TypeOK, Positions

LEMMA NoHostIsHost == NoHost \in Hosts
<1>1. [f \in Inputs |-> 0] \in Contents
  BY DEF Contents
<1> QED
  BY <1>1 DEF NoHost, Hosts

\* The cache after a step, with its directory and its files.
CacheIs(there, files) ==
  /\ cache'.there = there /\ cache'.files = files
  /\ cache' = [there |-> cache'.there, files |-> cache'.files]

LEMMA CacheParts ==
  ASSUME TypeOK
  PROVE  /\ cache' = [cache EXCEPT !.there = TRUE] => CacheIs(TRUE, cache.files)
         /\ \A k : cache' = [cache EXCEPT !.files[k].whole = TRUE] =>
              CacheIs(cache.there, [cache.files EXCEPT ![k].whole = TRUE])
         /\ \A k : cache' = [cache EXCEPT !.files[k].bytes = @ + 1] =>
              CacheIs(cache.there, [cache.files EXCEPT ![k].bytes = @ + 1])
         /\ \A k, v : cache' = [cache EXCEPT !.files = With(@, k, v)] =>
              CacheIs(cache.there, With(cache.files, k, v))
<1>1. ASSUME cache' = [cache EXCEPT !.there = TRUE] PROVE CacheIs(TRUE, cache.files)
  BY <1>1 DEF TypeOK, CacheIs
<1>2. ASSUME NEW k, cache' = [cache EXCEPT !.files[k].whole = TRUE]
      PROVE  CacheIs(cache.there, [cache.files EXCEPT ![k].whole = TRUE])
  BY <1>2 DEF TypeOK, CacheIs
<1>3. ASSUME NEW k, cache' = [cache EXCEPT !.files[k].bytes = @ + 1]
      PROVE  CacheIs(cache.there, [cache.files EXCEPT ![k].bytes = @ + 1])
  BY <1>3 DEF TypeOK, CacheIs
<1>4. ASSUME NEW k, NEW v, cache' = [cache EXCEPT !.files = With(@, k, v)]
      PROVE  CacheIs(cache.there, With(cache.files, k, v))
  BY <1>4 DEF TypeOK, CacheIs
<1> QED
  BY <1>1, <1>2, <1>3, <1>4

\* What the types say of the cache.
CacheType ==
  /\ cache = [there |-> cache.there, files |-> cache.files] /\ cache.there \in BOOLEAN
  /\ cache.files = [n \in DOMAIN cache.files |-> cache.files[n]]
  /\ DOMAIN cache.files \subseteq Names
  /\ \A n \in DOMAIN cache.files : cache.files[n] \in Files

LEMMA CacheTyped ==
  ASSUME TypeOK, NEW b \in Builds
  PROVE  /\ cache' = [cache EXCEPT !.there = TRUE] => CacheType'
         /\ \A k : cache' = [cache EXCEPT !.files[k].whole = TRUE] => CacheType'
         /\ \A k : cache' = [cache EXCEPT !.files[k].bytes = @ + 1] => CacheType'
         /\ \A k \in Names :
              cache' = [cache EXCEPT !.files = With(@, k, [by |-> b, bytes |-> 0, whole |-> FALSE])]
              => CacheType'
<1>0. CacheType
  BY DEF TypeOK, CacheType
<1>1. ASSUME cache' = [cache EXCEPT !.there = TRUE] PROVE CacheType'
  BY <1>0, <1>1, CacheParts DEF CacheType, CacheIs
<1>2. ASSUME NEW k, cache' = [cache EXCEPT !.files[k].whole = TRUE] PROVE CacheType'
  <2> DEFINE F == [cache.files EXCEPT ![k].whole = TRUE]
  <2>1. /\ DOMAIN F = DOMAIN cache.files /\ F = [n \in DOMAIN F |-> F[n]]
        /\ \A n \in DOMAIN F : F[n] \in Files
    BY <1>0 DEF CacheType, Files
  <2> HIDE DEF F
  <2> QED
    <3>1. CacheIs(cache.there, F)
      BY <1>2, CacheParts DEF F
    <3> QED
      BY <1>0, <2>1, <3>1 DEF CacheType, CacheIs
<1>3. ASSUME NEW k, cache' = [cache EXCEPT !.files[k].bytes = @ + 1] PROVE CacheType'
  <2> DEFINE F == [cache.files EXCEPT ![k].bytes = @ + 1]
  <2>1. /\ DOMAIN F = DOMAIN cache.files /\ F = [n \in DOMAIN F |-> F[n]]
        /\ \A n \in DOMAIN F : F[n] \in Files
    BY <1>0 DEF CacheType, Files
  <2> HIDE DEF F
  <2> QED
    <3>1. CacheIs(cache.there, F)
      BY <1>3, CacheParts DEF F
    <3> QED
      BY <1>0, <2>1, <3>1 DEF CacheType, CacheIs
<1>4. ASSUME NEW k \in Names, NEW v \in Files, cache' = [cache EXCEPT !.files = With(@, k, v)]
      PROVE  CacheType'
  <2> DEFINE F == With(cache.files, k, v)
  <2>1. /\ DOMAIN F = DOMAIN cache.files \cup {k} /\ F = [n \in DOMAIN F |-> F[n]]
        /\ \A n \in DOMAIN F : F[n] \in Files
    BY <1>0 DEF CacheType, With
  <2> HIDE DEF F
  <2> QED
    BY <1>0, <1>4, <2>1, CacheParts DEF CacheType, CacheIs, F
<1>5. [by |-> b, bytes |-> 0, whole |-> FALSE] \in Files
  BY DEF Files
<1> QED
  BY <1>1, <1>2, <1>3, <1>4, <1>5

\* What the inputs contain and once contained, and how new contents compare.
LEMMA InputsTyped ==
  ASSUME TypeOK
  PROVE  /\ past \subseteq Contents /\ inputs \in Contents /\ \A f \in Inputs : inputs[f] \in Nat
         /\ NewContents \in Nat /\ \A p \in past, f \in Inputs : p[f] <= NewContents
<1>1. changes.count \in Nat
  BY LimitsAssumption DEF TypeOK
<1>2. ASSUME NEW p \in past PROVE p \in Contents /\ \A f \in Inputs : p[f] <= NewContents
  <2>1. p \in [Inputs -> 1..(changes.count + 1)]
    BY DEF TypeOK
  <2>2. p \in Contents
    BY <1>1, <2>1 DEF Contents
  <2> QED
    BY <1>1, <2>1, <2>2 DEF NewContents
<1>3. inputs \in past
  BY DEF TypeOK
<1> QED
  BY <1>1, <1>2, <1>3 DEF NewContents, Contents

LEMMA TypeStep == TypeOK /\ [Next]_vars => TypeOK'
<1> SUFFICES ASSUME TypeOK, [Next]_vars PROVE TypeOK'
  OBVIOUS
<1>1. CASE UNCHANGED vars
  BY <1>1 DEF TypeOK, vars, world, disk
<1>2. CASE Edit
  <2>1. PICK f \in Inputs : \E v \in {p[f] : p \in past} \cup {NewContents} :
          /\ v # inputs[f] /\ inputs' = [inputs EXCEPT ![f] = v]
          /\ steady' = [b \in Builds |-> steady[b] /\ (v = NewContents \/ ~Busy(b))]
    BY <1>2 DEF Edit
  <2>2. changes' = [changes EXCEPT !.count = @ + 1] /\ changes.count < Disturbances
    BY <1>2 DEF Edit
  <2>3. changes' \in [count : 0..Disturbances, seed : {"nothing", "sizes", "names"}]
        /\ changes'.count = changes.count + 1 /\ changes.count \in Nat
    BY <2>2, LimitsAssumption DEF TypeOK
  <2>4. past \subseteq [Inputs -> 1..(changes'.count + 1)]
    <3> SUFFICES ASSUME NEW p \in past, NEW g \in Inputs PROVE p[g] \in 1..(changes'.count + 1)
      BY DEF TypeOK
    <3>1. p[g] \in 1..(changes.count + 1)
      BY DEF TypeOK
    <3> QED
      BY <2>3, <3>1
  <2>5. PICK v \in {p[f] : p \in past} \cup {NewContents} :
          /\ inputs' = [inputs EXCEPT ![f] = v]
          /\ steady' = [b \in Builds |-> steady[b] /\ (v = NewContents \/ ~Busy(b))]
    BY <2>1
  <2>6. v \in 1..(changes'.count + 1)
    <3>1. NewContents \in 1..(changes'.count + 1)
      BY <2>3 DEF NewContents
    <3> QED
      BY <2>4, <2>5, <3>1
  <2>7. inputs' \in [Inputs -> 1..(changes'.count + 1)]
    <3>1. inputs \in [Inputs -> 1..(changes'.count + 1)]
      BY <2>4 DEF TypeOK
    <3> QED
      BY <2>5, <2>6, <3>1
  <2>8. past' \subseteq [Inputs -> 1..(changes'.count + 1)] /\ inputs' \in past'
    BY <2>4, <2>7, <1>2 DEF Edit
  <2>9. steady' \in [Builds -> BOOLEAN]
    BY <2>5 DEF TypeOK
  <2> QED
    BY <1>2, <2>3, <2>8, <2>9 DEF Edit, TypeOK, disk
<1>3. CASE Prepare
  <2>1. changes' \in [count : 0..Disturbances, seed : {"nothing", "sizes", "names"}]
        /\ changes'.count = Disturbances /\ changes.count = 0
    BY <1>3, LimitsAssumption DEF Prepare, TypeOK
  <2>2. past' \subseteq [Inputs -> 1..(changes'.count + 1)] /\ inputs' \in past'
    <3>1. past' = past /\ inputs' = inputs
      BY <1>3 DEF Prepare
    <3> SUFFICES ASSUME NEW p \in past, NEW g \in Inputs PROVE p[g] \in 1..(changes'.count + 1)
      BY <3>1 DEF TypeOK
    <3>2. p[g] \in 1..(changes.count + 1)
      BY DEF TypeOK
    <3> QED
      BY <2>1, <3>2, LimitsAssumption
  <2>3. DOMAIN seed' \subseteq Names /\ \A n \in DOMAIN seed' : seed'[n] \in Sizes
    BY <1>3 DEF Prepare, TypeOK
  <2> QED
    BY <1>3, <2>1, <2>2, <2>3 DEF Prepare, TypeOK, disk
<1>4. ASSUME NEW b \in Builds, Opening(b) PROVE TypeOK'
  <2>1. CASE Start(b)
    <3>1. alone' \in [Builds -> BOOLEAN]
      BY <2>1 DEF Start, TypeOK
    <3> QED
      BY <2>1, <3>1 DEF Start, Goes, At, TypeOK, world, disk, Positions
  <2>2. CASE RemoveFixed(b)
    BY <2>2 DEF RemoveFixed, Goes, At, TypeOK, world, Positions
  <2>3. CASE OpenLog(b)
    BY <2>3, Failing DEF OpenLog, Create, Goes, At, TypeOK, world, Positions
  <2>4. CASE RemoveHost(b)
    <3>1. host' \in Hosts
      <4>1. [host EXCEPT !.whole = FALSE] \in Hosts
        BY DEF TypeOK, Hosts
      <4>2. host' = NoHost \/ host' = [host EXCEPT !.whole = FALSE]
        BY <2>4 DEF RemoveHost
      <4> QED
        BY <4>1, <4>2, NoHostIsHost
    <3> QED
      BY <2>4, <3>1, Failing DEF RemoveHost, Goes, At, TypeOK, world, Positions
  <2> QED
    BY <1>4, <2>1, <2>2, <2>3, <2>4 DEF Opening
<1>5. ASSUME NEW b \in Builds, Generating(b) PROVE TypeOK'
  <2>1. CASE CheckHost(b)
    BY <2>1, Failing DEF CheckHost, Goes, At, TypeOK, world, disk, Positions
  <2>2. CASE Walk(b)
    <3>1. mem' \in [Builds -> Memory]
      <4>1. PICK f \in Inputs :
              \/ mem' = [mem EXCEPT ![b].left = @ \ {f}, ![b].seen[f] = inputs[f]]
              \/ mem' = [mem EXCEPT ![b].left = @ \ {f},
                                   ![b].drift = @ \/ inputs[f] # mem[b].seen[f]]
        BY <2>2 DEF Walk, TypeOK, Memory
      <4>2. inputs[f] \in Nat /\ mem[b] \in Memory
        BY InputsTyped DEF TypeOK
      <4>3. \/ mem' = [mem EXCEPT ![b] = [mem[b] EXCEPT !.left = @ \ {f}, !.seen[f] = inputs[f]]]
            \/ mem' = [mem EXCEPT ![b] = [mem[b] EXCEPT !.left = @ \ {f},
                                          !.drift = @ \/ inputs[f] # mem[b].seen[f]]]
        BY <4>1 DEF TypeOK
      <4>4. /\ [mem[b] EXCEPT !.left = @ \ {f}, !.seen[f] = inputs[f]] \in Memory
            /\ [mem[b] EXCEPT !.left = @ \ {f}, !.drift = @ \/ inputs[f] # mem[b].seen[f]]
               \in Memory
        BY <4>2, Remembering
      <4> QED
        BY <4>3, <4>4 DEF TypeOK
    <3>2. pc' \in [Builds -> Positions]
      BY <2>2 DEF Walk, TypeOK, Goes, Positions
    <3> QED
      BY <2>2, <3>1, <3>2 DEF Walk, Goes, TypeOK, world, disk
  <2>3. CASE ExpoReads(b)
    <3>1. PICK f \in Inputs :
            /\ tool' = [tool EXCEPT ![b].reads = @ \ {f}]
            /\ host' = [host EXCEPT !.there = TRUE, !.whole = FALSE, !.from[f] = inputs[f]]
      BY <2>3 DEF ExpoReads, TypeOK, Tools
    <3>2. tool' \in [Builds -> Tools]
      <4>1. tool \in [Builds -> Tools]
        BY DEF TypeOK
      <4>2. [tool[b] EXCEPT !.reads = @ \ {f}] \in Tools
        BY <4>1 DEF Tools
      <4> QED
        BY <3>1, <4>1, <4>2
    <3>3. inputs[f] \in Nat
      BY InputsTyped
    <3>4. host' \in Hosts
      BY <3>1, <3>3 DEF TypeOK, Hosts, Contents
    <3> QED
      BY <2>3, <3>2, <3>4 DEF ExpoReads, TypeOK, world
  <2>4. CASE ExpoExits(b)
    <3>1. host' \in Hosts /\ tool' \in [Builds -> Tools]
      BY <2>4 DEF ExpoExits, TypeOK, Hosts, Tools, NoTool
    <3>2. pc' \in [Builds -> Positions]
      BY <2>4 DEF ExpoExits, TypeOK, Goes, Positions
    <3>3. mem' \in [Builds -> Memory]
      <4>1. \A ok \in BOOLEAN : [mem[b] EXCEPT !.exit = ok, !.left = Inputs] \in Memory
        BY Remembering DEF TypeOK
      <4>2. CASE \E ok \in BOOLEAN : mem' = [mem EXCEPT ![b].exit = ok, ![b].left = Inputs]
        <5>1. PICK ok \in BOOLEAN : mem' = [mem EXCEPT ![b].exit = ok, ![b].left = Inputs]
          BY <4>2
        <5>2. mem' = [mem EXCEPT ![b] = [mem[b] EXCEPT !.exit = ok, !.left = Inputs]]
          BY <5>1 DEF TypeOK
        <5> QED
          BY <4>1, <5>2 DEF TypeOK
      <4> QED
        BY <2>4, <4>2 DEF ExpoExits, TypeOK
    <3> QED
      BY <2>4, <3>1, <3>2, <3>3 DEF ExpoExits, Goes, TypeOK, world
  <2>5. CASE Judge(b)
    <3> QED
      BY <2>5, FreshMemory, Failing DEF Judge, Goes, At, TypeOK, world, disk, Positions
  <2> QED
    BY <1>5, <2>1, <2>2, <2>3, <2>4, <2>5 DEF Generating
<1>6. ASSUME NEW b \in Builds, Seeding(b) PROVE TypeOK'
  <2>1. ASSUME NEW from \in Positions, Return(b, from)
        PROVE  pc' \in [Builds -> Positions] /\ mem' \in [Builds -> Memory]
               /\ tool' \in [Builds -> Tools] /\ end' = end
    <3>1. Expo \in Tools /\ NoTool \in Tools
      BY DEF Expo, NoTool, Tools
    <3> QED
      <4>1. pc' \in [Builds -> Positions] /\ tool' \in [Builds -> Tools] /\ end' = end
        BY <2>1, <3>1 DEF Return, Goes, TypeOK, Positions, Memory
      <4>2. mem' = [mem EXCEPT ![b] = [mem[b] EXCEPT !.size = 0, !.files = 0, !.bytes = 0]]
        BY <2>1 DEF Return
      <4> QED
        BY <4>1, <4>2, Remembering DEF TypeOK
  <2>2. CASE Seed(b)
    BY <2>1, <2>2, Failing DEF Seed, Goes, At, TypeOK, world, disk, Positions
  <2>3. CASE List(b)
    <3>1. CacheType'
      BY <2>3, CacheTyped DEF List
    <3>2. CASE Fails(b, "-")
      BY <2>3, <3>1, <3>2, Failing DEF List, TypeOK, CacheType, world
    <3>3. CASE Goes(b, "list", "copy") /\ mem' = [mem EXCEPT ![b].todo = DOMAIN seed]
      <4>1. mem' \in [Builds -> Memory]
        BY <3>3, Remembering DEF TypeOK
      <4> QED
        BY <2>3, <3>1, <3>3, <4>1 DEF List, Goes, At, TypeOK, CacheType, world, Positions
    <3> QED
      BY <2>3, <3>2, <3>3 DEF List
  <2>4. CASE OpenNext(b)
    <3>1. CASE (Fails(b, "-") \/ Fails(b, "exists")) /\ UNCHANGED cache
      BY <2>4, <3>1, Failing DEF OpenNext, TypeOK, world
    <3> DEFINE n == Min(mem[b].todo)
    <3>2. CASE ~((Fails(b, "-") \/ Fails(b, "exists")) /\ UNCHANGED cache)
      <4>1. cache' = [cache EXCEPT !.files = With(@, n, [by |-> b, bytes |-> 0, whole |-> FALSE])]
            /\ mem' = [mem EXCEPT ![b].cur = n, ![b].size = seed[n], ![b].files = @ + 1]
            /\ UNCHANGED <<pc, end>>
        BY <2>4, <3>2 DEF OpenNext
      <4>2. n \in Names /\ seed[n] \in Sizes
        BY <2>4, <3>2 DEF OpenNext, TypeOK
      <4>3. mem' \in [Builds -> Memory]
        <5>1. mem \in [Builds -> Memory] /\ mem[b] \in Memory
          BY DEF TypeOK
        <5>2. [mem[b] EXCEPT !.cur = n, !.size = seed[n], !.files = @ + 1] \in Memory
          BY <4>2, <5>1, Remembering
        <5>3. mem' = [mem EXCEPT ![b] =
                        [mem[b] EXCEPT !.cur = n, !.size = seed[n], !.files = @ + 1]]
          BY <4>1, <5>1
        <5> QED
          BY <5>1, <5>2, <5>3
      <4>4. CacheType'
        BY <4>1, <4>2, CacheTyped
      <4> QED
        BY <2>4, <4>1, <4>3, <4>4 DEF OpenNext, TypeOK, CacheType, world
    <3> QED
      BY <2>4, <3>1, <3>2 DEF OpenNext
  <2>5. CASE Read(b)
    <3>1. CASE Fails(b, "-") /\ UNCHANGED cache
      BY <2>5, <3>1, Failing DEF Read, TypeOK, world
    <3>2. CASE WriteByte(b)
      <4>1. CacheType'
        BY <3>2, CacheTyped DEF WriteByte
      <4>2. mem' \in [Builds -> Memory]
        <5>1. mem' = [mem EXCEPT ![b] = [mem[b] EXCEPT !.bytes = @ + 1]]
          BY <3>2 DEF WriteByte
        <5> QED
          BY <5>1, Remembering DEF TypeOK
      <4> QED
        BY <2>5, <3>2, <4>1, <4>2 DEF Read, WriteByte, TypeOK, CacheType, world
    <3> QED
      BY <2>5, <3>1, <3>2 DEF Read
  <2>6. CASE Finish(b)
    <3>1. CASE Fails(b, "-") /\ UNCHANGED cache
      BY <2>6, <3>1, Failing DEF Finish, TypeOK, world
    <3>2. CASE ~(Fails(b, "-") /\ UNCHANGED cache)
      <4>1. CacheType'
        BY <2>6, <3>2, CacheTyped DEF Finish
      <4>2. mem' \in [Builds -> Memory]
        <5>1. mem' = [mem EXCEPT ![b] = [mem[b] EXCEPT !.todo = @ \ {mem[b].cur}, !.cur = 0]]
          BY <2>6, <3>2 DEF Finish
        <5> QED
          BY <5>1, Remembering DEF TypeOK
      <4> QED
        BY <2>6, <3>2, <4>1, <4>2 DEF Finish, TypeOK, CacheType, world
    <3> QED
      BY <2>6, <3>1, <3>2 DEF Finish
  <2>7. CASE Mark(b)
    BY <2>1, <2>7, Failing DEF Mark, BetweenTwo, At, TypeOK, world, Positions
  <2> QED
    BY <1>6, <2>2, <2>3, <2>4, <2>5, <2>6, <2>7 DEF Seeding
<1>7. ASSUME NEW b \in Builds, Assembling(b) PROVE TypeOK'
  <2>1. CASE WriteScript(b)
    BY <2>1, Failing DEF WriteScript, Create, Goes, At, TypeOK, world, Positions
  <2>2. CASE StartGradle(b)
    <3>1. Gradle \in Tools
      BY DEF Gradle, Tools
    <3> QED
      BY <2>2, <3>1, CacheTyped DEF StartGradle, Goes, At, TypeOK, CacheType, world, Positions
  <2>3. CASE GradleExits(b)
    <3>1. host' \in Hosts
      BY <2>3 DEF GradleExits, TypeOK, Hosts, Apks
    <3>2. NoTool \in Tools
      BY DEF NoTool, Tools
    <3> QED
      BY <2>3, <3>1, <3>2, Failing DEF GradleExits, Goes, TypeOK, world, Positions
  <2>4. CASE Output(b)
    <3>1. host.apk # None => [result |-> "ok", cause |-> "-", apk |-> host.apk] \in Endings
      BY DEF TypeOK, Hosts, Endings
    <3> QED
      BY <2>4, <3>1, FreshMemory, Failing DEF Output, Ends, TypeOK, world, disk, Positions
  <2> QED
    BY <1>7, <2>1, <2>2, <2>3, <2>4 DEF Assembling
<1>8. ASSUME NEW b \in Builds, Breaks(b) PROVE TypeOK'
  BY <1>8, Failing DEF Breaks, TypeOK, world, disk
<1>9. ASSUME NEW b \in Builds, Killed(b) PROVE TypeOK'
  <2>2. [result |-> "killed", cause |-> "-", apk |-> None] \in Endings
    BY DEF Endings
  <2> QED
    BY <1>9, FreshMemory, <2>2 DEF Killed, Ends, TypeOK, world, disk, Positions
<1> QED
  BY <1>1, <1>2, <1>3, <1>4, <1>5, <1>6, <1>7, <1>8, <1>9 DEF Next

-----------------------------------------------------------------------------
(* Steps of a build, and what they leave alone.                              *)

LEMMA Leaves ==
  ASSUME TypeOK, NEW b \in Builds, Step(b), NEW c \in Builds, c # b
  PROVE  pc'[c] = pc[c] /\ mem'[c] = mem[c] /\ tool'[c] = tool[c] /\ end'[c] = end[c]
<1> DEFINE Same == pc'[c] = pc[c] /\ mem'[c] = mem[c] /\ tool'[c] = tool[c] /\ end'[c] = end[c]
<1>1. ASSUME NEW why, Fails(b, why)
      PROVE  pc'[c] = pc[c] /\ mem'[c] = mem[c] /\ end'[c] = end[c]
  BY <1>1 DEF Fails, Ends, TypeOK
<1>2. ASSUME NEW from, Return(b, from) PROVE Same
  BY <1>2 DEF Return, Goes, TypeOK
<1>3. CASE Opening(b)
  BY <1>1, <1>3 DEF Opening, Start, RemoveFixed, OpenLog, Create, RemoveHost, Goes, world, disk,
     TypeOK
<1>4. CASE Generating(b)
  <2>1. CASE CheckHost(b) \/ Judge(b)
    BY <1>1, <2>1 DEF CheckHost, Judge, Goes, world, disk, TypeOK
  <2>2. CASE Walk(b)
    BY <2>2 DEF Walk, Goes, world, disk, TypeOK
  <2>3. CASE ExpoReads(b) \/ ExpoExits(b)
    BY <2>3 DEF ExpoReads, ExpoExits, Goes, world, disk, TypeOK
  <2> QED
    BY <1>4, <2>1, <2>2, <2>3 DEF Generating
<1>5. CASE Seeding(b)
  <2>1. CASE Seed(b)
    BY <1>1, <1>2, <2>1 DEF Seed, Goes, world, disk, TypeOK
  <2>2. CASE List(b)
    BY <1>1, <2>2 DEF List, Goes, world, TypeOK
  <2>3. CASE OpenNext(b)
    BY <1>1, <2>3 DEF OpenNext, world, TypeOK
  <2>4. CASE Read(b)
    BY <1>1, <2>4 DEF Read, WriteByte, world, TypeOK
  <2>5. CASE Finish(b)
    BY <1>1, <2>5 DEF Finish, world, TypeOK
  <2>6. CASE Mark(b)
    BY <1>1, <1>2, <2>6 DEF Mark, world, TypeOK
  <2> QED
    BY <1>5, <2>1, <2>2, <2>3, <2>4, <2>5, <2>6 DEF Seeding
<1>6. CASE Assembling(b)
  <2>1. CASE WriteScript(b)
    BY <1>1, <2>1 DEF WriteScript, Create, Goes, world, TypeOK
  <2>2. CASE StartGradle(b) \/ GradleExits(b)
    BY <1>1, <2>2 DEF StartGradle, GradleExits, Goes, world, TypeOK
  <2>3. CASE Output(b)
    BY <1>1, <2>3 DEF Output, Ends, world, disk, TypeOK
  <2> QED
    BY <1>6, <2>1, <2>2, <2>3 DEF Assembling
<1>7. CASE Breaks(b) \/ Killed(b)
  BY <1>1, <1>7 DEF Breaks, Killed, Ends, world, disk, TypeOK
<1> QED
  BY <1>3, <1>4, <1>5, <1>6, <1>7 DEF Step

\* The user's files and the choice of a seed stay.
LEMMA WorldStays ==
  ASSUME NEW b \in Builds, Step(b)
  PROVE  UNCHANGED <<inputs, past, steady, seed, changes, seeded>>
<1>1. CASE Opening(b)
  BY <1>1 DEF Opening, Start, RemoveFixed, OpenLog, Create, RemoveHost, world
<1>2. CASE Generating(b)
  BY <1>2 DEF Generating, CheckHost, Walk, ExpoReads, ExpoExits, Judge, world
<1>3. CASE Seeding(b)
  BY <1>3 DEF Seeding, Seed, List, OpenNext, Read, Finish, Mark, world
<1>4. CASE Assembling(b)
  BY <1>4 DEF Assembling, WriteScript, Create, StartGradle, GradleExits, Output, world
<1> QED
  BY <1>1, <1>2, <1>3, <1>4 DEF Step, Breaks, Killed, world

\* Only the start of a build says of another that it is not alone.
LEMMA AloneStays ==
  ASSUME NEW b \in Builds, Step(b), ~Start(b)
  PROVE  alone' = alone
<1>1. CASE Opening(b)
  BY <1>1 DEF Opening, RemoveFixed, OpenLog, Create, RemoveHost
<1>2. CASE Generating(b)
  BY <1>2 DEF Generating, CheckHost, Walk, ExpoReads, ExpoExits, Judge
<1>3. CASE Seeding(b)
  BY <1>3 DEF Seeding, Seed, List, OpenNext, Read, Finish, Mark
<1>4. CASE Assembling(b)
  BY <1>4 DEF Assembling, WriteScript, Create, StartGradle, GradleExits, Output
<1> QED
  BY <1>1, <1>2, <1>3, <1>4 DEF Step, Breaks, Killed

\* A step is of a build that has started, or whose tool runs.
LEMMA AtWork ==
  ASSUME TypeOK, NEW b \in Builds, Step(b), ~Start(b)
  PROVE  Busy(b) \/ tool[b] # NoTool
<1>1. CASE Opening(b)
  BY <1>1 DEF Opening, RemoveFixed, OpenLog, Create, RemoveHost, Goes, At, Busy
<1>2. CASE Generating(b)
  <2>1. CASE ExpoReads(b)
    BY <2>1 DEF ExpoReads, NoTool
  <2>2. CASE ExpoExits(b)
    BY <2>2 DEF ExpoExits, NoTool
  <2> QED
    BY <1>2, <2>1, <2>2 DEF Generating, CheckHost, Walk, Judge, Goes, At, Busy
<1>3. CASE Seeding(b)
  BY <1>3 DEF Seeding, Seed, List, OpenNext, Read, Finish, Mark, Return, Goes, At, BetweenTwo,
              Copying, Busy
<1>4. CASE Assembling(b)
  BY <1>4 DEF Assembling, WriteScript, Create, StartGradle, GradleExits, Output, Goes, At, Busy,
              NoTool
<1> QED
  BY <1>1, <1>2, <1>3, <1>4 DEF Step, Breaks, Killed

LEMMA PosStep ==
  ASSUME TypeOK, TypeOK', PosInv, NEW b \in Builds, Step(b)
  PROVE  PosInv'
<1>0. PosOf(b)
  BY DEF PosInv
<1>1. ASSUME NEW c \in Builds, c # b PROVE PosOf(c)'
  BY <1>1, Leaves DEF PosInv, PosOf, Busy
<1>2. Fresh.cur = 0 /\ Fresh.files = 0 /\ Fresh.bytes = 0 /\ Fresh.then = "expo"
  BY DEF Fresh
<1>3. ASSUME NEW why, Fails(b, why), tool'[b] = tool[b] \/ tool'[b] = NoTool PROVE PosOf(b)'
  BY <1>0, <1>2, <1>3 DEF Fails, Ends, PosOf, TypeOK, Busy, NoTool
<1>4. ASSUME Return(b, "seed") \/ Return(b, "copy"), mem[b].cur = 0 PROVE PosOf(b)'
  <2>1. pc'[b] = mem[b].then /\ mem[b].then \in {"expo", "init"}
    BY <1>4 DEF Return, Goes, TypeOK, Memory
  <2>2. mem'[b].then = mem[b].then /\ mem'[b].cur = 0 /\ mem'[b].files = 0 /\ mem'[b].bytes = 0
    BY <1>4 DEF Return, TypeOK, Memory
  <2>3. tool'[b] = IF mem[b].then = "expo" THEN Expo ELSE NoTool
    BY <1>4 DEF Return, TypeOK
  <2>4. end'[b] = end[b] /\ end[b] = Running
    BY <1>0, <1>4 DEF Return, Goes, At, PosOf
  <2> QED
    BY <2>1, <2>2, <2>3, <2>4 DEF PosOf, Busy, Expo, NoTool
<1>5. PosOf(b)'
  <2>1. CASE Opening(b)
    BY <1>0, <1>2, <1>3, <2>1 DEF Opening, Start, RemoveFixed, OpenLog, Create, RemoveHost, Goes,
       At, PosOf, Busy, world, disk, TypeOK, NoTool
  <2>2. CASE CheckHost(b)
    BY <1>0, <1>2, <1>3, <2>2 DEF CheckHost, Goes, At, PosOf, Busy, world, disk, TypeOK
  <2>3. CASE Walk(b)
    <3>1. /\ mem'[b].cur = mem[b].cur /\ mem'[b].files = mem[b].files
          /\ mem'[b].bytes = mem[b].bytes /\ mem'[b].then = mem[b].then
      BY <2>3 DEF Walk, TypeOK, Memory
    <3>2. /\ pc[b] \in {"before", "after"} /\ pc'[b] \in {"before", "seed", "after", "judge"}
          /\ pc'[b] # "before" \/ pc[b] = "before"
          /\ tool' = tool /\ end' = end
      BY <2>3 DEF Walk, TypeOK, Memory, Goes, At, world, disk
    <3> QED
      BY <1>0, <3>1, <3>2 DEF PosOf, Busy
  <2>4. CASE ExpoReads(b)
    <3>1. tool[b].reads # {} /\ tool'[b].runs = tool[b].runs
      BY <2>4 DEF ExpoReads, TypeOK, Tools
    <3>2. pc' = pc /\ mem' = mem /\ end' = end
      BY <2>4 DEF ExpoReads
    <3> QED
      BY <1>0, <3>1, <3>2 DEF PosOf, Busy, NoTool
  <2>5. CASE ExpoExits(b)
    <3>1. tool'[b] = NoTool
      BY <2>5 DEF ExpoExits, TypeOK
    <3>2. CASE At(b, "done")
      BY <1>0, <2>5, <3>1, <3>2 DEF ExpoExits, Goes, At, PosOf, Busy, NoTool
    <3>3. CASE ~At(b, "done")
      <4>1. pc[b] = "expo" /\ pc'[b] = "after" /\ end' = end
        BY <2>5, <3>3 DEF ExpoExits, Goes, At, TypeOK
      <4>2. /\ mem'[b].cur = mem[b].cur /\ mem'[b].files = mem[b].files
            /\ mem'[b].bytes = mem[b].bytes /\ mem'[b].then = mem[b].then
        <5>1. PICK ok \in BOOLEAN : mem' = [mem EXCEPT ![b].exit = ok, ![b].left = Inputs]
          BY <2>5, <3>3 DEF ExpoExits
        <5>2. mem' = [mem EXCEPT ![b] = [mem[b] EXCEPT !.exit = ok, !.left = Inputs]]
          BY <5>1 DEF TypeOK
        <5> QED
          BY <5>2 DEF TypeOK, Memory
      <4> QED
        BY <1>0, <3>1, <4>1, <4>2 DEF PosOf, Busy, NoTool
    <3> QED
      BY <3>2, <3>3
  <2>6. CASE Judge(b)
    <3>1. CASE Fails(b, "-")
      BY <1>3, <2>6, <3>1 DEF Judge
    <3>2. CASE Goes(b, "judge", "seed") /\ mem' = [mem EXCEPT ![b] = [Fresh EXCEPT !.then = "init"]]
      <4>1. mem'[b].cur = 0 /\ mem'[b].files = 0 /\ mem'[b].bytes = 0
        BY <3>2 DEF TypeOK, Fresh
      <4>2. pc[b] = "judge" /\ pc'[b] = "seed" /\ end' = end /\ tool' = tool
        BY <2>6, <3>2 DEF Judge, Goes, At, TypeOK
      <4> QED
        BY <1>0, <4>1, <4>2 DEF PosOf, Busy
    <3> QED
      BY <2>6, <3>1, <3>2 DEF Judge
  <2>7. CASE Seed(b)
    BY <1>0, <1>3, <1>4, <2>7 DEF Seed, Return, Goes, At, PosOf, Busy, TypeOK
  <2>8. CASE List(b)
    <3>1. CASE Fails(b, "-")
      BY <1>3, <2>8, <3>1 DEF List
    <3>2. CASE Goes(b, "list", "copy") /\ mem' = [mem EXCEPT ![b].todo = DOMAIN seed]
      <4>1. /\ mem'[b].cur = mem[b].cur /\ mem'[b].files = mem[b].files
            /\ mem'[b].bytes = mem[b].bytes /\ mem'[b].then = mem[b].then
        BY <3>2 DEF TypeOK, Memory
      <4> QED
        BY <1>0, <2>8, <3>2, <4>1 DEF List, Goes, At, PosOf, Busy, TypeOK
    <3> QED
      BY <2>8, <3>1, <3>2 DEF List
  <2>9. CASE OpenNext(b) \/ Read(b) \/ Finish(b)
    <3>1. CASE \E why : Fails(b, why)
      BY <1>3, <2>9, <3>1 DEF OpenNext, Read, Finish
    <3>2. CASE ~\E why : Fails(b, why)
      <4>1. pc' = pc /\ end' = end /\ tool' = tool /\ pc[b] = "copy"
        BY <2>9, <3>2 DEF OpenNext, Read, WriteByte, Finish, BetweenTwo, Copying, At
      <4> QED
        BY <1>0, <4>1 DEF PosOf, Busy
    <3> QED
      BY <3>1, <3>2
  <2>10. CASE Mark(b)
    BY <1>3, <1>4, <2>10 DEF Mark, BetweenTwo
  <2>11. CASE WriteScript(b)
    BY <1>0, <1>3, <2>11 DEF WriteScript, Create, Goes, At, PosOf, Busy, TypeOK
  <2>12. CASE StartGradle(b)
    BY <1>0, <2>12 DEF StartGradle, Goes, At, PosOf, Busy, TypeOK, Gradle
  <2>13. CASE GradleExits(b)
    <3>1. tool'[b] = NoTool
      BY <2>13 DEF GradleExits, TypeOK
    <3> QED
      BY <1>0, <1>3, <2>13, <3>1 DEF GradleExits, Goes, At, PosOf, Busy, TypeOK, NoTool
  <2>14. CASE Output(b)
    BY <1>0, <1>2, <1>3, <2>14 DEF Output, Ends, At, PosOf, Busy, TypeOK
  <2>15. CASE Breaks(b)
    BY <1>3, <2>15 DEF Breaks
  <2>16. CASE Killed(b)
    BY <1>0, <1>2, <2>16 DEF Killed, Ends, PosOf, Busy, TypeOK
  <2> QED
    BY <2>1, <2>2, <2>3, <2>4, <2>5, <2>6, <2>7, <2>8, <2>9, <2>10, <2>11, <2>12, <2>13, <2>14,
       <2>15, <2>16 DEF Step, Generating, Seeding, Assembling
<1> QED
  BY <1>1, <1>5 DEF PosInv

-----------------------------------------------------------------------------
(* Builds that are alone.                                                    *)

Working(b) == Busy(b) \/ tool[b] # NoTool

LEMMA AloneStep ==
  ASSUME TypeOK, AloneInv, NEW b \in Builds, Step(b)
  PROVE  AloneInv'
<1> SUFFICES ASSUME NEW c \in Builds, alone'[c], Working(c)' PROVE Others(c)' = {}
  BY DEF AloneInv, Working
<1>1. \A d \in Builds \ {b} : Working(d)' = Working(d)
  BY Leaves DEF Working, Busy
<1>2. CASE Start(b)
  <2>1. alone' = [d \in Builds |-> IF d = b THEN Others(b) = {} ELSE alone[d] /\ d \notin Others(b)]
    BY <1>2 DEF Start
  <2>2. c = b
    BY <1>1, <2>1 DEF Others, Working
  <2>3. Others(b)' = Others(b)
    BY <1>1 DEF Others, Working
  <2> QED
    BY <2>1, <2>2, <2>3
<1>3. CASE ~Start(b)
  <2>1. alone[c] /\ Working(b)
    BY <1>3, AloneStays, AtWork DEF Working
  <2>2. Others(c) = {}
    BY <1>1, <2>1 DEF AloneInv, Working
  <2> QED
    BY <1>1, <2>1, <2>2 DEF Others, Working
<1> QED
  BY <1>2, <1>3

LEMMA DoneStays ==
  ASSUME TypeOK, NEW b \in Builds, Step(b), pc[b] = "done"
  PROVE  pc'[b] = "done" /\ end'[b] = end[b]
<1>1. CASE Opening(b)
  BY <1>1 DEF Opening, Start, RemoveFixed, OpenLog, Create, RemoveHost, Goes, At
<1>2. CASE Generating(b)
  BY <1>2 DEF Generating, CheckHost, Walk, ExpoReads, ExpoExits, Judge, Goes, At
<1>3. CASE Seeding(b)
  BY <1>3 DEF Seeding, Seed, List, OpenNext, Read, Finish, Mark, Return, Goes, At, BetweenTwo,
              Copying
<1>4. CASE Assembling(b)
  BY <1>4 DEF Assembling, WriteScript, Create, StartGradle, GradleExits, Output, Goes, At
<1> QED
  BY <1>1, <1>2, <1>3, <1>4 DEF Step, Breaks, Killed, Busy

\* Only a build's own steps happen while it is alone and has not ended.
LEMMA OwnMoves ==
  ASSUME TypeOK, PosInv, AloneInv, NEW b \in Builds, Step(b), NEW c \in Builds, Own(c)'
  PROVE  c = b /\ (Start(b) \/ (Own(b) /\ Others(b) = {}))
<1>1. c = b
  <2> SUFFICES ASSUME c # b PROVE FALSE
    OBVIOUS
  <2>1. Busy(c)
    BY Leaves DEF Own, Busy
  <2>2. CASE Start(b)
    BY <2>1, <2>2 DEF Start, Own, Others
  <2>3. CASE ~Start(b)
    <3>1. alone[c] /\ Working(b)
      BY <2>3, AloneStays, AtWork DEF Own, Working
    <3> QED
      BY <2>1, <3>1 DEF AloneInv, Others, Working
  <2> QED
    BY <2>2, <2>3
<1>2. ASSUME ~Start(b) PROVE Own(b) /\ Others(b) = {}
  <2>1. alone[b] /\ Working(b)
    BY <1>1, <1>2, AloneStays, AtWork DEF Own, Working
  <2>2. pc[b] # "idle"
    BY <2>1 DEF PosInv, PosOf, Working, Busy
  <2>3. pc[b] # "done"
    BY <1>1, DoneStays DEF Own, Busy
  <2> QED
    BY <2>1, <2>2, <2>3 DEF Own, Busy, AloneInv
<1> QED
  BY <1>1, <1>2

LEMMA NotEnded ==
  ASSUME TypeOK, NEW b \in Builds, Own(b)'
  PROVE  /\ \A why : ~Fails(b, why)
         /\ \A how : ~Ends(b, how)
  BY DEF Fails, Ends, Own, Busy, TypeOK

\* The log and the script.
LEMMA FixedKeeps ==
  ASSUME TypeOK, TypeOK', NEW b \in Builds, Step(b), ~Start(b), Own(b)', FixedOf(b)
  PROVE  FixedOf(b)'
<1>1. CASE Opening(b)
  BY <1>1, NotEnded DEF Opening, RemoveFixed, OpenLog, Create, RemoveHost, Goes, At, FixedOf, TypeOK
<1>2. CASE Generating(b)
  <2>1. fixed' = fixed
    BY <1>2 DEF Generating, CheckHost, Walk, ExpoReads, ExpoExits, Judge, disk
  <2>2. \/ pc'[b] = pc[b]
        \/ pc[b] \in {"check", "before", "expo", "after", "judge"} /\ pc'[b] # "open"
    <3>1. CASE CheckHost(b) \/ Judge(b)
      BY <3>1, NotEnded DEF CheckHost, Judge, Goes, At, TypeOK
    <3>2. CASE Walk(b)
      BY <3>2 DEF Walk, Goes, At, TypeOK
    <3>3. CASE ExpoReads(b) \/ ExpoExits(b)
      BY <3>3 DEF ExpoReads, ExpoExits, Goes, At, TypeOK
    <3> QED
      BY <1>2, <3>1, <3>2, <3>3 DEF Generating
  <2> QED
    BY <2>1, <2>2 DEF FixedOf
<1>3. CASE Seeding(b)
  <2>1. fixed' = fixed
    BY <1>3 DEF Seeding, Seed, List, OpenNext, Read, Finish, Mark, disk
  <2>2. pc[b] \in {"seed", "list", "copy"} /\ pc'[b] # "open"
    BY <1>3, NotEnded DEF Seeding, Seed, List, OpenNext, Read, Finish, Mark, Return, Goes, At,
       BetweenTwo, Copying, WriteByte, TypeOK, Memory
  <2> QED
    BY <2>1, <2>2 DEF FixedOf
<1>4. CASE Assembling(b)
  <2>1. pc'[b] \in {"assemble", "gradle", "output"}
    BY <1>4, NotEnded DEF Assembling, WriteScript, Create, StartGradle, GradleExits, Output, Goes,
       At, Own, Busy, TypeOK
  <2> QED
    BY <2>1 DEF FixedOf
<1> QED
  BY <1>1, <1>2, <1>3, <1>4, NotEnded DEF Step, Breaks, Killed

\* The host that a build generates and assembles, and the inputs it walked.
LEMMA HostKeeps ==
  ASSUME TypeOK, TypeOK', PosInv, NEW b \in Builds, Step(b), ~Start(b), Own(b)', Own(b),
         HostOf(b), WalkOf(b)
  PROVE  HostOf(b)' /\ WalkOf(b)'
<1>0. PosOf(b)
  BY DEF PosInv
<1>1. UNCHANGED <<inputs, past, steady, seed, changes, seeded>>
  BY WorldStays
<1>2. ASSUME NEW p, Generated(b, p), mem'[b].seen = mem[b].seen, pc[b] \notin {"after", "judge"},
             pc'[b] # "expo" \/ tool'[b].reads = Inputs, pc'[b] \notin {"after", "judge"}
      PROVE  Generated(b, p)'
  BY <1>1, <1>2 DEF Generated
<1>3. CASE Opening(b)
  <2>1. CASE RemoveHost(b)
    <3>1. pc[b] = "clean" /\ pc'[b] = "check" /\ host' = NoHost
      BY <2>1, NotEnded DEF RemoveHost, Goes, At, TypeOK
    <3> QED
      BY <3>1 DEF HostOf, WalkOf, Seeds
  <2>2. CASE ~RemoveHost(b)
    <3>1. pc'[b] \in {"open", "clean"}
      BY <1>3, <2>2, NotEnded DEF Opening, RemoveFixed, OpenLog, Create, Goes, At, TypeOK
    <3> QED
      BY <3>1 DEF HostOf, WalkOf, Seeds
  <2> QED
    BY <2>1, <2>2
<1>4. CASE CheckHost(b)
  <2>1. pc[b] = "check" /\ pc'[b] = "before" /\ host' = host /\ mem' = mem
    BY <1>4, NotEnded DEF CheckHost, Goes, At, TypeOK, disk
  <2>2. mem[b].left = Inputs
    BY <1>0, <2>1 DEF PosOf, Fresh
  <2> QED
    BY <2>1, <2>2 DEF HostOf, WalkOf, Seeds
<1>5. CASE Walk(b)
  <2>0. host' = host /\ tool' = tool
    BY <1>5 DEF Walk, disk
  <2>1. PICK f \in mem[b].left :
          \/ /\ Goes(b, "before", IF mem[b].left = {f} THEN "seed" ELSE "before")
             /\ mem' = [mem EXCEPT ![b].left = @ \ {f}, ![b].seen[f] = inputs[f]]
          \/ /\ Goes(b, "after", IF mem[b].left = {f} THEN "judge" ELSE "after")
             /\ mem' = [mem EXCEPT ![b].left = @ \ {f},
                                   ![b].drift = @ \/ inputs[f] # mem[b].seen[f]]
    BY <1>5 DEF Walk
  <2>2. f \in Inputs
    BY DEF TypeOK, Memory
  <2>3. CASE pc[b] = "before"
    <3>1. /\ mem'[b].left = mem[b].left \ {f}
          /\ \A g \in Inputs : mem'[b].seen[g] = IF g = f THEN inputs[g] ELSE mem[b].seen[g]
      BY <2>1, <2>2, <2>3 DEF Goes, At, TypeOK, Memory, Contents
    <3>2. pc'[b] = IF mem[b].left = {f} THEN "seed" ELSE "before"
      BY <2>1, <2>3 DEF Goes, At, TypeOK
    <3>3. steady[b] => \A g \in Inputs \ mem'[b].left : mem'[b].seen[g] <= inputs'[g]
      BY <1>1, <2>3, <3>1, InputsTyped DEF WalkOf
    <3>4. CASE pc'[b] = "before"
      BY <1>1, <2>0, <2>3, <3>3, <3>4 DEF HostOf, WalkOf, Seeds
    <3>5. CASE pc'[b] = "seed"
      <4>1. steady[b] =>
              \A g \in Inputs : mem'[b].seen[g] <= inputs[g] /\ inputs[g] <= inputs'[g]
        BY <1>1, <3>1, <3>2, <3>3, <3>5, InputsTyped
      <4>2. (steady[b] => Generated(b, inputs)') /\ inputs \in past'
        BY <1>1, <3>5, <4>1 DEF Generated, TypeOK
      <4>3. mem'[b].then = "expo" /\ host' = NoHost
        BY <1>0, <2>0, <2>1, <2>2, <2>3 DEF PosOf, HostOf, Goes, At, TypeOK, Memory
      <4> QED
        BY <1>1, <3>5, <4>2, <4>3 DEF HostOf, WalkOf, Seeds
    <3> QED
      BY <3>2, <3>4, <3>5
  <2>4. CASE pc[b] = "after"
    <3>1. /\ mem'[b].left = mem[b].left \ {f} /\ mem'[b].seen = mem[b].seen
          /\ ~mem'[b].drift => ~mem[b].drift /\ inputs[f] = mem[b].seen[f]
      BY <2>1, <2>2, <2>4 DEF Goes, At, TypeOK, Memory
    <3>2. pc'[b] = IF mem[b].left = {f} THEN "judge" ELSE "after"
      BY <2>1, <2>4 DEF Goes, At, TypeOK
    <3>3. ASSUME NEW p \in past, Generated(b, p) PROVE Generated(b, p)'
      <4> SUFFICES ASSUME NEW g \in Inputs
                   PROVE  /\ mem'[b].seen[g] <= p[g] /\ p[g] <= inputs'[g]
                          /\ host'.whole => p[g] <= host'.from[g] /\ host'.from[g] <= inputs'[g]
                          /\ host'.whole /\ ~mem'[b].drift /\ g \notin mem'[b].left =>
                               host'.from[g] <= mem'[b].seen[g]
        BY <3>2 DEF Generated
      <4> QED
        BY <1>1, <2>0, <2>4, <3>1, <3>3 DEF Generated
    <3>4. steady[b] => \E p \in past : Generated(b, p)'
      BY <2>4, <3>3 DEF WalkOf
    <3> QED
      BY <1>1, <2>0, <2>4, <3>1, <3>2, <3>4 DEF HostOf, WalkOf, Seeds
  <2>5. pc[b] = "before" \/ pc[b] = "after"
    BY <2>1 DEF Goes, At
  <2> QED
    BY <2>3, <2>4, <2>5
<1>6. CASE ExpoReads(b)
  <2>1. PICK f \in tool[b].reads :
          /\ tool' = [tool EXCEPT ![b].reads = @ \ {f}]
          /\ host' = [host EXCEPT !.there = TRUE, !.whole = FALSE, !.from[f] = inputs[f]]
    BY <1>6 DEF ExpoReads
  <2>2. f \in Inputs /\ pc' = pc /\ mem' = mem
    BY <1>6 DEF ExpoReads, TypeOK, Tools
  <2>3. pc[b] = "expo"
    BY <1>0, <2>1 DEF PosOf, Own
  <2>4. /\ ~host'.whole /\ host'.apk = host.apk
        /\ \A g \in Inputs : host'.from[g] = IF g = f THEN inputs[g] ELSE host.from[g]
        /\ tool'[b].reads = tool[b].reads \ {f}
    BY <2>1, <2>2 DEF TypeOK, Hosts, Contents, Tools
  <2>5. ASSUME NEW p \in past, Generated(b, p) PROVE Generated(b, p)'
    BY <1>1, <2>2, <2>3, <2>4, <2>5, InputsTyped DEF Generated
  <2>6. steady[b] => \E p \in past : Generated(b, p)'
    BY <2>3, <2>5 DEF WalkOf
  <2> QED
    BY <1>1, <2>2, <2>3, <2>4, <2>6 DEF HostOf, WalkOf, Seeds
<1>7. CASE ExpoExits(b)
  <2>1. pc[b] = "expo" /\ pc'[b] = "after" /\ Goes(b, "expo", "after")
    BY <1>7 DEF ExpoExits, Goes, At, Own, Busy, TypeOK
  <2>2. PICK whole \in BOOLEAN :
          host' = [host EXCEPT !.whole = @ \/ (whole /\ tool[b].reads = {} /\ host.there)]
    BY <1>7 DEF ExpoExits
  <2>3. host'.whole => tool[b].reads = {}
    BY <2>1, <2>2 DEF HostOf, TypeOK, Hosts
  <2>4. host'.from = host.from /\ host'.apk = host.apk
    BY <2>2 DEF TypeOK, Hosts
  <2>5. PICK ok \in BOOLEAN : mem' = [mem EXCEPT ![b].exit = ok, ![b].left = Inputs]
    BY <1>7, <2>1 DEF ExpoExits, At
  <2>6. mem'[b].left = Inputs /\ mem'[b].seen = mem[b].seen
    <3>1. mem' = [mem EXCEPT ![b] = [mem[b] EXCEPT !.exit = ok, !.left = Inputs]]
      BY <2>5 DEF TypeOK
    <3> QED
      BY <3>1 DEF TypeOK, Memory
  <2>7. ASSUME NEW p \in past, Generated(b, p) PROVE Generated(b, p)'
    BY <1>1, <2>1, <2>3, <2>4, <2>6, <2>7 DEF Generated
  <2>8. steady[b] => \E p \in past : Generated(b, p)'
    BY <2>1, <2>7 DEF WalkOf
  <2> QED
    BY <1>1, <2>1, <2>4, <2>8 DEF HostOf, WalkOf, Seeds
<1>8. CASE Judge(b)
  <2>1. /\ ~mem[b].drift /\ host.whole /\ host' = host
        /\ pc[b] = "judge" /\ pc'[b] = "seed"
        /\ mem' = [mem EXCEPT ![b] = [Fresh EXCEPT !.then = "init"]]
    BY <1>8, NotEnded DEF Judge, Goes, At, TypeOK, disk
  <2>2. mem'[b].then = "init"
    BY <2>1 DEF TypeOK, Fresh
  <2>3. ASSUME NEW p \in past, Generated(b, p) PROVE host.from = p
    <3>1. p \in Contents /\ host.from \in Contents /\ mem[b].seen \in Contents
      BY InputsTyped DEF TypeOK, Hosts, Memory
    <3>2. ASSUME NEW f \in Inputs PROVE host.from[f] = p[f]
      <4>1. p[f] \in Nat /\ host.from[f] \in Nat /\ mem[b].seen[f] \in Nat
        BY <3>1 DEF Contents
      <4>2. mem[b].seen[f] <= p[f] /\ p[f] <= host.from[f] /\ host.from[f] <= mem[b].seen[f]
        BY <2>1, <2>3 DEF Generated, WalkOf
      <4> QED
        BY <4>1, <4>2
    <3> QED
      BY <3>1, <3>2 DEF Contents
  <2>4. steady[b] => host.from \in past
    BY <2>1, <2>3 DEF WalkOf
  <2> QED
    BY <1>1, <2>1, <2>2, <2>4 DEF HostOf, WalkOf, Seeds
<1>9. CASE Seeding(b)
  <2>1. host' = host
    BY <1>9 DEF Seeding, Seed, List, OpenNext, Read, Finish, Mark, disk
  <2>2. CASE Return(b, "seed") \/ Return(b, "copy")
    <3>1. /\ Seeds(b, mem[b].then) /\ pc'[b] = mem[b].then /\ mem[b].then \in {"expo", "init"}
          /\ mem'[b].seen = mem[b].seen /\ (mem[b].then = "expo" => tool'[b].reads = Inputs)
      BY <2>2 DEF Return, Goes, At, Seeds, TypeOK, Memory, Expo
    <3>2. CASE mem[b].then = "init"
      BY <1>1, <2>1, <3>1, <3>2 DEF HostOf, WalkOf, Seeds
    <3>3. CASE mem[b].then = "expo"
      <4>1. ASSUME NEW p \in past, Generated(b, p) PROVE Generated(b, p)'
        BY <1>2, <3>1, <3>3, <4>1 DEF Seeds
      <4>2. steady[b] => \E p \in past : Generated(b, p)'
        BY <3>1, <3>3, <4>1 DEF WalkOf
      <4>3. ~host.whole /\ host.apk = None
        BY <3>1, <3>3 DEF HostOf, NoHost
      <4> QED
        BY <1>1, <2>1, <3>1, <3>3, <4>2, <4>3 DEF HostOf, WalkOf, Seeds
    <3> QED
      BY <3>1, <3>2, <3>3
  <2>3. CASE ~(Return(b, "seed") \/ Return(b, "copy"))
    <3>1. pc[b] \in {"seed", "list", "copy"} /\ pc'[b] \in {"list", "copy"}
      BY <1>9, <2>3, NotEnded DEF Seeding, Seed, List, OpenNext, Read, WriteByte, Finish, Mark,
         Goes, At, BetweenTwo, Copying, TypeOK
    <3>2. mem'[b].seen = mem[b].seen /\ mem'[b].then = mem[b].then
      BY <1>9, <2>3, NotEnded DEF Seeding, Seed, List, OpenNext, Read, WriteByte, Finish, Mark,
         TypeOK, Memory
    <3>3. CASE mem[b].then = "expo"
      <4>1. ASSUME NEW p \in past, Generated(b, p) PROVE Generated(b, p)'
        BY <1>2, <3>1, <3>2, <4>1
      <4>2. steady[b] => \E p \in past : Generated(b, p)'
        BY <3>1, <3>3, <4>1 DEF WalkOf, Seeds
      <4> QED
        BY <1>1, <2>1, <3>1, <3>2, <3>3, <4>2 DEF HostOf, WalkOf, Seeds
    <3>4. CASE mem[b].then # "expo"
      BY <1>1, <2>1, <3>1, <3>2, <3>4 DEF HostOf, WalkOf, Seeds
    <3> QED
      BY <3>3, <3>4
  <2> QED
    BY <2>2, <2>3
<1>10. CASE Assembling(b)
  <2>1. CASE WriteScript(b) \/ StartGradle(b)
    <3>1. /\ pc[b] \in {"init", "assemble"} /\ pc'[b] \in {"assemble", "gradle"}
          /\ host' = host
      BY <2>1, NotEnded DEF WriteScript, Create, StartGradle, Goes, At, TypeOK
    <3> QED
      BY <1>1, <3>1 DEF HostOf, WalkOf, Seeds
  <2>2. CASE GradleExits(b)
    <3>1. pc[b] = "gradle" /\ pc'[b] = "output"
      BY <2>2, NotEnded DEF GradleExits, Goes, At, Own, Busy, TypeOK
    <3>2. host' = host \/ host' = [host EXCEPT !.apk = [by |-> b, from |-> host.from]]
      BY <2>2 DEF GradleExits
    <3>3. /\ host'.from = host.from
          /\ host'.apk = host.apk \/ host'.apk = [by |-> b, from |-> host.from]
      BY <3>2 DEF TypeOK, Hosts
    <3>4. host.apk = None /\ (steady[b] => host.from \in past)
      BY <3>1 DEF HostOf
    <3>5. host'.apk = None \/ OwnApk(b, host.apk)'
      BY <1>1, <3>3, <3>4 DEF OwnApk
    <3> QED
      BY <1>1, <3>1, <3>3, <3>5 DEF HostOf, WalkOf, Seeds
  <2>3. ~Output(b)
    BY NotEnded DEF Output
  <2> QED
    BY <1>10, <2>1, <2>2, <2>3 DEF Assembling
<1> QED
  BY <1>3, <1>4, <1>5, <1>6, <1>7, <1>8, <1>9, <1>10, NotEnded DEF Step, Generating, Breaks, Killed

-----------------------------------------------------------------------------
(* The files of the cache, by the build that copied them.                    *)

\* CopiedBy and BytesBy of any files.
ByIn(F, b)    == {n \in DOMAIN F : F[n].by = b}
BytesIn(F, b) == UNION {{n} \X (1..F[n].bytes) : n \in ByIn(F, b)}

LEMMA ByteIn ==
  ASSUME NEW F, NEW b, NEW x
  PROVE  x \in BytesIn(F, b) <=> \E n \in ByIn(F, b) : \E i \in 1..F[n].bytes : x = <<n, i>>
  BY DEF BytesIn

LEMMA SameBytes ==
  ASSUME NEW F, NEW G, NEW b, ByIn(G, b) = ByIn(F, b),
         \A n \in ByIn(F, b) : G[n].bytes = F[n].bytes
  PROVE  BytesIn(G, b) = BytesIn(F, b)
<1>1. \A x : x \in BytesIn(G, b) <=> x \in BytesIn(F, b)
  BY ByteIn
<1> QED
  BY <1>1

LEMMA MoreBytes ==
  ASSUME NEW F, NEW G, NEW b, ByIn(G, b) = ByIn(F, b), NEW k \in ByIn(F, b), F[k].bytes \in Nat,
         G[k].bytes = F[k].bytes + 1, \A n \in ByIn(F, b) \ {k} : G[n].bytes = F[n].bytes
  PROVE  /\ BytesIn(G, b) = BytesIn(F, b) \cup {<<k, F[k].bytes + 1>>}
         /\ <<k, F[k].bytes + 1>> \notin BytesIn(F, b)
<1> DEFINE y == <<k, F[k].bytes + 1>>
<1>1. y \notin BytesIn(F, b)
  BY ByteIn
<1>2. ASSUME NEW x, x \in BytesIn(G, b) PROVE x \in BytesIn(F, b) \cup {y}
  <2>1. PICK n \in ByIn(F, b) : \E i \in 1..G[n].bytes : x = <<n, i>>
    BY <1>2, ByteIn
  <2>2. PICK i \in 1..G[n].bytes : x = <<n, i>>
    BY <2>1
  <2>3. CASE n = k
    <3>1. i \in 1..F[n].bytes \/ i = F[k].bytes + 1
      BY <2>2, <2>3
    <3> QED
      BY <2>2, <2>3, <3>1, ByteIn
  <2>4. CASE n # k
    BY <2>2, <2>4, ByteIn
  <2> QED
    BY <2>3, <2>4
<1>3. ASSUME NEW x, x \in BytesIn(F, b) \cup {y} PROVE x \in BytesIn(G, b)
  <2>1. CASE x = y
    <3>1. F[k].bytes + 1 \in 1..G[k].bytes
      OBVIOUS
    <3> QED
      BY <2>1, <3>1, ByteIn
  <2>2. CASE x \in BytesIn(F, b)
    <3>1. PICK n \in ByIn(F, b) : \E i \in 1..F[n].bytes : x = <<n, i>>
      BY <2>2, ByteIn
    <3>2. PICK i \in 1..F[n].bytes : x = <<n, i>>
      BY <3>1
    <3>3. i \in 1..G[n].bytes
      <4>1. CASE n = k
        BY <4>1
      <4>2. CASE n # k
        BY <4>2
      <4> QED
        BY <4>1, <4>2
    <3> QED
      BY <3>2, <3>3, ByteIn
  <2> QED
    BY <1>3, <2>1, <2>2
<1> QED
  BY <1>1, <1>2, <1>3

\* No file of a build has more bytes than a file may have: what it copied is finite.
LEMMA BytesFinite ==
  ASSUME NEW F, NEW b, DOMAIN F \subseteq Names, \A n \in ByIn(F, b) : F[n].bytes <= MaxFileBytes,
         \A n \in ByIn(F, b) : F[n].bytes \in Nat
  PROVE  IsFiniteSet(ByIn(F, b)) /\ IsFiniteSet(BytesIn(F, b))
<1>1. IsFiniteSet(ByIn(F, b))
  BY NamesAssumption, FS_Subset DEF ByIn
<1>2. IsFiniteSet(Names \X (1..MaxFileBytes))
  <2>1. IsFiniteSet(1..MaxFileBytes)
    BY LimitsAssumption, FS_Interval
  <2> QED
    BY <2>1, NamesAssumption, FS_Product
<1>3. BytesIn(F, b) \subseteq Names \X (1..MaxFileBytes)
  <2> SUFFICES ASSUME NEW x \in BytesIn(F, b) PROVE x \in Names \X (1..MaxFileBytes)
    OBVIOUS
  <2>1. PICK n \in ByIn(F, b) : \E i \in 1..F[n].bytes : x = <<n, i>>
    BY ByteIn
  <2>2. PICK i \in 1..F[n].bytes : x = <<n, i>>
    BY <2>1
  <2>3. n \in Names /\ i \in 1..MaxFileBytes
    BY <2>2, LimitsAssumption DEF ByIn
  <2> QED
    BY <2>2, <2>3
<1> QED
  BY <1>1, <1>2, <1>3, FS_Subset

\* What the three steps of a copy do to the files of the cache.
Opened(b, n) ==
  /\ n \in Names /\ n \in DOMAIN seed /\ n \notin DOMAIN cache.files
  /\ mem[b].files < MaxFiles
  /\ cache'.files = With(cache.files, n, [by |-> b, bytes |-> 0, whole |-> FALSE])
  /\ mem' = [mem EXCEPT ![b].cur = n, ![b].size = seed[n], ![b].files = @ + 1]
Written(b, k) ==
  /\ k \in CopiedBy(b) /\ k = mem[b].cur
  /\ cache.files[k].bytes < MaxFileBytes /\ mem[b].bytes < MaxTotalBytes
  /\ cache'.files = [cache.files EXCEPT ![k].bytes = @ + 1]
  /\ mem' = [mem EXCEPT ![b].bytes = @ + 1]
Finished(b, k) ==
  /\ k \in CopiedBy(b) /\ k = mem[b].cur
  /\ cache'.files = [cache.files EXCEPT ![k].whole = TRUE]
  /\ mem' = [mem EXCEPT ![b].todo = @ \ {k}, ![b].cur = 0]
InCopy(b) == pc[b] = "copy" /\ UNCHANGED <<pc, end, tool, marker>> /\ cache'.there = cache.there

NoCopy(b) ==
  cache'.files = cache.files /\ (pc'[b] \notin {"list", "copy"} \/ Seed(b) \/ List(b))

LEMMA CacheMoves ==
  ASSUME TypeOK, PosInv, CopyInv, NEW b \in Builds, Step(b)
  PROVE  \/ NoCopy(b)
         \/ InCopy(b) /\ BetweenTwo(b) /\ OpenNext(b) /\ \E n : Opened(b, n)
         \/ InCopy(b) /\ \E k : Written(b, k)
         \/ InCopy(b) /\ \E k : Finished(b, k)
<1>0. \A why : Fails(b, why) => pc'[b] = "done"
  BY DEF Fails, Ends, TypeOK
<1>1. CASE Opening(b) \/ Generating(b) \/ Assembling(b) \/ Breaks(b) \/ Killed(b)
  <2>1. cache'.files = cache.files
    <3>1. CASE StartGradle(b)
      BY <3>1, CacheParts DEF StartGradle, CacheIs
    <3>2. CASE ~StartGradle(b)
      BY <1>1, <3>2 DEF Opening, Start, RemoveFixed, OpenLog, Create, RemoveHost, Generating,
         CheckHost, Walk, ExpoReads, ExpoExits, Judge, Assembling, WriteScript, GradleExits, Output,
         Breaks, Killed, disk
    <3> QED
      BY <3>1, <3>2
  <2>2. pc'[b] \notin {"list", "copy"}
    <3>1. CASE Opening(b)
      BY <1>0, <3>1 DEF Opening, Start, RemoveFixed, OpenLog, Create, RemoveHost, Goes, TypeOK
    <3>2. CASE Generating(b) /\ ~ExpoReads(b)
      BY <1>0, <3>2 DEF Generating, CheckHost, Walk, ExpoExits, Judge, Goes, At, TypeOK
    <3>3. CASE ExpoReads(b)
      <4>1. tool[b].reads # {} /\ pc' = pc
        BY <3>3 DEF ExpoReads
      <4> QED
        BY <4>1 DEF PosInv, PosOf, Busy
    <3>4. CASE Assembling(b)
      BY <1>0, <3>4 DEF Assembling, WriteScript, Create, StartGradle, GradleExits, Output, Ends,
         Goes, At, TypeOK
    <3>5. CASE Breaks(b) \/ Killed(b)
      BY <1>0, <3>5 DEF Breaks, Killed, Ends, TypeOK
    <3> QED
      BY <1>1, <3>1, <3>2, <3>3, <3>4, <3>5
  <2> QED
    BY <2>1, <2>2 DEF NoCopy
<1>2. CASE Seed(b) \/ List(b) \/ Mark(b)
  <2>1. Mark(b) => pc'[b] \notin {"list", "copy"}
    BY <1>0 DEF Mark, Return, Goes, TypeOK, Memory
  <2> QED
    BY <1>2, <2>1, CacheParts DEF Seed, List, Mark, CacheIs, disk, NoCopy
<1>3. CASE OpenNext(b)
  <2>1. CASE UNCHANGED cache /\ \E why : Fails(b, why)
    BY <1>0, <2>1 DEF NoCopy
  <2>2. CASE ~(UNCHANGED cache /\ \E why : Fails(b, why))
    <3> DEFINE n == Min(mem[b].todo)
    <3>1. /\ cache' = [cache EXCEPT !.files = With(@, n, [by |-> b, bytes |-> 0, whole |-> FALSE])]
          /\ mem' = [mem EXCEPT ![b].cur = n, ![b].size = seed[n], ![b].files = @ + 1]
          /\ n \in DOMAIN seed /\ n \notin DOMAIN cache.files /\ mem[b].files < MaxFiles
          /\ BetweenTwo(b) /\ UNCHANGED <<pc, end, tool, marker>>
      BY <1>3, <2>2 DEF OpenNext
    <3>2. n \in Names
      BY <3>1 DEF TypeOK
    <3> HIDE DEF n
    <3>3. CacheIs(cache.there, With(cache.files, n, [by |-> b, bytes |-> 0, whole |-> FALSE]))
      BY <3>1, CacheParts
    <3>4. Opened(b, n) /\ InCopy(b)
      BY <3>1, <3>2, <3>3 DEF Opened, InCopy, CacheIs, BetweenTwo, At
    <3> QED
      BY <1>3, <3>1, <3>4
  <2> QED
    BY <2>1, <2>2
<1>4. CASE Read(b)
  <2>1. CASE UNCHANGED cache /\ \E why : Fails(b, why)
    BY <1>0, <2>1 DEF NoCopy
  <2>2. CASE ~(UNCHANGED cache /\ \E why : Fails(b, why))
    <3> DEFINE k == mem[b].cur
    <3>1. /\ cache' = [cache EXCEPT !.files[k].bytes = @ + 1]
          /\ mem' = [mem EXCEPT ![b].bytes = @ + 1]
          /\ cache.files[k].bytes < MaxFileBytes /\ mem[b].bytes < MaxTotalBytes
          /\ Copying(b) /\ UNCHANGED <<pc, end, tool, marker>>
      BY <1>4, <2>2 DEF Read, WriteByte, Copied
    <3>2. k \in CopiedBy(b)
      BY <3>1 DEF Copying, At, CopyInv, CopyOf
    <3>3. CacheIs(cache.there, [cache.files EXCEPT ![k].bytes = @ + 1])
      BY <3>1, CacheParts
    <3>4. Written(b, k) /\ InCopy(b)
      BY <3>1, <3>2, <3>3 DEF Written, InCopy, CacheIs, Copying, At
    <3> QED
      BY <3>4
  <2> QED
    BY <2>1, <2>2
<1>5. CASE Finish(b)
  <2>1. CASE UNCHANGED cache /\ \E why : Fails(b, why)
    BY <1>0, <2>1 DEF NoCopy
  <2>2. CASE ~(UNCHANGED cache /\ \E why : Fails(b, why))
    <3> DEFINE k == mem[b].cur
    <3>1. /\ cache' = [cache EXCEPT !.files[k].whole = TRUE]
          /\ mem' = [mem EXCEPT ![b].todo = @ \ {k}, ![b].cur = 0]
          /\ Copying(b) /\ UNCHANGED <<pc, end, tool, marker>>
      BY <1>5, <2>2 DEF Finish
    <3>2. k \in CopiedBy(b)
      BY <3>1 DEF Copying, At, CopyInv, CopyOf
    <3>3. CacheIs(cache.there, [cache.files EXCEPT ![k].whole = TRUE])
      BY <3>1, CacheParts
    <3>4. Finished(b, k) /\ InCopy(b)
      BY <3>1, <3>2, <3>3 DEF Finished, InCopy, CacheIs, Copying, At
    <3> QED
      BY <3>4
  <2> QED
    BY <2>1, <2>2
<1> QED
  BY <1>1, <1>2, <1>3, <1>4, <1>5 DEF Step, Seeding

\* A step of one build leaves what another has copied; nothing is taken from the cache.
LEMMA CopiesStay ==
  ASSUME TypeOK, PosInv, CopyInv, NEW b \in Builds, Step(b)
  PROVE  /\ \A c \in Builds \ {b} : CopiedBy(c)' = CopiedBy(c) /\ BytesBy(c)' = BytesBy(c)
         /\ \A n \in DOMAIN cache.files :
              /\ n \in DOMAIN cache'.files /\ cache'.files[n].by = cache.files[n].by
              /\ cache.files[n].whole => cache'.files[n].whole
              /\ cache.files[n].by # b => cache'.files[n] = cache.files[n]
<1>1. /\ \A n \in DOMAIN cache.files :
          /\ n \in DOMAIN cache'.files /\ cache'.files[n].by = cache.files[n].by
          /\ cache.files[n].whole => cache'.files[n].whole
          /\ cache.files[n].by # b => cache'.files[n] = cache.files[n]
      /\ \A n \in DOMAIN cache'.files \ DOMAIN cache.files : cache'.files[n].by = b
  <2>1. CASE cache'.files = cache.files
    BY <2>1
  <2>2. CASE \E n : Opened(b, n)
    BY <2>2 DEF Opened, With
  <2>3. CASE \E k : Written(b, k)
    BY <2>3 DEF Written, CopiedBy, TypeOK, Files
  <2>4. CASE \E k : Finished(b, k)
    BY <2>4 DEF Finished, CopiedBy, TypeOK, Files
  <2> QED
    BY <2>1, <2>2, <2>3, <2>4, CacheMoves DEF NoCopy
<1>2. ASSUME NEW c \in Builds \ {b} PROVE CopiedBy(c)' = CopiedBy(c) /\ BytesBy(c)' = BytesBy(c)
  <2>1. ByIn(cache'.files, c) = ByIn(cache.files, c)
    BY <1>1 DEF ByIn
  <2>2. BytesIn(cache'.files, c) = BytesIn(cache.files, c)
    BY <1>1, <2>1, SameBytes DEF ByIn
  <2> QED
    BY <2>1, <2>2 DEF CopiedBy, BytesBy, ByIn, BytesIn
<1> QED
  BY <1>1, <1>2

-----------------------------------------------------------------------------
(* The copy, its limits and the marker.                                      *)

LEMMA CacheGrows ==
  ASSUME TypeOK, NEW b \in Builds, Step(b)
  PROVE  /\ cache.there => cache'.there
         /\ cache'.there => cache.there \/ List(b) \/ StartGradle(b)
         /\ marker # None => marker' = marker
         /\ \/ marker' = marker
            \/ /\ marker = None /\ marker' = b /\ BetweenTwo(b) /\ mem[b].todo = {}
               /\ Return(b, "copy") /\ cache' = cache
<1>1. CASE Opening(b) \/ Generating(b) \/ Breaks(b) \/ Killed(b)
  BY <1>1 DEF Opening, Start, RemoveFixed, OpenLog, Create, RemoveHost, Generating, CheckHost,
       Walk, ExpoReads, ExpoExits, Judge, Breaks, Killed, disk
<1>2. CASE Assembling(b)
  BY <1>2, CacheParts DEF Assembling, WriteScript, Create, StartGradle, GradleExits, Output, disk,
       CacheIs
<1>3. CASE Seed(b) \/ List(b) \/ Mark(b)
  BY <1>3, CacheParts DEF Seed, List, Mark, CacheIs, disk
<1>4. CASE OpenNext(b) \/ Read(b) \/ Finish(b)
  BY <1>4, CacheParts DEF OpenNext, Read, WriteByte, Finish, CacheIs
<1> QED
  BY <1>1, <1>2, <1>3, <1>4 DEF Step, Seeding

\* What a build copied keeps to the limits.
Limited(b) ==
  /\ Cardinality(CopiedBy(b)) <= MaxFiles
  /\ Cardinality(BytesBy(b)) <= MaxTotalBytes
  /\ \A n \in CopiedBy(b) : cache.files[n].bytes <= MaxFileBytes

LEMMA CopyOfOthers ==
  ASSUME TypeOK, PosInv, CopyInv, CopyWithinLimits, NEW b \in Builds, Step(b),
         NEW c \in Builds, c # b
  PROVE  CopyOf(c)' /\ Limited(c)'
<1>1. pc'[c] = pc[c] /\ mem'[c] = mem[c] /\ changes' = changes
  BY Leaves, WorldStays
<1>2. CopiedBy(c)' = CopiedBy(c) /\ BytesBy(c)' = BytesBy(c)
  BY CopiesStay
<1>3. \A n \in CopiedBy(c) : cache'.files[n] = cache.files[n]
  BY CopiesStay DEF CopiedBy
<1>4. CopyOf(c) /\ Limited(c)
  BY DEF CopyInv, CopyWithinLimits, Limited
<1>5. CopyOf(c)'
  BY <1>1, <1>2, <1>3, <1>4, CacheGrows DEF CopyOf
<1>6. Limited(c)'
  BY <1>2, <1>3, <1>4 DEF Limited
<1> QED
  BY <1>5, <1>6

LEMMA CopyKeeps ==
  ASSUME TypeOK, TypeOK', PosInv, SeedInv, CacheInv, CopyInv, CopyWithinLimits,
         NEW b \in Builds, Step(b)
  PROVE  CopyOf(b)' /\ Limited(b)'
<1>0. /\ CopyOf(b) /\ Limited(b) /\ PosOf(b) /\ changes' = changes
      /\ mem[b] \in Memory /\ mem'[b] \in Memory
  BY WorldStays DEF CopyInv, CopyWithinLimits, Limited, PosInv, TypeOK
<1>1. /\ CopiedBy(b) = ByIn(cache.files, b) /\ BytesBy(b) = BytesIn(cache.files, b)
      /\ CopiedBy(b)' = ByIn(cache'.files, b) /\ BytesBy(b)' = BytesIn(cache'.files, b)
  BY DEF CopiedBy, BytesBy, ByIn, BytesIn
<1>2. IsFiniteSet(CopiedBy(b)) /\ IsFiniteSet(BytesBy(b))
  <2>1. DOMAIN cache.files \subseteq Names
    BY DEF TypeOK
  <2>2. \A n \in ByIn(cache.files, b) : cache.files[n].bytes \in Nat
    BY DEF TypeOK, Files, ByIn
  <2>3. \A n \in ByIn(cache.files, b) : cache.files[n].bytes <= MaxFileBytes
    BY <1>0, <1>1 DEF Limited
  <2> QED
    BY <1>1, <2>1, <2>2, <2>3, BytesFinite
<1>3. CASE NoCopy(b)
  <2>1. CopiedBy(b)' = CopiedBy(b) /\ BytesBy(b)' = BytesBy(b)
    BY <1>1, <1>3 DEF NoCopy
  <2>2. Limited(b)'
    BY <1>0, <1>3, <2>1 DEF Limited, NoCopy
  <2>3. CASE pc'[b] \notin {"list", "copy"}
    BY <2>2, <2>3 DEF CopyOf
  <2>4. CASE Seed(b) /\ pc'[b] \in {"list", "copy"}
    <3>1. pc'[b] = "list" /\ ~cache.there
      BY <2>4 DEF Seed, Return, Goes, At, Fails, Ends, TypeOK, Memory
    <3>2. CopiedBy(b) = {}
      BY <3>1 DEF CacheInv, CopiedBy
    <3> QED
      BY <2>1, <2>2, <3>1, <3>2 DEF CopyOf
  <2>5. CASE List(b) /\ pc'[b] \in {"list", "copy"}
    <3>1. /\ pc[b] = "list" /\ pc'[b] = "copy" /\ mem'[b].todo = DOMAIN seed
          /\ mem'[b].cur = 0 /\ mem'[b].files = 0 /\ mem'[b].bytes = 0
      BY <1>0, <2>5 DEF List, Goes, At, Fails, Ends, PosOf, TypeOK, Memory
    <3>5. cache'.there
      BY <2>5, CacheParts DEF List, CacheIs
    <3>2. CopiedBy(b) = {}
      BY <1>0, <3>1 DEF CopyOf
    <3>3. BytesBy(b) = {}
      BY <3>2 DEF BytesBy
    <3>4. changes.seed # "names" => Prepared \ DOMAIN seed = {}
      BY DEF SeedInv
    <3> QED
      BY <1>0, <2>1, <2>2, <3>1, <3>2, <3>3, <3>4, <3>5, FS_EmptySet DEF CopyOf
  <2> QED
    BY <1>3, <2>3, <2>4, <2>5 DEF NoCopy
<1>4. CASE InCopy(b) /\ BetweenTwo(b) /\ \E n : Opened(b, n)
  <2>1. PICK n : Opened(b, n)
    BY <1>4
  <2>2. /\ pc[b] = "copy" /\ pc'[b] = "copy" /\ mem[b].cur = 0
        /\ mem'[b].cur = n /\ mem'[b].files = mem[b].files + 1 /\ mem'[b].bytes = mem[b].bytes
        /\ mem'[b].todo = mem[b].todo
    BY <1>4, <2>1 DEF InCopy, BetweenTwo, At, Opened, TypeOK, Memory
  <2>3. /\ n \notin DOMAIN cache.files /\ DOMAIN cache'.files = DOMAIN cache.files \cup {n}
        /\ cache'.files[n] = [by |-> b, bytes |-> 0, whole |-> FALSE]
        /\ \A m \in DOMAIN cache.files : cache'.files[m] = cache.files[m]
    BY <2>1 DEF Opened, With
  <2>4. CopiedBy(b)' = CopiedBy(b) \cup {n} /\ n \notin CopiedBy(b) /\ 0 \notin CopiedBy(b)
    BY <2>3, NamesAssumption DEF CopiedBy, TypeOK
  <2>5. BytesBy(b)' = BytesBy(b)
    <3>1. \A x : x \in BytesBy(b)' <=> x \in BytesBy(b)
      <4> SUFFICES ASSUME NEW x
                   PROVE  x \in BytesIn(cache'.files, b) <=> x \in BytesIn(cache.files, b)
        BY <1>1
      <4>1. 1..cache'.files[n].bytes = {}
        BY <2>3
      <4> QED
        BY <1>1, <2>3, <2>4, <4>1, ByteIn DEF ByIn
    <3> QED
      BY <3>1
  <2>6. Cardinality(CopiedBy(b)') = Cardinality(CopiedBy(b)) + 1
    BY <1>2, <2>4, FS_AddElement
  <2>7. /\ mem[b].files = Cardinality(CopiedBy(b)) /\ mem[b].bytes = Cardinality(BytesBy(b))
        /\ \A m \in CopiedBy(b) : cache.files[m].whole /\ m \notin mem[b].todo
        /\ changes.seed # "names" => Prepared \ mem[b].todo \subseteq CopiedBy(b)
    BY <1>0, <2>2, <2>4 DEF CopyOf
  <2>8. CopyOf(b)'
    <3>1. \A m \in CopiedBy(b)' \ {n} : cache'.files[m].whole /\ m \notin mem[b].todo
      BY <2>3, <2>4, <2>7 DEF CopiedBy
    <3> QED
      BY <1>0, <1>4, <2>2, <2>4, <2>5, <2>6, <2>7, <3>1 DEF CopyOf, InCopy
  <2>9. Limited(b)'
    <3>1. Cardinality(CopiedBy(b)') <= MaxFiles
      BY <1>0, <2>1, <2>6, <2>7, LimitsAssumption DEF Opened, Memory
    <3>2. \A m \in CopiedBy(b)' : cache'.files[m].bytes <= MaxFileBytes
      BY <1>0, <2>3, <2>4, LimitsAssumption DEF Limited, CopiedBy
    <3> QED
      BY <1>0, <2>5, <3>1, <3>2 DEF Limited
  <2> QED
    BY <2>8, <2>9
<1>5. CASE InCopy(b) /\ \E k : Written(b, k)
  <2>1. PICK k : Written(b, k)
    BY <1>5
  <2>2. /\ pc[b] = "copy" /\ pc'[b] = "copy" /\ k \in CopiedBy(b) /\ k = mem[b].cur
        /\ mem'[b].cur = k /\ mem'[b].files = mem[b].files /\ mem'[b].bytes = mem[b].bytes + 1
        /\ mem'[b].todo = mem[b].todo
    BY <1>5, <2>1 DEF InCopy, Written, TypeOK, Memory
  <2>3. /\ DOMAIN cache'.files = DOMAIN cache.files /\ cache.files[k].bytes \in Nat
        /\ cache'.files[k].bytes = cache.files[k].bytes + 1 /\ cache'.files[k].by = b
        /\ \A m \in DOMAIN cache.files \ {k} : cache'.files[m] = cache.files[m]
    <3>1. k \in DOMAIN cache.files /\ cache.files[k] \in Files /\ cache.files[k].by = b
      BY <2>2 DEF CopiedBy, TypeOK
    <3>2. cache'.files = [cache.files EXCEPT ![k] = [cache.files[k] EXCEPT !.bytes = @ + 1]]
      BY <2>1 DEF Written
    <3> QED
      BY <3>1, <3>2 DEF Files
  <2>4. CopiedBy(b)' = CopiedBy(b)
    BY <2>2, <2>3 DEF CopiedBy
  <2>5. /\ BytesBy(b)' = BytesBy(b) \cup {<<k, cache.files[k].bytes + 1>>}
        /\ <<k, cache.files[k].bytes + 1>> \notin BytesBy(b)
    <3>1. \A n \in CopiedBy(b) \ {k} : cache'.files[n].bytes = cache.files[n].bytes
      BY <2>3 DEF CopiedBy
    <3>2. /\ ByIn(cache'.files, b) = ByIn(cache.files, b) /\ k \in ByIn(cache.files, b)
          /\ \A n \in ByIn(cache.files, b) \ {k} : cache'.files[n].bytes = cache.files[n].bytes
      BY <1>1, <2>2, <2>4, <3>1
    <3>3. /\ BytesIn(cache'.files, b) =
               BytesIn(cache.files, b) \cup {<<k, cache.files[k].bytes + 1>>}
          /\ <<k, cache.files[k].bytes + 1>> \notin BytesIn(cache.files, b)
      BY <2>3, <3>2, MoreBytes
    <3> QED
      BY <1>1, <3>3
  <2>6. Cardinality(BytesBy(b)') = Cardinality(BytesBy(b)) + 1
    BY <1>2, <2>5, FS_AddElement
  <2>7. /\ mem[b].files = Cardinality(CopiedBy(b)) /\ mem[b].bytes = Cardinality(BytesBy(b))
        /\ \A m \in CopiedBy(b) \ {k} : cache.files[m].whole /\ m \notin mem[b].todo
        /\ changes.seed # "names" => Prepared \ mem[b].todo \subseteq CopiedBy(b)
    BY <1>0, <2>2 DEF CopyOf
  <2>8. CopyOf(b)'
    <3>1. \A m \in CopiedBy(b) \ {k} : cache'.files[m].whole /\ m \notin mem[b].todo
      BY <2>3, <2>7 DEF CopiedBy
    <3> QED
      BY <1>0, <1>5, <2>2, <2>4, <2>6, <2>7, <3>1 DEF CopyOf, InCopy
  <2>9. Limited(b)'
    <3>1. Cardinality(BytesBy(b)') <= MaxTotalBytes
      BY <1>0, <2>1, <2>6, <2>7, LimitsAssumption DEF Written, Memory
    <3>2. cache'.files[k].bytes <= MaxFileBytes
      BY <2>1, <2>3, LimitsAssumption DEF Written
    <3>3. \A m \in CopiedBy(b) : cache'.files[m].bytes <= MaxFileBytes
      BY <1>0, <2>3, <3>2 DEF Limited, CopiedBy
    <3> QED
      BY <1>0, <2>4, <3>1, <3>3 DEF Limited
  <2> QED
    BY <2>8, <2>9
<1>6. CASE InCopy(b) /\ \E k : Finished(b, k)
  <2>1. PICK k : Finished(b, k)
    BY <1>6
  <2>2. /\ pc[b] = "copy" /\ pc'[b] = "copy" /\ k \in CopiedBy(b) /\ k = mem[b].cur
        /\ mem'[b].cur = 0 /\ mem'[b].files = mem[b].files /\ mem'[b].bytes = mem[b].bytes
        /\ mem'[b].todo = mem[b].todo \ {k}
    BY <1>6, <2>1 DEF InCopy, Finished, TypeOK, Memory
  <2>3. /\ DOMAIN cache'.files = DOMAIN cache.files /\ cache'.files[k].whole
        /\ cache'.files[k].bytes = cache.files[k].bytes /\ cache'.files[k].by = b
        /\ \A m \in DOMAIN cache.files \ {k} : cache'.files[m] = cache.files[m]
    BY <2>1, <2>2 DEF Finished, CopiedBy, TypeOK, Files
  <2>4. CopiedBy(b)' = CopiedBy(b)
    BY <2>2, <2>3 DEF CopiedBy
  <2>5. BytesBy(b)' = BytesBy(b)
    <3>1. \A n \in CopiedBy(b) : cache'.files[n].bytes = cache.files[n].bytes
      BY <2>3 DEF CopiedBy
    <3>2. /\ ByIn(cache'.files, b) = ByIn(cache.files, b)
          /\ \A n \in ByIn(cache.files, b) : cache'.files[n].bytes = cache.files[n].bytes
      BY <1>1, <2>4, <3>1
    <3>3. BytesIn(cache'.files, b) = BytesIn(cache.files, b)
      BY <3>2, SameBytes
    <3> QED
      BY <1>1, <3>3
  <2>6. /\ mem[b].files = Cardinality(CopiedBy(b)) /\ mem[b].bytes = Cardinality(BytesBy(b))
        /\ \A m \in CopiedBy(b) \ {k} : cache.files[m].whole /\ m \notin mem[b].todo
        /\ changes.seed # "names" => Prepared \ mem[b].todo \subseteq CopiedBy(b)
    BY <1>0, <2>2 DEF CopyOf
  <2>7. CopyOf(b)'
    <3>1. \A m \in CopiedBy(b) : cache'.files[m].whole /\ m \notin mem'[b].todo
      BY <2>2, <2>3, <2>6 DEF CopiedBy
    <3> QED
      BY <1>0, <1>6, <2>2, <2>4, <2>5, <2>6, <3>1 DEF CopyOf, InCopy
  <2>8. Limited(b)'
    <3>1. \A m \in CopiedBy(b) : cache'.files[m].bytes <= MaxFileBytes
      BY <1>0, <2>3 DEF Limited, CopiedBy
    <3> QED
      BY <1>0, <2>4, <2>5, <3>1 DEF Limited
  <2> QED
    BY <2>7, <2>8
<1> QED
  BY <1>3, <1>4, <1>5, <1>6, CacheMoves

LEMMA CopyAloneKeeps ==
  ASSUME TypeOK, PosInv, CacheInv, CopyInv, NEW b \in Builds, Step(b), Own(b)', CopyAlone(b)
  PROVE  CopyAlone(b)'
<1> SUFFICES ASSUME pc'[b] \in {"list", "copy"}
             PROVE  DOMAIN cache'.files = CopiedBy(b)' /\ marker' = None
  BY DEF CopyAlone
<1>1. marker' = marker
  <2>1. Return(b, "copy") => pc'[b] \in {"expo", "init"}
    BY DEF Return, Goes, TypeOK, Memory
  <2> QED
    BY <2>1, CacheGrows
<1>2. CASE Seed(b)
  <2>1. ~cache.there /\ cache' = cache
    BY <1>2, NotEnded DEF Seed, Return, Goes, TypeOK, Memory, disk
  <2> QED
    BY <1>1, <2>1 DEF CacheInv, CopiedBy
<1>3. CASE ~Seed(b)
  <2>1. pc[b] \in {"list", "copy"}
    BY <1>3, CacheMoves DEF NoCopy, InCopy, List, Goes, At
  <2>2. DOMAIN cache.files = CopiedBy(b) /\ marker = None
    BY <2>1 DEF CopyAlone
  <2>3. CASE cache'.files = cache.files
    BY <1>1, <2>2, <2>3 DEF CopiedBy
  <2>4. CASE \E n : Opened(b, n)
    BY <1>1, <2>2, <2>4 DEF Opened, With, CopiedBy
  <2>5. CASE \E k : Written(b, k) \/ Finished(b, k)
    BY <1>1, <2>2, <2>5, CopiesStay DEF Written, Finished, CopiedBy
  <2> QED
    BY <2>3, <2>4, <2>5, CacheMoves DEF NoCopy
<1> QED
  BY <1>2, <1>3

LEMMA OwnStep ==
  ASSUME TypeOK, TypeOK', PosInv, AloneInv, OwnInv, CacheInv, CopyInv, NEW b \in Builds, Step(b)
  PROVE  OwnInv'
<1> SUFFICES ASSUME NEW c \in Builds, Own(c)'
             PROVE  FixedOf(c)' /\ HostOf(c)' /\ WalkOf(c)' /\ CopyAlone(c)'
  BY DEF OwnInv
<1>1. c = b /\ (Start(b) \/ Own(b))
  BY OwnMoves
<1>2. CASE Start(b)
  <2>1. pc'[b] = "log"
    BY <1>2 DEF Start, Goes, TypeOK
  <2> QED
    BY <1>1, <2>1 DEF FixedOf, HostOf, WalkOf, CopyAlone, Seeds
<1>3. CASE ~Start(b)
  <2>1. Own(b) /\ Own(b)' /\ FixedOf(b) /\ HostOf(b) /\ WalkOf(b) /\ CopyAlone(b)
    BY <1>1, <1>3 DEF OwnInv
  <2> QED
    BY <1>1, <1>3, <2>1, FixedKeeps, HostKeeps, CopyAloneKeeps
<1> QED
  BY <1>2, <1>3

\* A seeding returns once, before expo; the second time it finds the marker.
LEMMA PastSeedSince ==
  ASSUME TypeOK, TypeOK', PosInv, NEW b \in Builds, Step(b), PastSeed(b)'
  PROVE  \/ PastSeed(b)
         \/ Return(b, "seed") /\ (~seeded[b] \/ marker # None)
         \/ marker' = b
<1>0. \A why : ~Fails(b, why)
  BY DEF Fails, Ends, PastSeed, TypeOK
<1>1. CASE Opening(b)
  BY <1>0, <1>1 DEF Opening, Start, RemoveFixed, OpenLog, Create, RemoveHost, Goes, PastSeed, TypeOK
<1>2. CASE CheckHost(b)
  BY <1>0, <1>2 DEF CheckHost, Goes, PastSeed, TypeOK
<1>3. CASE Walk(b)
  <2>1. mem'[b].then = mem[b].then
    BY <1>3 DEF Walk, TypeOK, Memory
  <2>2. pc[b] = "before" => pc'[b] \in {"before", "seed"} /\ mem[b].then = "expo"
    BY <1>3 DEF Walk, Goes, At, TypeOK, PosInv, PosOf
  <2>3. pc[b] \in {"before", "after"}
    BY <1>3 DEF Walk, Goes, At
  <2> QED
    BY <2>1, <2>2, <2>3 DEF PastSeed
<1>4. CASE ExpoReads(b)
  BY <1>4 DEF ExpoReads, PastSeed
<1>5. CASE ExpoExits(b)
  BY <1>5 DEF ExpoExits, Goes, At, PastSeed, TypeOK
<1>6. CASE Judge(b)
  BY <1>0, <1>6 DEF Judge, Goes, At, PastSeed
<1>7. CASE Seed(b)
  BY <1>0, <1>7 DEF Seed, Goes, PastSeed, TypeOK
<1>10. CASE List(b) \/ OpenNext(b) \/ Read(b) \/ Finish(b)
  <2>1. pc'[b] = "copy"
    BY <1>0, <1>10 DEF List, OpenNext, Read, WriteByte, Finish, Goes, At, BetweenTwo, Copying,
       TypeOK
  <2> QED
    BY <2>1 DEF PastSeed
<1>11. CASE Mark(b)
  BY <1>0, <1>11 DEF Mark
<1>8. CASE Assembling(b)
  BY <1>0, <1>8 DEF Assembling, WriteScript, Create, StartGradle, GradleExits, Output, Ends, Goes,
     At, PastSeed, TypeOK
<1>9. CASE Breaks(b) \/ Killed(b)
  BY <1>0, <1>9 DEF Breaks, Killed, Ends, PastSeed, TypeOK
<1> QED
  BY <1>1, <1>2, <1>3, <1>4, <1>5, <1>6, <1>7, <1>8, <1>9, <1>10, <1>11
  DEF Step, Generating, Seeding

\* A build that leaves its copy without a marker has failed or was killed.
LEMMA CopyLeft ==
  ASSUME TypeOK, NEW b \in Builds, Step(b), pc[b] = "copy", marker' = None
  PROVE  pc'[b] = "copy" \/ end'[b].result \in {"err", "killed"}
<1>1. ASSUME NEW why, Fails(b, why) PROVE end'[b].result = "err"
  BY <1>1 DEF Fails, Ends, TypeOK
<1>2. CASE Opening(b) \/ Generating(b)
  BY <1>1, <1>2 DEF Opening, Start, RemoveFixed, OpenLog, Create, RemoveHost, Generating, CheckHost,
     Walk, ExpoReads, ExpoExits, Judge, Goes, At
<1>3. CASE Seeding(b)
  <2>1. CASE Seed(b) \/ List(b)
    BY <2>1 DEF Seed, List, Return, Goes, At
  <2>2. CASE OpenNext(b) \/ Read(b) \/ Finish(b)
    BY <1>1, <2>2 DEF OpenNext, Read, WriteByte, Finish
  <2>3. CASE Mark(b)
    BY <1>1, <2>3, NoneAssumption DEF Mark
  <2> QED
    BY <1>3, <2>1, <2>2, <2>3 DEF Seeding
<1>4. CASE Assembling(b)
  BY <1>4 DEF Assembling, WriteScript, Create, StartGradle, GradleExits, Output, Goes, At
<1>5. CASE Breaks(b) \/ Killed(b)
  BY <1>1, <1>5 DEF Breaks, Killed, Ends, TypeOK
<1> QED
  BY <1>2, <1>3, <1>4, <1>5 DEF Step

LEMMA CacheStep ==
  ASSUME TypeOK, TypeOK', PosInv, CacheInv, CopyInv, NEW b \in Builds, Step(b)
  PROVE  CacheInv'
<1>0. seeded' = seeded
  BY WorldStays
<1>1. DOMAIN cache'.files # {} => cache'.there
  <2>1. InCopy(b) => cache'.there
    BY DEF InCopy, CopyInv, CopyOf
  <2>2. NoCopy(b) => (DOMAIN cache'.files # {} => cache'.there)
    BY CacheGrows DEF NoCopy, CacheInv
  <2> QED
    BY <2>1, <2>2, CacheMoves
<1>2. marker' # None => cache'.there
  <2>1. BetweenTwo(b) => cache.there
    BY DEF BetweenTwo, At, CopyInv, CopyOf
  <2> QED
    BY <2>1, CacheGrows DEF CacheInv
<1>3. ASSUME NEW c \in Builds, seeded[c], PastSeed(c)' PROVE marker' # None
  <2>1. CASE PastSeed(c)
    BY <1>3, <2>1, CacheGrows DEF CacheInv
  <2>2. CASE ~PastSeed(c)
    <3>1. c = b
      BY <1>3, <2>2, Leaves DEF PastSeed
    <3> QED
      BY <1>3, <2>2, <3>1, CacheGrows, NoneAssumption, PastSeedSince
  <2> QED
    BY <2>1, <2>2
<1>4. ASSUME cache'.there, marker' = None
      PROVE  \E c \in Builds : ~seeded[c] \/ pc'[c] = "copy" \/ end'[c].result \in {"err", "killed"}
  <2>1. marker = None
    BY <1>4, CacheGrows
  <2>2. CASE cache.there
    <3>1. PICK c \in Builds : ~seeded[c] \/ pc[c] = "copy" \/ end[c].result \in {"err", "killed"}
      BY <2>1, <2>2 DEF CacheInv
    <3>2. CASE c # b \/ ~seeded[c]
      BY <3>1, <3>2, Leaves
    <3>3. CASE c = b /\ end[c].result \in {"err", "killed"}
      <4>1. pc[b] = "done"
        BY <3>3 DEF PosInv, PosOf, Running
      <4> QED
        BY <3>3, <4>1, DoneStays
    <3>4. CASE c = b /\ pc[c] = "copy"
      <4>1. pc'[b] = "copy" \/ end'[b].result \in {"err", "killed"}
        BY <1>4, <3>4, CopyLeft
      <4> QED
        BY <4>1
    <3> QED
      BY <3>1, <3>2, <3>3, <3>4
  <2>3. CASE ~cache.there
    <3>1. CASE List(b)
      BY <3>1 DEF List, Goes, Fails, Ends, TypeOK
    <3>2. CASE StartGradle(b)
      <4>1. pc[b] = "assemble"
        BY <3>2 DEF StartGradle, Goes, At
      <4> QED
        BY <2>3, <4>1 DEF CacheInv, PastSeed
    <3> QED
      BY <1>4, <2>3, <3>1, <3>2, CacheGrows
  <2> QED
    BY <2>2, <2>3
<1> QED
  BY <1>0, <1>1, <1>2, <1>3, <1>4 DEF CacheInv

\* Nothing goes back to before the start, and a copy begins only where there is no cache.
LEMMA Entering ==
  ASSUME TypeOK, PosInv, CopyInv, NEW b \in Builds, Step(b)
  PROVE  /\ pc'[b] = "idle" => pc[b] = "idle"
         /\ pc'[b] \in {"list", "copy"} => pc[b] \in {"list", "copy"} \/ ~cache.there
<1>0. \A how : Ends(b, how) => pc'[b] = "done"
  BY DEF Ends, TypeOK
<1>1. CASE Opening(b)
  BY <1>0, <1>1 DEF Opening, Start, RemoveFixed, OpenLog, Create, RemoveHost, Fails, Goes, TypeOK
<1>2. CASE Generating(b)
  BY <1>0, <1>2 DEF Generating, CheckHost, Walk, ExpoReads, ExpoExits, Judge, Fails, Goes, At,
     TypeOK
<1>3. CASE Seeding(b)
  BY <1>0, <1>3 DEF Seeding, Seed, List, OpenNext, Read, WriteByte, Finish, Mark, Return, Fails,
     Goes, At, BetweenTwo, Copying, TypeOK, Memory
<1>4. CASE Assembling(b)
  BY <1>0, <1>4 DEF Assembling, WriteScript, Create, StartGradle, GradleExits, Output, Fails, Goes,
     At, TypeOK
<1>5. CASE Breaks(b) \/ Killed(b)
  BY <1>0, <1>5 DEF Breaks, Killed, Fails
<1> QED
  BY <1>1, <1>2, <1>3, <1>4, <1>5 DEF Step

\* A marked cache keeps its files, and they stay whole.
LEMMA MarkedStays ==
  ASSUME TypeOK, TypeOK', PosInv, SeedInv', CacheInv, CopyInv, MarkInv, MarkedMeansWhole,
         NEW b \in Builds, Step(b), marker # None, marker' = marker
  PROVE  MarkInv' /\ MarkedMeansWhole'
<1>0. changes' = changes /\ marker \in Builds
  BY WorldStays DEF TypeOK
<1>1. pc'[marker] # "idle"
  BY <1>0, Leaves, Entering DEF MarkInv
<1>2. changes.seed # "names" => DOMAIN cache'.files = Prepared /\ DOMAIN cache.files = Prepared
  BY <1>0, CopiesStay DEF MarkInv, SeedInv
<1>3. alone'[marker] => alone[marker]
  <2>1. CASE Start(b)
    <3>1. marker # b
      BY <2>1 DEF MarkInv, Start, Goes, At
    <3> QED
      BY <1>0, <2>1, <3>1 DEF Start
  <2> QED
    BY <2>1, AloneStays
<1>4. ASSUME alone'[marker], NEW c \in Builds PROVE pc'[c] \notin {"list", "copy"}
  <2>1. pc[c] \notin {"list", "copy"} /\ cache.there
    BY <1>3, <1>4 DEF MarkInv, CacheInv
  <2> QED
    BY <2>1, Leaves, Entering
<1>5. ASSUME alone'[marker] \/ changes.seed # "names", NEW n \in DOMAIN cache'.files
      PROVE  cache'.files[n].whole
  <2>1. n \in DOMAIN cache.files
    <3>1. CASE changes.seed # "names"
      BY <1>2, <1>5, <3>1
    <3>2. CASE alone'[marker]
      <4>1. NoCopy(b)
        BY <1>4, <3>2, CacheMoves DEF InCopy
      <4> QED
        BY <1>5, <4>1 DEF NoCopy
    <3> QED
      BY <1>5, <3>1, <3>2
  <2> QED
    BY <1>3, <1>5, <2>1, CopiesStay DEF MarkedMeansWhole
<1> QED
  BY <1>0, <1>1, <1>2, <1>4, <1>5 DEF MarkInv, MarkedMeansWhole

\* The marker is written when every file is whole.
LEMMA MarkStep ==
  ASSUME TypeOK, TypeOK', PosInv, AloneInv, OwnInv, SeedInv, SeedInv', CacheInv, CopyInv, MarkInv,
         MarkedMeansWhole, NEW b \in Builds, Step(b)
  PROVE  MarkInv' /\ MarkedMeansWhole'
<1>1. CASE marker # None
  BY <1>1, MarkedStays, CacheGrows
<1>2. CASE marker' = None
  BY <1>2 DEF MarkInv, MarkedMeansWhole
<1>3. CASE marker = None /\ marker' # None
  <2>1. /\ marker' = b /\ pc[b] = "copy" /\ mem[b].cur = 0 /\ mem[b].todo = {}
        /\ pc'[b] \in {"expo", "init"} /\ cache' = cache /\ changes' = changes
    <3>1. /\ marker' = b /\ BetweenTwo(b) /\ mem[b].todo = {} /\ Return(b, "copy")
          /\ cache' = cache /\ changes' = changes
      BY <1>3, CacheGrows, WorldStays
    <3>2. pc'[b] = mem[b].then /\ mem[b].then \in {"expo", "init"}
      BY <3>1 DEF Return, Goes, TypeOK, Memory
    <3> QED
      BY <3>1, <3>2 DEF BetweenTwo, At
  <2>2. \A n \in CopiedBy(b) : cache.files[n].whole
    BY <2>1, NamesAssumption DEF CopyInv, CopyOf, CopiedBy, TypeOK
  <2>3. changes.seed # "names" => DOMAIN cache.files = Prepared /\ CopiedBy(b) = Prepared
    <3>1. /\ CopiedBy(b) \subseteq DOMAIN cache.files
          /\ changes.seed # "names" => DOMAIN cache.files \subseteq Prepared
      BY DEF CopiedBy, SeedInv
    <3>2. changes.seed # "names" => Prepared \subseteq CopiedBy(b)
      BY <2>1 DEF CopyInv, CopyOf
    <3> QED
      BY <3>1, <3>2
  <2>4. alone'[b] => DOMAIN cache.files = CopiedBy(b) /\ Others(b) = {}
    <3>1. alone' = alone
      BY <2>1, AloneStays DEF Start, Goes, At
    <3> QED
      BY <2>1, <3>1 DEF OwnInv, Own, Busy, CopyAlone, AloneInv
  <2>5. ASSUME alone'[b], NEW c \in Builds PROVE pc'[c] \notin {"list", "copy"}
    <3>1. c # b => pc[c] \notin {"list", "copy"}
      BY <2>4, <2>5 DEF Others, Busy
    <3> QED
      BY <2>1, <3>1, Leaves
  <2> QED
    BY <2>1, <2>2, <2>3, <2>4, <2>5 DEF MarkInv, MarkedMeansWhole
<1> QED
  BY <1>1, <1>2, <1>3

-----------------------------------------------------------------------------
(* How builds end.                                                           *)

LEMMA MinIsIn ==
  ASSUME NEW S \in SUBSET Nat, S # {}
  PROVE  Min(S) \in S
<1> DEFINE R == {ss \in Nat \X Nat : ss[1] < ss[2]}
<1>1. R = OpToRel(<, Nat)
  BY DEF OpToRel
<1>2. IsWellFoundedOn(R, Nat)
  BY <1>1, NatLessThanWellFounded
<1> HIDE DEF R
<1>3. PICK n \in S : \A m \in S : <<m, n>> \notin R
  BY <1>2, WFMin
<1>4. ASSUME NEW m \in S PROVE n <= m
  <2>1. m < n => <<m, n>> \in R
    BY DEF R
  <2> QED
    BY <1>3, <2>1
<1> QED
  BY <1>4 DEF Min

\* What a build that ends has found.
FoundFile(b) ==
  \/ pc[b] = "open" /\ "log" \in fixed
  \/ pc[b] = "init" /\ "script" \in fixed
  \/ BetweenTwo(b) /\ marker # None
  \/ BetweenTwo(b) /\ mem[b].todo # {} /\ Min(mem[b].todo) \in DOMAIN cache.files
Ending(b) ==
  /\ end'[b].result \in {"err", "killed"} \/ end'[b].result = "ok"
  /\ end'[b].result = "ok" => pc[b] = "output" /\ host.apk # None /\ end'[b].apk = host.apk
  /\ end'[b].cause = "exists" => FoundFile(b)
  /\ end'[b].cause = "dirty" => pc[b] = "check" /\ host.there
  /\ end'[b].cause = "incomplete" => pc[b] = "seed" /\ seeded[b] /\ cache.there /\ marker = None

LEMMA EndMoves ==
  ASSUME TypeOK, NEW b \in Builds, Step(b)
  PROVE  end'[b] = end[b] \/ (Busy(b) /\ Ending(b))
<1>1. ASSUME NEW why, Fails(b, why), Busy(b), why = "exists" => FoundFile(b),
             why = "dirty" => pc[b] = "check" /\ host.there,
             why = "incomplete" => pc[b] = "seed" /\ seeded[b] /\ cache.there /\ marker = None
      PROVE  Busy(b) /\ Ending(b)
  BY <1>1 DEF Fails, Ends, Ending, TypeOK
<1>2. CASE Opening(b)
  BY <1>1, <1>2 DEF Opening, Start, RemoveFixed, OpenLog, Create, RemoveHost, Goes, At, Busy,
     FoundFile
<1>3. CASE Generating(b)
  BY <1>1, <1>3 DEF Generating, CheckHost, Walk, ExpoReads, ExpoExits, Judge, Goes, At, Busy
<1>4. CASE Seeding(b)
  <2>1. CASE Seed(b) \/ List(b)
    BY <1>1, <2>1 DEF Seed, List, Return, Goes, At, Busy
  <2>2. CASE OpenNext(b)
    BY <1>1, <2>2 DEF OpenNext, BetweenTwo, At, Busy, FoundFile
  <2>3. CASE Read(b) \/ Finish(b)
    BY <1>1, <2>3 DEF Read, WriteByte, Finish, Copying, At, Busy
  <2>4. CASE Mark(b)
    BY <1>1, <2>4 DEF Mark, Return, Goes, BetweenTwo, At, Busy, FoundFile
  <2> QED
    BY <1>4, <2>1, <2>2, <2>3, <2>4 DEF Seeding
<1>5. CASE Assembling(b)
  <2>1. CASE WriteScript(b) \/ StartGradle(b) \/ GradleExits(b)
    BY <1>1, <2>1 DEF WriteScript, Create, StartGradle, GradleExits, Goes, At, Busy, FoundFile
  <2>2. CASE Output(b)
    <3>1. pc[b] = "output" /\ Busy(b)
      BY <2>2 DEF Output, At, Busy
    <3>2. CASE host.apk # None
      BY <2>2, <3>1, <3>2 DEF Output, Ends, Ending, TypeOK
    <3>3. CASE host.apk = None
      BY <1>1, <2>2, <3>1, <3>3 DEF Output
    <3> QED
      BY <3>2, <3>3
  <2> QED
    BY <1>5, <2>1, <2>2 DEF Assembling
<1>6. CASE Breaks(b)
  BY <1>1, <1>6 DEF Breaks
<1>7. CASE Killed(b)
  BY <1>7 DEF Killed, Ends, Ending, TypeOK
<1> QED
  BY <1>2, <1>3, <1>4, <1>5, <1>6, <1>7 DEF Step

\* A build that ends while it is alone finds nothing of another.
LEMMA EndsAlone ==
  ASSUME TypeOK, PosInv, AloneInv, OwnInv, CacheInv, CopyInv, NEW b \in Builds, Own(b), Ending(b)
  PROVE  /\ end'[b].result = "ok" => OwnApk(b, end'[b].apk)
         /\ end'[b].cause \notin {"exists", "dirty"}
         /\ end'[b].cause = "incomplete" =>
              \E c \in Builds \ {b} : end[c].result \in {"err", "killed"} \/ ~seeded[c]
<1>1. FixedOf(b) /\ HostOf(b) /\ CopyAlone(b) /\ CopyOf(b) /\ PosOf(b) /\ Others(b) = {}
  BY DEF OwnInv, CopyInv, PosInv, Own, AloneInv
<1>2. end'[b].result = "ok" => OwnApk(b, end'[b].apk)
  BY <1>1 DEF Ending, HostOf
<1>3. end'[b].cause # "exists"
  <2>1. ~(BetweenTwo(b) /\ mem[b].todo # {} /\ Min(mem[b].todo) \in DOMAIN cache.files)
    <3> SUFFICES ASSUME BetweenTwo(b), mem[b].todo # {}, Min(mem[b].todo) \in DOMAIN cache.files
                 PROVE  FALSE
      OBVIOUS
    <3> DEFINE n == Min(mem[b].todo)
    <3>1. mem[b].todo \subseteq Names /\ mem[b].todo \subseteq Nat
      BY NamesAssumption DEF TypeOK, Memory
    <3>2. n \in mem[b].todo
      BY <3>1, MinIsIn
    <3> HIDE DEF n
    <3>3. n \in CopiedBy(b) /\ n # 0
      BY <1>1, <3>1, <3>2, NamesAssumption DEF BetweenTwo, At, CopyAlone, n
    <3> QED
      BY <1>1, <3>2, <3>3 DEF BetweenTwo, At, CopyOf
  <2>2. pc[b] = "copy" => marker = None
    BY <1>1 DEF CopyAlone
  <2> QED
    BY <1>1, <2>1, <2>2 DEF Ending, FoundFile, FixedOf, BetweenTwo, At
<1>4. end'[b].cause # "dirty"
  BY <1>1 DEF Ending, HostOf, NoHost
<1>5. ASSUME end'[b].cause = "incomplete"
      PROVE  \E c \in Builds \ {b} : end[c].result \in {"err", "killed"} \/ ~seeded[c]
  <2>1. pc[b] = "seed" /\ seeded[b] /\ cache.there /\ marker = None
    BY <1>5 DEF Ending
  <2>2. PICK c \in Builds : ~seeded[c] \/ pc[c] = "copy" \/ end[c].result \in {"err", "killed"}
    BY <2>1 DEF CacheInv
  <2>3. c # b
    BY <1>1, <1>5, <2>1, <2>2 DEF PosOf, Running
  <2>4. pc[c] # "copy"
    BY <1>1, <2>3 DEF Others, Busy
  <2> QED
    BY <2>2, <2>3, <2>4
<1> QED
  BY <1>2, <1>3, <1>4, <1>5

LEMMA EndStep ==
  ASSUME TypeOK, TypeOK', PosInv, AloneInv, OwnInv, CacheInv, CopyInv, ArtifactIsOwn,
         LeftoversNeverBlock, NEW b \in Builds, Step(b)
  PROVE  ArtifactIsOwn' /\ LeftoversNeverBlock'
<1>0. past' = past /\ steady' = steady /\ seeded' = seeded
  BY WorldStays
<1>1. ASSUME NEW c \in Builds, alone'[c], end'[c] = end[c], end[c] # Running PROVE alone[c]
  <2>1. CASE Start(b)
    <3>1. c # b
      BY <1>1, <2>1 DEF Start, Goes, At, PosInv, PosOf
    <3> QED
      BY <1>1, <2>1, <3>1 DEF Start
  <2> QED
    BY <1>1, <2>1, AloneStays
<1>2. \A c \in Builds : end[c].result \in {"err", "killed"} => end'[c] = end[c]
  <2> SUFFICES ASSUME NEW c \in Builds, end[c].result \in {"err", "killed"} PROVE end'[c] = end[c]
    OBVIOUS
  <2>1. pc[c] = "done"
    BY DEF PosInv, PosOf, Running
  <2> QED
    BY <2>1, Leaves, DoneStays
<1>3. ASSUME NEW c \in Builds, end'[c] # end[c], alone'[c]
      PROVE  c = b /\ Own(b) /\ Ending(b)
  <2>1. c = b
    BY <1>3, Leaves
  <2>2. Busy(b) /\ Ending(b)
    BY <1>3, <2>1, EndMoves
  <2>3. alone' = alone
    BY <1>3, <2>1, AloneStays DEF Start, Goes
  <2> QED
    BY <1>3, <2>1, <2>2, <2>3 DEF Own
<1>4. ASSUME NEW c \in Builds, alone'[c], end'[c].result = "ok"
      PROVE  end'[c].apk.by = c /\ (steady'[c] => end'[c].apk.from \in past')
  <2>1. CASE end'[c] = end[c]
    BY <1>0, <1>1, <1>4, <2>1 DEF ArtifactIsOwn, Running
  <2>2. CASE end'[c] # end[c]
    BY <1>0, <1>3, <1>4, <2>2, EndsAlone DEF OwnApk
  <2> QED
    BY <2>1, <2>2
<1>5. ASSUME NEW c \in Builds, alone'[c]
      PROVE  /\ end'[c].cause \notin {"exists", "dirty"}
             /\ end'[c].cause = "incomplete" =>
                  \E d \in Builds \ {c} : end'[d].result \in {"err", "killed"} \/ ~seeded'[d]
  <2>1. CASE end'[c] = Running
    BY <2>1 DEF Running
  <2>2. CASE end'[c] = end[c] /\ end[c] # Running
    <3>1. alone[c]
      BY <1>1, <1>5, <2>2
    <3> QED
      BY <1>0, <1>2, <2>2, <3>1 DEF LeftoversNeverBlock
  <2>3. CASE end'[c] # end[c]
    <3>1. c = b /\ Own(b) /\ Ending(b)
      BY <1>3, <1>5, <2>3
    <3> QED
      BY <1>0, <1>2, <3>1, EndsAlone
  <2> QED
    BY <2>1, <2>2, <2>3
<1>6. ArtifactIsOwn'
  BY <1>4 DEF ArtifactIsOwn
<1>7. LeftoversNeverBlock'
  BY <1>5 DEF LeftoversNeverBlock
<1> QED
  BY <1>6, <1>7

-----------------------------------------------------------------------------
(* The invariant.                                                            *)

LEMMA CopyStep ==
  ASSUME TypeOK, TypeOK', PosInv, SeedInv, CacheInv, CopyInv, CopyWithinLimits,
         NEW b \in Builds, Step(b)
  PROVE  CopyInv' /\ CopyWithinLimits'
<1>1. ASSUME NEW c \in Builds PROVE CopyOf(c)' /\ Limited(c)'
  BY CopyOfOthers, CopyKeeps
<1> QED
  BY <1>1 DEF CopyInv, CopyWithinLimits, Limited

LEMMA BuildStep ==
  ASSUME IInv, TypeOK', NEW b \in Builds, Step(b)
  PROVE  IInv'
<1>1. PosInv' /\ AloneInv' /\ OwnInv' /\ CacheInv'
  BY PosStep, AloneStep, OwnStep, CacheStep DEF IInv
<1>2. CopyInv' /\ CopyWithinLimits'
  BY CopyStep DEF IInv
<1>3. SeedInv'
  <2>1. changes' = changes /\ seed' = seed
    BY WorldStays
  <2>2. \A n : Opened(b, n) => n \in DOMAIN seed /\ DOMAIN cache'.files = DOMAIN cache.files \cup {n}
    BY DEF Opened, With
  <2>3. \A k : Written(b, k) \/ Finished(b, k) => DOMAIN cache'.files = DOMAIN cache.files
    BY DEF Written, Finished, IInv, TypeOK
  <2>4. \/ DOMAIN cache'.files = DOMAIN cache.files
        \/ \E n \in DOMAIN seed : DOMAIN cache'.files = DOMAIN cache.files \cup {n}
    BY <2>2, <2>3, CacheMoves DEF IInv, NoCopy
  <2> QED
    BY <2>1, <2>4 DEF IInv, SeedInv
<1>4. MarkInv' /\ MarkedMeansWhole'
  BY <1>3, MarkStep DEF IInv
<1>5. ArtifactIsOwn' /\ LeftoversNeverBlock'
  BY EndStep DEF IInv
<1> QED
  BY <1>1, <1>2, <1>3, <1>4, <1>5 DEF IInv

\* The user writes an input or prepares the seed anew; no build moves.
LEMMA UserStep ==
  ASSUME IInv, TypeOK', UNCHANGED <<disk, pc, seeded, mem, tool, end, alone>>, past \subseteq past',
         \A b \in Builds : steady'[b] => steady[b],
         \A b \in Builds : steady'[b] /\ Busy(b) => \A f \in Inputs : inputs[f] <= inputs'[f],
         changes'.seed # "names" => changes.seed # "names", SeedInv'
  PROVE  IInv'
<1>0. /\ UNCHANGED <<host, fixed, cache, marker>>
      /\ \A b \in Builds : CopiedBy(b)' = CopiedBy(b) /\ BytesBy(b)' = BytesBy(b)
  BY DEF disk, CopiedBy, BytesBy
<1>1. PosInv'
  BY <1>0 DEF IInv, PosInv, PosOf, Busy
<1>2. AloneInv'
  BY <1>0 DEF IInv, AloneInv, Busy, Others
<1>3. ASSUME NEW b \in Builds, Own(b)'
      PROVE  FixedOf(b)' /\ HostOf(b)' /\ WalkOf(b)' /\ CopyAlone(b)'
  <2>1. FixedOf(b) /\ HostOf(b) /\ WalkOf(b) /\ CopyAlone(b)
    BY <1>0, <1>3 DEF IInv, OwnInv, Own, Busy
  <2>2. FixedOf(b)' /\ CopyAlone(b)'
    BY <1>0, <2>1 DEF FixedOf, CopyAlone
  <2>3. HostOf(b)'
    BY <1>0, <2>1 DEF HostOf, OwnApk, Seeds
  <2>4. mem[b] \in Memory /\ host \in Hosts /\ past \subseteq Contents
        /\ inputs \in [Inputs -> Nat] /\ inputs' \in [Inputs -> Nat]
    <3>1. inputs \in Contents
      BY InputsTyped DEF IInv
    <3>2. inputs' \in Contents
      <4>1. changes'.count \in Nat
        BY LimitsAssumption DEF TypeOK
      <4>2. inputs' \in [Inputs -> 1..(changes'.count + 1)]
        BY DEF TypeOK
      <4> QED
        BY <4>1, <4>2 DEF Contents
    <3> QED
      BY <3>1, <3>2, InputsTyped DEF IInv, TypeOK, Contents
  <2>8. ASSUME steady'[b], NEW f \in Inputs, NEW v \in Nat, v <= inputs[f] PROVE v <= inputs'[f]
    <3>1. inputs[f] <= inputs'[f]
      BY <1>0, <1>3, <2>8 DEF Own, Busy
    <3> QED
      BY <2>4, <2>8, <3>1
  <2>5. ASSUME steady'[b], NEW p \in past, Generated(b, p) PROVE Generated(b, p)'
    BY <1>0, <2>4, <2>5, <2>8 DEF Generated, Memory, Hosts, Contents
  <2>6. ASSUME steady'[b], pc[b] = "before", NEW f \in Inputs \ mem[b].left
        PROVE  mem[b].seen[f] <= inputs'[f]
    <3>1. mem[b].seen[f] <= inputs[f] /\ mem[b].seen[f] \in Nat
      BY <2>1, <2>4, <2>6 DEF WalkOf, Memory, Contents
    <3> QED
      BY <2>6, <2>8, <3>1
  <2>7. WalkOf(b)'
    BY <1>0, <2>1, <2>5, <2>6 DEF WalkOf, Seeds
  <2> QED
    BY <2>2, <2>3, <2>7
<1>4. CacheInv'
  BY <1>0 DEF IInv, CacheInv, PastSeed
<1>5. CopyInv'
  BY <1>0 DEF IInv, CopyInv, CopyOf
<1>6. MarkInv' /\ MarkedMeansWhole'
  BY <1>0 DEF IInv, MarkInv, MarkedMeansWhole
<1>7. ArtifactIsOwn' /\ LeftoversNeverBlock'
  BY <1>0 DEF IInv, ArtifactIsOwn, LeftoversNeverBlock
<1>8. CopyWithinLimits'
  BY <1>0 DEF IInv, CopyWithinLimits
<1> QED
  BY <1>1, <1>2, <1>3, <1>4, <1>5, <1>6, <1>7, <1>8 DEF IInv, OwnInv

LEMMA Invariance == Spec => []IInv
<1>1. Init => IInv
  <2> SUFFICES ASSUME Init PROVE IInv
    OBVIOUS
  <2>1. cache.files = <<>> /\ DOMAIN cache.files = {} /\ ~cache.there /\ marker = None
    BY DEF Init
  <2>2. TypeOK
    <3>1. Fresh \in Memory /\ NoHost \in Hosts /\ NoTool \in Tools /\ Running \in Endings
      BY FreshMemory, NoHostIsHost DEF NoTool, Tools, Running, Endings
    <3>2. past \subseteq [Inputs -> 1..(changes.count + 1)] /\ inputs \in past
          /\ steady \in [Builds -> BOOLEAN]
      BY DEF Init
    <3>3. cache = [there |-> cache.there, files |-> cache.files] /\ cache.there \in BOOLEAN
      BY DEF Init
    <3>4. cache.files = [n \in DOMAIN cache.files |-> cache.files[n]]
      BY <2>1
    <3>5. changes \in [count : 0..Disturbances, seed : {"nothing", "sizes", "names"}]
      BY LimitsAssumption DEF Init
    <3>6. DOMAIN seed \subseteq Names /\ \A n \in DOMAIN seed : seed[n] \in Sizes
      BY NamesAssumption DEF Init
    <3> QED
      BY <2>1, <3>1, <3>2, <3>3, <3>4, <3>5, <3>6 DEF Init, TypeOK, Positions
  <2>3. \A b \in Builds : /\ pc[b] = "idle" /\ mem[b] = Fresh /\ tool[b] = NoTool
                          /\ end[b] = Running /\ CopiedBy(b) = {} /\ BytesBy(b) = {}
    BY <2>1 DEF Init, CopiedBy, BytesBy
  <2>4. PosInv /\ AloneInv /\ OwnInv
    <3>1. /\ NoTool.runs = "none" /\ NoTool.reads = {}
          /\ Fresh.cur = 0 /\ Fresh.files = 0 /\ Fresh.bytes = 0
      BY DEF NoTool, Fresh
    <3>2. PosInv
      BY <2>3, <3>1 DEF PosInv, PosOf, Busy
    <3> QED
      BY <2>3, <3>2 DEF AloneInv, OwnInv, Own, Busy
  <2>5. CacheInv /\ CopyInv /\ MarkInv /\ MarkedMeansWhole
    BY <2>1, <2>3 DEF CacheInv, PastSeed, CopyInv, CopyOf, MarkInv, MarkedMeansWhole
  <2>6. SeedInv
    BY <2>1 DEF Init, SeedInv
  <2>7. ArtifactIsOwn /\ LeftoversNeverBlock
    BY <2>3 DEF ArtifactIsOwn, LeftoversNeverBlock, Running
  <2>8. CopyWithinLimits
    BY <2>3, FS_EmptySet, LimitsAssumption DEF CopyWithinLimits
  <2> QED
    BY <2>2, <2>4, <2>5, <2>6, <2>7, <2>8 DEF IInv
<1>2. IInv /\ [Next]_vars => IInv'
  <2> SUFFICES ASSUME IInv, [Next]_vars PROVE IInv'
    OBVIOUS
  <2>1. TypeOK'
    BY TypeStep DEF IInv
  <2>2. ASSUME NEW b \in Builds, Step(b) PROVE IInv'
    BY <2>1, <2>2, BuildStep
  <2>3. CASE Edit
    <3>1. PICK g \in Inputs : \E v \in {p[g] : p \in past} \cup {NewContents} :
            /\ v # inputs[g] /\ inputs' = [inputs EXCEPT ![g] = v]
            /\ steady' = [b \in Builds |-> steady[b] /\ (v = NewContents \/ ~Busy(b))]
      BY <2>3 DEF Edit
    <3>2. PICK v : /\ inputs' = [inputs EXCEPT ![g] = v]
                   /\ steady' = [b \in Builds |-> steady[b] /\ (v = NewContents \/ ~Busy(b))]
      BY <3>1
    <3>6. \A b \in Builds : steady'[b] => steady[b] /\ (Busy(b) => v = NewContents)
      BY <3>2
    <3>7. ASSUME NEW b \in Builds, steady'[b], Busy(b), NEW f \in Inputs PROVE inputs[f] <= inputs'[f]
      <4>1. inputs' = [inputs EXCEPT ![g] = NewContents]
        BY <3>2, <3>6, <3>7
      <4>2. inputs \in past /\ inputs \in Contents
        BY InputsTyped DEF IInv, TypeOK
      <4>3. inputs[f] \in Nat /\ inputs[f] <= NewContents
        BY <4>2, InputsTyped DEF IInv
      <4> QED
        BY <4>1, <4>2, <4>3 DEF Contents
    <3>3. changes' = [changes EXCEPT !.count = @ + 1] /\ seed' = seed /\ cache' = cache
      BY <2>3 DEF Edit, disk
    <3>4. changes'.seed = changes.seed /\ changes'.count # 0
      BY <3>3 DEF IInv, TypeOK
    <3>5. SeedInv'
      BY <3>3, <3>4 DEF IInv, SeedInv
    <3> QED
      BY <2>1, <2>3, <3>4, <3>5, <3>6, <3>7, UserStep DEF Edit
  <2>4. CASE Prepare
    <3>1. /\ changes.count = 0 /\ Disturbances > 0 /\ cache' = cache
          /\ inputs' = inputs /\ past' = past /\ steady' = steady
          /\ changes' = [count |-> Disturbances,
                         seed |-> IF DOMAIN seed' = DOMAIN seed THEN "sizes" ELSE "names"]
      BY <2>4 DEF Prepare, disk
    <3>2. changes.seed # "names" /\ DOMAIN seed = Prepared /\ DOMAIN cache.files \subseteq Prepared
      BY <3>1 DEF IInv, SeedInv
    <3>3. SeedInv'
      BY <3>1, <3>2, LimitsAssumption DEF SeedInv
    <3>4. \A f \in Inputs : inputs[f] <= inputs'[f]
      BY <3>1, InputsTyped DEF IInv
    <3> QED
      BY <2>1, <2>4, <3>1, <3>2, <3>3, <3>4, UserStep DEF Prepare
  <2>5. CASE UNCHANGED vars
    <3>1. UNCHANGED <<world, disk, cache, pc, mem, tool, end, alone, inputs, past, steady, seed,
                      changes, seeded>>
      BY <2>5 DEF vars, world, disk
    <3>2. SeedInv'
      BY <3>1 DEF IInv, SeedInv
    <3>3. \A f \in Inputs : inputs[f] <= inputs'[f]
      BY <3>1, InputsTyped DEF IInv
    <3> QED
      BY <2>1, <3>1, <3>2, <3>3, UserStep
  <2> QED
    BY <2>2, <2>3, <2>4, <2>5 DEF Next, Step
<1> QED
  BY <1>1, <1>2, PTL DEF Spec

(* Every variable keeps its type, and no counter passes its bound.           *)
THEOREM TypeCorrect == Spec => []TypeOK
<1>1. IInv => TypeOK
  BY DEF IInv
<1> QED
  BY <1>1, Invariance, PTL

(* A build that nothing ran beside reports the APK of its own Gradle,        *)
(* whatever earlier builds left; and it is made from one state of the        *)
(* authored inputs, however often they were edited, unless one got back      *)
(* contents it once had while the build ran.                                 *)
THEOREM ArtifactsAreOwn == Spec => []ArtifactIsOwn
<1>1. IInv => ArtifactIsOwn
  BY DEF IInv
<1> QED
  BY <1>1, Invariance, PTL

(* Nothing that killed and failed builds leave stops a build that runs by    *)
(* itself, but a cache that one of them did not finish to seed or that       *)
(* Gradle made for a build without a seed.                                   *)
THEOREM NothingBlocks == Spec => []LeftoversNeverBlock
<1>1. IInv => LeftoversNeverBlock
  BY DEF IInv
<1> QED
  BY <1>1, Invariance, PTL

(* The completion marker stands for a cache of whole copies, with any number *)
(* of builds that seed at once.                                              *)
THEOREM MarkerIsTrue == Spec => []MarkedMeansWhole
<1>1. IInv => MarkedMeansWhole
  BY DEF IInv
<1> QED
  BY <1>1, Invariance, PTL

(* No build copies more files or bytes than the limits allow, however the    *)
(* seed changes after its preflight.                                         *)
THEOREM CopiesAreLimited == Spec => []CopyWithinLimits
<1>1. IInv => CopyWithinLimits
  BY DEF IInv
<1> QED
  BY <1>1, Invariance, PTL
=============================================================================

---------------------------- MODULE AndroidBuild ----------------------------
(* `product:build-android` (crates/yydra-cli/src/android_build.rs): builds of *)
(* one workspace, any of which may fail, overlap with another or be killed.   *)
(*                                                                         *)
(* A build removes the generated host, generates a new one between two walks  *)
(* over the authored inputs, seeds an isolated Gradle home with a dependency  *)
(* cache that later builds keep, and assembles the APK inside the host.  The  *)
(* two tools are processes of their own: they go on when a build is killed    *)
(* (ChildSupervisor has what a build that ends by itself does to them).       *)
EXTENDS Naturals, FiniteSets, FiniteSetsExt

CONSTANTS
  Builds,
  Inputs,         \* authored files of the workspace
  Names,          \* files a seed may hold, numbered in the order they are copied
  Prepared,       \* those it holds at first
  MaxEntries, MaxFiles, MaxFileBytes, MaxTotalBytes,     \* GradleCacheSeedLimits
  None,
  Disturbances    \* bound on edits of the inputs; a change of the seed uses it up

ASSUME NoneAssumption == None \notin Builds
ASSUME NamesAssumption ==
  Names \subseteq Nat \ {0} /\ IsFiniteSet(Names) /\ Prepared \subseteq Names
ASSUME LimitsAssumption ==
  /\ MaxEntries \in Nat /\ MaxFiles \in Nat /\ MaxFileBytes \in Nat
  /\ MaxTotalBytes \in Nat /\ Disturbances \in Nat

VARIABLES
  inputs,     \* contents of each authored input
  past,       \* contents of all of them so far (history)
  steady,     \* since it started, no input got contents back (history)
  host,       \* frontend/android, with the APK inside it
  fixed,      \* which of an invocation's fixed files exist
  cache,      \* the isolated modules-2
  marker,     \* the build that wrote its completion marker
  seed,       \* the prepared dependency cache: name -> size
  changes,    \* how often the user intervened, and what of the seed changed (history)
  pc,         \* position of each build
  seeded,     \* whether it is given a seed
  mem,        \* what it has in memory
  tool,       \* the tool it started
  end,        \* how it ended, and the APK it reported
  alone       \* no other build or tool ran beside it (history)

world == <<inputs, past, steady, seed, changes, seeded>>
disk  == <<host, fixed, cache, marker>>
vars  == <<world, disk, pc, mem, tool, end, alone>>

-----------------------------------------------------------------------------
NoHost  == [there |-> FALSE, whole |-> FALSE, from |-> [f \in Inputs |-> 0], apk |-> None]
NoTool  == [runs |-> "none", reads |-> {}]
Expo    == [runs |-> "expo", reads |-> Inputs]
Gradle  == [runs |-> "gradle", reads |-> {}]
Running == [result |-> "-", cause |-> "-", apk |-> None]

\* seen: what the first walk read; left: what this walk has still to read;
\* drift: the second differs; exit: how the generation exited; then: where the
\* seeding returns; todo, cur, size: the copy; files, bytes: its counters.
Fresh == [seen |-> [f \in Inputs |-> 0], left |-> Inputs, drift |-> FALSE, exit |-> FALSE,
          then |-> "expo", todo |-> {}, cur |-> 0, size |-> 0, files |-> 0, bytes |-> 0]

Positions == {"idle", "log", "open", "clean", "check", "before", "seed", "list",
              "copy", "expo", "after", "judge", "init", "assemble", "gradle", "output", "done"}
Sizes == 0..(MaxFileBytes + 1)
Busy(b) == pc[b] \notin {"idle", "done"}

Contents == [Inputs -> Nat]
Apks     == [by : Builds, from : Contents]
Hosts    == [there : BOOLEAN, whole : BOOLEAN, from : Contents, apk : Apks \cup {None}]
Files    == [by : Builds, bytes : Nat, whole : BOOLEAN]
Memory   == [seen : Contents, left : SUBSET Inputs, drift : BOOLEAN, exit : BOOLEAN,
             then : {"expo", "init"}, todo : SUBSET Names, cur : Names \cup {0},
             size : Sizes, files : Nat, bytes : Nat]
Tools    == [runs : {"none", "expo", "gradle"}, reads : SUBSET Inputs]
Endings  == [result : {"-", "ok", "err", "killed"},
             cause : {"-", "exists", "dirty", "incomplete"}, apk : Apks \cup {None}]

TypeOK ==
  /\ past \subseteq [Inputs -> 1..(changes.count + 1)] /\ inputs \in past
  /\ steady \in [Builds -> BOOLEAN]
  /\ host \in Hosts /\ fixed \subseteq {"log", "script"} /\ marker \in Builds \cup {None}
  /\ cache = [there |-> cache.there, files |-> cache.files] /\ cache.there \in BOOLEAN
  /\ cache.files = [n \in DOMAIN cache.files |-> cache.files[n]]
  /\ DOMAIN cache.files \subseteq Names
  /\ \A n \in DOMAIN cache.files : cache.files[n] \in Files
  /\ DOMAIN seed \subseteq Names /\ \A n \in DOMAIN seed : seed[n] \in Sizes
  /\ changes \in [count : 0..Disturbances, seed : {"nothing", "sizes", "names"}]
  /\ pc \in [Builds -> Positions] /\ seeded \in [Builds -> BOOLEAN]
  /\ mem \in [Builds -> Memory] /\ tool \in [Builds -> Tools]
  /\ end \in [Builds -> Endings] /\ alone \in [Builds -> BOOLEAN]

\* f with v at n.
With(f, n, v) == [m \in DOMAIN f \cup {n} |-> IF m = n THEN v ELSE f[m]]

\* What the preflight asks of the seed, which is one directory of files: the
\* directory is an entry, too.
Total(s) == MapThenSumSet(LAMBDA n : s[n], DOMAIN s)
EntriesWithin(s) == Cardinality(DOMAIN s) < MaxEntries
WithinLimits(s) ==
  /\ EntriesWithin(s) /\ Cardinality(DOMAIN s) <= MaxFiles /\ Total(s) <= MaxTotalBytes
  /\ \A n \in DOMAIN s : s[n] <= MaxFileBytes

Init ==
  /\ inputs = [f \in Inputs |-> 1] /\ past = {inputs} /\ steady = [b \in Builds |-> TRUE]
  /\ host = NoHost /\ fixed = {} /\ marker = None
  /\ cache = [there |-> FALSE, files |-> <<>>]
  /\ seed \in [Prepared -> Sizes] /\ WithinLimits(seed)
  /\ changes = [count |-> 0, seed |-> "nothing"]
  /\ pc = [b \in Builds |-> "idle"] /\ seeded \in [Builds -> BOOLEAN]
  /\ mem = [b \in Builds |-> Fresh] /\ tool = [b \in Builds |-> NoTool]
  /\ end = [b \in Builds |-> Running] /\ alone = [b \in Builds |-> TRUE]

At(b, from)       == pc[b] = from
Goes(b, from, to) == At(b, from) /\ pc' = [pc EXCEPT ![b] = to] /\ UNCHANGED end

\* The build returns; what it made stays.
Ends(b, how) ==
  /\ pc' = [pc EXCEPT ![b] = "done"] /\ mem' = [mem EXCEPT ![b] = Fresh]
  /\ end' = [end EXCEPT ![b] = how]
Fails(b, why) == Ends(b, [result |-> "err", cause |-> why, apk |-> None])

-----------------------------------------------------------------------------
(* The fixed files of the invocation, and the former host.                 *)

\* Other builds are at work, or a tool that outlived its build.
Others(b) == {c \in Builds \ {b} : Busy(c) \/ tool[c] # NoTool}

Start(b) ==
  /\ Goes(b, "idle", "log")
  /\ alone' = [c \in Builds |-> IF c = b THEN Others(b) = {} ELSE alone[c] /\ c \notin Others(b)]
  /\ UNCHANGED <<world, disk, mem, tool>>

\* Mutant: only the log is removed.
RemoveLog(b) ==
  /\ Goes(b, "log", "open") /\ fixed' = fixed \ {"log"}
  /\ UNCHANGED <<world, host, cache, marker, mem, tool, alone>>

\* A former invocation's log and Gradle script are removed.
RemoveFixed(b) ==
  /\ Goes(b, "log", "open") /\ fixed' = {}
  /\ UNCHANGED <<world, host, cache, marker, mem, tool, alone>>

\* create_private_file: create_new decides.
Create(b, from, file, to) ==
  /\ \/ Goes(b, from, to) /\ file \notin fixed /\ fixed' = fixed \cup {file} /\ UNCHANGED mem
     \/ At(b, from) /\ file \in fixed /\ Fails(b, "exists") /\ UNCHANGED fixed
  /\ UNCHANGED <<world, host, cache, marker, tool, alone>>

OpenLog(b)     == Create(b, "open", "log", "clean")
WriteScript(b) == Create(b, "init", "script", "assemble")

\* remove_android_host: remove_dir_all, which may fail half way.
RemoveHost(b) ==
  /\ \/ Goes(b, "clean", "check") /\ host' = NoHost /\ UNCHANGED mem
     \/ At(b, "clean") /\ host.there /\ Fails(b, "-") /\ host' = [host EXCEPT !.whole = FALSE]
  /\ UNCHANGED <<world, fixed, cache, marker, tool, alone>>

-----------------------------------------------------------------------------
(* generate_android_host: expo between two walks over the inputs.          *)

CheckHost(b) ==
  /\ \/ ~host.there /\ Goes(b, "check", "before") /\ UNCHANGED mem
     \/ host.there /\ At(b, "check") /\ Fails(b, "dirty")
  /\ UNCHANGED <<world, disk, tool, alone>>

\* workspace_inputs, one file after the other in the order the directory gives;
\* the second walk is compared with the first by what the files contain.
Walk(b) ==
  \E f \in mem[b].left :
    /\ \/ /\ Goes(b, "before", IF mem[b].left = {f} THEN "seed" ELSE "before")
          /\ mem' = [mem EXCEPT ![b].left = @ \ {f}, ![b].seen[f] = inputs[f]]
       \/ /\ Goes(b, "after", IF mem[b].left = {f} THEN "judge" ELSE "after")
          /\ mem' = [mem EXCEPT ![b].left = @ \ {f},
                                ![b].drift = @ \/ inputs[f] # mem[b].seen[f]]
    /\ UNCHANGED <<world, disk, tool, alone>>

\* Mutant: an exit of 0 is trusted.
JudgeByExit(b) ==
  /\ IF mem[b].exit /\ host.whole
     THEN Goes(b, "judge", "seed") /\ mem' = [mem EXCEPT ![b] = [Fresh EXCEPT !.then = "init"]]
     ELSE At(b, "judge") /\ Fails(b, "-")
  /\ UNCHANGED <<world, disk, tool, alone>>

\* No drift, an exit of 0, and a complete host.
Judge(b) ==
  /\ IF ~mem[b].drift /\ mem[b].exit /\ host.whole
     THEN Goes(b, "judge", "seed") /\ mem' = [mem EXCEPT ![b] = [Fresh EXCEPT !.then = "init"]]
     ELSE At(b, "judge") /\ Fails(b, "-")
  /\ UNCHANGED <<world, disk, tool, alone>>

-----------------------------------------------------------------------------
(* seed_gradle_dependency_cache, before either tool.                       *)

\* The seeding returns: expo is started, or the Gradle script is next.
Return(b, from) ==
  /\ Goes(b, from, mem[b].then)
  /\ mem' = [mem EXCEPT ![b].size = 0, ![b].files = 0, ![b].bytes = 0]
  /\ tool' = [tool EXCEPT ![b] = IF mem[b].then = "expo" THEN Expo ELSE NoTool]

\* Nothing to do, a cache that was seeded, one that was not, or a copy that the
\* preflight allows.
Seed(b) ==
  /\ \/ (~seeded[b] \/ (cache.there /\ marker # None)) /\ Return(b, "seed")
     \/ /\ At(b, "seed") /\ seeded[b] /\ cache.there /\ marker = None
        /\ Fails(b, "incomplete") /\ UNCHANGED tool
     \/ /\ At(b, "seed") /\ seeded[b] /\ ~cache.there /\ ~WithinLimits(seed)
        /\ Fails(b, "-") /\ UNCHANGED tool
     \/ /\ seeded[b] /\ ~cache.there /\ WithinLimits(seed)
        /\ Goes(b, "seed", "list") /\ UNCHANGED <<mem, tool>>
  /\ UNCHANGED <<world, disk, alone>>

\* Mutant: the marker is written before the copy.
ListAndMark(b) ==
  /\ Goes(b, "list", "copy") /\ marker' = b
  /\ cache' = [cache EXCEPT !.there = TRUE] /\ mem' = [mem EXCEPT ![b].todo = DOMAIN seed]
  /\ UNCHANGED <<world, host, fixed, tool, alone>>

\* The directory is made (or is there by now), and the seed listed, which may
\* have more entries by now.
List(b) ==
  /\ cache' = [cache EXCEPT !.there = TRUE]
  /\ \/ /\ Goes(b, "list", "copy") /\ EntriesWithin(seed)
        /\ mem' = [mem EXCEPT ![b].todo = DOMAIN seed]
     \/ At(b, "list") /\ ~EntriesWithin(seed) /\ Fails(b, "-")
  /\ UNCHANGED <<world, host, fixed, marker, tool, alone>>

Copying(b)   == At(b, "copy") /\ mem[b].cur # 0
BetweenTwo(b) == At(b, "copy") /\ mem[b].cur = 0

\* The next file in order: inspected, counted, opened, and created anew.
OpenNext(b) ==
  /\ BetweenTwo(b) /\ mem[b].todo # {}
  /\ LET n    == Min(mem[b].todo)
         fits == n \in DOMAIN seed /\ mem[b].files < MaxFiles /\ seed[n] <= MaxFileBytes IN
     IF fits /\ n \notin DOMAIN cache.files
     THEN /\ cache' = [cache EXCEPT !.files = With(@, n, [by |-> b, bytes |-> 0, whole |-> FALSE])]
          /\ mem' = [mem EXCEPT ![b].cur = n, ![b].size = seed[n], ![b].files = @ + 1]
          /\ UNCHANGED <<pc, end>>
     ELSE Fails(b, IF fits THEN "exists" ELSE "-") /\ UNCHANGED cache
  /\ UNCHANGED <<world, host, fixed, marker, tool, alone>>

\* What the open file holds now; one that was removed keeps its bytes.
Holds(b)  == IF mem[b].cur \in DOMAIN seed THEN seed[mem[b].cur] ELSE mem[b].size
Copied(b) == cache.files[mem[b].cur].bytes

WriteByte(b) ==
  /\ cache' = [cache EXCEPT !.files[mem[b].cur].bytes = @ + 1]
  /\ mem' = [mem EXCEPT ![b].bytes = @ + 1] /\ UNCHANGED <<pc, end>>

\* Mutant: the preflight's word is taken for the limits.
ReadUnchecked(b) ==
  /\ Copying(b) /\ Copied(b) < Holds(b) /\ WriteByte(b)
  /\ UNCHANGED <<world, host, fixed, marker, tool, alone>>

\* One buffer, counted before it is written.
Read(b) ==
  /\ Copying(b) /\ Copied(b) < Holds(b)
  /\ IF Copied(b) < MaxFileBytes /\ mem[b].bytes < MaxTotalBytes
     THEN WriteByte(b) ELSE Fails(b, "-") /\ UNCHANGED cache
  /\ UNCHANGED <<world, host, fixed, marker, tool, alone>>

\* The file ends where its length said, or the seed has changed.
Finish(b) ==
  /\ Copying(b) /\ Copied(b) >= Holds(b)
  /\ IF Copied(b) = mem[b].size
     THEN /\ cache' = [cache EXCEPT !.files[mem[b].cur].whole = TRUE]
          /\ mem' = [mem EXCEPT ![b].todo = @ \ {mem[b].cur}, ![b].cur = 0]
          /\ UNCHANGED <<pc, end>>
     ELSE Fails(b, "-") /\ UNCHANGED cache
  /\ UNCHANGED <<world, host, fixed, marker, tool, alone>>

\* The marker, when the whole tree is copied.
Mark(b) ==
  /\ BetweenTwo(b) /\ mem[b].todo = {}
  /\ \/ marker = None /\ marker' = b /\ Return(b, "copy")
     \/ marker # None /\ Fails(b, "exists") /\ UNCHANGED <<marker, tool>>
  /\ UNCHANGED <<world, host, fixed, cache, alone>>

-----------------------------------------------------------------------------
(* The tools.                                                              *)

\* expo prebuild reads the inputs and writes the host, whoever removes it.
ExpoReads(b) ==
  \E f \in tool[b].reads :
    /\ tool' = [tool EXCEPT ![b].reads = @ \ {f}]
    /\ host' = [host EXCEPT !.there = TRUE, !.whole = FALSE, !.from[f] = inputs[f]]
    /\ UNCHANGED <<world, fixed, cache, marker, pc, mem, end, alone>>

\* It exits with 0 or not, its host complete or not.  A build that still runs
\* (or was told to stop, which ends its tool) walks over the inputs again.
ExpoExits(b) ==
  /\ tool[b].runs = "expo" /\ tool' = [tool EXCEPT ![b] = NoTool]
  /\ \E whole \in BOOLEAN :
       host' = [host EXCEPT !.whole = @ \/ (whole /\ tool[b].reads = {} /\ host.there)]
  /\ \/ /\ Goes(b, "expo", "after")
        /\ \E ok \in BOOLEAN : mem' = [mem EXCEPT ![b].exit = ok, ![b].left = Inputs]
     \/ At(b, "done") /\ UNCHANGED <<pc, mem, end>>
  /\ UNCHANGED <<world, fixed, cache, marker, alone>>

\* ./gradlew of the host; Gradle makes a cache where it finds none.
StartGradle(b) ==
  /\ Goes(b, "assemble", "gradle") /\ host.there
  /\ tool' = [tool EXCEPT ![b] = Gradle] /\ cache' = [cache EXCEPT !.there = TRUE]
  /\ UNCHANGED <<world, host, fixed, marker, mem, alone>>

\* Gradle assembles what the host holds, exits with 0 without an APK, or fails.
GradleExits(b) ==
  /\ tool[b].runs = "gradle" /\ tool' = [tool EXCEPT ![b] = NoTool]
  /\ host' \in {host} \cup
       {[host EXCEPT !.apk = [by |-> b, from |-> host.from]] : h \in {host} \ {NoHost}}
  /\ \/ Goes(b, "gradle", "output") /\ UNCHANGED mem
     \/ At(b, "gradle") /\ Fails(b, "-")
     \/ At(b, "done") /\ UNCHANGED <<pc, mem, end>>
  /\ UNCHANGED <<world, fixed, cache, marker, alone>>

\* The APK must be where Gradle puts it.
Output(b) ==
  /\ At(b, "output")
  /\ IF host.apk # None
     THEN Ends(b, [result |-> "ok", cause |-> "-", apk |-> host.apk])
     ELSE Fails(b, "-")
  /\ UNCHANGED <<world, disk, tool, alone>>

-----------------------------------------------------------------------------
\* A file operation or a spawn fails.
Breaks(b) ==
  /\ Busy(b) /\ tool[b] = NoTool /\ Fails(b, "-")
  /\ UNCHANGED <<world, disk, tool, alone>>

\* SIGKILL: nothing is undone, and a tool that runs goes on.  (Between two tools
\* a kill is what Breaks is.)
Killed(b) ==
  /\ Busy(b) /\ tool[b] # NoTool
  /\ Ends(b, [result |-> "killed", cause |-> "-", apk |-> None])
  /\ UNCHANGED <<world, disk, tool, alone>>

\* Contents that no input had before are numbered by the edit that wrote them.
NewContents == changes.count + 2

\* The user, or a tool, writes an authored input: new contents, or such as it had
\* before.  (An edit while nothing reads the inputs may as well come later.)
Edit ==
  /\ \E b \in Builds : pc[b] \in {"before", "expo", "after"}
  /\ changes.count < Disturbances /\ changes' = [changes EXCEPT !.count = @ + 1]
  /\ \E f \in Inputs : \E v \in {p[f] : p \in past} \cup {NewContents} :
       /\ v # inputs[f] /\ inputs' = [inputs EXCEPT ![f] = v]
       /\ steady' = [b \in Builds |-> steady[b] /\ (v = NewContents \/ ~Busy(b))]
  /\ past' = past \cup {inputs'}
  /\ UNCHANGED <<disk, seed, pc, seeded, mem, tool, end, alone>>

\* Whoever prepares the seed adds, rewrites or removes files of it, once.
Prepare ==
  /\ \E b \in Builds : pc[b] \in {"seed", "list", "copy"}
  /\ changes.count = 0 /\ Disturbances > 0
  /\ \E S \in SUBSET Names :
       \/ \E s \in Sizes : seed' = [n \in DOMAIN seed \cup S |-> IF n \in S THEN s ELSE seed[n]]
       \/ seed' = [n \in DOMAIN seed \ S |-> seed[n]]
  /\ seed' # seed
  /\ changes' = [count |-> Disturbances,
                 seed |-> IF DOMAIN seed' = DOMAIN seed THEN "sizes" ELSE "names"]
  /\ UNCHANGED <<inputs, past, steady, disk, pc, seeded, mem, tool, end, alone>>

Opening(b)    == Start(b) \/ RemoveFixed(b) \/ OpenLog(b) \/ RemoveHost(b)
Generating(b) == CheckHost(b) \/ Walk(b) \/ ExpoReads(b) \/ ExpoExits(b) \/ Judge(b)
Seeding(b)    == Seed(b) \/ List(b) \/ OpenNext(b) \/ Read(b) \/ Finish(b) \/ Mark(b)
Assembling(b) == WriteScript(b) \/ StartGradle(b) \/ GradleExits(b) \/ Output(b)

Next ==
  \/ Edit \/ Prepare
  \/ \E b \in Builds : \/ Opening(b) \/ Generating(b) \/ Seeding(b) \/ Assembling(b)
                       \/ Breaks(b) \/ Killed(b)

Spec == Init /\ [][Next]_vars

-----------------------------------------------------------------------------
(* Properties.                                                             *)

(* A build that nothing ran beside reports the APK of its own Gradle, never *)
(* one that an earlier build, killed or failed, left in the host; and unless *)
(* an input got back contents it once had, which the comparison of the two   *)
(* walks cannot see, the APK is made from one state of the authored inputs,  *)
(* never from a mixture that edits beside expo left in the host.             *)
ArtifactIsOwn ==
  \A b \in Builds : end[b].result = "ok" /\ alone[b] =>
    end[b].apk.by = b /\ (steady[b] => end[b].apk.from \in past)

(* What killed and failed builds leave never stands in the way of a build   *)
(* that runs by itself, except a cache that an earlier build did not finish *)
(* to seed, or that Gradle made in a build that was given no seed.          *)
LeftoversNeverBlock ==
  \A b \in Builds : alone[b] =>
    /\ end[b].cause \notin {"exists", "dirty"}
    /\ end[b].cause = "incomplete" =>
         \E c \in Builds \ {b} : end[c].result \in {"err", "killed"} \/ ~seeded[c]

\* The files of the cache that build b copied, and one pair for each of their bytes.
CopiedBy(b) == {n \in DOMAIN cache.files : cache.files[n].by = b}
BytesBy(b)  == UNION {{n} \X (1..cache.files[n].bytes) : n \in CopiedBy(b)}

(* The completion marker stands for a cache every file of which is a whole  *)
(* copy, also when two builds seed at once (they copy in one order, so the  *)
(* second stops at the first file the other has created), as long as the    *)
(* seed's names stay or nothing ran beside.                                 *)
MarkedMeansWhole ==
  marker # None /\ (alone[marker] \/ changes.seed # "names") =>
    \A n \in DOMAIN cache.files : cache.files[n].whole

(* No build copies more than the limits allow, though the seed may grow     *)
(* after its preflight and while a file of it is read.                      *)
CopyWithinLimits ==
  \A b \in Builds :
    /\ Cardinality(CopiedBy(b)) <= MaxFiles
    /\ Cardinality(BytesBy(b)) <= MaxTotalBytes
    /\ \A n \in CopiedBy(b) : cache.files[n].bytes <= MaxFileBytes
=============================================================================

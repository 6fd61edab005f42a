-------------------------- MODULE MigrationsProofs --------------------------
(* What holds of a migration history for every number of adders and servers,  *)
(* every version and every sequence of edits: a server that listens serves     *)
(* the migrations it was built from, and two of them agree on a history.       *)
EXTENDS Migrations, FiniteSetTheorems, FunctionTheorems, TLAPS

-----------------------------------------------------------------------------
(* The inductive invariant.                                                  *)

\* What is counted is finite.
FiniteInv == /\ IsFiniteSet(files) /\ IsFiniteSet(applied)
             /\ \A s \in Servers : IsFiniteSet(server[s].image)

\* A version has one row.
DistinctRows == \A q, r \in applied : q.version = r.version => q = r

\* A migrator has to apply nothing before it has looked, and files of its image.
TodoInv == /\ migrator.pc = "built" => migrator.todo = {}
           /\ migrator.todo \subseteq migrator.image

\* What was built by a command that verifies was built from a workspace that
\* verified, and the rest of the workspace stands still.
BuiltInv == migrator.checked => Verify(identity)

History(image) == {Row(f) : f \in image}
OnePerVersion(image) == \A f, g \in image : f.version = g.version => f = g
Verified(s) == server[s].pc \in {"verified", "listening"}

\* A server that compared the histories found its own, which nobody takes away ...
ServesInv ==
  \A s \in Servers :
    Verified(s) => History(server[s].image) \subseteq applied /\ OnePerVersion(server[s].image)

\* ... and found nothing else, so that the one that came later found the more.
AgreeInv ==
  \A s, t \in Servers : Verified(s) /\ Verified(t) =>
    \/ History(server[s].image) \subseteq History(server[t].image)
    \/ History(server[t].image) \subseteq History(server[s].image)

IInv == /\ TypeOK /\ FiniteInv /\ DistinctRows /\ TodoInv
        /\ BuiltInv /\ ServesInv /\ AgreeInv

-----------------------------------------------------------------------------
(* Sets of numbers, and counting.                                            *)

\* A bounded set of numbers has a greatest one.
LEMMA MaxIsIn ==
  ASSUME NEW n \in Nat, NEW S, S \subseteq 0..n, S # {}
  PROVE  Max(S) \in S
<1> DEFINE T == {n - x : x \in S}
<1>1. T \subseteq Nat /\ T # {}
  <2>1. \A x \in S : n - x \in Nat
    OBVIOUS
  <2>2. PICK x \in S : n - x \in T
    OBVIOUS
  <2> QED
    BY <2>1, <2>2
<1>2. \E m \in T : \A k \in T : <<k, m>> \notin OpToRel(<, Nat)
  <2> HIDE DEF T
  <2> QED
    BY <1>1, WFMin, NatLessThanWellFounded
<1>3. PICK m \in T : \A k \in T : <<k, m>> \notin OpToRel(<, Nat)
  BY <1>2
<1>4. \A k \in T : ~(k < m)
  BY <1>1, <1>3 DEF OpToRel
<1>5. PICK x \in S : m = n - x
  OBVIOUS
<1>6. \A y \in S : x >= y
  BY <1>4, <1>5
<1> QED
  BY <1>6 DEF Max

\* What is made of each member of a finite set is finite.
LEMMA ImageFinite ==
  ASSUME NEW S, IsFiniteSet(S), NEW T, NEW g \in [S -> T], T = {g[x] : x \in S}
  PROVE  IsFiniteSet(T)
<1>1. g \in Surjection(S, T)
  BY Fun_IsSurj
<1> QED
  BY <1>1, FS_Surjection

\* Rows of distinct versions are as many as their versions.
LEMMA DistinctCount ==
  ASSUME NEW S, IsFiniteSet(S), \A q, r \in S : q.version = r.version => q = r
  PROVE  Cardinality(VersionsOf(S)) = Cardinality(S)
<1> DEFINE g == [x \in S |-> x.version]
           T == VersionsOf(S)
<1>1. g \in [S -> T] /\ \A x, y \in S : g[x] = g[y] => x = y
  BY DEF VersionsOf
<1>2. \A t \in T : \E x \in S : g[x] = t
  BY DEF VersionsOf
<1> HIDE DEF g, T
<1>3. g \in Injection(S, T) /\ g \in Surjection(S, T)
  BY <1>1, <1>2, Fun_IsInj, Fun_IsSurj
<1>4. Cardinality(T) = Cardinality(S)
  BY <1>3, FS_Surjection
<1> QED
  BY <1>4 DEF T

\* As many rows as files, and a file for each row: then also a row for each file.
LEMMA SameHistory ==
  ASSUME NEW rows, NEW image,
         rows \subseteq [version : Versions, sql : Contents, success : BOOLEAN],
         image \subseteq Files, IsFiniteSet(image),
         \A q, r \in rows : q.version = r.version => q = r,
         VerifyHistory(rows, image)
  PROVE  History(image) = rows /\ OnePerVersion(image)
<1>1. \A r \in rows : r.success /\ \E f \in image : Matches(r, f)
  BY DEF VerifyHistory
<1> DEFINE g == [r \in rows |-> CHOOSE f \in image : Matches(r, f)]
<1>2. \A r \in rows : g[r] \in image /\ Matches(r, g[r])
  BY <1>1
<1>3. \A r \in rows : Row(g[r]) = r
  <2> SUFFICES ASSUME NEW r \in rows PROVE Row(g[r]) = r
    OBVIOUS
  <2>1. r.success = TRUE /\ r.version = g[r].version /\ r.sql = g[r].sql
    BY <1>1, <1>2 DEF Matches
  <2>2. r = [version |-> r.version, sql |-> r.sql, success |-> r.success]
    OBVIOUS
  <2> HIDE DEF g
  <2> QED
    BY <2>1, <2>2 DEF Row
<1>4. DOMAIN g = rows /\ g \in [rows -> image]
  BY <1>2
<1> HIDE DEF g
<1>5. \A q, r \in rows : g[q] = g[r] => q = r
  BY <1>3
<1>6. g \in Injection(rows, image)
  BY <1>4, <1>5, Fun_IsInj
<1>7. g \in Surjection(rows, image)
  BY <1>6, FS_Injection DEF VerifyHistory
<1>8. \A f \in image : \E r \in rows : g[r] = f
  BY <1>7, Fun_SurjectionProperties
<1>9. History(image) = rows
  BY <1>2, <1>3, <1>8 DEF History
<1>10. OnePerVersion(image)
  <2> SUFFICES ASSUME NEW f \in image, NEW h \in image, f.version = h.version PROVE f = h
    BY DEF OnePerVersion
  <2>1. PICK q \in rows : g[q] = f
    BY <1>8
  <2>2. PICK r \in rows : g[r] = h
    BY <1>8
  <2>3. q.version = r.version
    BY <1>2, <2>1, <2>2 DEF Matches
  <2> QED
    BY <2>1, <2>2, <2>3
<1> QED
  BY <1>9, <1>10
-----------------------------------------------------------------------------
(* Types: what each part of a step leaves of each variable.                  *)

\* A planned version is one, whatever files there are.
LEMMA PlannedVersion ==
  ASSUME files \subseteq Files, NextMigrationVersion # 0
  PROVE  NextMigrationVersion \in Versions
<1> DEFINE S == VersionsOf(files) \cup {0}
<1>1. S \subseteq 0..MaxVersion /\ S # {}
  BY MaxVersionAssumption DEF VersionsOf, Files, Versions
<1>2. Max(S) \in S
  BY <1>1, MaxIsIn, MaxVersionAssumption
<1>3. NextMigrationVersion = Max(S) + 1 /\ Max(S) # MaxVersion
  BY DEF NextMigrationVersion
<1>4. Max(S) \in 0..MaxVersion
  BY <1>1, <1>2
<1> QED
  BY <1>3, <1>4, MaxVersionAssumption DEF Versions

Adding == [pc : {"create", "write"}, name : ValidNames, version : Versions]
Added == [NoAdd EXCEPT !.pc = "done"]

LEMMA AdderFacts ==
  ASSUME TypeOK, NEW a \in Adders
  PROVE  /\ adder \in [Adders -> Adding \cup {NoAdd, Added}]
         /\ adder[a].pc \in {"create", "write"} => adder[a] \in Adding
BY DEF TypeOK, Adding, Added, NoAdd

LEMMA AdderStep ==
  ASSUME IInv, [Next]_vars
  PROVE  adder' \in [Adders -> Adding \cup {NoAdd, Added}]
<1>1. TypeOK /\ adder \in [Adders -> Adding \cup {NoAdd, Added}]
  BY DEF IInv, TypeOK, Adding, Added
<1>2. CASE UNCHANGED adder
  BY <1>1, <1>2
<1>3. ASSUME NEW a \in Adders, Plan(a)
      PROVE  adder' \in [Adders -> Adding \cup {NoAdd, Added}]
  <2>1. PICK n \in Names :
          /\ ValidateMigrationName(n) /\ NextMigrationVersion # 0
          /\ adder' = [adder EXCEPT ![a] = [pc |-> "create", name |-> n, version |-> NextMigrationVersion]]
    BY <1>3 DEF Plan
  <2>2. NextMigrationVersion \in Versions
    BY <1>1, <2>1, PlannedVersion DEF TypeOK
  <2>3. [pc |-> "create", name |-> n, version |-> NextMigrationVersion] \in Adding
    BY <2>1, <2>2 DEF Adding, ValidateMigrationName
  <2> QED
    BY <1>1, <2>1, <2>3
<1>4. ASSUME NEW a \in Adders, AdderGoes(a, "create", "write")
      PROVE  adder' \in [Adders -> Adding \cup {NoAdd, Added}]
  <2>1. adder[a] \in Adding
    BY <1>1, <1>4, AdderFacts DEF AdderGoes
  <2>2. [adder[a] EXCEPT !.pc = "write"] \in Adding
    BY <2>1 DEF Adding
  <2> QED
    BY <1>1, <1>4, <2>2 DEF AdderGoes
<1>5. ASSUME NEW a \in Adders, NEW from, AdderEnds(a, from)
      PROVE  adder' \in [Adders -> Adding \cup {NoAdd, Added}]
  BY <1>1, <1>5 DEF AdderEnds, Added
<1>6. CASE \E a \in Adders : Create(a) \/ Write(a) \/ AddFails(a)
  BY <1>4, <1>5, <1>6 DEF Create, Write, AddFails
<1>7. CASE Rewrite \/ Delete \/ Merge \/ PutStray
  BY <1>2, <1>7 DEF Rewrite, Delete, Merge, PutStray, Edit
<1>8. CASE BuildMigrator \/ Lock \/ ApplyNext \/ MigratorEnds
  BY <1>2, <1>8 DEF BuildMigrator, Lock, ApplyNext, MigratorEnds
<1>9. CASE \E s \in Servers : BuildServer(s) \/ VerifyMigrations(s) \/ Listen(s) \/ Stop(s)
  BY <1>2, <1>9 DEF BuildServer, VerifyMigrations, Listen, Stop
<1> QED
  BY <1>2, <1>3, <1>6, <1>7, <1>8, <1>9 DEF Next, vars
\* Files are created, written, edited, deleted and merged one at a time.
LEMMA FilesStep ==
  ASSUME IInv, [Next]_vars
  PROVE  files' \subseteq Files /\ IsFiniteSet(files')
<1>1. TypeOK /\ files \subseteq Files /\ IsFiniteSet(files)
  BY DEF IInv, TypeOK, FiniteInv
<1>2. CASE UNCHANGED files
  BY <1>1, <1>2
<1>3. ASSUME NEW a \in Adders, Create(a)
      PROVE  files' \subseteq Files /\ IsFiniteSet(files')
  <2>1. adder[a] \in Adding
    BY <1>1, <1>3, AdderFacts DEF Create, AdderGoes, AdderEnds
  <2>2. File(adder[a].version, adder[a].name, "empty") \in Files
    BY <2>1 DEF Adding, File, Files, Names, Contents
  <2>3. files' = files \/ files' = files \cup {File(adder[a].version, adder[a].name, "empty")}
    BY <1>3 DEF Create
  <2> QED
    BY <1>1, <2>2, <2>3, FS_AddElement
<1>4. ASSUME NEW a \in Adders, Write(a)
      PROVE  files' \subseteq Files /\ IsFiniteSet(files')
  <2> DEFINE g == [f \in files |-> IF Path(f) = Target(a) THEN [f EXCEPT !.sql = "stub"] ELSE f]
  <2>1. files' = {g[f] : f \in files}
    BY <1>4 DEF Write
  <2>2. \A f \in files : g[f] \in Files
    BY <1>1 DEF Files, Contents
  <2>3. g \in [files -> files']
    BY <2>1
  <2> HIDE DEF g
  <2> QED
    BY <1>1, <2>1, <2>2, <2>3, ImageFinite
<1>5. CASE Rewrite
  <2>1. PICK f \in files : files' = (files \ {f}) \cup {[f EXCEPT !.sql = "edited"]}
    BY <1>5 DEF Rewrite
  <2>2. [f EXCEPT !.sql = "edited"] \in Files
    BY <1>1 DEF Files, Contents
  <2>3. IsFiniteSet(files \ {f})
    BY <1>1, FS_RemoveElement
  <2> QED
    BY <1>1, <2>1, <2>2, <2>3, FS_AddElement
<1>6. CASE Delete
  BY <1>1, <1>6, FS_RemoveElement DEF Delete
<1>7. CASE Merge
  <2> DEFINE rest(v) == {f \in files : Path(f) # <<v, "merged">>}
  <2>1. PICK v \in Versions : files' = rest(v) \cup {File(v, "merged", "schema")}
    BY <1>7 DEF Merge
  <2>2. File(v, "merged", "schema") \in Files
    BY DEF File, Files, Contents
  <2>3. IsFiniteSet(rest(v)) /\ rest(v) \subseteq Files
    BY <1>1, FS_Subset
  <2> QED
    BY <2>1, <2>2, <2>3, FS_AddElement
<1>8. CASE \E a \in Adders : Plan(a) \/ AddFails(a)
  BY <1>2, <1>8 DEF Plan, AddFails, workspace
<1>9. CASE PutStray
  BY <1>2, <1>9 DEF PutStray
<1>10. CASE BuildMigrator \/ Lock \/ ApplyNext \/ MigratorEnds
  BY <1>2, <1>10 DEF BuildMigrator, Lock, ApplyNext, MigratorEnds, workspace
<1>11. CASE \E s \in Servers : BuildServer(s) \/ VerifyMigrations(s) \/ Listen(s) \/ Stop(s)
  BY <1>2, <1>11 DEF BuildServer, VerifyMigrations, Listen, Stop, workspace
<1> QED
  BY <1>2, <1>3, <1>4, <1>5, <1>6, <1>7, <1>8, <1>9, <1>10, <1>11 DEF Next, vars

MigratorType == [pc : {"off", "built", "locked"}, image : SUBSET Files,
                 todo : SUBSET Files, checked : BOOLEAN]

\* What is not about the migrator leaves it and the rows alone.
LEMMA MigratorAlone ==
  ASSUME [Next]_vars
  PROVE  UNCHANGED <<migrator, applied>> \/ BuildMigrator \/ Lock \/ ApplyNext \/ MigratorEnds
<1>1. CASE \E a \in Adders : Plan(a) \/ Create(a) \/ Write(a) \/ AddFails(a)
  BY <1>1 DEF Plan, Create, Write, AddFails, database
<1>2. CASE Rewrite \/ Delete \/ Merge \/ PutStray
  BY <1>2 DEF Rewrite, Delete, Merge, PutStray, Edit, database
<1>3. CASE \E s \in Servers : BuildServer(s) \/ VerifyMigrations(s) \/ Listen(s) \/ Stop(s)
  BY <1>3 DEF BuildServer, VerifyMigrations, Listen, Stop
<1> QED
  BY <1>1, <1>2, <1>3 DEF Next, vars

LEMMA MigratorStep ==
  ASSUME IInv, [Next]_vars
  PROVE  migrator' \in MigratorType /\ TodoInv'
<1>1. migrator \in MigratorType /\ TodoInv /\ files \subseteq Files
  BY DEF IInv, TypeOK, MigratorType
<1>2. CASE UNCHANGED <<migrator, applied>>
  BY <1>1, <1>2 DEF TodoInv
<1>3. CASE BuildMigrator
  BY <1>1, <1>3 DEF BuildMigrator, MigratorType, TodoInv
<1>4. CASE migrator' = Idle
  BY <1>4 DEF Idle, MigratorType, TodoInv
<1>5. CASE Lock
  <2> DEFINE todo == {f \in migrator.image : ~\E r \in applied : Matches(r, f)}
  <2>1. CASE migrator' = [migrator EXCEPT !.pc = "locked", !.todo = todo, !.checked = FALSE]
    <3>1. todo \in SUBSET Files /\ todo \subseteq migrator.image
      BY <1>1 DEF MigratorType
    <3> HIDE DEF todo
    <3> QED
      BY <1>1, <2>1, <3>1 DEF MigratorType, TodoInv
  <2> QED
    BY <1>4, <1>5, <2>1 DEF Lock
<1>6. CASE ApplyNext
  <2>1. CASE \E f \in migrator.todo : migrator' = [migrator EXCEPT !.todo = migrator.todo \ {f}]
    BY <1>1, <1>6, <2>1 DEF ApplyNext, MigratorType, TodoInv
  <2> QED
    BY <1>4, <1>6, <2>1 DEF ApplyNext
<1>7. CASE MigratorEnds
  BY <1>4, <1>7 DEF MigratorEnds
<1> QED
  BY <1>2, <1>3, <1>5, <1>6, <1>7, MigratorAlone

RowType == [version : Versions, sql : Contents, success : BOOLEAN]

\* Rows are added, one of a new version at a time, and never changed.
LEMMA AppliedStep ==
  ASSUME IInv, [Next]_vars
  PROVE  /\ applied \subseteq applied' /\ applied' \subseteq RowType
         /\ IsFiniteSet(applied') /\ DistinctRows'
<1>1. /\ applied \subseteq RowType /\ IsFiniteSet(applied) /\ DistinctRows
      /\ migrator.todo \subseteq Files
  BY DEF IInv, TypeOK, RowType, FiniteInv
<1>2. CASE UNCHANGED applied
  BY <1>1, <1>2 DEF DistinctRows
<1>3. ASSUME NEW f \in migrator.todo, f.version \notin VersionsOf(applied),
             applied' = applied \cup {Row(f)}
      PROVE  /\ applied \subseteq applied' /\ applied' \subseteq RowType
             /\ IsFiniteSet(applied') /\ DistinctRows'
  <2>1. Row(f) \in RowType
    BY <1>1 DEF Row, RowType, Files
  <2>2. \A r \in applied : r.version # Row(f).version
    BY <1>3 DEF VersionsOf, Row
  <2>3. DistinctRows'
    BY <1>1, <1>3, <2>2 DEF DistinctRows
  <2> QED
    BY <1>1, <1>3, <2>1, <2>3, FS_AddElement
<1>4. CASE ApplyNext
  BY <1>2, <1>3, <1>4 DEF ApplyNext
<1> QED
  BY <1>2, <1>4, MigratorAlone DEF BuildMigrator, Lock, MigratorEnds
ServerType == [pc : {"off", "built", "verified", "listening"}, image : SUBSET Files]

\* The image of s stays, or it is none, or what the workspace has; and s passes
\* verification only with the history of this moment.
ServerMoves(s) ==
  \/ server'[s] = server[s]
  \/ server'[s] = Off
  \/ server'[s] = [pc |-> "built", image |-> files]
  \/ /\ server'[s] = [server[s] EXCEPT !.pc = "verified"]
     /\ VerifyHistory(applied, server[s].image)
  \/ /\ server'[s] = [server[s] EXCEPT !.pc = "listening"] /\ Verified(s)

LEMMA ServerEffect ==
  ASSUME TypeOK, [Next]_vars
  PROVE  server' = [s \in Servers |-> server'[s]] /\ \A s \in Servers : ServerMoves(s)
<1>1. server \in [Servers -> ServerType]
  BY DEF TypeOK, ServerType
<1>2. CASE UNCHANGED server
  BY <1>1, <1>2 DEF ServerMoves
<1>3. ASSUME NEW t \in Servers, BuildServer(t) \/ VerifyMigrations(t) \/ Listen(t) \/ Stop(t)
      PROVE  server' = [s \in Servers |-> server'[s]] /\ \A s \in Servers : ServerMoves(s)
  <2>1. server' = [s \in Servers |-> server'[s]] /\ \A s \in Servers \ {t} : server'[s] = server[s]
    BY <1>1, <1>3 DEF BuildServer, VerifyMigrations, Listen, Stop, ServerGoes
  <2>2. CASE BuildServer(t)
    BY <1>1, <2>2 DEF BuildServer, ServerMoves
  <2>3. CASE VerifyMigrations(t)
    BY <1>1, <2>3 DEF VerifyMigrations, ServerGoes, ServerMoves
  <2>4. CASE Listen(t)
    BY <1>1, <2>4 DEF Listen, ServerGoes, ServerMoves, Verified
  <2>5. CASE Stop(t)
    BY <1>1, <2>5 DEF Stop, ServerMoves
  <2>6. ServerMoves(t)
    BY <1>3, <2>2, <2>3, <2>4, <2>5
  <2>7. \A s \in Servers \ {t} : ServerMoves(s)
    BY <2>1 DEF ServerMoves
  <2> QED
    BY <2>1, <2>6, <2>7
<1>4. CASE \E a \in Adders : Plan(a) \/ Create(a) \/ Write(a) \/ AddFails(a)
  BY <1>2, <1>4 DEF Plan, Create, Write, AddFails, database
<1>5. CASE Rewrite \/ Delete \/ Merge \/ PutStray
  BY <1>2, <1>5 DEF Rewrite, Delete, Merge, PutStray, Edit, database
<1>6. CASE BuildMigrator \/ Lock \/ ApplyNext \/ MigratorEnds
  BY <1>2, <1>6 DEF BuildMigrator, Lock, ApplyNext, MigratorEnds
<1> QED
  BY <1>2, <1>3, <1>4, <1>5, <1>6 DEF Next, vars

LEMMA ServerStep ==
  ASSUME IInv, [Next]_vars
  PROVE  /\ server' \in [Servers -> ServerType]
         /\ \A s \in Servers : IsFiniteSet(server'[s].image)
<1>1. /\ TypeOK /\ server \in [Servers -> ServerType]
      /\ files \subseteq Files /\ IsFiniteSet(files)
      /\ \A s \in Servers : IsFiniteSet(server[s].image)
  BY DEF IInv, TypeOK, ServerType, FiniteInv
<1>2. IsFiniteSet({})
  BY FS_EmptySet
<1>3. ASSUME NEW s \in Servers
      PROVE  server'[s] \in ServerType /\ IsFiniteSet(server'[s].image)
  <2>1. ServerMoves(s) /\ server[s] \in ServerType
    BY <1>1, ServerEffect
  <2>2. CASE server'[s] = Off
    BY <1>2, <2>2 DEF Off, ServerType
  <2>3. CASE server'[s] = [pc |-> "built", image |-> files]
    BY <1>1, <2>3 DEF ServerType
  <2>4. CASE \E p \in {"verified", "listening"} : server'[s] = [server[s] EXCEPT !.pc = p]
    BY <1>1, <2>1, <2>4 DEF ServerType
  <2> QED
    BY <1>1, <2>1, <2>2, <2>3, <2>4 DEF ServerMoves
<1>4. server' = [s \in Servers |-> server'[s]]
  BY <1>1, ServerEffect
<1> QED
  BY <1>3, <1>4

-----------------------------------------------------------------------------
(* What was built, and what was found.                                       *)

LEMMA BuiltStep ==
  ASSUME IInv, [Next]_vars
  PROVE  BuiltInv'
<1>1. BuiltInv /\ TypeOK
  BY DEF IInv
<1>2. identity' = identity
  BY DEF Next, vars, Plan, Create, Write, AddFails, Rewrite, Delete, Merge, PutStray, Edit,
         BuildMigrator, Lock, ApplyNext, MigratorEnds, BuildServer, VerifyMigrations,
         Listen, Stop, workspace
<1>3. migrator'.checked => migrator.checked \/ Verify(identity)
  <2>1. migrator \in MigratorType
    BY <1>1 DEF TypeOK, MigratorType
  <2>2. CASE UNCHANGED migrator \/ MigratorEnds
    BY <2>2 DEF MigratorEnds, Idle
  <2>3. CASE BuildMigrator
    BY <2>3 DEF BuildMigrator
  <2>4. CASE Lock
    BY <2>1, <2>4 DEF Lock, Idle, MigratorType
  <2>5. CASE ApplyNext
    BY <2>1, <2>5 DEF ApplyNext, Idle, MigratorType
  <2> QED
    BY <2>2, <2>3, <2>4, <2>5, MigratorAlone
<1>4. Verify(identity) => Verify(identity)'
  BY <1>2
<1> QED
  BY <1>1, <1>3, <1>4 DEF BuiltInv

\* A server past verification has its image from before, and was past it
\* before or compares it with the rows now.
LEMMA VerifiedOrigin ==
  ASSUME TypeOK, [Next]_vars, NEW s \in Servers, Verified(s)'
  PROVE  /\ server'[s].image = server[s].image
         /\ Verified(s) \/ VerifyHistory(applied, server[s].image)
<1>1. ServerMoves(s) /\ server[s] \in ServerType
  BY ServerEffect DEF TypeOK, ServerType
<1> QED
  BY <1>1 DEF ServerMoves, Verified, Off, ServerType

\* In either case it has nothing but what is applied; in the second, all of it.
LEMMA VerifiedHistory ==
  ASSUME IInv, [Next]_vars, NEW s \in Servers, Verified(s)'
  PROVE  /\ server'[s].image = server[s].image
         /\ History(server[s].image) \subseteq applied /\ OnePerVersion(server[s].image)
         /\ Verified(s) \/ History(server[s].image) = applied
<1>1. /\ server'[s].image = server[s].image
      /\ Verified(s) \/ VerifyHistory(applied, server[s].image)
  BY VerifiedOrigin DEF IInv
<1>2. CASE Verified(s)
  BY <1>1, <1>2 DEF IInv, ServesInv
<1>3. CASE VerifyHistory(applied, server[s].image)
  <2>1. /\ applied \subseteq RowType /\ server[s].image \subseteq Files
        /\ IsFiniteSet(server[s].image)
        /\ \A q, r \in applied : q.version = r.version => q = r
    BY DEF IInv, TypeOK, RowType, FiniteInv, DistinctRows
  <2>2. History(server[s].image) = applied /\ OnePerVersion(server[s].image)
    BY <1>3, <2>1, SameHistory DEF RowType
  <2> QED
    BY <1>1, <2>2
<1> QED
  BY <1>1, <1>2, <1>3

LEMMA ServesStep ==
  ASSUME IInv, [Next]_vars
  PROVE  ServesInv'
<1>1. applied \subseteq applied'
  BY AppliedStep
<1>2. ASSUME NEW s \in Servers, Verified(s)'
      PROVE  History(server'[s].image) \subseteq applied' /\ OnePerVersion(server'[s].image)
  BY <1>1, <1>2, VerifiedHistory
<1> QED
  BY <1>2 DEF ServesInv, History, OnePerVersion

LEMMA AgreeStep ==
  ASSUME IInv, [Next]_vars
  PROVE  AgreeInv'
<1> DEFINE H(s) == History(server[s].image)
<1>1. ASSUME NEW s \in Servers, NEW t \in Servers, Verified(s)', Verified(t)'
      PROVE  H(s) \subseteq H(t) \/ H(t) \subseteq H(s)
  <2>1. H(s) \subseteq applied /\ (Verified(s) \/ H(s) = applied)
    BY <1>1, VerifiedHistory
  <2>2. H(t) \subseteq applied /\ (Verified(t) \/ H(t) = applied)
    BY <1>1, VerifiedHistory
  <2>3. CASE Verified(s) /\ Verified(t)
    BY <2>3 DEF IInv, AgreeInv
  <2> QED
    BY <2>1, <2>2, <2>3
<1>2. \A s \in Servers : Verified(s)' => server'[s].image = server[s].image
  BY VerifiedHistory
<1> QED
  BY <1>1, <1>2 DEF AgreeInv, History
-----------------------------------------------------------------------------
(* The theorems.                                                             *)

LEMMA EditsStep ==
  ASSUME IInv, [Next]_vars
  PROVE  edits' \in 0..Edits /\ stray' \in BOOLEAN
<1>1. edits \in 0..Edits /\ stray \in BOOLEAN
  BY DEF IInv, TypeOK
<1>2. UNCHANGED stray \/ stray' = TRUE
  BY DEF Next, vars, Plan, Create, Write, AddFails, Rewrite, Delete, Merge, PutStray,
         BuildMigrator, Lock, ApplyNext, MigratorEnds, BuildServer, VerifyMigrations,
         Listen, Stop, workspace
<1>3. CASE Edit
  <2>1. edits < Edits /\ edits' = edits + 1
    BY <1>3 DEF Edit
  <2>2. edits' \in 0..Edits
    BY <1>1, <2>1, EditsAssumption
  <2>3. stray' = stray \/ stray' = TRUE
    BY <1>2
  <2> QED
    BY <1>1, <2>2, <2>3
<1>4. UNCHANGED edits \/ Edit
  BY DEF Next, vars, Plan, Create, Write, AddFails, Rewrite, Delete, Merge, PutStray,
         BuildMigrator, Lock, ApplyNext, MigratorEnds, BuildServer, VerifyMigrations,
         Listen, Stop, workspace
<1> QED
  BY <1>1, <1>3, <1>4, <1>2

\* Distinct versions are what the type invariant counts.
LEMMA TypeStep ==
  ASSUME IInv, [Next]_vars
  PROVE  TypeOK'
<1>1. /\ files' \subseteq Files /\ stray' \in BOOLEAN
      /\ adder' \in [Adders -> Adding \cup {NoAdd, Added}]
      /\ migrator' \in MigratorType /\ TodoInv'
      /\ applied' \subseteq RowType /\ IsFiniteSet(applied') /\ DistinctRows'
      /\ server' \in [Servers -> ServerType] /\ edits' \in 0..Edits
  BY FilesStep, EditsStep, AdderStep, MigratorStep, AppliedStep, ServerStep
<1>2. Cardinality(VersionsOf(applied)') = Cardinality(applied')
  <2>1. VersionsOf(applied)' = VersionsOf(applied')
    BY DEF VersionsOf
  <2> QED
    BY <1>1, <2>1, DistinctCount DEF DistinctRows
<1> QED
  BY <1>1, <1>2 DEF TypeOK, Adding, Added, MigratorType, TodoInv, RowType, ServerType

LEMMA Initially ==
  ASSUME Init
  PROVE  IInv
<1>1. files \subseteq Files /\ IsFiniteSet(files) /\ stray \in BOOLEAN
  <2>1. File(1, "baseline", "schema") \in Files
    BY MaxVersionAssumption DEF File, Files, Versions, Contents
  <2>2. files = {File(1, "baseline", "schema")} /\ stray = FALSE
    BY DEF Init
  <2> QED
    BY <2>1, <2>2, FS_Singleton
<1>2. edits \in 0..Edits
  BY EditsAssumption DEF Init
<1>3. applied \subseteq RowType /\ IsFiniteSet(applied) /\ DistinctRows
  <2>1. CASE applied = {}
    BY <2>1, FS_EmptySet DEF DistinctRows
  <2>2. CASE applied = {[version |-> 1, sql |-> "schema", success |-> FALSE]}
    <3>1. [version |-> 1, sql |-> "schema", success |-> FALSE] \in RowType
      BY MaxVersionAssumption DEF RowType, Versions, Contents
    <3> QED
      BY <2>2, <3>1, FS_Singleton DEF DistinctRows
  <2> QED
    BY <2>1, <2>2 DEF Init
<1>4. adder \in [Adders -> Adding \cup {NoAdd, Added}]
  BY DEF Init
<1>5. migrator \in MigratorType /\ TodoInv /\ ~migrator.checked
  BY DEF Init, Idle, MigratorType, TodoInv
<1>6. /\ server \in [Servers -> ServerType]
      /\ \A s \in Servers : server[s].image = {} /\ server[s].pc = "off"
  BY DEF Init, Off, ServerType
<1>7. \A s \in Servers : ~Verified(s)
  BY <1>6 DEF Verified
<1>8. FiniteInv /\ BuiltInv /\ ServesInv /\ AgreeInv
  BY <1>1, <1>3, <1>5, <1>6, <1>7, FS_EmptySet DEF FiniteInv, BuiltInv, ServesInv, AgreeInv
<1>9. TypeOK
  <2>1. Cardinality(VersionsOf(applied)) = Cardinality(applied)
    BY <1>3, DistinctCount DEF DistinctRows
  <2> QED
    BY <1>1, <1>2, <1>3, <1>4, <1>5, <1>6, <2>1
       DEF TypeOK, Adding, Added, MigratorType, TodoInv, RowType, ServerType
<1> QED
  BY <1>3, <1>5, <1>8, <1>9 DEF IInv

LEMMA Invariance == Spec => []IInv
<1>1. ASSUME IInv, [Next]_vars
      PROVE  IInv'
  <2>1. FiniteInv'
    BY <1>1, FilesStep, AppliedStep, ServerStep DEF FiniteInv
  <2>2. TypeOK' /\ DistinctRows' /\ TodoInv'
    BY <1>1, TypeStep, AppliedStep, MigratorStep
  <2>3. BuiltInv' /\ ServesInv' /\ AgreeInv'
    BY <1>1, BuiltStep, ServesStep, AgreeStep
  <2> QED
    BY <2>1, <2>2, <2>3 DEF IInv
<1> QED
  BY <1>1, Initially, PTL DEF Spec

\* Every variable keeps its type: a version that is planned is one, whatever
\* files there are, and a version has one row of _sqlx_migrations.
THEOREM TypeCorrect == Spec => []TypeOK
<1>1. IInv => TypeOK
  BY DEF IInv
<1> QED
  BY <1>1, Invariance, PTL

\* A server that listens has all its migrations applied, with its contents and
\* one file to a version, whatever happens to the files and the migrator.
THEOREM HistoryIsServed == Spec => []ServesItsHistory
<1>1. ASSUME IInv, NEW s \in Servers, server[s].pc = "listening"
      PROVE  /\ {Row(f) : f \in server[s].image} \subseteq applied
             /\ Cardinality(VersionsOf(server[s].image)) = Cardinality(server[s].image)
  <2>1. History(server[s].image) \subseteq applied /\ OnePerVersion(server[s].image)
    BY <1>1 DEF IInv, ServesInv, Verified
  <2>2. IsFiniteSet(server[s].image)
    BY <1>1 DEF IInv, FiniteInv
  <2>3. Cardinality(VersionsOf(server[s].image)) = Cardinality(server[s].image)
    BY <2>1, <2>2, DistinctCount DEF OnePerVersion
  <2> QED
    BY <2>1, <2>3 DEF History
<1>2. IInv => ServesItsHistory
  BY <1>1 DEF ServesItsHistory
<1> QED
  BY <1>2, Invariance, PTL

\* Of two servers that listen, one was built from all migrations of the other.
THEOREM HistoriesAgree == Spec => []ServersAgree
<1>1. IInv => ServersAgree
  BY DEF IInv, AgreeInv, Verified, History, ServersAgree
<1> QED
  BY <1>1, Invariance, PTL

\* What a verified workspace makes of the package managers' answers.
LEMMA VerifyMeans ==
  ASSUME NEW w, Verify(w)
  PROVE  /\ \A l \in Libraries : \/ CargoUses(w, l) = Mode(w)
                                 \/ l \in w.paths \/ w.replaced
         /\ \A p \in Packages : NpmUses(w, p) = Mode(w)
         /\ w.fingerprint = w.policy
<1>1. w.source \in {"none", "checkout"} /\ w.overrides = {} /\ w.registry = "release"
  BY DEF Verify, SourceValid, CargoExact, NoOverride
<1>2. ASSUME NEW l \in Libraries, l \notin w.paths, ~w.replaced
      PROVE  CargoUses(w, l) = Mode(w)
  <2>1. w.dependency[l] = Mode(w) /\ w.cargoLock[l] = {Mode(w)}
    BY DEF Verify, CargoExact
  <2> QED
    BY <1>1, <1>2, <2>1 DEF CargoUses
<1>3. ASSUME NEW p \in Packages
      PROVE  NpmUses(w, p) = Mode(w)
  BY DEF Verify, NpmExact, NpmUses
<1>4. w.fingerprint = w.policy
  BY DEF Verify, OriginValid, PolicyExact
<1> QED
  BY <1>2, <1>3, <1>4

\* What a command that verifies built, it built from the libraries of its own
\* Distribution, or of the checkout that the workspace is tied to, but for the
\* two tables of Cargo's configuration that are not looked for; for any number
\* Drift of edits that the workspace is away from one that was created.
THEOREM BuiltFromRelease == Spec => []OnlyReleasedIsBuilt
<1>1. IInv => OnlyReleasedIsBuilt
  BY VerifyMeans DEF IInv, BuiltInv, OnlyReleasedIsBuilt
<1> QED
  BY <1>1, Invariance, PTL
=============================================================================

----------------------------- MODULE Migrations -----------------------------
(* The migration history of a workspace, from a file to a served schema.      *)
(*                                                                         *)
(* `yydra db migration add` plans a version and creates a file; its user       *)
(* edits, deletes and merges files.  The migrate and the server binary each     *)
(* embed the files of the moment they were built.  The migrate binary applies    *)
(* its embedded files to the database; a server listens only if the history      *)
(* in the database is the one embedded in it.  Adders run at the same time,      *)
(* a migration may fail or be killed between two files, and binaries built       *)
(* from different files meet one database.                                  *)
EXTENDS WorkspaceIdentity, FiniteSetsExt

CONSTANTS Adders, Servers,
          ValidNames, InvalidNames,  \* names given to `db migration add`
          MaxVersion,                \* the largest version (2^63 - 1)
          Edits,                     \* bound on what the user does to files
          Drift                      \* bound on what was done to the rest before

ASSUME MaxVersionAssumption == MaxVersion \in Nat \ {0}
ASSUME EditsAssumption == Edits \in Nat
ASSUME DriftAssumption == Drift \in Nat
ASSUME NamesAssumption == ValidNames \cap InvalidNames = {}

VARIABLES
  identity,  \* the rest of the workspace, as verification sees it
  files,     \* the migration files: version, name, contents
  stray,     \* the directory holds a .sql file without a proper name
  adder,     \* each `db migration add`: its step, name and planned version
  migrator,  \* the migrate binary: its step, what it embeds, what it has to do,
             \* and, until it runs, whether its builder verified the workspace
  applied,   \* the rows of _sqlx_migrations: version, checksum, success
  server,    \* each server: its step and what it embeds
  edits      \* edits of the user so far

vars == <<identity, files, stray, adder, migrator, applied, server, edits>>

Versions == 1..MaxVersion
\* The contents of a file are also its checksum.
Contents == {"empty", "stub", "schema", "edited"}
Names == ValidNames \cup InvalidNames
Files == [version : Versions, name : Names \cup {"baseline", "merged"}, sql : Contents]
File(v, n, s) == [version |-> v, name |-> n, sql |-> s]
Row(f) == [version |-> f.version, sql |-> f.sql, success |-> TRUE]
VersionsOf(S) == {x.version : x \in S}
NoAdd == [pc |-> "off", name |-> "none", version |-> 0]
Off == [pc |-> "off", image |-> {}]
Idle == [pc |-> "off", image |-> {}, todo |-> {}, checked |-> FALSE]

TypeOK ==
  /\ files \subseteq Files
  /\ stray \in BOOLEAN
  /\ adder \in [Adders -> [pc : {"create", "write"}, name : ValidNames, version : Versions]
                            \cup {NoAdd, [NoAdd EXCEPT !.pc = "done"]}]
  /\ migrator \in [pc : {"off", "built", "locked"}, image : SUBSET Files,
                   todo : SUBSET Files, checked : BOOLEAN]
  /\ migrator.todo \subseteq migrator.image
  /\ applied \subseteq [version : Versions, sql : Contents, success : BOOLEAN]
  /\ Cardinality(VersionsOf(applied)) = Cardinality(applied)
  /\ server \in [Servers -> [pc : {"off", "built", "verified", "listening"}, image : SUBSET Files]]
  /\ edits \in 0..Edits

\* Up to Drift edits away from a workspace as created or tied to a checkout.
Drifted ==
  LET after[n \in 0..Drift] ==
        IF n = 0 THEN {Created(Product, m) : m \in {"release", "checkout"}}
        ELSE UNION {OneEdit(w) : w \in after[n - 1]}
  IN after[Drift]

\* A workspace as created, with a database that is new, or in which an attempt at
\* the first migration was recorded as failed; or one that has drifted and is
\* left alone from then on, with a new database.
Init ==
  /\ \/ /\ edits = 0 /\ identity = Created(Product, "release")
        /\ applied \in {{}, {[version |-> 1, sql |-> "schema", success |-> FALSE]}}
     \/ edits = Edits /\ identity \in Drifted /\ applied = {}
  /\ files = {File(1, "baseline", "schema")} /\ stray = FALSE
  /\ adder = [a \in Adders |-> NoAdd]
  /\ migrator = Idle
  /\ server = [s \in Servers |-> Off]

-----------------------------------------------------------------------------
(* yydra db migration add.                                                   *)

AdderGoes(a, from, to) == adder[a].pc = from /\ adder' = [adder EXCEPT ![a].pc = to]
\* It returned, with success or without, or was killed.
AdderEnds(a, from) == adder[a].pc = from /\ adder' = [adder EXCEPT ![a] = [NoAdd EXCEPT !.pc = "done"]]
workspace == <<identity, files, stray, edits>>
database == <<migrator, applied, server>>

ValidateMigrationName(n) == n \in ValidNames

\* 0 when the directory holds a file it cannot place, two files of one version,
\* or no version is left.
NextMigrationVersion ==
  LET last == Max(VersionsOf(files) \cup {0}) IN
  IF \/ stray \/ last = MaxVersion
     \/ Cardinality(VersionsOf(files)) # Cardinality(files)
  THEN 0 ELSE last + 1

\* The workspace verifies, the name is a name, and a version is left.
Plan(a) ==
  /\ adder[a].pc = "off"
  /\ \E n \in Names : LET v == NextMigrationVersion IN
       /\ Verify(identity) /\ ValidateMigrationName(n) /\ v # 0
       /\ adder' = [adder EXCEPT ![a] = [pc |-> "create", name |-> n, version |-> v]]
  /\ UNCHANGED <<workspace, database>>

Path(f) == <<f.version, f.name>>
Target(a) == <<adder[a].version, adder[a].name>>

\* create_new: the file must not exist.
Create(a) ==
  /\ IF Target(a) \in {Path(f) : f \in files}
     THEN AdderEnds(a, "create") /\ UNCHANGED files
     ELSE /\ AdderGoes(a, "create", "write")
          /\ files' = files \cup {File(adder[a].version, adder[a].name, "empty")}
  /\ UNCHANGED <<identity, stray, edits, database>>

Write(a) ==
  /\ AdderEnds(a, "write")
  /\ files' = {IF Path(f) = Target(a) THEN [f EXCEPT !.sql = "stub"] ELSE f : f \in files}
  /\ UNCHANGED <<identity, stray, edits, database>>

\* Writing fails: the empty file stays.
AddFails(a) == AdderEnds(a, "write") /\ UNCHANGED <<workspace, database>>

-----------------------------------------------------------------------------
(* The user of the workspace.                                                *)

Edit == edits < Edits /\ edits' = edits + 1 /\ UNCHANGED <<identity, adder, database>>

\* Not a file that an adder is about to write.
Settled(f) == \A a \in Adders : adder[a].pc = "write" => Path(f) # Target(a)

Rewrite == Edit /\ UNCHANGED stray /\ \E f \in files :
             Settled(f) /\ files' = (files \ {f}) \cup {[f EXCEPT !.sql = "edited"]}
Delete == Edit /\ UNCHANGED stray /\ \E f \in files : Settled(f) /\ files' = files \ {f}
\* A file from another branch, of any version; it replaces one of its name.
Merge == Edit /\ UNCHANGED stray /\ \E v \in Versions :
           files' = {f \in files : Path(f) # <<v, "merged">>} \cup {File(v, "merged", "schema")}
PutStray == Edit /\ UNCHANGED files /\ stray' = TRUE

-----------------------------------------------------------------------------
(* The migrate binary.                                                       *)

\* sqlx::migrate! embeds the files when the crate is compiled: by `db migrate`
\* and dev, which verify the workspace, or by Cargo alone (the Dockerfile).
BuildMigrator ==
  /\ migrator.pc = "off"
  /\ \E checked \in BOOLEAN :
       /\ checked => Verify(identity)
       /\ migrator' = [pc |-> "built", image |-> files, todo |-> {}, checked |-> checked]
  /\ UNCHANGED <<workspace, adder, applied, server>>

\* What is embedded says of a row's version what the row says.
Matches(r, f) == r.version = f.version /\ r.sql = f.sql

\* MIGRATOR.run: under the advisory lock it refuses a history with a failed row
\* or with a version it does not embed, and finds what it has to look at.
Lock ==
  /\ migrator.pc = "built"
  /\ migrator' =
       IF /\ \A r \in applied : r.success
          /\ VersionsOf(applied) \subseteq VersionsOf(migrator.image)
       THEN [migrator EXCEPT !.pc = "locked",
               !.todo = {f \in migrator.image : ~\E r \in applied : Matches(r, f)},
               !.checked = FALSE]
       ELSE Idle
  /\ UNCHANGED <<workspace, adder, applied, server>>

\* One file in a transaction of its own, the lowest version first.  It fails on
\* a version that is already there, with another checksum or from a second file,
\* and when its SQL fails.
ApplyNext ==
  /\ migrator.pc = "locked" /\ migrator.todo # {}
  /\ \E f \in migrator.todo :
       /\ \A g \in migrator.todo : f.version <= g.version
       /\ \/ /\ f.version \notin VersionsOf(applied)
             /\ applied' = applied \cup {Row(f)}
             /\ migrator' = [migrator EXCEPT !.todo = @ \ {f}]
          \/ migrator' = Idle /\ UNCHANGED applied
  /\ UNCHANGED <<workspace, adder, server>>

\* It is finished, or it is killed.
MigratorEnds ==
  /\ migrator.pc # "off" /\ migrator' = Idle
  /\ UNCHANGED <<workspace, adder, applied, server>>

-----------------------------------------------------------------------------
(* The servers.                                                              *)

ServerGoes(s, from, to) == server[s].pc = from /\ server' = [server EXCEPT ![s].pc = to]

\* product:build does not verify the workspace; nor does the Dockerfile.
BuildServer(s) ==
  /\ server[s].pc = "off"
  /\ server' = [server EXCEPT ![s] = [pc |-> "built", image |-> files]]
  /\ UNCHANGED <<workspace, adder, migrator, applied>>

\* Mutant: the checksums are not compared.
VersionsMatch(rows, image) ==
  /\ Cardinality(rows) = Cardinality(image)
  /\ \A r \in rows : r.success /\ r.version \in VersionsOf(image)

\* Mutant: the two histories are compared as far as the shorter goes.
PrefixMatches(rows, image) ==
  \A r \in rows : r.success /\ \E f \in image : Matches(r, f)

\* As many rows as files, and the n-th row that of the n-th file.  The versions
\* of the rows are distinct, so this is: a file for each row.
VerifyHistory(rows, image) ==
  /\ Cardinality(rows) = Cardinality(image)
  /\ \A r \in rows : r.success /\ \E f \in image : Matches(r, f)

\* verify_compiled_migrations reads the whole table in one query.
VerifyMigrations(s) ==
  /\ IF VerifyHistory(applied, server[s].image)
     THEN ServerGoes(s, "built", "verified")
     ELSE server[s].pc = "built" /\ server' = [server EXCEPT ![s] = Off]
  /\ UNCHANGED <<workspace, adder, migrator, applied>>

Listen(s) == ServerGoes(s, "verified", "listening")
             /\ UNCHANGED <<workspace, adder, migrator, applied>>

\* A bad configuration, the address in use, a shutdown, a crash.
Stop(s) == server[s].pc # "off" /\ server' = [server EXCEPT ![s] = Off]
           /\ UNCHANGED <<workspace, adder, migrator, applied>>

-----------------------------------------------------------------------------
Next ==
  \/ \E a \in Adders : Plan(a) \/ Create(a) \/ Write(a) \/ AddFails(a)
  \/ Rewrite \/ Delete \/ Merge \/ PutStray
  \/ BuildMigrator \/ Lock \/ ApplyNext \/ MigratorEnds
  \/ \E s \in Servers : BuildServer(s) \/ VerifyMigrations(s) \/ Listen(s) \/ Stop(s)

Spec == Init /\ [][Next]_vars

-----------------------------------------------------------------------------
(* Properties.                                                               *)

\* What a command that verifies builds (`db migrate`, dev), it builds from the
\* libraries of its own Distribution, or of the checkout that the workspace is
\* tied to, however often it was edited, and from the policies of the product it
\* was created as.  Two ways round are known, which verification does not look
\* for in the configuration: Cargo's "paths", and a [source] table.
OnlyReleasedIsBuilt ==
  migrator.checked =>
    /\ \A l \in Libraries : \/ CargoUses(identity, l) = Mode(identity)
                            \/ l \in identity.paths \/ identity.replaced
    /\ \A p \in Packages : NpmUses(identity, p) = Mode(identity)
    /\ identity.fingerprint = identity.policy

\* The migrations that a listening server was built from are all applied, with
\* its contents and one file to a version, and stay so although files are edited,
\* deleted, merged and added beside it and other migrators run or die half-way.
ServesItsHistory ==
  \A s \in Servers : server[s].pc = "listening" =>
    /\ {Row(f) : f \in server[s].image} \subseteq applied
    /\ Cardinality(VersionsOf(server[s].image)) = Cardinality(server[s].image)

\* Of two servers of one database, one was built from all the migrations of
\* the other, with the same contents.
ServersAgree ==
  LET History(s) == {Row(f) : f \in server[s].image} IN
  \A s, t \in Servers : server[s].pc = "listening" /\ server[t].pc = "listening" =>
    History(s) \subseteq History(t) \/ History(t) \subseteq History(s)
=============================================================================

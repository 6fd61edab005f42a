-------------------------- MODULE WorkspaceIdentity --------------------------
(* When yydra takes a workspace for one of its own Distribution, and what       *)
(* Cargo and npm build from it.                                              *)
(*                                                                         *)
(* A workspace is a record of what verification looks at.  "release" stands     *)
(* for what the Distribution names, "checkout" for a framework checkout that a   *)
(* source workspace is tied to, "other" for anything else.  Verify is the       *)
(* command's predicate, CargoUses and NpmUses say what the package managers     *)
(* take for the libraries, which is what verification is for.                 *)
EXTENDS Naturals, FiniteSets

CONSTANTS Inputs,   \* normalized creation inputs: name, id and licence
          Product   \* those that a workspace is created with

ASSUME ProductAssumption == Product \in Inputs

OriginFields == {"version", "schema", "identity", "template"}
Snapshots == {"LICENSE-APACHE", "LICENSE-MIT", "inventory"}
SupportFiles == {"build.rs", "helper.rs"}
Libraries == {"yydra-auth", "yydra-http"}
Packages == {"@yydra/auth", "@yydra/client-settings"}
Origins == {"release", "checkout", "other"}
\* Cargo's tables of overrides: in the manifest or in the configuration; the
\* library is the key, or the "package" of an entry with another key.
Tables == {"replace", "patch"} \X {"manifest", "config"} \X {"key", "package"} \X Libraries

Mode(w) == IF w.source = "none" THEN "release" ELSE "checkout"

\* What `yydra new` creates, and a source workspace of it.
Created(i, mode) ==
  [origin |-> [f \in OriginFields |-> "release"], inputs |-> i, normalized |-> TRUE,
   fingerprint |-> i, policy |-> i,
   snapshots |-> [s \in Snapshots |-> "release"],
   support |-> [s \in SupportFiles |-> "release"],
   source |-> IF mode = "release" THEN "none" ELSE "checkout",
   dependency |-> [l \in Libraries |-> mode], registry |-> "release",
   overrides |-> {}, paths |-> {}, replaced |-> FALSE,
   cargoLock |-> [l \in Libraries |-> {mode}],
   npmDependency |-> [p \in Packages |-> mode], scope |-> "release",
   npmLockDependency |-> [p \in Packages |-> mode],
   npmLock |-> [p \in Packages |-> mode]]

-----------------------------------------------------------------------------
(* verify_workspace.                                                         *)

\* The Origin Record: of this Distribution, and its inputs those it was made of.
OriginValid(w) ==
  /\ \A f \in OriginFields : w.origin[f] = "release"
  /\ w.normalized /\ w.fingerprint = w.inputs

SnapshotsExact(w) == \A s \in Snapshots : w.snapshots[s] = "release"

\* No file changed, missing, or beside them.
SupportExact(w) ==
  DOMAIN w.support = SupportFiles /\ \A s \in SupportFiles : w.support[s] = "release"

PolicyExact(w) == w.policy = w.inputs

\* The record of a source workspace names a checkout of this version, outside
\* of which the workspace lies and inside of which the sources lie.
SourceValid(w) == w.source \in {"none", "checkout"}

\* Mutant: overrides are looked for by their key only.
NoOverrideByKey(w) == \A t \in w.overrides : t[3] # "key"

NoOverride(w) == w.overrides = {}

CargoExact(w) ==
  /\ \A l \in Libraries : w.dependency[l] = Mode(w) /\ w.cargoLock[l] = {Mode(w)}
  /\ w.registry = "release" /\ NoOverride(w)

NpmExact(w) ==
  /\ w.scope = "release"
  /\ \A p \in Packages : /\ w.npmDependency[p] = Mode(w)
                         /\ w.npmLockDependency[p] = Mode(w)
                         /\ w.npmLock[p] = Mode(w)

Verify(w) ==
  /\ OriginValid(w) /\ SnapshotsExact(w) /\ SupportExact(w)
  /\ SourceValid(w) /\ CargoExact(w) /\ NpmExact(w) /\ PolicyExact(w)

-----------------------------------------------------------------------------
(* The package managers.                                                     *)

\* An override wins over the declaration; a declared path is taken as it is; a
\* release comes from the configured registry, if the lock file has it, or from
\* what a [source] table of the configuration puts in the place of that registry.
CargoUses(w, l) ==
  IF l \in w.paths \/ \E t \in w.overrides : t[4] = l THEN "other"
  ELSE IF w.dependency[l] # "release" THEN w.dependency[l]
  ELSE IF w.registry = "release" /\ w.cargoLock[l] = {"release"} /\ ~w.replaced
       THEN "release" ELSE "other"

\* npm ci takes what the lock file says, if it agrees with the manifest.
NpmUses(w, p) ==
  IF w.npmLockDependency[p] = w.npmDependency[p] THEN w.npmLock[p] ELSE "other"

-----------------------------------------------------------------------------
(* What its user, or a tool, may do to a workspace: one thing at a time.        *)

Other(f) == {[f EXCEPT ![x] = v] : x \in DOMAIN f, v \in Origins}

OneEdit(w) ==
       {[w EXCEPT !.origin = o] : o \in Other(w.origin)}
  \cup {[w EXCEPT !.inputs = i] : i \in Inputs} \cup {[w EXCEPT !.normalized = FALSE]}
  \cup {[w EXCEPT !.fingerprint = i] : i \in Inputs} \cup {[w EXCEPT !.policy = i] : i \in Inputs}
  \cup {[w EXCEPT !.snapshots = s] : s \in Other(w.snapshots)}
  \cup {[w EXCEPT !.support = s] : s \in Other(w.support)}
  \cup {[w EXCEPT !.support = [s \in SupportFiles \cup {"extra.rs"} |-> "release"]]}
  \cup {[w EXCEPT !.source = s] : s \in {"none", "checkout", "invalid"}}
  \cup {[w EXCEPT !.dependency = d] : d \in Other(w.dependency)}
  \cup {[w EXCEPT !.registry = "other"], [w EXCEPT !.scope = "other"]}
  \cup {[w EXCEPT !.overrides = @ \cup {t}] : t \in Tables}
  \cup {[w EXCEPT !.paths = @ \cup {l}] : l \in Libraries} \cup {[w EXCEPT !.replaced = TRUE]}
  \cup {[w EXCEPT !.cargoLock = [@ EXCEPT ![l] = e]] : l \in Libraries, e \in SUBSET Origins}
  \cup {[w EXCEPT !.npmDependency = d] : d \in Other(w.npmDependency)}
  \cup {[w EXCEPT !.npmLockDependency = d] : d \in Other(w.npmLockDependency)}
  \cup {[w EXCEPT !.npmLock = d] : d \in Other(w.npmLock)}
=============================================================================

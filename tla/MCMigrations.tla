---------------------------- MODULE MCMigrations ----------------------------
(* Two adders, two servers, versions up to 3, one edit and two drifts.        *)
EXTENDS Migrations, TLC

Symmetric == Permutations(Adders) \cup Permutations(Servers)
               \cup Permutations(ValidNames)
=============================================================================

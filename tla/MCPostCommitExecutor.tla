------------------------ MODULE MCPostCommitExecutor ------------------------
(* PostCommitExecutor on small instances: see the .cfg files.              *)
EXTENDS PostCommitExecutor, TLC

\* Tasks, and callers that all wait for the report, are interchangeable.
Symmetry == Permutations(Tasks) \cup Permutations(Callers)
=============================================================================

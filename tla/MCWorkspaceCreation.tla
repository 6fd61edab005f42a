------------------------ MODULE MCWorkspaceCreation ------------------------
(* Three creators that all have one process id, the case in which their names *)
(* collide, and two names for a stage, so that the names can run out.         *)
EXTENDS WorkspaceCreation, TLC
CONSTANTS c1, c2, c3, p1
ThreeCreators == {c1, c2, c3}
OnePid == {p1}
Symmetric == Permutations(ThreeCreators)
=============================================================================

----------------------------- MODULE MCAuthService -----------------------------
(* AuthService on small instances: see the .cfg files.                     *)
EXTENDS AuthService, TLC

\* New requests, clients and accounts are interchangeable.
Symmetry == Permutations(Requests \ Earlier) \cup Permutations(Clients) \cup Permutations(Accounts)
=============================================================================

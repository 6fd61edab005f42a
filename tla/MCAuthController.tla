---------------------------- MODULE MCAuthController ----------------------------
(* AuthController on small instances: see the .cfg files.                  *)
EXTENDS AuthController, TLC

\* Credentials, requests and the later refreshes are interchangeable.
Symmetry == Permutations(Creds) \cup Permutations(Fetchers) \cup Permutations(Refreshers \ {Boot})
=============================================================================

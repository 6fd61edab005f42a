---------------------------- MODULE MCReadingQueue ----------------------------
(* ReadingQueue on a small instance: see the .cfg file.                    *)
EXTENDS ReadingQueue, TLC

\* Commands, entries and accounts are interchangeable.
Symmetry == Permutations(Commands) \cup Permutations(Entries) \cup Permutations(Accounts)
=============================================================================

----------------------------- MODULE MCMigration -----------------------------
(* Small instances of Migration for TLC. *)
EXTENDS Migration, TLC

CONSTANTS r1, r2

\* One old version of each way to open a ledger.
MCVersions == {NoTable, 0, 1, 3, 7, 9}

\* Records, runs and openers are interchangeable.
Symmetry == Permutations(Records) \cup Permutations(Runs) \cup Permutations(Openers)

=============================================================================

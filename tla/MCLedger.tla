------------------------------ MODULE MCLedger ------------------------------
(* Small instances of Ledger for TLC. *)
EXTENDS Ledger, TLC

\* Clients, runs and contents are interchangeable (safety runs only).
Symmetry == Permutations(Clients) \cup Permutations(Runs) \cup Permutations(Contents)

=============================================================================

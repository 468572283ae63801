----------------------------- MODULE MCDispatch -----------------------------
(* Small instances of Dispatch for TLC. *)
EXTENDS Dispatch, TLC

CONSTANTS p1, p2, t1, t2

\* Both Dispatchers have a writer for every target.
AllRegistered == Procs \X Targets

\* p2 was started without a writer for t2.
PartlyRegistered == (Procs \X Targets) \ {<<p2, t2>>}

\* Attempt ids and payloads are interchangeable; Dispatchers are not, by their writers (safety runs only).
Symmetry == Permutations(Attempts) \cup Permutations(Payloads)

=============================================================================

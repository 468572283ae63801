--------------------------- MODULE RecordLifecycle ---------------------------
(***************************************************************************)
(* What the artifact ledger promises of a record's state (the state        *)
(* machine of docs/ledger.md): an abstract specification that the ledger   *)
(* (Ledger), and the ledger as the dispatcher sees it (Dispatch),          *)
(* implement.                                                              *)
(***************************************************************************)
CONSTANT Records

VARIABLE state

Absent == "absent"   \* no record yet

LifecycleStates == {Absent, "pending", "sealed", "failed", "invalidated"}

Init == state \in [Records -> LifecycleStates]

Create(r)     == state[r] = Absent    /\ state' = [state EXCEPT ![r] = "pending"]
Seal(r)       == state[r] = "pending" /\ state' = [state EXCEPT ![r] = "sealed"]
Fail(r)       == state[r] = "pending" /\ state' = [state EXCEPT ![r] = "failed"]
Invalidate(r) == state[r] \in {"pending", "sealed"}
                   /\ state' = [state EXCEPT ![r] = "invalidated"]

Next == \E r \in Records : Create(r) \/ Seal(r) \/ Fail(r) \/ Invalidate(r)

\* One record changes at a time; failed and invalidated are terminal, and a
\* record is sealed from pending only.
Spec == Init /\ [][Next]_state

=============================================================================

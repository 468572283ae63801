---------------------------- MODULE StoreContract ----------------------------
(***************************************************************************)
(* What an append-only evidence store promises (stele/archive/store.py,    *)
(* "Guarantees"): an object appears once, whole; the store never changes   *)
(* or removes it.  Only the medium damages an object, and only a power     *)
(* loss takes one away, if its directory entry is not on disk yet.         *)
(* Archive implements this specification.                                  *)
(***************************************************************************)
CONSTANT Names

VARIABLES
  condition,  \* of what is stored under each name
  onDisk      \* names that a power loss does not take

Conditions == {"absent", "intact", "damaged"}

Held == {n \in Names : condition[n] # "absent"}

Init == condition = [n \in Names |-> "absent"] /\ onDisk = {}

Publish(n) ==
  /\ condition[n] = "absent"
  /\ condition' = [condition EXCEPT ![n] = "intact"]
  /\ UNCHANGED onDisk

ReachDisk ==
  /\ onDisk' \in SUBSET Held
  /\ onDisk \subseteq onDisk'
  /\ UNCHANGED condition

Rot(n) ==
  /\ condition[n] = "intact"
  /\ condition' = [condition EXCEPT ![n] = "damaged"]
  /\ UNCHANGED onDisk

Lose(lost) ==
  /\ lost \cap onDisk = {}
  /\ condition' = [n \in Names |-> IF n \in lost THEN "absent" ELSE condition[n]]
  /\ onDisk' = Held \ lost

Next ==
  \/ \E n \in Names : Publish(n) \/ Rot(n)
  \/ ReachDisk
  \/ \E lost \in SUBSET Held : Lose(lost)

Spec == Init /\ [][Next]_<<condition, onDisk>>

=============================================================================

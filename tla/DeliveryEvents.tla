--------------------------- MODULE DeliveryEvents ---------------------------
(***************************************************************************)
(* One delivery's event list itself, as the methods of DeliveryLog in      *)
(* stele/ledger/delivery.py append to it, against what the docstrings of   *)
(* possibly_written and explain say of such a list.  Dispatch keeps only   *)
(* the fold of this list (DeliveryLog!After); here the list is kept, and   *)
(* the fold is compared with the meaning of the events.                    *)
(***************************************************************************)
EXTENDS DeliveryLog, Sequences

CONSTANT MaxEvents   \* bound: events in the list

VARIABLE log

\* possibly_written, status, chunks_digest: one pass over the list.
Reading == INSTANCE Folding WITH Step <- After

ViewOf(es) == Reading!Folded(EmptyView, es)

Outcomes     == {"receipt", "failure"}
Is(i, kind)  == log[i].event = kind
IsLegacy(i)  == log[i].event \in {"intent"} \cup Outcomes /\ log[i].attempt = NoAttempt
Used         == {log[i].attempt : i \in {k \in DOMAIN log : log[k].event \in {"intent"} \cup Outcomes}}
Open         == {a \in Used : ~ \E i \in DOMAIN log : log[i].event \in Outcomes /\ log[i].attempt = a}

Add(e) == Len(log) < MaxEvents /\ log' = Append(log, e)

\* Events a ledger from before schema 8 left: one attempt at a time, and all
\* of them before the first event that carries an attempt id.
LegacyEvent ==
  /\ \A i \in DOMAIN log : IsLegacy(i) \/ log[i].event \notin {"intent"} \cup Outcomes
  /\ \/ \E pl \in Payloads : ViewOf(log).bound \in {NoPayload, pl} /\ Add(Intent(NoAttempt, pl))
     \/ /\ ViewOf(log).legacy
        /\ \/ Add(Receipt(NoAttempt))
           \/ \E done \in {0, 1, Unknown} : Add(Failure(NoAttempt, done))

\* append_intent: a fresh attempt, the bound payload or none.
AppendIntent ==
  \E a \in Attempts \ Used, pl \in Payloads :
    ViewOf(log).bound \in {NoPayload, pl} /\ Add(Intent(a, pl))

\* append: the outcome of an attempt that has an intent.
AppendOutcome ==
  \E a \in Open \ {NoAttempt} :
    \/ Add(Receipt(a))
    \/ \E done \in {0, 1, Unknown} : Add(Failure(a, done))

\* Slip: the failure does not say that nothing was written.
AppendFailureOfUnknown == \E a \in Attempts \ Used : Add(Failure(a, Unknown))

\* append_unwritten_failure: an attempt id of its own, done = 0.
AppendUnwrittenFailure == \E a \in Attempts \ Used : Add(Failure(a, 0))

\* _remove: attempted when the log does not rule data out; several removals
\* may be under way, so their events come in any order after an intent.
AppendRemoval ==
  \/ PossiblyWritten(ViewOf(log)) /\ Add(RemovalIntent)
  \/ PossiblyWritten(ViewOf(log)) /\ Add(RemovalFailure)
  \/ (\E i \in DOMAIN log : Is(i, "removal_intent"))
       /\ (Add(RemovalReceipt) \/ Add(RemovalFailure))

Init == log = <<>>

Next == LegacyEvent \/ AppendIntent \/ AppendOutcome \/ AppendUnwrittenFailure \/ AppendRemoval

Spec == Init /\ [][Next]_log

-----------------------------------------------------------------------------
\* An attempt whose intent has no outcome of its own after it.
Unconcluded(i) ==
  /\ Is(i, "intent") /\ ~IsLegacy(i)
  /\ ~ \E j \in DOMAIN log : j > i /\ log[j].event \in Outcomes /\ log[j].attempt = log[i].attempt

\* An outcome that leaves data, and no removal receipt after it.
LeftData(i) ==
  /\ Is(i, "receipt") \/ (Is(i, "failure") /\ log[i].done # 0)
  /\ ~ \E j \in DOMAIN log : j > i /\ Is(j, "removal_receipt")

\* A legacy intent that never reported: the next legacy event is not its
\* outcome.  Only a removal after the next attempt began covers it.
LegacyUnconcluded(i) ==
  LET later == {j \in DOMAIN log : j > i /\ IsLegacy(j)} IN
  /\ Is(i, "intent") /\ IsLegacy(i)
  /\ \/ later = {}
     \/ \E j \in later :
          /\ \A k \in later : j <= k
          /\ Is(j, "intent")
          /\ ~ \E k \in DOMAIN log : k > j /\ Is(k, "removal_receipt")

MayHoldData == \E i \in DOMAIN log : Unconcluded(i) \/ LeftData(i) \/ LegacyUnconcluded(i)

TypeOK == ViewOf(log) \in Views

(***************************************************************************)
(* The one-pass loop of possibly_written computes what its docstring       *)
(* defines event by event, for every interleaving of attempts, legacy      *)
(* events and removals.                                                    *)
(***************************************************************************)
PossiblyWrittenMeaning == PossiblyWritten(ViewOf(log)) <=> MayHoldData

\* explain() never tells an operator that nothing is left while an attempt
\* in flight at a removal, or an unknown failure, may have left chunks.
ExplainNeverUnderstates ==
  Explain(ViewOf(log)) \in {"nothing", "data_removed"} => ~MayHoldData

\* A failure before the writer was called says nothing of other attempts.
UnwrittenFailureNeutral ==
  [][AppendUnwrittenFailure => (PossiblyWritten(ViewOf(log')) <=> PossiblyWritten(ViewOf(log)))]_log

=============================================================================

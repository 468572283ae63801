---------------------------- MODULE DeliveryLog ----------------------------
(***************************************************************************)
(* The delivery log of stele/ledger/delivery.py: what one delivery's       *)
(* append-only event list says about the target it writes to.              *)
(*                                                                         *)
(* The code recomputes status, bound payload and possibly_written from the *)
(* whole list each time.  Each is a left fold, so a delivery's log is kept *)
(* here as the state of that fold, a "view": After(v, e) is the loop body  *)
(* of the code for one more event.  DeliveryEvents checks that the view of *)
(* a list says what the docstring of possibly_written says of the list.    *)
(*                                                                         *)
(* Definitions introduced by "Slip" are variants with a plausible mistake;  *)
(* no specification uses them.  Each shows that a property would notice.   *)
(***************************************************************************)
EXTENDS Naturals

CONSTANTS
  Attempts,     \* attempt ids (uuid4) given to write attempts
  NoAttempt,    \* attempt_id None: an event from before ledger schema 8
  Payloads,     \* chunk lists an adapter may return, named by their digest
  NoPayload,    \* no intent yet, so no payload is bound
  Unknown       \* done None: the writer did not say how much it wrote

ASSUME DeliveryLogAssumption ==
  /\ NoAttempt \notin Attempts
  /\ NoPayload \notin Payloads
  /\ Unknown \notin Nat

\* DeliveryStatus: the event kind that ends the log, as the code names it.
Statuses == {"not_attempted", "in_flight", "delivered", "failed",
             "removing", "removed", "removal_failed"}

(***************************************************************************)
(* Events.  planned is part of the payload's name; error and the time say  *)
(* nothing a property needs.  removal events carry no attempt_id.          *)
(***************************************************************************)
Intent(a, pl)    == [event |-> "intent", attempt |-> a, payload |-> pl]
Receipt(a)       == [event |-> "receipt", attempt |-> a]
Failure(a, done) == [event |-> "failure", attempt |-> a, done |-> done]
RemovalIntent    == [event |-> "removal_intent"]
RemovalReceipt   == [event |-> "removal_receipt"]
RemovalFailure   == [event |-> "removal_failure"]

Views == [status      : Statuses,
          bound       : Payloads \cup {NoPayload},
          written     : BOOLEAN,
          outstanding : SUBSET Attempts,
          legacy      : BOOLEAN]

\* A delivery row without events.
EmptyView == [status |-> "not_attempted", bound |-> NoPayload,
              written |-> FALSE, outstanding |-> {}, legacy |-> FALSE]

\* Slip: an intent without an attempt id waits for an outcome like any other.
AfterIntentNoneIsAnId(v, e) ==
  [status      |-> "in_flight",
   bound       |-> IF v.bound = NoPayload THEN e.payload ELSE v.bound,
   written     |-> v.written,
   outstanding |-> v.outstanding \cup {e.attempt},
   legacy      |-> v.legacy]

AfterIntent(v, e) ==
  [status      |-> "in_flight",
   bound       |-> IF v.bound = NoPayload THEN e.payload ELSE v.bound,
   written     |-> v.written \/ (e.attempt = NoAttempt /\ v.legacy),
   outstanding |-> IF e.attempt = NoAttempt THEN v.outstanding
                                            ELSE v.outstanding \cup {e.attempt},
   legacy      |-> v.legacy \/ e.attempt = NoAttempt]

\* Slip: any outcome closes every intent before it.
AfterOutcomeOfAll(v, e) ==
  [status      |-> IF e.event = "receipt" THEN "delivered" ELSE "failed",
   bound       |-> v.bound,
   written     |-> v.written \/ e.event = "receipt" \/ e.done # 0,
   outstanding |-> {},
   legacy      |-> FALSE]

AfterOutcome(v, e) ==
  [status      |-> IF e.event = "receipt" THEN "delivered" ELSE "failed",
   bound       |-> v.bound,
   written     |-> v.written \/ e.event = "receipt" \/ e.done # 0,
   outstanding |-> v.outstanding \ {e.attempt},
   legacy      |-> v.legacy /\ e.attempt # NoAttempt]

\* Slip: a removal covers the writes still in flight.
AfterRemovalOfAll(v, e) ==
  [status      |-> CASE e.event = "removal_intent"  -> "removing"
                     [] e.event = "removal_receipt" -> "removed"
                     [] e.event = "removal_failure" -> "removal_failed",
   bound       |-> v.bound,
   written     |-> v.written /\ e.event # "removal_receipt",
   outstanding |-> IF e.event = "removal_receipt" THEN {} ELSE v.outstanding,
   legacy      |-> v.legacy]

\* Slip: a removal that failed counts as done.
AfterRemovalTried(v, e) ==
  [status      |-> CASE e.event = "removal_intent"  -> "removing"
                     [] e.event = "removal_receipt" -> "removed"
                     [] e.event = "removal_failure" -> "removal_failed",
   bound       |-> v.bound,
   written     |-> v.written /\ e.event = "removal_intent",
   outstanding |-> v.outstanding,
   legacy      |-> v.legacy]

AfterRemoval(v, e) ==
  [status      |-> CASE e.event = "removal_intent"  -> "removing"
                     [] e.event = "removal_receipt" -> "removed"
                     [] e.event = "removal_failure" -> "removal_failed",
   bound       |-> v.bound,
   written     |-> v.written /\ e.event # "removal_receipt",
   outstanding |-> v.outstanding,
   legacy      |-> v.legacy]

After(v, e) ==
  CASE e.event = "intent"                -> AfterIntent(v, e)
    [] e.event \in {"receipt", "failure"} -> AfterOutcome(v, e)
    [] OTHER                              -> AfterRemoval(v, e)

\* Delivery.possibly_written: "True unless the log proves the target holds
\* nothing of this delivery."
PossiblyWritten(v) == v.written \/ v.legacy \/ v.outstanding # {}

\* Slip: removed means nothing is left.
ExplainByStatus(v) ==
  CASE v.status = "not_attempted"                          -> "nothing"
    [] v.status = "delivered"                              -> "all"
    [] v.status = "removed"                                -> "data_removed"
    [] v.status \notin {"not_attempted", "delivered", "removed"}
         /\ ~PossiblyWritten(v)                            -> "nothing"
    [] OTHER                                               -> "between_0_and_planned"

\* What Delivery.explain() tells an operator the target holds.
Explain(v) ==
  CASE v.status = "not_attempted"                          -> "nothing"
    [] v.status = "delivered"                              -> "all"
    [] v.status = "removed" /\ ~PossiblyWritten(v)         -> "data_removed"
    [] v.status \notin {"not_attempted", "delivered", "removed"}
         /\ ~PossiblyWritten(v)                            -> "nothing"
    [] OTHER                                               -> "between_0_and_planned"

=============================================================================

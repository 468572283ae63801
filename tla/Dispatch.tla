------------------------------ MODULE Dispatch ------------------------------
(***************************************************************************)
(* Durable delivery: stele/contracts/dispatcher.py over the delivery log   *)
(* of stele/ledger/delivery.py.                                            *)
(*                                                                         *)
(* Several Dispatchers (threads or operating system processes, each with   *)
(* its own SQLite connection) run dispatch(), invalidate() and             *)
(* retract_invalidated() on the same ledger and the same targets, one      *)
(* operation at a time each.  One committed write transaction, one read or *)
(* one step of a target is one action; between two of them anything else   *)
(* may run, and a process may die.                                         *)
(*                                                                         *)
(* Abstractions: a record's state is all that is kept of the ledger; a     *)
(* refusal, or a bundle that fails verification, changes nothing and is    *)
(* the operation not starting; a payload is the name of a chunk list of    *)
(* NChunks chunks (validate_chunks refuses an empty list); a target holds, *)
(* under a dispatch_id, a set of <<payload, chunk>>.                       *)
(***************************************************************************)
EXTENDS DeliveryLog, FiniteSets

CONSTANTS
  Procs,        \* the running Dispatchers
  Records,      \* artifact records
  Targets,      \* SteleTargets, one writer each
  NChunks,      \* chunks in a payload
  Registered,   \* <<p, t>>: Dispatcher p has a writer registered for target t
  MaxCrashes    \* bound: crashes in a behaviour

ASSUME DispatchAssumption ==
  /\ NChunks \in Nat \ {0}
  /\ MaxCrashes \in Nat
  /\ Registered \subseteq Procs \X Targets

VARIABLES
  ledger,    \* ledger[r]: artifact_records.state of r
  opened,    \* the rows of table deliveries, UNIQUE (record, target)
  view,      \* view[d]: the delivery's events, as DeliveryLog's view
  holds,     \* holds[d]: what the target holds under d's dispatch_id
  job,       \* job[p]: the operation p is in, with its local variables
  strays,    \* writes sent by a Dispatcher that died, not landed yet
  crashes,   \* how many Dispatchers have died (bounded by MaxCrashes)
  raced,     \* history: deliveries with a write outcome logged between the
             \* effect of a removal and the removal's own receipt
  everSealed \* history: records that were SEALED at some time

vars == <<ledger, opened, view, holds, job, strays, crashes, raced, everSealed>>

Deliveries == Records \X Targets
Chunks     == 1 .. NChunks
Content    == Payloads \X Chunks
States     == {"pending", "sealed", "invalidated", "failed"}

\* dispatch_id d belongs to record RecordOf(d), target TargetOf(d).
RecordOf(d) == d[1]
TargetOf(d) == d[2]

(***************************************************************************)
(* The local state of a Dispatcher between two steps.                      *)
(***************************************************************************)
Idle                == [pc |-> "idle"]
Opening(d)          == [pc |-> "opening", d |-> d]
Checking(d)         == [pc |-> "checking", d |-> d]
Transforming(d)     == [pc |-> "transforming", d |-> d]
Writing(d, a, pl, n) == [pc |-> "writing", d |-> d, att |-> a, pay |-> pl, landed |-> n]
Reporting(d, a, n, ok, done) ==
  [pc |-> "reporting", d |-> d, att |-> a, landed |-> n, ok |-> ok, done |-> done]
Rechecking(r)       == [pc |-> "rechecking", r |-> r]
Invalidating(r)     == [pc |-> "invalidating", r |-> r]
Retracting(rs)      == [pc |-> "retracting", recs |-> rs]
Removing(rs, ds)    == [pc |-> "removing", recs |-> rs, todo |-> ds]
Erasing(rs, ds, d)  == [pc |-> "erasing", recs |-> rs, todo |-> ds, d |-> d]
Erased(rs, ds, d, ok) ==
  [pc |-> "erased", recs |-> rs, todo |-> ds, d |-> d, ok |-> ok]

Goto(p, j) == job' = [job EXCEPT ![p] = j]

\* Where a removal pass continues: its next delivery, the next record of
\* retract_invalidated's list, or the end of the operation.
NextRemoval(rs, ds) ==
  IF ds # {} THEN Removing(rs, ds) ELSE IF rs # {} THEN Retracting(rs) ELSE Idle

\* DeliveryLog.append: one event, committed before the call returns.
Log(d, e) == view' = [view EXCEPT ![d] = After(@, e)]

\* uuid4: an attempt id no event of d waits for and no Dispatcher carries.
FreshAttempts(d) == Attempts \ view[d].outstanding

-----------------------------------------------------------------------------
(***************************************************************************)
(* The ledger, as the dispatcher sees it: other callers seal, fail and     *)
(* invalidate records (stele.replay.invalidation calls the ledger          *)
(* directly and retracts nothing).                                         *)
(***************************************************************************)
SealRecord(r) ==
  /\ ledger[r] = "pending"
  /\ ledger' = [ledger EXCEPT ![r] = "sealed"]
  /\ everSealed' = everSealed \cup {r}
  /\ UNCHANGED <<opened, view, holds, job, strays, crashes, raced>>

FailRecord(r) ==
  /\ ledger[r] = "pending"
  /\ ledger' = [ledger EXCEPT ![r] = "failed"]
  /\ UNCHANGED <<opened, view, holds, job, strays, crashes, raced, everSealed>>

InvalidateDirectly(r) ==
  /\ ledger[r] \in {"pending", "sealed"}
  /\ ledger' = [ledger EXCEPT ![r] = "invalidated"]
  /\ UNCHANGED <<opened, view, holds, job, strays, crashes, raced, everSealed>>

-----------------------------------------------------------------------------
(***************************************************************************)
(* dispatch()                                                              *)
(***************************************************************************)

\* Slip: the state check left to the caller.
StartDispatchUnchecked(p, d) ==
  /\ job[p] = Idle
  /\ Goto(p, Opening(d))
  /\ UNCHANGED <<ledger, opened, view, holds, strays, crashes, raced, everSealed>>

\* Re-read the record; refuse unless SEALED.  Re-verify its bundle.
StartDispatch(p, d) ==
  /\ job[p] = Idle
  /\ ledger[RecordOf(d)] = "sealed"
  /\ Goto(p, Opening(d))
  /\ UNCHANGED <<ledger, opened, view, holds, strays, crashes, raced, everSealed>>

\* open_delivery: INSERT OR IGNORE, then read back the dispatch_id.
OpenDelivery(p) ==
  /\ job[p].pc = "opening"
  /\ opened' = opened \cup {job[p].d}
  /\ Goto(p, Checking(job[p].d))
  /\ UNCHANGED <<ledger, view, holds, strays, crashes, raced, everSealed>>

\* A delivery whose last event is a receipt is reported already_delivered.
CheckDelivered(p) ==
  /\ job[p].pc = "checking"
  /\ Goto(p, IF view[job[p].d].status = "delivered"
             THEN Idle ELSE Transforming(job[p].d))
  /\ UNCHANGED <<ledger, opened, view, holds, strays, crashes, raced, everSealed>>

\* transform, validate_chunks or _writer_for raised: append_unwritten_failure,
\* with an attempt_id of its own (one that no intent has).
TransformFails(p) ==
  /\ job[p].pc = "transforming"
  /\ \E a \in FreshAttempts(job[p].d) : Log(job[p].d, Failure(a, 0))
  /\ Goto(p, Idle)
  /\ UNCHANGED <<ledger, opened, holds, strays, crashes, raced, everSealed>>

\* Slip: the payload is bound but not compared.
AppendIntentUncompared(p, pl) ==
  LET d == job[p].d IN
  /\ job[p].pc = "transforming"
  /\ <<p, TargetOf(d)>> \in Registered
  /\ \E a \in FreshAttempts(d) :
       /\ Log(d, Intent(a, pl))
       /\ Goto(p, Writing(d, a, pl, 0))
  /\ UNCHANGED <<ledger, opened, holds, strays, crashes, raced, everSealed>>

\* append_intent, in one write transaction: bind the delivery to the payload,
\* or refuse a payload other than the one its first intent bound.
AppendIntent(p, pl) ==
  LET d == job[p].d IN
  /\ job[p].pc = "transforming"
  /\ <<p, TargetOf(d)>> \in Registered
  /\ IF view[d].bound \in {NoPayload, pl}
     THEN \E a \in FreshAttempts(d) :
            /\ Log(d, Intent(a, pl))
            /\ Goto(p, Writing(d, a, pl, 0))
     ELSE /\ Goto(p, Idle)
          /\ UNCHANGED view
  /\ UNCHANGED <<ledger, opened, holds, strays, crashes, raced, everSealed>>

\* Slip: one chunk past the end.
LandChunkPastEnd(p) ==
  LET j == job[p] IN
  /\ j.pc = "writing"
  /\ j.landed <= NChunks
  /\ holds' = [holds EXCEPT ![j.d] = @ \cup {<<j.pay, j.landed + 1>>}]
  /\ Goto(p, Writing(j.d, j.att, j.pay, j.landed + 1))
  /\ UNCHANGED <<ledger, opened, view, strays, crashes, raced, everSealed>>

\* write_chunks, one more chunk reaching the target.
LandChunk(p) ==
  LET j == job[p] IN
  /\ j.pc = "writing"
  /\ j.landed < NChunks
  /\ holds' = [holds EXCEPT ![j.d] = @ \cup {<<j.pay, j.landed + 1>>}]
  /\ Goto(p, Writing(j.d, j.att, j.pay, j.landed + 1))
  /\ UNCHANGED <<ledger, opened, view, strays, crashes, raced, everSealed>>

\* write_chunks returns (only with every chunk written) or raises: a
\* PartialWriteError says how many were, another exception does not.
WriteEnds(p) ==
  LET j == job[p] IN
  /\ j.pc = "writing"
  /\ \/ /\ j.landed = NChunks
        /\ Goto(p, Reporting(j.d, j.att, j.landed, TRUE, NChunks))
     \/ \E done \in {j.landed, Unknown} :
          Goto(p, Reporting(j.d, j.att, j.landed, FALSE, done))
  /\ UNCHANGED <<ledger, opened, view, holds, strays, crashes, raced, everSealed>>

\* A removal of d has taken effect at the target and has not logged it yet.
RemovalUnlogged(d) ==
  \E q \in Procs : job[q].pc = "erased" /\ job[q].d = d /\ job[q].ok

\* Slip: a receipt whatever the writer did.
LogOutcomeAsReceipt(p) ==
  LET j == job[p] IN
  /\ j.pc = "reporting"
  /\ Log(j.d, Receipt(j.att))
  /\ Goto(p, Rechecking(RecordOf(j.d)))
  /\ raced' = IF j.done # 0 /\ RemovalUnlogged(j.d) THEN raced \cup {j.d} ELSE raced
  /\ UNCHANGED <<ledger, opened, holds, strays, crashes, everSealed>>

\* The receipt, or the failure, of this attempt.
LogOutcome(p) ==
  LET j == job[p] IN
  /\ j.pc = "reporting"
  /\ Log(j.d, IF j.ok THEN Receipt(j.att) ELSE Failure(j.att, j.done))
  /\ Goto(p, Rechecking(RecordOf(j.d)))
  /\ raced' = IF j.done # 0 /\ RemovalUnlogged(j.d) THEN raced \cup {j.d} ELSE raced
  /\ UNCHANGED <<ledger, opened, holds, strays, crashes, everSealed>>

\* Slip: a dispatch takes back what its own write left, past retract() and
\* its state check.
RecheckRemoves(p) ==
  LET r == job[p].r IN
  /\ job[p].pc = "rechecking"
  /\ Goto(p, NextRemoval({}, {d \in opened : RecordOf(d) = r /\ PossiblyWritten(view[d])}))
  /\ UNCHANGED <<ledger, opened, view, holds, strays, crashes, raced, everSealed>>

\* "An invalidation that raced this write may have run its removals before
\* the data landed; remove it now rather than leave it live."
Recheck(p) ==
  LET r == job[p].r IN
  /\ job[p].pc = "rechecking"
  /\ Goto(p, IF ledger[r] = "invalidated" THEN Retracting({r}) ELSE Idle)
  /\ UNCHANGED <<ledger, opened, view, holds, strays, crashes, raced, everSealed>>

-----------------------------------------------------------------------------
(***************************************************************************)
(* invalidate(), retract() and retract_invalidated()                       *)
(***************************************************************************)

StartInvalidate(p, r) ==
  /\ job[p] = Idle
  /\ Goto(p, IF ledger[r] = "invalidated" THEN Retracting({r}) ELSE Invalidating(r))
  /\ UNCHANGED <<ledger, opened, view, holds, strays, crashes, raced, everSealed>>

\* LedgerStore.invalidate; if the record moved on meanwhile it raises and the
\* operation ends there.
InvalidateRecord(p) ==
  LET r == job[p].r IN
  /\ job[p].pc = "invalidating"
  /\ IF ledger[r] \in {"pending", "sealed"}
     THEN /\ ledger' = [ledger EXCEPT ![r] = "invalidated"]
          /\ Goto(p, Retracting({r}))
     ELSE /\ Goto(p, Idle)
          /\ UNCHANGED ledger
  /\ UNCHANGED <<opened, view, holds, strays, crashes, raced, everSealed>>

\* retract_invalidated lists the INVALIDATED records once.
StartCatchUp(p) ==
  LET rs == {r \in Records : ledger[r] = "invalidated"} IN
  /\ job[p] = Idle
  /\ rs # {}
  /\ Goto(p, Retracting(rs))
  /\ UNCHANGED <<ledger, opened, view, holds, strays, crashes, raced, everSealed>>

\* retract refuses a record that is not INVALIDATED (ValueError, which ends the
\* operation); then it reads the record's deliveries once and skips those whose
\* log proves the target holds nothing.
Retract(p) ==
  /\ job[p].pc = "retracting"
  /\ \E r \in job[p].recs :
       Goto(p, IF ledger[r] = "invalidated"
               THEN NextRemoval(job[p].recs \ {r},
                      {d \in opened : RecordOf(d) = r /\ PossiblyWritten(view[d])})
               ELSE Idle)
  /\ UNCHANGED <<ledger, opened, view, holds, strays, crashes, raced, everSealed>>

\* _remove: a target without a writer is a logged failure, else the intent.
LogRemovalIntent(p) ==
  LET j == job[p] IN
  /\ j.pc = "removing"
  /\ \E d \in j.todo :
       IF <<p, TargetOf(d)>> \in Registered
       THEN /\ Log(d, RemovalIntent)
            /\ Goto(p, Erasing(j.recs, j.todo \ {d}, d))
       ELSE /\ Log(d, RemovalFailure)
            /\ Goto(p, NextRemoval(j.recs, j.todo \ {d}))
  /\ UNCHANGED <<ledger, opened, holds, strays, crashes, raced, everSealed>>

\* remove_delivery removes everything under the dispatch_id ...
Erase(p) ==
  LET j == job[p] IN
  /\ j.pc = "erasing"
  /\ holds' = [holds EXCEPT ![j.d] = {}]
  /\ Goto(p, Erased(j.recs, j.todo, j.d, TRUE))
  /\ UNCHANGED <<ledger, opened, view, strays, crashes, raced, everSealed>>

\* ... or raises, with any part of it removed.
EraseFails(p) ==
  LET j == job[p] IN
  /\ j.pc = "erasing"
  /\ \E rest \in SUBSET holds[j.d] : holds' = [holds EXCEPT ![j.d] = rest]
  /\ Goto(p, Erased(j.recs, j.todo, j.d, FALSE))
  /\ UNCHANGED <<ledger, opened, view, strays, crashes, raced, everSealed>>

LogRemovalOutcome(p) ==
  LET j == job[p] IN
  /\ j.pc = "erased"
  /\ Log(j.d, IF j.ok THEN RemovalReceipt ELSE RemovalFailure)
  /\ Goto(p, NextRemoval(j.recs, j.todo))
  /\ UNCHANGED <<ledger, opened, holds, strays, crashes, raced, everSealed>>

-----------------------------------------------------------------------------
(***************************************************************************)
(* Crashes.  A Dispatcher may die between any two steps; chunks of a write *)
(* it had sent may still land afterwards.                                  *)
(***************************************************************************)
Crash(p) ==
  LET j == job[p] IN
  /\ j # Idle
  /\ crashes < MaxCrashes
  /\ crashes' = crashes + 1
  /\ Goto(p, Idle)
  /\ strays' = IF j.pc = "writing"
               THEN strays \cup {[d |-> j.d, att |-> j.att, pay |-> j.pay, landed |-> j.landed]}
               ELSE strays
  /\ UNCHANGED <<ledger, opened, view, holds, raced, everSealed>>

LandStray(s) ==
  /\ \E n \in s.landed .. NChunks :
       holds' = [holds EXCEPT ![s.d] = @ \cup ({s.pay} \X ((s.landed + 1) .. n))]
  /\ strays' = strays \ {s}
  /\ UNCHANGED <<ledger, opened, view, job, crashes, raced, everSealed>>

-----------------------------------------------------------------------------
(***************************************************************************)
(* A delivery is new, or comes from a ledger migrated from before schema   *)
(* 8: its one attempt never reported, or was confirmed.                    *)
(***************************************************************************)
Unreported(pl) == After(EmptyView, Intent(NoAttempt, pl))
Confirmed(pl)  == After(Unreported(pl), Receipt(NoAttempt))

Init ==
  /\ ledger \in [Records -> {"pending", "sealed"}]
  /\ view \in [Deliveries -> {EmptyView} \cup {Unreported(pl) : pl \in Payloads}
                                        \cup {Confirmed(pl) : pl \in Payloads}]
  /\ opened = {d \in Deliveries : view[d] # EmptyView}
  /\ \A d \in opened : ledger[RecordOf(d)] = "sealed"
  /\ holds = [d \in Deliveries |->
                IF view[d] = EmptyView THEN {} ELSE {view[d].bound} \X Chunks]
  /\ job = [p \in Procs |-> Idle]
  /\ strays = {}
  /\ crashes = 0
  /\ raced = {}
  /\ everSealed = {r \in Records : ledger[r] = "sealed"}

\* One step of the operation p is in.
Step(p) ==
  \/ OpenDelivery(p)
  \/ CheckDelivered(p)
  \/ TransformFails(p)
  \/ \E pl \in Payloads : AppendIntent(p, pl)
  \/ LandChunk(p)
  \/ WriteEnds(p)
  \/ LogOutcome(p)
  \/ Recheck(p)
  \/ InvalidateRecord(p)
  \/ Retract(p)
  \/ LogRemovalIntent(p)
  \/ Erase(p)
  \/ EraseFails(p)
  \/ LogRemovalOutcome(p)

\* p is called.
Call(p) ==
  \/ \E d \in Deliveries : StartDispatch(p, d)
  \/ \E r \in Records : StartInvalidate(p, r)
  \/ StartCatchUp(p)

Next ==
  \/ \E r \in Records : SealRecord(r) \/ FailRecord(r) \/ InvalidateDirectly(r)
  \/ \E p \in Procs : Call(p) \/ Step(p) \/ Crash(p)
  \/ \E s \in strays : LandStray(s)

Spec == Init /\ [][Next]_vars

(***************************************************************************)
(* A Dispatcher that runs finishes its operation, a sent write lands or is *)
(* lost, a delivery's removal retried for ever succeeds at last, and an    *)
(* operator keeps calling retract_invalidated while records are invalid.   *)
(***************************************************************************)
Fairness ==
  /\ \A p \in Procs : WF_vars(Step(p)) /\ SF_vars(StartCatchUp(p))
  /\ \A p \in Procs, d \in Deliveries : SF_vars(job[p].pc = "erasing" /\ job[p].d = d /\ Erase(p))
  /\ WF_vars(\E s \in strays : LandStray(s))

FairSpec == Spec /\ Fairness

-----------------------------------------------------------------------------
\* Dispatchers with a write under way: an intent logged, its outcome not.
Live(p)   == job[p].pc \in {"writing", "reporting"}
OnIt(p, d) == Live(p) /\ job[p].d = d

Jobs ==
  {Idle}
    \cup [pc : {"opening", "checking", "transforming"}, d : Deliveries]
    \cup [pc : {"writing"}, d : Deliveries, att : Attempts, pay : Payloads, landed : 0 .. NChunks]
    \cup [pc : {"reporting"}, d : Deliveries, att : Attempts, landed : 0 .. NChunks,
          ok : BOOLEAN, done : (0 .. NChunks) \cup {Unknown}]
    \cup [pc : {"rechecking", "invalidating"}, r : Records]
    \cup [pc : {"retracting"}, recs : SUBSET Records]
    \cup [pc : {"removing"}, recs : SUBSET Records, todo : SUBSET Deliveries]
    \cup [pc : {"erasing"}, recs : SUBSET Records, todo : SUBSET Deliveries, d : Deliveries]
    \cup [pc : {"erased"}, recs : SUBSET Records, todo : SUBSET Deliveries, d : Deliveries,
          ok : BOOLEAN]

Strays == [d : Deliveries, att : Attempts, pay : Payloads, landed : 0 .. NChunks]

TypeOK ==
  /\ ledger \in [Records -> States]
  /\ opened \subseteq Deliveries
  /\ view \in [Deliveries -> Views]
  /\ holds \in [Deliveries -> SUBSET Content]
  /\ job \in [Procs -> Jobs]
  /\ strays \subseteq Strays
  /\ crashes \in 0 .. MaxCrashes
  /\ raced \subseteq Deliveries
  /\ everSealed \subseteq Records

(***************************************************************************)
(* Attempts are kept apart (docs/adapter.md, "one attempt's receipt never  *)
(* closes another's intent"): while a write is under way, or was cut off   *)
(* by a crash and may still land, the log of its delivery waits for that   *)
(* attempt, and for no other's sake.                                       *)
(***************************************************************************)
AttemptsApart ==
  /\ \A p \in Procs : Live(p) => job[p].att \in view[job[p].d].outstanding
  /\ \A s \in strays : s.att \in view[s.d].outstanding
  /\ \A p, q \in Procs :
       p # q /\ Live(p) /\ OnIt(q, job[p].d) => job[p].att # job[q].att
  /\ \A p \in Procs, s \in strays : OnIt(p, s.d) => job[p].att # s.att

(***************************************************************************)
(* One payload per delivery: whatever two Dispatchers race to write under  *)
(* a dispatch_id, its target holds chunks of the payload of the first      *)
(* intent only (append_intent binds and checks in one transaction).        *)
(***************************************************************************)
BoundPayloadOnly ==
  \A d \in Deliveries : \A c \in holds[d] : c[1] = view[d].bound

(***************************************************************************)
(* possibly_written is sound - "True unless the log proves the target      *)
(* holds nothing of this delivery" - through crashes, late landings,       *)
(* failed and concurrent removals, for every delivery no outcome of which  *)
(* was logged between a removal's effect and its receipt.                  *)
(***************************************************************************)
SoundUnlessRaced ==
  \A d \in Deliveries :
    d \notin raced /\ holds[d] # {} => PossiblyWritten(view[d])

(***************************************************************************)
(* A delivery whose last event is a receipt (dispatch answers success or   *)
(* already_delivered) is complete at the target while its record is        *)
(* sealed, whatever other attempts failed or died before or beside it.     *)
(***************************************************************************)
DeliveredComplete ==
  \A d \in Deliveries :
    view[d].status = "delivered" /\ ledger[RecordOf(d)] = "sealed"
      => holds[d] = {view[d].bound} \X Chunks

(***************************************************************************)
(* Nothing of a record that was never sealed is delivered: whatever the    *)
(* record's state is by now - a pending record can be invalidated without  *)
(* ever being sealed, and an invalidated one goes on being written to by   *)
(* the dispatches under way - a delivery is opened, and data reaches a     *)
(* target, only for a record that was SEALED once (dispatch's re-read of   *)
(* the record, on every path, with deaths and late writes).                *)
(***************************************************************************)
NothingUnsealedHeld ==
  /\ \A d \in opened : RecordOf(d) \in everSealed
  /\ \A d \in Deliveries : holds[d] # {} => RecordOf(d) \in everSealed

\* Target data disappears only after the record's invalidation: no retry,
\* crash or concurrent dispatch costs a valid record its delivered chunks.
RemovedOnlyIfInvalidated ==
  [][\A d \in Deliveries :
       ~ (holds[d] \subseteq holds'[d]) => ledger[RecordOf(d)] = "invalidated"]_vars

(***************************************************************************)
(* In the end every invalidated record's deliveries hold nothing at their  *)
(* targets, whichever Dispatcher wrote them, died or found its removal     *)
(* failing (retract_invalidated catches up), unless the race above hid     *)
(* them from every later pass.                                             *)
(***************************************************************************)
InvalidatedCleaned ==
  <>[](\A d \in Deliveries :
         ledger[RecordOf(d)] = "invalidated" => holds[d] = {} \/ d \in raced)

(***************************************************************************)
(* A claim of the repository that a race refutes.                          *)
(***************************************************************************)

\* stele/ledger/delivery.py:129: possibly_written is "True unless the log
\* proves the target holds nothing of this delivery", raced or not.
PossiblyWrittenSound ==
  \A d \in Deliveries : holds[d] # {} => PossiblyWritten(view[d])

=============================================================================

--------------------------- MODULE DispatchProofs ---------------------------
(***************************************************************************)
(* Theorems about Dispatch, for any number of Dispatchers, records,        *)
(* targets, payloads, chunks and crashes.                                  *)
(***************************************************************************)
EXTENDS Dispatch, TLAPS

(***************************************************************************)
(* The inductive invariant.                                                *)
(***************************************************************************)

\* Every write under way, or cut off, carries the payload its delivery is
\* bound to.
WritersBound ==
  /\ \A p \in Procs : job[p].pc = "writing" => job[p].pay = view[job[p].d].bound
  /\ \A s \in strays : s.pay = view[s.d].bound

\* The history is of the records the ledger has as sealed, or had: nothing but
\* an invalidation unseals one.
HistoryRight ==
  \A r \in Records :
    /\ ledger[r] = "sealed" => r \in everSealed
    /\ r \in everSealed => ledger[r] \in {"sealed", "invalidated"}

\* A dispatch that passed the state check is of a record that was sealed, and
\* so is a delivery with a receipt.
StartedSealed ==
  /\ \A d \in Deliveries : view[d].status = "delivered" => RecordOf(d) \in everSealed
  /\ \A p \in Procs :
       job[p].pc \in {"opening", "checking", "transforming", "writing", "reporting"}
         => RecordOf(job[p].d) \in everSealed
  /\ \A s \in strays : RecordOf(s.d) \in everSealed

\* A removal pass holds invalidated records and their deliveries only.
PassesInvalidated ==
  \A p \in Procs :
    /\ job[p].pc \in {"retracting", "removing", "erasing", "erased"}
         => \A r \in job[p].recs : ledger[r] = "invalidated"
    /\ job[p].pc \in {"removing", "erasing", "erased"}
         => \A d \in job[p].todo : ledger[RecordOf(d)] = "invalidated"
    /\ job[p].pc \in {"erasing", "erased"}
         => ledger[RecordOf(job[p].d)] = "invalidated"

\* What a writer reports is what it landed, and a success landed everything.
ReportsHonest ==
  \A p \in Procs :
    job[p].pc = "reporting" =>
      /\ job[p].landed > 0 => job[p].done # 0
      /\ job[p].ok => job[p].landed = NChunks

\* An attempt no running Dispatcher will report: its process died.
Lost(d, a) == a \in view[d].outstanding /\ \A p \in Procs : OnIt(p, d) => job[p].att # a

\* Data whose outcome is still to be logged, or never will be.
Unaccounted(d) ==
  \/ \E p \in Procs : OnIt(p, d) /\ job[p].landed > 0
  \/ \E a \in Attempts : Lost(d, a)

\* Data at a target has a reason in the log or a writer about to log one.
HoldsExplained ==
  \A d \in Deliveries :
    holds[d] # {} => d \in raced \/ view[d].legacy \/ view[d].written \/ Unaccounted(d)

\* After the effect of a removal and before its receipt, the reason is not
\* one that the receipt wipes out.
ErasedExplained ==
  \A q \in Procs :
    job[q].pc = "erased" /\ job[q].ok /\ holds[job[q].d] # {}
      => job[q].d \in raced \/ view[job[q].d].legacy \/ Unaccounted(job[q].d)

\* A writer's landed chunks stay at the target while the record is sealed.
LandedKept ==
  \A p \in Procs :
    Live(p) /\ ledger[RecordOf(job[p].d)] = "sealed"
      => {view[job[p].d].bound} \X (1 .. job[p].landed) \subseteq holds[job[p].d]

IInv ==
  /\ TypeOK
  /\ AttemptsApart
  /\ WritersBound
  /\ BoundPayloadOnly
  /\ HistoryRight
  /\ StartedSealed
  /\ NothingUnsealedHeld
  /\ PassesInvalidated
  /\ ReportsHonest
  /\ HoldsExplained
  /\ ErasedExplained
  /\ LandedKept
  /\ DeliveredComplete

-----------------------------------------------------------------------------
(***************************************************************************)
(* What one event does to a delivery's view.                               *)
(***************************************************************************)
\* append_intent: the attempt becomes outstanding, and binds the payload if
\* it is the delivery's first.
LEMMA IntentView ==
  ASSUME NEW v \in Views, NEW a \in Attempts, NEW pl \in Payloads
  PROVE  /\ After(v, Intent(a, pl)) \in Views
         /\ After(v, Intent(a, pl)).status = "in_flight"
         /\ After(v, Intent(a, pl)).bound = IF v.bound = NoPayload THEN pl ELSE v.bound
         /\ After(v, Intent(a, pl)).written <=> v.written
         /\ After(v, Intent(a, pl)).legacy <=> v.legacy
         /\ After(v, Intent(a, pl)).outstanding = v.outstanding \cup {a}
<1>1. After(v, Intent(a, pl)) = AfterIntent(v, Intent(a, pl))
  BY DEF After, Intent
<1>2. a # NoAttempt
  BY DeliveryLogAssumption
<1>3. AfterIntent(v, Intent(a, pl)) =
        [status |-> "in_flight", bound |-> IF v.bound = NoPayload THEN pl ELSE v.bound,
         written |-> v.written, outstanding |-> v.outstanding \cup {a}, legacy |-> v.legacy]
  BY <1>2 DEF AfterIntent, Intent, Views
<1>4. QED
  BY <1>1, <1>3 DEF Views, Statuses

\* A receipt concludes its own attempt and says data is there.
LEMMA ReceiptView ==
  ASSUME NEW v \in Views, NEW a \in Attempts
  PROVE  /\ After(v, Receipt(a)) \in Views
         /\ After(v, Receipt(a)).status = "delivered"
         /\ After(v, Receipt(a)).bound = v.bound
         /\ After(v, Receipt(a)).written
         /\ After(v, Receipt(a)).legacy <=> v.legacy
         /\ After(v, Receipt(a)).outstanding = v.outstanding \ {a}
<1>1. After(v, Receipt(a)) = AfterOutcome(v, Receipt(a))
  BY DEF After, Receipt
<1>2. a # NoAttempt
  BY DeliveryLogAssumption
<1>3. AfterOutcome(v, Receipt(a)) =
        [status |-> "delivered", bound |-> v.bound, written |-> TRUE,
         outstanding |-> v.outstanding \ {a}, legacy |-> v.legacy]
  BY <1>2 DEF AfterOutcome, Receipt, Views
<1>4. QED
  BY <1>1, <1>3 DEF Views, Statuses

\* A failure concludes its own attempt; unless it wrote nothing, it says
\* that data may be there.
LEMMA FailureView ==
  ASSUME NEW v \in Views, NEW a \in Attempts, NEW done
  PROVE  /\ After(v, Failure(a, done)) \in Views
         /\ After(v, Failure(a, done)).status = "failed"
         /\ After(v, Failure(a, done)).bound = v.bound
         /\ After(v, Failure(a, done)).written <=> (v.written \/ done # 0)
         /\ After(v, Failure(a, done)).legacy <=> v.legacy
         /\ After(v, Failure(a, done)).outstanding = v.outstanding \ {a}
<1>1. After(v, Failure(a, done)) = AfterOutcome(v, Failure(a, done))
  BY DEF After, Failure
<1>2. a # NoAttempt
  BY DeliveryLogAssumption
<1>3. CASE done = 0
  <2>1. AfterOutcome(v, Failure(a, done)) =
          [status |-> "failed", bound |-> v.bound, written |-> v.written,
           outstanding |-> v.outstanding \ {a}, legacy |-> v.legacy]
    BY <1>2, <1>3 DEF AfterOutcome, Failure, Views
  <2>2. QED
    BY <1>1, <1>3, <2>1 DEF Views, Statuses
<1>4. CASE done # 0
  <2>1. AfterOutcome(v, Failure(a, done)) =
          [status |-> "failed", bound |-> v.bound, written |-> TRUE,
           outstanding |-> v.outstanding \ {a}, legacy |-> v.legacy]
    BY <1>2, <1>4 DEF AfterOutcome, Failure, Views
  <2>2. QED
    BY <1>1, <1>4, <2>1 DEF Views, Statuses
<1>5. QED
  BY <1>3, <1>4

\* Removal events leave attempts and payload alone; only a receipt says that
\* the data is gone.
LEMMA RemovalView ==
  ASSUME NEW v \in Views, NEW e \in {RemovalIntent, RemovalReceipt, RemovalFailure}
  PROVE  /\ After(v, e) \in Views
         /\ After(v, e).status \in {"removing", "removed", "removal_failed"}
         /\ After(v, e).bound = v.bound
         /\ After(v, e).written <=> (v.written /\ e # RemovalReceipt)
         /\ After(v, e).legacy <=> v.legacy
         /\ After(v, e).outstanding = v.outstanding
<1>1. After(v, e) = AfterRemoval(v, e)
  BY DEF After, RemovalIntent, RemovalReceipt, RemovalFailure
<1>2. CASE e = RemovalReceipt
  <2>1. AfterRemoval(v, e) =
          [status |-> "removed", bound |-> v.bound, written |-> FALSE,
           outstanding |-> v.outstanding, legacy |-> v.legacy]
    BY <1>2 DEF AfterRemoval, RemovalReceipt, Views
  <2>2. QED
    BY <1>1, <1>2, <2>1 DEF Views, Statuses
<1>3. CASE e # RemovalReceipt
  <2>1. e.event \in {"removal_intent", "removal_failure"}
    BY <1>3 DEF RemovalIntent, RemovalReceipt, RemovalFailure
  <2>2. PICK st \in {"removing", "removal_failed"} :
          AfterRemoval(v, e) =
            [status |-> st, bound |-> v.bound, written |-> v.written,
             outstanding |-> v.outstanding, legacy |-> v.legacy]
    BY <2>1 DEF AfterRemoval, Views
  <2>3. QED
    BY <1>1, <1>3, <2>2 DEF Views, Statuses
<1>4. QED
  BY <1>2, <1>3

-----------------------------------------------------------------------------
(***************************************************************************)
(* The local states of a Dispatcher.                                       *)
(***************************************************************************)

\* The fields a Dispatcher's program counter says it has.
LEMMA JobFields ==
  ASSUME NEW j \in Jobs
  PROVE  /\ j.pc \in {"opening", "checking", "transforming", "writing", "reporting",
                      "erasing", "erased"} => j.d \in Deliveries
         /\ j.pc \in {"writing", "reporting"} => j.att \in Attempts /\ j.landed \in 0 .. NChunks
         /\ j.pc = "writing" => j.pay \in Payloads
         /\ j.pc = "reporting" => j.ok \in BOOLEAN /\ j.done \in (0 .. NChunks) \cup {Unknown}
         /\ j.pc \in {"rechecking", "invalidating"} => j.r \in Records
         /\ j.pc \in {"retracting", "removing", "erasing", "erased"} => j.recs \subseteq Records
         /\ j.pc \in {"removing", "erasing", "erased"} => j.todo \subseteq Deliveries
         /\ j.pc = "erased" => j.ok \in BOOLEAN
  BY DEF Jobs, Idle

\* A step leaves its Dispatcher in one of those states.
LEMMA JobsBuilt ==
  /\ Idle \in Jobs
  /\ \A d \in Deliveries :
       /\ Opening(d) \in Jobs
       /\ Checking(d) \in Jobs
       /\ Transforming(d) \in Jobs
       /\ \A a \in Attempts, n \in 0 .. NChunks :
            /\ \A pl \in Payloads : Writing(d, a, pl, n) \in Jobs
            /\ \A ok \in BOOLEAN, done \in (0 .. NChunks) \cup {Unknown} :
                 Reporting(d, a, n, ok, done) \in Jobs
       /\ \A rs \in SUBSET Records, ds \in SUBSET Deliveries :
            /\ Erasing(rs, ds, d) \in Jobs
            /\ \A ok \in BOOLEAN : Erased(rs, ds, d, ok) \in Jobs
  /\ \A r \in Records : Rechecking(r) \in Jobs /\ Invalidating(r) \in Jobs
  /\ \A rs \in SUBSET Records : Retracting(rs) \in Jobs
  /\ \A rs \in SUBSET Records, ds \in SUBSET Deliveries : Removing(rs, ds) \in Jobs
<1>1. Idle \in Jobs
  BY DEF Jobs
<1>2. ASSUME NEW d \in Deliveries
      PROVE  Opening(d) \in Jobs /\ Checking(d) \in Jobs /\ Transforming(d) \in Jobs
  BY DEF Jobs, Opening, Checking, Transforming
<1>3. ASSUME NEW d \in Deliveries, NEW a \in Attempts, NEW n \in 0 .. NChunks, NEW pl \in Payloads
      PROVE  Writing(d, a, pl, n) \in Jobs
  BY DEF Jobs, Writing
<1>4. ASSUME NEW d \in Deliveries, NEW a \in Attempts, NEW n \in 0 .. NChunks,
             NEW ok \in BOOLEAN, NEW done \in (0 .. NChunks) \cup {Unknown}
      PROVE  Reporting(d, a, n, ok, done) \in Jobs
  BY DEF Jobs, Reporting
<1>5. ASSUME NEW d \in Deliveries, NEW rs \in SUBSET Records, NEW ds \in SUBSET Deliveries,
             NEW ok \in BOOLEAN
      PROVE  Erasing(rs, ds, d) \in Jobs /\ Erased(rs, ds, d, ok) \in Jobs
  BY DEF Jobs, Erasing, Erased
<1>6. ASSUME NEW r \in Records
      PROVE  Rechecking(r) \in Jobs /\ Invalidating(r) \in Jobs
  BY DEF Jobs, Rechecking, Invalidating
<1>7. ASSUME NEW rs \in SUBSET Records, NEW ds \in SUBSET Deliveries
      PROVE  Retracting(rs) \in Jobs /\ Removing(rs, ds) \in Jobs
  BY DEF Jobs, Retracting, Removing
<1>8. QED
  BY <1>1, <1>2, <1>3, <1>4, <1>5, <1>6, <1>7

\* The next removal of a pass is a job.
LEMMA NextRemovalJob ==
  ASSUME NEW rs \in SUBSET Records, NEW ds \in SUBSET Deliveries
  PROVE  NextRemoval(rs, ds) \in Jobs
BY JobsBuilt DEF NextRemoval

-----------------------------------------------------------------------------
(***************************************************************************)
(* Type correctness.                                                       *)
(***************************************************************************)
LEMMA InitType == Init => TypeOK
<1> SUFFICES ASSUME Init PROVE TypeOK
  OBVIOUS
<1>1. EmptyView \in Views
  BY DEF EmptyView, Views, Statuses
<1>2. ASSUME NEW pl \in Payloads
      PROVE  Unreported(pl) \in Views /\ Unreported(pl).bound = pl
  <2>1. pl # NoPayload
    BY DeliveryLogAssumption
  <2>2. Unreported(pl) = [status |-> "in_flight", bound |-> pl, written |-> FALSE,
                          outstanding |-> {}, legacy |-> TRUE]
    BY DEF Unreported, After, Intent, AfterIntent, EmptyView
  <2>3. QED
    BY <2>2 DEF Views, Statuses
<1>3. ASSUME NEW pl \in Payloads
      PROVE  Confirmed(pl) \in Views /\ Confirmed(pl).bound = pl
  <2>1. Confirmed(pl) = AfterOutcome(Unreported(pl), Receipt(NoAttempt))
    BY DEF Confirmed, After, Receipt
  <2>2. Confirmed(pl) = [status |-> "delivered", bound |-> pl, written |-> TRUE,
                         outstanding |-> Unreported(pl).outstanding \ {NoAttempt},
                         legacy |-> FALSE]
    BY <2>1, <1>2 DEF AfterOutcome, Receipt
  <2>3. QED
    BY <2>2, <1>2 DEF Views, Statuses
<1>4. view \in [Deliveries -> Views]
  BY <1>1, <1>2, <1>3 DEF Init
<1>5. holds \in [Deliveries -> SUBSET Content]
  <2>1. ASSUME NEW d \in Deliveries
        PROVE  (IF view[d] = EmptyView THEN {} ELSE {view[d].bound} \X Chunks) \subseteq Content
    <3>1. view[d] # EmptyView => view[d].bound \in Payloads
      BY <1>2, <1>3 DEF Init
    <3>2. QED
      BY <3>1 DEF Content
  <2>2. QED
    BY <2>1 DEF Init
<1>6. job \in [Procs -> Jobs]
  BY JobsBuilt DEF Init
<1>7. QED
  BY <1>4, <1>5, <1>6, DispatchAssumption DEF Init, TypeOK, States

\* An event recorded for a delivery leaves a view for every delivery.
LEMMA LogType ==
  ASSUME TypeOK, NEW d \in Deliveries, NEW e, After(view[d], e) \in Views, Log(d, e)
  PROVE  view' \in [Deliveries -> Views]
BY DEF TypeOK, Log

\* A Dispatcher that goes on has a job.
LEMMA GotoType ==
  ASSUME TypeOK, NEW p \in Procs, NEW j \in Jobs, Goto(p, j)
  PROVE  job' \in [Procs -> Jobs]
BY DEF TypeOK, Goto

\* A step of a running Dispatcher keeps the types.
LEMMA StepType ==
  ASSUME TypeOK, NEW p \in Procs, Step(p)
  PROVE  TypeOK'
<1> DEFINE j == job[p]
<1>a. j \in Jobs /\ view \in [Deliveries -> Views] /\ holds \in [Deliveries -> SUBSET Content]
  BY DEF TypeOK
<1> HIDE DEF j
<1>1. CASE OpenDelivery(p)
  <2>1. j.d \in Deliveries
    BY <1>1, <1>a, JobFields DEF OpenDelivery, j
  <2>2. job' \in [Procs -> Jobs]
    BY <1>1, <2>1, JobsBuilt, GotoType DEF OpenDelivery, j
  <2>3. QED
    BY <1>1, <2>1, <2>2 DEF OpenDelivery, TypeOK, j
<1>2. CASE CheckDelivered(p)
  <2>1. j.d \in Deliveries
    BY <1>2, <1>a, JobFields DEF CheckDelivered, j
  <2>2. job' \in [Procs -> Jobs]
    BY <1>2, <2>1, JobsBuilt, GotoType DEF CheckDelivered, j
  <2>3. QED
    BY <1>2, <2>2 DEF CheckDelivered, TypeOK
<1>3. CASE TransformFails(p)
  <2>1. j.d \in Deliveries
    BY <1>3, <1>a, JobFields DEF TransformFails, j
  <2>2. PICK a \in FreshAttempts(j.d) : Log(j.d, Failure(a, 0))
    BY <1>3 DEF TransformFails, j
  <2>3. view' \in [Deliveries -> Views]
    BY <2>1, <2>2, <1>a, FailureView, LogType DEF FreshAttempts
  <2>4. job' \in [Procs -> Jobs]
    BY <1>3, JobsBuilt, GotoType DEF TransformFails
  <2>5. QED
    BY <1>3, <2>3, <2>4 DEF TransformFails, TypeOK
<1>4. ASSUME NEW pl \in Payloads, AppendIntent(p, pl)
      PROVE  TypeOK'
  <2>1. j.d \in Deliveries
    BY <1>4, <1>a, JobFields DEF AppendIntent, j
  <2>2. CASE view[j.d].bound \in {NoPayload, pl}
    <3>1. PICK a \in FreshAttempts(j.d) :
            Log(j.d, Intent(a, pl)) /\ Goto(p, Writing(j.d, a, pl, 0))
      BY <1>4, <2>2 DEF AppendIntent, j
    <3>2. view' \in [Deliveries -> Views]
      BY <2>1, <3>1, <1>a, IntentView, LogType DEF FreshAttempts
    <3>3. Writing(j.d, a, pl, 0) \in Jobs
      BY <2>1, <3>1, DispatchAssumption, JobsBuilt DEF FreshAttempts
    <3>4. job' \in [Procs -> Jobs]
      BY <3>1, <3>3, GotoType
    <3>5. QED
      BY <1>4, <3>2, <3>4 DEF AppendIntent, TypeOK
  <2>3. CASE view[j.d].bound \notin {NoPayload, pl}
    <3>1. Goto(p, Idle) /\ UNCHANGED view
      BY <1>4, <2>3 DEF AppendIntent, j
    <3>2. job' \in [Procs -> Jobs]
      BY <3>1, JobsBuilt, GotoType
    <3>3. QED
      BY <1>4, <3>1, <3>2 DEF AppendIntent, TypeOK
  <2>4. QED
    BY <2>2, <2>3
<1>5. CASE LandChunk(p)
  <2>1. j.d \in Deliveries /\ j.att \in Attempts /\ j.pay \in Payloads /\ j.landed \in 0 .. NChunks
    BY <1>5, <1>a, JobFields DEF LandChunk, j
  <2>2. j.landed + 1 \in Chunks /\ j.landed + 1 \in 0 .. NChunks
    BY <1>5, <2>1, DispatchAssumption DEF LandChunk, Chunks, j
  <2>3. job' \in [Procs -> Jobs]
    BY <1>5, <2>1, <2>2, JobsBuilt, GotoType DEF LandChunk, j
  <2>4. holds' \in [Deliveries -> SUBSET Content]
    BY <1>5, <1>a, <2>1, <2>2 DEF LandChunk, Content, j
  <2>5. QED
    BY <1>5, <2>3, <2>4 DEF LandChunk, TypeOK
<1>6. CASE WriteEnds(p)
  <2>1. j.d \in Deliveries /\ j.att \in Attempts /\ j.landed \in 0 .. NChunks
    BY <1>6, <1>a, JobFields DEF WriteEnds, j
  <2>2. NChunks \in 0 .. NChunks
    BY DispatchAssumption
  <2>3. PICK ok \in BOOLEAN, done \in (0 .. NChunks) \cup {Unknown} :
          Goto(p, Reporting(j.d, j.att, j.landed, ok, done))
    BY <1>6, <2>1, <2>2 DEF WriteEnds, j
  <2>4. job' \in [Procs -> Jobs]
    BY <2>1, <2>3, JobsBuilt, GotoType
  <2>5. QED
    BY <1>6, <2>4 DEF WriteEnds, TypeOK
<1>7. CASE LogOutcome(p)
  <2>1. j.d \in Deliveries /\ j.att \in Attempts
    BY <1>7, <1>a, JobFields DEF LogOutcome, j
  <2>2. view' \in [Deliveries -> Views]
    <3>1. view[j.d] \in Views
      BY <1>a, <2>1
    <3>2. CASE j.ok
      BY <1>7, <2>1, <3>1, <3>2, ReceiptView, LogType DEF LogOutcome, j
    <3>3. CASE ~j.ok
      BY <1>7, <2>1, <3>1, <3>3, FailureView, LogType DEF LogOutcome, j
    <3>4. QED
      BY <3>2, <3>3
  <2>3. RecordOf(j.d) \in Records
    BY <2>1 DEF Deliveries, RecordOf
  <2>4. job' \in [Procs -> Jobs]
    BY <1>7, <2>3, JobsBuilt, GotoType DEF LogOutcome, j
  <2>5. raced' \subseteq Deliveries
    BY <1>7, <2>1 DEF LogOutcome, TypeOK, j
  <2>6. QED
    BY <1>7, <2>2, <2>4, <2>5 DEF LogOutcome, TypeOK
<1>8. CASE Recheck(p)
  <2>1. j.r \in Records
    BY <1>8, <1>a, JobFields DEF Recheck, j
  <2>2. job' \in [Procs -> Jobs]
    BY <1>8, <2>1, JobsBuilt, GotoType DEF Recheck, j
  <2>3. QED
    BY <1>8, <2>2 DEF Recheck, TypeOK
<1>9. CASE InvalidateRecord(p)
  <2>1. j.r \in Records
    BY <1>9, <1>a, JobFields DEF InvalidateRecord, j
  <2>2. job' \in [Procs -> Jobs]
    BY <1>9, <2>1, JobsBuilt, GotoType DEF InvalidateRecord, j
  <2>3. ledger' \in [Records -> States]
    BY <1>9, <2>1 DEF InvalidateRecord, TypeOK, States, j
  <2>4. QED
    BY <1>9, <2>2, <2>3 DEF InvalidateRecord, TypeOK
<1>10. CASE Retract(p)
  <2>1. j.recs \subseteq Records
    BY <1>10, <1>a, JobFields DEF Retract, j
  <2>2. PICK r \in j.recs :
          \/ Goto(p, NextRemoval(j.recs \ {r},
                       {d \in opened : RecordOf(d) = r /\ PossiblyWritten(view[d])}))
          \/ Goto(p, Idle)
    BY <1>10 DEF Retract, j
  <2>3. {d \in opened : RecordOf(d) = r /\ PossiblyWritten(view[d])} \in SUBSET Deliveries
    BY DEF TypeOK
  <2>4. job' \in [Procs -> Jobs]
    BY <2>1, <2>2, <2>3, JobsBuilt, NextRemovalJob, GotoType
  <2>5. QED
    BY <1>10, <2>4 DEF Retract, TypeOK
<1>11. CASE LogRemovalIntent(p)
  <2>1. j.recs \subseteq Records /\ j.todo \subseteq Deliveries
    BY <1>11, <1>a, JobFields DEF LogRemovalIntent, j
  <2>2. PICK d \in j.todo :
          \/ Log(d, RemovalIntent) /\ Goto(p, Erasing(j.recs, j.todo \ {d}, d))
          \/ Log(d, RemovalFailure) /\ Goto(p, NextRemoval(j.recs, j.todo \ {d}))
    BY <1>11 DEF LogRemovalIntent, j
  <2>3. view' \in [Deliveries -> Views]
    BY <2>1, <2>2, <1>a, RemovalView, LogType
  <2>4. j.recs \in SUBSET Records /\ j.todo \ {d} \in SUBSET Deliveries /\ d \in Deliveries
    BY <2>1
  <2>5. Erasing(j.recs, j.todo \ {d}, d) \in Jobs /\ NextRemoval(j.recs, j.todo \ {d}) \in Jobs
    BY <2>4, JobsBuilt, NextRemovalJob
  <2>6. job' \in [Procs -> Jobs]
    BY <2>2, <2>5, GotoType
  <2>7. QED
    BY <1>11, <2>3, <2>6 DEF LogRemovalIntent, TypeOK
<1>12. CASE Erase(p) \/ EraseFails(p)
  <2>1. j.d \in Deliveries /\ j.recs \in SUBSET Records /\ j.todo \in SUBSET Deliveries
    BY <1>12, <1>a, JobFields DEF Erase, EraseFails, j
  <2>2. holds' \in [Deliveries -> SUBSET Content]
    BY <1>12, <1>a, <2>1 DEF Erase, EraseFails, j
  <2>3. PICK ok \in BOOLEAN : Goto(p, Erased(j.recs, j.todo, j.d, ok))
    BY <1>12 DEF Erase, EraseFails, j
  <2>4. job' \in [Procs -> Jobs]
    BY <2>1, <2>3, JobsBuilt, GotoType
  <2>5. QED
    BY <1>12, <2>2, <2>4 DEF Erase, EraseFails, TypeOK
<1>13. CASE LogRemovalOutcome(p)
  <2>1. j.d \in Deliveries /\ j.recs \in SUBSET Records /\ j.todo \in SUBSET Deliveries
    BY <1>13, <1>a, JobFields DEF LogRemovalOutcome, j
  <2>2. PICK e \in {RemovalIntent, RemovalReceipt, RemovalFailure} : Log(j.d, e)
    BY <1>13 DEF LogRemovalOutcome, j
  <2>3. view' \in [Deliveries -> Views]
    BY <2>1, <2>2, <1>a, RemovalView, LogType
  <2>4. job' \in [Procs -> Jobs]
    BY <1>13, <2>1, NextRemovalJob, GotoType DEF LogRemovalOutcome, j
  <2>5. QED
    BY <1>13, <2>3, <2>4 DEF LogRemovalOutcome, TypeOK
<1>14. QED
  BY <1>1, <1>2, <1>3, <1>4, <1>5, <1>6, <1>7, <1>8, <1>9, <1>10, <1>11, <1>12, <1>13 DEF Step

\* Every step keeps the types.
LEMMA NextType == TypeOK /\ [Next]_vars => TypeOK'
<1> SUFFICES ASSUME TypeOK, [Next]_vars PROVE TypeOK'
  OBVIOUS
<1>1. ASSUME NEW r \in Records, SealRecord(r) \/ FailRecord(r) \/ InvalidateDirectly(r)
      PROVE  TypeOK'
  <2>1. ledger' \in [Records -> States]
    BY <1>1 DEF SealRecord, FailRecord, InvalidateDirectly, TypeOK, States
  <2>2. everSealed' \subseteq Records
    BY <1>1 DEF SealRecord, FailRecord, InvalidateDirectly, TypeOK
  <2>3. QED
    BY <1>1, <2>1, <2>2 DEF SealRecord, FailRecord, InvalidateDirectly, TypeOK
<1>2. ASSUME NEW p \in Procs, Call(p)
      PROVE  TypeOK'
  <2>1. ASSUME NEW d \in Deliveries, StartDispatch(p, d)
        PROVE  TypeOK'
    <3>1. job' \in [Procs -> Jobs]
      BY <2>1, JobsBuilt, GotoType DEF StartDispatch
    <3>2. QED
      BY <2>1, <3>1 DEF StartDispatch, TypeOK
  <2>2. ASSUME NEW r \in Records, StartInvalidate(p, r)
        PROVE  TypeOK'
    <3>1. job' \in [Procs -> Jobs]
      BY <2>2, JobsBuilt, GotoType DEF StartInvalidate
    <3>2. QED
      BY <2>2, <3>1 DEF StartInvalidate, TypeOK
  <2>3. CASE StartCatchUp(p)
    <3>1. job' \in [Procs -> Jobs]
      BY <2>3, JobsBuilt, GotoType DEF StartCatchUp
    <3>2. QED
      BY <2>3, <3>1 DEF StartCatchUp, TypeOK
  <2>4. QED
    BY <1>2, <2>1, <2>2, <2>3 DEF Call
<1>3. ASSUME NEW p \in Procs, Step(p)
      PROVE  TypeOK'
  BY <1>3, StepType
<1>4. ASSUME NEW p \in Procs, Crash(p)
      PROVE  TypeOK'
  <2>1. job' \in [Procs -> Jobs]
    BY <1>4, JobsBuilt, GotoType DEF Crash
  <2>2. strays' \subseteq Strays
    BY <1>4, JobFields DEF Crash, TypeOK, Strays
  <2>3. crashes' \in 0 .. MaxCrashes
    BY <1>4, DispatchAssumption DEF Crash, TypeOK
  <2>4. QED
    BY <1>4, <2>1, <2>2, <2>3 DEF Crash, TypeOK
<1>5. ASSUME NEW s \in strays, LandStray(s)
      PROVE  TypeOK'
  <2>1. s.d \in Deliveries /\ s.pay \in Payloads /\ s.landed \in 0 .. NChunks
    BY DEF TypeOK, Strays
  <2>2. PICK n \in s.landed .. NChunks :
          holds' = [holds EXCEPT ![s.d] = @ \cup ({s.pay} \X ((s.landed + 1) .. n))]
    BY <1>5 DEF LandStray
  <2>3. {s.pay} \X ((s.landed + 1) .. n) \subseteq Content
    BY <2>1, <2>2, DispatchAssumption DEF Content, Chunks
  <2>4. holds' \in [Deliveries -> SUBSET Content]
    BY <2>1, <2>2, <2>3 DEF TypeOK
  <2>5. QED
    BY <1>5, <2>4 DEF LandStray, TypeOK
<1>6. CASE UNCHANGED vars
  BY <1>6 DEF vars, TypeOK
<1>7. QED
  BY <1>1, <1>2, <1>3, <1>4, <1>5, <1>6 DEF Next

(***************************************************************************)
(* Every value of the state has the shape the tables and the Dispatchers'  *)
(* local variables have.                                                   *)
(***************************************************************************)
THEOREM TypeCorrect == Spec => []TypeOK
<1>1. QED
  BY InitType, NextType, PTL DEF Spec

-----------------------------------------------------------------------------
(***************************************************************************)
(* What a step leaves alone.                                               *)
(***************************************************************************)

\* invalidated is final, and nothing unseals a record but invalidation.
LEMMA LedgerSteps ==
  ASSUME TypeOK, [Next]_vars, NEW r \in Records
  PROVE  /\ ledger[r] = "invalidated" => ledger'[r] = "invalidated"
         /\ ledger[r] \in {"sealed", "invalidated"} => ledger'[r] \in {"sealed", "invalidated"}
         /\ ledger'[r] = "sealed" => ledger[r] \in {"pending", "sealed"}
<1>1. CASE \E q \in Records : SealRecord(q) \/ FailRecord(q) \/ InvalidateDirectly(q)
  BY <1>1 DEF SealRecord, FailRecord, InvalidateDirectly, TypeOK
<1>2. CASE \E p \in Procs : InvalidateRecord(p)
  BY <1>2 DEF InvalidateRecord, TypeOK
<1>3. CASE UNCHANGED ledger
  BY <1>3
<1>4. QED
  BY <1>1, <1>2, <1>3 DEF Next, vars, Call, Step, Crash, LandStray, StartDispatch,
     StartInvalidate, StartCatchUp, OpenDelivery, CheckDelivered, TransformFails,
     AppendIntent, LandChunk, WriteEnds, LogOutcome, Recheck, Retract,
     LogRemovalIntent, Erase, EraseFails, LogRemovalOutcome

\* A pending record becomes sealed by SealRecord only.
LEMMA UnsealedSteps ==
  ASSUME TypeOK, [Next]_vars, NEW r \in Records, ledger[r] = "pending", ledger'[r] = "sealed"
  PROVE  SealRecord(r)
<1>1. CASE \E q \in Records : SealRecord(q) \/ FailRecord(q) \/ InvalidateDirectly(q)
  BY <1>1 DEF SealRecord, FailRecord, InvalidateDirectly, TypeOK
<1>2. CASE \E p \in Procs : InvalidateRecord(p)
  BY <1>2 DEF InvalidateRecord, TypeOK
<1>3. CASE UNCHANGED ledger
  BY <1>3
<1>4. QED
  BY <1>1, <1>2, <1>3 DEF Next, vars, Call, Step, Crash, LandStray, StartDispatch,
     StartInvalidate, StartCatchUp, OpenDelivery, CheckDelivered, TransformFails,
     AppendIntent, LandChunk, WriteEnds, LogOutcome, Recheck, Retract,
     LogRemovalIntent, Erase, EraseFails, LogRemovalOutcome

\* One Dispatcher moves at a time.
LEMMA JobFrame ==
  ASSUME TypeOK, NEW p \in Procs, Call(p) \/ Step(p) \/ Crash(p),
         NEW q \in Procs, q # p
  PROVE  job'[q] = job[q]
<1>1. \A x : Goto(p, x) => job'[q] = job[q]
  BY DEF Goto, TypeOK
<1>2. QED
  BY <1>1 DEF Call, Step, Crash, StartDispatch, StartInvalidate, StartCatchUp,
     OpenDelivery, CheckDelivered, TransformFails, AppendIntent, LandChunk, WriteEnds,
     LogOutcome, Recheck, InvalidateRecord, Retract, LogRemovalIntent, Erase,
     EraseFails, LogRemovalOutcome

\* The Dispatcher that moves is where its step sends it.
LEMMA GotoLands ==
  ASSUME TypeOK, NEW p \in Procs, NEW x, Goto(p, x)
  PROVE  job'[p] = x
BY DEF Goto, TypeOK

\* A removal pass goes on with the rest of its deliveries and records.
LEMMA NextRemovalFields ==
  ASSUME NEW rs, NEW ds
  PROVE  \/ NextRemoval(rs, ds) = Removing(rs, ds)
         \/ NextRemoval(rs, ds) = Retracting(rs)
         \/ NextRemoval(rs, ds) = Idle
BY DEF NextRemoval

\* append_intent binds and goes on to write, or refuses and ends.
LEMMA AppendIntentCases ==
  ASSUME TypeOK, NEW p \in Procs, NEW pl \in Payloads, AppendIntent(p, pl)
  PROVE  /\ job[p].pc = "transforming"
         /\ job[p].d \in Deliveries
         /\ \/ \E a \in Attempts \ view[job[p].d].outstanding :
                 /\ view[job[p].d].bound \in {NoPayload, pl}
                 /\ Log(job[p].d, Intent(a, pl))
                 /\ job'[p] = Writing(job[p].d, a, pl, 0)
            \/ job'[p] = Idle /\ UNCHANGED view
<1>1. job[p].pc = "transforming" /\ job[p].d \in Deliveries
  BY JobFields DEF AppendIntent, TypeOK
<1>2. CASE view[job[p].d].bound \in {NoPayload, pl}
  <2>1. PICK a \in FreshAttempts(job[p].d) :
          Log(job[p].d, Intent(a, pl)) /\ Goto(p, Writing(job[p].d, a, pl, 0))
    BY <1>2 DEF AppendIntent
  <2>2. job'[p] = Writing(job[p].d, a, pl, 0)
    BY <2>1, GotoLands
  <2>3. QED
    BY <1>1, <1>2, <2>1, <2>2 DEF FreshAttempts
<1>3. CASE view[job[p].d].bound \notin {NoPayload, pl}
  <2>1. Goto(p, Idle) /\ UNCHANGED view
    BY <1>3 DEF AppendIntent
  <2>2. QED
    BY <1>1, <2>1, GotoLands
<1>4. QED
  BY <1>2, <1>3

-----------------------------------------------------------------------------
\* A removal pass that has begun is of a record that stays invalidated.
LEMMA PassesInvalidatedStep ==
  ASSUME TypeOK, PassesInvalidated, [Next]_vars
  PROVE  PassesInvalidated'
<1> DEFINE Passes(j, l) ==
      /\ j.pc \in {"retracting", "removing", "erasing", "erased"}
           => \A r \in j.recs : l[r] = "invalidated"
      /\ j.pc \in {"removing", "erasing", "erased"}
           => \A d \in j.todo : l[RecordOf(d)] = "invalidated"
      /\ j.pc \in {"erasing", "erased"}
           => l[RecordOf(j.d)] = "invalidated"
<1>1. \A d \in Deliveries : RecordOf(d) \in Records
  BY DEF Deliveries, RecordOf
<1>2. ASSUME NEW j \in Jobs, Passes(j, ledger)
      PROVE  Passes(j, ledger')
  BY <1>1, <1>2, JobFields, LedgerSteps
<1>3. ASSUME NEW p \in Procs PROVE Passes(job[p], ledger) /\ job[p] \in Jobs
  BY DEF PassesInvalidated, TypeOK
<1>4. ASSUME NEW rs, NEW ds, \A r \in rs : ledger[r] = "invalidated",
             \A d \in ds : ledger[RecordOf(d)] = "invalidated"
      PROVE  Passes(NextRemoval(rs, ds), ledger)
  BY <1>4, NextRemovalFields DEF Removing, Retracting, Idle
<1>5. ASSUME NEW p \in Procs, Call(p) \/ Step(p) \/ Crash(p)
      PROVE  Passes(job'[p], ledger')
  <2>1. ASSUME NEW d \in Deliveries, StartDispatch(p, d) PROVE Passes(job'[p], ledger')
    BY <2>1, GotoLands DEF StartDispatch, Opening
  <2>2. ASSUME NEW r \in Records, StartInvalidate(p, r) PROVE Passes(job'[p], ledger')
    BY <2>2, GotoLands DEF StartInvalidate, Retracting, Invalidating
  <2>3. CASE StartCatchUp(p)
    BY <2>3, GotoLands DEF StartCatchUp, Retracting
  <2>4. CASE OpenDelivery(p) \/ CheckDelivered(p) \/ TransformFails(p)
             \/ LandChunk(p) \/ WriteEnds(p) \/ LogOutcome(p) \/ Crash(p)
    <3>1. job'[p].pc \in {"idle", "checking", "transforming", "writing", "reporting", "rechecking"}
      BY <2>4, GotoLands DEF OpenDelivery, CheckDelivered, TransformFails, LandChunk, WriteEnds,
         LogOutcome, Crash, Idle, Checking, Transforming, Writing, Reporting, Rechecking
    <3>2. QED
      BY <3>1
  <2>5. ASSUME NEW pl \in Payloads, AppendIntent(p, pl) PROVE Passes(job'[p], ledger')
    <3>1. \/ \E d, a : job'[p] = Writing(d, a, pl, 0)
          \/ job'[p] = Idle
      BY <2>5, AppendIntentCases
    <3>2. \A d, a : Writing(d, a, pl, 0).pc = "writing"
      BY DEF Writing
    <3>3. Idle.pc = "idle"
      BY DEF Idle
    <3>4. job'[p].pc \in {"idle", "writing"}
      BY <3>1, <3>2, <3>3
    <3>5. QED
      BY <3>4
  <2>6. CASE Recheck(p)
    BY <2>6, GotoLands DEF Recheck, Retracting, Idle
  <2>7. CASE InvalidateRecord(p)
    <3>1. job[p].r \in Records
      BY <2>7, <1>3, JobFields DEF InvalidateRecord
    <3>2. QED
      BY <2>7, <3>1, GotoLands DEF InvalidateRecord, Retracting, Idle, TypeOK
  <2>8. CASE Retract(p)
    <3>1. PICK r \in job[p].recs :
            \/ Goto(p, NextRemoval(job[p].recs \ {r},
                         {d \in opened : RecordOf(d) = r /\ PossiblyWritten(view[d])}))
            \/ Goto(p, Idle)
      BY <2>8 DEF Retract
    <3>2. ledger[r] = "invalidated" /\ \A q \in job[p].recs \ {r} : ledger[q] = "invalidated"
      BY <2>8, <1>3 DEF Retract
    <3>3. Passes(job'[p], ledger)
      BY <3>1, <3>2, <1>4, GotoLands DEF Idle
    <3>4. QED
      BY <2>8, <3>3 DEF Retract
  <2>9. CASE LogRemovalIntent(p)
    <3>1. PICK d \in job[p].todo :
            \/ Goto(p, Erasing(job[p].recs, job[p].todo \ {d}, d))
            \/ Goto(p, NextRemoval(job[p].recs, job[p].todo \ {d}))
      BY <2>9 DEF LogRemovalIntent
    <3>2. Passes(job'[p], ledger)
      BY <2>9, <3>1, <1>3, <1>4, GotoLands DEF LogRemovalIntent, Erasing
    <3>3. QED
      BY <2>9, <3>2 DEF LogRemovalIntent
  <2>10. CASE Erase(p) \/ EraseFails(p)
    <3>1. Passes(job'[p], ledger)
      BY <2>10, <1>3, GotoLands DEF Erase, EraseFails, Erased
    <3>2. QED
      BY <2>10, <3>1 DEF Erase, EraseFails
  <2>11. CASE LogRemovalOutcome(p)
    <3>1. Passes(job'[p], ledger)
      BY <2>11, <1>3, <1>4, GotoLands DEF LogRemovalOutcome
    <3>2. QED
      BY <2>11, <3>1 DEF LogRemovalOutcome
  <2>12. QED
    BY <1>5, <2>1, <2>2, <2>3, <2>4, <2>5, <2>6, <2>7, <2>8, <2>9, <2>10, <2>11 DEF Call, Step
<1>6. CASE \E p \in Procs : Call(p) \/ Step(p) \/ Crash(p)
  <2>1. PICK p \in Procs : Call(p) \/ Step(p) \/ Crash(p)
    BY <1>6
  <2>2. ASSUME NEW q \in Procs PROVE Passes(job'[q], ledger')
    <3>1. CASE q = p
      BY <2>1, <3>1, <1>5
    <3>2. CASE q # p
      <4>1. job'[q] = job[q]
        BY <2>1, <3>2, JobFrame
      <4>2. QED
        BY <4>1, <1>2, <1>3
    <3>3. QED
      BY <3>1, <3>2
  <2>3. QED
    BY <2>2 DEF PassesInvalidated
<1>7. CASE UNCHANGED job
  BY <1>7, <1>2, <1>3 DEF PassesInvalidated
<1>8. QED
  BY <1>6, <1>7 DEF Next, vars, SealRecord, FailRecord, InvalidateDirectly, LandStray

-----------------------------------------------------------------------------
\* An event changes the view of its own delivery only.
LEMMA LogEffect ==
  ASSUME TypeOK, NEW d \in Deliveries, NEW e, Log(d, e)
  PROVE  /\ view'[d] = After(view[d], e)
         /\ \A c \in Deliveries : c # d => view'[c] = view[c]
BY DEF TypeOK, Log

(***************************************************************************)
(* What a step may do to a delivery's view: the bound payload stays, an    *)
(* attempt is concluded by its own outcome only, and only the receipt of a *)
(* removal says that data is gone.                                         *)
(***************************************************************************)
LEMMA ViewSteps ==
  ASSUME TypeOK, [Next]_vars, NEW d \in Deliveries
  PROVE  /\ view[d].bound # NoPayload => view'[d].bound = view[d].bound
         /\ view[d].legacy => view'[d].legacy
         /\ \A a \in view[d].outstanding :
              \/ a \in view'[d].outstanding
              \/ \E p \in Procs : LogOutcome(p) /\ job[p].d = d /\ job[p].att = a
         /\ view[d].written =>
              \/ view'[d].written
              \/ \E q \in Procs : LogRemovalOutcome(q) /\ job[q].d = d /\ job[q].ok
<1>0. view[d] \in Views /\ job \in [Procs -> Jobs]
  BY DEF TypeOK
<1>1. ASSUME NEW p \in Procs, TransformFails(p)
      PROVE  view'[d].bound = view[d].bound /\ (view'[d].legacy <=> view[d].legacy)
             /\ view'[d].outstanding = view[d].outstanding
             /\ (view'[d].written <=> view[d].written)
  <2>1. job[p].d \in Deliveries
    BY <1>0, <1>1, JobFields DEF TransformFails
  <2>2. PICK a \in Attempts \ view[job[p].d].outstanding : Log(job[p].d, Failure(a, 0))
    BY <1>1 DEF TransformFails, FreshAttempts
  <2>3. CASE d = job[p].d
    <3>1. view'[d] = After(view[d], Failure(a, 0))
      BY <2>1, <2>2, <2>3, LogEffect
    <3>2. view[d].outstanding \ {a} = view[d].outstanding
      BY <2>2, <2>3
    <3>3. view'[d].written <=> view[d].written
      BY <1>0, <3>1, FailureView
    <3>4. view'[d].legacy <=> view[d].legacy
      BY <1>0, <3>1, FailureView
    <3>5. view'[d].bound = view[d].bound
      BY <1>0, <3>1, FailureView
    <3>6. view'[d].outstanding = view[d].outstanding \ {a}
      BY <1>0, <3>1, FailureView
    <3>7. QED
      BY <3>2, <3>3, <3>4, <3>5, <3>6
  <2>4. CASE d # job[p].d
    BY <2>1, <2>2, <2>4, LogEffect
  <2>5. QED
    BY <2>3, <2>4
<1>2. ASSUME NEW p \in Procs, NEW pl \in Payloads, AppendIntent(p, pl)
      PROVE  (view[d].bound # NoPayload => view'[d].bound = view[d].bound)
             /\ (view'[d].legacy <=> view[d].legacy)
             /\ view[d].outstanding \subseteq view'[d].outstanding
             /\ (view'[d].written <=> view[d].written)
  <2>1. CASE UNCHANGED view
    BY <2>1
  <2>2. ASSUME NEW a \in Attempts, Log(job[p].d, Intent(a, pl)), job[p].d \in Deliveries
        PROVE  (view[d].bound # NoPayload => view'[d].bound = view[d].bound)
               /\ (view'[d].legacy <=> view[d].legacy)
               /\ view[d].outstanding \subseteq view'[d].outstanding
               /\ (view'[d].written <=> view[d].written)
    <3>1. CASE d = job[p].d
      BY <1>0, <2>2, <3>1, LogEffect, IntentView
    <3>2. CASE d # job[p].d
      BY <2>2, <3>2, LogEffect
    <3>3. QED
      BY <3>1, <3>2
  <2>3. QED
    BY <1>2, <2>1, <2>2, AppendIntentCases
<1>3. ASSUME NEW p \in Procs, LogOutcome(p)
      PROVE  /\ view'[d].bound = view[d].bound
             /\ view'[d].legacy <=> view[d].legacy
             /\ \A a \in view[d].outstanding :
                  a \in view'[d].outstanding \/ (job[p].d = d /\ job[p].att = a)
             /\ view[d].written => view'[d].written
  <2>1. job[p].d \in Deliveries /\ job[p].att \in Attempts
    BY <1>0, <1>3, JobFields DEF LogOutcome
  <2>2. \/ Log(job[p].d, Receipt(job[p].att))
        \/ Log(job[p].d, Failure(job[p].att, job[p].done))
    BY <1>3 DEF LogOutcome
  <2>3. CASE d = job[p].d
    BY <1>0, <2>1, <2>2, <2>3, LogEffect, ReceiptView, FailureView
  <2>4. CASE d # job[p].d
    BY <2>1, <2>2, <2>4, LogEffect
  <2>5. QED
    BY <2>3, <2>4
<1>4. ASSUME NEW p \in Procs, LogRemovalIntent(p)
      PROVE  view'[d].bound = view[d].bound /\ (view'[d].legacy <=> view[d].legacy)
             /\ view'[d].outstanding = view[d].outstanding
             /\ (view'[d].written <=> view[d].written)
  <2>1. job[p].todo \subseteq Deliveries
    BY <1>0, <1>4, JobFields DEF LogRemovalIntent
  <2>2. PICK c \in job[p].todo, e \in {RemovalIntent, RemovalFailure} : Log(c, e)
    BY <1>4 DEF LogRemovalIntent
  <2>3. e # RemovalReceipt
    BY DEF RemovalIntent, RemovalFailure, RemovalReceipt
  <2>4. CASE d = c
    BY <1>0, <2>2, <2>3, <2>4, LogEffect, RemovalView
  <2>5. CASE d # c
    BY <2>1, <2>2, <2>5, LogEffect
  <2>6. QED
    BY <2>4, <2>5
<1>5. ASSUME NEW p \in Procs, LogRemovalOutcome(p)
      PROVE  view'[d].bound = view[d].bound /\ (view'[d].legacy <=> view[d].legacy)
             /\ view'[d].outstanding = view[d].outstanding
             /\ (view[d].written => view'[d].written \/ (job[p].d = d /\ job[p].ok))
  <2>1. job[p].d \in Deliveries
    BY <1>0, <1>5, JobFields DEF LogRemovalOutcome
  <2>2. CASE d = job[p].d /\ job[p].ok
    BY <1>0, <1>5, <2>1, <2>2, LogEffect, RemovalView DEF LogRemovalOutcome
  <2>3. CASE d = job[p].d /\ ~job[p].ok
    <3>1. Log(d, RemovalFailure) /\ RemovalFailure # RemovalReceipt
      BY <1>5, <2>3 DEF LogRemovalOutcome, RemovalFailure, RemovalReceipt
    <3>2. QED
      BY <1>0, <2>1, <2>3, <3>1, LogEffect, RemovalView
  <2>4. CASE d # job[p].d
    BY <1>5, <2>1, <2>4, LogEffect DEF LogRemovalOutcome
  <2>5. QED
    BY <2>2, <2>3, <2>4
<1>6. CASE UNCHANGED view
  BY <1>6
<1>7. QED
  BY <1>1, <1>2, <1>3, <1>4, <1>5, <1>6 DEF Next, vars, Call, Step, Crash, LandStray,
     SealRecord, FailRecord, InvalidateDirectly, StartDispatch, StartInvalidate,
     StartCatchUp, OpenDelivery, CheckDelivered, LandChunk, WriteEnds, Recheck,
     InvalidateRecord, Retract, Erase, EraseFails

-----------------------------------------------------------------------------
(***************************************************************************)
(* Where writes under way come from, and where they go.                    *)
(***************************************************************************)

\* A Dispatcher with a write under way had it before the step, or logged its
\* intent in this step.
LEMMA LiveAfter ==
  ASSUME TypeOK, [Next]_vars, NEW p \in Procs, Live(p)'
  PROVE  \/ /\ Live(p)
            /\ ~LogOutcome(p)
            /\ job'[p].d = job[p].d
            /\ job'[p].att = job[p].att
            /\ job'[p].landed = job[p].landed \/ LandChunk(p)
            /\ job'[p].pc = "writing" => job[p].pc = "writing" /\ job'[p].pay = job[p].pay
         \/ \E pl \in Payloads, a \in Attempts \ view[job[p].d].outstanding :
              /\ AppendIntent(p, pl)
              /\ job[p].d \in Deliveries
              /\ view[job[p].d].bound \in {NoPayload, pl}
              /\ Log(job[p].d, Intent(a, pl))
              /\ job'[p] = Writing(job[p].d, a, pl, 0)
<1>0. ~Live(p)' <=> job'[p].pc \notin {"writing", "reporting"}
  BY DEF Live
<1>1. ASSUME Call(p) PROVE FALSE
  <2>1. \E d : \/ Goto(p, Opening(d))
              \/ Goto(p, Retracting(d))
              \/ Goto(p, Invalidating(d))
    BY <1>1 DEF Call, StartDispatch, StartInvalidate, StartCatchUp
  <2>2. PICK d : job'[p] \in {Opening(d), Retracting(d), Invalidating(d)}
    BY <2>1, GotoLands
  <2>3. job'[p].pc \in {"opening", "retracting", "invalidating"}
    BY <2>2 DEF Opening, Retracting, Invalidating
  <2>4. QED
    BY <1>0, <2>3
<1>2. ASSUME Crash(p) PROVE FALSE
  BY <1>0, <1>2, GotoLands DEF Crash, Idle
<1>3. ASSUME NEW pl \in Payloads, AppendIntent(p, pl)
      PROVE  \E a \in Attempts \ view[job[p].d].outstanding :
               /\ job[p].d \in Deliveries
               /\ view[job[p].d].bound \in {NoPayload, pl}
               /\ Log(job[p].d, Intent(a, pl))
               /\ job'[p] = Writing(job[p].d, a, pl, 0)
  <2>1. job'[p] # Idle
    BY <1>0 DEF Idle
  <2>2. QED
    BY <1>3, <2>1, AppendIntentCases
<1>4. CASE LandChunk(p) \/ WriteEnds(p)
  <2>1. job[p].pc = "writing" /\ Live(p) /\ ~LogOutcome(p)
    BY <1>4 DEF LandChunk, WriteEnds, LogOutcome, Live
  <2>2. CASE LandChunk(p)
    <3>1. job'[p] = Writing(job[p].d, job[p].att, job[p].pay, job[p].landed + 1)
      BY <2>2, GotoLands DEF LandChunk
    <3>2. QED
      BY <2>1, <2>2, <3>1 DEF Writing
  <2>3. CASE WriteEnds(p)
    <3>1. PICK ok, done : job'[p] = Reporting(job[p].d, job[p].att, job[p].landed, ok, done)
      BY <2>3, GotoLands DEF WriteEnds
    <3>2. QED
      BY <2>1, <3>1 DEF Reporting
  <2>4. QED
    BY <1>4, <2>2, <2>3
<1>5. ASSUME Step(p), ~LandChunk(p), ~WriteEnds(p), \A pl \in Payloads : ~AppendIntent(p, pl)
      PROVE  FALSE
  <2>1. ASSUME NEW rs, NEW ds PROVE NextRemoval(rs, ds).pc \notin {"writing", "reporting"}
    BY NextRemovalFields DEF Removing, Retracting, Idle
  <2>2. ~Retract(p)
    <3>1. SUFFICES ASSUME Retract(p) PROVE FALSE
      OBVIOUS
    <3>2. PICK rs, ds : Goto(p, NextRemoval(rs, ds)) \/ Goto(p, Idle)
      BY <3>1 DEF Retract
    <3>3. Idle.pc = "idle"
      BY DEF Idle
    <3>4. QED
      BY <1>0, <2>1, <3>2, <3>3, GotoLands
  <2>3. ~LogRemovalIntent(p)
    <3>1. SUFFICES ASSUME LogRemovalIntent(p) PROVE FALSE
      OBVIOUS
    <3>2. PICK d : \/ Goto(p, Erasing(job[p].recs, job[p].todo \ {d}, d))
                   \/ Goto(p, NextRemoval(job[p].recs, job[p].todo \ {d}))
      BY <3>1 DEF LogRemovalIntent
    <3>3. Erasing(job[p].recs, job[p].todo \ {d}, d).pc = "erasing"
      BY DEF Erasing
    <3>4. QED
      BY <1>0, <2>1, <3>2, <3>3, GotoLands
  <2>4. ~LogRemovalOutcome(p)
    BY <1>0, <2>1, GotoLands DEF LogRemovalOutcome
  <2>5. ~(Erase(p) \/ EraseFails(p) \/ InvalidateRecord(p) \/ Recheck(p) \/ LogOutcome(p))
    BY <1>0, GotoLands DEF Erase, EraseFails, InvalidateRecord, Recheck, LogOutcome, Erased,
       Retracting, Idle, Rechecking
  <2>6. ~(OpenDelivery(p) \/ CheckDelivered(p) \/ TransformFails(p))
    BY <1>0, GotoLands DEF OpenDelivery, CheckDelivered, TransformFails, Checking,
       Transforming, Idle
  <2>7. QED
    BY <1>5, <2>2, <2>3, <2>4, <2>5, <2>6 DEF Step
<1>6. CASE Call(p) \/ Step(p) \/ Crash(p)
  BY <1>1, <1>2, <1>3, <1>4, <1>5, <1>6
<1>7. CASE job'[p] = job[p] /\ ~(Call(p) \/ Step(p) \/ Crash(p))
  BY <1>0, <1>7 DEF Live, Step
<1>8. QED
  <2>1. CASE \E q \in Procs : q # p /\ (Call(q) \/ Step(q) \/ Crash(q))
    BY <2>1, <1>6, <1>7, JobFrame
  <2>2. CASE UNCHANGED job
    BY <2>2, <1>6, <1>7
  <2>3. QED
    BY <1>6, <2>1, <2>2 DEF Next, vars, SealRecord, FailRecord, InvalidateDirectly, LandStray

\* A write under way goes on, unless its Dispatcher logs its outcome or dies.
LEMMA LiveBefore ==
  ASSUME TypeOK, [Next]_vars, NEW p \in Procs, Live(p)
  PROVE  \/ Live(p)' /\ job'[p].d = job[p].d /\ job'[p].landed >= job[p].landed
         \/ LogOutcome(p)
         \/ Crash(p)
<1>0. job[p].landed \in 0 .. NChunks
  BY JobFields DEF Live, TypeOK
<1>1. ASSUME Call(p) PROVE FALSE
  <2>1. job[p] # Idle
    BY DEF Live, Idle
  <2>2. QED
    BY <1>1, <2>1 DEF Call, StartDispatch, StartInvalidate, StartCatchUp
<1>2. CASE Step(p) /\ ~LogOutcome(p)
  <2>0. ~(OpenDelivery(p) \/ CheckDelivered(p) \/ TransformFails(p) \/ Recheck(p)
          \/ InvalidateRecord(p) \/ \E pl \in Payloads : AppendIntent(p, pl))
    BY DEF Live, OpenDelivery, CheckDelivered, TransformFails, AppendIntent, Recheck,
       InvalidateRecord
  <2>a. ~(Retract(p) \/ LogRemovalIntent(p) \/ Erase(p) \/ EraseFails(p)
          \/ LogRemovalOutcome(p))
    BY DEF Live, Retract, LogRemovalIntent, Erase, EraseFails, LogRemovalOutcome
  <2>1. LandChunk(p) \/ WriteEnds(p)
    BY <1>2, <2>0, <2>a DEF Step
  <2>2. CASE LandChunk(p)
    <3>1. job'[p] = Writing(job[p].d, job[p].att, job[p].pay, job[p].landed + 1)
      BY <2>2, GotoLands DEF LandChunk
    <3>2. job'[p].pc = "writing" /\ job'[p].d = job[p].d /\ job'[p].landed = job[p].landed + 1
      BY <3>1 DEF Writing
    <3>3. QED
      BY <1>0, <3>2 DEF Live
  <2>3. CASE WriteEnds(p)
    <3>1. PICK ok, done : job'[p] = Reporting(job[p].d, job[p].att, job[p].landed, ok, done)
      BY <2>3, GotoLands DEF WriteEnds
    <3>2. job'[p].pc = "reporting" /\ job'[p].d = job[p].d /\ job'[p].landed = job[p].landed
      BY <3>1 DEF Reporting
    <3>3. QED
      BY <1>0, <3>2 DEF Live
  <2>4. QED
    BY <2>1, <2>2, <2>3
<1>3. CASE job'[p] = job[p]
  BY <1>0, <1>3 DEF Live
<1>4. CASE \E q \in Procs : q # p /\ (Call(q) \/ Step(q) \/ Crash(q))
  BY <1>3, <1>4, JobFrame
<1>5. QED
  BY <1>1, <1>2, <1>3, <1>4 DEF Next, vars, SealRecord, FailRecord, InvalidateDirectly, LandStray

\* A write that may still land after its Dispatcher's death was under way
\* when it died.
LEMMA StrayAfter ==
  ASSUME TypeOK, [Next]_vars, NEW s \in strays', s \notin strays
  PROVE  \E p \in Procs :
           /\ Crash(p)
           /\ job[p].pc = "writing"
           /\ s.d = job[p].d /\ s.att = job[p].att /\ s.pay = job[p].pay
<1>1. PICK p \in Procs : Crash(p)
  BY DEF Next, vars, SealRecord, FailRecord, InvalidateDirectly, LandStray, Call, StartDispatch,
     StartInvalidate, StartCatchUp, Step, OpenDelivery, CheckDelivered, TransformFails,
     AppendIntent, LandChunk, WriteEnds, LogOutcome, Recheck, InvalidateRecord, Retract,
     LogRemovalIntent, Erase, EraseFails, LogRemovalOutcome
<1>2. /\ job[p].pc = "writing"
      /\ s = [d |-> job[p].d, att |-> job[p].att, pay |-> job[p].pay, landed |-> job[p].landed]
  BY <1>1 DEF Crash
<1>3. QED
  BY <1>1, <1>2

\* What a target holds grows by a write under way or cut off, and shrinks by
\* a removal only.
LEMMA HoldsSteps ==
  ASSUME TypeOK, [Next]_vars, NEW d \in Deliveries
  PROVE  /\ \A c \in holds'[d] \ holds[d] :
              /\ UNCHANGED <<ledger, view>>
              /\ \/ \E p \in Procs : /\ LandChunk(p)
                                     /\ job[p].d = d
                                     /\ c[1] = job[p].pay
                 \/ \E s \in strays : /\ LandStray(s)
                                      /\ s.d = d
                                      /\ c[1] = s.pay
         /\ \/ holds[d] \subseteq holds'[d]
            \/ \E p \in Procs : (Erase(p) \/ EraseFails(p)) /\ job[p].d = d
<1>0. holds \in [Deliveries -> SUBSET Content] /\ job \in [Procs -> Jobs] /\ strays \subseteq Strays
  BY DEF TypeOK
<1>1. ASSUME NEW p \in Procs, LandChunk(p)
      PROVE  /\ UNCHANGED <<ledger, view>>
             /\ holds[d] \subseteq holds'[d]
             /\ \A c \in holds'[d] \ holds[d] : job[p].d = d /\ c[1] = job[p].pay
  <2>1. job[p].d \in Deliveries
    BY <1>0, <1>1, JobFields DEF LandChunk
  <2>2. QED
    BY <1>0, <1>1, <2>1 DEF LandChunk
<1>2. ASSUME NEW s \in strays, LandStray(s)
      PROVE  /\ UNCHANGED <<ledger, view>>
             /\ holds[d] \subseteq holds'[d]
             /\ \A c \in holds'[d] \ holds[d] : s.d = d /\ c[1] = s.pay
  <2>1. s.d \in Deliveries
    BY <1>0 DEF Strays
  <2>2. PICK n \in s.landed .. NChunks :
          holds' = [holds EXCEPT ![s.d] = @ \cup ({s.pay} \X ((s.landed + 1) .. n))]
    BY <1>2 DEF LandStray
  <2>3. CASE s.d = d
    <3>1. holds'[d] = holds[d] \cup ({s.pay} \X ((s.landed + 1) .. n))
      BY <1>0, <2>2, <2>3
    <3>2. QED
      BY <1>2, <2>3, <3>1 DEF LandStray
  <2>4. CASE s.d # d
    BY <1>0, <1>2, <2>1, <2>2, <2>4 DEF LandStray
  <2>5. QED
    BY <2>3, <2>4
<1>3. ASSUME NEW p \in Procs, Erase(p) \/ EraseFails(p)
      PROVE  holds'[d] \subseteq holds[d] /\ (job[p].d = d \/ holds'[d] = holds[d])
  <2>1. job[p].d \in Deliveries
    BY <1>0, <1>3, JobFields DEF Erase, EraseFails
  <2>2. \E rest \in SUBSET holds[job[p].d] : holds' = [holds EXCEPT ![job[p].d] = rest]
    BY <1>3 DEF Erase, EraseFails
  <2>3. QED
    BY <1>0, <2>1, <2>2
<1>4. CASE UNCHANGED holds
  BY <1>4
<1>5. CASE \E p \in Procs : LandChunk(p) \/ Erase(p) \/ EraseFails(p)
  BY <1>1, <1>3, <1>5
<1>6. CASE \E s \in strays : LandStray(s)
  BY <1>2, <1>6
<1>7. QED
  BY <1>4, <1>5, <1>6 DEF Next, vars, SealRecord, FailRecord, InvalidateDirectly, Call,
     StartDispatch, StartInvalidate, StartCatchUp, Step, OpenDelivery, CheckDelivered,
     TransformFails, AppendIntent, WriteEnds, LogOutcome, Recheck, InvalidateRecord, Retract,
     LogRemovalIntent, LogRemovalOutcome, Crash

-----------------------------------------------------------------------------
(***************************************************************************)
(* Each conjunct of the invariant is kept.                                 *)
(***************************************************************************)

\* A fresh attempt id is outstanding after its intent, and was not before.
LEMMA Begins ==
  ASSUME TypeOK, NEW p \in Procs, NEW pl \in Payloads,
         NEW a \in Attempts \ view[job[p].d].outstanding,
         job[p].d \in Deliveries, view[job[p].d].bound \in {NoPayload, pl},
         Log(job[p].d, Intent(a, pl)), job'[p] = Writing(job[p].d, a, pl, 0)
  PROVE  /\ job'[p].pc = "writing"
         /\ job'[p].d = job[p].d
         /\ job'[p].att = a
         /\ job'[p].pay = pl
         /\ job'[p].landed = 0
         /\ a \in view'[job[p].d].outstanding
         /\ view'[job[p].d].bound = pl
<1>1. view'[job[p].d] = After(view[job[p].d], Intent(a, pl)) /\ view[job[p].d] \in Views
  BY LogEffect DEF TypeOK
<1>2. a \in view'[job[p].d].outstanding
  BY <1>1, IntentView
<1>3. view'[job[p].d].bound = IF view[job[p].d].bound = NoPayload THEN pl ELSE view[job[p].d].bound
  BY <1>1, IntentView
<1>4. QED
  BY <1>2, <1>3 DEF Writing

\* append_intent takes an attempt that nobody has.
LEMMA AttemptsApartStep ==
  ASSUME TypeOK, AttemptsApart, [Next]_vars
  PROVE  AttemptsApart'
<1>0. TypeOK' /\ job \in [Procs -> Jobs] /\ strays \subseteq Strays
  BY NextType DEF TypeOK
<1>a. ASSUME NEW p \in Procs, Live(p)
      PROVE  job[p].d \in Deliveries /\ job[p].att \in view[job[p].d].outstanding
  BY <1>0, <1>a, JobFields DEF Live, AttemptsApart
<1>b. ASSUME NEW p \in Procs, NEW q \in Procs, p # q, Live(p), Live(q), job[p].d = job[q].d
      PROVE  job[p].att # job[q].att
  BY <1>b DEF AttemptsApart, OnIt
<1>c. ASSUME NEW p \in Procs, NEW s \in strays, Live(p), job[p].d = s.d
      PROVE  job[p].att # s.att
  BY <1>c DEF AttemptsApart, OnIt
<1>d. ASSUME NEW s \in strays
      PROVE  s.d \in Deliveries /\ s.att \in view[s.d].outstanding
  BY <1>0 DEF AttemptsApart, Strays
<1> DEFINE Goes(p) == /\ Live(p)
                      /\ ~LogOutcome(p)
                      /\ job'[p].d = job[p].d
                      /\ job'[p].att = job[p].att
           New(p)  == /\ \E pl \in Payloads : AppendIntent(p, pl)
                      /\ job[p].d \in Deliveries
                      /\ job'[p].d = job[p].d
                      /\ job'[p].att \notin view[job[p].d].outstanding
                      /\ job'[p].att \in view'[job[p].d].outstanding
<1>1. ASSUME NEW p \in Procs, Live(p)' PROVE Goes(p) \/ New(p)
  <2>1. CASE Live(p) /\ ~LogOutcome(p) /\ job'[p].d = job[p].d /\ job'[p].att = job[p].att
    BY <2>1
  <2>2. ASSUME NEW pl \in Payloads, NEW a \in Attempts \ view[job[p].d].outstanding,
               AppendIntent(p, pl), job[p].d \in Deliveries,
               view[job[p].d].bound \in {NoPayload, pl},
               Log(job[p].d, Intent(a, pl)), job'[p] = Writing(job[p].d, a, pl, 0)
        PROVE  New(p)
    BY <2>2, Begins
  <2>3. QED
    BY <1>1, <2>1, <2>2, LiveAfter
<1>2. ASSUME NEW p \in Procs, New(p), NEW q \in Procs, q # p
      PROVE  job'[q] = job[q] /\ strays' = strays
  BY <1>2, JobFrame DEF Step, AppendIntent
<1>3. ASSUME NEW p \in Procs, Live(p)'
      PROVE  job'[p].att \in view'[job'[p].d].outstanding
  <2>1. CASE Goes(p)
    <3>1. ~\E q \in Procs : LogOutcome(q) /\ job[q].d = job[p].d /\ job[q].att = job[p].att
      BY <2>1, <1>b DEF LogOutcome, Live
    <3>2. QED
      BY <2>1, <3>1, <1>a, ViewSteps
  <2>2. QED
    BY <1>1, <1>3, <2>1
<1>4. ASSUME NEW s \in strays'
      PROVE  s.att \in view'[s.d].outstanding
  <2>1. CASE s \in strays
    <3>1. ~\E q \in Procs : LogOutcome(q) /\ job[q].d = s.d /\ job[q].att = s.att
      BY <2>1, <1>c DEF LogOutcome, Live
    <3>2. QED
      BY <2>1, <3>1, <1>d, ViewSteps
  <2>2. CASE s \notin strays
    <3>1. PICK p \in Procs : Crash(p) /\ job[p].pc = "writing" /\ s.d = job[p].d /\ s.att = job[p].att
      BY <2>2, StrayAfter
    <3>2. s.att \in view[s.d].outstanding
      BY <3>1, <1>a DEF Live
    <3>3. QED
      BY <3>1, <3>2 DEF Crash
  <2>3. QED
    BY <2>1, <2>2
<1>5. ASSUME NEW p \in Procs, NEW q \in Procs, p # q, Live(p)', Live(q)', job'[q].d = job'[p].d
      PROVE  job'[p].att # job'[q].att
  <2>1. CASE Goes(p) /\ Goes(q)
    BY <1>5, <2>1, <1>b
  <2>2. ASSUME NEW u \in Procs, NEW v \in Procs, u # v, New(u), Live(v)', job'[v].d = job'[u].d
        PROVE  job'[u].att # job'[v].att
    <3>1. Live(v) /\ job'[v] = job[v]
      BY <2>2, <1>2 DEF Live
    <3>2. job[v].att \in view[job[u].d].outstanding
      BY <2>2, <3>1, <1>a
    <3>3. QED
      BY <2>2, <3>1, <3>2
  <2>3. QED
    BY <1>1, <1>5, <2>1, <2>2
<1>6. ASSUME NEW p \in Procs, NEW s \in strays', Live(p)', job'[p].d = s.d
      PROVE  job'[p].att # s.att
  <2>1. CASE s \in strays /\ Goes(p)
    BY <1>6, <2>1, <1>c
  <2>2. CASE s \in strays /\ New(p)
    BY <1>6, <2>2, <1>d
  <2>3. CASE s \notin strays
    <3>1. PICK q \in Procs : Crash(q) /\ job[q].pc = "writing" /\ s.d = job[q].d /\ s.att = job[q].att
      BY <2>3, StrayAfter
    <3>2. q # p
      <4>1. job'[q].pc = "idle"
        BY <3>1, GotoLands DEF Crash, Idle
      <4>2. QED
        BY <4>1, <1>6 DEF Live
    <3>3. job'[p] = job[p]
      BY <3>1, <3>2, JobFrame
    <3>4. Live(p) /\ Live(q) /\ job[p].d = job[q].d
      BY <1>6, <3>1, <3>3 DEF Live
    <3>5. QED
      BY <3>1, <3>2, <3>3, <3>4, <1>b
  <2>4. QED
    BY <1>1, <1>6, <2>1, <2>2, <2>3
<1>7. QED
  <2>1. \A p \in Procs : Live(p)' => job'[p].att \in view'[job'[p].d].outstanding
    BY <1>3
  <2>2. \A p, q \in Procs : p # q /\ Live(p)' /\ Live(q)' /\ job'[q].d = job'[p].d
                              => job'[p].att # job'[q].att
    BY <1>5
  <2>3. \A p \in Procs, s \in strays' : Live(p)' /\ job'[p].d = s.d => job'[p].att # s.att
    BY <1>6
  <2>4. QED
    BY <1>4, <2>1, <2>2, <2>3 DEF AttemptsApart, OnIt


\* A write under way carries the payload that append_intent compared with the bound one.
LEMMA WritersBoundStep ==
  ASSUME TypeOK, WritersBound, [Next]_vars
  PROVE  WritersBound'
<1>0. job \in [Procs -> Jobs] /\ strays \subseteq Strays
  BY DEF TypeOK
<1>1. ASSUME NEW p \in Procs, job[p].pc = "writing"
      PROVE  /\ job[p].d \in Deliveries
             /\ job[p].pay = view[job[p].d].bound
             /\ job[p].pay # NoPayload
  BY <1>0, <1>1, JobFields, DeliveryLogAssumption DEF WritersBound
<1>2. ASSUME NEW p \in Procs, job'[p].pc = "writing"
      PROVE  job'[p].pay = view'[job'[p].d].bound
  <2>1. Live(p)'
    BY <1>2 DEF Live
  <2>2. CASE job[p].pc = "writing" /\ job'[p].d = job[p].d /\ job'[p].pay = job[p].pay
    BY <2>2, <1>1, ViewSteps
  <2>3. ASSUME NEW pl \in Payloads, NEW a \in Attempts \ view[job[p].d].outstanding,
               job[p].d \in Deliveries, view[job[p].d].bound \in {NoPayload, pl},
               Log(job[p].d, Intent(a, pl)), job'[p] = Writing(job[p].d, a, pl, 0)
        PROVE  job'[p].pay = view'[job'[p].d].bound
    BY <2>3, Begins
  <2>4. QED
    BY <1>2, <2>1, <2>2, <2>3, LiveAfter
<1>3. ASSUME NEW s \in strays'
      PROVE  s.pay = view'[s.d].bound
  <2>1. CASE s \in strays
    <3>1. s.d \in Deliveries /\ s.pay = view[s.d].bound /\ s.pay # NoPayload
      BY <2>1, <1>0, DeliveryLogAssumption DEF WritersBound, Strays
    <3>2. QED
      BY <3>1, ViewSteps
  <2>2. CASE s \notin strays
    <3>1. PICK p \in Procs : Crash(p) /\ job[p].pc = "writing" /\ s.d = job[p].d /\ s.pay = job[p].pay
      BY <2>2, StrayAfter
    <3>2. QED
      BY <3>1, <1>1 DEF Crash
  <2>3. QED
    BY <2>1, <2>2
<1>4. QED
  BY <1>2, <1>3 DEF WritersBound

\* Only chunks of the bound payload land.
LEMMA BoundPayloadOnlyStep ==
  ASSUME TypeOK, WritersBound, BoundPayloadOnly, [Next]_vars
  PROVE  BoundPayloadOnly'
<1>1. SUFFICES ASSUME NEW d \in Deliveries, NEW c \in holds'[d]
               PROVE  c[1] = view'[d].bound
  BY DEF BoundPayloadOnly
<1>2. CASE c \in holds[d]
  <2>1. c[1] = view[d].bound
    BY <1>2 DEF BoundPayloadOnly
  <2>2. c[1] \in Payloads
    BY <1>2 DEF TypeOK, Content
  <2>3. QED
    BY <2>1, <2>2, ViewSteps, DeliveryLogAssumption
<1>3. CASE c \notin holds[d]
  <2>1. view' = view /\ c[1] = view[d].bound
    BY <1>3, HoldsSteps DEF WritersBound, LandChunk
  <2>2. QED
    BY <2>1
<1>4. QED
  BY <1>2, <1>3

\* Data is taken from the target of an invalidated record only.
LEMMA RemovalStep ==
  ASSUME TypeOK, PassesInvalidated, [Next]_vars, NEW d \in Deliveries,
         ~ (holds[d] \subseteq holds'[d])
  PROVE  ledger[RecordOf(d)] = "invalidated"
<1>1. PICK p \in Procs : (Erase(p) \/ EraseFails(p)) /\ job[p].d = d
  BY HoldsSteps
<1>2. QED
  BY <1>1 DEF Erase, EraseFails, PassesInvalidated

\* A receipt is new only when a writer that wrote everything logs it.
LEMMA StatusSteps ==
  ASSUME TypeOK, [Next]_vars, NEW d \in Deliveries, view'[d].status = "delivered"
  PROVE  \/ view[d].status = "delivered"
         \/ \E p \in Procs : LogOutcome(p) /\ job[p].d = d /\ job[p].ok
<1>0. view[d] \in Views /\ job \in [Procs -> Jobs]
  BY DEF TypeOK
<1>1. ASSUME NEW p \in Procs, TransformFails(p) PROVE view[d].status = "delivered"
  <2>1. job[p].d \in Deliveries
    BY <1>0, <1>1, JobFields DEF TransformFails
  <2>2. PICK a \in Attempts : Log(job[p].d, Failure(a, 0))
    BY <1>1 DEF TransformFails, FreshAttempts
  <2>3. QED
    BY <1>0, <2>1, <2>2, LogEffect, FailureView
<1>2. ASSUME NEW p \in Procs, NEW pl \in Payloads, AppendIntent(p, pl)
      PROVE view[d].status = "delivered"
  <2>1. CASE UNCHANGED view
    BY <2>1
  <2>2. ASSUME NEW a \in Attempts, Log(job[p].d, Intent(a, pl)), job[p].d \in Deliveries
        PROVE  view[d].status = "delivered"
    BY <1>0, <2>2, LogEffect, IntentView
  <2>3. QED
    BY <1>2, <2>1, <2>2, AppendIntentCases
<1>3. ASSUME NEW p \in Procs, LogOutcome(p), view[d].status # "delivered"
      PROVE  job[p].d = d /\ job[p].ok
  <2>1. job[p].d \in Deliveries /\ job[p].att \in Attempts
    BY <1>0, <1>3, JobFields DEF LogOutcome
  <2>2. CASE job[p].ok
    BY <1>3, <2>1, <2>2, LogEffect DEF LogOutcome
  <2>3. CASE ~job[p].ok
    <3>1. Log(job[p].d, Failure(job[p].att, job[p].done))
      BY <1>3, <2>3 DEF LogOutcome
    <3>2. QED
      BY <1>0, <1>3, <2>1, <3>1, LogEffect, FailureView
  <2>4. QED
    BY <2>2, <2>3
<1>4. ASSUME NEW p \in Procs, LogRemovalIntent(p) \/ LogRemovalOutcome(p)
      PROVE  view[d].status = "delivered"
  <2>1. job[p].pc \in {"removing", "erased"}
    BY <1>4 DEF LogRemovalIntent, LogRemovalOutcome
  <2>2. PICK c \in Deliveries, e \in {RemovalIntent, RemovalReceipt, RemovalFailure} : Log(c, e)
    <3>1. CASE LogRemovalIntent(p)
      <4>1. job[p].todo \subseteq Deliveries
        BY <1>0, <2>1, JobFields
      <4>2. \E c \in job[p].todo : Log(c, RemovalIntent) \/ Log(c, RemovalFailure)
        BY <3>1 DEF LogRemovalIntent
      <4>3. QED
        BY <4>1, <4>2
    <3>2. CASE LogRemovalOutcome(p)
      <4>1. job[p].d \in Deliveries
        BY <1>0, <3>2, JobFields DEF LogRemovalOutcome
      <4>2. Log(job[p].d, RemovalReceipt) \/ Log(job[p].d, RemovalFailure)
        BY <3>2 DEF LogRemovalOutcome
      <4>3. QED
        BY <4>1, <4>2
    <3>3. QED
      BY <1>4, <3>1, <3>2
  <2>3. CASE c = d
    <3>1. view'[d].status \in {"removing", "removed", "removal_failed"}
      BY <1>0, <2>2, <2>3, LogEffect, RemovalView
    <3>2. QED
      BY <3>1
  <2>4. CASE c # d
    BY <2>2, <2>4, LogEffect
  <2>5. QED
    BY <2>3, <2>4
<1>5. CASE UNCHANGED view
  BY <1>5
<1>6. QED
  BY <1>1, <1>2, <1>3, <1>4, <1>5 DEF Next, vars, Call, Step, Crash, LandStray,
     SealRecord, FailRecord, InvalidateDirectly, StartDispatch, StartInvalidate,
     StartCatchUp, OpenDelivery, CheckDelivered, LandChunk, WriteEnds, Recheck,
     InvalidateRecord, Retract, Erase, EraseFails


\* A Dispatcher inside a dispatch was inside it, or has just read the record
\* as sealed.
LEMMA DispatchAfter ==
  ASSUME TypeOK, [Next]_vars, NEW p \in Procs,
         job'[p].pc \in {"opening", "checking", "transforming", "writing", "reporting"}
  PROVE  /\ job'[p].d \in Deliveries
         /\ \/ /\ job[p].pc \in {"opening", "checking", "transforming", "writing", "reporting"}
               /\ job'[p].d = job[p].d
            \/ ledger[RecordOf(job'[p].d)] = "sealed"
<1>0. job'[p].d \in Deliveries
  <2>1. job'[p] \in Jobs
    BY NextType DEF TypeOK
  <2>2. QED
    BY <2>1, JobFields
<1>1. CASE job'[p].pc \in {"writing", "reporting"}
  <2>1. Live(p)'
    BY <1>1 DEF Live
  <2>2. CASE Live(p) /\ job'[p].d = job[p].d
    BY <1>0, <2>2 DEF Live
  <2>3. ASSUME NEW pl, NEW a, AppendIntent(p, pl), job'[p] = Writing(job[p].d, a, pl, 0)
        PROVE  job[p].pc = "transforming" /\ job'[p].d = job[p].d
    BY <2>3 DEF AppendIntent, Writing
  <2>4. QED
    BY <1>0, <2>1, <2>2, <2>3, LiveAfter
<1>2. CASE job'[p] = job[p]
  BY <1>0, <1>2
<1>3. ASSUME job'[p].pc \in {"opening", "checking", "transforming"}, Call(p) \/ Step(p) \/ Crash(p)
      PROVE  \/ /\ job[p].pc \in {"opening", "checking"}
                /\ job'[p].d = job[p].d
             \/ ledger[RecordOf(job'[p].d)] = "sealed"
  <2>1. \A x : Goto(p, x) => x.pc \in {"opening", "checking", "transforming"}
    BY <1>3, GotoLands
  <2>2. ASSUME NEW d \in Deliveries, StartDispatch(p, d)
        PROVE  ledger[RecordOf(job'[p].d)] = "sealed"
    BY <2>2, GotoLands DEF StartDispatch, Opening
  <2>3. CASE OpenDelivery(p)
    BY <2>3, GotoLands DEF OpenDelivery, Checking
  <2>4. CASE CheckDelivered(p)
    <3>1. job'[p] \in {Idle, Transforming(job[p].d)}
      BY <2>4, GotoLands DEF CheckDelivered
    <3>2. job'[p].d = job[p].d
      BY <1>3, <3>1 DEF Idle, Transforming
    <3>3. QED
      BY <2>4, <3>2 DEF CheckDelivered
  <2>5. ASSUME NEW d \in Records, StartInvalidate(p, d) PROVE FALSE
    BY <2>1, <2>5 DEF StartInvalidate, Retracting, Invalidating
  <2>6. ~(StartCatchUp(p) \/ TransformFails(p) \/ LandChunk(p) \/ LogOutcome(p) \/ Recheck(p)
          \/ InvalidateRecord(p) \/ Erase(p) \/ EraseFails(p) \/ Crash(p))
    BY <2>1 DEF StartCatchUp, TransformFails, LandChunk, LogOutcome, Recheck, InvalidateRecord,
       Erase, EraseFails, Crash, Retracting, Idle, Writing, Rechecking, Erased
  <2>7. ~WriteEnds(p) /\ ~\E pl \in Payloads : AppendIntent(p, pl)
    <3>1. \A d, a, n, ok, done : Reporting(d, a, n, ok, done).pc = "reporting"
      BY DEF Reporting
    <3>2. \A d, a, pl, n : Writing(d, a, pl, n).pc = "writing"
      BY DEF Writing
    <3>3. Idle.pc = "idle"
      BY DEF Idle
    <3>4. QED
      BY <2>1, <3>1, <3>2, <3>3 DEF WriteEnds, AppendIntent
  <2>8. ~(Retract(p) \/ LogRemovalIntent(p) \/ LogRemovalOutcome(p))
    <3>1. \A rs, ds : NextRemoval(rs, ds).pc \in {"removing", "retracting", "idle"}
      BY NextRemovalFields DEF Removing, Retracting, Idle
    <3>2. \A rs, ds, d : Erasing(rs, ds, d).pc = "erasing"
      BY DEF Erasing
    <3>3. Idle.pc = "idle"
      BY DEF Idle
    <3>4. QED
      BY <2>1, <3>1, <3>2, <3>3 DEF Retract, LogRemovalIntent, LogRemovalOutcome
  <2>9. QED
    BY <1>3, <2>2, <2>3, <2>4, <2>5, <2>6, <2>7, <2>8 DEF Call, Step
<1>4. CASE \E q \in Procs : Call(q) \/ Step(q) \/ Crash(q)
  BY <1>0, <1>1, <1>2, <1>3, <1>4, JobFrame
<1>5. CASE UNCHANGED job
  BY <1>2, <1>5
<1>6. QED
  BY <1>4, <1>5 DEF Next, vars, SealRecord, FailRecord, InvalidateDirectly, LandStray

\* The history only grows, by the record being sealed.
LEMMA HistorySteps ==
  ASSUME TypeOK, [Next]_vars
  PROVE  \/ UNCHANGED everSealed
         \/ \E r \in Records : SealRecord(r)
<1>1. CASE \E r \in Records : SealRecord(r) \/ FailRecord(r) \/ InvalidateDirectly(r)
  BY <1>1 DEF FailRecord, InvalidateDirectly
<1>2. CASE \E p \in Procs : Call(p) \/ Crash(p)
  BY <1>2 DEF Call, Crash, StartDispatch, StartInvalidate, StartCatchUp
<1>3. CASE \E p \in Procs : Step(p)
  BY <1>3 DEF Step, OpenDelivery, CheckDelivered, TransformFails, AppendIntent, LandChunk,
     WriteEnds, LogOutcome, Recheck, InvalidateRecord, Retract, LogRemovalIntent, Erase,
     EraseFails, LogRemovalOutcome
<1>4. CASE (\E s \in strays : LandStray(s)) \/ UNCHANGED vars
  BY <1>4 DEF LandStray, vars
<1>5. QED
  BY <1>1, <1>2, <1>3, <1>4 DEF Next

\* The history stays right: only SealRecord seals, and it says so.
LEMMA HistoryRightStep ==
  ASSUME TypeOK, HistoryRight, [Next]_vars
  PROVE  HistoryRight' /\ everSealed \subseteq everSealed'
<1>1. CASE UNCHANGED everSealed
  <2>1. ASSUME NEW r \in Records, ledger'[r] = "sealed", ledger[r] = "pending"
        PROVE  FALSE
    <3>1. ~\E q \in Records : SealRecord(q)
      <4>1. SUFFICES ASSUME NEW q \in Records, SealRecord(q) PROVE FALSE
        OBVIOUS
      <4>2. q \in everSealed /\ ledger[q] = "pending"
        BY <1>1, <4>1 DEF SealRecord
      <4>3. QED
        BY <4>2 DEF HistoryRight
    <3>2. QED
      BY <2>1, <3>1, UnsealedSteps
  <2>2. QED
    BY <1>1, <2>1, LedgerSteps DEF HistoryRight
<1>2. ASSUME NEW q \in Records, SealRecord(q)
      PROVE  HistoryRight' /\ everSealed \subseteq everSealed'
  BY <1>2 DEF SealRecord, HistoryRight, TypeOK
<1>3. QED
  BY <1>1, <1>2, HistorySteps

\* What dispatch() saw sealed is in the history.
LEMMA StartedSealedStep ==
  ASSUME TypeOK, HistoryRight, StartedSealed, [Next]_vars
  PROVE  StartedSealed'
<1>0. \A d \in Deliveries : RecordOf(d) \in Records
  BY DEF Deliveries, RecordOf
<1>1. \A d \in Deliveries : RecordOf(d) \in everSealed => RecordOf(d) \in everSealed'
  BY HistoryRightStep
<1>2. ASSUME NEW p \in Procs,
             job'[p].pc \in {"opening", "checking", "transforming", "writing", "reporting"}
      PROVE  RecordOf(job'[p].d) \in everSealed'
  BY <1>0, <1>1, <1>2, DispatchAfter DEF StartedSealed, HistoryRight
<1>3. ASSUME NEW s \in strays'
      PROVE  RecordOf(s.d) \in everSealed'
  <2>1. s.d \in Deliveries
    BY NextType DEF TypeOK, Strays
  <2>2. CASE s \in strays
    BY <1>1, <2>1, <2>2 DEF StartedSealed
  <2>3. CASE s \notin strays
    BY <1>1, <2>1, <2>3, StrayAfter DEF StartedSealed
  <2>4. QED
    BY <2>2, <2>3
<1>4. ASSUME NEW d \in Deliveries, view'[d].status = "delivered"
      PROVE  RecordOf(d) \in everSealed'
  <2>1. \/ view[d].status = "delivered"
        \/ \E p \in Procs : job[p].pc = "reporting" /\ job[p].d = d
    BY <1>4, StatusSteps DEF LogOutcome
  <2>2. QED
    BY <1>1, <2>1 DEF StartedSealed
<1>5. QED
  BY <1>2, <1>3, <1>4 DEF StartedSealed

\* A delivery is opened by a dispatch under way only.
LEMMA OpenedSteps ==
  ASSUME TypeOK, [Next]_vars, NEW d \in opened', d \notin opened
  PROVE  \E p \in Procs : job[p].pc = "opening" /\ job[p].d = d
<1>1. CASE \E p \in Procs : OpenDelivery(p)
  BY <1>1 DEF OpenDelivery
<1>2. CASE UNCHANGED opened
  BY <1>2
<1>3. QED
  BY <1>1, <1>2 DEF Next, vars, Call, Step, Crash, LandStray, StartDispatch,
     StartInvalidate, StartCatchUp, SealRecord, FailRecord, InvalidateDirectly, CheckDelivered,
     TransformFails, AppendIntent, LandChunk, WriteEnds, LogOutcome, Recheck, InvalidateRecord,
     Retract, LogRemovalIntent, Erase, EraseFails, LogRemovalOutcome

\* Only a dispatch of a record that was sealed opens a delivery or writes.
LEMMA NothingUnsealedHeldStep ==
  ASSUME TypeOK, HistoryRight, StartedSealed, NothingUnsealedHeld, [Next]_vars
  PROVE  NothingUnsealedHeld'
<1>1. everSealed \subseteq everSealed'
  BY HistoryRightStep
<1>2. ASSUME NEW d \in opened'
      PROVE  RecordOf(d) \in everSealed'
  <2>1. CASE d \in opened
    BY <1>1, <2>1 DEF NothingUnsealedHeld
  <2>2. CASE d \notin opened
    BY <1>1, <2>2, OpenedSteps DEF StartedSealed
  <2>3. QED
    BY <2>1, <2>2
<1>3. ASSUME NEW d \in Deliveries, holds'[d] # {}
      PROVE  RecordOf(d) \in everSealed'
  <2>1. CASE holds[d] # {}
    BY <1>1, <2>1 DEF NothingUnsealedHeld
  <2>2. CASE holds[d] = {}
    <3>1. PICK c : c \in holds'[d] \ holds[d]
      BY <1>3, <2>2
    <3>2. QED
      BY <1>1, <3>1, HoldsSteps DEF StartedSealed, LandChunk
  <2>3. QED
    BY <2>1, <2>2
<1>4. QED
  BY <1>2, <1>3 DEF NothingUnsealedHeld

\* What a writer is about to log agrees with what it landed.
LEMMA ReportsHonestStep ==
  ASSUME TypeOK, ReportsHonest, [Next]_vars
  PROVE  ReportsHonest'
<1>1. SUFFICES ASSUME NEW p \in Procs, job'[p].pc = "reporting"
               PROVE  /\ job'[p].landed > 0 => job'[p].done # 0
                      /\ job'[p].ok => job'[p].landed = NChunks
  BY DEF ReportsHonest
<1>2. CASE job'[p] = job[p]
  BY <1>1, <1>2 DEF ReportsHonest
<1>3. ASSUME Call(p) \/ Step(p) \/ Crash(p), ~WriteEnds(p)
      PROVE  FALSE
  <2>1. Live(p)'
    BY <1>1 DEF Live
  <2>2. ASSUME NEW pl, NEW a, job'[p] = Writing(job[p].d, a, pl, 0) PROVE FALSE
    BY <1>1, <2>2 DEF Writing
  <2>3. Live(p) /\ ~LogOutcome(p)
    BY <2>1, <2>2, LiveAfter
  <2>4. ~Call(p) /\ ~Crash(p)
    <3>1. ~Crash(p)
      BY <1>1, GotoLands DEF Crash, Idle
    <3>2. job[p] # Idle
      BY <2>3 DEF Live, Idle
    <3>3. QED
      BY <3>1, <3>2 DEF Call, StartDispatch, StartInvalidate, StartCatchUp
  <2>5. ~LandChunk(p)
    BY <1>1, GotoLands DEF LandChunk, Writing
  <2>6. ~(OpenDelivery(p) \/ CheckDelivered(p) \/ TransformFails(p) \/ Recheck(p)
          \/ InvalidateRecord(p) \/ \E pl \in Payloads : AppendIntent(p, pl))
    BY <2>3 DEF Live, OpenDelivery, CheckDelivered, TransformFails, AppendIntent, Recheck,
       InvalidateRecord
  <2>7. ~(Retract(p) \/ LogRemovalIntent(p) \/ Erase(p) \/ EraseFails(p)
          \/ LogRemovalOutcome(p))
    BY <2>3 DEF Live, Retract, LogRemovalIntent, Erase, EraseFails, LogRemovalOutcome
  <2>8. QED
    BY <1>3, <2>3, <2>4, <2>5, <2>6, <2>7 DEF Step
<1>4. CASE WriteEnds(p)
  <2>1. job[p].pc = "writing" /\ job[p].landed \in 0 .. NChunks
    BY <1>4, JobFields DEF WriteEnds, TypeOK
  <2>2. CASE job[p].landed = NChunks
              /\ job'[p] = Reporting(job[p].d, job[p].att, job[p].landed, TRUE, NChunks)
    BY <2>1, <2>2, DispatchAssumption DEF Reporting
  <2>3. ASSUME NEW done \in {job[p].landed, Unknown},
               job'[p] = Reporting(job[p].d, job[p].att, job[p].landed, FALSE, done)
        PROVE  /\ job'[p].landed > 0 => job'[p].done # 0
               /\ job'[p].ok => job'[p].landed = NChunks
    <3>1. job'[p].landed = job[p].landed /\ job'[p].done = done /\ job'[p].ok = FALSE
      BY <2>3 DEF Reporting
    <3>2. job[p].landed > 0 => done # 0
      BY <2>1, DeliveryLogAssumption
    <3>3. QED
      BY <3>1, <3>2
  <2>4. QED
    BY <1>4, <2>2, <2>3, GotoLands DEF WriteEnds
<1>5. CASE \E q \in Procs : Call(q) \/ Step(q) \/ Crash(q)
  BY <1>2, <1>3, <1>4, <1>5, JobFrame
<1>6. CASE UNCHANGED job
  BY <1>2, <1>6
<1>7. QED
  BY <1>5, <1>6 DEF Next, vars, SealRecord, FailRecord, InvalidateDirectly, LandStray


\* A sealed record's deliveries keep what they hold.
LEMMA SealedKeeps ==
  ASSUME TypeOK, StartedSealed, PassesInvalidated, [Next]_vars, NEW d \in Deliveries,
         ledger'[RecordOf(d)] = "sealed"
  PROVE  holds[d] \subseteq holds'[d] /\ ledger[RecordOf(d)] # "invalidated"
<1>1. RecordOf(d) \in Records
  BY DEF Deliveries, RecordOf
<1>2. ledger[RecordOf(d)] # "invalidated"
  BY <1>1, LedgerSteps
<1>3. QED
  BY <1>2, RemovalStep

\* Only a removal pass takes away what a writer landed, and none runs while the record is sealed.
LEMMA LandedKeptStep ==
  ASSUME TypeOK, HistoryRight, StartedSealed, PassesInvalidated, WritersBound, LandedKept,
         [Next]_vars
  PROVE  LandedKept'
<1>0. SUFFICES ASSUME NEW p \in Procs, Live(p)', ledger'[RecordOf(job'[p].d)] = "sealed"
               PROVE  {view'[job'[p].d].bound} \X (1 .. job'[p].landed) \subseteq holds'[job'[p].d]
  BY DEF LandedKept
<1>1. CASE job'[p].landed = 0
  <2>1. 1 .. job'[p].landed = {}
    BY <1>1
  <2>2. QED
    BY <2>1
<1>2. CASE /\ Live(p)
           /\ job'[p].d = job[p].d
           /\ job'[p].landed = job[p].landed \/ LandChunk(p)
  <2>1. job[p].d \in Deliveries /\ job[p].landed \in 0 .. NChunks
    BY <1>2, JobFields DEF Live, TypeOK
  <2>2. holds[job[p].d] \subseteq holds'[job[p].d]
    BY <1>0, <1>2, <2>1, SealedKeeps
  <2>3. ledger[RecordOf(job[p].d)] = "sealed"
    <3>1. ledger[RecordOf(job[p].d)] # "invalidated"
      BY <1>0, <1>2, <2>1, SealedKeeps
    <3>2. RecordOf(job[p].d) \in Records
      BY <2>1 DEF Deliveries, RecordOf
    <3>3. QED
      BY <1>2, <3>1, <3>2 DEF HistoryRight, StartedSealed, Live
  <2>4. {view[job[p].d].bound} \X (1 .. job[p].landed) \subseteq holds[job[p].d]
    BY <1>2, <2>3 DEF LandedKept
  <2>5. CASE LandChunk(p)
    <3>1. /\ job'[p] = Writing(job[p].d, job[p].att, job[p].pay, job[p].landed + 1)
          /\ view' = view
          /\ job[p].pc = "writing"
      BY <2>5, GotoLands DEF LandChunk
    <3>2. job'[p].d = job[p].d /\ job'[p].landed = job[p].landed + 1
      BY <3>1 DEF Writing
    <3>3. holds'[job[p].d] = holds[job[p].d] \cup {<<job[p].pay, job[p].landed + 1>>}
      BY <2>1, <2>5 DEF LandChunk, TypeOK
    <3>4. job[p].pay = view[job[p].d].bound
      BY <3>1 DEF WritersBound
    <3>5. 1 .. (job[p].landed + 1) = (1 .. job[p].landed) \cup {job[p].landed + 1}
      BY <2>1
    <3>6. {view[job[p].d].bound} \X (1 .. (job[p].landed + 1)) \subseteq holds'[job[p].d]
      BY <2>4, <3>3, <3>4, <3>5
    <3>7. QED
      BY <3>1, <3>2, <3>6
  <2>6. CASE job'[p].landed = job[p].landed
    <3>1. CASE job[p].landed = 0
      BY <1>1, <2>6, <3>1
    <3>2. CASE job[p].landed # 0
      <4>1. <<view[job[p].d].bound, 1>> \in holds[job[p].d]
        BY <2>1, <2>4, <3>2
      <4>2. view[job[p].d].bound \in Payloads
        BY <2>1, <4>1 DEF TypeOK, Content
      <4>3. view'[job[p].d].bound = view[job[p].d].bound
        BY <2>1, <4>2, ViewSteps, DeliveryLogAssumption
      <4>4. QED
        BY <1>2, <2>2, <2>4, <2>6, <4>3
    <3>3. QED
      BY <3>1, <3>2
  <2>7. QED
    BY <1>2, <2>5, <2>6
<1>3. ASSUME NEW pl, NEW a, job'[p] = Writing(job[p].d, a, pl, 0)
      PROVE  job'[p].landed = 0
  BY <1>3 DEF Writing
<1>4. QED
  BY <1>0, <1>1, <1>2, <1>3, LiveAfter

\* A receipt is logged for a whole payload, which stays while the record is sealed.
LEMMA DeliveredCompleteStep ==
  ASSUME TypeOK, HistoryRight, StartedSealed, PassesInvalidated, WritersBound, BoundPayloadOnly,
         ReportsHonest, LandedKept, DeliveredComplete, [Next]_vars
  PROVE  DeliveredComplete'
<1>1. SUFFICES ASSUME NEW d \in Deliveries, view'[d].status = "delivered",
                      ledger'[RecordOf(d)] = "sealed"
               PROVE  holds'[d] = {view'[d].bound} \X Chunks
  BY DEF DeliveredComplete
<1>2. holds[d] \subseteq holds'[d] /\ ledger[RecordOf(d)] # "invalidated"
  BY <1>1, SealedKeeps
<1>3. holds'[d] \subseteq {view'[d].bound} \X Chunks
  <2>1. BoundPayloadOnly' /\ TypeOK'
    BY BoundPayloadOnlyStep, NextType
  <2>2. \A c \in holds'[d] : c[1] = view'[d].bound /\ c \in Payloads \X Chunks
    BY <2>1 DEF BoundPayloadOnly, TypeOK, Content
  <2>3. QED
    BY <2>2
<1>4. {view[d].bound} \X Chunks \subseteq holds[d]
  <2>0. RecordOf(d) \in Records
    BY DEF Deliveries, RecordOf
  <2>1. CASE view[d].status = "delivered"
    <3>1. ledger[RecordOf(d)] = "sealed"
      BY <1>2, <2>0, <2>1 DEF HistoryRight, StartedSealed
    <3>2. QED
      BY <2>1, <3>1 DEF DeliveredComplete
  <2>2. CASE view[d].status # "delivered"
    <3>1. PICK p \in Procs : LogOutcome(p) /\ job[p].d = d /\ job[p].ok
      BY <1>1, <2>2, StatusSteps
    <3>2. Live(p) /\ job[p].landed = NChunks
      BY <3>1 DEF LogOutcome, Live, ReportsHonest
    <3>3. ledger[RecordOf(d)] = "sealed"
      BY <1>2, <2>0, <3>1, <3>2 DEF HistoryRight, StartedSealed, Live
    <3>4. QED
      BY <3>1, <3>2, <3>3 DEF LandedKept, Chunks
  <2>3. QED
    BY <2>1, <2>2
<1>5. view'[d].bound = view[d].bound
  <2>1. 1 \in Chunks
    BY DispatchAssumption DEF Chunks
  <2>2. <<view[d].bound, 1>> \in holds[d]
    BY <1>4, <2>1
  <2>3. view[d].bound \in Payloads
    BY <2>2 DEF TypeOK, Content
  <2>4. QED
    BY <2>3, ViewSteps, DeliveryLogAssumption
<1>6. QED
  BY <1>2, <1>3, <1>4, <1>5

\* Data that lands in an empty target is unaccounted for.
LEMMA LandingUnaccounted ==
  ASSUME TypeOK, AttemptsApart, [Next]_vars, NEW d \in Deliveries, holds[d] = {}, holds'[d] # {}
  PROVE  Unaccounted(d)'
<1>1. PICK c : c \in holds'[d] \ holds[d]
  OBVIOUS
<1>2. ASSUME NEW p \in Procs, LandChunk(p), job[p].d = d
      PROVE  Unaccounted(d)'
  <2>1. job[p].landed \in 0 .. NChunks
    BY <1>2, JobFields DEF LandChunk, TypeOK
  <2>2. job'[p] = Writing(d, job[p].att, job[p].pay, job[p].landed + 1)
    BY <1>2, GotoLands DEF LandChunk
  <2>3. job'[p].pc = "writing" /\ job'[p].d = d /\ job'[p].landed > 0
    BY <2>1, <2>2 DEF Writing
  <2>4. QED
    BY <2>3 DEF Unaccounted, OnIt, Live
<1>3. ASSUME NEW s \in strays, LandStray(s), s.d = d
      PROVE  Unaccounted(d)'
  <2>1. s.att \in Attempts /\ s.att \in view[d].outstanding
    BY <1>3 DEF AttemptsApart, TypeOK, Strays
  <2>2. \A p \in Procs : Live(p) /\ job[p].d = d => job[p].att # s.att
    BY <1>3 DEF AttemptsApart, OnIt
  <2>3. view' = view /\ job' = job
    BY <1>3 DEF LandStray
  <2>4. QED
    BY <2>1, <2>2, <2>3 DEF Unaccounted, Lost, OnIt, Live
<1>4. QED
  BY <1>1, <1>2, <1>3, HoldsSteps

\* Data stays unaccounted for until its writer logs its outcome.
LEMMA UnaccountedStep ==
  ASSUME TypeOK, AttemptsApart, [Next]_vars, NEW d \in Deliveries, Unaccounted(d)
  PROVE  \/ Unaccounted(d)'
         \/ \E p \in Procs : LogOutcome(p) /\ job[p].d = d /\ job[p].landed > 0
<1>1. ASSUME NEW p \in Procs, Live(p), job[p].d = d, job[p].landed > 0, ~LogOutcome(p)
      PROVE  Unaccounted(d)'
  <2>1. job[p].landed \in 0 .. NChunks /\ job[p].att \in Attempts
    BY <1>1, JobFields DEF Live, TypeOK
  <2>2. CASE Live(p)' /\ job'[p].d = job[p].d /\ job'[p].landed >= job[p].landed
    <3>1. job'[p] \in Jobs
      BY NextType DEF TypeOK
    <3>2. job'[p].landed \in 0 .. NChunks
      BY <2>2, <3>1, JobFields DEF Live
    <3>3. job'[p].landed > 0
      BY <1>1, <2>1, <2>2, <3>2
    <3>4. QED
      BY <1>1, <2>2, <3>3 DEF Unaccounted, OnIt
  <2>3. CASE Crash(p)
    <3>1. job[p].att \in view'[d].outstanding
      BY <1>1, <2>3 DEF AttemptsApart, Crash
    <3>2. ASSUME NEW q \in Procs, Live(q)', job'[q].d = d
          PROVE  job'[q].att # job[p].att
      <4>1. q # p
        <5>1. job'[p].pc = "idle"
          BY <2>3, GotoLands DEF Crash, Idle
        <5>2. QED
          BY <3>2, <5>1 DEF Live
      <4>2. job'[q] = job[q]
        BY <2>3, <4>1, JobFrame
      <4>3. QED
        BY <1>1, <3>2, <4>1, <4>2 DEF AttemptsApart, OnIt, Live
    <3>3. QED
      BY <2>1, <3>1, <3>2 DEF Unaccounted, Lost, OnIt
  <2>4. QED
    BY <1>1, <2>2, <2>3, LiveBefore
<1>2. ASSUME NEW a \in Attempts, a \in view[d].outstanding,
             \A p \in Procs : Live(p) /\ job[p].d = d => job[p].att # a
      PROVE  Unaccounted(d)'
  <2>1. a \in view'[d].outstanding
    BY <1>2, ViewSteps DEF LogOutcome, Live
  <2>2. ASSUME NEW p \in Procs, Live(p)', job'[p].d = d
        PROVE  job'[p].att # a
    <3>1. CASE Live(p) /\ job'[p].d = job[p].d /\ job'[p].att = job[p].att
      BY <1>2, <2>2, <3>1
    <3>2. ASSUME NEW pl, NEW b \in Attempts \ view[job[p].d].outstanding,
                 job'[p] = Writing(job[p].d, b, pl, 0)
          PROVE  job'[p].att # a
      <4>1. job'[p].att = b /\ job'[p].d = job[p].d
        BY <3>2 DEF Writing
      <4>2. QED
        BY <1>2, <2>2, <3>2, <4>1
    <3>3. QED
      BY <2>2, <3>1, <3>2, LiveAfter
  <2>3. QED
    BY <1>2, <2>1, <2>2 DEF Unaccounted, Lost, OnIt
<1>3. QED
  BY <1>1, <1>2 DEF Unaccounted, Lost, OnIt


\* The outcome of a write that landed something says so in the log, and is
\* remembered as a race if a removal is between its effect and its receipt.
LEMMA OutcomeEffect ==
  ASSUME TypeOK, ReportsHonest, NEW p \in Procs, LogOutcome(p), job[p].landed > 0
  PROVE  /\ view'[job[p].d].written
         /\ RemovalUnlogged(job[p].d) => job[p].d \in raced'
<1>1. job[p].pc = "reporting" /\ job[p].done # 0 /\ job[p].d \in Deliveries
      /\ job[p].att \in Attempts /\ view[job[p].d] \in Views
  BY JobFields DEF LogOutcome, ReportsHonest, TypeOK
<1>2. view'[job[p].d].written
  <2>1. CASE job[p].ok
    <3>1. view'[job[p].d] = After(view[job[p].d], Receipt(job[p].att))
      BY <1>1, <2>1, LogEffect DEF LogOutcome
    <3>2. QED
      BY <1>1, <3>1, ReceiptView
  <2>2. CASE ~job[p].ok
    <3>1. view'[job[p].d] = After(view[job[p].d], Failure(job[p].att, job[p].done))
      BY <1>1, <2>2, LogEffect DEF LogOutcome
    <3>2. QED
      BY <1>1, <3>1, FailureView
  <2>3. QED
    BY <2>1, <2>2
<1>3. RemovalUnlogged(job[p].d) => job[p].d \in raced'
  BY <1>1 DEF LogOutcome
<1>4. QED
  BY <1>2, <1>3

\* A delivery that had an outcome logged inside a removal is one for ever.
LEMMA RacedSteps ==
  ASSUME [Next]_vars
  PROVE  raced \subseteq raced'
<1>1. ASSUME NEW p \in Procs, LogOutcome(p) PROVE raced \subseteq raced'
  BY <1>1 DEF LogOutcome
<1>2. CASE UNCHANGED raced
  BY <1>2
<1>3. QED
  BY <1>1, <1>2 DEF Next, vars, SealRecord, FailRecord, InvalidateDirectly, LandStray, Call,
     StartDispatch, StartInvalidate, StartCatchUp, Step, OpenDelivery, CheckDelivered,
     TransformFails, AppendIntent, LandChunk, WriteEnds, Recheck, InvalidateRecord, Retract,
     LogRemovalIntent, Erase, EraseFails, LogRemovalOutcome, Crash

\* Data at a target goes on having a reason that the log shows, or will show.
LEMMA HoldsExplainedStep ==
  ASSUME TypeOK, AttemptsApart, ReportsHonest, HoldsExplained, ErasedExplained, [Next]_vars
  PROVE  HoldsExplained'
<1>1. SUFFICES ASSUME NEW d \in Deliveries, holds'[d] # {}
               PROVE  d \in raced' \/ view'[d].legacy \/ view'[d].written \/ Unaccounted(d)'
  BY DEF HoldsExplained
<1>2. CASE holds[d] = {}
  BY <1>1, <1>2, LandingUnaccounted
<1>3. CASE d \in raced \/ view[d].legacy
  BY <1>3, RacedSteps, ViewSteps
<1>4. CASE Unaccounted(d)
  BY <1>4, UnaccountedStep, OutcomeEffect
<1>5. CASE holds[d] # {} /\ view[d].written
  <2>1. CASE view'[d].written
    BY <2>1
  <2>2. ASSUME NEW q \in Procs, LogRemovalOutcome(q), job[q].d = d, job[q].ok
        PROVE  d \in raced' \/ view'[d].legacy \/ view'[d].written \/ Unaccounted(d)'
    <3>1. d \in raced \/ view[d].legacy \/ Unaccounted(d)
      BY <1>5, <2>2 DEF ErasedExplained, LogRemovalOutcome
    <3>2. QED
      BY <3>1, <1>3, <1>4
  <2>3. QED
    BY <1>5, <2>1, <2>2, ViewSteps
<1>6. QED
  BY <1>2, <1>3, <1>4, <1>5 DEF HoldsExplained

\* A removal between its effect and its receipt was there before, or has just
\* emptied the target.
LEMMA ErasedAfter ==
  ASSUME TypeOK, [Next]_vars, NEW q \in Procs, job'[q].pc = "erased", job'[q].ok
  PROVE  \/ job'[q] = job[q]
         \/ job'[q].d \in Deliveries /\ holds'[job'[q].d] = {}
<1>1. CASE Erase(q)
  <2>1. job[q].d \in Deliveries
    BY <1>1, JobFields DEF Erase, TypeOK
  <2>2. job'[q] = Erased(job[q].recs, job[q].todo, job[q].d, TRUE)
    BY <1>1, GotoLands DEF Erase
  <2>3. job'[q].d = job[q].d
    BY <2>2 DEF Erased
  <2>4. QED
    BY <1>1, <2>1, <2>3 DEF Erase, TypeOK
<1>2. ASSUME Call(q) \/ Step(q) \/ Crash(q), ~Erase(q)
      PROVE  FALSE
  <2>1. \A x : Goto(q, x) => x.pc = "erased" /\ x.ok
    BY GotoLands
  <2>2. ~EraseFails(q)
    <3>1. \A rs, ds, d : Erased(rs, ds, d, FALSE).ok = FALSE
      BY DEF Erased
    <3>2. QED
      BY <2>1, <3>1 DEF EraseFails
  <2>3. ~Call(q)
    <3>1. \A x : Opening(x).pc = "opening" /\ Retracting(x).pc = "retracting"
                 /\ Invalidating(x).pc = "invalidating"
      BY DEF Opening, Retracting, Invalidating
    <3>2. QED
      BY <2>1, <3>1 DEF Call, StartDispatch, StartInvalidate, StartCatchUp
  <2>4. ~(OpenDelivery(q) \/ CheckDelivered(q) \/ TransformFails(q) \/ LandChunk(q)
          \/ LogOutcome(q) \/ Recheck(q) \/ InvalidateRecord(q) \/ Crash(q))
    BY <2>1 DEF OpenDelivery, CheckDelivered, TransformFails, LandChunk, LogOutcome, Recheck,
       InvalidateRecord, Crash, Checking, Transforming, Idle, Writing, Rechecking, Retracting
  <2>5. ~WriteEnds(q) /\ ~\E pl \in Payloads : AppendIntent(q, pl)
    <3>1. \A d, a, n, ok, done : Reporting(d, a, n, ok, done).pc = "reporting"
      BY DEF Reporting
    <3>2. \A d, a, pl, n : Writing(d, a, pl, n).pc = "writing"
      BY DEF Writing
    <3>3. Idle.pc = "idle"
      BY DEF Idle
    <3>4. QED
      BY <2>1, <3>1, <3>2, <3>3 DEF WriteEnds, AppendIntent
  <2>6. ~(Retract(q) \/ LogRemovalIntent(q) \/ LogRemovalOutcome(q))
    <3>1. \A rs, ds : NextRemoval(rs, ds).pc \in {"removing", "retracting", "idle"}
      BY NextRemovalFields DEF Removing, Retracting, Idle
    <3>2. \A rs, ds, d : Erasing(rs, ds, d).pc = "erasing"
      BY DEF Erasing
    <3>3. Idle.pc = "idle"
      BY DEF Idle
    <3>4. QED
      BY <2>1, <3>1, <3>2, <3>3 DEF Retract, LogRemovalIntent, LogRemovalOutcome
  <2>7. QED
    BY <1>2, <2>2, <2>3, <2>4, <2>5, <2>6 DEF Step
<1>3. CASE \E p \in Procs : Call(p) \/ Step(p) \/ Crash(p)
  BY <1>1, <1>2, <1>3, JobFrame
<1>4. CASE UNCHANGED job
  BY <1>4
<1>5. QED
  BY <1>3, <1>4 DEF Next, vars, SealRecord, FailRecord, InvalidateDirectly, LandStray

\* Between a removal's effect and its receipt that reason is none that the receipt clears.
LEMMA ErasedExplainedStep ==
  ASSUME TypeOK, AttemptsApart, ReportsHonest, ErasedExplained, [Next]_vars
  PROVE  ErasedExplained'
<1>1. ASSUME NEW q \in Procs, job'[q].pc = "erased", job'[q].ok,
             NEW d, d = job'[q].d, holds'[d] # {}
      PROVE  d \in raced' \/ view'[d].legacy \/ Unaccounted(d)'
  <2>1. job'[q] = job[q] /\ d = job[q].d /\ d \in Deliveries
    BY <1>1, ErasedAfter, JobFields DEF TypeOK
  <2>2. CASE holds[d] = {}
    BY <1>1, <2>1, <2>2, LandingUnaccounted
  <2>3. CASE holds[d] # {} /\ (d \in raced \/ view[d].legacy)
    BY <2>1, <2>3, RacedSteps, ViewSteps
  <2>4. CASE holds[d] # {} /\ Unaccounted(d)
    <3>1. RemovalUnlogged(d)
      BY <1>1, <2>1 DEF RemovalUnlogged
    <3>2. CASE Unaccounted(d)'
      BY <3>2
    <3>3. ASSUME NEW p \in Procs, LogOutcome(p), job[p].d = d, job[p].landed > 0
          PROVE  d \in raced'
      BY <3>1, <3>3, OutcomeEffect
    <3>4. QED
      BY <2>1, <2>4, <3>2, <3>3, UnaccountedStep
  <2>5. QED
    BY <1>1, <2>1, <2>2, <2>3, <2>4 DEF ErasedExplained
<1>2. QED
  BY <1>1 DEF ErasedExplained, Unaccounted, Lost, OnIt, Live

-----------------------------------------------------------------------------
(***************************************************************************)
(* The theorems.                                                           *)
(***************************************************************************)
LEMMA InitIInv == Init => IInv
<1> SUFFICES ASSUME Init PROVE IInv
  OBVIOUS
<1>1. TypeOK
  BY InitType
<1>2. \A p \in Procs : job[p].pc = "idle"
  BY DEF Init, Idle
<1>3. AttemptsApart /\ WritersBound /\ PassesInvalidated /\ ReportsHonest /\ ErasedExplained
      /\ LandedKept
  BY <1>2 DEF Init, AttemptsApart, WritersBound, PassesInvalidated, ReportsHonest,
     ErasedExplained, LandedKept, Live, OnIt
<1>4. EmptyView.status = "not_attempted"
  BY DEF EmptyView
<1>5. ASSUME NEW pl \in Payloads
      PROVE  Unreported(pl).status = "in_flight" /\ Unreported(pl).legacy
  BY DEF Unreported, After, Intent, AfterIntent, EmptyView
<1>6. ASSUME NEW pl \in Payloads
      PROVE  Confirmed(pl).written
  BY DEF Confirmed, After, Receipt, AfterOutcome
<1>7. ASSUME NEW d \in Deliveries
      PROVE  \/ /\ view[d].status # "delivered"
                /\ holds[d] = {}
             \/ /\ view[d].legacy \/ view[d].written
                /\ ledger[RecordOf(d)] = "sealed"
                /\ holds[d] = {view[d].bound} \X Chunks
  <2>1. CASE view[d] = EmptyView
    BY <1>4, <2>1 DEF Init
  <2>2. CASE view[d] # EmptyView
    <3>1. view[d].legacy \/ view[d].written
      BY <1>5, <1>6, <2>2 DEF Init
    <3>2. QED
      BY <2>2, <3>1 DEF Init
  <2>3. QED
    BY <2>1, <2>2
<1>a. ASSUME NEW d \in Deliveries, ledger[RecordOf(d)] = "sealed"
      PROVE  RecordOf(d) \in everSealed
  BY <1>a DEF Init, Deliveries, RecordOf
<1>8. HistoryRight /\ StartedSealed /\ NothingUnsealedHeld /\ HoldsExplained /\ DeliveredComplete
  <2>1. HistoryRight /\ StartedSealed /\ HoldsExplained /\ DeliveredComplete
    BY <1>2, <1>7, <1>a DEF Init, HistoryRight, StartedSealed, HoldsExplained, DeliveredComplete
  <2>2. NothingUnsealedHeld
    BY <1>1, <1>7, <1>a DEF Init, TypeOK, NothingUnsealedHeld
  <2>3. QED
    BY <2>1, <2>2
<1>9. BoundPayloadOnly
  BY <1>7 DEF BoundPayloadOnly
<1>10. QED
  BY <1>1, <1>3, <1>8, <1>9 DEF IInv

\* Every step keeps the inductive invariant.
LEMMA NextIInv == IInv /\ [Next]_vars => IInv'
BY NextType, AttemptsApartStep, WritersBoundStep, BoundPayloadOnlyStep, HistoryRightStep,
   StartedSealedStep,   NothingUnsealedHeldStep, PassesInvalidatedStep, ReportsHonestStep, HoldsExplainedStep,
   ErasedExplainedStep, LandedKeptStep, DeliveredCompleteStep DEF IInv

\* The inductive invariant holds in every behaviour.
THEOREM Inductive == Spec => []IInv
BY InitIInv, NextIInv, PTL DEF Spec

\* "one attempt's receipt never closes another's intent" (docs/adapter.md).
THEOREM AttemptsStayApart == Spec => []AttemptsApart
<1>1. IInv => AttemptsApart
  BY DEF IInv
<1>2. QED
  BY <1>1, Inductive, PTL

\* A target holds chunks of one payload only, the one the delivery's first
\* intent bound, however many Dispatchers race to write it.
THEOREM OnePayload == Spec => []BoundPayloadOnly
<1>1. IInv => BoundPayloadOnly
  BY DEF IInv
<1>2. QED
  BY <1>1, Inductive, PTL

(***************************************************************************)
(* possibly_written never says "nothing" of a target that holds data, but  *)
(* for the one race.  HoldsExplained gives a reason for the data; the      *)
(* reasons that are not written or legacy are attempts still outstanding.  *)
(***************************************************************************)
THEOREM SoundWithoutRace == Spec => []SoundUnlessRaced
<1>1. IInv => SoundUnlessRaced
  <2>1. SUFFICES ASSUME IInv, NEW d \in Deliveries, d \notin raced, holds[d] # {}
                 PROVE  PossiblyWritten(view[d])
    BY DEF SoundUnlessRaced
  <2>2. view[d].legacy \/ view[d].written \/ Unaccounted(d)
    BY <2>1 DEF IInv, HoldsExplained
  <2>3. Unaccounted(d) => view[d].outstanding # {}
    BY <2>1 DEF IInv, Unaccounted, Lost, OnIt, AttemptsApart
  <2>4. QED
    BY <2>2, <2>3 DEF PossiblyWritten
<1>2. QED
  BY <1>1, Inductive, PTL

\* A delivery reported as delivered is complete while its record is sealed.
THEOREM ReceiptsComplete == Spec => []DeliveredComplete
<1>1. IInv => DeliveredComplete
  BY DEF IInv
<1>2. QED
  BY <1>1, Inductive, PTL

\* A delivery is opened, and data reaches a target, only for a record that was
\* SEALED at some time: no path around dispatch's re-read of the record, whatever
\* became of the record since.
THEOREM OnlySealedDelivered == Spec => []NothingUnsealedHeld
<1>1. IInv => NothingUnsealedHeld
  BY DEF IInv
<1>2. QED
  BY <1>1, Inductive, PTL

\* No step takes data from the target of a record that is not invalidated.
THEOREM ValidDataKept == Spec => RemovedOnlyIfInvalidated
<1>1. IInv /\ [Next]_vars
        => [\A d \in Deliveries :
              ~ (holds[d] \subseteq holds'[d]) => ledger[RecordOf(d)] = "invalidated"]_vars
  BY RemovalStep DEF IInv
<1>2. QED
  BY <1>1, Inductive, PTL DEF Spec, RemovedOnlyIfInvalidated


=============================================================================

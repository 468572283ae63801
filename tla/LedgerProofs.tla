---------------------------- MODULE LedgerProofs ----------------------------
(***************************************************************************)
(* Theorems about Ledger, for any number of clients, runs, bundle contents *)
(* and faults.                                                             *)
(***************************************************************************)
EXTENDS Ledger, TLAPS

(***************************************************************************)
(* The inductive invariant.                                                *)
(***************************************************************************)

\* A transaction past create_pending works on a record that exists.
AtWork ==
  \A c \in Clients :
    job[c].pc \in TransactionPcs \ {"creating"} => rec[job[c].r] # "absent"

\* Nobody gets to the seal of a bundle the run did not produce ...
RanChecked ==
  \A c \in Clients :
    job[c].pc \in {"in_block", "sealing", "archiving", "committing", "reading_back"}
      => ran[job[c].r] \in {Gone, manifest[job[c].r]}

\* ... or that is not archived.
Verified ==
  \A c \in Clients : job[c].pc = "committing" => manifest[job[c].r] \in archived

\* The closing read of a seal comes after its event.
WroteSeal ==
  \A c \in Clients :
    job[c].pc = "reading_back"
      => \E i \in 1..Len(chain[job[c].r]) : chain[job[c].r][i] = "sealed"

IInv ==
  /\ TypeOK
  /\ ChainMatchesTable
  /\ AtWork
  /\ RanChecked
  /\ Verified
  /\ WroteSeal
  /\ SealedArchived
  /\ SealedIsRunOutput
  /\ ReturnedSealed
  /\ LeftPendingOnlyByFault

-----------------------------------------------------------------------------
(***************************************************************************)
(* The local states of a client.                                           *)
(***************************************************************************)
WorkPcs == TransactionPcs \cup {"op_failing"}

\* What the program counter says a client has.
LEMMA JobFields ==
  ASSUME NEW j \in Jobs
  PROVE  /\ j = Idle \/ j.pc \in WorkPcs \/ j.pc \in BatchPcs
         /\ j # Idle => j.r \in Runs
         /\ j.pc \in BatchPcs => j.rest \subseteq Runs /\ j.all \subseteq Runs
<1>1. CASE j = Idle
  BY <1>1 DEF Idle, BatchPcs
<1>2. CASE j \in {At(pc, r) : pc \in WorkPcs, r \in Runs}
  <2>1. PICK pc \in WorkPcs, r \in Runs : j = At(pc, r)
    BY <1>2
  <2>2. j.pc = pc /\ j.r = r
    BY <2>1 DEF At
  <2>3. QED
    BY <2>1, <2>2 DEF WorkPcs, TransactionPcs, BatchPcs
<1>3. CASE j \in {Batch(pc, r, rest, all) : pc \in BatchPcs, r \in Runs,
                                          rest \in SUBSET Runs, all \in SUBSET Runs}
  <2>1. PICK pc \in BatchPcs, r \in Runs, rest \in SUBSET Runs, all \in SUBSET Runs :
          j = Batch(pc, r, rest, all)
    BY <1>3
  <2>2. j.pc = pc /\ j.r = r /\ j.rest = rest /\ j.all = all
    BY <2>1 DEF Batch
  <2>3. QED
    BY <2>1, <2>2
<1>4. QED
  BY <1>1, <1>2, <1>3 DEF Jobs, WorkPcs

\* The states a step leaves a client in.
LEMMA JobsBuilt ==
  /\ Idle \in Jobs
  /\ \A pc \in WorkPcs, r \in Runs : At(pc, r) \in Jobs
  /\ \A pc \in BatchPcs, r \in Runs, rest \in SUBSET Runs, all \in SUBSET Runs :
       Batch(pc, r, rest, all) \in Jobs
BY DEF Jobs, WorkPcs

\* Only the client that moves has another job.
LEMMA GotoEffect ==
  ASSUME TypeOK, NEW c \in Clients, NEW j, Goto(c, j)
  PROVE  /\ job'[c] = j
         /\ \A b \in Clients \ {c} : job'[b] = job[b]
         /\ j \in Jobs => job' \in [Clients -> Jobs]
BY DEF TypeOK, Goto

\* A transition changes one record, and appends one event.
LEMMA TransitionEffect ==
  ASSUME TypeOK, NEW r \in Runs, NEW to \in States \ {"absent"}, Transition(r, to)
  PROVE  /\ rec' \in [Runs -> States]
         /\ chain' \in [Runs -> Seq(States \ {"absent"})]
         /\ rec'[r] = to /\ chain'[r] = Append(chain[r], to)
         /\ \A q \in Runs \ {r} : rec'[q] = rec[q] /\ chain'[q] = chain[q]
<1>1. Append(chain[r], to) \in Seq(States \ {"absent"})
  BY DEF TypeOK
<1>2. QED
  BY <1>1 DEF TypeOK, Transition, States

-----------------------------------------------------------------------------
(***************************************************************************)
(* Type correctness.                                                       *)
(***************************************************************************)
LEMMA InitType == Init => TypeOK
<1> SUFFICES ASSUME Init PROVE TypeOK
  OBVIOUS
<1>1. job \in [Clients -> Jobs]
  BY JobsBuilt DEF Init
<1>2. archived \subseteq Contents
  BY DEF Init
<1>3. chain \in [Runs -> Seq(States \ {"absent"})]
  BY DEF Init
<1>4. QED
  BY <1>1, <1>2, <1>3 DEF Init, TypeOK, States

\* A client's call, or a step of its operation that writes no record.
LEMMA QuietType ==
  ASSUME TypeOK, NEW c \in Clients, NEW j \in Jobs, Goto(c, j),
         UNCHANGED <<rec, manifest, chain, disk, ran>>,
         archived' \subseteq Contents,
         returned' \subseteq Runs, raised' \subseteq Runs, faults' \in Nat, faulted' \subseteq Runs
  PROVE  TypeOK'
BY GotoEffect DEF TypeOK

\* A step that moves an existing record on.
LEMMA MoveType ==
  ASSUME TypeOK, NEW c \in Clients, NEW j \in Jobs, Goto(c, j),
         NEW r \in Runs, rec[r] # "absent",
         NEW to \in States \ {"absent"}, Transition(r, to),
         UNCHANGED <<manifest, disk, ran, archived>>,
         returned' \subseteq Runs, raised' \subseteq Runs, UNCHANGED <<faults, faulted>>
  PROVE  TypeOK'
<1>1. rec' \in [Runs -> States] /\ chain' \in [Runs -> Seq(States \ {"absent"})]
  BY TransitionEffect
<1>2. ASSUME NEW q \in Runs
      PROVE  manifest'[q] = Gone <=> rec'[q] = "absent"
  BY TransitionEffect DEF TypeOK
<1>3. QED
  BY <1>1, <1>2, GotoEffect DEF TypeOK

\* create_pending's insert.
LEMMA CreateType ==
  ASSUME TypeOK, NEW c \in Clients, NEW j \in Jobs, Goto(c, j),
         NEW r \in Runs, rec[r] = "absent", disk[r] # Gone, Transition(r, "pending"),
         manifest' = [manifest EXCEPT ![r] = disk[r]],
         UNCHANGED <<disk, ran, archived>>,
         returned' \subseteq Runs, raised' \subseteq Runs, faults' \in Nat, faulted' \subseteq Runs
  PROVE  TypeOK'
<1>0. "pending" \in States \ {"absent"}
  BY DEF States
<1>1. rec' \in [Runs -> States] /\ chain' \in [Runs -> Seq(States \ {"absent"})]
  BY <1>0, TransitionEffect
<1>2. ASSUME NEW q \in Runs
      PROVE  manifest'[q] = Gone <=> rec'[q] = "absent"
  <2>1. CASE q = r
    BY <1>0, <2>1, TransitionEffect DEF TypeOK
  <2>2. CASE q # r
    BY <1>0, <2>2, TransitionEffect DEF TypeOK
  <2>3. QED
    BY <2>1, <2>2
<1>3. manifest' \in [Runs -> Contents \cup {Gone}]
  BY DEF TypeOK
<1>4. QED
  BY <1>1, <1>2, <1>3, GotoEffect DEF TypeOK

\* A call keeps the types.
LEMMA CallType ==
  ASSUME TypeOK, NEW c \in Clients, Call(c)
  PROVE  TypeOK'
<1>1. ASSUME NEW r \in Runs, StartTransaction(c, r) \/ StartFail(c, r)
      PROVE  TypeOK'
  <2>1. At("creating", r) \in Jobs /\ At("op_failing", r) \in Jobs
    BY JobsBuilt DEF WorkPcs, TransactionPcs
  <2>2. QED
    BY <1>1, <2>1, QuietType DEF StartTransaction, StartFail, data, history, TypeOK
<1>2. ASSUME NEW candidates \in SUBSET Runs, StartBatch(c, candidates)
      PROVE  TypeOK'
  <2>1. PICK r \in candidates : Goto(c, Batch("to_invalidate", r, candidates \ {r}, candidates))
    BY <1>2 DEF StartBatch
  <2>2. Batch("to_invalidate", r, candidates \ {r}, candidates) \in Jobs
    BY JobsBuilt DEF BatchPcs
  <2>3. QED
    BY <1>2, <2>1, <2>2, QuietType DEF StartBatch, data, history, TypeOK
<1>3. QED
  BY <1>1, <1>2 DEF Call

\* A step of a running call keeps the types.
LEMMA StepType ==
  ASSUME TypeOK, AtWork, NEW c \in Clients, Step(c)
  PROVE  TypeOK'
<1> DEFINE r == job[c].r
<1>a. job[c] \in Jobs
  BY DEF TypeOK
<1>b. job[c].pc # "idle" => r \in Runs
  BY <1>a, JobFields DEF Idle
<1>c. ASSUME job[c].pc # "idle", NEW pc \in WorkPcs
      PROVE  At(pc, r) \in Jobs
  BY <1>b, <1>c, JobsBuilt
<1>d. {"creating", "in_block", "sealing", "archiving", "committing", "reading_back",
       "asking", "to_fail", "failing", "op_failing"} \subseteq WorkPcs
  BY DEF WorkPcs, TransactionPcs
<1>e. Idle \in Jobs
  BY JobsBuilt
<1>f. {"pending", "sealed", "failed", "invalidated"} \subseteq States \ {"absent"}
  BY DEF States
<1> HIDE DEF r
<1>1. CASE CreatePending(c)
  <2>1. CASE rec[r] # "absent" \/ disk[r] = Gone
    BY <1>1, <2>1, <1>e, QuietType DEF CreatePending, data, history, TypeOK, r
  <2>2. CASE ~(rec[r] # "absent" \/ disk[r] = Gone)
    <3> DEFINE pc == IF ran[r] \in {Gone, disk[r]} THEN "in_block" ELSE "to_fail"
    <3>1. At(pc, r) \in Jobs
      BY <1>1, <1>c, <1>d DEF CreatePending
    <3>2. /\ Goto(c, At(pc, r)) /\ Transition(r, "pending")
          /\ manifest' = [manifest EXCEPT ![r] = disk[r]]
          /\ UNCHANGED data /\ UNCHANGED history
      BY <1>1, <2>2 DEF CreatePending, r
    <3>3. r \in Runs
      BY <1>1, <1>b DEF CreatePending
    <3> HIDE DEF pc
    <3>4. QED
      BY <2>2, <3>1, <3>2, <3>3, CreateType DEF data, history, TypeOK
  <2>3. QED
    BY <2>1, <2>2
<1>2. CASE BlockEnds(c) \/ BlockRaises(c) \/ ArchiveRaises(c)
  <2>1. At("sealing", r) \in Jobs /\ At("to_fail", r) \in Jobs /\ At("asking", r) \in Jobs
    BY <1>2, <1>c, <1>d DEF BlockEnds, BlockRaises, ArchiveRaises
  <2>2. QED
    BY <1>2, <2>1, QuietType DEF BlockEnds, BlockRaises, ArchiveRaises, data, history, TypeOK, r
<1>3. CASE SealReads(c)
  <2>1. At("archiving", r) \in Jobs /\ At("asking", r) \in Jobs
    BY <1>3, <1>c, <1>d DEF SealReads
  <2>2. QED
    BY <1>3, <2>1, QuietType DEF SealReads, data, history, TypeOK, r
<1>4. CASE ArchiveBundle(c)
  <2>1. At("committing", r) \in Jobs /\ At("asking", r) \in Jobs /\ r \in Runs
    BY <1>4, <1>b, <1>c, <1>d DEF ArchiveBundle
  <2>2. archived' \subseteq Contents
    <3>1. manifest[r] \in Contents
      BY <1>4, <2>1 DEF TypeOK, AtWork, ArchiveBundle, TransactionPcs, r
    <3>2. disk[r] = manifest[r] \/ (disk[r] = Gone /\ manifest[r] \in archived)
            => archived' = archived \cup {manifest[r]}
      BY <1>4 DEF ArchiveBundle, r
    <3>3. ~(disk[r] = manifest[r] \/ (disk[r] = Gone /\ manifest[r] \in archived))
            => archived' = archived
      BY <1>4 DEF ArchiveBundle, r
    <3>4. QED
      BY <3>1, <3>2, <3>3 DEF TypeOK
  <2>3. QED
    BY <1>4, <2>1, <2>2, QuietType DEF ArchiveBundle, data, history, TypeOK, r
<1>5. CASE SealCommits(c)
  <2>1. At("reading_back", r) \in Jobs /\ At("asking", r) \in Jobs /\ r \in Runs
    BY <1>5, <1>b, <1>c, <1>d DEF SealCommits
  <2>2. CASE Matches(r, {"pending"})
    <3>1. Transition(r, "sealed") /\ Goto(c, At("reading_back", r)) /\ rec[r] # "absent"
      BY <1>5, <2>2 DEF SealCommits, Matches, r
    <3>2. QED
      BY <1>5, <1>f, <2>1, <3>1, MoveType DEF SealCommits, data, history, TypeOK
  <2>3. CASE ~Matches(r, {"pending"})
    BY <1>5, <2>1, <2>3, QuietType DEF SealCommits, data, history, TypeOK, r
  <2>4. QED
    BY <2>2, <2>3
<1>6. CASE ReadBack(c)
  <2>1. r \in Runs
    BY <1>6, <1>b DEF ReadBack
  <2>2. QED
    BY <1>6, <1>e, <2>1, QuietType DEF ReadBack, Returns, data, TypeOK, r
<1>7. CASE AskState(c)
  <2>1. At("to_fail", r) \in Jobs /\ r \in Runs
    BY <1>7, <1>b, <1>c, <1>d DEF AskState
  <2>2. QED
    BY <1>7, <1>e, <2>1, QuietType DEF AskState, Returns, data, history, TypeOK, r
<1>8. CASE FailReads(c)
  <2>1. At("failing", r) \in Jobs /\ r \in Runs
    BY <1>8, <1>b, <1>c, <1>d DEF FailReads
  <2>2. QED
    BY <1>8, <1>e, <2>1, QuietType DEF FailReads, Raises, data, history, TypeOK, r
<1>9. CASE FailCommits(c)
  <2>1. r \in Runs
    BY <1>9, <1>b DEF FailCommits
  <2>2. CASE Matches(r, {"pending", "failed"})
    <3>1. Transition(r, "failed") /\ rec[r] # "absent"
      BY <1>9, <2>2 DEF FailCommits, Matches, r
    <3>2. QED
      BY <1>9, <1>e, <1>f, <2>1, <3>1, MoveType DEF FailCommits, Raises, data, TypeOK, r
  <2>3. CASE ~Matches(r, {"pending", "failed"})
    BY <1>9, <1>e, <2>1, <2>3, QuietType DEF FailCommits, Raises, data, TypeOK, r
  <2>4. QED
    BY <2>2, <2>3
<1>10. CASE OperatorFails(c)
  <2>1. r \in Runs
    BY <1>10, <1>b DEF OperatorFails
  <2>2. CASE Matches(r, {"pending", "failed"})
    <3>1. Transition(r, "failed") /\ rec[r] # "absent"
      BY <1>10, <2>2 DEF OperatorFails, Matches, r
    <3>2. QED
      BY <1>10, <1>e, <1>f, <2>1, <3>1, MoveType DEF OperatorFails, data, history, TypeOK
  <2>3. CASE ~Matches(r, {"pending", "failed"})
    BY <1>10, <1>e, <2>3, QuietType DEF OperatorFails, data, history, TypeOK, r
  <2>4. QED
    BY <2>2, <2>3
<1>11. CASE InvalidateReads(c)
  <2>1. Batch("invalidating", r, job[c].rest, job[c].all) \in Jobs
    BY <1>11, <1>a, <1>b, JobFields, JobsBuilt DEF InvalidateReads, BatchPcs
  <2>2. QED
    BY <1>11, <1>e, <2>1, QuietType DEF InvalidateReads, data, history, TypeOK, r
<1>12. CASE InvalidateCommits(c)
  <2>1. r \in Runs /\ job[c].rest \subseteq Runs /\ job[c].all \subseteq Runs
    BY <1>12, <1>a, <1>b, JobFields DEF InvalidateCommits, BatchPcs
  <2>2. \A next \in NextInvalidation(job[c]) : next \in Jobs
    BY <1>e, <2>1, JobsBuilt DEF NextInvalidation, BatchPcs
  <2>3. CASE Matches(r, {"pending", "sealed"})
    <3>1. /\ Transition(r, "invalidated") /\ rec[r] # "absent"
          /\ \E next \in NextInvalidation(job[c]) : Goto(c, next)
      BY <1>12, <2>3 DEF InvalidateCommits, Matches, r
    <3>2. QED
      BY <1>12, <1>f, <2>1, <2>2, <3>1, MoveType DEF InvalidateCommits, data, history, TypeOK
  <2>4. CASE ~Matches(r, {"pending", "sealed"})
    BY <1>12, <1>e, <2>4, QuietType DEF InvalidateCommits, data, history, TypeOK, r
  <2>5. QED
    BY <2>3, <2>4
<1>13. QED
  BY <1>1, <1>2, <1>3, <1>4, <1>5, <1>6, <1>7, <1>8, <1>9, <1>10, <1>11, <1>12 DEF Step

\* A fault keeps the types.
LEMMA FaultType ==
  ASSUME TypeOK, NEW c \in Clients, TransactionFault(c) \/ Crash(c)
  PROVE  TypeOK'
<1> DEFINE r == job[c].r
<1>1. job[c] # Idle
  BY DEF TransactionFault, Crash, TransactionPcs, Idle
<1>2. job[c] \in Jobs /\ r \in Runs
  BY <1>1, JobFields DEF TypeOK
<1>3. faults' \in Nat /\ faulted' \subseteq Runs
  BY <1>2 DEF TransactionFault, Crash, Faulty, TypeOK
<1>4. Idle \in Jobs /\ At("asking", r) \in Jobs /\ At("to_fail", r) \in Jobs
  BY <1>2, JobsBuilt DEF WorkPcs, TransactionPcs
<1> HIDE DEF r
<1>5. CASE Crash(c)
  BY <1>3, <1>4, <1>5, QuietType DEF Crash, data, TypeOK
<1>6. CASE TransactionFault(c)
  <2>1. CASE UNCHANGED <<rec, manifest, chain>>
    <3>1. raised' \subseteq Runs /\ returned' = returned
      BY <1>2, <1>6 DEF TransactionFault, TypeOK, r
    <3>2. PICK j \in Jobs : Goto(c, j)
      BY <1>4, <1>6 DEF TransactionFault, r
    <3>3. UNCHANGED data
      BY <1>6 DEF TransactionFault
    <3>4. QED
      BY <1>3, <2>1, <3>1, <3>2, <3>3, QuietType DEF data, TypeOK
  <2>2. CASE ~ UNCHANGED <<rec, manifest, chain>>
    <3>1. /\ rec[r] = "absent" /\ disk[r] # Gone
          /\ Transition(r, "pending")
          /\ manifest' = [manifest EXCEPT ![r] = disk[r]]
          /\ Goto(c, Idle)
          /\ raised' = raised \cup {r}
          /\ UNCHANGED returned /\ UNCHANGED data
      BY <1>6, <2>2 DEF TransactionFault, r
    <3>2. QED
      BY <1>2, <1>3, <1>4, <3>1, CreateType DEF data, TypeOK
  <2>3. QED
    BY <2>1, <2>2
<1>7. QED
  BY <1>5, <1>6

\* Every step keeps the types.
LEMMA NextType == TypeOK /\ AtWork /\ [Next]_vars => TypeOK'
<1> SUFFICES ASSUME TypeOK, AtWork, [Next]_vars PROVE TypeOK'
  OBVIOUS
<1>1. ASSUME NEW r \in Runs, ChangeDisk(r)
      PROVE  TypeOK'
  <2>1. disk' \in [Runs -> Contents \cup {Gone}]
    BY <1>1 DEF ChangeDisk, TypeOK
  <2>2. QED
    BY <1>1, <2>1 DEF ChangeDisk, history, TypeOK
<1>2. CASE UNCHANGED vars
  BY <1>2 DEF vars, TypeOK
<1>3. QED
  BY <1>1, <1>2, CallType, StepType, FaultType DEF Next


-----------------------------------------------------------------------------
(***************************************************************************)
(* What a step does to one record, and to one client.                      *)
(***************************************************************************)
Kept(r)    == rec'[r] = rec[r] /\ chain'[r] = chain[r] /\ manifest'[r] = manifest[r]
Created(r) == /\ rec[r] = "absent" /\ rec'[r] = "pending"
              /\ chain'[r] = Append(chain[r], "pending")
Moved(r)   == /\ rec[r] # "absent" /\ rec'[r] \in {"sealed", "failed", "invalidated"}
              /\ chain'[r] = Append(chain[r], rec'[r])
              /\ manifest'[r] = manifest[r]
              /\ rec'[r] = "sealed"
                   => \E c \in Clients : job[c].pc = "committing" /\ job[c].r = r

\* _transition and create_pending are the only writers of records.
LEMMA RecordSteps ==
  ASSUME TypeOK, [Next]_vars, NEW r \in Runs
  PROVE  Kept(r) \/ Created(r) \/ Moved(r)
<1>0. {"pending", "sealed", "failed", "invalidated"} \subseteq States \ {"absent"}
  BY DEF States
<1>1. CASE UNCHANGED <<rec, manifest, chain>>
  BY <1>1 DEF Kept
<1>2. ASSUME NEW c \in Clients, CreatePending(c) \/ TransactionFault(c),
             ~ UNCHANGED <<rec, manifest, chain>>
      PROVE  Kept(r) \/ Created(r) \/ Moved(r)
  <2> DEFINE q == job[c].r
  <2>1. /\ rec[q] = "absent" /\ Transition(q, "pending")
        /\ manifest' = [manifest EXCEPT ![q] = disk[q]]
    BY <1>2 DEF CreatePending, TransactionFault
  <2>2. q \in Runs
    <3>1. job[c] \in Jobs /\ job[c] # Idle
      BY <1>2 DEF CreatePending, TransactionFault, TransactionPcs, TypeOK, Idle
    <3>2. QED
      BY <3>1, JobFields
  <2>3. CASE q = r
    BY <1>0, <2>1, <2>2, <2>3, TransitionEffect DEF Created
  <2>4. CASE q # r
    <3>1. manifest'[r] = manifest[r]
      BY <2>1, <2>2, <2>4 DEF TypeOK
    <3>2. QED
      BY <1>0, <2>1, <2>2, <2>4, <3>1, TransitionEffect DEF Kept
  <2>5. QED
    BY <2>3, <2>4
<1>3. ASSUME NEW c \in Clients,
             SealCommits(c) \/ FailCommits(c) \/ OperatorFails(c) \/ InvalidateCommits(c),
             ~ UNCHANGED <<rec, manifest, chain>>
      PROVE  Kept(r) \/ Created(r) \/ Moved(r)
  <2> DEFINE q == job[c].r
  <2>1. PICK to \in {"sealed", "failed", "invalidated"} :
          /\ rec[q] # "absent" /\ Transition(q, to) /\ manifest' = manifest
          /\ to = "sealed" => job[c].pc = "committing"
    BY <1>3 DEF SealCommits, FailCommits, OperatorFails, InvalidateCommits, Matches
  <2>2. q \in Runs
    <3>1. job[c] \in Jobs /\ job[c] # Idle
      BY <1>3 DEF SealCommits, FailCommits, OperatorFails, InvalidateCommits, TypeOK, Idle
    <3>2. QED
      BY <3>1, JobFields
  <2>3. CASE q = r
    <3>1. rec'[r] = to /\ chain'[r] = Append(chain[r], to)
      BY <1>0, <2>1, <2>2, <2>3, TransitionEffect
    <3>2. QED
      BY <2>1, <2>3, <3>1 DEF Moved
  <2>4. CASE q # r
    BY <1>0, <2>1, <2>2, <2>4, TransitionEffect DEF Kept
  <2>5. QED
    BY <2>3, <2>4
<1>4. QED
  BY <1>1, <1>2, <1>3 DEF Next, vars, data, history, Call, Step, ChangeDisk, StartTransaction, StartFail,
     StartBatch, BlockEnds, BlockRaises, SealReads, ArchiveBundle, ArchiveRaises, ReadBack,
     AskState, FailReads, InvalidateReads, Crash

\* The run's own digest stays, and the archive only grows.
LEMMA EvidenceSteps ==
  ASSUME TypeOK, [Next]_vars
  PROVE  ran' = ran /\ archived \subseteq archived'
BY DEF Next, vars, data, Call, Step, ChangeDisk, StartTransaction, StartFail, StartBatch,
   CreatePending, BlockEnds, BlockRaises, SealReads, ArchiveBundle, ArchiveRaises, SealCommits,
   ReadBack, AskState, FailReads, FailCommits, OperatorFails, InvalidateReads, InvalidateCommits,
   TransactionFault, Crash

\* c is the client that moves.
Moves(c) == Call(c) \/ Step(c) \/ TransactionFault(c) \/ Crash(c)

\* One client moves at a time, or none.
LEMMA JobFrame ==
  ASSUME TypeOK, [Next]_vars, NEW b \in Clients
  PROVE  job'[b] = job[b] \/ Moves(b)
<1>1. ASSUME NEW r \in Runs, ChangeDisk(r) PROVE job'[b] = job[b]
  BY <1>1 DEF ChangeDisk
<1>2. ASSUME NEW c \in Clients, Moves(c), c # b PROVE job'[b] = job[b]
  <2>1. \A x : Goto(c, x) => job'[b] = job[b]
    BY <1>2 DEF Goto, TypeOK
  <2>2. QED
    BY <1>2, <2>1 DEF Moves, Call, Step, StartTransaction, StartFail, StartBatch, CreatePending,
       BlockEnds, BlockRaises, SealReads, ArchiveBundle, ArchiveRaises, SealCommits, ReadBack,
       AskState, FailReads, FailCommits, OperatorFails, InvalidateReads, InvalidateCommits,
       TransactionFault, Crash, Returns, Raises
<1>3. CASE UNCHANGED vars
  BY <1>3 DEF vars
<1>4. QED
  BY <1>1, <1>2, <1>3 DEF Next, Moves

AtWorkPcs == TransactionPcs \ {"creating"}
ToSealPcs == {"in_block", "sealing", "archiving", "committing", "reading_back"}

\* How a client comes to where it is.
LEMMA Arrivals ==
  ASSUME TypeOK, NEW c \in Clients, Moves(c), NEW r, r = job'[c].r, job'[c].pc \in AtWorkPcs
  PROVE  /\ r = job[c].r
         /\ job[c].pc \in TransactionPcs
         /\ job[c].pc = "creating" => rec[r] = "absent" /\ rec'[r] = "pending"
         /\ job'[c].pc \in ToSealPcs
              => job[c].pc \in ToSealPcs \/ (job[c].pc = "creating" /\ ran[r] \in {Gone, manifest'[r]})
         /\ job'[c].pc = "committing" => job[c].pc = "archiving" /\ manifest[r] \in archived'
         /\ job'[c].pc = "reading_back"
              => job[c].pc = "committing" /\ chain'[r] = Append(chain[r], "sealed")
<1>a. \A x : Goto(c, x) => job'[c] = x
  BY GotoEffect
<1>b. Idle.pc \notin AtWorkPcs
  BY DEF Idle, AtWorkPcs, TransactionPcs
<1>c. \A pc, q : At(pc, q).pc = pc /\ At(pc, q).r = q
  BY DEF At
<1>d. \A pc \in BatchPcs : \A q, rest, all : Batch(pc, q, rest, all).pc \notin AtWorkPcs
  BY DEF Batch, BatchPcs, AtWorkPcs, TransactionPcs
<1>e. job[c].pc # "idle" => job[c].r \in Runs
  <2>1. job[c] \in Jobs
    BY DEF TypeOK
  <2>2. QED
    BY <2>1, JobFields DEF Idle
<1>1. CASE Call(c)
  <2>1. \/ \E q : job'[c] = At("creating", q) \/ job'[c] = At("op_failing", q)
        \/ \E q, rest, all : job'[c] = Batch("to_invalidate", q, rest, all)
    BY <1>1, <1>a DEF Call, StartTransaction, StartFail, StartBatch
  <2>2. job'[c].pc \notin AtWorkPcs
    BY <2>1, <1>c, <1>d DEF AtWorkPcs, TransactionPcs, BatchPcs
  <2>3. QED
    BY <2>2
<1>2. CASE CreatePending(c)
  <2>1. ~(rec[job[c].r] # "absent" \/ disk[job[c].r] = Gone)
    BY <1>2, <1>a, <1>b DEF CreatePending
  <2>2. /\ Transition(job[c].r, "pending")
        /\ manifest' = [manifest EXCEPT ![job[c].r] = disk[job[c].r]]
        /\ job'[c] = At(IF ran[job[c].r] \in {Gone, disk[job[c].r]} THEN "in_block" ELSE "to_fail", job[c].r)
    BY <1>2, <2>1, <1>a DEF CreatePending
  <2>3. r = job[c].r /\ r \in Runs
    BY <1>2, <1>c, <1>e, <2>2 DEF CreatePending
  <2>4. rec'[r] = "pending" /\ manifest'[r] = disk[r]
    BY <2>2, <2>3 DEF Transition, TypeOK
  <2>5. job'[c].pc \in {"in_block", "to_fail"} /\ (job'[c].pc = "in_block" => ran[r] \in {Gone, disk[r]})
    BY <1>c, <2>2, <2>3
  <2>6. QED
    BY <1>2, <2>1, <2>3, <2>4, <2>5 DEF CreatePending, TransactionPcs, ToSealPcs
<1>3. CASE ArchiveBundle(c)
  BY <1>3, <1>a, <1>c DEF ArchiveBundle, TransactionPcs, ToSealPcs
<1>4. CASE SealCommits(c)
  <2>1. CASE Matches(job[c].r, {"pending"})
    <3>1. Transition(job[c].r, "sealed") /\ job'[c] = At("reading_back", job[c].r)
      BY <1>4, <2>1, <1>a DEF SealCommits
    <3>2. chain'[job[c].r] = Append(chain[job[c].r], "sealed")
      BY <1>4, <3>1, <1>e DEF Transition, TypeOK, SealCommits
    <3>3. QED
      BY <1>4, <1>c, <3>1, <3>2 DEF SealCommits, TransactionPcs, ToSealPcs
  <2>2. CASE ~ Matches(job[c].r, {"pending"})
    BY <1>4, <2>2, <1>a, <1>c DEF SealCommits, TransactionPcs, ToSealPcs
  <2>3. QED
    BY <2>1, <2>2
<1>5. CASE BlockEnds(c) \/ BlockRaises(c) \/ SealReads(c) \/ ArchiveRaises(c)
  BY <1>5, <1>a, <1>c DEF BlockEnds, BlockRaises, SealReads, ArchiveRaises, TransactionPcs, ToSealPcs
<1>6. CASE ReadBack(c) \/ AskState(c) \/ FailReads(c) \/ FailCommits(c) \/ OperatorFails(c)
  BY <1>6, <1>a, <1>b, <1>c DEF ReadBack, AskState, FailReads, FailCommits, OperatorFails,
     Returns, Raises, TransactionPcs, ToSealPcs
<1>7. CASE InvalidateReads(c)
  BY <1>7, <1>a, <1>b, <1>d DEF InvalidateReads, BatchPcs
<1>8. CASE InvalidateCommits(c)
  <2>1. \A next \in NextInvalidation(job[c]) : next.pc \notin AtWorkPcs
    BY <1>b, <1>d DEF NextInvalidation, BatchPcs
  <2>2. QED
    BY <1>8, <1>a, <1>b, <2>1 DEF InvalidateCommits
<1>9. CASE TransactionFault(c)
  <2>1. \/ job'[c] = Idle
        \/ /\ job[c].pc \in TransactionPcs \ {"creating"}
           /\ job'[c] = At("to_fail", job[c].r) \/ job'[c] = At("asking", job[c].r)
    BY <1>9, <1>a DEF TransactionFault, TransactionPcs
  <2>2. QED
    BY <2>1, <1>b, <1>c DEF TransactionPcs, ToSealPcs
<1>10. CASE Crash(c)
  BY <1>10, <1>a, <1>b DEF Crash
<1>11. QED
  BY <1>1, <1>2, <1>3, <1>4, <1>5, <1>6, <1>7, <1>8, <1>9, <1>10 DEF Moves, Step

-----------------------------------------------------------------------------
(***************************************************************************)
(* The chain.                                                              *)
(***************************************************************************)
\* An event appended keeps those before it.
LEMMA AppendKeeps ==
  ASSUME NEW S, NEW s \in Seq(S), NEW e \in S
  PROVE  /\ Append(s, e) # <<>> /\ Len(Append(s, e)) = Len(s) + 1
         /\ Append(s, e)[Len(Append(s, e))] = e
         /\ \A i \in 1..Len(s) : Append(s, e)[i] = s[i]
OBVIOUS

\* A chain that says sealed says so for ever.
LEMMA SealedStays ==
  ASSUME TypeOK, [Next]_vars, NEW r \in Runs,
         \E i \in 1..Len(chain[r]) : chain[r][i] = "sealed"
  PROVE  \E i \in 1..Len(chain'[r]) : chain'[r][i] = "sealed"
<1>1. PICK i \in 1..Len(chain[r]) : chain[r][i] = "sealed"
  OBVIOUS
<1>2. chain[r] \in Seq(States \ {"absent"})
  BY DEF TypeOK
<1>3. ASSUME NEW e \in States \ {"absent"}, chain'[r] = Append(chain[r], e)
      PROVE  \E k \in 1..Len(chain'[r]) : chain'[r][k] = "sealed"
  <2>1. i \in 1..Len(chain'[r]) /\ chain'[r][i] = "sealed"
    BY <1>1, <1>2, <1>3, AppendKeeps
  <2>2. QED
    BY <2>1
<1>4. {"pending", "sealed", "failed", "invalidated"} \subseteq States \ {"absent"}
  BY DEF States
<1>5. QED
  BY <1>1, <1>3, <1>4, RecordSteps DEF Kept, Created, Moved

\* A row and its event are written together.
LEMMA ChainMatchesTableStep ==
  ASSUME TypeOK, ChainMatchesTable, [Next]_vars
  PROVE  ChainMatchesTable'
<1> SUFFICES ASSUME NEW r \in Runs
             PROVE  /\ rec'[r] = Logged(r)'
                    /\ \A i \in 1..Len(chain'[r]) : chain'[r][i] = "pending" <=> i = 1
  BY DEF ChainMatchesTable
<1>1. chain[r] \in Seq(States \ {"absent"}) /\ Len(chain[r]) \in Nat
  BY DEF TypeOK
<1>2. rec[r] = Logged(r) /\ \A i \in 1..Len(chain[r]) : chain[r][i] = "pending" <=> i = 1
  BY DEF ChainMatchesTable
<1>3. rec[r] = "absent" <=> chain[r] = <<>>
  <2>1. chain[r] # <<>> => chain[r][Len(chain[r])] \in States \ {"absent"}
    BY <1>1
  <2>2. QED
    BY <1>2, <2>1 DEF Logged
<1>4. {"pending", "sealed", "failed", "invalidated"} \subseteq States \ {"absent"}
  BY DEF States
<1>5. CASE Kept(r)
  BY <1>2, <1>5 DEF Kept, Logged
<1>6. CASE Created(r)
  <2>1. chain'[r] = Append(<<>>, "pending")
    BY <1>3, <1>6 DEF Created
  <2>2. Len(chain'[r]) = 1 /\ chain'[r][1] = "pending" /\ chain'[r] # <<>>
    BY <2>1
  <2>3. QED
    BY <1>6, <2>2 DEF Created, Logged
<1>7. CASE Moved(r)
  <2>1. chain'[r] = Append(chain[r], rec'[r]) /\ rec'[r] \in States \ {"absent"} /\ rec'[r] # "pending"
    BY <1>4, <1>7 DEF Moved
  <2>2. Len(chain[r]) > 0
    BY <1>1, <1>3, <1>7 DEF Moved
  <2>3. /\ chain'[r] # <<>> /\ Len(chain'[r]) = Len(chain[r]) + 1
        /\ chain'[r][Len(chain'[r])] = rec'[r]
        /\ \A i \in 1..Len(chain[r]) : chain'[r][i] = chain[r][i]
    BY <1>1, <2>1, AppendKeeps
  <2>4. rec'[r] = Logged(r)'
    BY <2>3 DEF Logged
  <2>5. ASSUME NEW i \in 1..Len(chain'[r])
        PROVE  chain'[r][i] = "pending" <=> i = 1
    <3>1. CASE i \in 1..Len(chain[r])
      BY <1>2, <2>3, <3>1
    <3>2. CASE i = Len(chain'[r])
      BY <1>1, <2>1, <2>2, <2>3, <3>2
    <3>3. QED
      BY <1>1, <2>3, <3>1, <3>2
  <2>6. QED
    BY <2>4, <2>5
<1>8. QED
  BY <1>5, <1>6, <1>7, RecordSteps

-----------------------------------------------------------------------------
(***************************************************************************)
(* The seal.                                                               *)
(***************************************************************************)
LEMMA WorkRun ==
  ASSUME TypeOK, NEW c \in Clients, job[c].pc \in TransactionPcs
  PROVE  job[c].r \in Runs
<1>1. job[c] \in Jobs /\ job[c] # Idle
  BY DEF TypeOK, Idle, TransactionPcs
<1>2. QED
  BY <1>1, JobFields

\* A transaction past create_pending goes on having a record.
LEMMA AtWorkStep ==
  ASSUME TypeOK, AtWork, [Next]_vars
  PROVE  AtWork'
<1> SUFFICES ASSUME NEW c \in Clients, job'[c].pc \in AtWorkPcs
             PROVE  rec'[job'[c].r] # "absent"
  BY DEF AtWork, AtWorkPcs
<1>1. ASSUME NEW r \in Runs, rec[r] # "absent"
      PROVE  rec'[r] # "absent"
  BY <1>1, RecordSteps DEF Kept, Created, Moved
<1>2. CASE job'[c] = job[c]
  <2>1. rec[job[c].r] # "absent" /\ job[c].r \in Runs
    BY <1>2, WorkRun DEF AtWork, AtWorkPcs
  <2>2. QED
    BY <1>1, <1>2, <2>1
<1>3. CASE Moves(c)
  <2>1. /\ job'[c].r = job[c].r /\ job[c].pc \in TransactionPcs
        /\ job[c].pc = "creating" => rec'[job'[c].r] = "pending"
    BY <1>3, Arrivals
  <2>2. job[c].pc # "creating" => rec[job[c].r] # "absent" /\ job[c].r \in Runs
    BY <2>1, WorkRun DEF AtWork
  <2>3. QED
    BY <1>1, <2>1, <2>2
<1>4. QED
  BY <1>2, <1>3, JobFrame

\* A record's manifest is written once.
LEMMA ManifestStays ==
  ASSUME TypeOK, [Next]_vars, NEW r \in Runs, rec[r] # "absent"
  PROVE  manifest'[r] = manifest[r]
BY RecordSteps DEF Kept, Created, Moved

\* What ledger_transaction compared with its run stays so: a manifest is written once.
LEMMA RanCheckedStep ==
  ASSUME TypeOK, AtWork, RanChecked, [Next]_vars
  PROVE  RanChecked'
<1> SUFFICES ASSUME NEW c \in Clients, job'[c].pc \in ToSealPcs
             PROVE  ran'[job'[c].r] \in {Gone, manifest'[job'[c].r]}
  BY DEF RanChecked, ToSealPcs
<1>0. ToSealPcs \subseteq AtWorkPcs /\ AtWorkPcs \subseteq TransactionPcs
  BY DEF ToSealPcs, AtWorkPcs, TransactionPcs
<1>1. ASSUME job[c].pc \in ToSealPcs
      PROVE  ran'[job[c].r] \in {Gone, manifest'[job[c].r]}
  <2>1. rec[job[c].r] # "absent" /\ job[c].r \in Runs
    BY <1>0, <1>1, WorkRun DEF AtWork, AtWorkPcs
  <2>2. QED
    BY <1>1, <2>1, ManifestStays, EvidenceSteps DEF RanChecked, ToSealPcs
<1>2. CASE job'[c] = job[c]
  BY <1>1, <1>2
<1>3. CASE Moves(c)
  <2>1. /\ job'[c].r = job[c].r
        /\ job[c].pc \in ToSealPcs \/ ran[job'[c].r] \in {Gone, manifest'[job'[c].r]}
    BY <1>0, <1>3, Arrivals
  <2>2. QED
    BY <1>1, <2>1, EvidenceSteps
<1>4. QED
  BY <1>2, <1>3, JobFrame

\* What seal found in the archive stays there.
LEMMA VerifiedStep ==
  ASSUME TypeOK, AtWork, Verified, [Next]_vars
  PROVE  Verified'
<1> SUFFICES ASSUME NEW c \in Clients, job'[c].pc = "committing"
             PROVE  manifest'[job'[c].r] \in archived'
  BY DEF Verified
<1>0. {"archiving", "committing"} \subseteq AtWorkPcs /\ AtWorkPcs \subseteq TransactionPcs
  BY DEF AtWorkPcs, TransactionPcs
<1>1. ASSUME job[c].pc \in {"archiving", "committing"}
      PROVE  manifest'[job[c].r] = manifest[job[c].r]
  <2>1. rec[job[c].r] # "absent" /\ job[c].r \in Runs
    BY <1>0, <1>1, WorkRun DEF AtWork, AtWorkPcs
  <2>2. QED
    BY <2>1, ManifestStays
<1>2. CASE job'[c] = job[c]
  BY <1>1, <1>2, EvidenceSteps DEF Verified
<1>3. CASE Moves(c)
  <2>1. job'[c].r = job[c].r /\ job[c].pc = "archiving" /\ manifest[job'[c].r] \in archived'
    BY <1>0, <1>3, Arrivals
  <2>2. QED
    BY <1>1, <2>1
<1>4. QED
  BY <1>2, <1>3, JobFrame

\* seal reads its row back only after it wrote the event.
LEMMA WroteSealStep ==
  ASSUME TypeOK, WroteSeal, [Next]_vars
  PROVE  WroteSeal'
<1> SUFFICES ASSUME NEW c \in Clients, job'[c].pc = "reading_back"
             PROVE  \E i \in 1..Len(chain'[job'[c].r]) : chain'[job'[c].r][i] = "sealed"
  BY DEF WroteSeal
<1>0. {"reading_back", "committing"} \subseteq AtWorkPcs /\ AtWorkPcs \subseteq TransactionPcs
  BY DEF AtWorkPcs, TransactionPcs
<1>1. CASE job'[c] = job[c]
  <2>1. job[c].r \in Runs
    BY <1>0, <1>1, WorkRun
  <2>2. QED
    BY <1>1, <2>1, SealedStays DEF WroteSeal
<1>2. CASE Moves(c)
  <2> DEFINE r == job[c].r
  <2>1. /\ job'[c].r = r /\ job[c].pc = "committing"
        /\ chain'[r] = Append(chain[r], "sealed")
    BY <1>0, <1>2, Arrivals
  <2>2. r \in Runs
    BY <1>0, <2>1, WorkRun
  <2>3. chain[r] \in Seq(States \ {"absent"}) /\ "sealed" \in States \ {"absent"}
    BY <2>2 DEF TypeOK, States
  <2>4. Len(chain'[r]) \in 1..Len(chain'[r]) /\ chain'[r][Len(chain'[r])] = "sealed"
    BY <2>1, <2>3, AppendKeeps
  <2>5. QED
    BY <2>1, <2>4
<1>3. QED
  BY <1>1, <1>2, JobFrame

\* A chain that comes to say sealed comes to say it by a commit.
LEMMA SealedNew ==
  ASSUME TypeOK, [Next]_vars, NEW r \in Runs,
         \E i \in 1..Len(chain'[r]) : chain'[r][i] = "sealed"
  PROVE  \/ \E i \in 1..Len(chain[r]) : chain[r][i] = "sealed"
         \/ \E c \in Clients : job[c].pc = "committing" /\ job[c].r = r
<1>1. PICK i \in 1..Len(chain'[r]) : chain'[r][i] = "sealed"
  OBVIOUS
<1>2. chain[r] \in Seq(States \ {"absent"}) /\ Len(chain[r]) \in Nat
  BY DEF TypeOK
<1>3. {"pending", "sealed", "failed", "invalidated"} \subseteq States \ {"absent"}
  BY DEF States
<1>4. ASSUME NEW e \in States \ {"absent"}, chain'[r] = Append(chain[r], e), e # "sealed"
      PROVE  \E k \in 1..Len(chain[r]) : chain[r][k] = "sealed"
  <2>1. i \in 1..Len(chain[r])
    BY <1>1, <1>2, <1>4, AppendKeeps
  <2>2. chain[r][i] = "sealed"
    BY <1>1, <1>2, <1>4, <2>1, AppendKeeps
  <2>3. QED
    BY <2>1, <2>2
<1>5. CASE Kept(r)
  BY <1>1, <1>5 DEF Kept
<1>6. CASE Created(r)
  BY <1>3, <1>4, <1>6 DEF Created
<1>7. CASE Moved(r)
  BY <1>3, <1>4, <1>7 DEF Moved
<1>8. QED
  BY <1>5, <1>6, <1>7, RecordSteps

\* seal commits after its bundle was verified in the archive.
LEMMA SealedArchivedStep ==
  ASSUME TypeOK, ChainMatchesTable, AtWork, Verified, SealedArchived, [Next]_vars
  PROVE  SealedArchived'
<1> SUFFICES ASSUME NEW r \in Runs, \E i \in 1..Len(chain'[r]) : chain'[r][i] = "sealed"
             PROVE  manifest'[r] \in archived'
  BY DEF SealedArchived
<1>1. manifest[r] \in archived /\ rec[r] # "absent"
  <2>1. CASE \E i \in 1..Len(chain[r]) : chain[r][i] = "sealed"
    <3>1. manifest[r] \in archived
      BY <2>1 DEF SealedArchived
    <3>2. chain[r] # <<>>
      BY <2>1
    <3>3. chain[r] \in Seq(States \ {"absent"})
      BY DEF TypeOK
    <3>4. Logged(r) # "absent"
      BY <3>2, <3>3 DEF Logged
    <3>5. QED
      BY <3>1, <3>4 DEF ChainMatchesTable
  <2>2. CASE \E c \in Clients : job[c].pc = "committing" /\ job[c].r = r
    BY <2>2 DEF Verified, AtWork, TransactionPcs
  <2>3. QED
    BY <2>1, <2>2, SealedNew
<1>2. QED
  BY <1>1, ManifestStays, EvidenceSteps

\* seal commits for the bundle that was compared with the run.
LEMMA SealedIsRunOutputStep ==
  ASSUME TypeOK, RanChecked, SealedIsRunOutput, [Next]_vars
  PROVE  SealedIsRunOutput'
<1> SUFFICES ASSUME NEW r \in Runs, rec'[r] = "sealed", ran'[r] # Gone
             PROVE  manifest'[r] = ran'[r]
  BY DEF SealedIsRunOutput
<1>1. CASE Kept(r)
  BY <1>1, EvidenceSteps DEF Kept, SealedIsRunOutput
<1>2. CASE Moved(r)
  BY <1>2, EvidenceSteps DEF Moved, RanChecked
<1>3. QED
  BY <1>1, <1>2, RecordSteps DEF Created

\* A transaction returns after its seal's closing read, or when the record
\* is sealed.
LEMMA ReturnSteps ==
  ASSUME TypeOK, [Next]_vars, NEW r \in returned', r \notin returned
  PROVE  \E c \in Clients :
           job[c].r = r /\ (job[c].pc = "reading_back" \/ (job[c].pc = "asking" /\ rec[r] = "sealed"))
BY DEF Next, vars, history, Call, Step, ChangeDisk, StartTransaction, StartFail, StartBatch,
   CreatePending, BlockEnds, BlockRaises, SealReads, ArchiveBundle, ArchiveRaises, SealCommits,
   ReadBack, AskState, FailReads, FailCommits, OperatorFails, InvalidateReads, InvalidateCommits,
   TransactionFault, Crash, Returns, Raises

\* ledger_transaction returns after it read the state sealed.
LEMMA ReturnedSealedStep ==
  ASSUME TypeOK, ChainMatchesTable, WroteSeal, ReturnedSealed, [Next]_vars
  PROVE  ReturnedSealed'
<1> SUFFICES ASSUME NEW r \in returned'
             PROVE  \E i \in 1..Len(chain'[r]) : chain'[r][i] = "sealed"
  BY DEF ReturnedSealed
<1>1. r \in Runs /\ \E i \in 1..Len(chain[r]) : chain[r][i] = "sealed"
  <2>1. CASE r \in returned
    BY <2>1 DEF ReturnedSealed, TypeOK
  <2>2. CASE r \notin returned
    <3>1. PICK c \in Clients :
            job[c].r = r /\ (job[c].pc = "reading_back" \/ (job[c].pc = "asking" /\ rec[r] = "sealed"))
      BY <2>2, ReturnSteps
    <3>2. r \in Runs
      BY <3>1, WorkRun DEF TransactionPcs
    <3>3. CASE job[c].pc = "reading_back"
      BY <3>1, <3>2, <3>3 DEF WroteSeal
    <3>4. CASE rec[r] = "sealed"
      <4>1. chain[r] \in Seq(States \ {"absent"}) /\ Len(chain[r]) \in Nat
        BY <3>2 DEF TypeOK
      <4>2. chain[r] # <<>> /\ chain[r][Len(chain[r])] = "sealed"
        BY <3>2, <3>4 DEF ChainMatchesTable, Logged
      <4>3. Len(chain[r]) \in 1..Len(chain[r])
        BY <4>1, <4>2
      <4>4. QED
        BY <3>2, <4>2, <4>3
    <3>5. QED
      BY <3>1, <3>3, <3>4
  <2>3. QED
    BY <2>1, <2>2
<1>2. QED
  BY <1>1, SealedStays

-----------------------------------------------------------------------------
(***************************************************************************)
(* Pending records.                                                        *)
(***************************************************************************)
\* A client stops working on a pending record only by a fault.
LEMMA Leaves ==
  ASSUME TypeOK, NEW c \in Clients, Moves(c), job[c].pc \in AtWorkPcs
  PROVE  \/ job'[c].pc \in AtWorkPcs /\ job'[c].r = job[c].r
         \/ job[c].r \in faulted'
         \/ job[c].pc = "reading_back"
         \/ rec'[job[c].r] # "pending"
<1>a. \A x : Goto(c, x) => job'[c] = x
  BY GotoEffect
<1>b. \A pc, q : At(pc, q).pc = pc /\ At(pc, q).r = q
  BY DEF At
<1>c. job[c].r \in Runs /\ job[c] # Idle
  BY WorkRun DEF AtWorkPcs, TransactionPcs, Idle
<1>1. CASE Call(c)
  BY <1>1, <1>c DEF Call, StartTransaction, StartFail, StartBatch
<1>2. CASE BlockEnds(c) \/ BlockRaises(c) \/ SealReads(c) \/ ArchiveBundle(c) \/ ArchiveRaises(c)
  BY <1>2, <1>a, <1>b DEF BlockEnds, BlockRaises, SealReads, ArchiveBundle, ArchiveRaises,
     AtWorkPcs, TransactionPcs
<1>3. CASE SealCommits(c) \/ ReadBack(c)
  BY <1>3, <1>a, <1>b DEF SealCommits, ReadBack, AtWorkPcs, TransactionPcs
<1>4. CASE AskState(c) \/ FailReads(c)
  BY <1>4, <1>a, <1>b DEF AskState, FailReads, Returns, Raises, AtWorkPcs, TransactionPcs
<1>5. CASE FailCommits(c)
  BY <1>5, <1>c DEF FailCommits, Matches, Transition, TypeOK
<1>6. CASE CreatePending(c) \/ OperatorFails(c) \/ InvalidateReads(c) \/ InvalidateCommits(c)
  BY <1>6 DEF CreatePending, OperatorFails, InvalidateReads, InvalidateCommits, AtWorkPcs,
     TransactionPcs
<1>7. CASE TransactionFault(c) \/ Crash(c)
  BY <1>7 DEF TransactionFault, Crash, Faulty
<1>8. QED
  BY <1>1, <1>2, <1>3, <1>4, <1>5, <1>6, <1>7 DEF Moves, Step

\* A record that create_pending inserts has its transaction, or a fault.
LEMMA CreatedAtWork ==
  ASSUME TypeOK, [Next]_vars, NEW r \in Runs, Created(r)
  PROVE  \/ r \in faulted'
         \/ \E c \in Clients : job'[c].pc \in AtWorkPcs /\ job'[c].r = r
<1>1. PICK c \in Clients : CreatePending(c) \/ TransactionFault(c) \/ SealCommits(c)
                             \/ FailCommits(c) \/ OperatorFails(c) \/ InvalidateCommits(c)
  BY DEF Created, Next, vars, data, history, Call, Step, ChangeDisk, StartTransaction, StartFail,
     StartBatch, BlockEnds, BlockRaises, SealReads, ArchiveBundle, ArchiveRaises, ReadBack,
     AskState, FailReads, InvalidateReads, Crash
<1>2. \A to : Transition(job[c].r, to) => job[c].r = r /\ to = rec'[r]
  BY DEF Transition, Created, TypeOK
<1>3. CASE CreatePending(c)
  <2>1. Transition(job[c].r, "pending")
    BY <1>3 DEF CreatePending, Created
  <2>2. \E pc \in {"in_block", "to_fail"} : Goto(c, At(pc, r))
    BY <1>2, <1>3, <2>1 DEF CreatePending, Created
  <2>3. QED
    BY <2>2, GotoEffect DEF At, AtWorkPcs, TransactionPcs
<1>4. CASE TransactionFault(c)
  <2>1. Transition(job[c].r, "pending")
    BY <1>4 DEF TransactionFault, Created
  <2>2. QED
    BY <1>2, <1>4, <2>1 DEF TransactionFault, Faulty
<1>5. CASE SealCommits(c) \/ FailCommits(c) \/ OperatorFails(c) \/ InvalidateCommits(c)
  <2>1. \E to \in {"sealed", "failed", "invalidated"} : Transition(job[c].r, to)
    BY <1>5 DEF SealCommits, FailCommits, OperatorFails, InvalidateCommits, Created
  <2>2. QED
    BY <1>2, <2>1 DEF Created
<1>6. QED
  BY <1>1, <1>3, <1>4, <1>5

\* Nobody takes a fault back.
LEMMA FaultedStays == TypeOK /\ [Next]_vars => faulted \subseteq faulted'
BY DEF Next, vars, history, Call, Step, ChangeDisk, StartTransaction, StartFail, StartBatch,
   CreatePending, BlockEnds, BlockRaises, SealReads, ArchiveBundle, ArchiveRaises, SealCommits,
   ReadBack, AskState, FailReads, FailCommits, OperatorFails, InvalidateReads, InvalidateCommits,
   TransactionFault, Crash, Faulty, Returns, Raises

\* A transaction leaves its record finished, unless a fault hit it.
LEMMA LeftPendingStep ==
  ASSUME TypeOK, ChainMatchesTable, WroteSeal, LeftPendingOnlyByFault, [Next]_vars
  PROVE  LeftPendingOnlyByFault'
<1> SUFFICES ASSUME NEW r \in Runs, rec'[r] = "pending", r \notin faulted'
             PROVE  \E c \in Clients : job'[c].pc \in AtWorkPcs /\ job'[c].r = r
  BY DEF LeftPendingOnlyByFault, AtWorkPcs
<1>1. CASE Created(r)
  BY <1>1, CreatedAtWork
<1>2. CASE Kept(r)
  <2>1. PICK c \in Clients : job[c].pc \in AtWorkPcs /\ job[c].r = r
    BY <1>2, FaultedStays DEF Kept, LeftPendingOnlyByFault, AtWorkPcs
  <2>2. job[c].pc # "reading_back"
    <3>1. SUFFICES ASSUME job[c].pc = "reading_back" PROVE FALSE
      OBVIOUS
    <3>2. PICK i \in 1..Len(chain[r]) : chain[r][i] = "sealed"
      BY <2>1, <3>1 DEF WroteSeal
    <3>3. chain[r] # <<>> /\ chain[r][Len(chain[r])] = "pending" /\ Len(chain[r]) \in Nat
      BY <1>2, <3>2 DEF Kept, ChainMatchesTable, Logged, TypeOK
    <3>4. Len(chain[r]) = 1
      BY <3>2, <3>3 DEF ChainMatchesTable
    <3>5. QED
      BY <3>2, <3>3, <3>4
  <2>3. QED
    BY <2>1, <2>2, Leaves, JobFrame
<1>3. QED
  BY <1>1, <1>2, RecordSteps DEF Moved

-----------------------------------------------------------------------------
(***************************************************************************)
(* The theorems.                                                           *)
(***************************************************************************)
LEMMA InitIInv == Init => IInv
<1> SUFFICES ASSUME Init PROVE IInv
  OBVIOUS
<1>1. \A c \in Clients : job[c].pc \notin AtWorkPcs
  BY DEF Init, Idle, AtWorkPcs, TransactionPcs
<1>2. \A r \in Runs : chain[r] = <<>> /\ rec[r] = "absent"
  BY DEF Init
<1>3. AtWork /\ RanChecked /\ Verified /\ WroteSeal
  BY <1>1 DEF AtWork, RanChecked, Verified, WroteSeal, AtWorkPcs, TransactionPcs
<1>4. ChainMatchesTable /\ SealedArchived
  BY <1>2 DEF ChainMatchesTable, Logged, SealedArchived
<1>5. SealedIsRunOutput /\ ReturnedSealed /\ LeftPendingOnlyByFault
  BY <1>2 DEF SealedIsRunOutput, ReturnedSealed, LeftPendingOnlyByFault, Init
<1>6. QED
  BY <1>3, <1>4, <1>5, InitType DEF IInv

\* Every step keeps the inductive invariant.
LEMMA NextIInv == IInv /\ [Next]_vars => IInv'
BY NextType, ChainMatchesTableStep, AtWorkStep, RanCheckedStep, VerifiedStep, WroteSealStep,
   SealedArchivedStep, SealedIsRunOutputStep, ReturnedSealedStep, LeftPendingStep DEF IInv

\* The inductive invariant.
THEOREM Inductive == Spec => []IInv
BY InitIInv, NextIInv, PTL DEF Spec

(***************************************************************************)
(* Records, manifests, the archive and the clients keep their types: no    *)
(* record exists without the manifest of actual files.                     *)
(***************************************************************************)
THEOREM TypeCorrect == Spec => []TypeOK
<1>1. IInv => TypeOK
  BY DEF IInv
<1>2. QED
  BY <1>1, Inductive, PTL

(***************************************************************************)
(* The record's row is what its events say: _transition and create_pending *)
(* append an event exactly when they change the row.                       *)
(***************************************************************************)
THEOREM ChainAgrees == Spec => []ChainMatchesTable
<1>1. IInv => ChainMatchesTable
  BY DEF IInv
<1>2. QED
  BY <1>1, Inductive, PTL

(***************************************************************************)
(* A record that was ever sealed has its bundle in the archive (seal       *)
(* archives and checks before its UPDATE).                                 *)
(***************************************************************************)
THEOREM SealedIsArchived == Spec => []SealedArchived
<1>1. IInv => SealedArchived
  BY DEF IInv
<1>2. QED
  BY <1>1, Inductive, PTL

(***************************************************************************)
(* A sealed record's manifest is of the bundle its run archived (the       *)
(* comparison in ledger_transaction).                                      *)
(***************************************************************************)
THEOREM SealedMatchesRun == Spec => []SealedIsRunOutput
<1>1. IInv => SealedIsRunOutput
  BY DEF IInv
<1>2. QED
  BY <1>1, Inductive, PTL

(***************************************************************************)
(* ledger_transaction returns only once its record was sealed, whatever    *)
(* seal raised.                                                            *)
(***************************************************************************)
THEOREM ReturnsSealed == Spec => []ReturnedSealed
<1>1. IInv => ReturnedSealed
  BY DEF IInv
<1>2. QED
  BY <1>1, Inductive, PTL

(***************************************************************************)
(* Without a fault in its transaction, no record stays pending when the    *)
(* transaction is over.                                                    *)
(***************************************************************************)
THEOREM PendingHasWorker == Spec => []LeftPendingOnlyByFault
<1>1. IInv => LeftPendingOnlyByFault
  BY DEF IInv
<1>2. QED
  BY <1>1, Inductive, PTL

\* One write transaction moves one record along the lifecycle.
LEMMA LifecycleStep ==
  ASSUME TypeOK, [Next]_vars
  PROVE  [RL!Next]_rec
<1>0. {"pending", "sealed", "failed", "invalidated"} \subseteq States \ {"absent"}
  BY DEF States
<1>1. CASE UNCHANGED rec
  BY <1>1
<1>2. ASSUME NEW c \in Clients, CreatePending(c) \/ TransactionFault(c), rec' # rec
      PROVE  RL!Next
  <2> DEFINE r == job[c].r
  <2>1. rec[r] = "absent" /\ Transition(r, "pending")
    BY <1>2 DEF CreatePending, TransactionFault
  <2>2. r \in Runs
    BY <1>2, WorkRun DEF CreatePending, TransactionFault, TransactionPcs
  <2>3. RL!Create(r)
    BY <2>1, <2>2 DEF RL!Create, RL!Absent, Transition
  <2>4. QED
    BY <2>2, <2>3 DEF RL!Next
<1>3. ASSUME NEW c \in Clients,
             SealCommits(c) \/ FailCommits(c) \/ OperatorFails(c) \/ InvalidateCommits(c), rec' # rec
      PROVE  RL!Next
  <2> DEFINE r == job[c].r
  <2>1. r \in Runs
    <3>1. job[c] \in Jobs /\ job[c] # Idle
      BY <1>3 DEF SealCommits, FailCommits, OperatorFails, InvalidateCommits, TypeOK, Idle
    <3>2. QED
      BY <3>1, JobFields
  <2>2. CASE SealCommits(c)
    <3>1. RL!Seal(r)
      BY <1>3, <2>2 DEF SealCommits, Matches, Transition, RL!Seal
    <3>2. QED
      BY <2>1, <3>1 DEF RL!Next
  <2>3. CASE FailCommits(c) \/ OperatorFails(c)
    <3>1. rec[r] \in {"pending", "failed"} /\ rec' = [rec EXCEPT ![r] = "failed"]
      BY <1>3, <2>3 DEF FailCommits, OperatorFails, Matches, Transition
    <3>2. rec[r] # "failed"
      BY <1>3, <2>1, <3>1 DEF TypeOK
    <3>3. RL!Fail(r)
      BY <3>1, <3>2 DEF RL!Fail
    <3>4. QED
      BY <2>1, <3>3 DEF RL!Next
  <2>4. CASE InvalidateCommits(c)
    <3>1. RL!Invalidate(r)
      BY <1>3, <2>4 DEF InvalidateCommits, Matches, Transition, RL!Invalidate
    <3>2. QED
      BY <2>1, <3>1 DEF RL!Next
  <2>5. QED
    BY <1>3, <2>2, <2>3, <2>4
<1>4. QED
  BY <1>1, <1>2, <1>3 DEF Next, vars, data, history, Call, Step, ChangeDisk, StartTransaction,
     StartFail, StartBatch, BlockEnds, BlockRaises, SealReads, ArchiveBundle, ArchiveRaises,
     ReadBack, AskState, FailReads, InvalidateReads, Crash

(***************************************************************************)
(* The ledger implements the state machine of docs/ledger.md: of           *)
(* transitions that race, each either follows it or changes nothing.       *)
(***************************************************************************)
THEOREM LifecycleImplemented == Spec => Lifecycle
<1>1. Init => RL!Init
  BY DEF Init, RL!Init, RL!LifecycleStates, RL!Absent
<1>2. IInv /\ [Next]_vars => [RL!Next]_rec
  BY LifecycleStep DEF IInv
<1>3. QED
  BY <1>1, <1>2, Inductive, PTL DEF Spec, Lifecycle, RL!Spec

=============================================================================

------------------------------- MODULE Ledger -------------------------------
(***************************************************************************)
(* The artifact ledger: stele/ledger/store.py, the pending -> sealed /     *)
(* failed protocol of stele/ledger/transaction.py, the invalidation        *)
(* operations of stele/replay/invalidation.py, and the event chain of      *)
(* stele/ledger/events.py as far as records go.                            *)
(*                                                                         *)
(* Clients (processes with a connection each) record runs, invalidate      *)
(* records and mark records failed, concurrently.  A read, or one committed*)
(* write transaction, is one step.  A record is named by its run (run_id   *)
(* is UNIQUE).  A bundle's content is one value: the bytes of all of its   *)
(* files, named by artifact_hash; the archive is the set of bundles stored *)
(* in it, shared by every run with the same output.                        *)
(***************************************************************************)
EXTENDS Naturals, Sequences, FiniteSets

CONSTANTS
  Clients,
  Runs,        \* succeeded sandbox runs with artifacts, inputs and identities in order
  Contents,    \* contents of an artifact bundle
  Gone,        \* files missing from artifact_dir; also: no digest was taken
  MaxFaults,   \* bound: interrupts, crashes and database errors
  MaxEvents    \* bound: events in a record's part of the chain

ASSUME LedgerAssumption ==
  /\ Gone \notin Contents
  /\ MaxFaults \in Nat
  /\ MaxEvents \in Nat

VARIABLES
  rec,        \* artifact_records.state, "absent" before create_pending
  manifest,   \* artifact_hash of the record
  chain,      \* chain[r]: kinds of the events with subject r, in order
  disk,       \* the bundle under artifact_dir now
  ran,        \* SandboxResult.artifact_bundle_digest of the run
  archived,   \* bundles the archive holds, tree and blobs
  job,        \* job[c]: where client c is, with its local variables
  returned,   \* runs whose ledger_transaction returned normally
  raised,     \* runs whose ledger_transaction raised after create_pending
  faults,     \* how many faults have happened (bounded by MaxFaults)
  faulted     \* runs a fault hit while they were being recorded

vars == <<rec, manifest, chain, disk, ran, archived, job, returned, raised, faults, faulted>>

data    == <<disk, ran, archived>>
history == <<returned, raised, faults, faulted>>

States == {"absent", "pending", "sealed", "failed", "invalidated"}

-----------------------------------------------------------------------------
(***************************************************************************)
(* Clients.  A job names the operation's next step and its record; a batch *)
(* of invalidations also has what is left of it, and all its candidates.   *)
(***************************************************************************)
Idle      == [pc |-> "idle"]
At(pc, r) == [pc |-> pc, r |-> r]
Batch(pc, r, rest, all) == [pc |-> pc, r |-> r, rest |-> rest, all |-> all]

TransactionPcs == {"creating", "in_block", "sealing", "archiving", "committing",
                   "reading_back", "asking", "to_fail", "failing"}
BatchPcs       == {"to_invalidate", "invalidating"}

Goto(c, j) == job' = [job EXCEPT ![c] = j]

\* What a batch does next: its next candidate, in any order, or nothing.
NextInvalidation(j) ==
  IF j.rest = {} THEN {Idle}
  ELSE {Batch("to_invalidate", r, j.rest \ {r}, j.all) : r \in j.rest}

\* _transition: UPDATE ... WHERE state IN from, and one event if a row matched.
Matches(r, from) == rec[r] \in from
Transition(r, to) ==
  /\ rec' = [rec EXCEPT ![r] = to]
  /\ chain' = [chain EXCEPT ![r] = Append(@, to)]

Returns(c, r) == Goto(c, Idle) /\ returned' = returned \cup {r} /\ UNCHANGED <<raised, faults, faulted>>
Raises(c, r)  == Goto(c, Idle) /\ raised' = raised \cup {r} /\ UNCHANGED <<returned, faults, faulted>>

-----------------------------------------------------------------------------
(***************************************************************************)
(* The output directory is the host's: files may change or disappear until *)
(* the record has left pending, at any time.                               *)
(***************************************************************************)
ChangeDisk(r) ==
  /\ rec[r] \in {"absent", "pending"}
  /\ \E content \in (Contents \cup {Gone}) \ {disk[r]} : disk' = [disk EXCEPT ![r] = content]
  /\ UNCHANGED <<rec, manifest, chain, ran, archived, job>> /\ UNCHANGED history

-----------------------------------------------------------------------------
(***************************************************************************)
(* ledger_transaction(), record_run()                                      *)
(***************************************************************************)
StartTransaction(c, r) ==
  /\ job[c] = Idle
  /\ Goto(c, At("creating", r))
  /\ UNCHANGED <<rec, manifest, chain>> /\ UNCHANGED data /\ UNCHANGED history

\* Slip: no comparison with the bundle the run archived.
CreatePendingUncompared(c) ==
  LET r == job[c].r IN
  /\ job[c].pc = "creating"
  /\ IF rec[r] # "absent" \/ disk[r] = Gone
     THEN Goto(c, Idle) /\ UNCHANGED <<rec, manifest, chain>>
     ELSE /\ Transition(r, "pending")
          /\ manifest' = [manifest EXCEPT ![r] = disk[r]]
          /\ Goto(c, At("in_block", r))
  /\ UNCHANGED data /\ UNCHANGED history

\* Slip: missing files go unnoticed.
CreatePendingOfMissing(c) ==
  LET r == job[c].r IN
  /\ job[c].pc = "creating"
  /\ IF rec[r] # "absent"
     THEN Goto(c, Idle) /\ UNCHANGED <<rec, manifest, chain>>
     ELSE /\ Transition(r, "pending")
          /\ manifest' = [manifest EXCEPT ![r] = disk[r]]
          /\ Goto(c, At(IF ran[r] \in {Gone, disk[r]} THEN "in_block" ELSE "to_fail", r))
  /\ UNCHANGED data /\ UNCHANGED history

\* create_pending: the manifest of the files on disk, inserted with its event
\* unless the run has a record already.  Then the check that the bundle is
\* the one the run archived.
CreatePending(c) ==
  LET r == job[c].r IN
  /\ job[c].pc = "creating"
  /\ IF rec[r] # "absent" \/ disk[r] = Gone
     THEN /\ Goto(c, Idle)
          /\ UNCHANGED <<rec, manifest, chain>>
     ELSE /\ Transition(r, "pending")
          /\ manifest' = [manifest EXCEPT ![r] = disk[r]]
          /\ Goto(c, At(IF ran[r] \in {Gone, disk[r]} THEN "in_block" ELSE "to_fail", r))
  /\ UNCHANGED data /\ UNCHANGED history

\* The with block ends, or raises.
BlockEnds(c) ==
  /\ job[c].pc = "in_block"
  /\ Goto(c, At("sealing", job[c].r))
  /\ UNCHANGED <<rec, manifest, chain>> /\ UNCHANGED data /\ UNCHANGED history

BlockRaises(c) ==
  /\ job[c].pc = "in_block"
  /\ Goto(c, At("to_fail", job[c].r))
  /\ UNCHANGED <<rec, manifest, chain>> /\ UNCHANGED data /\ UNCHANGED history

\* seal reads the record; one that has left pending raises.
SealReads(c) ==
  LET r == job[c].r IN
  /\ job[c].pc = "sealing"
  /\ Goto(c, At(IF rec[r] = "pending" THEN "archiving" ELSE "asking", r))
  /\ UNCHANGED <<rec, manifest, chain>> /\ UNCHANGED data /\ UNCHANGED history

\* Slip: files gone from disk are taken to be archived.
ArchiveBundleTrusting(c) ==
  LET r == job[c].r IN
  /\ job[c].pc = "archiving"
  /\ IF disk[r] \in {manifest[r], Gone}
     THEN /\ archived' = IF disk[r] = Gone THEN archived ELSE archived \cup {manifest[r]}
          /\ Goto(c, At("committing", r))
     ELSE Goto(c, At("asking", r)) /\ UNCHANGED archived
  /\ UNCHANGED <<rec, manifest, chain, disk, ran>> /\ UNCHANGED history

\* archive_bundle: the files on disk are stored and must be the manifest's;
\* without them, the archive must hold the bundle.
ArchiveBundle(c) ==
  LET r == job[c].r IN
  /\ job[c].pc = "archiving"
  /\ IF disk[r] = manifest[r] \/ (disk[r] = Gone /\ manifest[r] \in archived)
     THEN /\ archived' = archived \cup {manifest[r]}
          /\ Goto(c, At("committing", r))
     ELSE /\ Goto(c, At("asking", r))
          /\ UNCHANGED archived
  /\ UNCHANGED <<rec, manifest, chain, disk, ran>> /\ UNCHANGED history

\* A full disk, a corrupt stored blob: archive_bundle raises.
ArchiveRaises(c) ==
  /\ job[c].pc = "archiving"
  /\ Goto(c, At("asking", job[c].r))
  /\ UNCHANGED <<rec, manifest, chain>> /\ UNCHANGED data /\ UNCHANGED history

\* Slip: the UPDATE has no condition on the state.
SealCommitsAnyway(c) ==
  /\ job[c].pc = "committing"
  /\ Transition(job[c].r, "sealed")
  /\ Goto(c, At("reading_back", job[c].r))
  /\ UNCHANGED manifest /\ UNCHANGED data /\ UNCHANGED history

SealCommits(c) ==
  LET r == job[c].r IN
  /\ job[c].pc = "committing"
  /\ IF Matches(r, {"pending"})
     THEN Transition(r, "sealed") /\ Goto(c, At("reading_back", r))
     ELSE Goto(c, At("asking", r)) /\ UNCHANGED <<rec, chain>>
  /\ UNCHANGED manifest /\ UNCHANGED data /\ UNCHANGED history

\* seal's closing read; the transaction is done.
ReadBack(c) ==
  /\ job[c].pc = "reading_back"
  /\ Returns(c, job[c].r)
  /\ UNCHANGED <<rec, manifest, chain>> /\ UNCHANGED data

\* Slip: a record that is no longer pending is taken to be sealed.
AskStateLeftPending(c) ==
  LET r == job[c].r IN
  /\ job[c].pc = "asking"
  /\ IF rec[r] # "pending"
     THEN Returns(c, r)
     ELSE Goto(c, At("to_fail", r)) /\ UNCHANGED history
  /\ UNCHANGED <<rec, manifest, chain>> /\ UNCHANGED data

\* Slip: an error in seal is raised as it is.
AskStateRaises(c) ==
  LET r == job[c].r IN
  /\ job[c].pc = "asking"
  /\ IF rec[r] = "sealed" THEN Returns(c, r) ELSE Raises(c, r)
  /\ UNCHANGED <<rec, manifest, chain>> /\ UNCHANGED data

\* Sealing raised: "The SEALED write is durable; only the read-back after it
\* failed" is still a success.
AskState(c) ==
  LET r == job[c].r IN
  /\ job[c].pc = "asking"
  /\ IF rec[r] = "sealed"
     THEN Returns(c, r)
     ELSE Goto(c, At("to_fail", r)) /\ UNCHANGED history
  /\ UNCHANGED <<rec, manifest, chain>> /\ UNCHANGED data

\* _fail_quietly: fail() reads, then transitions; what it raises is swallowed
\* and the transaction raises the original exception.
FailReads(c) ==
  LET r == job[c].r IN
  /\ job[c].pc = "to_fail"
  /\ IF rec[r] \in {"sealed", "invalidated"}
     THEN Raises(c, r)
     ELSE Goto(c, At("failing", r)) /\ UNCHANGED history
  /\ UNCHANGED <<rec, manifest, chain>> /\ UNCHANGED data

\* Slip: the event is appended whether a row matched or not.
FailCommitsLogged(c) ==
  LET r == job[c].r IN
  /\ job[c].pc = "failing"
  /\ rec' = IF Matches(r, {"pending", "failed"}) THEN [rec EXCEPT ![r] = "failed"] ELSE rec
  /\ chain' = [chain EXCEPT ![r] = Append(@, "failed")]
  /\ Raises(c, r)
  /\ UNCHANGED manifest /\ UNCHANGED data

FailCommits(c) ==
  LET r == job[c].r IN
  /\ job[c].pc = "failing"
  /\ IF Matches(r, {"pending", "failed"}) THEN Transition(r, "failed") ELSE UNCHANGED <<rec, chain>>
  /\ Raises(c, r)
  /\ UNCHANGED manifest /\ UNCHANGED data

-----------------------------------------------------------------------------
(***************************************************************************)
(* fail(), called by an operator.  Failing a failed record again records   *)
(* the new error, with an event.                                           *)
(***************************************************************************)
StartFail(c, r) ==
  /\ job[c] = Idle
  /\ rec[r] \in {"pending", "failed"}
  /\ Len(chain[r]) < MaxEvents
  /\ Goto(c, At("op_failing", r))
  /\ UNCHANGED <<rec, manifest, chain>> /\ UNCHANGED data /\ UNCHANGED history

OperatorFails(c) ==
  LET r == job[c].r IN
  /\ job[c].pc = "op_failing"
  /\ IF Matches(r, {"pending", "failed"}) THEN Transition(r, "failed") ELSE UNCHANGED <<rec, chain>>
  /\ Goto(c, Idle)
  /\ UNCHANGED manifest /\ UNCHANGED data /\ UNCHANGED history

-----------------------------------------------------------------------------
(***************************************************************************)
(* invalidate_record, invalidate_by_source_hash, auto_invalidate_drifted:  *)
(* one pass over candidates listed before it, one invalidate() each.  The  *)
(* first candidate that cannot be invalidated any more ends the pass.      *)
(***************************************************************************)
StartBatch(c, candidates) ==
  /\ job[c] = Idle
  /\ candidates # {}
  /\ \A r \in candidates : rec[r] \in {"pending", "sealed"}
  /\ \E r \in candidates : Goto(c, Batch("to_invalidate", r, candidates \ {r}, candidates))
  /\ UNCHANGED <<rec, manifest, chain>> /\ UNCHANGED data /\ UNCHANGED history

InvalidateReads(c) ==
  LET j == job[c] IN
  /\ j.pc = "to_invalidate"
  /\ Goto(c, IF rec[j.r] \in {"invalidated", "failed"}
             THEN Idle ELSE Batch("invalidating", j.r, j.rest, j.all))
  /\ UNCHANGED <<rec, manifest, chain>> /\ UNCHANGED data /\ UNCHANGED history

InvalidateCommits(c) ==
  LET j == job[c] IN
  /\ j.pc = "invalidating"
  /\ IF Matches(j.r, {"pending", "sealed"})
     THEN Transition(j.r, "invalidated") /\ \E next \in NextInvalidation(j) : Goto(c, next)
     ELSE Goto(c, Idle) /\ UNCHANGED <<rec, chain>>
  /\ UNCHANGED manifest /\ UNCHANGED data /\ UNCHANGED history

-----------------------------------------------------------------------------
(***************************************************************************)
(* Faults.                                                                 *)
(***************************************************************************)
Faulty(c) == /\ faults < MaxFaults
             /\ faults' = faults + 1
             /\ faulted' = faulted \cup {job[c].r}

\* An interrupt, or a database that is locked or gone, at a step of
\* ledger_transaction.  The exception handlers of the block and of seal mark
\* the record failed; nothing does for one that create_pending committed and
\* could not read back.  A second exception, in a handler, ends it: one from
\* the database is swallowed, an interrupt is not.
TransactionFault(c) ==
  LET r == job[c].r IN
  /\ job[c].pc \in TransactionPcs \ {"in_block"}
  /\ Faulty(c)
  /\ \/ /\ job[c].pc = "creating"
        /\ Goto(c, Idle)
        /\ UNCHANGED <<rec, manifest, chain, returned, raised>>
     \/ /\ job[c].pc = "creating"
        /\ rec[r] = "absent" /\ disk[r] # Gone
        /\ Transition(r, "pending")
        /\ manifest' = [manifest EXCEPT ![r] = disk[r]]
        /\ Goto(c, Idle)
        /\ raised' = raised \cup {r}
        /\ UNCHANGED returned
     \/ /\ job[c].pc \in {"sealing", "archiving", "committing", "reading_back"}
        /\ \E pc \in {"asking", "to_fail"} : Goto(c, At(pc, r))
        /\ UNCHANGED <<rec, manifest, chain, returned, raised>>
     \/ /\ job[c].pc = "asking"
        /\ Goto(c, At("to_fail", r))
        /\ UNCHANGED <<rec, manifest, chain, returned, raised>>
     \/ /\ job[c].pc \in {"asking", "to_fail", "failing"}
        /\ Goto(c, Idle)
        /\ raised' = raised \cup {r}
        /\ UNCHANGED <<rec, manifest, chain, returned>>
  /\ UNCHANGED data

\* The process dies.
Crash(c) ==
  /\ job[c] # Idle
  /\ Faulty(c)
  /\ Goto(c, Idle)
  /\ UNCHANGED <<rec, manifest, chain, returned, raised>> /\ UNCHANGED data

-----------------------------------------------------------------------------
\* A run was given the ledger's archive and stored its bundle there, or not;
\* its files may have changed since.
Init ==
  /\ rec = [r \in Runs |-> "absent"]
  /\ manifest = [r \in Runs |-> Gone]
  /\ chain = [r \in Runs |-> <<>>]
  /\ disk \in [Runs -> Contents]
  /\ ran \in [Runs -> Contents \cup {Gone}]
  /\ archived = {ran[r] : r \in Runs} \ {Gone}
  /\ job = [c \in Clients |-> Idle]
  /\ returned = {}
  /\ raised = {}
  /\ faults = 0
  /\ faulted = {}

Call(c) ==
  \/ \E r \in Runs : StartTransaction(c, r) \/ StartFail(c, r)
  \/ \E candidates \in SUBSET Runs : StartBatch(c, candidates)

Step(c) ==
  \/ CreatePending(c)
  \/ BlockEnds(c)
  \/ BlockRaises(c)
  \/ SealReads(c)
  \/ ArchiveBundle(c)
  \/ ArchiveRaises(c)
  \/ SealCommits(c)
  \/ ReadBack(c)
  \/ AskState(c)
  \/ FailReads(c)
  \/ FailCommits(c)
  \/ OperatorFails(c)
  \/ InvalidateReads(c)
  \/ InvalidateCommits(c)

Next ==
  \/ \E r \in Runs : ChangeDisk(r)
  \/ \E c \in Clients : Call(c) \/ Step(c) \/ TransactionFault(c) \/ Crash(c)

Spec == Init /\ [][Next]_vars

\* A client that runs gets on with its operation, and a with block ends.
FairSpec == Spec /\ \A c \in Clients : WF_vars(Step(c))

-----------------------------------------------------------------------------
(***************************************************************************)
(* Properties.                                                             *)
(***************************************************************************)
Jobs ==
  {Idle}
    \cup {At(pc, r) : pc \in TransactionPcs \cup {"op_failing"}, r \in Runs}
    \cup {Batch(pc, r, rest, all) : pc \in BatchPcs, r \in Runs,
                                    rest \in SUBSET Runs, all \in SUBSET Runs}

\* Types; a record's manifest is the content of an actual bundle.
TypeOK ==
  /\ rec \in [Runs -> States]
  /\ manifest \in [Runs -> Contents \cup {Gone}]
  /\ \A r \in Runs : manifest[r] = Gone <=> rec[r] = "absent"
  /\ chain \in [Runs -> Seq(States \ {"absent"})]
  /\ disk \in [Runs -> Contents \cup {Gone}]
  /\ ran \in [Runs -> Contents \cup {Gone}]
  /\ archived \subseteq Contents
  /\ job \in [Clients -> Jobs]
  /\ returned \subseteq Runs
  /\ raised \subseteq Runs
  /\ faults \in Nat
  /\ faulted \subseteq Runs

\* The state the chain gives a record (_apply: each event after its creation
\* replaces the state).
Logged(r) == IF chain[r] = <<>> THEN "absent" ELSE chain[r][Len(chain[r])]

\* verify_ledger finds no difference between a record's row and the chain,
\* whatever clients raced and wherever one died: "The record and its ...
\* event commit together", and none is appended for an UPDATE without a match.
ChainMatchesTable ==
  \A r \in Runs :
    /\ rec[r] = Logged(r)
    /\ \A i \in 1..Len(chain[r]) : chain[r][i] = "pending" <=> i = 1

\* docs/ledger.md: sealed means the bundle is in the archive as recorded,
\* although seal archives, checks and writes the state in separate steps and
\* the files may change or go between them.
SealedArchived == \A r \in Runs : "sealed" \in {chain[r][i] : i \in 1..Len(chain[r])}
                                    => manifest[r] \in archived

\* A sealed record is about the output its run archived: files that changed
\* between the run and create_pending never become evidence.
SealedIsRunOutput ==
  \A r \in Runs : rec[r] = "sealed" /\ ran[r] # Gone => manifest[r] = ran[r]

\* A ledger_transaction that returned did seal its record, even when seal
\* raised after its write or another client changed the record since.
ReturnedSealed ==
  \A r \in returned : \E i \in 1..Len(chain[r]) : chain[r][i] = "sealed"

\* A record is pending only while a transaction is at work on it, unless a
\* fault stopped that transaction.
LeftPendingOnlyByFault ==
  \A r \in Runs :
    rec[r] = "pending" /\ r \notin faulted
      => \E c \in Clients : /\ job[c].pc \in TransactionPcs \ {"creating"}
                            /\ job[c].r = r

\* The ledger implements the record lifecycle of docs/ledger.md: of two
\* transitions that race, one fails and none overwrites.
RL == INSTANCE RecordLifecycle WITH Records <- Runs, state <- rec
Lifecycle == RL!Spec

\* Every record leaves pending, in the end, unless a fault hit its transaction.
LeavesPending ==
  \A r \in Runs : rec[r] = "pending" ~> (rec[r] # "pending" \/ r \in faulted)

\* docs/ledger.md: "The transaction always finishes its record", "(including
\* KeyboardInterrupt)": one that raised has not left it pending.
TransactionFinishes == \A r \in raised : rec[r] # "pending"

\* invalidation.py: "Invalidate every SEALED or PENDING record over the input
\* Snapshot"; candidates already invalidated "are skipped rather than aborting
\* the batch partway through".  A batch that ends has left none standing.
BatchCovers ==
  [][\A c \in Clients :
       job[c].pc \in BatchPcs /\ job'[c] = Idle /\ faults' = faults
         => \A r \in job[c].all : rec'[r] \notin {"pending", "sealed"}]_vars

=============================================================================

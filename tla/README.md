# A verification of Stele in TLA+

Stele runs untrusted document parsers in a sandbox, keeps their inputs and
outputs in a content-addressed archive, records every run in a ledger, and
delivers sealed records to downstream targets. This directory holds TLA+ models
of its parts (`src/stele/...`), the TLC configurations that check them on small
instances, and theorems about them that TLAPS proves for every instance.

    tlc -workers 2 -config dispatch_race.cfg MCDispatch    # one run
    tlapm DispatchProofs.tla                               # the proofs of one module

Paths below are relative to `src/stele/`.

## 1. Inventory

Stele is a library and some command lines; there is no server. Concurrency is
between threads and operating system processes that share one SQLite database
(WAL, one write transaction at a time, `BEGIN IMMEDIATE`), one archive
directory, and the targets; every one of them may die between two steps.

| Component | State | Operations | Correct when |
|---|---|---|---|
| Ledger `ledger/store.py` | table `artifact_records` | `create_pending`, `seal`, `fail`, `invalidate`, queries | a record follows the state machine of docs/ledger.md whatever races; sealed means archived as recorded |
| Ledger transaction `ledger/transaction.py` | none of its own: one record on its way | `ledger_transaction`, `record_run` | returns only for a sealed record, leaves none pending, records the output the run archived |
| Event chain `ledger/events.py` | table `events`, hash-chained | `append_event`, `EventLog.verify`, `verify_ledger`, `backfill` | the chain and the tables agree; alterations are reported and honest ledgers are not |
| Migration `ledger/migration.py` | schema version | `migrate_to_current` | all or nothing; nothing a ledger cannot vouch for stays sealed |
| Delivery log `ledger/delivery.py` | tables `deliveries`, `delivery_events` (append-only) | `open_delivery`, `append`, `append_intent`, `append_unwritten_failure`; `status`, `possibly_written`, `explain` | the log never rules out data that the target holds; one payload per delivery |
| Dispatcher `contracts/dispatcher.py` | registered writers | `dispatch`, `invalidate`, `retract`, `retract_invalidated` | only sealed records reach targets, complete when reported so; invalidated data goes in the end |
| Adapter contract `contracts/adapter.py` | none | `validate_chunks`, `SealedBundle` | accepts exactly well-formed chunks |
| Archive `archive/` | blobs, trees, snapshot and source records in files | `put_*`, `get_*`, `read_*`, `export`, ingestion | nothing partial under a final name, nothing overwritten, no read of bytes that do not hash to their name |
| Replay `replay/engine.py`, `policy.py` | table `replays` | `replay_record`, `invalidate_diverged` | an outcome says what was compared; a diverged record is invalidated |
| Validation `replay/planner.py`, `validator.py`, `views.py` | none | `plan_validation`, views | drift is reported, the views partition the records |
| Invalidation `replay/invalidation.py` | none | `invalidate_record`, `invalidate_by_source_hash`, `auto_invalidate_drifted` | every candidate is invalidated |
| Runner `containment/runner.py`, `staging.py`, `artifacts.py`, `capture.py` | a run's directories | `run_in_sandbox` | what is archived is what the parser read and wrote; nothing is left behind |
| Backends `containment/backend.py`, `oci.py`, `wasm.py` | child processes, containers | `execute` | the timeout holds, nothing runs on, the outcome is classified right |
| Campaign `verification/campaign.py` | a journal file | `run`, `observe` | resumes after a crash, observes each pair once |
| Report, sign-off `verification/report.py`, `signoff.py` | signature events | `build_report`, `sign_off`, `check_sign_off` | a signature is of a report that still holds |
| Identity, extraction, ChatGPT adapter | none (pure functions) | parse, normalise, resolve | agree with their documented rules |
| Kernel filters, parser images, command lines | none | tables, system calls, I/O | outside a state model |

How they interact: the runner stores inputs and outputs in the archive; the
transaction writes a record and seals it once its bundle is in the archive; the
dispatcher reads sealed records and the archive, calls an adapter and a writer
and writes the delivery log; invalidation, by an operator, a validation or a
replay, changes the record and calls the dispatcher's removals (or does not: a
later `retract_invalidated` catches up). Each change of a table appends to the
event chain in the same write transaction.

Hard to test here: check-then-act across two transactions (state checks,
delivered checks, sealing), outcomes of overlapping attempts, removal against
late writes, process death between intent, effect and receipt, interrupts in
exception handlers, files that change between hashing and storing, a kill that
races an exit, publishing a file that somebody else publishes. `PROJECT.json`
lists each at its line.

## 2. Plan

The order follows the weight of a mistake: data at a target the log denies, and
evidence that is not what a run produced, come first.

| Step | Modules | About | State |
|---|---|---|---|
| 1 | `DeliveryLog`, `DeliveryEvents`, `DeliveryEventsProofs` | the reading of a delivery's events, against their meaning | done, proved |
| 2 | `Dispatch`, `MCDispatch`, `DispatchProofs` | Dispatchers, targets and the log | done, proved |
| 3 | `RecordLifecycle`, `Ledger`, `MCLedger`, `LedgerProofs` | records, transactions, invalidation; refinement of the state machine | done, proved |
| 4 | `StoreContract`, `Archive`, `MCArchive`, `ArchiveProofs` | publishing with temporary file and link; death, power loss, concurrent writers; refines an append-only store | done, proved |
| 5 | `EventChain`, `Migration`, `MCMigration`, `MigrationProofs` | opening and migrating a ledger; chain, anchors, `verify_ledger` reading beside writers | done, proved |
| 6 | `Backends`, `Sandbox`, `MCSandbox`, `SandboxProofs` | choosing a backend; staging, timer, wait and kill, container removal, collecting and storing | done, proved |
| 7 | `Comparison`, `Campaign`, `Replay`, `MCReplay` | a resumable campaign; replay and validation passes over its records; the comparison policy | done, proved |
| 8 | `SignOff`, `MCSignOff`, `SignOffProofs` | building, signing off and checking a report | done, proved |
| 9 | `Folding` | folds over lists and functions over nested values as recursive functions, and induction for them | done, proved |
| 10 | `SignOffProofs` | that the policy's walk and the leaves of two values agree; `ReplayJustified` and `SignedCovers` | done, proved |

The plan is done: every safety property that a passing run checks is also
proved. What is left to the model checker is in section 11.

Composition: `Migration` EXTENDS `EventChain` (a ledger is opened before it is
written), `Sandbox` EXTENDS `Backends`, `SignOff` EXTENDS `Replay` EXTENDS
`Campaign` EXTENDS `Comparison` (the journal, the records and the files of one
are the inputs of the next). `DeliveryEvents`, `EventChain`, `Migration` and
`Campaign` take `Folding` by INSTANCE, each with a step of its own, and
`SignOffProofs` takes it twice, with the steps of `Walk` and of `Leaves`.

### Recursion that can be reasoned about (`Folding`)

The code reads lists in one pass: a delivery's events, the chain's events, the
rows a migration imports, the runs of a corpus. `Folding` defines such a pass as
the last of its `Stages`, a recursive function on the numbers up to the length
of the list. `StagesDefined` proves that the recursion has a solution,
`FoldedEmpty` and `FoldedAppend` what the fold makes of nothing and of one
element more. The induction under them is stated about sets of numbers
(`Inductive`, `InductiveUpTo`), from the fact that a set of numbers has a least
one: the library's induction theorems are about a predicate given as an
operator, which the provers cannot instantiate.

The tolerance policy reads nested values, to any depth. `Folding` has the same
for a function over them: the parts of values are `WellFounded` if among any
values there is one with no part among them (no value is in itself), a step is
`Local` if it reads a function nowhere but at the parts of a value, and
`SolutionExists` proves that then a function satisfies the recursion at every
value (`Attempt` is a solution on some values and their parts; two attempts
agree). An induction over values takes the set of the values for which the claim
fails and, if there is one, one with no part in that set.

## 3. The delivery log: `DeliveryLog`, `DeliveryEvents`

`DeliveryLog` has the events of one delivery and the fold the code computes from
them in one pass: `status`, the payload bound by the first intent,
`possibly_written`'s three locals `written`, `outstanding` and
`legacy_in_flight` (`legacy`), and `explain`. `After(view, event)` is one turn of
the loop (`delivery.py:127-161`), so a model may keep the fold and forget the
list. `DeliveryEvents` keeps the list and lets the log's methods append to it,
the events of a ledger from before schema 8 (without `attempt_id`) first.

`delivery_events` (3 attempts, 6 events) checks the fold against the meaning of
the list: `PossiblyWrittenMeaning` restates it as "an intent without an outcome
of its own, or an outcome that left data and no removal receipt after it";
`ExplainNeverUnderstates` and `UnwrittenFailureNeutral` say what an operator may
conclude. Six events are enough for two attempts, their outcomes and a removal
in every order. `CHECK_DEADLOCK FALSE` because the list is bounded.

### Proved (`DeliveryEventsProofs`)

For any attempts and payloads and lists of any length, from
`DeliveryLogAssumption`: the type invariant, `PossiblyWrittenMeaning`,
`ExplainNeverUnderstates` and `UnwrittenFailureNeutral`. The inductive invariant
says each of the fold's locals of the list:

- `outstanding` is the set of attempts whose intent no outcome concluded;
- `legacy` says that the old events end in an intent that never reported
  (`Waiting`);
- `written` says that some outcome left data (`LeftData`), or an old intent was
  followed by another one and so never reported (`Abandoned`), with no removal
  receipt after it;
- a delivery that was never attempted has no events.

`Abandoned` and `Waiting` together are what the property calls an intent without
an outcome, for ledgers from before schema 8. There the last old event must be
told from the others, which is why the fold needs two locals for one statement.
A lemma per part says what one more event changes.

## 4. The dispatcher: `Dispatch`

| Model | Code |
|---|---|
| `StartDispatch` | dispatch(): `dispatcher.py:168-181` |
| `OpenDelivery`, `CheckDelivered` | 183-186, `delivery.py:248-267` |
| `TransformFails`, `AppendIntent` | 188-202, `delivery.py:306-345` |
| `LandChunk`, `WriteEnds`, `LogOutcome` | 204-212, the writer's protocol 42-69 |
| `Recheck` | 214-220 |
| `StartInvalidate`, `InvalidateRecord`, `StartCatchUp`, `Retract` | 224-261 |
| `LogRemovalIntent`, `Erase`, `EraseFails`, `LogRemovalOutcome` | 263-279, 71-77 |
| `SealRecord`, `FailRecord`, `InvalidateDirectly` | the ledger's other callers |
| `Crash`, `LandStray` | a process dies; what it had sent may land later |

Each action is one read, one committed transaction or one step of a target. A
target is the set of `<<payload, chunk>>` under a `dispatch_id`, so writing a
chunk again changes nothing (the idempotency writers must have). `job[p]` is a
Dispatcher's program counter and locals. `raced` is a history variable: the
deliveries with an outcome logged between the effect of a removal and its
receipt. `everSealed` is another: the records that the ledger had as sealed at
some time. A record is invalidated from pending too, so its state now does not
tell; `NothingUnsealedHeld` says that a delivery is opened, and data held, only
of a record in `everSealed`. `Retract` has retract()'s own check (244-246): of a
record that is not invalidated the operation ends in an error. Registered
writers are a constant: a Dispatcher is set up once.

| Run | Instance | Shows |
|---|---|---|
| `dispatch_race` | 2 Dispatchers, 2 deliveries of a record, one Dispatcher without a writer for one of them, 2 attempts, 2 payloads of 1 chunk, 1 crash | all safety properties under races and in removal passes |
| `dispatch_live` | 2 Dispatchers, 1 delivery, 3 attempts of 2 chunks, 1 crash, no symmetry | `InvalidatedCleaned` |
| `dispatch_sound` | violation | finding 1 |

Two Dispatchers are the least that race; two payloads a conflict; two deliveries
a pass that must go on after one that it cannot remove. Partial writes are in
`dispatch_live` (two chunks, and a third attempt that follows two that never
reported) and in the proofs, which hold for every number of chunks and attempts.

Fairness (`dispatch_live`): a Dispatcher that runs gets on with its operation
and a write that was sent lands or is lost (weak fairness: the code has no
waiting but for SQLite's lock); a removal retried for ever succeeds at some
time, for each delivery of its own, since targets fail independently (strong
fairness), and somebody keeps calling `retract_invalidated` while records are
invalidated (strong fairness: docs/adapter.md asks the operator for that). No
fairness on calls of `dispatch`, failures or crashes.

### Proved (`DispatchProofs`)

For any number of Dispatchers, records, targets, attempts, payloads, chunks and
crashes, from `DeliveryLogAssumption` and `DispatchAssumption` (the names of
"none" are not values; `NChunks` is positive): `TypeCorrect`,
`AttemptsStayApart`, `OnePayload`, `SoundWithoutRace`, `ReceiptsComplete`,
`OnlySealedDelivered` and `ValidDataKept`.

The inductive invariant `IInv` adds to the properties what makes them inductive:

- `WritersBound`: a write under way, or cut off, carries the bound payload;
  without it a landing chunk could be of any payload.
- `HistoryRight`: a sealed record is in the history, and one in the history is
  sealed or invalidated, so that no failed or pending record was ever delivered.
- `StartedSealed`, `PassesInvalidated`: the check a dispatch or a removal pass
  made once still tells where the record may be now, since states only advance.
- `ReportsHonest`: what a writer is about to log agrees with what it landed.
- `HoldsExplained`, `ErasedExplained`: data at a target has a reason that
  `possibly_written` sees, or a writer that will log one, or an attempt that
  nobody will close; and between a removal's effect and its receipt, the reason
  is not one that the receipt wipes out. This is the heart of
  `SoundWithoutRace`; it also names exactly the race that it must leave out.
- `LandedKept`: what a writer landed stays while the record is sealed, for
  `ReceiptsComplete`.

Lemmas state what one event does to a view, how each step changes each variable,
and then one preservation lemma per conjunct.

## 5. The ledger: `RecordLifecycle`, `Ledger`

`RecordLifecycle` is the state machine of docs/ledger.md, an abstract
specification. `Ledger` has clients that call `ledger_transaction`, `fail` and
the invalidations at once, each read and each write transaction a step, and
implements it (`Lifecycle`).

| Model | Code |
|---|---|
| `StartTransaction`, `CreatePending` | `transaction.py:143-214`, `store.py:426-515` |
| `BlockEnds`, `BlockRaises` | the `with` block, 216-222 |
| `SealReads`, `ArchiveBundle`, `ArchiveRaises`, `SealCommits`, `ReadBack` | `store.py:517-547`, 328-380 |
| `AskState` | `transaction.py:224-236`, 257-261 |
| `FailReads`, `FailCommits` | `_fail_quietly`, `fail` |
| `StartFail`, `OperatorFails` | `fail` called by an operator |
| `StartBatch`, `InvalidateReads`, `InvalidateCommits` | `replay/invalidation.py`, `store.py:576-602` |
| `Transition`, `Matches` | `_transition`, `store.py:672-703` |
| `TransactionFault`, `Crash` | an interrupt or a database error; a process dies |
| `ChangeDisk` | the output directory's files change or go |

A bundle is one value (all its files' bytes); the archive is the set of bundles
that it holds. `create_pending`'s hashing and insert are one step: the hashing
may be put off to the insert, since nothing else reads the files of a run that
has no record, and files that change in between are files that change after it. The checks
before `create_pending` (a failed run, an unarchived input, a claimed digest)
change no state and are the operation not starting. Files are kept only while
the record is absent or pending: nothing reads them later.

| Run | Instance | Shows |
|---|---|---|
| `ledger_race` | 2 clients, 2 runs that may share a bundle, 2 contents, 1 fault | all safety properties, batches, the refinement |
| `ledger_live` | 2 clients, 1 run, 1 fault, no symmetry | `LeavesPending` |

Two clients are two recorders of one run, a recorder and an invalidator, or two
batches: the least that meet on a record. `MaxEvents` bounds how often a failed
record is failed again. The proofs cover any number of them.
Fairness (`ledger_live`): a client that
runs gets on, and the caller's `with` block ends (weak fairness); no client has
to be called.

### Proved (`LedgerProofs`)

For any number of clients, runs, contents and faults, from `LedgerAssumption`
("no digest" is not a content): `TypeCorrect`, `ChainAgrees`,
`SealedIsArchived`, `SealedMatchesRun`, `ReturnsSealed`, `PendingHasWorker`
and the refinement `LifecycleImplemented`. The inductive invariant adds to the
properties:

- `AtWork`: a transaction past `create_pending` works on a record that exists.
  Even the types need it: an archived bundle must have a manifest.
- `RanChecked`, `Verified`: what `ledger_transaction` compared and
  `archive_bundle` verified in an earlier step still holds when the UPDATE
  runs, because a manifest is written once and the archive only grows.
- `WroteSeal`: the closing read of `seal` comes after its event.

`RecordSteps` (a step keeps, creates or moves a record) and `Arrivals` (how a
client comes to where it is) carry the preservation lemmas.

## 6. The archive: `StoreContract`, `Archive`

`StoreContract` is what the head of `archive/store.py` guarantees, as an
abstract specification: under each name an object appears once and whole, and
stays as it is unless the medium damages it or a power loss takes it before it
is on disk. `Archive` has clients that store, certify and export at once, each
system call on something they share a step, and implements it (`KeepsContract`).

| Model | Code (`archive/store.py` unless named) |
|---|---|
| `Begin`, `NextPut`, `PutReturns` | `snapshot_staged_input`, `ingest_artifacts` (`archive/ingest.py`), `put_tree`, `put_snapshot`: which puts, in which order |
| `Verify` | `_check_snapshot_content` 445-461 |
| `WriteTemp`, `FlushTemp` | `_write_temp` 195-213, `expected_digest` 265-278 |
| `LookShard`, `MakeShard`, `SyncParent` | `_install` 222-225, `_fsync_directory` 78-94 |
| `Look`, `Found`, `Link`, `SyncShard` | `_install` 226-247, `on_exists` |
| `StartExport`, `Copy`, `FlushCopy`, `Recheck`, `Replace` | `export` 332-355 |
| `Die`, `Damage`, `PowerLoss` | a process dies; a stored object is changed; power fails |

`bytes[n]` is what lies under the final name of `n`: a blob's name stands for
the bytes it is the digest of, so an object is intact when `bytes[n] = n`.
`flushed`, `entered` and `shards` say what is on disk by the rules of POSIX, on
a platform where a directory can be fsynced and a hard link made (the Windows
branches are left out). A power loss keeps any part of the rest, and may tear a
file that was not fsynced. The file that a "snapshot" reads may have changed
since it was hashed, hence `Readable`. `told`, `struck` and `broken` are history
variables. The directories above the shards are on disk from the start:
`_open_or_initialize` makes them, without an fsync of their parents.

| Run | Instance | Shows |
|---|---|---|
| `archive_put` | 2 clients, all operations, 1 fault | all safety properties and the refinement |
| `archive_durable` | violation | finding 2 |

The names are a tree of one file, that file as a snapshot of its own, and their
records: the least with a shared blob, an order (part, tree object, record) and
two objects that race for one shard (the records). The two blobs' shards have a
common parent, so that one client's fsync covers the other's directory. One
fault in any place is enough for a torn, damaged or lost object; the proofs
cover several. `archive_durable` has only the operations that the question
needs.

### Proved (`ArchiveProofs`)

For any number of clients, snapshots, blobs, shards and faults, from
`ArchiveAssumption` (names do not clash; a tree object is not one of its own
parts): `TypeCorrect`, `FinalNamesWhole`, `QuietOnDisk`, `ExportsAreIntact`,
`RecordsCertify` and the refinement `ContractImplemented`. The inductive
invariant adds to the properties:

- `WorkOrder`: past the comparison the temporary file has the bytes it will be
  named after, and past `_write_temp` they are fsynced.
- `WholeFiles`: every published file was fsynced before; without it a power loss
  could tear a final name.
- `SettledHolds`: what a call stored or verified so far is still there, and
  intact but for damage since; `RecordsCertify` needs it for every part.
- `HasShard`, `EntriesOfPresent`: an object's shard is there, and an entry on
  disk is the entry of an object.
- `EntryPending`, `ShardPending`: an entry, or a shard, not on disk has a client
  between making it and its fsync, unless one died there. `QuietIsOnDisk`
  follows.
- `ExportedWhole`: an exported file is fsynced, with the right bytes.

Each step that touches only a client's locals is covered by one lemma
(`LocalStep`), so that only `MakeShard`, `SyncParent`, `Link`, `SyncShard`,
`Replace` and the faults need an argument of their own.

## 7. Opening a ledger and its event chain: `Migration`, `EventChain`

`EventChain` has the table `events`, the other tables by key, writers that commit
a row with its event, somebody who edits the SQLite file, and a verifier that
reads with a SELECT at a time. `Migration` puts before it what
`LedgerStore._open_schema` does to a ledger of any version.

| Model | Code (`ledger/events.py` unless named) |
|---|---|
| `Event`, `Hash`, `AppendEvent`, `Head_` | 75-123, 171-173 |
| `ChainProblems` | `EventLog.verify` 175-199 |
| `Apply`, `Said` | `_apply` 316-341, the loop 234-247 |
| `StartVerify`, `FoldEvents`, `CompareTable`, `Return` | `verify_ledger` 223-312: each a read of its own |
| `CreateRecord`, `ChangeRecord`, `OpenDelivery`, `LogDelivery`, `LogReplay`, `SignOff` | every writer that appends an event |
| `Tamper` | a row, an event, an event with every hash after it, or a cover-up of chain and tables |
| `CreateSchema`, `AddTables` | `store.py:400-420`, `migration.py:68-88`; under the lock in one step |
| `StartRows`, `MigrateRow`, `CommitRows` | `migration.py:91-182` |
| `Entries`, `Orders`, `Import`, `Backfilled` | `backfill` 383-408: a table's rows in the order of their timestamps, which is left open but for a delivery's own events |
| `Die`, `LoseFiles` | an opener dies and SQLite rolls back; old output goes from disk |

A hash is the value it digests, so equal hashes are equal events: the model has
no collisions. A row is the columns that are compared. `MigrateRow` archives as
it judges, outside what a rollback undoes: a dead migration leaves its objects in
the archive.

`chain` opens a ledger of each kind of version (`-1` no table, 0 rows judged, 1
refused, 3 additive with backfill, 7 additive without, 9 newer) by two openers,
then allows two events, one edit and one write during a verification. Two
records, a delivery and a replay are the least with every table and every kind
of event; one edit may already be any cover-up. Properties: `HonestAccepted`,
`CleanMeansKept`, `LoggedOnce`, `MigratedArchived`.

### Proved (`MigrationProofs`)

For any records, deliveries, replays and openers, a ledger of any version with
any rows, and any number of writes, edits and verifications, from
`EventChainAssumption` (the names of "no row", "forged" and "malformed" are not
values of rows): `HonestAccepted`, `CleanMeansKept`, `LoggedOnce` and
`MigratedArchived`. The inductive invariant:

- `LogShapes`, `OpenerShapes`, `VerifierShape`: what the chain, the tables and
  the locals can be. The chain's values are of no fixed set, since a hash
  contains all events before it.
- `Phases`: one opener migrates at a time, nobody writes, edits or verifies
  before the ledger is current, and an old version has no chain.
- `Honest`: while nobody edits, the chain is linked, what was published is a
  prefix of it, and replaying it gives the tables (`Said(chain) = rows`).
- `VerifierKnows`: while nothing moved, the verifier's replay is of the chain
  there is, and a table it has compared without a finding is as the replay says;
  an anchor it was given and did not miss is of a prefix of the chain.
- `EnteredOnce`: an event that enters a record is the only one, and the record
  is there.
- `SealedArchivedFirst`: a row the migration has judged sealed has its bundle in
  the archive, also before the migration commits.

The proof has two parts of weight. `BackfillFacts`: importing a table in any
order its timestamps allow gives a linked chain that says the table, by
induction over the import. And that equal heads mean equal chains: a hash
contains the hash before it, so a chain whose head is the anchor contains the
anchored chain, whoever edited the file.

Outside the runs: `ReportsOnlyDifferences`. The docstring (`events.py:226-228`)
says that rows are reported which differ; since every table is read by its own
SELECT and not in one transaction, a write between two reads is reported too.
`HonestAccepted` says it of quiet ledgers only (`v.moved = 0`).

## 8. The sandbox: `Backends`, `Sandbox`

`Backends` has the pure part: what an engine reports, what a backend can do,
which is chosen, and what an exit means. `Sandbox` is one call of
`run_in_sandbox`, with its actors: the runner's thread, the timer thread, the
parser, the engine and its client, and whoever may write the caller's input.

| Model | Code (`containment/`) |
|---|---|
| `Choose`, `Select` | `runner.py:113-132`, `backend.py:456-489` |
| `Inspect`, `Open`, `CopyChunk` | `staging.py` `_copy_tree` 162-214, `_copy_verified` 62-80 |
| `ArchiveInput` | `archive/ingest.py:22-54` |
| `LaunchBwrap`, `BwrapGone`, `KillGroup`, `Reap`, `Report` | `backend.py` `run_process` 333-412 and its caller 258-302 |
| `LaunchClient`, `ClientRefused`, `ClientReaped`, `ClientTimesOut`, `RemoveContainer`, `InspectContainer`, `TakeBack` | `oci.py:340-509`, 556-596, 652-700, `capture.py` `run_bounded` |
| `LaunchGuest`, `GuestEnds` | `wasm.py:360-496` |
| `Interrupt`, `LeaveExecute`, `ExecuteRaises` | the exception handlers, `runner.py:148-158` |
| `CollectedAs`, `Collect`, `Store`, `StoreFails` | `artifacts.py:30-91`, `runner.py:156-218`, `ingest.py:57-74` |
| `ParserWrites`, `BwrapExits`, `ClientCreates`, `ClientStarts`, `EngineHandles`, `ContainerExits`, `ClientExits`, `ClientDies` | the parser, bubblewrap's init, the engine and its client |

A file is an inode whose text has versions, copied in two chunks; its digest is
the chunks that were hashed. The engine handles a client's request also when the
client is dead, which is why a removal may come before there is a container. A
start whose input directory was deleted meanwhile is refused (`InputDeleted`).

The client may die or lose its engine at any time (`ClientDies`): it is then
gone with -9 or 125 (`LostStatus`), and its container, and the request it had
sent, are as they were. The code takes whatever status the client has as the
run's and asks the engine nothing (`oci.py:458-483`, `capture.py:106-128`): the
call goes on to return a failure while the container runs, or is still to start.
What the call does then it does beside a live parser: emptying the output
directory (`RemoveOutput`) may stop half-way, and `Collect` may raise for it.
The clock has three values: early, within the half second that tells an engine's
own deadline, and past the deadline.

`sandbox`: four hosts (bubblewrap; rootless podman with a store; rootful docker
as root, after a podman without the image; rootless docker without a store), a
native, a Wasm and a GPU parser, no input, a file, or a tree with a link in it,
two output names with a limit of one file, one change of the input, one fault.
One change already separates lstat, open and each chunk. Properties:
`SucceededIsWhole`, `RunEnds`, and

- `OverWhenReturned`: after a success, a timeout or a failure of the parser's
  own, no parser runs or starts later; the only call that returns beside a live
  one is a failure that bears a lost client's status. The staging copy is deleted
  and ownership is back in every case.
- `FailedLeavesNothing`: a failed run has nothing in the store and returns no
  artifact; its output directory stays empty unless the result bears that status.

What the lost client does to the documented claims is below, outside the runs.

Fairness (`RunEnds`): the runner's thread runs, time passes, the timer thread
fires, and a guest notices the epoch its timer advanced. None on the parser,
which may hang, nor on the engine, which may never answer: `RemoveContainer` and
`InspectContainer` are bounded by their own timeouts and by
`_REMOVE_ATTEMPTS`.

### Proved (`SandboxProofs`)

For any names, input, host, parser, limit, and any number of changes,
interrupts and failing stores, from `SandboxAssumption`: `SucceededIsWhole`,
`FailedLeavesNothing` and `OverWhenReturned`. The inductive invariant follows a
file from the caller's directory to the result:

- `HashedAsCopied`: the staged copy is what was hashed, since each chunk is
  hashed as it is copied, whatever the original's writer does.
- `InputKeptFirst`: with a store, the input is in it before a parser starts, and
  no output before it was collected.
- `ReadAsHashed`: a parser that ran to its end read the staged copy; a client
  whose engine did not run it exits with a code that says so.
- `EngineOrdered`, `ChildWhere`: a request in flight agrees with the container
  it is about, and a client that ended by itself left no container; of one that
  was lost only its status is known.
- `OverUnlessRaising`, `LostTold`, `OwnerBack`: past the wait, nothing runs on
  and no request can still start it, unless the call is about to raise or the
  client was lost, and then the outcome, and the result after it, is a failure
  that says so. Only a call about to raise may leave the directories to the
  engine's user.
- `CollectedHolds`: what was decided when the output was collected is so ever
  after.

Outside the runs, three statements that the code does not keep:

- `FailedKeepsNoOutput` ("A failed run keeps no output. The artifact directory is
  emptied", docs/containment.md:307; `run_in_sandbox`: the sandbox exits before
  the function returns): a client is killed with its start request in flight, the
  call returns the failure, and then the container starts and writes.
  `FailedLeavesNothing` and `OverWhenReturned` say what is left of the claim.
- `NeverSignalsReaped` ("Never signal a pid that was already reaped",
  `backend.py:379`): `wait4` returns before the runner takes the lock and sets
  `reaped`, so a timer that fires in between calls `killpg` on a pid that is
  free. Such a run is reported as timed out though it had exited.
- `CleanupErrorTold` (docs/containment.md:117-121: the run raises
  `ContainmentCleanupError`): when root's directories are handed back while the
  container runs on, a file that the parser unlinks meanwhile makes `take_back`
  raise, in place of it (`oci.py:440-442`).

## 9. Campaigns, replays and reports: `Comparison`, `Campaign`, `Replay`, `SignOff`

`Comparison` has the algorithms as operators: the tolerance policy's walk over
two JSON values, which bytes it reads, the comparison of two lanes, the drift
status of a record. `Campaign` has the corpus, the journal and one process that
observes document after document; `Replay` a pass that replays or validates
records; `SignOff` a report, its sign-off and a later check.

| Model | Code |
|---|---|
| `Pinned`, `Unchanged` | `verification/corpus.py:105-153` |
| `OpenJournal`, `AppendLine`, `Recovered` | `verification/campaign.py` `Journal` 112-176 |
| `Pending`, `Observe`, `RecordRun`, `AppendObservation`, `Stop` | `Campaign` 223-323 |
| `StartPass`, `ValidateOne` | `replay/planner.py`, `views.py`, `validator.py:21-83` |
| `ReadLive`, `JudgeReplay`, `OutcomeOf`, `Log` | `replay/engine.py:98-119`, 158-182, 206-357 |
| `NextResult`, `AskState`, `InvalidateOne` | `invalidate_diverged` 184-199, `Dispatcher.invalidate`, `auto_invalidate_drifted` |
| `Walk`, `CompareJson`, `PolicyFindings` | `replay/policy.py:114-171` |
| `CheckRow`, `RecordProblems`, `FinishReport`, `FailedGates`, `CompareLanes` | `verification/report.py:190-637` |
| `Rebuild`, `RecheckChain`, `RecheckRow`, `PutReport`, `AppendSignOff` | `verification/signoff.py:58-171` |
| `StartCheck`, `ReadReport`, `Answer` | `check_sign_off` 174-204 |
| `EditDocument`, `EditWorking`, `EditJournal`, `Damage`, `InvalidateOther`, `EditReport`, `Forge` | others |

The run of a parser (`Sandbox`) and the ledger's transaction (`Ledger`) are one step
each here. What somebody rewrote in the ledger (`EventChain`) is one variable,
`forged`: nothing, a table, or the chain. A report's ledger gate is
`verify_ledger` and fails for both; the sign-off and its check call
`EventLog.verify` up to an anchor and see the chain only (`ChainProblems`).
A check verifies the chain first, then reads the archived report, and without
the report answers at once.

A plan gives each lane the backend that its runs have. `RecordProblems` compares
a record's backend with its lane's, as `report.py:384-389` does, and
`campaign.py:195-197` requires only that lanes have names of their own: in the
audit's third plan the two lanes share one backend.

A campaign is one process: the code takes no lock on the journal and expects
none. `journal.hurt` is a history variable: a short write or another's edit
spoilt the file.

| Run | Instance | Shows |
|---|---|---|
| `replay` | 2 lanes, 1 document, 2 earlier records, every kind of replay, 1 fault | `ObservedOnce`, `JournalReopens`, `ReplayJustified`, `CampaignCompletes` |
| `audit` | 2 lanes, 2 documents beside a link, 3 plans of how runs end and on which backends, a waiver or none, 1 fault | `SignedCovers`, `StaleTold` |

One document on two lanes is a journal of a header and two lines: torn, doubled
or missing lines all show. The audit's plans have a document that only the
candidate parses, one nearly alike, one that differs (waived or not), one refused
by both lanes, one that both fail alike, and a mismatch; errors come from the
fault. In the last plan both lanes have one backend. One fault
is a death, a short write, an edit, damage, or another client's invalidation, at
any step; two unrelated faults are not checked.

`Json` gives every JSON value, and every part of one, a name: a dict is a
function from keys to names, a list a sequence of names. `Walk` recurs on the
pairs of values that `_walk` visits, with the tolerance it has come to.
`ReplayJustified` judges the policy by a second definition (`Nearly`, over the
leaves of both values, each with its path), not by the walk.

Fairness (`CampaignCompletes`): somebody runs the campaign again whenever it
ended, and it gets on (weak fairness on the campaign's steps), which is how a
resumable campaign is used.

### Proved (`SignOffProofs`)

For any corpus, lanes, policy, plans of how runs end, ledgers and number of
faults: of the campaign beside replays and validations, `ObservedOnce` and
`JournalReopens`; of the passes, `ReplayJustified`; of the sign-off, `StaleTold`
and `SignedCovers`. The assumptions:

- `ComparisonAssumption`: `Json` has the parts of each of its values, and no
  value is nested in itself, however deep: what `json.loads` returns is a tree;
- `CampaignAssumption`: lanes and paths are listed without repetition, there is
  a baseline, what is not a regular file is not a document's text, old ledgers
  hold records, and what a run or an old record has under a name that ends in
  `.json` or `.jsonl` has a value in `Parsed` (which may be that it is no JSON);
- `ReplayAssumption`: the same of a replayed run, which ends in one of the ways
  that `engine.py` tells apart.

**The campaign.** `CampaignInv` is `JournalKept` unless the journal was
spoilt, and a campaign refuses only a spoilt one. `JournalKept` says that after
its header the journal holds the observations of the first runs, in the order of
`Runs`, each sealed one with a record of its own that says what was observed
(`Observations`); that the process's list is what it has written; and that the
observation on its way is of the next run, already with its record when it is
about to be written. Here a death between the record and the line shows: the
record is left without an observation, the next process observes the run again
and makes another record, and the observation cites only that one.

**The policy.** `_walk` descends into two values at once and collects what
differs; `Nearly` says it without a walk: both values have leaves at the same
places, and leaves at one place agree, within the tolerance of the innermost key
above them that has one. `WalkAgrees` proves, by an induction over nested values,
that the walk of any two values of any depth finds nothing exactly if their
leaves agree; `PolicyIsNearly` that the policy accepts two manifests exactly if
they are `Nearly` the same. Two facts carry the step: `LeavesGrow` (the leaves of
a value are its root and its parts' leaves, each one place further down) and
`SameParts` (leaves agree under a common root exactly if they do part by part,
since a place says through which part it goes; this is where an ignored key or
a list of another length must not let two different places coincide).

**The passes.** `ReplayInv`: every record is of a manifest (`Made`); an entry
of the replay log says what its run was, compared with its record (`LogKept`);
a record that a pass invalidated has an entry that says diverged, or a drift
among the pass's results (`CausesTold`); and what a pass is about to invalidate is
among its results, which the log or the validation bears out (`PassTold`).
`PassTold` is what a stop in the middle leaves intact: a replay that raises
keeps the entries that were logged, and nothing else of its pass.

**The check of a sign-off.** `AuditInv`:

- `LinesCite`, `RowsCite`: whatever cites a record, in the journal, the report
  and the signature, cites one that exists;
- `Order`: one report, one signature of it, one check of that;
- `Checking`: of the signed rows, each that the check has passed without a
  problem cites a record that was sealed when the recheck began, and the others
  are still to come. Since no record is sealed again, a record that is sealed
  when its row is rechecked was sealed when the recheck began.
- `Wholeness`: a check that has found nothing wrong began with a whole chain and
  a whole report (`signer.whole`, a history of its start), provided that the
  report is whole now; no blob is mended, so a report read later was whole then.

`StaleTold` is both: an answer without problems means that chain and report were
whole when the check began, and every covered record sealed at the recheck.

**What a sign-off covers.** `SignInv` follows a report from the lines of the
journal to the signature:

- `LinesTold`: a line has a status that an observation may have, and cites a
  record exactly if it is sealed;
- `RowsTold`, of the rows built so far: they are of the first runs, and a sealed
  one without problems fits its record (backend, source, configuration, output) and
  cites no record that another row cites;
- `Certified`, once no gate fails: there is a row for every run, and every
  difference between lanes is waived;
- `Checked` and `Restable`: while the rows are rechecked, those behind cite
  records that were sealed when the recheck began, and in the end all do.

It rests on `CampaignInv`, for the document that a record is of, and on the fact
that no step changes what a record is of, only its state (`Kept`).
A limit of what a sign-off shows came out of the proof: `RecordProblems`
compares backend, source digest and configuration, but neither document nor lane:
with two documents of the same text, or two lanes of one backend, only the
journal says which record is whose. So the claim that a record is of its row's
document and lane needs a journal that nobody spoilt, and the rest of the claim
does not. The comment at `report.py:382` ("or one lane's output could stand in for
another's") gives that comparison more than it does for lanes that share a
backend.

Outside the runs:

- `DivergedInvalidated` ("Invalidate every DIVERGED record through the
  Dispatcher", `engine.py:184`): a record that somebody else invalidated between
  the Dispatcher's look and the ledger's transaction makes `invalidate` raise,
  and the diverged records after it stay sealed.
- `SignedStillSealed` (`signoff.py`: it refuses unless every record is still
  SEALED): a record invalidated between its recheck and the event is signed off.
  `StaleTold` shows that the next check says so.
- A short write of a journal line is not noticed (`campaign.py:167`): the next
  line is appended to the torn one, and the journal can then not be opened.
- `JsonTolerancePolicy.compare` lets an archive error out (`policy.py:122-130`):
  a replay over a damaged blob ends the pass without an outcome in the log.

## 10. Findings

1. `dispatch_sound`: a removal receipt wipes out an outcome that was logged
   between the removal's effect and the receipt (`delivery.py:159`). Neither a
   crash nor a failure is needed: a dispatch writes while an invalidation
   removes. `SoundUnlessRaced` shows it is the only such case.
2. `archive_durable`: a put that finds the object, or its shard directory,
   already there returns without an fsync of its own, possibly before the
   client that made it has done its fsync (`store.py:223`, `228`, `239`). The
   caller may then record in the ledger what a power loss takes.
   `QuietIsOnDisk` shows that the window closes with the other client's fsync,
   unless that client dies before it.

Statements of the documentation that the models state but no run checks, beside
those of sections 7 to 9 (each is false of the code; a run with the statement as
its only property shows it):

- `TransactionFinishes` in `Ledger`: "The transaction always finishes its
  record" (docs/ledger.md:47) fails for an exception between `create_pending`'s
  commit and the block, and for one while marking the record failed.
  `LeftPendingOnlyByFault` shows that only such a fault leaves a record pending.
- `BatchCovers` in `Ledger`: a batch of invalidations stops at a candidate that
  another client changed first; the rest stays valid (`invalidation.py:58`).
- `ExportRefuses` in `Archive`: `export` "refuses to replace an existing
  destination" (`archive/store.py:337`), but of two exports that both found it
  free the second replaces the first one's file (`os.replace`, 352). What is
  there is a whole, verified blob all the same (`ExportsIntact`).

## 11. Only model-checked, and not modelled

Proved for every instance that the assumptions allow: every invariant and action
property that a passing run checks, and the two refinements. Model-checked only:

- liveness (`InvalidatedCleaned`, `LeavesPending`, `RunEnds`,
  `CampaignCompletes`): temporal reasoning under fairness, and the ENABLED in it,
  is outside the prover's reach.

That the assumptions can be met is checked too: TLC evaluates each of them in the
runs of its module.

Not modelled: the kernel filters (tables of the kernel); the parser images and
command lines (I/O around third-party code); the parser runner and catalog
(building of configurations and paths); identity, extraction, the ChatGPT
adapter, the adapter contract's checks and the manifests' path rules (pure
conversions without state). Of modelled parts: opening an archive,
`materialize_snapshot` (a sequence of exports) and the decoding of trees and
records; the answer of `dispatch()`; telemetry; what is kept of stdout and
stderr; the flags of bubblewrap and of the engine; the WASI calls; the
extraction check and the slowdown gate of a report. `PROJECT.json` has the list
with reasons.

Operators and actions commented "Slip:" are not part of any specification: each
is the definition that follows it with a plausible mistake, and the property it
is paired with in `PROJECT.json` fails under it.

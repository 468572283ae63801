------------------------------ MODULE Migration ------------------------------
(***************************************************************************)
(* Opening a ledger (LedgerStore._open_schema) and migrating an old one in *)
(* place (ledger/migration.py), followed by the life of its event chain.   *)
(* Openers are processes; each holds the write lock (BEGIN IMMEDIATE) from *)
(* the look at user_version to COMMIT or ROLLBACK.  What a migration puts   *)
(* in the archive is no part of the transaction.                           *)
(***************************************************************************)
EXTENDS EventChain

CONSTANTS Openers,
          Runs,          \* run ids of old records
          OldVersions    \* the user_version a ledger may start with

VARIABLES
  version,   \* PRAGMA user_version; NoTable: a new file
  old,       \* table artifact_records of a version 0 ledger
  bundle,    \* bundle of each record: "kept" (on disk), "archived", "lost"
  opener     \* [Openers -> state]

vars == <<chainVars, version, old, bundle, opener>>

Current == 8
NoTable == -1

Away == [pc |-> "away", todo |-> {}, migrated |-> Empty]

Locked == \E o \in Openers : opener[o].pc = "migrating"

\* A second record of one run, or a state nobody knows, stops the migration.
Representable ==
  /\ \A r, s \in DOMAIN old : old[r].run = old[s].run => r = s
  /\ \A r \in DOMAIN old : old[r].state # "unknown"

-----------------------------------------------------------------------------
(***************************************************************************)
(* backfill: one *.imported event for each row, table after table.  A table *)
(* is read in the order of its timestamps, which the model leaves open; a   *)
(* delivery's own events keep their order.                                  *)
(***************************************************************************)
ImportKind ==
  [records |-> "record.imported", deliveries |-> "delivery.imported",
   delivery_events |-> "delivery_event.imported", replays |-> "replay.imported"]

RowsOf(t, k) ==
  IF k[1] = "delivery_events" THEN t[k] ELSE IF t[k] = Absent THEN <<>> ELSE <<t[k]>>

Entries(t) == UNION {{<<k, n>> : n \in DOMAIN RowsOf(t, k)} : k \in Keys}

Place == [records |-> 1, deliveries |-> 2, delivery_events |-> 3, replays |-> 4]

Orders(t) ==
  {o \in SeqOf(Entries(t), Cardinality(Entries(t))) :
     /\ Entries(t) = {o[i] : i \in DOMAIN o}
     /\ \A i, j \in DOMAIN o : i < j =>
          /\ Place[o[i][1][1]] <= Place[o[j][1][1]]
          /\ o[i][1] = o[j][1] => o[i][2] < o[j][2]}

Import(t, entry) ==
  [kind |-> ImportKind[entry[1][1]], subject |-> entry[1][2], body |-> RowsOf(t, entry[1])[entry[2]]]

\* What the log may be after the rows of t are imported into it.
Backfilled(ch, t) == {Log!Folded(ch, [i \in DOMAIN o |-> Import(t, o[i])]) : o \in Orders(t)}

-----------------------------------------------------------------------------
\* Looking at the version, creating a schema and adding to one happen under
\* the lock and touch nothing else: one step.  An opener that finds the current
\* version, or one there is no migration from, leaves the ledger alone.
CreateSchema(o) ==
  /\ ~Locked /\ version = NoTable
  /\ version' = Current
  /\ UNCHANGED <<chainVars, old, bundle, opener>>

\* Slip: the state found is logged whether or not it was before.
AddTablesLogging(o) ==
  /\ ~Locked /\ version \in 2..7
  /\ version' = Current
  /\ chain' \in Backfilled(chain, rows)
  /\ UNCHANGED <<rows, published, tampers, v, old, bundle, opener>>

\* Versions 2 to 7: new tables and columns, and the state found is logged if
\* the event log is among them.
AddTables(o) ==
  /\ ~Locked /\ version \in 2..7
  /\ version' = Current
  /\ chain' \in IF version < 7 THEN Backfilled(chain, rows) ELSE {chain}
  /\ UNCHANGED <<rows, published, tampers, v, old, bundle, opener>>

\* Version 0: every row is judged, and its bundle archived, before the table
\* is replaced.
StartRows(o) ==
  /\ ~Locked /\ version = 0 /\ Representable
  /\ opener' = [opener EXCEPT ![o] = [Away EXCEPT !.pc = "migrating", !.todo = DOMAIN old]]
  /\ UNCHANGED <<chainVars, version, old, bundle>>

\* The state of a migrated record: a committed one is sealed if its bundle is,
\* or can be, archived and verified, and invalidated otherwise.
JudgedKept(r) ==      \* Slip: a committed record is taken at its word.
  IF old[r].state # "committed" THEN old[r].state ELSE "sealed"

Judged(r) ==
  IF old[r].state # "committed" THEN old[r].state
  ELSE IF bundle[r] = "lost" THEN "invalidated" ELSE "sealed"

MigrateRow(o, r) ==
  /\ opener[o].pc = "migrating" /\ r \in opener[o].todo
  /\ opener' = [opener EXCEPT ![o].todo = @ \ {r},
                              ![o].migrated[<<"records", r>>] = Judged(r)]
  /\ bundle' = [bundle EXCEPT ![r] = IF Judged(r) = "sealed" /\ @ = "kept" THEN "archived" ELSE @]
  /\ UNCHANGED <<chainVars, version, old>>

CommitRows(o) ==
  /\ opener[o].pc = "migrating" /\ opener[o].todo = {}
  /\ version' = Current
  /\ rows' = opener[o].migrated
  /\ chain' \in Backfilled(chain, rows')
  /\ old' = <<>>
  /\ opener' = [opener EXCEPT ![o] = Away]
  /\ UNCHANGED <<published, tampers, v, bundle>>

\* The process dies; SQLite rolls its transaction back.
Die(o) ==
  /\ opener[o].pc = "migrating"
  /\ opener' = [opener EXCEPT ![o] = Away]
  /\ UNCHANGED <<chainVars, version, old, bundle>>

\* Files go from disk before anybody has archived them.
LoseFiles(r) ==
  /\ bundle[r] = "kept" /\ version = 0
  /\ bundle' = [bundle EXCEPT ![r] = "lost"]
  /\ UNCHANGED <<chainVars, version, old, opener>>

-----------------------------------------------------------------------------
\* The records of a version 0 ledger; and the rows of one with several tables
\* (one record at most, for the size of the model).
OldRecords ==
  UNION {[rs -> [run : Runs, state : {"pending", "committed", "unknown"}]] : rs \in SUBSET Records}

OldRows ==
  {[k \in Keys |-> CASE k[1] = "records"         -> states[k[2]]
                     [] k[1] = "deliveries"      -> IF k[2] \in ds THEN "opened" ELSE Absent
                     [] k[1] = "delivery_events" -> IF k[2] \in ds THEN <<"intent">> ELSE <<>>
                     [] k[1] = "replays"         -> Absent] :
     states \in {f \in [Records -> {Absent, "pending", "sealed"}] :
                  Cardinality({r \in Records : f[r] # Absent}) <= 1},
     ds \in SUBSET Deliveries}

Init ==
  /\ version \in OldVersions
  /\ old \in IF version = 0 THEN OldRecords ELSE {<<>>}
  /\ rows \in IF version \in 2..Current THEN OldRows ELSE {Empty}
  /\ bundle \in [Records -> {"kept", "lost", "archived"}]
  /\ \A r \in Records :
       bundle[r] \in IF rows[<<"records", r>>] = "sealed" THEN {"archived"}
                    ELSE IF r \in DOMAIN old /\ old[r].state = "committed"
                    THEN {"kept", "lost", "archived"} ELSE {"lost"}
  /\ chain \in IF version \in 7..Current THEN Backfilled(<<>>, rows) ELSE {<<>>}
  /\ published = <<>> /\ tampers = 0 /\ v = Idle
  /\ opener = [o \in Openers |-> Away]

Opening(o) ==
  \/ CreateSchema(o) \/ AddTables(o)
  \/ StartRows(o) \/ (\E r \in Records : MigrateRow(o, r)) \/ CommitRows(o) \/ Die(o)

Next ==
  \/ \E o \in Openers : Opening(o)
  \/ \E r \in Records : LoseFiles(r)
  \/ /\ version = Current /\ ~Locked
     /\ Write \/ Tamper
     /\ UNCHANGED <<version, old, bundle, opener>>
  \/ /\ version = Current
     /\ Publish \/ Verify
     /\ UNCHANGED <<version, old, bundle, opener>>

Spec == Init /\ [][Next]_vars

-----------------------------------------------------------------------------
(***************************************************************************)
(* Properties.                                                             *)
(***************************************************************************)
\* A ledger of the current version is covered by its log once: the log says
\* what its tables hold and every record or delivery enters it by one event,
\* whichever version it came from, whoever else opened it and whoever died.
LoggedOnce ==
  version = Current /\ tampers = 0 =>
    /\ Said(chain) = rows
    /\ \A i, j \in DOMAIN chain :
         /\ chain[i].subject = chain[j].subject
         /\ chain[i].kind \in {"record.created", "record.imported"}
         /\ chain[j].kind \in {"record.created", "record.imported"}
         => i = j

\* migration.py: a committed record becomes sealed only "if its bundle can be
\* stored in the archive and verified"; the ledger vouches for no other.
MigratedArchived ==
  \A i \in DOMAIN chain :
    chain[i].kind = "record.imported" /\ chain[i].body = "sealed"
      => bundle[chain[i].subject] = "archived"

=============================================================================

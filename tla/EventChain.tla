----------------------------- MODULE EventChain -----------------------------
(***************************************************************************)
(* The hash-chained event log of a ledger and verify_ledger                *)
(* (ledger/events.py): writers commit a row with its event, somebody with  *)
(* write access to the SQLite file edits either, and a verifier reads the  *)
(* chain and then one table after the other, each with a SELECT of its     *)
(* own.                                                                    *)
(*                                                                         *)
(* A row is the value of the columns that verify_ledger compares; columns  *)
(* it does not compare (error, reason, times) are left out.  An event's    *)
(* body is what _apply reads of the event, its kind of transition included. *)
(* A hash is the value it digests: SHA-256 without collisions.             *)
(***************************************************************************)
EXTENDS Integers, Sequences, SequencesExt, FiniteSets

CONSTANTS Records, Deliveries, Replays,
          Absent,      \* no such row, no anchor
          Genesis,     \* the prev_hash of the first event
          Forged,      \* a value no writer writes
          Malformed,   \* a body that does not parse
          MaxEvents, MaxTampers,   \* bounds of the model
          MaxMoves                 \* writes during one verification

\* What honest writers write into a row.
RowValues ==
  {"pending", "sealed", "failed", "invalidated", "opened", "intent", "diverged", "signed"}

ASSUME EventChainAssumption ==
  /\ {Absent, Forged, Malformed} \cap RowValues = {}
  /\ Absent # Malformed

VARIABLES
  chain,      \* table events, ordered by seq
  rows,       \* the other tables: [Keys -> row, Absent, or a list of events]
  published,  \* the chain when its head was published (<<>> if never)
  tampers,    \* how often somebody edited the file
  v           \* the verifier

chainVars == <<chain, rows, published, tampers, v>>

Tables == <<"records", "deliveries", "delivery_events", "replays">>

Keys == {<<"records", r>> : r \in Records}
          \cup {<<t, d>> : t \in {"deliveries", "delivery_events"}, d \in Deliveries}
          \cup {<<"replays", y>> : y \in Replays}

Empty == [k \in Keys |-> IF k[1] = "delivery_events" THEN <<>> ELSE Absent]

-----------------------------------------------------------------------------
(***************************************************************************)
(* The chain.                                                              *)
(***************************************************************************)
Hash(e) == <<e.seq, e.kind, e.subject, e.body, e.prev>>

Event(seq, kind, subject, body, prev) ==
  [seq |-> seq, kind |-> kind, subject |-> subject, body |-> body, prev |-> prev,
   hash |-> <<seq, kind, subject, body, prev>>]

Head_(ch) == IF ch = <<>> THEN Absent ELSE [seq |-> Last(ch).seq, hash |-> Last(ch).hash]

AppendEvent(ch, kind, subject, body) ==
  Append(ch, IF ch = <<>> THEN Event(1, kind, subject, body, Genesis)
             ELSE Event(Last(ch).seq + 1, kind, subject, body, Last(ch).hash))

AppendLike(ch, e) == AppendEvent(ch, e.kind, e.subject, e.body)

Log == INSTANCE Folding WITH Step <- AppendLike

\* Slip: the anchor is compared with the end of the chain only.
ChainProblemsBySeq(ch, anchor) ==
  LET before(i) == IF i = 1 THEN [seq |-> 0, hash |-> Genesis]
                            ELSE [seq |-> ch[i - 1].seq, hash |-> ch[i - 1].hash]
      some(P(_)) == \E i \in DOMAIN ch : P(i)
  IN  {p \in {"missing", "unlinked", "altered", "truncated"} :
        \/ p = "missing"  /\ some(LAMBDA i : ch[i].seq # before(i).seq + 1)
        \/ p = "unlinked" /\ some(LAMBDA i : ch[i].prev # before(i).hash)
        \/ p = "altered"  /\ some(LAMBDA i : ch[i].hash # Hash(ch[i]))
        \/ p = "truncated" /\ anchor # Absent /\ (ch = <<>> \/ Last(ch).seq < anchor.seq)}

\* The problems EventLog.verify reports, by kind.
ChainProblems(ch, anchor) ==
  LET before(i) == IF i = 1 THEN [seq |-> 0, hash |-> Genesis]
                            ELSE [seq |-> ch[i - 1].seq, hash |-> ch[i - 1].hash]
      some(P(_)) == \E i \in DOMAIN ch : P(i)
      anchored == \E i \in DOMAIN ch : [seq |-> ch[i].seq, hash |-> ch[i].hash] = anchor
  IN  {p \in {"missing", "unlinked", "altered", "anchor", "truncated"} :
        \/ p = "missing"  /\ some(LAMBDA i : ch[i].seq # before(i).seq + 1)
        \/ p = "unlinked" /\ some(LAMBDA i : ch[i].prev # before(i).hash)
        \/ p = "altered"  /\ some(LAMBDA i : ch[i].hash # Hash(ch[i]))
        \/ /\ p = "anchor" /\ anchor # Absent
           /\ some(LAMBDA i : ch[i].seq = anchor.seq /\ ch[i].hash # anchor.hash)
        \/ /\ p = "truncated" /\ anchor # Absent /\ ~anchored
           /\ ch = <<>> \/ Last(ch).seq < anchor.seq}

-----------------------------------------------------------------------------
(***************************************************************************)
(* The state the chain says the tables hold.                               *)
(***************************************************************************)
WrittenKinds == {"record.created", "record.changed", "delivery.opened", "delivery.event",
                 "replay.logged", "verification.signed_off"}

Transitions == {"sealed", "failed", "invalidated"}

Apply(t, e) ==
  LET row == <<"records", e.subject>>
      list == <<"delivery_events", e.subject>>
  IN  IF e.body = Malformed THEN t
      ELSE CASE e.kind \in {"record.created", "record.imported"} -> [t EXCEPT ![row] = e.body]
             [] e.kind = "record.changed" -> [t EXCEPT ![row] = IF @ = Absent THEN @ ELSE e.body]
             [] e.kind \in {"delivery.opened", "delivery.imported"} ->
                  [t EXCEPT ![<<"deliveries", e.subject>>] = e.body]
             [] e.kind \in {"delivery.event", "delivery_event.imported"} ->
                  [t EXCEPT ![list] = Append(@, e.body)]
             [] e.kind \in {"replay.logged", "replay.imported"} ->
                  [t EXCEPT ![<<"replays", e.subject>>] = e.body]
             [] OTHER -> t

Fold == INSTANCE Folding WITH Step <- Apply

Said(ch) == Fold!Folded(Empty, ch)

Unreadable(ch) == \E i \in DOMAIN ch : ch[i].body = Malformed

\* A column that does not parse is reported like any other difference.
Differs(table, said, actual) == \E k \in Keys : k[1] = table /\ said[k] # actual[k]

-----------------------------------------------------------------------------
(***************************************************************************)
(* Writers: each a write transaction of a row and its event.               *)
(***************************************************************************)
\* A verifier that is reading notices nothing; the model counts the writes.
Moved == IF v.pc = "idle" THEN v ELSE [v EXCEPT !.moved = @ + 1]

Written == {i \in DOMAIN chain : chain[i].kind \in WrittenKinds}

MayWrite == Cardinality(Written) < MaxEvents /\ (v.pc = "idle" \/ v.moved < MaxMoves)

Commit(key, row, kind, body) ==
  /\ MayWrite
  /\ rows' = [rows EXCEPT ![key] = row]
  /\ chain' = AppendEvent(chain, kind, key[2], body)
  /\ v' = Moved
  /\ UNCHANGED <<published, tampers>>

CreateRecord(r) ==
  /\ rows[<<"records", r>>] = Absent
  /\ Commit(<<"records", r>>, "pending", "record.created", "pending")

\* Slip: the event is appended whether or not the UPDATE matched the row.
ChangeRecordAnyway(r, state) ==
  /\ rows[<<"records", r>>] \notin {Absent, "invalidated"}
  /\ Commit(<<"records", r>>,
            IF rows[<<"records", r>>] = "pending" THEN state ELSE rows[<<"records", r>>],
            "record.changed", state)

ChangeRecord(r, state) ==
  /\ \/ rows[<<"records", r>>] = "pending"
     \/ rows[<<"records", r>>] = "sealed" /\ state = "invalidated"
  /\ Commit(<<"records", r>>, state, "record.changed", state)

OpenDelivery(d) ==
  /\ rows[<<"deliveries", d>>] = Absent
  /\ Commit(<<"deliveries", d>>, "opened", "delivery.opened", "opened")

LogDelivery(d) ==
  LET key == <<"delivery_events", d>> IN
  /\ rows[<<"deliveries", d>>] # Absent
  /\ Commit(key, Append(rows[key], "intent"), "delivery.event", "intent")

LogReplay(y) ==
  /\ rows[<<"replays", y>>] = Absent
  /\ \E r \in Records : rows[<<"records", r>>] \in {"sealed", "invalidated"}
  /\ Commit(<<"replays", y>>, "diverged", "replay.logged", "diverged")

\* A sign-off has no row of its own.
SignOff ==
  /\ MayWrite
  /\ chain' = AppendEvent(chain, "verification.signed_off", "corpus", "signed")
  /\ v' = Moved
  /\ UNCHANGED <<rows, published, tampers>>

\* An operator publishes the head of the chain, once, while it is as written.
Publish ==
  /\ tampers = 0 /\ chain # <<>> /\ published = <<>>
  /\ published' = chain
  /\ UNCHANGED <<chain, rows, tampers, v>>

Write ==
  \/ \E r \in Records : CreateRecord(r) \/ \E s \in Transitions : ChangeRecord(r, s)
  \/ \E d \in Deliveries : OpenDelivery(d) \/ LogDelivery(d)
  \/ \E y \in Replays : LogReplay(y)
  \/ SignOff

-----------------------------------------------------------------------------
(***************************************************************************)
(* Somebody edits the file, before a verification and not during it.        *)
(***************************************************************************)
\* seq, prev_hash and hash of every event computed anew: a chain of its own.
Relinked(ch) == Log!Folded(<<>>, ch)

EditedChains ==
  {[chain EXCEPT ![i].body = b] : i \in DOMAIN chain, b \in {Forged, Malformed}}
    \cup {RemoveAt(chain, i) : i \in DOMAIN chain}
    \cup {[chain EXCEPT ![i].body = Forged, ![i].hash = Hash([chain[i] EXCEPT !.body = Forged])] :
            i \in DOMAIN chain}

EditedRows ==
  {[rows EXCEPT ![k] = IF k[1] = "delivery_events" THEN <<Forged>> ELSE Forged] : k \in Keys}
    \cup {[rows EXCEPT ![k] = Empty[k]] : k \in Keys}

\* A row; an event, with or without every hash after it; or a cover-up: an
\* event, every hash, and the tables to match.
Tamper ==
  /\ tampers < MaxTampers /\ v.pc = "idle"
  /\ tampers' = tampers + 1
  /\ \/ rows' \in EditedRows /\ chain' = chain
     \/ chain' \in EditedChains /\ rows' = rows
     \/ /\ chain' \in {Relinked(ch) : ch \in EditedChains \cup {chain}}
        /\ rows' \in {rows, Said(chain')}
  /\ UNCHANGED <<published, v>>

-----------------------------------------------------------------------------
(***************************************************************************)
(* verify_ledger: the events twice (the chain, then the fold), then each    *)
(* table in turn.                                                          *)
(***************************************************************************)
Idle == [pc |-> "idle", anchor |-> Absent, found |-> {}, said |-> Empty,
         moved |-> 0]

StartVerify ==
  /\ v.pc = "idle"
  /\ \E anchor \in {Absent, Head_(published)} :
       v' = [Idle EXCEPT !.pc = "fold", !.anchor = anchor,
                         !.found = ChainProblems(chain, anchor)]
  /\ UNCHANGED <<chain, rows, published, tampers>>

FoldEvents ==
  /\ v.pc = "fold"
  /\ v' = [v EXCEPT !.pc = "records", !.said = Said(chain),
                    !.found = @ \cup (IF Unreadable(chain) THEN {"malformed"} ELSE {})]
  /\ UNCHANGED <<chain, rows, published, tampers>>

CompareTable(i) ==
  /\ v.pc = Tables[i]
  /\ v' = [v EXCEPT !.pc = IF i = Len(Tables) THEN "done" ELSE Tables[i + 1],
                    !.found = @ \cup (IF Differs(Tables[i], v.said, rows) THEN {Tables[i]} ELSE {})]
  /\ UNCHANGED <<chain, rows, published, tampers>>

Return ==
  /\ v.pc = "done"
  /\ v' = Idle
  /\ UNCHANGED <<chain, rows, published, tampers>>

Verify == StartVerify \/ FoldEvents \/ (\E i \in DOMAIN Tables : CompareTable(i)) \/ Return

ChainInit ==
  /\ chain = <<>>
  /\ rows = Empty
  /\ published = <<>>
  /\ tampers = 0
  /\ v = Idle

ChainNext == Write \/ Publish \/ Tamper \/ Verify

-----------------------------------------------------------------------------
(***************************************************************************)
(* Properties.                                                             *)
(***************************************************************************)
\* verify_ledger accepts an honest ledger that is quiet while it reads, with
\* or without an anchor: no order of creations, transitions, deliveries,
\* replays and sign-offs makes the tables and the chain differ.
HonestAccepted == v.pc = "done" /\ tampers = 0 /\ v.moved = 0 => v.found = {}

\* What a clean report shows.  Of a ledger that was quiet meanwhile: the tables
\* are what the chain says.  Even if writers went on: the chain begins with the
\* anchored one, whatever was edited, rehashed, dropped or written anew after
\* the anchor was taken.
CleanMeansKept ==
  v.pc = "done" /\ v.found = {} =>
    /\ v.moved = 0 => Said(chain) = rows
    /\ v.anchor # Absent /\ v.anchor = Head_(published)
         => IsPrefix(published, chain)

\* events.py: verify_ledger "reports each row that is missing from the chain,
\* missing from the tables, or different", so it reports none of a ledger
\* nobody tampered with.
ReportsOnlyDifferences == v.pc = "done" /\ tampers = 0 => v.found = {}

=============================================================================

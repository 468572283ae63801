------------------------------ MODULE Campaign ------------------------------
(***************************************************************************)
(* A verification campaign (verification/campaign.py) over a pinned corpus  *)
(* (verification/corpus.py): every document through every lane, one         *)
(* observation per line of a journal that survives the death of its writer. *)
(*                                                                         *)
(* A document's text is its version; a run's outcome is [end, failure, out].*)
(* The run itself (Sandbox) and the ledger's transaction (Ledger) are a     *)
(* step each.  One process runs the campaign: the code takes no lock.       *)
(***************************************************************************)
EXTENDS Comparison, SequencesExt

CONSTANTS
  Paths,        \* relative paths, in their sorted order
  LaneOrder,    \* the lanes, the baseline first
  Disks,        \* what the corpus directory may hold when the manifest is taken
  Versions,     \* texts of a document; any other value is not a regular file
  Others,       \* what else may be at a path: nothing, a link
  Plans,        \* campaigns' parsers and lanes: [refused, runs, backend], see plan
  Ledgers,      \* the records there may be before the campaign
  NoRecord,     \* no record, no directory, no manifest
  KeepOutputs,  \* keep_outputs
  MaxFaults     \* bound: deaths of the campaign's process, failing writes, and steps of others

\* A record of the ledger: its state, the run it was made from, what its source and its files were, whose
\* configuration made it, and what invalidated it.
IsRecord(r) == DOMAIN r = {"state", "doc", "lane", "source", "out", "config", "cause"}

\* A directory's files with their digests; what is read as JSON is among what Parsed gives.
IsManifest(m) ==
  /\ m # NoRecord /\ m = [p \in DOMAIN m |-> m[p]]
  /\ \A p \in DOMAIN m \cap JsonFiles : m[p] \in DOMAIN Parsed /\ Parsed[m[p]] \in DOMAIN Json

\* The runs of a parser end in one of these ways, and one that ends well has an output.
EndsWell(run) ==
  /\ run.end \in {"ok", "empty", "failed", "unsupported", "cleanup", "fault"}
  /\ run.end = "ok" => IsManifest(run.out)

ASSUME CampaignAssumption ==
  /\ LaneOrder \in Seq(ToSet(LaneOrder)) /\ IsInjective(LaneOrder) /\ LaneOrder # <<>>
  /\ Paths \in Seq(ToSet(Paths)) /\ IsInjective(Paths)
  /\ \A l \in Ledgers : l \in Seq(ToSet(l)) /\ \A i \in DOMAIN l :
       IsRecord(l[i]) /\ IsManifest(l[i].out) /\ l[i].cause = "none"
  /\ \A d \in Disks : DOMAIN d \subseteq ToSet(Paths)
  /\ \A pl \in Plans, lane \in ToSet(LaneOrder), v \in Versions : EndsWell(pl.runs[<<lane, v>>])
  /\ Versions \cap Others = {}

VARIABLES
  disk,      \* path -> version, or something that is not a regular file
  corpus,    \* the manifest: [entries, excluded]
  plan,      \* the parser under test: the runs whose config it refuses, [lane, version] -> how it ends;
             \* and lane -> its backend, which several lanes may share
  records,   \* the ledger's records, by record id
  working,   \* the output directories: [path, lane] -> manifest or NoRecord
  damaged,   \* blobs of the archive that no longer verify
  journal,   \* the file: [lines, torn], and whether a short write or somebody else spoilt it
  camp,      \* the campaign's process
  faults

campaignVars == <<disk, corpus, plan, records, working, damaged, journal, camp, faults>>

Baseline == Head(LaneOrder)
Candidates == Tail(LaneOrder)

-----------------------------------------------------------------------------
(* The corpus. *)

\* Corpus.build: every regular file under the root; what is left out is listed.
Pinned(d) ==
  [entries |-> [p \in {q \in DOMAIN d : d[q] \in Versions} |-> d[p]],
   excluded |-> {q \in DOMAIN d : d[q] \notin Versions \cup {Gone}}]

\* Corpus.check: no document changed, and none was added.
Unchanged(c, d) ==
  /\ \A p \in DOMAIN c.entries : d[p] = c.entries[p]
  /\ \A p \in DOMAIN d : d[p] # Gone => p \in DOMAIN c.entries \cup c.excluded

Then(before, next) == before \o next
Joined == INSTANCE Folding WITH Step <- Then

\* Sequences one after the other.
Flat(ss) == Joined!Folded(<<>>, ss)

\* Every (document, lane), in the order pending() has them.
Runs ==
  LET of(p) == IF p \in DOMAIN corpus.entries THEN [i \in DOMAIN LaneOrder |-> <<p, LaneOrder[i]>>]
               ELSE <<>>
  IN  Flat([i \in DOMAIN Paths |-> of(Paths[i])])

-----------------------------------------------------------------------------
(* The journal. *)

Observation(run, status, failure, input, record, out) ==
  [run |-> run, status |-> status, failure |-> failure, input |-> input,
   record |-> record, out |-> out]

Line(what) == Observation(<<>>, what, "none", Gone, 0, NoRecord)
Header == Line("header")
Garbled == Line("garbled")

\* O_APPEND: a line after a torn one makes one line of the two.
AppendLine(j, line) ==
  [j EXCEPT !.lines = Append(@, IF j.torn THEN Garbled ELSE line), !.torn = FALSE]

Recovered(j) == [j EXCEPT !.torn = FALSE]

Readable(j) ==
  /\ j.lines = <<>> \/ Head(j.lines) = Header
  /\ Garbled \notin ToSet(j.lines)

Opened(j) == IF j.lines = <<>> THEN AppendLine(j, Header) ELSE j

\* Slip: only a journal that lost its header is repaired.
OpenJournalAsIs ==
  /\ camp.pc = "closed"
  /\ LET j == IF Len(journal.lines) > 0 THEN journal ELSE Recovered(journal) IN
     IF Readable(j)
       THEN journal' = Opened(j)
            /\ camp' = [camp EXCEPT !.pc = "ready", !.mem = Tail(Opened(j).lines), !.made = FALSE]
       ELSE journal' = j /\ camp' = [camp EXCEPT !.pc = "refused"]
  /\ UNCHANGED <<disk, corpus, plan, records, working, damaged, faults>>

\* Slip: the observations of before are not loaded.
OpenJournalAnew ==
  /\ camp.pc = "closed"
  /\ LET j == Recovered(journal) IN
     IF Readable(j)
       THEN journal' = Opened(j) /\ camp' = [camp EXCEPT !.pc = "ready", !.mem = <<>>, !.made = FALSE]
       ELSE journal' = j /\ camp' = [camp EXCEPT !.pc = "refused"]
  /\ UNCHANGED <<disk, corpus, plan, records, working, damaged, faults>>

\* Journal.__init__: a torn last line is dropped, then the rest must be this campaign's.
OpenJournal ==
  /\ camp.pc = "closed"
  /\ LET j == Recovered(journal) IN
     IF Readable(j)
       THEN journal' = Opened(j)
            /\ camp' = [camp EXCEPT !.pc = "ready", !.mem = Tail(Opened(j).lines), !.made = FALSE]
       ELSE journal' = j /\ camp' = [camp EXCEPT !.pc = "refused"]
  /\ UNCHANGED <<disk, corpus, plan, records, working, damaged, faults>>

\* Slip: a document counts as done once one lane has observed it.
PendingByDocument(mem) == {n \in DOMAIN Runs : \A i \in DOMAIN mem : mem[i].run[1] # Runs[n][1]}

\* The places in Runs of what was not observed.
Pending(mem) ==
  LET runs == Runs
  IN  {n \in DOMAIN runs : \A i \in DOMAIN mem : mem[i].run # runs[n]}

-----------------------------------------------------------------------------
(* One observation. *)

Observed(obs) == camp' = [camp EXCEPT !.pc = "append", !.obs = obs]

\* What run_parser's ending becomes, when there is no output to record.
StatusOf(end) == IF end = "cleanup" THEN "containment_error" ELSE "error"

\* An interrupted attempt's output is dropped, the config is built, the parser runs on what the document
\* is by then, and its output is only worth recording if it read the corpus document.
Observe(run) ==
  /\ camp.pc = "ready"
  /\ LET pending == Pending(camp.mem)
     IN  \E n \in pending : run = Runs[n] /\ \A m \in pending : n <= m
  /\ LET version == disk[run[1]]
         read == version = corpus.entries[run[1]]
         went == IF version \in Versions THEN plan.runs[<<run[2], version>>]
                 ELSE [end |-> "fault", failure |-> "none", out |-> NoRecord]
         told(status, failure, input) == Observation(run, status, failure, input, 0, NoRecord)
         kept == IF run \notin plan.refused /\ read /\ went.end = "ok" THEN went.out ELSE NoRecord
         obs == IF run \in plan.refused THEN told("not_applicable", "none", Gone)
                ELSE IF went.end \in {"cleanup", "unsupported", "fault"} THEN told(StatusOf(went.end), "none", Gone)
                ELSE IF ~read THEN told("error", "none", version)
                ELSE IF went.end \in {"failed", "empty"} THEN told("failed", went.failure, version)
                ELSE Observation(run, "sealed", "none", version, 0, kept)
     IN  /\ working' = [working EXCEPT ![run] = kept]
         /\ camp' = [camp EXCEPT !.pc = IF obs.status = "sealed" THEN "record" ELSE "append", !.obs = obs]
  /\ UNCHANGED <<disk, corpus, plan, records, damaged, journal, faults>>

Record(state, run, source, out, config) ==
  [state |-> state, doc |-> run[1], lane |-> run[2], source |-> source, out |-> out,
   config |-> config, cause |-> "none"]

\* record_run creates and seals the record, or leaves one that did not seal; the output is discarded.
RecordRun ==
  /\ camp.pc = "record"
  /\ \/ /\ records' = Append(records, Record("sealed", camp.obs.run, camp.obs.input, camp.obs.out, "ours"))
        /\ Observed([camp.obs EXCEPT !.record = Len(records) + 1])
        /\ working' = IF KeepOutputs THEN working ELSE [working EXCEPT ![camp.obs.run] = NoRecord]
        /\ UNCHANGED faults
     \/ /\ faults < MaxFaults /\ faults' = faults + 1
        /\ records' = Append(records, Record("failed", camp.obs.run, camp.obs.input, camp.obs.out, "ours"))
        /\ Observed([camp.obs EXCEPT !.status = "error", !.out = NoRecord])
        /\ working' = [working EXCEPT ![camp.obs.run] = NoRecord]
  /\ UNCHANGED <<disk, corpus, plan, damaged, journal>>

AppendObservation ==
  /\ camp.pc = "append"
  /\ \/ journal' = AppendLine(journal, camp.obs) /\ UNCHANGED faults
     \/ \* os.write writes less than the line, and its count is not read
        /\ faults < MaxFaults /\ faults' = faults + 1
        /\ journal' = [journal EXCEPT !.torn = TRUE, !.hurt = TRUE]
  /\ camp' = [camp EXCEPT !.pc = "ready", !.mem = Append(@, camp.obs), !.made = TRUE]
  /\ UNCHANGED <<disk, corpus, plan, records, working, damaged>>

\* run() ends, at its limit or with nothing pending; a limit lets it observe something.
Stop ==
  /\ camp.pc = "ready" /\ camp.made
  /\ camp' = [camp EXCEPT !.pc = "closed"]
  /\ UNCHANGED <<disk, corpus, plan, records, working, damaged, journal, faults>>

\* The process dies: between two steps, or while a line is written, of which a part may remain.
Crash ==
  /\ faults < MaxFaults /\ faults' = faults + 1
  /\ camp.pc \in {"ready", "record", "append"} \/ journal.lines = <<>>
  /\ journal' \in {journal} \cup IF camp.pc = "append" \/ journal.lines = <<>>
                                THEN {[journal EXCEPT !.torn = TRUE]} ELSE {}
  /\ camp' = [camp EXCEPT !.pc = "closed"]
  /\ UNCHANGED <<disk, corpus, plan, records, working, damaged>>

-----------------------------------------------------------------------------
(* Others. *)

Fault == faults < MaxFaults /\ faults' = faults + 1

EditDocument(p, what) ==
  /\ Fault /\ disk[p] # what
  /\ disk' = [disk EXCEPT ![p] = what]
  /\ UNCHANGED <<corpus, plan, records, working, damaged, journal, camp>>

Damage(blob) ==
  /\ Fault /\ blob \notin damaged
  /\ damaged' = damaged \cup {blob}
  /\ UNCHANGED <<disk, corpus, plan, records, working, journal, camp>>

EditWorking(run, p, what) ==
  /\ Fault /\ working[run] # NoRecord /\ p \in DOMAIN working[run] /\ working[run][p] # what
  /\ working' = [working EXCEPT ![run][p] = what]
  /\ UNCHANGED <<disk, corpus, plan, records, damaged, journal, camp>>

\* A line is made to cite another record.
EditJournal(i, r) ==
  /\ Fault /\ journal.lines[i].status = "sealed" /\ journal.lines[i].record # r
  /\ journal' = [journal EXCEPT !.lines[i] = [@ EXCEPT !.record = r, !.out = records[r].out], !.hurt = TRUE]
  /\ UNCHANGED <<disk, corpus, plan, records, working, damaged, camp>>

\* The manifest was taken of the corpus directory before the campaign.
CampaignInit ==
  /\ disk \in Disks /\ corpus = Pinned(disk)
  /\ plan \in Plans /\ records \in Ledgers
  /\ working = [r \in ToSet(Paths) \X ToSet(LaneOrder) |-> NoRecord]
  /\ damaged = {}
  /\ journal = [lines |-> <<>>, torn |-> FALSE, hurt |-> FALSE]
  /\ camp = [pc |-> "closed", mem |-> <<>>, obs |-> Line("none"), made |-> FALSE]
  /\ faults = 0

CampaignSteps ==
  OpenJournal \/ RecordRun \/ AppendObservation \/ Stop
    \/ \E run \in ToSet(Paths) \X ToSet(LaneOrder) : Observe(run)

-----------------------------------------------------------------------------
\* The journal holds, in the campaign's order, at most one observation of every document and lane, and
\* each sealed one is of a record of its own, of that document and lane, whatever deaths the campaign went
\* through (Campaign.run, Journal.append, Journal.__init__).
ObservedOnce ==
  LET lines == Tail(journal.lines) IN
  (journal.lines # <<>> /\ ~journal.hurt) =>
    /\ IsPrefix([i \in DOMAIN lines |-> lines[i].run], Runs)
    /\ \A i \in DOMAIN lines : lines[i].status = "sealed" =>
         /\ \A j \in DOMAIN lines \ {i} : lines[j].record # lines[i].record
         /\ LET r == records[lines[i].record] IN
            <<r.doc, r.lane>> = lines[i].run /\ r.source = corpus.entries[r.doc]
              /\ r.out = lines[i].out

\* A campaign that died anywhere can be resumed: its journal opens (Journal.__init__, _truncate_to).
JournalReopens == camp.pc = "refused" => journal.hurt

=============================================================================

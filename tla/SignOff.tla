------------------------------- MODULE SignOff -------------------------------
(***************************************************************************)
(* The verification report (verification/report.py) and its sign-off        *)
(* (verification/signoff.py), while the campaign whose journal it reads,     *)
(* clients that invalidate the records it relies on, and damage go on.      *)
(*                                                                         *)
(* Building reads the ledger record by record; a report's digest stands for *)
(* the report.  Whether chain and tables verify (EventChain) is one flag.   *)
(***************************************************************************)
EXTENDS Replay

CONSTANTS
  Waivers,       \* what may be accepted in advance: sets of <<path, lane, outcome>>
  MaxFailures,   \* max_baseline_failure_rate, in hundredths, or NoLimit
  NoLimit,
  ReportBlob     \* the archived bytes of a signed-off report

VARIABLES
  report,    \* the report file, or NoReport
  signer,    \* report, sign-off or check, in progress
  signed,    \* the sign-off event with its archived report, or NoReport
  answer,    \* what the last check said
  forged     \* what somebody rewrote: "no"thing, a "table", the "chain"

signVars == <<report, signer, signed, answer, forged>>
vars == <<campaignVars, replayVars, signVars>>

NoReport == [rows |-> <<>>]

Sealed == {r \in DOMAIN records : records[r].state = "sealed"}

Idle == [pc |-> "idle", why |-> "none", mem |-> <<>>, rows |-> <<>>, sealed |-> {}, whole |-> FALSE,
         problems |-> {}]

Init ==
  /\ CampaignInit /\ ReplayInit
  /\ report = NoReport /\ signer = Idle /\ signed = NoReport
  /\ answer = "none" /\ forged = "no"

-----------------------------------------------------------------------------
(* Building the report.                                                      *)

\* Journal.read repairs and refuses a journal as the campaign does.
ReadJournal(why) ==
  /\ signer.pc = "idle" /\ journal.lines # <<>>
  /\ IF Readable(Recovered(journal))
       THEN /\ journal' = Recovered(journal)
            /\ signer' = [Idle EXCEPT !.pc = "row", !.why = why, !.mem = Tail(journal.lines)]
       ELSE UNCHANGED <<journal, signer>>
  /\ UNCHANGED <<disk, corpus, plan, records, working, damaged, camp, faults, replayVars,
                 report, signed, answer, forged>>

\* The latest observation of a run.
Latest(mem, run) ==
  LET of == {i \in DOMAIN mem : mem[i].run = run}
  IN  IF of = {} THEN Observation(run, "incomplete", "none", Gone, 0, NoRecord)
      ELSE mem[CHOOSE i \in of : \A j \in of : j <= i]

\* What is wrong with the record an observation cites.
RecordProblems(obs, claimed) ==
  LET r == records[obs.record]
  IN  {p \in {"state", "run", "backend", "config", "claimed", "input", "files"} :
        \/ p = "state"   /\ r.state # "sealed"
        \/ p = "run"     /\ r.out # obs.out
        \/ p = "backend" /\ plan.backend[r.lane] # plan.backend[obs.run[2]]
        \/ p = "config"  /\ r.config # "ours"
        \/ p = "claimed" /\ obs.record \in claimed
        \/ p = "input"   /\ r.source # corpus.entries[obs.run[1]]
        \/ p = "files"   /\ ~IsIntact(ValidationOf(r))}

Row(run, obs, problems) ==
  [run |-> run, status |-> obs.status, failure |-> obs.failure, record |-> obs.record,
   out |-> obs.out, problems |-> problems]

\* One lane's row of a document; a sealed one is checked against ledger, archive and corpus.
CheckRow ==
  /\ signer.pc = "row" /\ Len(signer.rows) < Len(Runs)
  /\ LET run == Runs[Len(signer.rows) + 1]
         obs == Latest(signer.mem, run)
         claimed == {signer.rows[i].record : i \in DOMAIN signer.rows}
         problems == IF obs.status = "sealed" THEN RecordProblems(obs, claimed) ELSE {}
     IN  signer' = [signer EXCEPT !.rows = Append(@, Row(run, obs, problems))]
  /\ UNCHANGED <<campaignVars, replayVars, report, signed, answer, forged>>

RowOf(rows, run) == rows[CHOOSE i \in DOMAIN rows : rows[i].run = run]

\* The manifest of the record a row cites.
ManifestOf(row) == IF row.record = 0 THEN NoRecord ELSE records[row.record].out

OutcomeIn(rows, p, lane) ==
  LET base == RowOf(rows, <<p, Baseline>>)
      cand == RowOf(rows, <<p, lane>>)
  IN  CompareLanes(base, cand, ManifestOf(base), ManifestOf(cand), spec.policy, NoRecord)

Compared == (DOMAIN corpus.entries) \X ToSet(Candidates)

Findings(rows) ==
  {<<c[1], c[2], OutcomeIn(rows, c[1], c[2])>> : c \in Compared} \cap
    ((DOMAIN corpus.entries) \X ToSet(Candidates) \X Waivable)

Count(rows, lane, statuses) ==
  Cardinality({i \in DOMAIN rows : rows[i].run[2] = lane /\ rows[i].status \in statuses})

\* The gates that do not pass.
FailedGates(rows, waivers) ==
  {g \in {"corpus_unchanged", "coverage", "baseline_produced_output", "no_errors", "records_verified",
          "ledger_verified", "candidates_agree", "waivers_used", "baseline_failure_rate"} :
    \/ g = "corpus_unchanged" /\ ~Unchanged(corpus, disk)
    \/ g = "coverage" /\ (rows = <<>> \/ \E i \in DOMAIN rows : rows[i].status = "incomplete")
    \/ g = "baseline_produced_output" /\ Count(rows, Baseline, {"sealed"}) = 0
    \/ g = "no_errors" /\ \E i \in DOMAIN rows : rows[i].status \in {"error", "containment_error"}
    \/ g = "records_verified" /\ \E i \in DOMAIN rows : rows[i].problems # {}
    \/ g = "ledger_verified" /\ forged # "no"
    \/ g = "candidates_agree" /\ Findings(rows) \ waivers # {}
    \/ g = "waivers_used" /\ waivers \ Findings(rows) # {}
    \/ /\ g = "baseline_failure_rate" /\ MaxFailures # NoLimit
       /\ LET applicable == {"sealed", "failed", "error", "containment_error"}
          IN  100 * Count(rows, Baseline, {"failed"}) > MaxFailures * Count(rows, Baseline, applicable)}

\* The comparisons read both lanes' bytes where they differ; a damaged blob raises.
ComparisonRaises(rows) ==
  /\ spec.policy
  /\ \E c \in Compared :
       LET base == RowOf(rows, <<c[1], Baseline>>)
           cand == RowOf(rows, <<c[1], c[2]>>)
       IN  /\ base.status = "sealed" /\ cand.status = "sealed"
           /\ PolicyReads(ManifestOf(base), ManifestOf(cand)) \cap damaged # {}

\* Whoever builds a report says what is waived, and the report keeps it for the rebuild.
Built(rows, waivers) ==
  [rows |-> rows, failed |-> FailedGates(rows, waivers), findings |-> Findings(rows),
   waivers |-> waivers, verified |-> forged = "no"]

Leave == signer' = Idle

FinishReport ==
  /\ signer.pc = "row" /\ signer.why = "report" /\ Len(signer.rows) = Len(Runs)
  /\ \E w \in Waivers :
       report' = IF ComparisonRaises(signer.rows) THEN report ELSE Built(signer.rows, w)
  /\ Leave
  /\ UNCHANGED <<campaignVars, replayVars, signed, answer, forged>>

-----------------------------------------------------------------------------
(* Signing it off.                                                           *)

StartSignOff == report # NoReport /\ signed = NoReport /\ ReadJournal("sign_off")

\* Slip: the report's own gates are believed.
RebuildBelieved ==
  /\ signer.pc = "row" /\ signer.why = "sign_off" /\ Len(signer.rows) = Len(Runs)
  /\ signer' = IF ComparisonRaises(signer.rows) THEN Idle
               ELSE [signer EXCEPT !.pc = "chain", !.problems = report.failed, !.rows = report.rows]
  /\ UNCHANGED <<campaignVars, replayVars, report, signed, answer, forged>>

\* rebuild_problems, the report's failed gates, and whether its ledger verified.
Rebuild ==
  /\ signer.pc = "row" /\ signer.why = "sign_off" /\ Len(signer.rows) = Len(Runs)
  /\ LET again == Built(signer.rows, report.waivers)
         problems == report.failed \cup IF again = report /\ report.verified THEN {} ELSE {"rebuild"}
     IN  signer' = IF ComparisonRaises(signer.rows) THEN Idle
                   ELSE [signer EXCEPT !.pc = "chain", !.problems = problems, !.rows = report.rows]
  /\ UNCHANGED <<campaignVars, replayVars, report, signed, answer, forged>>

ChainProblems == IF forged = "chain" THEN {"chain"} ELSE {}

\* recheck: the chain, then record after record.
RecheckChain ==
  /\ signer.pc = "chain"
  /\ signer' = [signer EXCEPT !.pc = "recheck", !.sealed = Sealed,
                  !.problems = @ \cup ChainProblems]
  /\ UNCHANGED <<campaignVars, replayVars, report, signed, answer, forged>>

\* Slip: a record is only looked up.
RecheckRowExists ==
  /\ signer.pc = "recheck" /\ signer.rows # <<>>
  /\ LET row == Head(signer.rows)
         wrong == row.record # 0 /\ records[row.record].out # row.out
     IN  signer' = [signer EXCEPT !.rows = Tail(@),
                      !.problems = @ \cup IF wrong THEN {"record"} ELSE {}]
  /\ UNCHANGED <<campaignVars, replayVars, report, signed, answer, forged>>

RecheckRow ==
  /\ signer.pc = "recheck" /\ signer.rows # <<>>
  /\ LET row == Head(signer.rows)
         wrong == row.record # 0 /\ (records[row.record].state # "sealed" \/ records[row.record].out # row.out)
     IN  signer' = [signer EXCEPT !.rows = Tail(@),
                      !.problems = @ \cup IF wrong THEN {"record"} ELSE {}]
  /\ UNCHANGED <<campaignVars, replayVars, report, signed, answer, forged>>

Rechecked(why) == signer.pc = "recheck" /\ signer.rows = <<>> /\ signer.why = why

\* Refused, or the report's bytes are put into the archive.
PutReport ==
  /\ Rechecked("sign_off")
  /\ signer' = IF signer.problems = {} THEN [signer EXCEPT !.pc = "put"] ELSE Idle
  /\ UNCHANGED <<campaignVars, replayVars, report, signed, answer, forged>>

\* The event, with what the sign-off rests on (the sealed records when the recheck began).
AppendSignOff ==
  /\ signer.pc = "put"
  /\ signed' = [rows |-> report.rows, findings |-> report.findings, failed |-> report.failed,
                waivers |-> report.waivers,
                sealed |-> signer.sealed]
  /\ Leave
  /\ UNCHANGED <<campaignVars, replayVars, report, answer, forged>>

-----------------------------------------------------------------------------
(* Checking a sign-off later.                                                *)

\* The chain up to the sign-off; whether it and the archived report are whole is remembered.
StartCheck ==
  /\ signer.pc = "idle" /\ signed # NoReport /\ answer = "none"
  /\ signer' = [Idle EXCEPT !.pc = "read", !.why = "check", !.problems = ChainProblems,
                  !.whole = forged # "chain" /\ ReportBlob \notin damaged]
  /\ UNCHANGED <<campaignVars, replayVars, report, signed, answer, forged>>

\* The archived report, without which there is nothing to recheck.
ReadReport ==
  /\ signer.pc = "read"
  /\ IF ReportBlob \in damaged
       THEN answer' = "stale" /\ Leave
       ELSE /\ signer' = [signer EXCEPT !.pc = "chain", !.rows = signed.rows,
                            !.problems = @ \cup IF signed.failed = {} THEN {} ELSE {"not_passed"}]
            /\ UNCHANGED answer
  /\ UNCHANGED <<campaignVars, replayVars, report, signed, forged>>

Answer ==
  /\ Rechecked("check")
  /\ answer' = IF signer.problems = {} THEN "holds" ELSE "stale"
  /\ signer' = [Idle EXCEPT !.sealed = signer.sealed, !.whole = signer.whole]
  /\ UNCHANGED <<campaignVars, replayVars, report, signed, forged>>

-----------------------------------------------------------------------------
(* Others.                                                                   *)

\* The report's file is edited: its gates say passed.
EditReport ==
  /\ Fault /\ report # NoReport /\ report.failed # {} /\ signer.why # "sign_off"
  /\ report' = [report EXCEPT !.failed = {}, !.verified = TRUE]
  /\ UNCHANGED <<disk, corpus, plan, records, working, damaged, journal, camp, replayVars,
                 signer, signed, answer, forged>>

Forge ==
  /\ Fault /\ forged = "no" /\ forged' \in {"table", "chain"}
  /\ UNCHANGED <<disk, corpus, plan, records, working, damaged, journal, camp, replayVars,
                 report, signer, signed, answer>>

Outsiders ==
  \/ Changes
  \/ signed # NoReport /\ Damage(ReportBlob)
  \/ \E i \in DOMAIN journal.lines, r \in DOMAIN records : EditJournal(i, r)

Signing ==
  CheckRow \/ FinishReport \/ Rebuild \/ RecheckChain \/ RecheckRow \/ PutReport
    \/ AppendSignOff \/ ReadReport \/ Answer

Next ==
  \/ (CampaignSteps \/ Crash \/ Outsiders) /\ UNCHANGED <<replayVars, signVars>>
  \/ \E r \in DOMAIN records : InvalidateOther(r) /\ UNCHANGED signVars
  \/ Signing \/ StartSignOff \/ StartCheck \/ EditReport \/ Forge
  \/ report = NoReport /\ ReadJournal("report")

Spec == Init /\ [][Next]_vars

-----------------------------------------------------------------------------
\* A report that was signed off covers every document of the corpus on every lane; each sealed run's record
\* is of that lane's backend and of what the document says (of that document and lane, unless the journal was
\* spoilt), made with this campaign's configuration, used once and sealed when sign_off began to recheck it;
\* and on every candidate lane the output agrees with the baseline's, or the difference was waived
\* (report.build_report, signoff.sign_off).
SignedCovers ==
  signed # NoReport =>
    /\ [i \in DOMAIN signed.rows |-> signed.rows[i].run] = Runs
    /\ \A i \in DOMAIN signed.rows :
         LET row == signed.rows[i]
             r == records[row.record]
         IN  /\ row.status \in {"sealed", "failed", "not_applicable"}
             /\ row.status = "sealed" =>
                  /\ row.record \in signed.sealed
                  /\ plan.backend[r.lane] = plan.backend[row.run[2]]
                  /\ r.source = corpus.entries[row.run[1]]
                  /\ r.config = "ours" /\ r.out = row.out
                  /\ journal.hurt \/ <<r.doc, r.lane>> = row.run
                  /\ \A j \in DOMAIN signed.rows \ {i} : signed.rows[j].record # row.record
    /\ \A c \in Compared :
         LET base == RowOf(signed.rows, <<c[1], Baseline>>)
             cand == RowOf(signed.rows, c)
         IN  \/ <<c[1], c[2], OutcomeIn(signed.rows, c[1], c[2])>> \in signed.waivers
             \/ cand.status = "failed" /\ base.status = "failed" /\ cand.failure = base.failure
             \/ cand.status = "not_applicable" /\ base.status = "not_applicable"
             \/ cand.status = "sealed" /\ base.status = "failed"
             \/ /\ cand.status = "sealed" /\ base.status = "sealed"
                /\ IF spec.policy THEN Nearly(base.out, cand.out) ELSE base.out = cand.out

\* A check that finds nothing wrong means that when it began the chain and the archived report were whole,
\* and that every record the sign-off covers was sealed when the chain was verified again: what was cut off,
\* damaged or invalidated by then is told (signoff.check_sign_off, recheck).
StaleTold ==
  answer = "holds" =>
    /\ signer.whole
    /\ \A i \in DOMAIN signed.rows : signed.rows[i].record # 0 => signed.rows[i].record \in signer.sealed

\* "It also refuses unless ... every record the report relies on is still SEALED" (signoff.py).
SignedStillSealed ==
  [][signed = NoReport /\ signed' # NoReport =>
       \A i \in DOMAIN signed'.rows :
         signed'.rows[i].record # 0 => records[signed'.rows[i].record].state = "sealed"]_vars

=============================================================================

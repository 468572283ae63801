------------------------------- MODULE Replay -------------------------------
(***************************************************************************)
(* A pass over the ledger's records: their parser is run again and what it  *)
(* diverged on is invalidated (replay/engine.py), or their files are        *)
(* re-hashed and what drifted is (replay/planner.py, invalidation.py).      *)
(* A campaign, other clients and damage go on meanwhile.                    *)
(***************************************************************************)
EXTENDS Campaign

CONSTANTS
  Specs,     \* what the catalog may have for the records' parser:
             \* [known, runnable, module, deterministic, policy]
  ReRuns     \* how a parser that runs again may end: [end, out, identity]

ASSUME ReplayAssumption ==
  \A run \in ReRuns :
    run.identity \in {"same", "other"} /\ run.end \in {"ok", "failed", "unsupported", "fault"} /\ EndsWell(run)

VARIABLES
  spec,      \* the catalog's entry
  replays,   \* the replay log
  pass       \* the pass: [pc, kind, todo, at, results]

replayVars == <<spec, replays, pass>>

IdlePass == [pc |-> "none", kind |-> "none", todo |-> <<>>, at |-> 0, results |-> <<>>]

ReplayInit == spec \in Specs /\ replays = <<>> /\ pass = IdlePass

-----------------------------------------------------------------------------
(* The passes start: LedgerViews and plan_validation list by state.          *)

InState(states) ==
  Flat([r \in DOMAIN records |-> IF records[r].state \in states THEN <<r>> ELSE <<>>])

StartPass(kind, states) ==
  /\ pass.pc = "none" /\ InState(states) # <<>>
  /\ pass' = [pc |-> "next", kind |-> kind, at |-> 0, results |-> <<>>,
              todo |-> [i \in DOMAIN InState(states) |-> [record |-> InState(states)[i],
                                                          state |-> records[InState(states)[i]].state]]]
  /\ UNCHANGED <<spec, replays, campaignVars>>

Result(one, verdict) == [record |-> one.record, state |-> one.state, verdict |-> verdict]

Settled(one, verdict) ==
  pass' = [pass EXCEPT !.todo = Tail(@), !.results = Append(@, Result(one, verdict)), !.pc = "next"]

Raised == pass' = [pass EXCEPT !.pc = "raised"]

-----------------------------------------------------------------------------
(* Validation.                                                               *)

Blobs == (UNION {{r.out[p] : p \in DOMAIN r.out} : r \in ToSet(records)}) \ damaged

\* The directory of a record is its run's; a record made elsewhere has none here.
ValidationOf(r) ==
  LET dir == working[<<r.doc, r.lane>>]
  IN  Validation(r.out, IF dir = NoRecord \/ r.config # "ours" THEN [p \in {} |-> Gone] ELSE dir, Blobs)

ValidateOne ==
  /\ pass.pc = "next" /\ pass.kind = "validate" /\ pass.todo # <<>>
  /\ Settled(Head(pass.todo), ValidationOf(records[Head(pass.todo).record]))
  /\ UNCHANGED <<spec, replays, campaignVars>>

-----------------------------------------------------------------------------
(* Replay.                                                                   *)

\* The live state decides, not the state the record was listed with.
ReadLive ==
  /\ pass.pc = "next" /\ pass.kind = "replay" /\ pass.todo # <<>>
  /\ IF records[Head(pass.todo).record].state \in {"sealed", "invalidated"}
       THEN pass' = [pass EXCEPT !.pc = "judge"]
       ELSE Raised
  /\ UNCHANGED <<spec, replays, campaignVars>>

\* No parser, no module, no way to judge, no input: nothing is run.
CannotRun(r) ==
  \/ ~spec.known \/ ~spec.runnable \/ ~spec.module
  \/ ~spec.deterministic /\ ~spec.policy
  \/ r.source \in damaged

\* Slip: a failed run's output is compared as well.
OutcomeOfFailed(r, run) ==
  IF run.end = "unsupported" \/ run.identity = "other" THEN "unreplayable"
  ELSE IF DifferingPaths(r.out, run.out) = {} /\ spec.deterministic THEN "reproduced"
  ELSE IF spec.policy /\ PolicyFindings(r.out, run.out) = {} THEN "equivalent" ELSE "diverged"

\* What a completed call of the parser's run says of the record.
OutcomeOf(r, run) ==
  IF run.end = "unsupported" \/ run.identity = "other" THEN "unreplayable"
  ELSE IF run.end = "failed" THEN "failed"
  ELSE IF DifferingPaths(r.out, run.out) = {} /\ spec.deterministic THEN "reproduced"
  ELSE IF spec.policy /\ PolicyFindings(r.out, run.out) = {} THEN "equivalent" ELSE "diverged"

\* The policy reads the recorded bytes, and a damaged blob raises.
Unreadable(r, run) ==
  /\ run.end = "ok" /\ run.identity = "same" /\ spec.policy /\ r.out # run.out
  /\ PolicyReads(r.out, run.out) \cap damaged # {}

Log(one, outcome, run) ==
  /\ replays' = Append(replays, [record |-> one.record, outcome |-> outcome, run |-> run])
  /\ Settled(one, outcome)

NotRun == [end |-> "not_run", out |-> NoRecord, identity |-> "none"]

\* The replay, and its entry in the log: appended before the next record is read.
JudgeReplay ==
  /\ pass.pc = "judge"
  /\ LET one == Head(pass.todo)
         r == records[one.record]
     IN  IF CannotRun(r) THEN Log(one, "unreplayable", NotRun)
         ELSE \E run \in ReRuns :
                IF run.end = "fault" \/ Unreadable(r, run)
                THEN Raised /\ UNCHANGED replays
                ELSE Log(one, OutcomeOf(r, run), run)
  /\ UNCHANGED <<spec, campaignVars>>

-----------------------------------------------------------------------------
(* What failed is invalidated, one record after the other, once all have been judged. *)

\* auto_invalidate_drifted goes by the state the record was listed with.
ToInvalidate(one) ==
  \/ one.verdict = "diverged"
  \/ one.verdict \in {"missing", "drift"} /\ one.state # "invalidated"

NextResult ==
  /\ pass.pc = "next" /\ pass.todo = <<>>
  /\ LET left == Flat([i \in DOMAIN pass.results |->
                         IF ToInvalidate(pass.results[i]) THEN <<pass.results[i]>> ELSE <<>>])
     IN
     pass' = IF left = <<>> THEN [pass EXCEPT !.pc = "done"]
             ELSE [pass EXCEPT !.pc = "invalidate", !.todo = left]
  /\ UNCHANGED <<spec, replays, campaignVars>>

Rest == IF Len(pass.todo) = 1 THEN [pass EXCEPT !.todo = <<>>, !.pc = "done"]
        ELSE [pass EXCEPT !.todo = Tail(@), !.pc = "invalidate"]

\* Dispatcher.invalidate asks for the state first, and spares a record already invalidated.
AskState ==
  /\ pass.pc = "invalidate" /\ pass.kind = "replay"
  /\ pass' = IF records[Head(pass.todo).record].state = "invalidated" THEN Rest
             ELSE [pass EXCEPT !.pc = "asked"]
  /\ UNCHANGED <<spec, replays, campaignVars>>

Invalid(r, why) == records' = [records EXCEPT ![r].state = "invalidated", ![r].cause = why]

\* The ledger refuses a record that is no longer sealed, and the pass ends there.
InvalidateOne ==
  /\ pass.pc = IF pass.kind = "replay" THEN "asked" ELSE "invalidate"
  /\ LET r == Head(pass.todo).record IN
     IF records[r].state = "sealed" THEN Invalid(r, pass.kind) /\ pass' = Rest
     ELSE pass' = [pass EXCEPT !.pc = "stopped"] /\ UNCHANGED records
  /\ UNCHANGED <<spec, replays, disk, corpus, plan, working, damaged, journal, camp, faults>>

\* Another client invalidates a record.
InvalidateOther(r) ==
  /\ Fault /\ records[r].state = "sealed"
  /\ Invalid(r, "other")
  /\ UNCHANGED <<spec, replays, pass, disk, corpus, plan, working, damaged, journal, camp>>

PassSteps ==
  ValidateOne \/ ReadLive \/ JudgeReplay \/ NextResult \/ AskState \/ InvalidateOne

PassStarts ==
  \/ StartPass("replay", {"sealed"})
  \/ \E audit \in BOOLEAN :
       StartPass("validate", {"sealed"} \cup IF audit THEN {"invalidated"} ELSE {})

Changes ==
  \/ \E blob \in Versions \cup UNION {{r.out[p] : p \in DOMAIN r.out} : r \in ToSet(records)} : Damage(blob)
  \/ \E run \in DOMAIN working, p \in JsonFiles, what \in Others : EditWorking(run, p, what)
  \/ \E p \in ToSet(Paths), what \in Versions \cup Others : EditDocument(p, what)

ReplaySpecInit == CampaignInit /\ ReplayInit

ReplayNext ==
  \/ (CampaignSteps \/ Crash \/ Changes) /\ UNCHANGED replayVars
  \/ PassSteps \/ PassStarts
  \/ \E r \in DOMAIN records : InvalidateOther(r)

ReplaySpec == ReplaySpecInit /\ [][ReplayNext]_<<campaignVars, replayVars>>

\* The campaign is run again whenever it ended.
FairReplaySpec ==
  ReplaySpec /\ WF_<<campaignVars, replayVars>>(CampaignSteps /\ UNCHANGED replayVars)

-----------------------------------------------------------------------------
\* By the policy's own words: the same files, the same structure, and in JSON files numbers moved no
\* further than the rule of their nearest named key (policy.JsonTolerancePolicy).
Leaves[n \in DOMAIN Json] == [tol \in Tolerances |->
  LET x == Json[n]
      under(step, leaves) == {[l EXCEPT !.where = <<step, @>>] : l \in leaves}
      here(kind, at) == [where |-> <<>>, kind |-> kind, at |-> at, tol |-> tol]
  IN  IF x.kind = "dict" THEN
        {here("keys", Keys(x))} \cup UNION {under(<<"key", k>>, Leaves[x.at[k]][Inner(k, tol)]) : k \in Keys(x)}
      ELSE IF x.kind = "list" THEN
        {here("length", Len(x.at))} \cup UNION {under(<<"index", i>>, Leaves[x.at[i]][tol]) : i \in DOMAIN x.at}
      ELSE {here(x.kind, x.at)}]

SameLeaf(x, y) ==
  IF {x.kind, y.kind} \subseteq Numbers /\ "float" \in {x.kind, y.kind} THEN IsClose(x.at, y.at, x.tol)
  ELSE x.kind = y.kind /\ x.at = y.at

SameLeaves(a, b) ==
  /\ {x.where : x \in a} = {y.where : y \in b}
  /\ \A x \in a, y \in b : x.where = y.where => SameLeaf(x, y)

Nearly(recorded, replayed) ==
  /\ DOMAIN recorded = DOMAIN replayed
  /\ \A p \in DOMAIN recorded : recorded[p] # replayed[p] =>
       /\ p \in JsonFiles
       /\ LET a == Leaves[Parsed[recorded[p]]][DefaultTol]
              b == Leaves[Parsed[replayed[p]]][DefaultTol]
          IN  (\A x \in a \cup b : x.kind # "bytes") /\ SameLeaves(a, b)

\* A replay is told for what it was: reproduced only if the run of a deterministic parser gave the same
\* bytes, equivalent only within the policy, diverged only if a run as recorded completed with an output
\* outside it; and only what diverged, or has files that changed or are nowhere to be read, is invalidated
\* by a pass (engine._execute, invalidate_diverged, validate_artifact, auto_invalidate_drifted).
ReplayJustified ==
  /\ \A i \in DOMAIN replays :
       LET e == replays[i]
           r == records[e.record]
       IN  /\ e.outcome = "reproduced" => spec.deterministic /\ e.run.end = "ok" /\ e.run.out = r.out
           /\ e.outcome = "equivalent" => spec.policy /\ e.run.end = "ok" /\ Nearly(r.out, e.run.out)
           /\ e.outcome = "diverged" =>
                /\ e.run.end = "ok" /\ e.run.identity = "same" /\ e.run.out # r.out
                /\ spec.policy => ~Nearly(r.out, e.run.out)
  /\ \A r \in DOMAIN records :
       /\ records[r].cause = "replay" =>
            \E i \in DOMAIN replays : replays[i].record = r /\ replays[i].outcome = "diverged"
       /\ records[r].cause = "validate" =>
            \E i \in DOMAIN pass.results : pass.results[i].record = r /\ ~IsIntact(pass.results[i].verdict)

\* Every document is observed on every lane in the end, however often the campaign died or stopped, unless its
\* journal was spoilt (Campaign.run, Journal.__init__).
CampaignCompletes ==
  <>(journal.hurt \/ \A run \in ToSet(Runs) : \E i \in DOMAIN journal.lines : journal.lines[i].run = run)

\* "Invalidate every DIVERGED record through the Dispatcher" (engine.invalidate_diverged).
DivergedInvalidated ==
  pass.pc \in {"done", "stopped"} => \A i \in DOMAIN pass.results :
                 pass.results[i].verdict = "diverged" =>
                   records[pass.results[i].record].state = "invalidated"

=============================================================================

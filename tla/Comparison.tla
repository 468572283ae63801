----------------------------- MODULE Comparison -----------------------------
(***************************************************************************)
(* How one run's artifacts are judged against another's (replay/policy.py,  *)
(* replay/engine.py), how a document's lanes are (verification/report.py),  *)
(* and how a record's files are validated (replay/validator.py).           *)
(*                                                                         *)
(* A manifest is a function from file names to digests, and Parsed gives    *)
(* the JSON value of what a digest stands for. Json has every value and     *)
(* every part of one, as [kind, at]: a "dict" has a function from keys to   *)
(* values, a "list" a sequence of values, and numbers are integers in a     *)
(* unit of the model's; "bytes" is not JSON.                                *)
(***************************************************************************)
EXTENDS Integers, Sequences, FiniteSets

CONSTANTS
  Json,            \* JSON value -> what it is made of, see above
  Parsed,          \* digest -> JSON value
  Gone,            \* no file there
  JsonFiles,       \* the file names that end in .json or .jsonl
  IgnoreKeys,      \* a JsonTolerancePolicy's ignore_keys,
  DefaultTol,      \* its [rel, abs] (rel in hundredths),
  KeyTol           \* and its key_tolerances, a function of some keys

Numbers == {"int", "float"}
Nests == {"dict", "list"}

\* What a value is made of.
Parts(x) == IF x.kind \in Nests THEN {x.at[i] : i \in DOMAIN x.at} ELSE {}

\* Json has the parts of its values, and no value is a part of itself: among any dicts and lists, one is made
\* of none of them. Only a blob as a whole may be something else than JSON.
ASSUME ComparisonAssumption ==
  /\ \A n \in DOMAIN Json : Json[n].kind \in Nests \cup Numbers \cup {"str", "bool", "null", "bytes"}
  /\ \A n \in DOMAIN Json : \A p \in Parts(Json[n]) : p \in DOMAIN Json /\ Json[p].kind # "bytes"
  /\ \A n \in DOMAIN Json : Json[n].kind = "list" => Json[n].at \in Seq(DOMAIN Json)
  /\ \A S \in SUBSET {n \in DOMAIN Json : Json[n].kind \in Nests} :
       S # {} => \E n \in S : Parts(Json[n]) \cap S = {}

LOCAL Abs(n) == IF n < 0 THEN -n ELSE n
LOCAL Larger(m, n) == IF m < n THEN n ELSE m

IsClose(m, n, tol) ==
  \/ m = n
  \/ 100 * Abs(m - n) <= Larger(tol.rel * Larger(Abs(m), Abs(n)), 100 * tol.abs)

Tolerances == {DefaultTol} \cup {KeyTol[k] : k \in DOMAIN KeyTol}

\* The tolerance under a key: its own, or that of the key around it.
Inner(k, tol) == IF k \in DOMAIN KeyTol THEN KeyTol[k] ELSE tol

Keys(x) == DOMAIN x.at \ IgnoreKeys

\* The findings of _walk: what differs between two values.
Walk[m \in DOMAIN Json] == [n \in DOMAIN Json |-> [tol \in Tolerances |->
  LET a == Json[m]
      b == Json[n]
  IN  IF a.kind = "dict" /\ b.kind = "dict" THEN
        {<<"key", k>> : k \in (Keys(a) \ Keys(b)) \cup (Keys(b) \ Keys(a))}
          \cup UNION {Walk[a.at[k]][b.at[k]][Inner(k, tol)] : k \in Keys(a) \cap Keys(b)}
      ELSE IF a.kind = "list" /\ b.kind = "list" THEN
        IF Len(a.at) # Len(b.at) THEN {<<"length", m>>}
        ELSE UNION {Walk[a.at[i]][b.at[i]][tol] : i \in DOMAIN a.at}
      ELSE IF {a.kind, b.kind} \subseteq Numbers /\ "float" \in {a.kind, b.kind} THEN
        IF IsClose(a.at, b.at, tol) THEN {} ELSE {<<"beyond", m>>}
      ELSE IF a.kind = b.kind /\ a.at = b.at THEN {} ELSE {<<"value", m>>}]]

CompareJson(file, a, b) ==
  IF "bytes" \in {Json[Parsed[a]].kind, Json[Parsed[b]].kind} THEN {<<"not_json", file>>}
  ELSE Walk[Parsed[a]][Parsed[b]][DefaultTol]

DifferingPaths(recorded, replayed) ==
  {p \in DOMAIN recorded \cup DOMAIN replayed :
     ~(p \in DOMAIN recorded /\ p \in DOMAIN replayed /\ recorded[p] = replayed[p])}

\* The policy's findings; none accepts the replay.
PolicyFindings(recorded, replayed) ==
  {<<"missing", p>> : p \in DOMAIN recorded \ DOMAIN replayed}
    \cup {<<"not_recorded", p>> : p \in DOMAIN replayed \ DOMAIN recorded}
    \cup UNION {IF p \in JsonFiles THEN CompareJson(p, recorded[p], replayed[p])
                ELSE {<<"bytes_differ", p>>} :
                p \in {q \in DOMAIN recorded \cap DOMAIN replayed : recorded[q] # replayed[q]}}

\* The blobs a policy reads from the archive.
PolicyReads(recorded, replayed) ==
  UNION {{recorded[p], replayed[p]} :
           p \in {q \in JsonFiles \cap DOMAIN recorded \cap DOMAIN replayed :
                    recorded[q] # replayed[q]}}

-----------------------------------------------------------------------------
\* The outcome of one document on the baseline and on a candidate lane: an observation is [status,
\* failure], and the manifests are of the records found for them (NoRecord if none was).
CompareLanes(base, cand, baseOut, candOut, hasPolicy, NoRecord) ==
  LET statuses == {base.status, cand.status}
  IN  IF "incomplete" \in statuses THEN "incomplete"
      ELSE IF statuses \cap {"error", "containment_error"} # {} THEN "error"
      ELSE IF statuses = {"not_applicable"} THEN "not_applicable"
      ELSE IF "not_applicable" \in statuses THEN "failure_mismatch"
      ELSE IF statuses = {"sealed"} THEN
        IF NoRecord \in {baseOut, candOut} THEN "error"
        ELSE IF baseOut = candOut THEN "identical"
        ELSE IF hasPolicy /\ PolicyFindings(baseOut, candOut) = {} THEN "equivalent" ELSE "diverged"
      ELSE IF base.status = "sealed" THEN "regression"
      ELSE IF cand.status = "sealed" THEN "recovered"
      ELSE IF base.failure = cand.failure THEN "consistent_failure" ELSE "failure_mismatch"

Waivable == {"diverged", "regression", "failure_mismatch"}

-----------------------------------------------------------------------------
\* What re-hashing a record's files says: working is the directory's [file -> digest or Gone],
\* readable the digests the archive verifies. A link or a file that changed is drift.
Validation(manifest, working, readable) ==
  LET gone == {p \in DOMAIN manifest : p \notin DOMAIN working \/ working[p] = Gone}
      missing == {p \in gone : manifest[p] \notin readable}
      drifted == {p \in DOMAIN manifest \ gone : working[p] # manifest[p]}
  IN  IF missing # {} THEN "missing"
      ELSE IF drifted # {} THEN "drift"
      ELSE IF gone # {} THEN "archived" ELSE "ok"

IsIntact(status) == status \in {"ok", "archived"}
=============================================================================

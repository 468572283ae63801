------------------------------ MODULE MCReplay ------------------------------
(* Small instances of Replay for TLC. *)
EXTENDS Replay

CONSTANTS Link, d1, d2, bwrap, oci, v1, v2, Out, Near, Far

MCLanes == <<bwrap, oci>>
MCVersions == {v1, v2}

\* A blob's bytes say {bbox: [box, 7], score: x, at: tag}; a value is named by the way to it.
Document(blob, x, box, tag) ==
  LET part == [name \in {"bbox", "score", "at"} |-> <<blob, name>>] IN
  (<<blob>> :> [kind |-> "dict", at |-> part]
     @@ part.bbox :> [kind |-> "list", at |-> <<<<blob, "bbox", 1>>, <<blob, "bbox", 2>>>>]
     @@ <<blob, "bbox", 1>> :> [kind |-> "float", at |-> box]
     @@ <<blob, "bbox", 2>> :> [kind |-> "int", at |-> 7]
     @@ part.score :> [kind |-> "float", at |-> x]
     @@ part.at :> [kind |-> "str", at |-> tag])

\* Out and Near agree within the bbox's tolerance, and but for an ignored key; Far's score has moved.
MCJson == Document(Out, 90, 100, "mon") @@ Document(Near, 90, 104, "tue") @@ Document(Far, 93, 100, "mon")
MCParsed == [blob \in {Out, Near, Far} |-> <<blob>>]
MCKeyTol == [bbox |-> [rel |-> 0, abs |-> 5]]
MCDefaultTol == [rel |-> 1, abs |-> 0]
MCJsonFiles == {"out.json"}
MCIgnoreKeys == {"at"}

Manifest(blob) == [p \in {"out.json"} |-> blob]
Run(end, failure, out) == [end |-> end, failure |-> failure, out |-> out]
Ok(blob) == Run("ok", "none", Manifest(blob))
Failed(why) == Run("failed", why, NoRecord)
Plan(refused, base1, cand1, base2, cand2) ==
  [refused |-> refused, backend |-> [lane \in {bwrap, oci} |-> lane],
   runs |-> (<<bwrap, v1>> :> base1 @@ <<oci, v1>> :> cand1 @@ <<bwrap, v2>> :> base2 @@ <<oci, v2>> :> cand2)]

\* Both lanes on one backend, each with a spec of its own.
Shared(plan_) == [plan_ EXCEPT !.backend = [lane \in {bwrap, oci} |-> oci]]

Spec_(known, runnable, module, deterministic, policy) ==
  [known |-> known, runnable |-> runnable, module |-> module, deterministic |-> deterministic, policy |-> policy]

MCPolicies == {Spec_(TRUE, TRUE, TRUE, TRUE, FALSE), Spec_(TRUE, TRUE, TRUE, FALSE, TRUE)}

MCReRuns ==
  {[end |-> "ok", out |-> Manifest(b), identity |-> "same"] : b \in {Out, Near, Far}}
    \cup {[end |-> "ok", out |-> Manifest(Far), identity |-> "other"]}
    \cup {[end |-> e, out |-> <<>>, identity |-> "same"] : e \in {"unsupported", "failed", "fault"}}

\* For the replays: one document that both lanes agree on or not, and two records of before.
MCDisk == {d1 :> v1 @@ d2 :> Link}
MCDocument == <<d1, d2>>
MCPlan == {Plan({}, Ok(Out), Ok(Near), Ok(Out), Ok(Near)), Plan({}, Ok(Far), Failed("timeout"), Ok(Out), Ok(Out))}

MCRecords == {<<Record("sealed", <<d1, bwrap>>, v1, Manifest(Out), "other"),
                Record("invalidated", <<d1, oci>>, v2, Manifest(Near), "other")>>}

MCSpecs ==
  MCPolicies \cup {Spec_(TRUE, TRUE, TRUE, FALSE, FALSE), Spec_(TRUE, TRUE, TRUE, TRUE, TRUE)}

=============================================================================

------------------------------ MODULE MCSignOff ------------------------------
(* Small instances of SignOff for TLC. *)
EXTENDS SignOff, MCReplay

CONSTANT d3

MCPaths == <<d1, d2, d3>>

\* Two documents, and a link beside them.
MCDisks == {d1 :> v1 @@ d2 :> v2 @@ d3 :> Link}

\* A document that only the candidate parses, and one that the lanes nearly agree on; one they differ on, and
\* one refused by both; one that both fail alike, and one that fails where the baseline refuses it, on lanes of one backend.
MCPlans ==
  {Plan({}, Failed("timeout"), Ok(Out), Ok(Out), Ok(Near)),
   Plan({<<d2, bwrap>>, <<d2, oci>>}, Ok(Out), Ok(Far), Ok(Out), Ok(Out)),
   Shared(Plan({<<d2, bwrap>>}, Failed("timeout"), Failed("timeout"), Ok(Out), Failed("memory_limit")))}

\* The ledger holds an earlier campaign's record, with another configuration.
MCLedgers == {<<Record("sealed", <<d1, bwrap>>, v1, Manifest(Out), "other")>>}

\* Nothing, or one difference that only some of the plans make.
MCWaivers == {{}, {<<d1, oci, "diverged">>}}

=============================================================================

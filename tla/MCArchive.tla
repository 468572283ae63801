----------------------------- MODULE MCArchive -----------------------------
(* Small instances of Archive for TLC: a tree of one file, and a snapshot of  *)
(* that file by itself.  Blobs are in two shards, snapshot records in one.     *)
EXTENDS Archive, TLC

CONSTANTS f, t, Tree, File, S1, S2, SM

MCParts   == Tree :> {f} @@ File :> {}
MCRoot    == Tree :> t @@ File :> f
MCShardOf == f :> S1 @@ t :> S2 @@ Tree :> SM @@ File :> SM
MCBeside  == S1 :> {S1, S2} @@ S2 :> {S1, S2} @@ SM :> {SM}

Symmetry == Permutations(Clients)

=============================================================================

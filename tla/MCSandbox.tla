----------------------------- MODULE MCSandbox -----------------------------
(* Small instances of Sandbox for TLC. *)
EXTENDS Sandbox, TLC

CONSTANTS a, b, i1, i2, link

\* An engine as `<engine> info` and `image inspect` report it.
EngineOf(kind, rootless, image) ==
  [kind |-> kind, os |-> "linux", rootless |-> rootless, seccomp |-> TRUE, runtimes |-> {"runc"},
   controllers |-> {"memory", "pids", "cpu"}, cdi |-> FALSE, answers |-> TRUE, image |-> image]

HostOf(bwrap, engines, root, store) ==
  [bwrap |-> bwrap, seccomp |-> TRUE, wasmtime |-> TRUE, engines |-> engines, paths |-> {"runc"},
   root |-> root, store |-> store]

\* bubblewrap or not, no image in podman's store but in docker's, root or not, a store or not.
MCHosts ==
  {HostOf(TRUE, <<>>, FALSE, FALSE),
   HostOf(FALSE, <<EngineOf("podman", TRUE, TRUE)>>, FALSE, TRUE),
   HostOf(FALSE, <<EngineOf("podman", FALSE, FALSE), EngineOf("docker", FALSE, TRUE)>>, TRUE, TRUE),
   HostOf(FALSE, <<EngineOf("docker", TRUE, TRUE)>>, FALSE, FALSE)}

\* A native parser and a Wasm module; a parser that needs a GPU is refused here.
MCNeeds == {{"native_libs"}, {"wasm"}, {"gpu"}}

\* No input, one file, a file and a link.
MCInputs ==
  {[n \in Names |-> NoInode], (a :> i1 @@ b :> NoInode), (a :> i1 @@ b :> link)}

=============================================================================

------------------------------- MODULE Backends -------------------------------
(***************************************************************************)
(* The pure decisions around a sandbox backend: which guarantees a backend  *)
(* of a host claims, what an engine's probe finds, which backend a parser   *)
(* gets, and how each backend names the failure of a run.                   *)
(***************************************************************************)
EXTENDS Integers, Sequences

\* What a run of the parser needs, and what a backend claims.
Baseline == {"filesystem", "network"}

\* needs is a set of the flags a ParserRequirements may raise.
Required(needs) ==
  Baseline \cup (needs \ {"wasm"}) \cup {IF "wasm" \in needs THEN "wasm" ELSE "host_process"}

\* What `<engine> info` says, normalized: raw is the engine's own report.
ParseEngineInfo(raw) ==
  [kind     |-> raw.kind,
   os       |-> raw.os,
   rootless |-> raw.rootless,
   seccomp  |-> raw.seccomp,
   runtimes |-> raw.runtimes,
   limits   |-> {"memory", "pids", "cpu"} \subseteq raw.controllers,
   gpu      |-> raw.cdi \/ (raw.kind = "docker" /\ "nvidia" \in raw.runtimes)]

RuntimeKnown(info, runtime, paths) ==
  runtime \in info.runtimes \/ (info.kind = "podman" /\ runtime \in paths)

\* The default runtime (runc) can be given a GPU; an engine that exposes none cannot.
GpuProblem(gpu, info) == gpu /\ ~info.gpu

\* What stops engine e from running the backend, "none" if nothing does; the first that applies.
EngineProblem(e, gpu, paths) ==
  LET info == ParseEngineInfo(e) IN
  CASE ~e.answers                                  -> "info"
    [] e.answers /\ info.os # "linux"              -> "os"
    [] e.answers /\ info.os = "linux" /\ info.kind = "docker" /\ info.rootless -> "rootless"
    [] OTHER -> IF ~RuntimeKnown(info, "runc", paths) THEN "runtime"
                ELSE IF GpuProblem(gpu, info) THEN "gpu"
                ELSE IF e.image THEN "none" ELSE "image"

\* The engine a probe settles on: the first without a problem; 0 if there is none.
Probe(host, gpu) ==
  LET fit == {i \in DOMAIN host.engines : EngineProblem(host.engines[i], gpu, host.paths) = "none"}
  IN IF fit = {} THEN 0 ELSE CHOOSE i \in fit : \A j \in fit : i <= j

\* The registered backends, in preference order.
DefaultBackends == <<"bubblewrap", "oci", "oci-gpu", "wasmtime">>

OciCapabilities(host, gpu) ==
  {"filesystem", "network", "host_process", "native_libs"} \cup
  (IF gpu THEN {"gpu"} ELSE {}) \cup
  (IF Probe(host, gpu) = 0 THEN {}
   ELSE LET info == ParseEngineInfo(host.engines[Probe(host, gpu)]) IN
        (IF info.seccomp THEN {"syscall_filter"} ELSE {}) \cup
        (IF info.limits THEN {"resource_limits"} ELSE {}))

Capabilities(b, host) ==
  CASE b = "bubblewrap" -> {"filesystem", "network", "host_process", "native_libs"} \cup
                           (IF host.seccomp THEN {"syscall_filter"} ELSE {})
    [] b = "wasmtime"   -> {"filesystem", "network", "resource_limits", "deterministic", "wasm"}
    [] b = "oci"        -> OciCapabilities(host, FALSE)
    [] b = "oci-gpu"    -> OciCapabilities(host, TRUE)

Available(b, host) ==
  CASE b = "bubblewrap" -> host.bwrap
    [] b = "wasmtime"   -> host.wasmtime
    [] b = "oci"        -> Probe(host, FALSE) # 0
    [] b = "oci-gpu"    -> Probe(host, TRUE) # 0

Capable(needs, host) ==
  {i \in DOMAIN DefaultBackends : Required(needs) \subseteq Capabilities(DefaultBackends[i], host)}

\* The first capable backend that is available, or which of the two errors is raised.
Select(needs, host) ==
  LET able == Capable(needs, host)
      fit  == {i \in able : Available(DefaultBackends[i], host)}
  IN IF fit # {} THEN DefaultBackends[CHOOSE i \in fit : \A j \in fit : i <= j]
     ELSE IF able # {} THEN "unavailable" ELSE "unsupported"

----------------------------------------------------------------------------
\* Exit statuses: 128 + signo is a death by signal.
SIGKILL == 9
SIGSYS == 31
DiedBySignal(code) == 128 < code /\ code <= 128 + 64

EngineErrors == {125, 126, 127}

BwrapFailure(timedOut, code, filter) ==
  CASE timedOut                                       -> "timeout"
    [] ~timedOut /\ filter /\ code = 128 + SIGSYS     -> "syscall_blocked"
    [] ~timedOut /\ ~(filter /\ code = 128 + SIGSYS) /\ (DiedBySignal(code) \/ code < 0) -> "crashed"
    [] OTHER -> IF code = 0 THEN "none" ELSE "exit_status"

\* late: the run took the timeout less half a second, or more.
OciFailure(timedOut, code, late) ==
  CASE timedOut                                       -> "timeout"
    [] ~timedOut /\ code = 0                          -> "none"
    [] ~timedOut /\ code = 128 + SIGKILL              -> IF late THEN "timeout" ELSE "out_of_memory"
    [] ~timedOut /\ code \in EngineErrors             -> "engine_error"
    [] OTHER -> IF DiedBySignal(code) THEN "crashed" ELSE "exit_status"

\* How a guest ends: an exit, a trap, or an error before it starts; atCap: its memory reached the limit.
WasmFailure(ending, code, atCap) ==
  CASE ending = "interrupt"   -> "timeout"
    [] ending = "out_of_fuel" -> "cpu_limit"
    [] ending = "trap"        -> IF atCap THEN "out_of_memory" ELSE "wasm_trap"
    [] ending = "unlinkable"  -> "engine_error"
    [] ending = "too_big"     -> "out_of_memory"
    [] ending = "exit"        -> IF code = 0 THEN "none" ELSE "exit_status"

\* For a backend that does not classify its own failures.
GenericFailure(timedOut, violation, code) ==
  IF timedOut THEN "timeout"
  ELSE IF violation THEN "syscall_blocked"
  ELSE IF code # 0 THEN "exit_status" ELSE "none"

=============================================================================

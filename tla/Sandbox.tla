------------------------------- MODULE Sandbox -------------------------------
(***************************************************************************)
(* One call of run_in_sandbox: the input is staged while others change it,  *)
(* archived, and given to a parser that runs in a bubblewrap process, in a  *)
(* container behind an engine's client, or as a Wasm guest; the call waits  *)
(* for it under a deadline, stops it, collects what it left, and stores it. *)
(***************************************************************************)
EXTENDS Backends, FiniteSets

CONSTANTS
  Names,        \* file names, of the input and of the output
  Inputs,       \* what the call's input may be: functions from Names to inodes
  Inodes,       \* regular files the input's names may stand for
  Links,        \* symlinks, FIFOs and devices they may stand for
  NoInode,      \* the name is free
  Hosts,        \* what the host offers (bwrap, engines, wasmtime, root, a store or not)
  Needs,        \* sets of requirements a parser may have
  MaxFiles,     \* max_output_files
  MaxChanges,   \* bound: changes of the input made by others
  MaxFaults     \* bound: interrupts and failing stores

ASSUME SandboxAssumption ==
  /\ MaxFiles \in Nat /\ MaxChanges \in Nat /\ MaxFaults \in Nat
  /\ NoInode \notin Inodes \cup Links

VARIABLES
  host,       \* the host's entry of Hosts
  needs,      \* the parser's requirements
  pc,         \* where the call is
  backend,    \* the chosen backend
  disk,       \* name -> inode: the caller's input
  text,       \* inode -> the version of its text
  todo,       \* input names not yet staged
  at,         \* the file being staged: its name, the inode lstat saw, the inode opened
  staged,     \* name -> the chunks copied so far
  manifest,   \* name -> the chunks hashed so far (its digest)
  seen,       \* what the parser was given
  output,     \* name -> what the parser left there
  child,      \* the bwrap process, the engine's client or the guest
  code,       \* its exit status
  guard,      \* the timer thread's shared state: [armed, killed, reaped]
  stray,      \* a signal was sent to a pid that was reaped
  container,  \* the engine's container
  inflight,   \* the client's request the engine has not handled yet
  clock,      \* 0: early, 1: within half a second of the deadline, 2: past it
  attempts,   \* removals of the container tried
  owner,      \* who owns the output directory and the staged input
  outcome,    \* what the backend reported
  result,     \* what the call returned
  error,      \* what it raised
  kept,       \* the evidence store: [input, output]
  changes, faults

runner == <<pc, backend, outcome, result, error>>
staging == <<disk, text, todo, at, staged, manifest, changes>>
world == <<seen, output, owner, kept>>
process == <<child, code, guard, stray, container, inflight, clock, attempts>>
vars == <<host, needs, runner, staging, world, process, faults>>

NoFile == [name |-> "none", lstat |-> NoInode, fd |-> NoInode]
NoOutcome == [failure |-> "none", code |-> 0, timedOut |-> FALSE]
NoResult == [failure |-> "unfinished"]
NoOutput == [n \in Names |-> "none"]
NothingStaged == [n \in Names |-> <<>>]

Files == {n \in Names : output[n] = "file"}
Unsafe == {n \in Names : output[n] \in {"link", "locked"}}
Oci == backend \in {"oci", "oci-gpu"}

\* The parser's code is running, wherever it runs.
Alive == IF Oci THEN container = "running" ELSE child = "running"

Ended == pc \in {"returned", "raised"}

Init ==
  /\ host \in Hosts /\ needs \in Needs
  /\ disk \in Inputs
  /\ text = [i \in Inodes |-> 0]
  /\ output \in {NoOutput} \cup {[NoOutput EXCEPT ![n] = "file"] : n \in Names}
  /\ pc = "called" /\ backend = "none"
  /\ todo = {n \in Names : disk[n] # NoInode}
  /\ at = NoFile /\ staged = NothingStaged /\ manifest = NothingStaged
  /\ seen = NothingStaged /\ owner = "stele"
  /\ child = "none" /\ code = 0 /\ stray = FALSE
  /\ guard = [armed |-> FALSE, killed |-> FALSE, reaped |-> FALSE]
  /\ container = "none" /\ inflight = "none" /\ clock = 0 /\ attempts = 0
  /\ outcome = NoOutcome /\ result = NoResult /\ error = "none"
  /\ kept = [input |-> NothingStaged, output |-> NoOutput]
  /\ changes = 0 /\ faults = 0

----------------------------------------------------------------------------
(* Leaving the call: the staging copy is deleted in a finally block.        *)

CleanStaging == staged' = NothingStaged /\ UNCHANGED <<disk, text, todo, at, manifest, changes>>

Raise(what) == pc' = "raised" /\ error' = what /\ UNCHANGED <<backend, outcome, result>>

\* The output directory is emptied (and removed if the run made it). A parser that still runs can stop
\* that half-way: an entry it removed is missed, an entry it added keeps a directory from being removed.
RemoveOutput ==
  /\ \/ output' = NoOutput
     \/ Alive /\ \E left \in SUBSET Names : output' = [n \in Names |-> IF n \in left THEN output[n] ELSE "none"]
  /\ UNCHANGED <<seen, owner, kept>>

\* An exception out of execute(): the output is removed (an error doing so is swallowed) and it is re-raised.
LeaveExecute(what) == CleanStaging /\ Raise(what) /\ RemoveOutput

----------------------------------------------------------------------------
(* Before the parser: the checks and the staging.                           *)

\* Leftover files would be credited to this run; a host that cannot run the parser is refused first.
Choose ==
  /\ pc = "called"
  /\ IF output # NoOutput THEN Raise("not_empty")
     ELSE LET chosen == Select(needs, host) IN
          IF chosen \in {"unavailable", "unsupported"} THEN Raise(chosen)
          ELSE /\ backend' = chosen
               /\ pc' = IF todo = {} THEN "launch" ELSE "stage"
               /\ UNCHANGED <<outcome, result, error>>
  /\ UNCHANGED <<host, needs, staging, world, process, faults>>

StagingFails == CleanStaging /\ Raise("staging")

\* lstat: only a regular file may be staged.
Inspect(n) ==
  /\ pc = "stage" /\ at = NoFile /\ n \in todo
  /\ IF disk[n] \in Inodes
       THEN /\ at' = [name |-> n, lstat |-> disk[n], fd |-> NoInode]
            /\ UNCHANGED <<runner, disk, text, todo, staged, manifest, changes>>
       ELSE StagingFails
  /\ UNCHANGED <<host, needs, world, process, faults>>

\* O_NOFOLLOW refuses a link; the opened file must be the inspected one.
Open ==
  /\ pc = "stage" /\ at # NoFile /\ at.fd = NoInode
  /\ IF disk[at.name] = at.lstat
       THEN /\ at' = [at EXCEPT !.fd = disk[at.name]]
            /\ UNCHANGED <<runner, disk, text, todo, staged, manifest, changes>>
       ELSE StagingFails
  /\ UNCHANGED <<host, needs, world, process, faults>>

\* Slip: the file is hashed before it is copied.
CopyChunkHashedFirst ==
  /\ pc = "stage" /\ at.fd \in Inodes
  /\ LET n == at.name
         t == <<at.fd, text[at.fd]>> IN
     /\ staged' = [staged EXCEPT ![n] = Append(@, t)]
     /\ manifest' = [manifest EXCEPT ![n] = IF @ = <<>> THEN <<t, t>> ELSE @]
     /\ IF Len(staged[n]) = 0 THEN UNCHANGED <<at, todo>>
        ELSE at' = NoFile /\ todo' = todo \ {n}
  /\ UNCHANGED <<host, needs, runner, disk, text, changes, world, process, faults>>

\* A chunk (of two) is read once, and both hashed and written.
CopyChunk ==
  /\ pc = "stage" /\ at.fd \in Inodes
  /\ LET n == at.name
         t == <<at.fd, text[at.fd]>> IN
     /\ staged' = [staged EXCEPT ![n] = Append(@, t)]
     /\ manifest' = [manifest EXCEPT ![n] = Append(@, t)]
     /\ IF Len(staged[n]) = 0 THEN UNCHANGED <<at, todo>>
        ELSE at' = NoFile /\ todo' = todo \ {n}
  /\ UNCHANGED <<host, needs, runner, disk, text, changes, world, process, faults>>

Staged == pc = "stage" /\ at = NoFile /\ todo = {}

\* Every staged file is re-hashed as it is archived; the Snapshot comes last.
ArchiveInput ==
  /\ Staged
  /\ \/ /\ host.store => staged = manifest
        /\ kept' = IF host.store THEN [kept EXCEPT !.input = staged] ELSE kept
        /\ pc' = "launch"
        /\ UNCHANGED <<staging, backend, outcome, result, error, faults>>
     \/ /\ host.store
        /\ \/ staged # manifest /\ UNCHANGED faults
           \/ faults < MaxFaults /\ faults' = faults + 1
        /\ StagingFails /\ UNCHANGED kept
  /\ UNCHANGED <<host, needs, seen, output, owner, process>>

----------------------------------------------------------------------------
(* The backends start: bubblewrap and the client as a child process, a Wasm *)
(* guest on the runner's own thread.                                        *)

Armed == [armed |-> TRUE, killed |-> FALSE, reaped |-> FALSE]

\* What a backend shows the parser as its input: the staging copy, read-only, and nothing else of the caller's.
Mounted == staged

LaunchBwrap ==
  /\ pc = "launch" /\ backend = "bubblewrap"
  /\ child' = "running" /\ guard' = Armed /\ seen' = Mounted /\ pc' = "wait"
  /\ UNCHANGED <<host, needs, backend, outcome, result, error, staging, output, owner, kept,
                 code, stray, container, inflight, clock, attempts, faults>>

\* bwrap may have gone since it was probed.
BwrapGone ==
  /\ pc = "launch" /\ backend = "bubblewrap"
  /\ error' = "unavailable" /\ pc' = "executed"
  /\ UNCHANGED <<host, needs, backend, outcome, result, staging, world, process, faults>>

\* The root's output directory and input are handed to nobody for the run.
HandedOver == IF host.root THEN "nobody" ELSE owner

LaunchClient ==
  /\ pc = "launch" /\ Oci
  /\ owner' = HandedOver
  /\ child' = "running" /\ pc' = "wait"
  /\ UNCHANGED <<host, needs, backend, outcome, result, error, staging, seen, output, kept,
                 code, guard, stray, container, inflight, clock, attempts, faults>>

\* A path the engine's --mount cannot express, or an engine that is gone, is refused after the handover.
ClientRefused ==
  /\ pc = "launch" /\ Oci
  /\ owner' = HandedOver
  /\ error' \in {"refused", "unavailable"} /\ pc' = "take_back"
  /\ UNCHANGED <<host, needs, backend, outcome, result, staging, seen, output, kept, process, faults>>

\* The exit status of a module that does not load or link, and of one whose memory is over the limit.
GuestRefused == [unlinkable |-> 127, too_big |-> 134]

\* The module loads and links, and its timer starts; or it is refused before it runs.
LaunchGuest ==
  /\ pc = "launch" /\ backend = "wasmtime"
  /\ \/ /\ child' = "running" /\ guard' = Armed /\ seen' = Mounted /\ pc' = "wait"
        /\ UNCHANGED outcome
     \/ \E ending \in DOMAIN GuestRefused :
          /\ outcome' = [failure |-> WasmFailure(ending, GuestRefused[ending], FALSE),
                          code |-> GuestRefused[ending], timedOut |-> FALSE]
          /\ pc' = "executed"
          /\ UNCHANGED <<child, guard, seen>>
  /\ UNCHANGED <<host, needs, backend, result, error, staging, output, owner, kept,
                 code, stray, container, inflight, clock, attempts, faults>>

----------------------------------------------------------------------------
(* The parser, while it runs: it may write, unlink, exit, crash or hang.    *)

ParserWrites(n, what) ==
  /\ Alive
  /\ output' = [output EXCEPT ![n] = what]
  /\ UNCHANGED <<host, needs, runner, staging, seen, owner, kept, process, faults>>

\* bubblewrap's init exits with the parser's status; bubblewrap itself may be killed, and all in it.
BwrapExits(c) ==
  /\ backend = "bubblewrap" /\ child = "running"
  /\ child' = "zombie" /\ code' = c
  /\ UNCHANGED <<host, needs, runner, staging, world, guard, stray, container, inflight, clock,
                 attempts, faults>>

ClientCreates ==
  /\ Oci /\ child = "running" /\ container = "none" /\ inflight = "none"
  /\ inflight' = "create"
  /\ UNCHANGED <<host, needs, runner, staging, world, child, code, guard, stray, container, clock,
                 attempts, faults>>

\* The call has left, and deleted the input its container was to mount.
InputDeleted == manifest # NothingStaged /\ staged = NothingStaged

\* The engine handles the request, also when its client is gone; a mount that is not there is refused.
EngineHandles ==
  /\ inflight # "none"
  /\ inflight' = "none"
  /\ \/ inflight = "create" /\ container' = "created" /\ UNCHANGED seen
     \/ inflight = "start" /\ container = "created" /\ ~InputDeleted /\ container' = "running" /\ seen' = Mounted
     \/ inflight = "start" /\ container = "created" /\ InputDeleted /\ container' = "gone" /\ UNCHANGED seen
     \/ inflight = "start" /\ container # "created" /\ UNCHANGED <<container, seen>>
  /\ UNCHANGED <<host, needs, runner, staging, output, owner, kept, child, code, guard, stray,
                 clock, attempts, faults>>

ClientStarts ==
  /\ Oci /\ child = "running" /\ container = "created" /\ inflight = "none"
  /\ inflight' = "start"
  /\ UNCHANGED <<host, needs, runner, staging, world, child, code, guard, stray, container, clock,
                 attempts, faults>>

\* The container's process ends, by itself, by the memory limit, or by the engine's own deadline; --rm removes it.
\* Its status is for the client, while there is one.
ContainerExits(c) ==
  /\ container = "running"
  /\ container' = "gone" /\ code' = IF child = "running" THEN c ELSE code
  /\ UNCHANGED <<host, needs, runner, staging, world, child, guard, stray, inflight, clock, attempts, faults>>

\* The client reports the container's status, or why it could not be run.
ClientExits ==
  /\ Oci /\ child = "running"
  /\ \/ container = "gone" /\ UNCHANGED <<code, container>>
     \/ /\ container \in {"none", "created"} /\ inflight = "none"
        /\ code' \in EngineErrors /\ container' = "gone"
  /\ child' = "zombie"
  /\ UNCHANGED <<host, needs, runner, staging, world, guard, stray, inflight, clock, attempts, faults>>

\* The client dies or loses its engine: it is killed (by the kernel for its memory, by an operator), or gives
\* up with the engine's own status. Its container, and the request it sent, are as they were.
LostStatus == {-SIGKILL, 125}

ClientDies ==
  /\ Oci /\ child = "running"
  /\ child' = "zombie" /\ code' \in LostStatus
  /\ UNCHANGED <<host, needs, runner, staging, world, guard, stray, container, inflight, clock, attempts, faults>>

\* The guest returns, exits, traps, runs out of fuel, or is interrupted by the epoch the timer advanced.
GuestEnds(ending, c, atCap) ==
  /\ backend = "wasmtime" /\ child = "running" /\ pc = "wait"
  /\ ending = "interrupt" => guard.killed
  /\ child' = "reaped" /\ code' = c
  /\ outcome' = [failure |-> WasmFailure(ending, c, atCap), code |-> c, timedOut |-> ending = "interrupt"]
  /\ guard' = [guard EXCEPT !.armed = FALSE, !.reaped = TRUE]
  /\ pc' = "executed"
  /\ UNCHANGED <<host, needs, backend, result, error, staging, world, stray, container, inflight,
                 clock, attempts, faults>>

Tick ==
  /\ pc \in {"wait", "reaped"} /\ clock < 2
  /\ clock' = clock + 1
  /\ UNCHANGED <<host, needs, runner, staging, world, child, code, guard, stray, container, inflight,
                 attempts, faults>>

----------------------------------------------------------------------------
(* The deadline: a timer thread for bubblewrap and Wasm, the wait's own     *)
(* timeout for the client.                                                  *)

\* Slip: the timer marks the run killed but signals the parser's process only, which a child outlives.
KillMarksOnly ==
  /\ guard.armed /\ clock = 2
  /\ guard' = [guard EXCEPT !.armed = FALSE, !.killed = ~guard.reaped]
  /\ UNCHANGED <<host, needs, runner, staging, world, child, code, stray, container, inflight,
                 clock, attempts, faults>>

\* kill_group: under the lock, unless reaped is already set. For Wasm the epoch is advanced.
KillGroup ==
  /\ guard.armed /\ clock = 2
  /\ guard' = [guard EXCEPT !.armed = FALSE, !.killed = ~guard.reaped]
  /\ IF backend = "bubblewrap" /\ child = "running" /\ ~guard.reaped
       THEN child' = "zombie" /\ code' = -SIGKILL
       ELSE UNCHANGED <<child, code>>
  /\ stray' = (stray \/ (backend = "bubblewrap" /\ child = "reaped" /\ ~guard.reaped))
  /\ UNCHANGED <<host, needs, runner, staging, world, container, inflight, clock, attempts, faults>>

\* wait4 returns: from here the pid is free.
Reap ==
  /\ pc = "wait" /\ backend = "bubblewrap" /\ child = "zombie"
  /\ child' = "reaped" /\ pc' = "reaped"
  /\ UNCHANGED <<host, needs, backend, outcome, result, error, staging, world, code, guard, stray,
                 container, inflight, clock, attempts, faults>>

\* Under the lock the timer is told, then cancelled; the status is classified.
Report ==
  /\ pc = "reaped"
  /\ guard' = [guard EXCEPT !.armed = FALSE, !.reaped = TRUE]
  /\ LET c == IF guard.killed THEN -1 ELSE code IN
     outcome' = [failure |-> BwrapFailure(guard.killed, c, host.seccomp), code |-> c,
                 timedOut |-> guard.killed]
  /\ pc' = "executed"
  /\ UNCHANGED <<host, needs, backend, result, error, staging, world, child, code, stray,
                 container, inflight, clock, attempts, faults>>

\* Whatever the client's status, it is the run's: nobody asks the engine about the container.
ClientReaped ==
  /\ pc = "wait" /\ Oci /\ child = "zombie"
  /\ child' = "reaped"
  /\ outcome' = [failure |-> OciFailure(FALSE, code, clock # 0), code |-> code, timedOut |-> FALSE]
  /\ pc' = "take_back"
  /\ UNCHANGED <<host, needs, backend, result, error, staging, world, code, guard, stray,
                 container, inflight, clock, attempts, faults>>

\* The client is killed at the deadline; its container is not, and must be removed.
ClientTimesOut ==
  /\ pc = "wait" /\ Oci /\ child \in {"running", "zombie"} /\ clock = 2
  /\ child' = "reaped" /\ pc' = "remove"
  /\ UNCHANGED <<host, needs, backend, outcome, result, error, staging, world, code, guard, stray,
                 container, inflight, clock, attempts, faults>>

RemovalAttempts == 3

\* `rm -f` works, or fails, or is itself timed out.
RemoveContainer ==
  /\ pc = "remove"
  /\ \/ container' = IF container = "none" THEN "none" ELSE "gone"
     \/ UNCHANGED container
  /\ attempts' = attempts + 1
  /\ pc' = "inspect"
  /\ UNCHANGED <<host, needs, backend, outcome, result, error, staging, world, child, code, guard,
                 stray, inflight, clock, faults>>

TimedOut == [failure |-> OciFailure(TRUE, -1, TRUE), code |-> -1, timedOut |-> TRUE]

\* Slip: a removal that reported success is not verified.
InspectTrusted ==
  /\ pc = "inspect"
  /\ outcome' = TimedOut /\ pc' = "take_back"
  /\ UNCHANGED <<host, needs, backend, result, error, staging, world, process, faults>>

\* Only the engine's "no such container" proves it gone; no answer proves nothing.
InspectContainer ==
  /\ pc = "inspect"
  /\ \/ /\ container \in {"none", "gone"}
        /\ outcome' = TimedOut /\ pc' = "take_back" /\ UNCHANGED error
     \/ /\ attempts < RemovalAttempts
        /\ pc' = "remove" /\ UNCHANGED <<outcome, error>>
     \/ /\ attempts = RemovalAttempts
        /\ error' = "cleanup" /\ pc' = "take_back" /\ UNCHANGED outcome
  /\ UNCHANGED <<host, needs, backend, result, staging, world, process, faults>>

\* finally: ownership is handed back; a file the parser removes meanwhile makes that raise, in place of what was raised.
TakeBack ==
  /\ pc = "take_back"
  /\ \/ owner' = "stele" /\ UNCHANGED <<error, output>>
     \/ /\ owner = "nobody" /\ Alive
        /\ \E n \in {m \in Names : output[m] # "none"} : output' = [output EXCEPT ![n] = "none"]
        /\ error' = "not_found" /\ UNCHANGED owner
  /\ pc' = "executed"
  /\ UNCHANGED <<host, needs, backend, outcome, result, staging, seen, kept, process, faults>>

\* Interrupted while waiting: a process is left running, without its timer; a client is killed, its container not.
Interrupt ==
  /\ pc = "wait" /\ backend # "wasmtime" /\ faults < MaxFaults
  /\ faults' = faults + 1
  /\ error' = "interrupt"
  /\ IF Oci THEN child' = "reaped" /\ pc' = "take_back" /\ UNCHANGED guard
     ELSE guard' = [guard EXCEPT !.armed = FALSE, !.reaped = TRUE] /\ pc' = "executed"
          /\ UNCHANGED child
  /\ UNCHANGED <<host, needs, backend, outcome, result, staging, world, code, stray, container,
                 inflight, clock, attempts>>

----------------------------------------------------------------------------
(* After the parser.                                                        *)

ExecuteRaises ==
  /\ pc = "executed" /\ error # "none"
  /\ LeaveExecute(error)
  /\ UNCHANGED <<host, needs, process, faults>>

Failure == IF outcome.failure # "none" THEN outcome.failure
           ELSE GenericFailure(outcome.timedOut, FALSE, outcome.code)

\* The walk fails closed at an entry that is not a regular file, or past the limits; which comes first is its order.
CollectedAs(failure) ==
  IF Failure # "none" THEN failure = Failure
  ELSE \/ failure = "unsafe_artifact" /\ Unsafe # {}
       \/ failure = "output_limit" /\ Cardinality(Files) > MaxFiles
       \/ failure = "none" /\ Unsafe = {} /\ Cardinality(Files) <= MaxFiles

ReturnedOf(failure, artifacts) ==
  [failure |-> failure, code |-> outcome.code,
   timedOut |-> outcome.timedOut \/ failure = "timeout",
   input |-> manifest, artifacts |-> artifacts]

\* Slip: what a failed run wrote is collected all the same.
CollectFailed ==
  /\ pc = "executed" /\ error = "none"
  /\ CleanStaging
  /\ \E failure \in {Failure, "unsafe_artifact", "output_limit"} :
       /\ CollectedAs(failure)
       /\ result' = ReturnedOf(failure, Files)
       /\ pc' = "store"
  /\ UNCHANGED <<backend, outcome, error, host, needs, world, process, faults>>

\* A failed run keeps nothing it wrote; emptying its directory raises if a parser still writes to it.
Collect ==
  /\ pc = "executed" /\ error = "none"
  /\ CleanStaging
  /\ \E failure \in {Failure, "unsafe_artifact", "output_limit"} :
       /\ CollectedAs(failure)
       /\ IF failure = "none"
            THEN /\ result' = ReturnedOf("none", Files) /\ pc' = "store"
                 /\ UNCHANGED <<error, world>>
            ELSE /\ RemoveOutput
                 /\ \/ result' = ReturnedOf(failure, {}) /\ pc' = "returned" /\ UNCHANGED error
                    \/ Alive /\ pc' = "raised" /\ error' = "output" /\ UNCHANGED result
  /\ UNCHANGED <<backend, outcome, host, needs, process, faults>>

\* Each artifact is opened beneath the directory, without following links, and put by the bytes read.
Store ==
  /\ pc = "store"
  /\ kept' = IF host.store THEN [kept EXCEPT !.output = [n \in Names |-> IF n \in result.artifacts
                                                                     THEN output[n] ELSE "none"]]
             ELSE kept
  /\ pc' = "returned"
  /\ UNCHANGED <<backend, outcome, result, error, host, needs, staging, seen, output, owner,
                 process, faults>>

\* A put fails: what was stored so far stays, and the call raises.
StoreFails ==
  /\ pc = "store" /\ host.store /\ faults < MaxFaults
  /\ faults' = faults + 1
  /\ \E some \in SUBSET result.artifacts :
       kept' = [kept EXCEPT !.output = [n \in Names |-> IF n \in some THEN output[n] ELSE "none"]]
  /\ pc' = "raised" /\ error' = "archive" /\ result' = NoResult
  /\ UNCHANGED <<backend, outcome, host, needs, staging, seen, output, owner, process>>

----------------------------------------------------------------------------
(* Others may replace and rewrite the input's files at any time.            *)

Replace(n, i) ==
  /\ changes < MaxChanges /\ pc = "stage" /\ disk[n] # i
  /\ disk' = [disk EXCEPT ![n] = i] /\ changes' = changes + 1
  /\ UNCHANGED <<host, needs, runner, text, todo, at, staged, manifest, world, process, faults>>

Rewrite(i) ==
  /\ changes < MaxChanges /\ pc = "stage"
  /\ text' = [text EXCEPT ![i] = @ + 1] /\ changes' = changes + 1
  /\ UNCHANGED <<host, needs, runner, disk, todo, at, staged, manifest, world, process, faults>>

Exits == {0, 1, 125, 128 + SIGKILL, 128 + SIGSYS, 128 + 11}

Runner ==
  \/ Choose \/ Open \/ CopyChunk \/ ArchiveInput
  \/ \E n \in Names : Inspect(n)
  \/ LaunchBwrap \/ BwrapGone \/ LaunchClient \/ ClientRefused \/ LaunchGuest
  \/ Reap \/ Report \/ ClientReaped \/ ClientTimesOut \/ RemoveContainer \/ InspectContainer
  \/ TakeBack \/ ExecuteRaises \/ Collect \/ Store

Parser ==
  \/ \E n \in Names, what \in {"none", "file", "link", "locked"} : ParserWrites(n, what)
  \/ \E c \in Exits \cup {-SIGKILL} : BwrapExits(c)
  \/ \E c \in Exits : ContainerExits(c)
  \/ \E ending \in {"trap", "out_of_fuel"}, atCap \in BOOLEAN : GuestEnds(ending, 134, atCap)
  \/ \E c \in {0, 1} : GuestEnds("exit", c, FALSE)

Engine == ClientCreates \/ ClientStarts \/ ClientExits \/ ClientDies \/ EngineHandles

Interrupted == GuestEnds("interrupt", -1, FALSE)

Others ==
  \/ \E n \in Names, i \in Inodes \cup Links \cup {NoInode} : Replace(n, i)
  \/ \E i \in Inodes : Rewrite(i)
  \/ Interrupt \/ StoreFails

Next == Runner \/ Parser \/ Engine \/ Tick \/ KillGroup \/ Interrupted \/ Others

Spec == Init /\ [][Next]_vars

\* The runner runs, the timer fires, a guest notices its epoch; a parser may hang forever.
FairSpec ==
  Spec /\ WF_vars(Runner) /\ WF_vars(Tick) /\ WF_vars(KillGroup) /\ WF_vars(Interrupted)

----------------------------------------------------------------------------
(* Properties.                                                              *)

Returned(failed) == pc = "returned" /\ (result.failure # "none" <=> failed)

\* A run reported as succeeded exited 0 in time; its input hash is of what the parser read; its artifacts
\* are all the parser left, every one a regular file, and the store holds them and the input
\* (runner.run_in_sandbox, staging._copy_verified, collect_artifact_paths).
SucceededIsWhole ==
  Returned(FALSE) =>
    /\ result.code = 0 /\ ~result.timedOut
    /\ result.input = seen
    /\ result.artifacts = Files /\ Unsafe = {}
    /\ host.store => kept = [input |-> seen, output |-> output]

\* The result says what a client that died says, which is what one that could not run the container says too.
LostClient(o) == Oci /\ o.code \in LostStatus /\ ~o.timedOut

\* A failed run keeps nothing it wrote: nothing of it is in the store, and its directory stays empty unless
\* the result names a lost client, whose container nobody removed (runner.run_in_sandbox, _remove_output).
FailedLeavesNothing ==
  Returned(TRUE) =>
    /\ result.artifacts = {} /\ kept.output = NoOutput
    /\ output # NoOutput => LostClient(result)

\* The sandbox is over when a call returns a success, a timeout or the parser's own failure: no parser runs
\* then or starts later, whatever the engine still does for a killed client. A lost client is told by its
\* failed result, never by a success or a timeout. The staging copy is deleted and ownership is back
\* (run_in_sandbox, OciBackend._run_in, _force_remove, run_process).
OverWhenReturned ==
  pc = "returned" =>
    /\ Alive => result.failure \notin {"none", "timeout"} /\ LostClient(result)
    /\ staged = NothingStaged /\ owner = "stele"

\* Every call ends, also when the parser never does: the timer, the epoch or the wait's timeout stops it
\* (run_process, WasmtimeBackend, run_bounded, _force_remove).
RunEnds == <>Ended

\* "Never signal a pid that was already reaped (it may be reused)" (backend.kill_group).
NeverSignalsReaped == ~stray

\* "the run raises ContainmentCleanupError instead of returning a timed-out result: the parser may still
\* be running" (docs/containment.md, OciBackend.execute).
CleanupErrorTold == (pc = "raised" /\ Oci /\ Alive) => error \in {"cleanup", "interrupt"}

\* "A failed run keeps no output. The artifact directory is emptied" (docs/containment.md), and "The sandbox
\* exits ... before this function returns" (run_in_sandbox): not so once the client is lost.
FailedKeepsNoOutput == Returned(TRUE) => output = NoOutput /\ ~Alive

=============================================================================

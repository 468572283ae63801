---------------------------- MODULE SandboxProofs ----------------------------
(***************************************************************************)
(* Theorems about Sandbox, for any input, host, parser, limit and number of *)
(* changes, interrupts and failing stores.                                  *)
(***************************************************************************)
EXTENDS Sandbox, TLAPS

Before == {"called", "stage", "launch"}
During == {"wait", "reaped", "remove", "inspect"}
Afterwards == {"take_back", "executed", "store", "returned"}

Outputs == [Names -> {"none", "file", "link", "locked"}]

(***************************************************************************)
(* The inductive invariant.                                                *)
(***************************************************************************)
\* What the parser can leave, and the store as a pair of maps.
WorldTyped ==
  /\ output \in Outputs
  /\ kept = [input |-> kept.input, output |-> kept.output]

\* What the copy holds is what was hashed, until the copy is deleted.
HashedAsCopied ==
  /\ pc \in Before \cup During \cup {"take_back", "executed"} => staged = manifest
  /\ pc = "called" => manifest = NothingStaged
  /\ pc \in {"store", "returned"} => staged = NothingStaged

\* A request in flight agrees with the container it is about.
EngineOrdered ==
  /\ pc \in Before \/ ~Oci => container = "none" /\ inflight = "none"
  /\ inflight = "create" => container = "none"
  /\ inflight = "start" => container \in {"created", "gone"}

\* Where the child process can be; a client that ended left no container
\* running, or its status is that of a lost one.
ChildWhere ==
  /\ pc \in Before => child = "none"
  /\ pc = "reaped" => backend = "bubblewrap"
  /\ pc \in {"reaped", "remove", "inspect"} => child = "reaped"
  /\ pc \in {"remove", "inspect", "take_back"} => Oci
  /\ Oci /\ child = "zombie" => container = "gone" \/ code \in LostStatus
  /\ Oci /\ child \in {"running", "zombie"} => pc = "wait"

\* No parser runs, and no request in flight can start one.
Over ==
  IF Oci THEN /\ child \notin {"running", "zombie"} /\ container # "running"
              /\ inflight = "start" => container = "gone"
  ELSE child # "running"

\* An outcome, or a result, that says the client was lost: a failure that is
\* not a timeout.
ToldLost(o) == LostClient(o) /\ o.failure \notin {"none", "timeout"}

\* What is not over when the backend is done is on its way to raise, or its
\* client was lost.
OverUnlessRaising ==
  /\ pc \notin {"take_back", "executed", "raised"} => error = "none"
  /\ pc \in {"take_back", "executed"} /\ error = "none" => Over \/ ToldLost(outcome)

\* What is not over when the output has been collected is told by the result.
LostTold ==
  pc \in {"store", "returned"} => Over \/ ToldLost(result)

\* Only an engine's client is given another owner, and only an error keeps it.
OwnerBack ==
  (~Oci \/ pc \in Before \cup {"store", "returned"} \/ (pc = "executed" /\ error = "none"))
    => owner = "stele"

\* A parser that ran to its end read what was hashed; an engine that did not
\* run it reports so.
ReadAsHashed ==
  /\ pc \in {"wait", "reaped"} /\ ~Oci => seen = manifest
  /\ pc = "wait" /\ Oci /\ container \in {"running", "gone"}
       => seen = manifest \/ (child = "zombie" /\ code \in EngineErrors \cup LostStatus)
  /\ pc \in {"take_back", "executed"} /\ error = "none" /\ outcome.failure = "none"
       => seen = manifest

\* The input is in the store before the parser starts, its output not before
\* it was collected.
InputKeptFirst ==
  /\ pc \notin {"called", "stage", "raised"} /\ host.store => kept.input = manifest
  /\ pc = "called" => kept.input = NothingStaged
  /\ pc \notin {"returned", "raised"} => kept.output = NoOutput

\* What was decided when the output was collected is so ever after.
CollectedHolds ==
  pc \in {"store", "returned"} =>
    IF result.failure = "none"
      THEN /\ result.code = 0 /\ ~result.timedOut
           /\ result.input = manifest /\ seen = manifest
           /\ result.artifacts = Files /\ Unsafe = {}
           /\ pc = "returned" /\ host.store => kept.output = output
      ELSE /\ pc = "returned"
           /\ result.artifacts = {} /\ kept.output = NoOutput
           /\ output = NoOutput \/ ToldLost(result)

IInv ==
  /\ WorldTyped
  /\ HashedAsCopied /\ EngineOrdered /\ ChildWhere /\ OverUnlessRaising /\ LostTold /\ OwnerBack
  /\ ReadAsHashed /\ InputKeptFirst /\ CollectedHolds

-----------------------------------------------------------------------------
(***************************************************************************)
(* Each part of it is kept by every step.                                  *)
(***************************************************************************)
\* What the parser leaves and what is stored keep their shape.
LEMMA WorldTypedStep ==
  ASSUME WorldTyped, [Next]_vars PROVE WorldTyped'
<1> USE DEF WorldTyped, Outputs, NoOutput, world
<1>1. CASE ArchiveInput
  BY <1>1 DEF ArchiveInput, Staged, StagingFails, CleanStaging, Raise
<1>2. ASSUME NEW n \in Names, NEW what \in {"none", "file", "link", "locked"}, ParserWrites(n, what)
      PROVE WorldTyped'
  BY <1>2 DEF ParserWrites, Alive
<1>3. CASE TakeBack
  BY <1>3 DEF TakeBack, Alive
<1>4. CASE ExecuteRaises
  BY <1>4 DEF ExecuteRaises, LeaveExecute, CleanStaging, Raise, RemoveOutput
<1>5. CASE Collect
  BY <1>5 DEF Collect, CleanStaging, RemoveOutput, ReturnedOf
<1>6. CASE Store
  BY <1>6 DEF Store
<1>7. CASE StoreFails
  BY <1>7 DEF StoreFails
<1>8. CASE \/ Choose \/ (\E n \in Names : Inspect(n)) \/ Open \/ CopyChunk \/ LaunchBwrap
         \/ BwrapGone \/ LaunchClient \/ ClientRefused \/ LaunchGuest
         \/ (\E c : BwrapExits(c)) \/ (\E c : ContainerExits(c))
         \/ (\E ending, c, atCap : GuestEnds(ending, c, atCap)) \/ ClientCreates
         \/ ClientStarts \/ ClientExits \/ ClientDies \/ EngineHandles \/ Tick \/ KillGroup \/ Reap
         \/ Report \/ ClientReaped \/ ClientTimesOut \/ RemoveContainer \/ InspectContainer
         \/ Interrupt \/ (\E n, i : Replace(n, i)) \/ (\E i : Rewrite(i))
         \/ UNCHANGED vars
  BY <1>8 DEF Choose, Inspect, Open, CopyChunk, LaunchBwrap, BwrapGone, LaunchClient,
     ClientRefused, LaunchGuest, BwrapExits, ContainerExits, GuestEnds, ClientCreates, ClientStarts,
     ClientExits, ClientDies, EngineHandles, Tick, KillGroup, Reap, Report, ClientReaped, ClientTimesOut,
     RemoveContainer, InspectContainer, Interrupt, Replace, Rewrite, vars
<1>9. QED
  BY <1>1, <1>2, <1>3, <1>4, <1>5, <1>6, <1>7, <1>8 DEF Next, Runner, Parser, Engine,
     Interrupted, Others

\* A chunk is copied and hashed in one step, and only the end deletes the copy.
LEMMA HashedStep ==
  ASSUME HashedAsCopied, [Next]_vars PROVE HashedAsCopied'
<1> USE DEF HashedAsCopied, Before, During, Afterwards, staging, runner
<1>1. CASE Choose
  BY <1>1 DEF Choose, Raise
<1>2. ASSUME NEW n \in Names, Inspect(n) PROVE HashedAsCopied'
  BY <1>2 DEF Inspect, StagingFails, CleanStaging, Raise
<1>3. CASE Open
  BY <1>3 DEF Open, StagingFails, CleanStaging, Raise
<1>4. CASE CopyChunk
  BY <1>4 DEF CopyChunk
<1>5. CASE ArchiveInput
  BY <1>5 DEF ArchiveInput, Staged, StagingFails, CleanStaging, Raise
<1>6. CASE LaunchBwrap
  BY <1>6 DEF LaunchBwrap, Armed, Mounted
<1>7. CASE BwrapGone
  BY <1>7 DEF BwrapGone
<1>8. CASE LaunchClient
  BY <1>8 DEF LaunchClient, HandedOver
<1>9. CASE ClientRefused
  BY <1>9 DEF ClientRefused, HandedOver
<1>10. CASE LaunchGuest
  BY <1>10 DEF LaunchGuest, Armed, Mounted
<1>11. ASSUME NEW ending, NEW c, NEW atCap, GuestEnds(ending, c, atCap) PROVE HashedAsCopied'
  BY <1>11 DEF GuestEnds
<1>12. CASE Reap
  BY <1>12 DEF Reap
<1>13. CASE Report
  BY <1>13 DEF Report
<1>14. CASE ClientReaped
  BY <1>14 DEF ClientReaped
<1>15. CASE ClientTimesOut
  BY <1>15 DEF ClientTimesOut
<1>16. CASE RemoveContainer
  BY <1>16 DEF RemoveContainer
<1>17. CASE InspectContainer
  BY <1>17 DEF InspectContainer
<1>18. CASE TakeBack
  BY <1>18 DEF TakeBack, Alive
<1>19. CASE Interrupt
  BY <1>19 DEF Interrupt
<1>20. CASE ExecuteRaises
  BY <1>20 DEF ExecuteRaises, LeaveExecute, CleanStaging, Raise, RemoveOutput
<1>21. CASE Collect
  BY <1>21 DEF Collect, CleanStaging, RemoveOutput, ReturnedOf
<1>22. CASE Store
  BY <1>22 DEF Store
<1>23. CASE StoreFails
  BY <1>23 DEF StoreFails
<1>24. CASE \/ (\E n, what : ParserWrites(n, what)) \/ (\E c : BwrapExits(c))
         \/ (\E c : ContainerExits(c)) \/ ClientCreates \/ ClientStarts \/ ClientExits
         \/ ClientDies \/ EngineHandles \/ Tick \/ KillGroup \/ (\E n, i : Replace(n, i))
         \/ (\E i : Rewrite(i))
         \/ UNCHANGED vars
  BY <1>24 DEF ParserWrites, BwrapExits, ContainerExits, ClientCreates, ClientStarts,
     ClientExits, ClientDies, EngineHandles, Tick, KillGroup, Replace, Rewrite, vars
<1>25. QED
  BY <1>1, <1>2, <1>3, <1>4, <1>5, <1>6, <1>7, <1>8, <1>9, <1>10, <1>11, <1>12, <1>13, <1>14,
     <1>15, <1>16, <1>17, <1>18, <1>19, <1>20, <1>21, <1>22, <1>23, <1>24 DEF Next, Runner, Parser,
     Engine, Interrupted, Others

\* The client asks for one thing at a time, and removing a container does not create one.
LEMMA EngineStep ==
  ASSUME EngineOrdered, ChildWhere, [Next]_vars PROVE EngineOrdered'
<1> USE DEF EngineOrdered, ChildWhere, Oci, Before, During, Afterwards, process, runner
<1>1. CASE Choose
  BY <1>1 DEF Choose, Raise
<1>2. ASSUME NEW n \in Names, Inspect(n) PROVE EngineOrdered'
  BY <1>2 DEF Inspect, StagingFails, CleanStaging, Raise
<1>3. CASE Open
  BY <1>3 DEF Open, StagingFails, CleanStaging, Raise
<1>4. CASE ArchiveInput
  BY <1>4 DEF ArchiveInput, Staged, StagingFails, CleanStaging, Raise
<1>5. CASE LaunchBwrap
  BY <1>5 DEF LaunchBwrap, Armed, Mounted
<1>6. CASE BwrapGone
  BY <1>6 DEF BwrapGone
<1>7. CASE LaunchClient
  BY <1>7 DEF LaunchClient, HandedOver
<1>8. CASE ClientRefused
  BY <1>8 DEF ClientRefused, HandedOver
<1>9. CASE LaunchGuest
  BY <1>9 DEF LaunchGuest, Armed, Mounted
<1>10. ASSUME NEW c, ContainerExits(c) PROVE EngineOrdered'
  BY <1>10 DEF ContainerExits
<1>11. ASSUME NEW ending, NEW c, NEW atCap, GuestEnds(ending, c, atCap) PROVE EngineOrdered'
  BY <1>11 DEF GuestEnds
<1>12. CASE ClientCreates
  BY <1>12 DEF ClientCreates
<1>13. CASE ClientStarts
  BY <1>13 DEF ClientStarts
<1>14. CASE ClientExits
  BY <1>14 DEF ClientExits
<1>c. CASE ClientDies
  BY <1>c DEF ClientDies
<1>15. CASE EngineHandles
  BY <1>15 DEF EngineHandles, Mounted
<1>16. CASE Reap
  BY <1>16 DEF Reap
<1>17. CASE Report
  BY <1>17 DEF Report
<1>18. CASE ClientReaped
  BY <1>18 DEF ClientReaped
<1>19. CASE ClientTimesOut
  BY <1>19 DEF ClientTimesOut
<1>20. CASE RemoveContainer
  BY <1>20 DEF RemoveContainer
<1>21. CASE InspectContainer
  BY <1>21 DEF InspectContainer
<1>22. CASE TakeBack
  BY <1>22 DEF TakeBack, Alive
<1>23. CASE Interrupt
  BY <1>23 DEF Interrupt
<1>24. CASE ExecuteRaises
  BY <1>24 DEF ExecuteRaises, LeaveExecute, CleanStaging, Raise, RemoveOutput
<1>25. CASE Collect
  BY <1>25 DEF Collect, CleanStaging, RemoveOutput, ReturnedOf
<1>26. CASE Store
  BY <1>26 DEF Store
<1>27. CASE StoreFails
  BY <1>27 DEF StoreFails
<1>28. CASE \/ CopyChunk \/ (\E n, what : ParserWrites(n, what)) \/ (\E c : BwrapExits(c))
         \/ Tick \/ KillGroup \/ (\E n, i : Replace(n, i)) \/ (\E i : Rewrite(i))
         \/ UNCHANGED vars
  BY <1>28 DEF CopyChunk, ParserWrites, BwrapExits, Tick, KillGroup, Replace, Rewrite, vars
<1> HIDE DEF EngineOrdered
<1>29. QED
  BY <1>c, <1>1, <1>2, <1>3, <1>4, <1>5, <1>6, <1>7, <1>8, <1>9, <1>10, <1>11, <1>12, <1>13, <1>14,
     <1>15, <1>16, <1>17, <1>18, <1>19, <1>20, <1>21, <1>22, <1>23, <1>24, <1>25, <1>26, <1>27,
     <1>28 DEF Next, Runner, Parser, Engine, Interrupted, Others

\* The child follows the call's program counter.
LEMMA ChildStep ==
  ASSUME ChildWhere, EngineOrdered, [Next]_vars PROVE ChildWhere'
<1> USE DEF ChildWhere, EngineOrdered, Oci, Before, During, Afterwards, process, runner
<1>1. CASE Choose
  BY <1>1 DEF Choose, Raise
<1>2. ASSUME NEW n \in Names, Inspect(n) PROVE ChildWhere'
  BY <1>2 DEF Inspect, StagingFails, CleanStaging, Raise
<1>3. CASE Open
  BY <1>3 DEF Open, StagingFails, CleanStaging, Raise
<1>4. CASE ArchiveInput
  BY <1>4 DEF ArchiveInput, Staged, StagingFails, CleanStaging, Raise
<1>5. CASE LaunchBwrap
  <2>1. pc' = "wait" /\ child' = "running" /\ backend' = "bubblewrap"
    BY <1>5 DEF LaunchBwrap
  <2>2. QED
    BY <2>1
<1>6. CASE BwrapGone
  BY <1>6 DEF BwrapGone
<1>7. CASE LaunchClient
  BY <1>7 DEF LaunchClient, HandedOver
<1>8. CASE ClientRefused
  BY <1>8 DEF ClientRefused, HandedOver
<1>9. CASE LaunchGuest
  BY <1>9 DEF LaunchGuest, Armed, Mounted
<1>10. ASSUME NEW c, BwrapExits(c) PROVE ChildWhere'
  BY <1>10 DEF BwrapExits
<1>11. ASSUME NEW c, ContainerExits(c) PROVE ChildWhere'
  BY <1>11 DEF ContainerExits
<1>12. ASSUME NEW ending, NEW c, NEW atCap, GuestEnds(ending, c, atCap) PROVE ChildWhere'
  BY <1>12 DEF GuestEnds
<1>13. CASE ClientExits
  BY <1>13 DEF ClientExits
<1>c. CASE ClientDies
  BY <1>c DEF ClientDies
<1>14. CASE EngineHandles
  BY <1>14 DEF EngineHandles, Mounted
<1>15. CASE KillGroup
  BY <1>15 DEF KillGroup
<1>16. CASE Reap
  BY <1>16 DEF Reap
<1>17. CASE Report
  BY <1>17 DEF Report
<1>18. CASE ClientReaped
  BY <1>18 DEF ClientReaped
<1>19. CASE ClientTimesOut
  BY <1>19 DEF ClientTimesOut
<1>20. CASE RemoveContainer
  BY <1>20 DEF RemoveContainer
<1>21. CASE InspectContainer
  BY <1>21 DEF InspectContainer
<1>22. CASE TakeBack
  BY <1>22 DEF TakeBack, Alive
<1>23. CASE Interrupt
  BY <1>23 DEF Interrupt
<1>24. CASE ExecuteRaises
  BY <1>24 DEF ExecuteRaises, LeaveExecute, CleanStaging, Raise, RemoveOutput
<1>25. CASE Collect
  BY <1>25 DEF Collect, CleanStaging, RemoveOutput, ReturnedOf
<1>26. CASE Store
  BY <1>26 DEF Store
<1>27. CASE StoreFails
  BY <1>27 DEF StoreFails
<1>28. CASE \/ CopyChunk \/ (\E n, what : ParserWrites(n, what)) \/ ClientCreates \/ ClientStarts
         \/ Tick \/ (\E n, i : Replace(n, i)) \/ (\E i : Rewrite(i))
         \/ UNCHANGED vars
  BY <1>28 DEF CopyChunk, ParserWrites, ClientCreates, ClientStarts, Tick, Replace, Rewrite, vars
<1>29. QED
  BY <1>c, <1>1, <1>2, <1>3, <1>4, <1>5, <1>6, <1>7, <1>8, <1>9, <1>10, <1>11, <1>12, <1>13, <1>14,
     <1>15, <1>16, <1>17, <1>18, <1>19, <1>20, <1>21, <1>22, <1>23, <1>24, <1>25, <1>26, <1>27,
     <1>28 DEF Next, Runner, Parser, Engine, Interrupted, Others

\* A lost client's status is a failure, and not the deadline's.
LEMMA LostFailure ==
  ASSUME NEW c \in LostStatus, NEW late
  PROVE  OciFailure(FALSE, c, late) \notin {"none", "timeout"}
<1>1. c = -9 \/ c = 125
  BY DEF LostStatus, SIGKILL
<1>2. CASE c = -9
  <2>1. ~DiedBySignal(c) /\ c \notin EngineErrors /\ c # 0 /\ c # 128 + SIGKILL
    BY <1>2 DEF DiedBySignal, EngineErrors, SIGKILL
  <2>2. OciFailure(FALSE, c, late) = "exit_status"
    BY <2>1 DEF OciFailure
  <2>3. QED
    BY <2>2
<1>3. CASE c = 125
  <2>1. c \in EngineErrors /\ c # 0 /\ c # 128 + SIGKILL
    BY <1>3 DEF EngineErrors, SIGKILL
  <2>2. OciFailure(FALSE, c, late) = "engine_error"
    BY <2>1 DEF OciFailure
  <2>3. QED
    BY <2>2
<1>4. QED
  BY <1>1, <1>2, <1>3

\* Every way out of the wait that does not raise is over, or of a lost client, and what is over stays so.
LEMMA OverStep ==
  ASSUME OverUnlessRaising, ChildWhere, EngineOrdered, [Next]_vars PROVE OverUnlessRaising'
<1> USE DEF OverUnlessRaising, Over, ToldLost, LostClient, ChildWhere, EngineOrdered, Oci, Before, During,
  Afterwards, process, runner
<1>1. CASE Choose
  BY <1>1 DEF Choose, Raise
<1>2. ASSUME NEW n \in Names, Inspect(n) PROVE OverUnlessRaising'
  BY <1>2 DEF Inspect, StagingFails, CleanStaging, Raise
<1>3. CASE Open
  BY <1>3 DEF Open, StagingFails, CleanStaging, Raise
<1>4. CASE ArchiveInput
  BY <1>4 DEF ArchiveInput, Staged, StagingFails, CleanStaging, Raise
<1>5. CASE LaunchBwrap
  BY <1>5 DEF LaunchBwrap, Armed, Mounted
<1>6. CASE BwrapGone
  BY <1>6 DEF BwrapGone
<1>7. CASE LaunchClient
  BY <1>7 DEF LaunchClient, HandedOver
<1>8. CASE ClientRefused
  BY <1>8 DEF ClientRefused, HandedOver
<1>9. CASE LaunchGuest
  BY <1>9 DEF LaunchGuest, Armed, Mounted
<1>10. ASSUME NEW c, BwrapExits(c) PROVE OverUnlessRaising'
  BY <1>10 DEF BwrapExits
<1>11. ASSUME NEW c, ContainerExits(c) PROVE OverUnlessRaising'
  BY <1>11 DEF ContainerExits
<1>12. ASSUME NEW ending, NEW c, NEW atCap, GuestEnds(ending, c, atCap) PROVE OverUnlessRaising'
  BY <1>12 DEF GuestEnds
<1>13. CASE ClientCreates
  BY <1>13 DEF ClientCreates
<1>14. CASE ClientStarts
  BY <1>14 DEF ClientStarts
<1>15. CASE ClientExits
  BY <1>15 DEF ClientExits
<1>c. CASE ClientDies
  BY <1>c DEF ClientDies
<1>16. CASE EngineHandles
  BY <1>16 DEF EngineHandles, Mounted
<1>17. CASE KillGroup
  BY <1>17 DEF KillGroup
<1>18. CASE Reap
  BY <1>18 DEF Reap
<1>19. CASE Report
  BY <1>19 DEF Report
<1>20. CASE ClientReaped
  <2>1. /\ pc' = "take_back" /\ error' = error /\ backend' = backend /\ child' = "reaped"
        /\ container' = container /\ inflight' = inflight
        /\ pc = "wait" /\ Oci /\ child = "zombie"
    BY <1>20 DEF ClientReaped
  <2>2. /\ outcome'.code = code /\ outcome'.timedOut = FALSE
        /\ outcome'.failure = OciFailure(FALSE, code, clock # 0)
    BY <1>20 DEF ClientReaped
  <2>3. CASE container = "gone"
    BY <2>1, <2>3
  <2>4. CASE code \in LostStatus
    BY <2>1, <2>2, <2>4, LostFailure
  <2>5. QED
    BY <2>1, <2>3, <2>4
<1>21. CASE ClientTimesOut
  BY <1>21 DEF ClientTimesOut
<1>22. CASE RemoveContainer
  BY <1>22 DEF RemoveContainer
<1>23. CASE InspectContainer
  BY <1>23 DEF InspectContainer
<1>24. CASE TakeBack
  BY <1>24 DEF TakeBack, Alive
<1>25. CASE Interrupt
  BY <1>25 DEF Interrupt
<1>26. CASE ExecuteRaises
  BY <1>26 DEF ExecuteRaises, LeaveExecute, CleanStaging, Raise, RemoveOutput
<1>27. CASE Collect
  BY <1>27 DEF Collect, CleanStaging, RemoveOutput, ReturnedOf
<1>28. CASE Store
  BY <1>28 DEF Store
<1>29. CASE StoreFails
  BY <1>29 DEF StoreFails
<1>30. CASE \/ CopyChunk \/ (\E n, what : ParserWrites(n, what)) \/ Tick
         \/ (\E n, i : Replace(n, i)) \/ (\E i : Rewrite(i))
         \/ UNCHANGED vars
  BY <1>30 DEF CopyChunk, ParserWrites, Tick, Replace, Rewrite, vars
<1>31. QED
  BY <1>c, <1>1, <1>2, <1>3, <1>4, <1>5, <1>6, <1>7, <1>8, <1>9, <1>10, <1>11, <1>12, <1>13, <1>14,
     <1>15, <1>16, <1>17, <1>18, <1>19, <1>20, <1>21, <1>22, <1>23, <1>24, <1>25, <1>26, <1>27,
     <1>28, <1>29, <1>30 DEF Next, Runner, Parser, Engine, Interrupted, Others

\* Only take_back leaves an engine's run without an error, and it restores the owner.
LEMMA OwnerStep ==
  ASSUME OwnerBack, ChildWhere, OverUnlessRaising, [Next]_vars PROVE OwnerBack'
<1> USE DEF OwnerBack, ChildWhere, OverUnlessRaising, Oci, Before, During, Afterwards, world, runner
<1>1. CASE Choose
  BY <1>1 DEF Choose, Raise
<1>2. ASSUME NEW n \in Names, Inspect(n) PROVE OwnerBack'
  BY <1>2 DEF Inspect, StagingFails, CleanStaging, Raise
<1>3. CASE Open
  BY <1>3 DEF Open, StagingFails, CleanStaging, Raise
<1>4. CASE ArchiveInput
  BY <1>4 DEF ArchiveInput, Staged, StagingFails, CleanStaging, Raise
<1>5. CASE LaunchBwrap
  BY <1>5 DEF LaunchBwrap, Armed, Mounted
<1>6. CASE BwrapGone
  BY <1>6 DEF BwrapGone
<1>7. CASE LaunchClient
  BY <1>7 DEF LaunchClient, HandedOver
<1>8. CASE ClientRefused
  BY <1>8 DEF ClientRefused, HandedOver
<1>9. CASE LaunchGuest
  BY <1>9 DEF LaunchGuest, Armed, Mounted
<1>10. ASSUME NEW ending, NEW c, NEW atCap, GuestEnds(ending, c, atCap) PROVE OwnerBack'
  BY <1>10 DEF GuestEnds
<1>11. CASE Reap
  BY <1>11 DEF Reap
<1>12. CASE Report
  BY <1>12 DEF Report
<1>13. CASE ClientReaped
  BY <1>13 DEF ClientReaped
<1>14. CASE ClientTimesOut
  BY <1>14 DEF ClientTimesOut
<1>15. CASE RemoveContainer
  BY <1>15 DEF RemoveContainer
<1>16. CASE InspectContainer
  BY <1>16 DEF InspectContainer
<1>17. CASE TakeBack
  BY <1>17 DEF TakeBack, Alive
<1>18. CASE Interrupt
  BY <1>18 DEF Interrupt
<1>19. CASE ExecuteRaises
  BY <1>19 DEF ExecuteRaises, LeaveExecute, CleanStaging, Raise, RemoveOutput
<1>20. CASE Collect
  BY <1>20 DEF Collect, CleanStaging, RemoveOutput, ReturnedOf
<1>21. CASE Store
  BY <1>21 DEF Store
<1>22. CASE StoreFails
  BY <1>22 DEF StoreFails
<1>23. CASE \/ CopyChunk \/ (\E n, what : ParserWrites(n, what)) \/ (\E c : BwrapExits(c))
         \/ (\E c : ContainerExits(c)) \/ ClientCreates \/ ClientStarts \/ ClientExits
         \/ ClientDies \/ EngineHandles \/ Tick \/ KillGroup \/ (\E n, i : Replace(n, i))
         \/ (\E i : Rewrite(i))
         \/ UNCHANGED vars
  BY <1>23 DEF CopyChunk, ParserWrites, BwrapExits, ContainerExits, ClientCreates, ClientStarts,
     ClientExits, ClientDies, EngineHandles, Tick, KillGroup, Replace, Rewrite, vars
<1>24. QED
  BY <1>1, <1>2, <1>3, <1>4, <1>5, <1>6, <1>7, <1>8, <1>9, <1>10, <1>11, <1>12, <1>13, <1>14,
     <1>15, <1>16, <1>17, <1>18, <1>19, <1>20, <1>21, <1>22, <1>23 DEF Next, Runner, Parser, Engine,
     Interrupted, Others

\* The parser reads the copy; a run that did not start it is classified as failed.
LEMMA ReadStep ==
  ASSUME ReadAsHashed, HashedAsCopied, ChildWhere, EngineOrdered, OverUnlessRaising, [Next]_vars PROVE ReadAsHashed'
<1> USE DEF ReadAsHashed, HashedAsCopied, ChildWhere, EngineOrdered, OverUnlessRaising, Over, ToldLost, Oci,
  Before, During, Afterwards, staging, world, process, runner
<1>1. CASE Choose
  BY <1>1 DEF Choose, Raise
<1>2. ASSUME NEW n \in Names, Inspect(n) PROVE ReadAsHashed'
  BY <1>2 DEF Inspect, StagingFails, CleanStaging, Raise
<1>3. CASE Open
  BY <1>3 DEF Open, StagingFails, CleanStaging, Raise
<1>4. CASE CopyChunk
  BY <1>4 DEF CopyChunk
<1>5. CASE ArchiveInput
  BY <1>5 DEF ArchiveInput, Staged, StagingFails, CleanStaging, Raise
<1>6. CASE LaunchBwrap
  BY <1>6 DEF LaunchBwrap, Armed, Mounted
<1>7. CASE BwrapGone
  BY <1>7 DEF BwrapGone
<1>8. CASE LaunchClient
  BY <1>8 DEF LaunchClient, HandedOver
<1>9. CASE ClientRefused
  BY <1>9 DEF ClientRefused, HandedOver
<1>10. CASE LaunchGuest
  <2>1. seen' = manifest' \/ (pc' = "executed" /\ outcome'.failure # "none")
    BY <1>10 DEF LaunchGuest, GuestRefused, Mounted, WasmFailure
  <2>2. ~Oci' /\ pc' \in {"wait", "executed"}
    BY <1>10 DEF LaunchGuest
  <2>3. QED
    BY <2>1, <2>2
<1>11. ASSUME NEW c, BwrapExits(c) PROVE ReadAsHashed'
  BY <1>11 DEF BwrapExits
<1>12. ASSUME NEW c, ContainerExits(c) PROVE ReadAsHashed'
  BY <1>12 DEF ContainerExits
<1>13. ASSUME NEW ending, NEW c, NEW atCap, GuestEnds(ending, c, atCap) PROVE ReadAsHashed'
  BY <1>13 DEF GuestEnds
<1>14. CASE ClientExits
  BY <1>14 DEF ClientExits
<1>c. CASE ClientDies
  BY <1>c DEF ClientDies
<1>15. CASE EngineHandles
  BY <1>15 DEF EngineHandles, Mounted, InputDeleted
<1>16. CASE KillGroup
  BY <1>16 DEF KillGroup
<1>17. CASE Reap
  BY <1>17 DEF Reap
<1>18. CASE Report
  BY <1>18 DEF Report
<1>19. CASE ClientReaped
  <2>1. OciFailure(FALSE, code, clock # 0) = "none" => code \notin EngineErrors \cup LostStatus
    BY LostFailure DEF OciFailure, EngineErrors, DiedBySignal, SIGKILL
  <2>2. /\ pc = "wait" /\ child = "zombie" /\ Oci /\ (container = "gone" \/ code \in LostStatus)
        /\ pc' = "take_back" /\ seen' = seen /\ manifest' = manifest
    BY <1>19 DEF ClientReaped
  <2>3. outcome'.failure = OciFailure(FALSE, code, clock # 0)
    BY <1>19 DEF ClientReaped
  <2>4. QED
    BY <2>1, <2>2, <2>3
<1>20. CASE ClientTimesOut
  BY <1>20 DEF ClientTimesOut
<1>21. CASE RemoveContainer
  BY <1>21 DEF RemoveContainer
<1>22. CASE InspectContainer
  <2>1. outcome' = TimedOut \/ error' = "cleanup" \/ pc' = "remove"
    BY <1>22 DEF InspectContainer
  <2>2. TimedOut.failure = "timeout"
    BY DEF TimedOut, OciFailure
  <2>3. QED
    BY <1>22, <2>1, <2>2 DEF InspectContainer
<1>23. CASE TakeBack
  BY <1>23 DEF TakeBack, Alive
<1>24. CASE Interrupt
  BY <1>24 DEF Interrupt
<1>25. CASE ExecuteRaises
  BY <1>25 DEF ExecuteRaises, LeaveExecute, CleanStaging, Raise, RemoveOutput
<1>26. CASE Collect
  BY <1>26 DEF Collect, CleanStaging, RemoveOutput, ReturnedOf
<1>27. CASE Store
  BY <1>27 DEF Store
<1>28. CASE StoreFails
  BY <1>28 DEF StoreFails
<1>29. CASE \/ (\E n, what : ParserWrites(n, what)) \/ ClientCreates \/ ClientStarts \/ Tick
         \/ (\E n, i : Replace(n, i)) \/ (\E i : Rewrite(i))
         \/ UNCHANGED vars
  BY <1>29 DEF ParserWrites, ClientCreates, ClientStarts, Tick, Replace, Rewrite, vars
<1>30. QED
  BY <1>c, <1>1, <1>2, <1>3, <1>4, <1>5, <1>6, <1>7, <1>8, <1>9, <1>10, <1>11, <1>12, <1>13, <1>14,
     <1>15, <1>16, <1>17, <1>18, <1>19, <1>20, <1>21, <1>22, <1>23, <1>24, <1>25, <1>26, <1>27,
     <1>28, <1>29 DEF Next, Runner, Parser, Engine, Interrupted, Others

\* The input is stored before the launch, as it was hashed; the output last.
LEMMA KeptStep ==
  ASSUME InputKeptFirst, HashedAsCopied, WorldTyped, [Next]_vars PROVE InputKeptFirst'
<1> USE DEF InputKeptFirst, HashedAsCopied, WorldTyped, Before, During, Afterwards, staging, world, runner
<1>1. CASE Choose
  BY <1>1 DEF Choose, Raise
<1>2. ASSUME NEW n \in Names, Inspect(n) PROVE InputKeptFirst'
  BY <1>2 DEF Inspect, StagingFails, CleanStaging, Raise
<1>3. CASE Open
  BY <1>3 DEF Open, StagingFails, CleanStaging, Raise
<1>4. CASE CopyChunk
  BY <1>4 DEF CopyChunk
<1>5. CASE ArchiveInput
  BY <1>5 DEF ArchiveInput, Staged, StagingFails, CleanStaging, Raise
<1>6. CASE LaunchBwrap
  BY <1>6 DEF LaunchBwrap, Armed, Mounted
<1>7. CASE BwrapGone
  BY <1>7 DEF BwrapGone
<1>8. CASE LaunchClient
  BY <1>8 DEF LaunchClient, HandedOver
<1>9. CASE ClientRefused
  BY <1>9 DEF ClientRefused, HandedOver
<1>10. CASE LaunchGuest
  BY <1>10 DEF LaunchGuest, Armed, Mounted
<1>11. ASSUME NEW ending, NEW c, NEW atCap, GuestEnds(ending, c, atCap) PROVE InputKeptFirst'
  BY <1>11 DEF GuestEnds
<1>12. CASE Reap
  BY <1>12 DEF Reap
<1>13. CASE Report
  BY <1>13 DEF Report
<1>14. CASE ClientReaped
  BY <1>14 DEF ClientReaped
<1>15. CASE ClientTimesOut
  BY <1>15 DEF ClientTimesOut
<1>16. CASE RemoveContainer
  BY <1>16 DEF RemoveContainer
<1>17. CASE InspectContainer
  BY <1>17 DEF InspectContainer
<1>18. CASE TakeBack
  BY <1>18 DEF TakeBack, Alive
<1>19. CASE Interrupt
  BY <1>19 DEF Interrupt
<1>20. CASE ExecuteRaises
  BY <1>20 DEF ExecuteRaises, LeaveExecute, CleanStaging, Raise, RemoveOutput
<1>21. CASE Collect
  BY <1>21 DEF Collect, CleanStaging, RemoveOutput, ReturnedOf
<1>22. CASE Store
  BY <1>22 DEF Store
<1>23. CASE StoreFails
  BY <1>23 DEF StoreFails
<1>24. CASE \/ (\E n, what : ParserWrites(n, what)) \/ (\E c : BwrapExits(c))
         \/ (\E c : ContainerExits(c)) \/ ClientCreates \/ ClientStarts \/ ClientExits
         \/ ClientDies \/ EngineHandles \/ Tick \/ KillGroup \/ (\E n, i : Replace(n, i))
         \/ (\E i : Rewrite(i))
         \/ UNCHANGED vars
  BY <1>24 DEF ParserWrites, BwrapExits, ContainerExits, ClientCreates, ClientStarts,
     ClientExits, ClientDies, EngineHandles, Tick, KillGroup, Replace, Rewrite, vars
<1>25. QED
  BY <1>1, <1>2, <1>3, <1>4, <1>5, <1>6, <1>7, <1>8, <1>9, <1>10, <1>11, <1>12, <1>13, <1>14,
     <1>15, <1>16, <1>17, <1>18, <1>19, <1>20, <1>21, <1>22, <1>23, <1>24 DEF Next, Runner, Parser,
     Engine, Interrupted, Others

\* The result keeps what the outcome told, and what is over stays so.
LEMMA LostStep ==
  ASSUME LostTold, OverUnlessRaising, [Next]_vars PROVE LostTold'
<1> USE DEF LostTold, Over, ToldLost, LostClient, Oci, process, runner
<1>1. CASE Choose
  BY <1>1 DEF Choose, Raise
<1>2. ASSUME NEW n \in Names, Inspect(n) PROVE LostTold'
  BY <1>2 DEF Inspect, StagingFails, CleanStaging, Raise
<1>3. CASE Open
  BY <1>3 DEF Open, StagingFails, CleanStaging, Raise
<1>4. CASE ArchiveInput
  BY <1>4 DEF ArchiveInput, Staged, StagingFails, CleanStaging, Raise
<1>5. CASE LaunchBwrap
  BY <1>5 DEF LaunchBwrap, Armed, Mounted
<1>6. CASE BwrapGone
  BY <1>6 DEF BwrapGone
<1>7. CASE LaunchClient
  BY <1>7 DEF LaunchClient, HandedOver
<1>8. CASE ClientRefused
  BY <1>8 DEF ClientRefused, HandedOver
<1>9. CASE LaunchGuest
  BY <1>9 DEF LaunchGuest, Armed, Mounted
<1>10. ASSUME NEW c, BwrapExits(c) PROVE LostTold'
  BY <1>10 DEF BwrapExits
<1>11. ASSUME NEW c, ContainerExits(c) PROVE LostTold'
  BY <1>11 DEF ContainerExits
<1>12. ASSUME NEW ending, NEW c, NEW atCap, GuestEnds(ending, c, atCap) PROVE LostTold'
  BY <1>12 DEF GuestEnds
<1>13. CASE ClientCreates
  BY <1>13 DEF ClientCreates
<1>14. CASE ClientStarts
  BY <1>14 DEF ClientStarts
<1>15. CASE ClientExits
  BY <1>15 DEF ClientExits
<1>c. CASE ClientDies
  BY <1>c DEF ClientDies
<1>16. CASE EngineHandles
  BY <1>16 DEF EngineHandles, Mounted
<1>17. CASE KillGroup
  BY <1>17 DEF KillGroup
<1>18. CASE Reap
  BY <1>18 DEF Reap
<1>19. CASE Report
  BY <1>19 DEF Report
<1>20. CASE ClientReaped
  BY <1>20 DEF ClientReaped
<1>21. CASE ClientTimesOut
  BY <1>21 DEF ClientTimesOut
<1>22. CASE RemoveContainer
  BY <1>22 DEF RemoveContainer
<1>23. CASE InspectContainer
  BY <1>23 DEF InspectContainer
<1>24. CASE TakeBack
  BY <1>24 DEF TakeBack, Alive
<1>25. CASE Interrupt
  BY <1>25 DEF Interrupt
<1>26. CASE ExecuteRaises
  BY <1>26 DEF ExecuteRaises, LeaveExecute, CleanStaging, Raise, RemoveOutput
<1>27. CASE Collect
  <2>1. /\ pc = "executed" /\ error = "none"
        /\ UNCHANGED <<backend, child, container, inflight>>
    BY <1>27 DEF Collect, process
  <2>2. CASE Over
    BY <2>1, <2>2
  <2>3. CASE ToldLost(outcome)
    <3>1. Failure = outcome.failure /\ Failure # "none"
      BY <2>3 DEF ToldLost, Failure
    <3>2. PICK failure \in {Failure, "unsafe_artifact", "output_limit"} :
            /\ CollectedAs(failure)
            /\ result' = ReturnedOf(failure, {}) \/ pc' = "raised"
      BY <1>27, <3>1 DEF Collect, CollectedAs
    <3>3. failure = outcome.failure
      BY <3>1, <3>2 DEF CollectedAs
    <3>4. /\ ReturnedOf(failure, {}).failure = failure
          /\ ReturnedOf(failure, {}).code = outcome.code
          /\ ReturnedOf(failure, {}).timedOut = (outcome.timedOut \/ failure = "timeout")
      BY DEF ReturnedOf
    <3>5. QED
      BY <2>1, <2>3, <3>2, <3>3, <3>4 DEF ToldLost, LostClient
  <2>4. QED
    BY <2>1, <2>2, <2>3 DEF OverUnlessRaising
<1>28. CASE Store
  BY <1>28 DEF Store
<1>29. CASE StoreFails
  BY <1>29 DEF StoreFails
<1>30. CASE \/ CopyChunk \/ (\E n, what : ParserWrites(n, what)) \/ Tick
         \/ (\E n, i : Replace(n, i)) \/ (\E i : Rewrite(i))
         \/ UNCHANGED vars
  BY <1>30 DEF CopyChunk, ParserWrites, Tick, Replace, Rewrite, vars
<1>31. QED
  BY <1>c, <1>1, <1>2, <1>3, <1>4, <1>5, <1>6, <1>7, <1>8, <1>9, <1>10, <1>11, <1>12, <1>13, <1>14,
     <1>15, <1>16, <1>17, <1>18, <1>19, <1>20, <1>21, <1>22, <1>23, <1>24, <1>25, <1>26, <1>27,
     <1>28, <1>29, <1>30 DEF Next, Runner, Parser, Engine, Interrupted, Others

\* Collecting decides, and nothing but the store changes what it found.
LEMMA CollectedStep ==
  ASSUME CollectedHolds, LostTold, OverUnlessRaising, EngineOrdered, WorldTyped, ReadAsHashed, InputKeptFirst,
         [Next]_vars
  PROVE  CollectedHolds'
<1> USE DEF CollectedHolds, Files, Unsafe, staging, world, runner
<1>1. CASE Choose
  BY <1>1 DEF Choose, Raise
<1>2. ASSUME NEW n \in Names, Inspect(n) PROVE CollectedHolds'
  BY <1>2 DEF Inspect, StagingFails, CleanStaging, Raise
<1>3. CASE Open
  BY <1>3 DEF Open, StagingFails, CleanStaging, Raise
<1>4. CASE CopyChunk
  BY <1>4 DEF CopyChunk
<1>5. CASE ArchiveInput
  BY <1>5 DEF ArchiveInput, Staged, StagingFails, CleanStaging, Raise
<1>6. CASE LaunchBwrap
  BY <1>6 DEF LaunchBwrap, Armed, Mounted
<1>7. CASE BwrapGone
  BY <1>7 DEF BwrapGone
<1>8. CASE LaunchClient
  BY <1>8 DEF LaunchClient, HandedOver
<1>9. CASE ClientRefused
  BY <1>9 DEF ClientRefused, HandedOver
<1>10. CASE LaunchGuest
  BY <1>10 DEF LaunchGuest, Armed, Mounted
<1>11. ASSUME NEW n \in Names, NEW what \in {"none", "file", "link", "locked"}, ParserWrites(n, what)
      PROVE CollectedHolds'
  <2>1. pc' = pc /\ Oci' = Oci /\ UNCHANGED <<result, seen, kept, manifest, host>>
    BY <1>11 DEF ParserWrites, Oci
  <2>2. pc \in {"store", "returned"} => ToldLost(result)
    BY <1>11 DEF ParserWrites, Alive, LostTold, Over
  <2>3. ToldLost(result) => ToldLost(result)' /\ result.failure # "none"
    BY <2>1 DEF ToldLost, LostClient
  <2>4. QED
    BY <2>1, <2>2, <2>3
<1>12. ASSUME NEW ending, NEW c, NEW atCap, GuestEnds(ending, c, atCap) PROVE CollectedHolds'
  BY <1>12 DEF GuestEnds
<1>13. CASE EngineHandles
  <2>1. pc' = pc /\ Oci' = Oci /\ UNCHANGED <<result, output, kept, manifest, host>>
    BY <1>13 DEF EngineHandles, Oci
  <2>2. ToldLost(result) => ToldLost(result)' /\ result.failure # "none"
    BY <2>1 DEF ToldLost, LostClient
  <2>3. pc \in {"store", "returned"} /\ result.failure = "none" => seen' = seen
    <3>1. SUFFICES ASSUME pc \in {"store", "returned"}, result.failure = "none"
                   PROVE  seen' = seen
      OBVIOUS
    <3>2. Over
      BY <2>2, <3>1 DEF LostTold
    <3>3. inflight = "start" => container = "gone"
      BY <1>13, <3>2 DEF Over, EngineHandles, EngineOrdered
    <3>4. QED
      BY <1>13, <3>3 DEF EngineHandles
  <2>4. QED
    BY <2>1, <2>2, <2>3
<1>14. CASE Reap
  BY <1>14 DEF Reap
<1>15. CASE Report
  BY <1>15 DEF Report
<1>16. CASE ClientReaped
  BY <1>16 DEF ClientReaped
<1>17. CASE ClientTimesOut
  BY <1>17 DEF ClientTimesOut
<1>18. CASE RemoveContainer
  BY <1>18 DEF RemoveContainer
<1>19. CASE InspectContainer
  BY <1>19 DEF InspectContainer
<1>20. CASE TakeBack
  BY <1>20 DEF TakeBack, Alive
<1>21. CASE Interrupt
  BY <1>21 DEF Interrupt
<1>22. CASE ExecuteRaises
  BY <1>22 DEF ExecuteRaises, LeaveExecute, CleanStaging, Raise, RemoveOutput
<1>23. CASE Collect
  <2>1. PICK failure \in {Failure, "unsafe_artifact", "output_limit"} :
          /\ CollectedAs(failure)
          /\ IF failure = "none"
               THEN result' = ReturnedOf("none", Files) /\ pc' = "store" /\ UNCHANGED <<error, world>>
               ELSE /\ RemoveOutput
                    /\ \/ result' = ReturnedOf(failure, {}) /\ pc' = "returned"
                       \/ pc' = "raised"
    BY <1>23 DEF Collect
  <2>2. /\ manifest' = manifest /\ outcome' = outcome /\ pc = "executed" /\ error = "none"
        /\ host' = host /\ backend' = backend
    BY <1>23 DEF Collect, CleanStaging
  <2>3. CASE failure = "none"
    <3>1. Failure = "none" /\ Unsafe = {}
      BY <2>1, <2>3 DEF CollectedAs
    <3>2. outcome.failure = "none" /\ ~outcome.timedOut /\ outcome.code = 0
      BY <3>1 DEF Failure, GenericFailure
    <3>3. seen = manifest
      BY <2>2, <3>2 DEF ReadAsHashed
    <3>4. result' = ReturnedOf("none", Files) /\ pc' = "store" /\ UNCHANGED <<seen, output>>
      BY <2>1, <2>3
    <3>5. ReturnedOf("none", Files).timedOut = FALSE
      BY <3>2 DEF ReturnedOf
    <3>6. /\ result'.failure = "none" /\ result'.code = 0
          /\ result'.input = manifest /\ result'.artifacts = Files
      BY <3>2, <3>4 DEF ReturnedOf
    <3>7. QED
      BY <2>2, <3>1, <3>3, <3>4, <3>5, <3>6
  <2>4. CASE failure # "none" /\ pc' = "returned"
    <3>1. kept' = kept /\ kept.output = NoOutput
      BY <2>1, <2>2, <2>4 DEF RemoveOutput, InputKeptFirst
    <3>2. result' = ReturnedOf(failure, {}) /\ result'.failure = failure /\ result'.artifacts = {}
      BY <2>1, <2>4 DEF ReturnedOf
    <3>3. output' = NoOutput \/ Alive
      BY <2>1, <2>4 DEF RemoveOutput
    <3>4. Alive => ToldLost(result)'
      <4>1. Alive => ~Over
        BY DEF Alive, Over
      <4>2. UNCHANGED <<child, container, inflight>>
        BY <1>23 DEF Collect, process
      <4>3. Alive => ~Over'
        BY <2>2, <4>1, <4>2 DEF Over, Oci
      <4>4. LostTold'
        BY LostStep
      <4>5. QED
        BY <2>4, <4>3, <4>4 DEF LostTold
    <3>5. QED
      BY <2>4, <3>1, <3>2, <3>3, <3>4
  <2>5. CASE pc' = "raised"
    BY <2>5
  <2>6. QED
    BY <2>1, <2>3, <2>4, <2>5
<1>24. CASE Store
  <2>1. /\ pc = "store" /\ pc' = "returned"
        /\ UNCHANGED <<result, seen, output, manifest, host>>
    BY <1>24 DEF Store
  <2>2. result.failure = "none" /\ result.artifacts = Files /\ Unsafe = {}
    BY <2>1
  <2>3. [n \in Names |-> IF n \in result.artifacts THEN output[n] ELSE "none"] = output
    BY <2>2 DEF WorldTyped, Outputs
  <2>4. host.store => kept'.output = output
    BY <1>24, <2>3 DEF Store, WorldTyped
  <2>5. pc' = "returned" /\ result' = result
    BY <2>1
  <2>6. QED
    BY <2>1, <2>2, <2>4, <2>5
<1>25. CASE StoreFails
  BY <1>25 DEF StoreFails
<1>26. CASE \/ (\E c : BwrapExits(c)) \/ (\E c : ContainerExits(c)) \/ ClientCreates
         \/ ClientStarts \/ ClientExits \/ ClientDies \/ Tick \/ KillGroup \/ (\E n, i : Replace(n, i))
         \/ (\E i : Rewrite(i))
         \/ UNCHANGED vars
  <2>1. UNCHANGED <<pc, backend, result, seen, output, kept, manifest, host>>
    BY <1>26 DEF BwrapExits, ContainerExits, ClientCreates, ClientStarts, ClientExits, ClientDies,
       Tick, KillGroup, Replace, Rewrite, vars
  <2>2. ToldLost(result) => ToldLost(result)'
    BY <2>1 DEF ToldLost, LostClient, Oci
  <2>3. QED
    BY <2>1, <2>2
<1>27. QED
  BY <1>1, <1>2, <1>3, <1>4, <1>5, <1>6, <1>7, <1>8, <1>9, <1>10, <1>11, <1>12, <1>13, <1>14,
     <1>15, <1>16, <1>17, <1>18, <1>19, <1>20, <1>21, <1>22, <1>23, <1>24, <1>25, <1>26 DEF Next,
     Runner, Parser, Engine, Interrupted, Others

-----------------------------------------------------------------------------
(***************************************************************************)
(* The theorems.                                                           *)
(***************************************************************************)
LEMMA InitIInv == Init => IInv
<1> SUFFICES ASSUME Init PROVE IInv
  OBVIOUS
<1>1. WorldTyped
  BY DEF Init, WorldTyped, Outputs, NoOutput
<1>2. HashedAsCopied /\ InputKeptFirst
  BY DEF Init, HashedAsCopied, InputKeptFirst, Before, During
<1>3. EngineOrdered /\ ChildWhere /\ OwnerBack
  BY DEF Init, EngineOrdered, ChildWhere, OwnerBack, Oci, Before
<1>4. OverUnlessRaising /\ LostTold /\ ReadAsHashed /\ CollectedHolds
  BY DEF Init, OverUnlessRaising, LostTold, ReadAsHashed, CollectedHolds
<1>5. QED
  BY <1>1, <1>2, <1>3, <1>4 DEF IInv

\* Every step of the call, of the parser, of the engine and of others keeps
\* the invariant.
LEMMA StepIInv == IInv /\ [Next]_vars => IInv'
<1> SUFFICES ASSUME IInv, [Next]_vars PROVE IInv'
  OBVIOUS
<1> USE DEF IInv
<1>1. WorldTyped' /\ HashedAsCopied' /\ InputKeptFirst'
  BY WorldTypedStep, HashedStep, KeptStep
<1>2. EngineOrdered' /\ ChildWhere' /\ OverUnlessRaising' /\ OwnerBack'
  BY EngineStep, ChildStep, OverStep, OwnerStep
<1>3. LostTold' /\ ReadAsHashed' /\ CollectedHolds'
  BY LostStep, ReadStep, CollectedStep
<1>4. QED
  BY <1>1, <1>2, <1>3

\* At every moment of every call the invariant holds.
THEOREM InvariantHolds == Spec => []IInv
BY InitIInv, StepIInv, PTL DEF Spec

\* What a succeeded run reports is what the parser read and left, and what
\* the store holds (run_in_sandbox).
THEOREM WholeWhenSucceeded == Spec => []SucceededIsWhole
<1>1. IInv => SucceededIsWhole
  <2> SUFFICES ASSUME IInv, Returned(FALSE) PROVE
        /\ result.code = 0 /\ ~result.timedOut
        /\ result.input = seen
        /\ result.artifacts = Files /\ Unsafe = {}
        /\ host.store => kept = [input |-> seen, output |-> output]
    BY DEF SucceededIsWhole
  <2>1. pc = "returned" /\ result.failure = "none"
    BY DEF Returned
  <2>2. /\ result.code = 0 /\ ~result.timedOut /\ result.input = seen /\ seen = manifest
        /\ result.artifacts = Files /\ Unsafe = {}
        /\ host.store => kept.output = output
    BY <2>1 DEF IInv, CollectedHolds
  <2>3. host.store => kept.input = manifest
    BY <2>1 DEF IInv, InputKeptFirst
  <2>4. QED
    BY <2>2, <2>3 DEF IInv, WorldTyped
<1>2. QED
  BY <1>1, InvariantHolds, PTL

\* Nothing a failed run wrote is stored, and none of it is left but by a
\* container whose lost client the result names (run_in_sandbox).
THEOREM NothingLeftWhenFailed == Spec => []FailedLeavesNothing
<1>1. IInv => FailedLeavesNothing
  BY DEF IInv, CollectedHolds, FailedLeavesNothing, Returned, ToldLost
<1>2. QED
  BY <1>1, InvariantHolds, PTL

\* When the call has returned no parser runs and none can be started, or the
\* result is the failure of a lost client; the copy is gone and the owner is
\* back (run_in_sandbox, OciBackend).
THEOREM IsOverWhenReturned == Spec => []OverWhenReturned
<1>1. IInv => OverWhenReturned
  <2> SUFFICES ASSUME IInv, pc = "returned"
               PROVE  /\ Alive => result.failure \notin {"none", "timeout"} /\ LostClient(result)
                      /\ staged = NothingStaged /\ owner = "stele"
    BY DEF OverWhenReturned
  <2>1. Over \/ ToldLost(result)
    BY DEF IInv, LostTold
  <2>2. Over => ~Alive
    BY DEF Over, Alive
  <2>3. QED
    BY <2>1, <2>2 DEF IInv, HashedAsCopied, OwnerBack, ToldLost
<1>2. QED
  BY <1>1, InvariantHolds, PTL

=============================================================================

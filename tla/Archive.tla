------------------------------ MODULE Archive ------------------------------
(***************************************************************************)
(* The evidence store: stele/archive/store.py (BlobStore) and the          *)
(* sequences of puts that stele/archive/ingest.py makes of it.             *)
(*                                                                         *)
(* Clients are processes with the same archive directory.  A system call   *)
(* on something they share is one step.  SHA-256 has no collisions, so a   *)
(* blob is named by its bytes; a snapshot record is named by its snapshot, *)
(* of which its bytes are a function.  A snapshot's root is the blob its   *)
(* digest addresses: the file, or the tree object over its parts.          *)
(*                                                                         *)
(* What the file system promises is POSIX: an fsynced file keeps its       *)
(* bytes, an entry is on disk once its directory is fsynced, and anything  *)
(* else may or may not survive a power loss.                               *)
(***************************************************************************)
EXTENDS Naturals, FiniteSets

CONSTANTS
  Clients,
  Blobs,       \* digests, and the bytes they are of
  Snaps,       \* snapshots (kind, digest)
  Parts,       \* [Snaps -> SUBSET Blobs]: the files a tree lists, {} for a file
  Root,        \* [Snaps -> Blobs]: the file itself, or the tree object
  Shards,      \* directories blobs/ab and meta/snapshots/<kind>/ab
  ShardOf,     \* [Blobs \cup Snaps -> Shards]
  Beside,      \* [Shards -> SUBSET Shards]: shards with the same parent
  Places,      \* paths that exports write to
  Ops,         \* operations clients call, of AllOps
  Absent,      \* no file
  Torn,        \* the bytes of a file that was not on disk when power failed
  Damaged,     \* bytes changed by the medium, or by hand
  MaxFaults    \* bound: deaths of a client, damages, power losses

Names == Blobs \cup Snaps

AllOps == {"snapshot", "bundle", "certify", "export"}

ASSUME ArchiveAssumption ==
  /\ Blobs \cap Snaps = {}
  /\ {Absent, Torn, Damaged} \cap Names = {}
  /\ Absent # Torn /\ Absent # Damaged /\ Torn # Damaged
  /\ Parts \in [Snaps -> SUBSET Blobs]
  /\ Root \in [Snaps -> Blobs]
  /\ \A s \in Snaps : Root[s] \notin Parts[s]
  /\ ShardOf \in [Names -> Shards]
  /\ Beside \in [Shards -> SUBSET Shards]
  /\ \A sh \in Shards : sh \in Beside[sh]
  /\ Ops \subseteq AllOps
  /\ MaxFaults \in Nat

VARIABLES
  bytes,    \* what is under each final name: its bytes, or Absent
  flushed,  \* names whose file was fsynced before it was published
  entered,  \* names whose entry in the shard directory is on disk
  shards,   \* [Shards -> "none" / "made" / "kept"]: kept is on disk
  pc,       \* where each client is
  job,      \* [op, snap] of the call a client is in
  todo,     \* names the call has yet to store or to verify
  cur,      \* the name being stored, the digest being exported
  temp,     \* bytes of the client's temporary file, Absent without one
  safe,     \* the client's temporary file was fsynced
  place,    \* place[x]: the digest last exported to x, with the bytes there
  target,   \* where the client's export goes
  told,     \* names that a put returned to its caller
  struck,   \* names damaged since the client's call began
  broken,   \* a client died between publishing and fsyncing the directory
  faults    \* bounded by MaxFaults

store   == <<bytes, flushed, entered, shards>>
local   == <<pc, job, todo, cur, temp, safe, target, struck>>
history == <<told, broken, faults>>
vars    == <<store, place, local, history>>

Present(n) == bytes[n] # Absent
OnDisk(n)  == Present(n) /\ n \in entered /\ shards[ShardOf[n]] = "kept"
Intact(n)  == bytes[n] = n

\* Every blob a snapshot covers.
Covers(s) == Parts[s] \cup {Root[s]}

-----------------------------------------------------------------------------
Goto(c, where) == pc' = [pc EXCEPT ![c] = where]

NoJob == [op |-> "none", snap |-> Absent]

\* _discard(tmp)
Discard(c) == temp' = [temp EXCEPT ![c] = Absent] /\ safe' = [safe EXCEPT ![c] = FALSE]

\* A call ends, by returning or raising.
Ends(c) ==
  /\ Goto(c, "idle")
  /\ job' = [job EXCEPT ![c] = NoJob]
  /\ todo' = [todo EXCEPT ![c] = {}]
  /\ cur' = [cur EXCEPT ![c] = Absent]
  /\ target' = [target EXCEPT ![c] = Absent]
  /\ struck' = [struck EXCEPT ![c] = {}]
  /\ Discard(c)

\* _install returns, and so does the put of cur[c].  Next comes another part;
\* after the tree object, the snapshot's record (_record_snapshot).
PutReturns(c) ==
  LET s == job[c].snap IN
  /\ told' = told \cup {cur[c]}
  /\ \/ /\ cur[c] \in Parts[s]
        /\ Goto(c, "next")
        /\ todo' = [todo EXCEPT ![c] = @ \ {cur[c]}]
        /\ Discard(c)
        /\ UNCHANGED <<job, cur, target, struck>>
     \/ /\ cur[c] = Root[s] /\ job[c].op = "snapshot"
        /\ Goto(c, "write")
        /\ cur' = [cur EXCEPT ![c] = s]
        /\ Discard(c)
        /\ UNCHANGED <<job, todo, target, struck>>
     \/ /\ cur[c] = s \/ (cur[c] = Root[s] /\ job[c].op = "bundle")
        /\ Ends(c)
  /\ UNCHANGED <<broken, faults>>

-----------------------------------------------------------------------------
(***************************************************************************)
(* The calls: snapshot_staged_input ("snapshot"), ingest_artifacts and     *)
(* put_tree ("bundle"), put_snapshot ("certify").                          *)
(***************************************************************************)
Begin(c, op, s) ==
  /\ pc[c] = "idle"
  /\ op \in Ops \ {"export"}
  /\ job' = [job EXCEPT ![c] = [op |-> op, snap |-> s]]
  /\ todo' = [todo EXCEPT ![c] = IF op = "certify" THEN Covers(s) ELSE Parts[s]]
  /\ Goto(c, IF op = "certify" THEN "verify" ELSE "next")
  /\ UNCHANGED <<store, place, cur, temp, safe, target, struck, history>>

\* _check_snapshot_content: every blob is re-hashed, then the record is put.
Verify(c) ==
  /\ pc[c] = "verify"
  /\ \/ \E b \in todo[c] :
          \/ /\ Intact(b)
             /\ todo' = [todo EXCEPT ![c] = @ \ {b}]
             /\ UNCHANGED <<pc, job, cur, temp, safe, target, struck>>
          \/ ~ Intact(b) /\ Ends(c)
     \/ /\ todo[c] = {}
        /\ cur' = [cur EXCEPT ![c] = job[c].snap]
        /\ Goto(c, "write")
        /\ UNCHANGED <<job, todo, temp, safe, target, struck>>
  /\ UNCHANGED <<store, place, history>>

\* A part is put, in the manifest's order (here: in any); then the root, for
\* which put_tree asks that every part is there.
NextPut(c) ==
  LET s == job[c].snap IN
  /\ pc[c] = "next"
  /\ \/ \E b \in todo[c] \cup (IF todo[c] = {} THEN {Root[s]} ELSE {}) :
          /\ b = Root[s] => \A p \in Parts[s] : Present(p)
          /\ cur' = [cur EXCEPT ![c] = b]
          /\ Goto(c, "write")
          /\ UNCHANGED <<job, todo, temp, safe, target, struck>>
     \/ /\ todo[c] = {} /\ \E p \in Parts[s] : ~ Present(p)
        /\ Ends(c)
  /\ UNCHANGED <<store, place, history>>

-----------------------------------------------------------------------------
(***************************************************************************)
(* One put: _write_temp, the comparison with expected_digest, _install.    *)
(***************************************************************************)
\* The bytes a put reads: a staged file may have changed since it was hashed.
Readable(c) ==
  LET s == job[c].snap
      staged == IF Parts[s] = {} THEN {Root[s]} ELSE Parts[s]
  IN IF job[c].op = "snapshot" /\ cur[c] \in staged THEN Blobs ELSE {cur[c]}

WriteTemp(c) ==
  /\ pc[c] = "write"
  /\ \E read \in Readable(c) : temp' = [temp EXCEPT ![c] = read]
  /\ Goto(c, "flush")
  /\ UNCHANGED <<store, place, job, todo, cur, safe, target, struck, history>>

\* Slip: the file is not fsynced.
FlushTempUnsynced(c) ==
  /\ pc[c] = "flush"
  /\ \/ /\ temp[c] = cur[c]
        /\ Goto(c, "shard")
        /\ UNCHANGED <<job, todo, cur, temp, safe, target, struck>>
     \/ temp[c] # cur[c] /\ Ends(c)
  /\ UNCHANGED <<store, place, history>>

\* os.fsync; a digest other than the expected one raises IntegrityError.
FlushTemp(c) ==
  /\ pc[c] = "flush"
  /\ \/ /\ temp[c] = cur[c]
        /\ safe' = [safe EXCEPT ![c] = TRUE]
        /\ Goto(c, "shard")
        /\ UNCHANGED <<job, todo, cur, temp, target, struck>>
     \/ temp[c] # cur[c] /\ Ends(c)
  /\ UNCHANGED <<store, place, history>>

\* shard.is_dir()
LookShard(c) ==
  /\ pc[c] = "shard"
  /\ Goto(c, IF shards[ShardOf[cur[c]]] = "none" THEN "mkdir" ELSE "look")
  /\ UNCHANGED <<store, place, job, todo, cur, temp, safe, target, struck, history>>

\* Slip: the new shard's parent is not fsynced.
MakeShardUnsynced(c) ==
  LET sh == ShardOf[cur[c]] IN
  /\ pc[c] = "mkdir"
  /\ shards' = [shards EXCEPT ![sh] = IF @ = "none" THEN "made" ELSE @]
  /\ Goto(c, "look")
  /\ UNCHANGED <<bytes, flushed, entered, place, job, todo, cur, temp, safe, target, struck, history>>

\* mkdir(exist_ok=True), by everyone who did not see the shard.
MakeShard(c) ==
  LET sh == ShardOf[cur[c]] IN
  /\ pc[c] = "mkdir"
  /\ shards' = [shards EXCEPT ![sh] = IF @ = "none" THEN "made" ELSE @]
  /\ Goto(c, "parent")
  /\ UNCHANGED <<bytes, flushed, entered, place, job, todo, cur, temp, safe, target, struck, history>>

\* _fsync_directory(shard.parent)
SyncParent(c) ==
  /\ pc[c] = "parent"
  /\ shards' = [sh \in Shards |->
                  IF sh \in Beside[ShardOf[cur[c]]] /\ shards[sh] = "made"
                  THEN "kept" ELSE shards[sh]]
  /\ Goto(c, "look")
  /\ UNCHANGED <<bytes, flushed, entered, place, job, todo, cur, temp, safe, target, struck, history>>

\* Slip: an object that is there is taken for the right one.
FoundUnverified(c) == PutReturns(c)

\* on_exists: the object found there is the same, or IntegrityError is raised.
\* Nothing is fsynced.
Found(c) ==
  \/ Intact(cur[c]) /\ PutReturns(c)
  \/ ~ Intact(cur[c]) /\ Ends(c) /\ UNCHANGED history

Look(c) ==
  /\ pc[c] = "look"
  /\ \/ Present(cur[c]) /\ Found(c)
     \/ /\ ~ Present(cur[c])
        /\ Goto(c, "link")
        /\ UNCHANGED <<job, todo, cur, temp, safe, target, struck, history>>
  /\ UNCHANGED <<store, place>>

\* Slip: os.replace instead of os.link.
LinkReplacing(c) ==
  /\ pc[c] = "link"
  /\ bytes' = [bytes EXCEPT ![cur[c]] = temp[c]]
  /\ flushed' = IF safe[c] THEN flushed \cup {cur[c]} ELSE flushed \ {cur[c]}
  /\ Goto(c, "sync")
  /\ UNCHANGED <<entered, shards, place, job, todo, cur, temp, safe, target, struck, history>>

\* os.link, which fails if the name exists.
Link(c) ==
  /\ pc[c] = "link"
  /\ \/ Present(cur[c]) /\ Found(c) /\ UNCHANGED store
     \/ /\ ~ Present(cur[c])
        /\ bytes' = [bytes EXCEPT ![cur[c]] = temp[c]]
        /\ flushed' = IF safe[c] THEN flushed \cup {cur[c]} ELSE flushed \ {cur[c]}
        /\ Goto(c, "sync")
        /\ UNCHANGED <<entered, shards, job, todo, cur, temp, safe, target, struck, history>>
  /\ UNCHANGED place

\* _fsync_directory(shard)
SyncShard(c) ==
  /\ pc[c] = "sync"
  /\ entered' = entered \cup {n \in Names : Present(n) /\ ShardOf[n] = ShardOf[cur[c]]}
  /\ PutReturns(c)
  /\ UNCHANGED <<bytes, flushed, shards, place>>

-----------------------------------------------------------------------------
(***************************************************************************)
(* export()                                                                *)
(***************************************************************************)
Nothing == [of |-> Absent, bytes |-> Absent, flushed |-> TRUE]

StartExport(c, b, x) ==
  /\ pc[c] = "idle"
  /\ "export" \in Ops
  /\ place[x] = Nothing
  /\ job' = [job EXCEPT ![c] = [op |-> "export", snap |-> Absent]]
  /\ cur' = [cur EXCEPT ![c] = b]
  /\ target' = [target EXCEPT ![c] = x]
  /\ Goto(c, "copy")
  /\ UNCHANGED <<store, place, todo, temp, safe, struck, history>>

\* Slip: the copy's hash is not compared.
CopyUnverified(c) ==
  /\ pc[c] = "copy"
  /\ \/ /\ Present(cur[c])
        /\ temp' = [temp EXCEPT ![c] = bytes[cur[c]]]
        /\ Goto(c, "flush_copy")
        /\ UNCHANGED <<job, todo, cur, safe, target, struck>>
     \/ ~ Present(cur[c]) /\ Ends(c)
  /\ UNCHANGED <<store, place, history>>

\* iter_verified copies the blob beside the destination and hashes the copy.
Copy(c) ==
  /\ pc[c] = "copy"
  /\ \/ /\ Intact(cur[c])
        /\ temp' = [temp EXCEPT ![c] = bytes[cur[c]]]
        /\ Goto(c, "flush_copy")
        /\ UNCHANGED <<job, todo, cur, safe, target, struck>>
     \/ ~ Intact(cur[c]) /\ Ends(c)
  /\ UNCHANGED <<store, place, history>>

FlushCopy(c) ==
  /\ pc[c] = "flush_copy"
  /\ safe' = [safe EXCEPT ![c] = TRUE]
  /\ Goto(c, "recheck")
  /\ UNCHANGED <<store, place, job, todo, cur, temp, target, struck, history>>

\* "refusing to overwrite", a second time
Recheck(c) ==
  /\ pc[c] = "recheck"
  /\ \/ /\ place[target[c]] = Nothing
        /\ Goto(c, "replace")
        /\ UNCHANGED <<job, todo, cur, temp, safe, target, struck>>
     \/ place[target[c]] # Nothing /\ Ends(c)
  /\ UNCHANGED <<store, place, history>>

\* os.replace, which does not ask whether the destination exists.
Replace(c) ==
  /\ pc[c] = "replace"
  /\ place' = [place EXCEPT ![target[c]] =
                 [of |-> cur[c], bytes |-> temp[c], flushed |-> safe[c]]]
  /\ Ends(c)
  /\ UNCHANGED <<store, history>>

-----------------------------------------------------------------------------
(***************************************************************************)
(* Faults.                                                                 *)
(***************************************************************************)
Fault == faults < MaxFaults /\ faults' = faults + 1

\* A client dies.  Its temporary file stays in tmp/, where nobody reads it.
Die(c) ==
  /\ Fault
  /\ pc[c] # "idle"
  /\ broken' = (broken \/ pc[c] \in {"parent", "sync"})
  /\ Ends(c)
  /\ UNCHANGED <<store, place, told>>

\* The medium, or somebody's hand, changes a stored object.
Damage(n) ==
  /\ Fault
  /\ Intact(n)
  /\ bytes' = [bytes EXCEPT ![n] = Damaged]
  /\ struck' = [c \in Clients |-> IF pc[c] = "idle" THEN {} ELSE struck[c] \cup {n}]
  /\ UNCHANGED <<flushed, entered, shards, place, pc, job, todo, cur, temp, safe, target, told, broken>>

\* Power fails: what is not on disk may go, a file that was not fsynced may be
\* torn, and no client survives.  What is there afterwards is on disk.
PowerLoss ==
  /\ Fault
  /\ \E gone \in SUBSET {n \in Names : Present(n) /\ ~ OnDisk(n)},
        rmdirs \in SUBSET {sh \in Shards : shards[sh] = "made"},
        torn \in SUBSET (Names \ flushed),
        left \in SUBSET Places :
       /\ \A n \in Names : Present(n) /\ ShardOf[n] \in rmdirs => n \in gone
       /\ bytes' = [n \in Names |-> IF n \in gone \/ ~ Present(n) THEN Absent
                                    ELSE IF n \in torn THEN Torn ELSE bytes[n]]
       /\ flushed' = {n \in Names : Present(n) /\ n \notin gone}
       /\ entered' = flushed'
       /\ shards' = [sh \in Shards |-> IF sh \in rmdirs \/ shards[sh] = "none"
                                       THEN "none" ELSE "kept"]
       /\ place' = [x \in Places |->
                      IF x \notin left THEN Nothing
                      ELSE IF place[x].flushed THEN place[x]
                      ELSE [place[x] EXCEPT !.bytes = Torn]]
  /\ pc' = [c \in Clients |-> "idle"]
  /\ job' = [c \in Clients |-> NoJob]
  /\ todo' = [c \in Clients |-> {}]
  /\ cur' = [c \in Clients |-> Absent]
  /\ temp' = [c \in Clients |-> Absent]
  /\ safe' = [c \in Clients |-> FALSE]
  /\ target' = [c \in Clients |-> Absent]
  /\ struck' = [c \in Clients |-> {}]
  /\ broken' = FALSE
  /\ UNCHANGED told

-----------------------------------------------------------------------------
\* An archive that was opened before: the directories above the shards are on
\* disk, and nothing is stored.
Init ==
  /\ bytes = [n \in Names |-> Absent]
  /\ flushed = {} /\ entered = {}
  /\ shards = [sh \in Shards |-> "none"]
  /\ pc = [c \in Clients |-> "idle"]
  /\ job = [c \in Clients |-> NoJob]
  /\ todo = [c \in Clients |-> {}]
  /\ cur = [c \in Clients |-> Absent]
  /\ temp = [c \in Clients |-> Absent]
  /\ safe = [c \in Clients |-> FALSE]
  /\ target = [c \in Clients |-> Absent]
  /\ struck = [c \in Clients |-> {}]
  /\ place = [x \in Places |-> Nothing]
  /\ told = {}
  /\ broken = FALSE
  /\ faults = 0

Put(c) ==
  \/ NextPut(c) \/ WriteTemp(c) \/ FlushTemp(c)
  \/ LookShard(c) \/ MakeShard(c) \/ SyncParent(c) \/ Look(c) \/ Link(c) \/ SyncShard(c)

Export(c) == Copy(c) \/ FlushCopy(c) \/ Recheck(c) \/ Replace(c)

Next ==
  \/ \E c \in Clients :
       \/ \E op \in AllOps, s \in Snaps : Begin(c, op, s)
       \/ \E b \in Blobs, x \in Places : StartExport(c, b, x)
       \/ Verify(c) \/ Put(c) \/ Export(c) \/ Die(c)
  \/ \E n \in Names : Damage(n)
  \/ PowerLoss

Spec == Init /\ [][Next]_vars

-----------------------------------------------------------------------------
(***************************************************************************)
(* Properties.                                                             *)
(***************************************************************************)
\* Type invariant.
TypeOK ==
  /\ bytes \in [Names -> Names \cup {Absent, Torn, Damaged}]
  /\ flushed \subseteq Names /\ entered \subseteq Names /\ told \subseteq Names
  /\ shards \in [Shards -> {"none", "made", "kept"}]
  /\ pc \in [Clients -> {"idle", "verify", "next", "write", "flush", "shard", "mkdir", "parent",
                         "look", "link", "sync", "copy", "flush_copy", "recheck", "replace"}]
  /\ job \in [Clients -> [op : AllOps \cup {"none"}, snap : Snaps \cup {Absent}]]
  /\ todo \in [Clients -> SUBSET Blobs]
  /\ cur \in [Clients -> Names \cup {Absent}]
  /\ temp \in [Clients -> Names \cup {Absent}]
  /\ safe \in [Clients -> BOOLEAN]
  /\ target \in [Clients -> Places \cup {Absent}]
  /\ struck \in [Clients -> SUBSET Names]
  /\ place \in [Places -> [of : Blobs \cup {Absent}, bytes : Blobs \cup {Absent, Torn},
                           flushed : BOOLEAN]]
  /\ broken \in BOOLEAN
  /\ faults \in 0..MaxFaults

\* "A crash at any point leaves at most an orphaned temp file, never a partial
\* object under a final name" (store.py:20): whoever dies and whenever power
\* fails, a final name has the bytes it is the hash of, or bytes that the
\* medium damaged after they were published.
NeverPartial == \A n \in Names : bytes[n] \in {Absent, n, Damaged}

\* A snapshot record appears only when every blob it covers is there, with the
\* right bytes unless it was damaged while this very call was on its way (its
\* "presence means the snapshot's content was complete and intact in the store
\* when it was recorded", store.py:407).
CertifiesIntact ==
  [][\A s \in Snaps : ~ Present(s) /\ Present(s)' =>
       \E c \in Clients :
         /\ pc[c] = "link" /\ cur[c] = s
         /\ \A b \in Covers(s) : Present(b) /\ (Intact(b) \/ b \in struck[c])]_vars

\* What is not on disk yet has a client about to fsync its directory, or the
\* client died there (_install fsyncs what it makes).
QuietIsOnDisk ==
  \A n \in Names : Present(n) /\ ~ OnDisk(n) =>
    \/ broken
    \/ \E c \in Clients : \/ pc[c] = "sync" /\ cur[c] = n
                          \/ pc[c] = "parent" /\ ShardOf[cur[c]] = ShardOf[n]

\* The destination of an export does not exist, or holds exactly the blob that
\* was asked for, damages and power losses notwithstanding (store.py:336).
ExportsIntact == \A x \in Places : place[x].bytes = place[x].of

\* The store implements its contract: publish once, never change, never lose
\* what is on disk.
Contract == INSTANCE StoreContract WITH
  condition <- [n \in Names |-> IF ~ Present(n) THEN "absent"
                                ELSE IF Intact(n) THEN "intact" ELSE "damaged"],
  onDisk <- {n \in Names : OnDisk(n)}

KeepsContract == Contract!Spec

\* "fsync a directory so a rename into it is durable" (store.py:79): what a put
\* returned survives a power loss.  The code does not ensure it for an object
\* that another client has published and not yet fsynced.
ReturnedIsDurable == [][\A n \in told : Present(n)']_vars

\* export "refuses to replace an existing destination" (store.py:337).  Between
\* two exports the code does.
ExportRefuses == [][\A x \in Places : place[x] # Nothing => place'[x] \in {place[x], Nothing}]_vars

=============================================================================

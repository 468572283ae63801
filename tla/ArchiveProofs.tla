--------------------------- MODULE ArchiveProofs ---------------------------
(***************************************************************************)
(* Proofs about the evidence store, for any clients, snapshots, blobs and  *)
(* layout of shards.                                                       *)
(***************************************************************************)
EXTENDS Archive, TLAPS

PutPcs   == {"write", "flush", "shard", "mkdir", "parent", "look", "link", "sync"}
ReadyPcs == {"shard", "mkdir", "parent", "look", "link", "sync"}
ShardPcs == {"parent", "look", "link", "sync"}
CopyPcs  == {"copy", "flush_copy", "recheck", "replace"}

\* Where a client is, and what its locals are there.
AtWork(c) ==
  /\ pc[c] \in {"verify", "next"} \cup PutPcs => job[c].snap \in Snaps /\ job[c].op \in AllOps
  /\ pc[c] = "idle" => temp[c] = Absent
  /\ pc[c] \in {"next"} \cup PutPcs => todo[c] \subseteq Parts[job[c].snap]
  /\ pc[c] \in PutPcs => /\ cur[c] \in Covers(job[c].snap) \cup {job[c].snap}
                         /\ cur[c] \in Parts[job[c].snap] \/ todo[c] = {}
  /\ pc[c] \in ReadyPcs => temp[c] = cur[c] /\ safe[c]
  /\ pc[c] \in ShardPcs => shards[ShardOf[cur[c]]] # "none"
  /\ pc[c] \in CopyPcs => cur[c] \in Blobs /\ target[c] \in Places
  /\ pc[c] \in CopyPcs \ {"copy"} => temp[c] = cur[c]
  /\ pc[c] \in {"recheck", "replace"} => safe[c]

WorkOrder == \A c \in Clients : AtWork(c)

\* What a call has stored or verified so far.
Settled(c) ==
  LET s == job[c].snap IN
  IF pc[c] = "verify" THEN Covers(s) \ todo[c]
  ELSE IF pc[c] = "next" THEN Parts[s] \ todo[c]
  ELSE IF pc[c] \notin PutPcs THEN {}
  ELSE IF cur[c] = s THEN Covers(s)
  ELSE (Parts[s] \ todo[c]) \cup (IF pc[c] = "sync" THEN {cur[c]} ELSE {})

SettledHolds ==
  \A c \in Clients : \A b \in Settled(c) : Present(b) /\ (Intact(b) \/ b \in struck[c])

WholeFiles == \A n \in Names : Present(n) => n \in flushed

EntriesOfPresent == \A n \in entered : Present(n)

HasShard == \A n \in Names : Present(n) => shards[ShardOf[n]] # "none"

EntryPending ==
  \A n \in Names : Present(n) /\ n \notin entered =>
    broken \/ \E c \in Clients : pc[c] = "sync" /\ cur[c] = n

ShardPending ==
  \A sh \in Shards : shards[sh] = "made" =>
    broken \/ \E c \in Clients : pc[c] = "parent" /\ ShardOf[cur[c]] = sh

ExportedWhole == \A x \in Places : place[x].flushed /\ place[x].bytes = place[x].of

IInv ==
  /\ TypeOK /\ WorkOrder /\ SettledHolds /\ NeverPartial /\ WholeFiles
  /\ EntriesOfPresent /\ HasShard /\ EntryPending /\ ShardPending /\ ExportedWhole

-----------------------------------------------------------------------------
(***************************************************************************)
(* A step of one client changes that client's locals only.                 *)
(***************************************************************************)
Others(c) ==
  \A d \in Clients \ {c} :
    /\ pc'[d] = pc[d] /\ job'[d] = job[d] /\ todo'[d] = todo[d] /\ cur'[d] = cur[d]
    /\ temp'[d] = temp[d] /\ safe'[d] = safe[d] /\ target'[d] = target[d]
    /\ struck'[d] = struck[d]

TypedLocals ==
  /\ pc \in [Clients -> {"idle", "verify", "next", "write", "flush", "shard", "mkdir", "parent",
                         "look", "link", "sync", "copy", "flush_copy", "recheck", "replace"}]
  /\ job \in [Clients -> [op : AllOps \cup {"none"}, snap : Snaps \cup {Absent}]]
  /\ todo \in [Clients -> SUBSET Blobs]
  /\ cur \in [Clients -> Names \cup {Absent}]
  /\ temp \in [Clients -> Names \cup {Absent}]
  /\ safe \in [Clients -> BOOLEAN]
  /\ target \in [Clients -> Places \cup {Absent}]
  /\ struck \in [Clients -> SUBSET Names]

\* A call that ends leaves its client idle.
LEMMA EndsLocally ==
  ASSUME NEW c \in Clients, TypedLocals, Ends(c)
  PROVE  TypedLocals' /\ Others(c) /\ pc'[c] = "idle" /\ temp'[c] = Absent
  BY DEF TypedLocals, Ends, Discard, Goto, NoJob, Others

\* What a client that stores something stores.
LEMMA CurIsName ==
  ASSUME NEW c \in Clients, TypedLocals, AtWork(c), pc[c] \in PutPcs
  PROVE  /\ job[c].snap \in Snaps /\ cur[c] \in Names
         /\ Covers(job[c].snap) \subseteq Blobs /\ cur[c] \in Covers(job[c].snap) \cup {job[c].snap}
  BY ArchiveAssumption DEF TypedLocals, AtWork, Covers, Names

\* A put returns: the client goes on to the next one, or is done.
LEMMA PutReturnsLocally ==
  ASSUME NEW c \in Clients, TypedLocals, AtWork(c), pc[c] \in PutPcs, PutReturns(c)
  PROVE  /\ TypedLocals' /\ Others(c) /\ temp'[c] = Absent
         /\ told' = told \cup {cur[c]} /\ UNCHANGED <<broken, faults>>
         /\ \/ pc'[c] = "idle"
            \/ /\ pc'[c] = "next" /\ cur[c] \in Parts[job[c].snap]
               /\ todo'[c] = todo[c] \ {cur[c]} /\ job'[c] = job[c] /\ struck'[c] = struck[c]
            \/ /\ pc'[c] = "write" /\ cur[c] = Root[job[c].snap] /\ cur'[c] = job[c].snap
               /\ todo'[c] = todo[c] /\ job'[c] = job[c] /\ struck'[c] = struck[c]
<1>1. job[c].snap \in Snaps /\ cur[c] \in Names
  BY CurIsName
<1>2. CASE cur[c] \in Parts[job[c].snap] /\ Goto(c, "next")
             /\ todo' = [todo EXCEPT ![c] = @ \ {cur[c]}] /\ Discard(c)
             /\ UNCHANGED <<job, cur, target, struck>>
  BY <1>2 DEF PutReturns, TypedLocals, Discard, Goto, Others
<1>3. CASE cur[c] = Root[job[c].snap] /\ Goto(c, "write")
             /\ cur' = [cur EXCEPT ![c] = job[c].snap] /\ Discard(c)
             /\ UNCHANGED <<job, todo, target, struck>>
  BY <1>1, <1>3 DEF PutReturns, TypedLocals, Discard, Goto, Others, Names
<1>4. CASE Ends(c)
  BY <1>4, EndsLocally DEF PutReturns
<1>5. QED
  BY <1>2, <1>3, <1>4 DEF PutReturns

\* A client that finds the object there (_install) changes its own locals and the ghosts only.
LEMMA FoundLocally ==
  ASSUME NEW c \in Clients, TypedLocals, AtWork(c), pc[c] \in PutPcs, Found(c)
  PROVE  /\ TypedLocals' /\ Others(c) /\ temp'[c] = Absent /\ UNCHANGED <<broken, faults>>
         /\ told' \in {told, told \cup {cur[c]}}
         /\ \/ pc'[c] = "idle"
            \/ /\ pc'[c] = "next" /\ cur[c] \in Parts[job[c].snap] /\ Intact(cur[c])
               /\ todo'[c] = todo[c] \ {cur[c]} /\ job'[c] = job[c] /\ struck'[c] = struck[c]
            \/ /\ pc'[c] = "write" /\ cur[c] = Root[job[c].snap] /\ cur'[c] = job[c].snap
               /\ Intact(cur[c])
               /\ todo'[c] = todo[c] /\ job'[c] = job[c] /\ struck'[c] = struck[c]
<1>1. CASE Intact(cur[c]) /\ PutReturns(c)
  BY <1>1, PutReturnsLocally
<1>2. CASE Ends(c) /\ UNCHANGED history
  BY <1>2, EndsLocally DEF history
<1>3. QED
  BY <1>1, <1>2 DEF Found

\* The type invariant, as that of the locals and that of what the disk has.
LEMMA TypeParts ==
  TypeOK <=> /\ TypedLocals
             /\ bytes \in [Names -> Names \cup {Absent, Torn, Damaged}]
             /\ flushed \subseteq Names /\ entered \subseteq Names /\ told \subseteq Names
             /\ shards \in [Shards -> {"none", "made", "kept"}]
             /\ place \in [Places -> [of : Blobs \cup {Absent}, bytes : Blobs \cup {Absent, Torn},
                                      flushed : BOOLEAN]]
             /\ broken \in BOOLEAN
             /\ faults \in 0..MaxFaults
  BY DEF TypeOK, TypedLocals

\* What a call has settled so far are names.
LEMMA SettledNames ==
  ASSUME NEW d \in Clients, TypedLocals, AtWork(d)
  PROVE  Settled(d) \subseteq Names
<1>1. CASE pc[d] \in {"verify", "next"}
  <2>1. job[d].snap \in Snaps
    BY <1>1 DEF AtWork
  <2>2. Covers(job[d].snap) \subseteq Names
    BY <2>1, ArchiveAssumption DEF Covers, Names
  <2>3. QED
    BY <1>1, <2>2 DEF Settled, Covers, PutPcs
<1>2. CASE pc[d] \in PutPcs
  <2>1. Covers(job[d].snap) \subseteq Names /\ cur[d] \in Names
    BY <1>2, CurIsName DEF Names
  <2>2. QED
    BY <1>2, <2>1 DEF Settled, Covers, PutPcs
<1>3. QED
  BY <1>1, <1>2 DEF Settled

\* The other clients stay where they are in their order of work.
LEMMA WorkStep ==
  ASSUME NEW c \in Clients, TypedLocals, WorkOrder, Others(c), AtWork(c)',
         \A sh \in Shards : shards[sh] # "none" => shards'[sh] # "none"
  PROVE  WorkOrder'
<1> SUFFICES ASSUME NEW d \in Clients, d # c PROVE AtWork(d)'
  BY DEF WorkOrder
<1>1. AtWork(d)
  BY DEF WorkOrder
<1>2. pc[d] \in ShardPcs => ShardOf[cur[d]] \in Shards
  BY <1>1, CurIsName, ArchiveAssumption DEF ShardPcs, PutPcs
<1>3. /\ pc'[d] = pc[d] /\ job'[d] = job[d] /\ todo'[d] = todo[d] /\ cur'[d] = cur[d]
      /\ temp'[d] = temp[d] /\ safe'[d] = safe[d] /\ target'[d] = target[d]
  BY DEF Others
<1>4. QED
  BY <1>1, <1>2, <1>3 DEF AtWork

\* Published bytes stay as long as nothing damages them.
BytesStay == \A n \in Names : Present(n) => bytes'[n] = bytes[n]

\* What the other clients settled stays settled while the stored bytes stay.
LEMMA SettledStep ==
  ASSUME NEW c \in Clients, TypedLocals, WorkOrder, SettledHolds, Others(c), BytesStay,
         \A b \in Settled(c)' : Present(b)' /\ (Intact(b)' \/ b \in struck'[c])
  PROVE  SettledHolds'
<1> SUFFICES ASSUME NEW d \in Clients, d # c, NEW b \in Settled(d)'
             PROVE  Present(b)' /\ (Intact(b)' \/ b \in struck'[d])
  BY DEF SettledHolds
<1>1. /\ pc'[d] = pc[d] /\ job'[d] = job[d] /\ todo'[d] = todo[d] /\ cur'[d] = cur[d]
      /\ struck'[d] = struck[d]
  BY DEF Others
<1>2. b \in Settled(d)
  BY <1>1 DEF Settled
<1>3. b \in Names
  BY <1>2, SettledNames DEF WorkOrder
<1>4. Present(b) /\ (Intact(b) \/ b \in struck[d])
  BY <1>2 DEF SettledHolds
<1>5. QED
  BY <1>1, <1>3, <1>4 DEF BytesStay, Present, Intact

\* A client that is about to fsync a directory still is after another's step.
LEMMA PendingStep ==
  ASSUME NEW c \in Clients, Others(c), EntryPending, ShardPending,
         pc[c] \notin {"sync", "parent"},
         UNCHANGED <<bytes, entered, shards, broken>>
  PROVE  EntryPending' /\ ShardPending'
<1>1. EntryPending'
  <2> SUFFICES ASSUME NEW n \in Names, Present(n)', n \notin entered', ~ broken'
               PROVE  \E d \in Clients : pc'[d] = "sync" /\ cur'[d] = n
    BY DEF EntryPending
  <2>1. PICK d \in Clients : pc[d] = "sync" /\ cur[d] = n
    BY DEF EntryPending, Present
  <2>2. QED
    BY <2>1 DEF Others
<1>2. ShardPending'
  <2> SUFFICES ASSUME NEW sh \in Shards, shards'[sh] = "made", ~ broken'
               PROVE  \E d \in Clients : pc'[d] = "parent" /\ ShardOf[cur'[d]] = sh
    BY DEF ShardPending
  <2>1. PICK d \in Clients : pc[d] = "parent" /\ ShardOf[cur[d]] = sh
    BY DEF ShardPending
  <2>2. QED
    BY <2>1 DEF Others
<1>3. QED
  BY <1>1, <1>2

\* Steps that touch nothing but the locals of a client that owes no fsync.
LEMMA LocalStep ==
  ASSUME NEW c \in Clients, IInv, Others(c), TypedLocals', AtWork(c)',
         UNCHANGED <<store, place, broken>>, told' \subseteq Names, faults' \in 0..MaxFaults,
         pc[c] \notin {"sync", "parent"},
         \A b \in Settled(c)' : Present(b) /\ (Intact(b) \/ b \in struck'[c])
  PROVE  IInv'
<1>1. TypeOK'
  <2>1. UNCHANGED <<bytes, flushed, entered, shards, place, broken>>
    BY DEF store
  <2>2. QED
    BY <2>1, TypeParts DEF IInv, TypeOK, TypedLocals
<1>2. WorkOrder'
  BY WorkStep, TypeParts DEF IInv, store
<1>3. SettledHolds'
  <2>1. \A b \in Settled(c)' : Present(b)' /\ (Intact(b)' \/ b \in struck'[c])
    BY DEF store, Present, Intact
  <2>2. QED
    BY <2>1, SettledStep, TypeParts DEF IInv, store, BytesStay
<1>4. EntryPending' /\ ShardPending'
  BY PendingStep DEF IInv, store
<1>5. NeverPartial' /\ WholeFiles' /\ EntriesOfPresent' /\ HasShard'
  BY DEF IInv, store, NeverPartial, WholeFiles, EntriesOfPresent, HasShard, Present
<1>6. ExportedWhole'
  BY DEF IInv, ExportedWhole
<1>7. QED
  BY <1>1, <1>2, <1>3, <1>4, <1>5, <1>6 DEF IInv


-----------------------------------------------------------------------------
(***************************************************************************)
(* The steps, one by one.                                                  *)
(***************************************************************************)
LEMMA EndingStep ==
  ASSUME NEW c \in Clients, IInv, Ends(c), UNCHANGED <<store, place, broken, told>>,
         faults' \in 0..MaxFaults, pc[c] \notin {"sync", "parent"}
  PROVE  IInv'
<1>1. TypedLocals' /\ Others(c) /\ pc'[c] = "idle" /\ temp'[c] = Absent
  BY EndsLocally, TypeParts DEF IInv
<1>2. AtWork(c)'
  BY <1>1 DEF AtWork, PutPcs, ReadyPcs, ShardPcs, CopyPcs
<1>3. Settled(c)' = {}
  BY <1>1 DEF Settled, PutPcs
<1>4. told' \subseteq Names
  BY TypeParts DEF IInv
<1>5. QED
  BY <1>1, <1>2, <1>3, <1>4, LocalStep

\* An operation begins.
LEMMA BeginStep ==
  ASSUME NEW c \in Clients, NEW op \in AllOps, NEW s \in Snaps, IInv, Begin(c, op, s)
  PROVE  IInv'
<1>1. Parts[s] \subseteq Blobs /\ Covers(s) \subseteq Blobs
  BY ArchiveAssumption DEF Covers
<1>2. TypedLocals /\ told \subseteq Names /\ faults \in 0..MaxFaults
  BY TypeParts DEF IInv
<1>3. TypedLocals' /\ Others(c)
  BY <1>1, <1>2 DEF Begin, Goto, TypedLocals, Others
<1>4. /\ pc'[c] = (IF op = "certify" THEN "verify" ELSE "next")
      /\ job'[c] = [op |-> op, snap |-> s]
      /\ todo'[c] = (IF op = "certify" THEN Covers(s) ELSE Parts[s])
  BY <1>2 DEF Begin, Goto, TypedLocals
<1>5. AtWork(c)'
  BY <1>4 DEF AtWork, PutPcs, ReadyPcs, ShardPcs, CopyPcs
<1>6. Settled(c)' = {}
  BY <1>4 DEF Settled
<1>7. QED
  BY <1>2, <1>3, <1>5, <1>6, LocalStep DEF Begin, history

\* put_snapshot looks at the parts that it certifies.
LEMMA VerifyStep ==
  ASSUME NEW c \in Clients, IInv, Verify(c)
  PROVE  IInv'
<1>1. /\ TypedLocals /\ told \subseteq Names /\ faults \in 0..MaxFaults /\ pc[c] = "verify"
      /\ AtWork(c) /\ UNCHANGED <<store, place, told, broken, faults>>
  BY TypeParts DEF IInv, WorkOrder, Verify, history
<1>2. job[c].snap \in Snaps /\ job[c].op \in AllOps
  BY <1>1 DEF AtWork
<1>3. ASSUME NEW b \in todo[c], Intact(b), todo' = [todo EXCEPT ![c] = @ \ {b}],
             UNCHANGED <<pc, job, cur, temp, safe, target, struck>>
      PROVE  IInv'
  <2>1. TypedLocals' /\ Others(c) /\ todo'[c] = todo[c] \ {b}
    BY <1>1, <1>3 DEF TypedLocals, Others
  <2>2. AtWork(c)'
    BY <1>1, <1>2, <1>3 DEF AtWork, PutPcs, ReadyPcs, ShardPcs, CopyPcs
  <2>3. Settled(c)' \subseteq Settled(c) \cup {b}
    BY <1>1, <1>3, <2>1 DEF Settled
  <2>4. Present(b)
    BY <1>1, <1>3, ArchiveAssumption DEF Intact, Present, TypedLocals, Names
  <2>5. \A x \in Settled(c)' : Present(x) /\ (Intact(x) \/ x \in struck'[c])
    BY <1>3, <2>3, <2>4 DEF IInv, SettledHolds
  <2>6. QED
    BY <1>1, <2>1, <2>2, <2>5, LocalStep
<1>4. CASE Ends(c)
  BY <1>1, <1>4, EndingStep
<1>5. ASSUME todo[c] = {}, cur' = [cur EXCEPT ![c] = job[c].snap], Goto(c, "write"),
             UNCHANGED <<job, todo, temp, safe, target, struck>>
      PROVE  IInv'
  <2>1. TypedLocals' /\ Others(c) /\ pc'[c] = "write" /\ cur'[c] = job[c].snap
    BY <1>1, <1>2, <1>5 DEF TypedLocals, Others, Goto, Names
  <2>2. AtWork(c)'
    BY <1>1, <1>2, <1>5, <2>1 DEF AtWork, PutPcs, ReadyPcs, ShardPcs, CopyPcs
  <2>3. Settled(c)' \subseteq Settled(c)
    BY <1>1, <1>5, <2>1 DEF Settled, PutPcs, Covers
  <2>4. \A x \in Settled(c)' : Present(x) /\ (Intact(x) \/ x \in struck'[c])
    BY <1>5, <2>3 DEF IInv, SettledHolds
  <2>5. QED
    BY <1>1, <2>1, <2>2, <2>4, LocalStep
<1>6. QED
  BY <1>3, <1>4, <1>5 DEF Verify

\* A call goes on to its next put, or returns.
LEMMA NextPutStep ==
  ASSUME NEW c \in Clients, IInv, NextPut(c)
  PROVE  IInv'
<1>1. /\ TypedLocals /\ told \subseteq Names /\ faults \in 0..MaxFaults /\ pc[c] = "next"
      /\ AtWork(c) /\ UNCHANGED <<store, place, told, broken, faults>>
  BY TypeParts DEF IInv, WorkOrder, NextPut, history
<1>2. job[c].snap \in Snaps /\ job[c].op \in AllOps /\ todo[c] \subseteq Parts[job[c].snap]
  BY <1>1 DEF AtWork
<1>3. CASE Ends(c)
  BY <1>1, <1>3, EndingStep
<1>4. ASSUME NEW b \in todo[c] \cup (IF todo[c] = {} THEN {Root[job[c].snap]} ELSE {}),
             cur' = [cur EXCEPT ![c] = b], Goto(c, "write"),
             UNCHANGED <<job, todo, temp, safe, target, struck>>
      PROVE  IInv'
  <2>1. b \in Covers(job[c].snap) /\ b \in Names /\ b # job[c].snap
        /\ (b \in Parts[job[c].snap] \/ todo[c] = {})
    BY <1>2, <1>4, ArchiveAssumption DEF Covers, Names
  <2>2. TypedLocals' /\ Others(c) /\ pc'[c] = "write" /\ cur'[c] = b
    BY <1>1, <1>4, <2>1 DEF TypedLocals, Others, Goto
  <2>3. AtWork(c)'
    BY <1>2, <1>4, <2>1, <2>2 DEF AtWork, PutPcs, ReadyPcs, ShardPcs, CopyPcs, Covers
  <2>4. Settled(c)' \subseteq Settled(c)
    BY <1>1, <1>4, <2>1, <2>2 DEF Settled, PutPcs
  <2>5. \A x \in Settled(c)' : Present(x) /\ (Intact(x) \/ x \in struck'[c])
    BY <1>4, <2>4 DEF IInv, SettledHolds
  <2>6. QED
    BY <1>1, <2>2, <2>3, <2>5, LocalStep
<1>5. QED
  BY <1>3, <1>4 DEF NextPut

\* A put that goes on with the same name, and its call with what is settled.
LEMMA SamePut ==
  ASSUME NEW c \in Clients, pc[c] \in PutPcs, pc'[c] \in PutPcs \ {"sync"},
         UNCHANGED <<job, cur, todo>>
  PROVE  Settled(c)' \subseteq Settled(c)
  BY DEF Settled, PutPcs

\* _write_temp writes what is read into the temporary file.
LEMMA WriteTempStep ==
  ASSUME NEW c \in Clients, IInv, WriteTemp(c)
  PROVE  IInv'
<1>1. /\ TypedLocals /\ told \subseteq Names /\ faults \in 0..MaxFaults /\ pc[c] = "write"
      /\ AtWork(c) /\ UNCHANGED <<store, place, told, broken, faults>>
      /\ UNCHANGED <<job, todo, cur, safe, target, struck>>
  BY TypeParts DEF IInv, WorkOrder, WriteTemp, history
<1>2. job[c].snap \in Snaps /\ job[c].op \in AllOps /\ cur[c] \in Names
  BY <1>1, CurIsName DEF AtWork, PutPcs
<1>3. PICK read \in Readable(c) : temp' = [temp EXCEPT ![c] = read]
  BY DEF WriteTemp
<1>4. read \in Names
  BY <1>2, <1>3 DEF Readable, Names
<1>5. TypedLocals' /\ Others(c) /\ pc'[c] = "flush"
  BY <1>1, <1>3, <1>4 DEF TypedLocals, Others, Goto, WriteTemp
<1>6. AtWork(c)'
  BY <1>1, <1>5 DEF AtWork, PutPcs, ReadyPcs, ShardPcs, CopyPcs
<1>7. \A x \in Settled(c)' : Present(x) /\ (Intact(x) \/ x \in struck'[c])
  BY <1>1, <1>5, SamePut DEF IInv, SettledHolds, PutPcs
<1>8. QED
  BY <1>1, <1>5, <1>6, <1>7, LocalStep

\* The temporary file is fsynced, and dropped if its digest is not the expected one.
LEMMA FlushTempStep ==
  ASSUME NEW c \in Clients, IInv, FlushTemp(c)
  PROVE  IInv'
<1>1. /\ TypedLocals /\ told \subseteq Names /\ faults \in 0..MaxFaults /\ pc[c] = "flush"
      /\ AtWork(c) /\ UNCHANGED <<store, place, told, broken, faults>>
  BY TypeParts DEF IInv, WorkOrder, FlushTemp, history
<1>2. CASE Ends(c)
  BY <1>1, <1>2, EndingStep
<1>3. ASSUME temp[c] = cur[c], safe' = [safe EXCEPT ![c] = TRUE], Goto(c, "shard"),
             UNCHANGED <<job, todo, cur, temp, target, struck>>
      PROVE  IInv'
  <2>1. TypedLocals' /\ Others(c) /\ pc'[c] = "shard" /\ safe'[c]
    BY <1>1, <1>3 DEF TypedLocals, Others, Goto
  <2>2. AtWork(c)'
    BY <1>1, <1>3, <2>1 DEF AtWork, PutPcs, ReadyPcs, ShardPcs, CopyPcs
  <2>3. \A x \in Settled(c)' : Present(x) /\ (Intact(x) \/ x \in struck'[c])
    BY <1>1, <1>3, <2>1, SamePut DEF IInv, SettledHolds, PutPcs
  <2>4. QED
    BY <1>1, <2>1, <2>2, <2>3, LocalStep
<1>4. QED
  BY <1>2, <1>3 DEF FlushTemp


\* After a put returned: what the client has settled, with what was put.
LEMMA AfterPut ==
  ASSUME NEW c \in Clients, TypedLocals, AtWork(c), pc[c] \in PutPcs, temp'[c] = Absent,
         \/ pc'[c] = "idle"
         \/ /\ pc'[c] = "next" /\ cur[c] \in Parts[job[c].snap]
            /\ todo'[c] = todo[c] \ {cur[c]} /\ job'[c] = job[c]
         \/ /\ pc'[c] = "write" /\ cur[c] = Root[job[c].snap] /\ cur'[c] = job[c].snap
            /\ todo'[c] = todo[c] /\ job'[c] = job[c]
  PROVE  AtWork(c)' /\ (pc'[c] = "idle" => Settled(c)' = {})
         /\ Settled(c)' \subseteq Settled(c) \cup {cur[c]}
<1>1. /\ job[c].snap \in Snaps /\ job[c].op \in AllOps /\ cur[c] \in Names
      /\ cur[c] \in Parts[job[c].snap] \/ todo[c] = {}
  BY CurIsName DEF AtWork
<1>2. CASE pc'[c] = "idle"
  BY <1>2 DEF AtWork, Settled, PutPcs, ReadyPcs, ShardPcs, CopyPcs
<1>3. CASE pc'[c] = "next" /\ cur[c] \in Parts[job[c].snap]
            /\ todo'[c] = todo[c] \ {cur[c]} /\ job'[c] = job[c]
  <2>1. todo[c] \subseteq Blobs /\ cur[c] # job[c].snap
    BY <1>1, <1>3, ArchiveAssumption DEF TypedLocals
  <2>2. Settled(c)' \subseteq Settled(c) \cup {cur[c]}
    BY <1>3, <2>1 DEF Settled, PutPcs
  <2>3. todo'[c] \subseteq Parts[job[c].snap]
    BY <1>1, <1>3 DEF AtWork
  <2>4. QED
    BY <1>1, <1>3, <2>2, <2>3 DEF AtWork, PutPcs, ReadyPcs, ShardPcs, CopyPcs
<1>4. CASE pc'[c] = "write" /\ cur[c] = Root[job[c].snap] /\ cur'[c] = job[c].snap
            /\ todo'[c] = todo[c] /\ job'[c] = job[c]
  <2>1. todo[c] = {} /\ cur[c] # job[c].snap
    BY <1>1, <1>4, ArchiveAssumption
  <2>2. Settled(c)' \subseteq Settled(c) \cup {cur[c]}
    BY <1>4, <2>1 DEF Settled, PutPcs, Covers
  <2>3. QED
    BY <1>1, <1>4, <2>1, <2>2 DEF AtWork, PutPcs, ReadyPcs, ShardPcs, CopyPcs, Covers
<1>5. QED
  BY <1>2, <1>3, <1>4

\* _install finds the object there: on_exists compares it.
LEMMA FoundStep ==
  ASSUME NEW c \in Clients, IInv, pc[c] \in {"look", "link"}, Found(c), UNCHANGED <<store, place>>
  PROVE  IInv'
<1>1. /\ TypedLocals /\ told \subseteq Names /\ faults \in 0..MaxFaults /\ AtWork(c)
      /\ pc[c] \in PutPcs /\ cur[c] \in Names
  BY TypeParts, CurIsName DEF IInv, WorkOrder, PutPcs
<1>2. /\ TypedLocals' /\ Others(c) /\ temp'[c] = Absent /\ UNCHANGED <<broken, faults>>
      /\ told' \in {told, told \cup {cur[c]}}
      /\ \/ pc'[c] = "idle"
         \/ /\ pc'[c] = "next" /\ cur[c] \in Parts[job[c].snap] /\ Intact(cur[c])
            /\ todo'[c] = todo[c] \ {cur[c]} /\ job'[c] = job[c] /\ struck'[c] = struck[c]
         \/ /\ pc'[c] = "write" /\ cur[c] = Root[job[c].snap] /\ cur'[c] = job[c].snap
            /\ Intact(cur[c])
            /\ todo'[c] = todo[c] /\ job'[c] = job[c] /\ struck'[c] = struck[c]
  BY <1>1, FoundLocally
<1>3. AtWork(c)' /\ (pc'[c] = "idle" => Settled(c)' = {})
      /\ Settled(c)' \subseteq Settled(c) \cup {cur[c]}
  BY <1>1, <1>2, AfterPut
<1>4. Intact(cur[c]) => Present(cur[c])
  BY <1>1, ArchiveAssumption DEF Intact, Present
<1>5. \A x \in Settled(c)' : Present(x) /\ (Intact(x) \/ x \in struck'[c])
  BY <1>2, <1>3, <1>4 DEF IInv, SettledHolds
<1>6. QED
  BY <1>1, <1>2, <1>3, <1>5, LocalStep

\* _install looks whether the object is there.
LEMMA LookStep ==
  ASSUME NEW c \in Clients, IInv, Look(c)
  PROVE  IInv'
<1>1. CASE Found(c)
  BY <1>1, FoundStep DEF Look
<1>2. CASE Goto(c, "link") /\ UNCHANGED <<job, todo, cur, temp, safe, target, struck, history>>
  <2>1. /\ TypedLocals /\ told \subseteq Names /\ faults \in 0..MaxFaults /\ AtWork(c)
        /\ UNCHANGED <<store, place, told, broken, faults>> /\ pc[c] = "look"
    BY <1>2, TypeParts DEF IInv, WorkOrder, Look, history
  <2>2. TypedLocals' /\ Others(c) /\ pc'[c] = "link"
    BY <1>2, <2>1 DEF TypedLocals, Others, Goto
  <2>3. AtWork(c)'
    BY <1>2, <2>1, <2>2 DEF AtWork, PutPcs, ReadyPcs, ShardPcs, CopyPcs, store
  <2>4. \A x \in Settled(c)' : Present(x) /\ (Intact(x) \/ x \in struck'[c])
    BY <1>2, <2>1, <2>2, SamePut DEF IInv, SettledHolds, PutPcs
  <2>5. QED
    BY <2>1, <2>2, <2>3, <2>4, LocalStep
<1>3. QED
  BY <1>1, <1>2 DEF Look

\* _install looks whether the shard directory is there.
LEMMA LookShardStep ==
  ASSUME NEW c \in Clients, IInv, LookShard(c)
  PROVE  IInv'
<1>1. /\ TypedLocals /\ told \subseteq Names /\ faults \in 0..MaxFaults /\ pc[c] = "shard"
      /\ AtWork(c) /\ UNCHANGED <<store, place, told, broken, faults>>
      /\ UNCHANGED <<job, todo, cur, temp, safe, target, struck>>
  BY TypeParts DEF IInv, WorkOrder, LookShard, history
<1>2. /\ TypedLocals' /\ Others(c) /\ pc'[c] \in {"mkdir", "look"}
      /\ pc'[c] = "look" => shards[ShardOf[cur[c]]] # "none"
  BY <1>1 DEF TypedLocals, Others, Goto, LookShard
<1>3. AtWork(c)'
  BY <1>1, <1>2 DEF AtWork, PutPcs, ReadyPcs, ShardPcs, CopyPcs, store
<1>4. \A x \in Settled(c)' : Present(x) /\ (Intact(x) \/ x \in struck'[c])
  BY <1>1, <1>2, SamePut DEF IInv, SettledHolds, PutPcs
<1>5. QED
  BY <1>1, <1>2, <1>3, <1>4, LocalStep

\* mkdir of the shard: its maker is about to fsync the parent.
LEMMA MakeShardStep ==
  ASSUME NEW c \in Clients, IInv, MakeShard(c)
  PROVE  IInv'
<1> DEFINE sh == ShardOf[cur[c]]
<1>1. /\ TypedLocals /\ AtWork(c) /\ pc[c] = "mkdir" /\ pc[c] \in PutPcs /\ pc[c] \in ReadyPcs
      /\ UNCHANGED <<bytes, flushed, entered, place, told, broken, faults>>
      /\ UNCHANGED <<job, todo, cur, temp, safe, target, struck>>
      /\ shards \in [Shards -> {"none", "made", "kept"}]
  BY TypeParts DEF IInv, WorkOrder, MakeShard, history, PutPcs, ReadyPcs
<1>2. cur[c] \in Names /\ sh \in Shards
  BY <1>1, CurIsName, ArchiveAssumption
<1>3. /\ shards' \in [Shards -> {"none", "made", "kept"}]
      /\ shards'[sh] # "none"
      /\ \A x \in Shards : x # sh => shards'[x] = shards[x]
      /\ shards[sh] # "none" => shards' = shards
      /\ pc'[c] = "parent"
  BY <1>1, <1>2 DEF MakeShard, Goto, TypedLocals
<1>4. TypedLocals' /\ Others(c) /\ pc'[c] = "parent"
  BY <1>1, <1>3 DEF TypedLocals, Others, Goto, MakeShard
<1>5. TypeOK'
  BY <1>1, <1>3, <1>4, TypeParts DEF IInv, TypeOK, TypedLocals
<1>6. AtWork(c)'
  BY <1>1, <1>3, <1>4 DEF AtWork, PutPcs, ReadyPcs, ShardPcs, CopyPcs
<1>7. WorkOrder'
  BY <1>1, <1>3, <1>4, <1>6, WorkStep DEF IInv
<1>8. SettledHolds'
  <2>1. \A x \in Settled(c)' : Present(x)' /\ (Intact(x)' \/ x \in struck'[c])
    BY <1>1, <1>4, SamePut DEF IInv, SettledHolds, PutPcs, Present, Intact
  <2>2. BytesStay
    BY <1>1 DEF BytesStay
  <2>3. QED
    BY <1>1, <1>4, <2>1, <2>2, SettledStep DEF IInv
<1>9. NeverPartial' /\ WholeFiles' /\ EntriesOfPresent' /\ ExportedWhole'
  BY <1>1 DEF IInv, NeverPartial, WholeFiles, EntriesOfPresent, Present, ExportedWhole
<1>10. HasShard'
  BY <1>1, <1>3, ArchiveAssumption DEF IInv, HasShard, Present
<1>11. EntryPending'
  <2> SUFFICES ASSUME NEW n \in Names, Present(n)', n \notin entered', ~ broken'
               PROVE  \E d \in Clients : pc'[d] = "sync" /\ cur'[d] = n
    BY DEF EntryPending
  <2>1. PICK d \in Clients : pc[d] = "sync" /\ cur[d] = n
    BY <1>1 DEF IInv, EntryPending, Present
  <2>2. QED
    BY <1>1, <1>4, <2>1 DEF Others
<1>12. ShardPending'
  <2> SUFFICES ASSUME NEW x \in Shards, shards'[x] = "made", ~ broken'
               PROVE  \E d \in Clients : pc'[d] = "parent" /\ ShardOf[cur'[d]] = x
    BY DEF ShardPending
  <2>1. CASE shards[x] = "made"
    <3>1. PICK d \in Clients : pc[d] = "parent" /\ ShardOf[cur[d]] = x
      BY <1>1, <2>1 DEF IInv, ShardPending
    <3>2. QED
      BY <1>1, <1>4, <3>1 DEF Others
  <2>2. CASE shards[x] # "made"
    BY <1>1, <1>3, <2>2
  <2>3. QED
    BY <2>1, <2>2
<1>13. QED
  BY <1>5, <1>7, <1>8, <1>9, <1>10, <1>11, <1>12 DEF IInv

\* The directory above the new shard is fsynced.
LEMMA SyncParentStep ==
  ASSUME NEW c \in Clients, IInv, SyncParent(c)
  PROVE  IInv'
<1>1. /\ TypedLocals /\ AtWork(c) /\ pc[c] = "parent"
      /\ pc[c] \in PutPcs /\ pc[c] \in ReadyPcs /\ pc[c] \in ShardPcs
      /\ UNCHANGED <<bytes, flushed, entered, place, told, broken, faults>>
      /\ UNCHANGED <<job, todo, cur, temp, safe, target, struck>>
      /\ shards \in [Shards -> {"none", "made", "kept"}]
  BY TypeParts DEF IInv, WorkOrder, SyncParent, history, PutPcs, ReadyPcs, ShardPcs
<1>2. cur[c] \in Names /\ ShardOf[cur[c]] \in Shards
  BY <1>1, CurIsName, ArchiveAssumption
<1>3. /\ shards' \in [Shards -> {"none", "made", "kept"}]
      /\ \A x \in Shards : shards[x] # "none" => shards'[x] # "none"
      /\ \A x \in Shards : shards'[x] = "made" =>
                             shards[x] = "made" /\ x # ShardOf[cur[c]]
  BY <1>1, <1>2, ArchiveAssumption DEF SyncParent
<1>4. TypedLocals' /\ Others(c) /\ pc'[c] = "look"
  BY <1>1 DEF TypedLocals, Others, Goto, SyncParent
<1>5. TypeOK'
  BY <1>1, <1>3, <1>4, TypeParts DEF IInv, TypeOK, TypedLocals
<1>6. AtWork(c)'
  BY <1>1, <1>2, <1>3, <1>4 DEF AtWork, PutPcs, ReadyPcs, ShardPcs, CopyPcs
<1>7. WorkOrder'
  BY <1>1, <1>3, <1>4, <1>6, WorkStep DEF IInv
<1>8. SettledHolds'
  <2>1. \A x \in Settled(c)' : Present(x)' /\ (Intact(x)' \/ x \in struck'[c])
    BY <1>1, <1>4, SamePut DEF IInv, SettledHolds, PutPcs, Present, Intact
  <2>2. BytesStay
    BY <1>1 DEF BytesStay
  <2>3. QED
    BY <1>1, <1>4, <2>1, <2>2, SettledStep DEF IInv
<1>9. NeverPartial' /\ WholeFiles' /\ EntriesOfPresent' /\ ExportedWhole'
  BY <1>1 DEF IInv, NeverPartial, WholeFiles, EntriesOfPresent, Present, ExportedWhole
<1>10. HasShard'
  BY <1>1, <1>3, ArchiveAssumption DEF IInv, HasShard, Present
<1>11. EntryPending'
  <2> SUFFICES ASSUME NEW n \in Names, Present(n)', n \notin entered', ~ broken'
               PROVE  \E d \in Clients : pc'[d] = "sync" /\ cur'[d] = n
    BY DEF EntryPending
  <2>1. PICK d \in Clients : pc[d] = "sync" /\ cur[d] = n
    BY <1>1 DEF IInv, EntryPending, Present
  <2>2. QED
    BY <1>1, <1>4, <2>1 DEF Others
<1>12. ShardPending'
  <2> SUFFICES ASSUME NEW x \in Shards, shards'[x] = "made", ~ broken'
               PROVE  \E d \in Clients : pc'[d] = "parent" /\ ShardOf[cur'[d]] = x
    BY DEF ShardPending
  <2>1. PICK d \in Clients : pc[d] = "parent" /\ ShardOf[cur[d]] = x
    BY <1>1, <1>3 DEF IInv, ShardPending
  <2>2. QED
    BY <1>1, <1>3, <1>4, <2>1 DEF Others
<1>13. QED
  BY <1>5, <1>7, <1>8, <1>9, <1>10, <1>11, <1>12 DEF IInv


\* os.link publishes a file that was fsynced, by a client that fsyncs its entry next.
LEMMA LinkStep ==
  ASSUME NEW c \in Clients, IInv, Link(c)
  PROVE  IInv'
<1>1. /\ TypedLocals /\ AtWork(c) /\ pc[c] = "link" /\ UNCHANGED place
      /\ pc[c] \in PutPcs /\ pc[c] \in ReadyPcs /\ pc[c] \in ShardPcs
      /\ bytes \in [Names -> Names \cup {Absent, Torn, Damaged}] /\ flushed \subseteq Names
  BY TypeParts DEF IInv, WorkOrder, Link, PutPcs, ReadyPcs, ShardPcs
<1>2. /\ cur[c] \in Names /\ ShardOf[cur[c]] \in Shards /\ shards[ShardOf[cur[c]]] # "none"
      /\ temp[c] = cur[c] /\ safe[c]
  BY <1>1, CurIsName, ArchiveAssumption DEF AtWork
<1>3. CASE Found(c) /\ UNCHANGED store
  BY <1>1, <1>3, FoundStep
<1>4. ASSUME ~ Present(cur[c]), bytes' = [bytes EXCEPT ![cur[c]] = temp[c]],
             flushed' = flushed \cup {cur[c]}, Goto(c, "sync"),
             UNCHANGED <<entered, shards, job, todo, cur, temp, safe, target, struck, history>>
      PROVE  IInv'
  <2>1. /\ \A n \in Names \ {cur[c]} : bytes'[n] = bytes[n]
        /\ bytes'[cur[c]] = cur[c]
        /\ bytes' \in [Names -> Names \cup {Absent, Torn, Damaged}]
        /\ cur[c] # Absent
    BY <1>1, <1>2, <1>4, ArchiveAssumption
  <2>2. TypedLocals' /\ Others(c) /\ pc'[c] = "sync"
    BY <1>1, <1>4 DEF TypedLocals, Others, Goto
  <2>3. TypeOK'
    BY <1>1, <1>2, <1>4, <2>1, <2>2, TypeParts DEF IInv, TypeOK, TypedLocals, history
  <2>4. AtWork(c)'
    BY <1>1, <1>2, <1>4, <2>2 DEF AtWork, PutPcs, ReadyPcs, ShardPcs, CopyPcs
  <2>5. WorkOrder'
    BY <1>1, <1>4, <2>2, <2>4, WorkStep DEF IInv
  <2>6. BytesStay
    BY <1>4, <2>1 DEF BytesStay
  <2>7. SettledHolds'
    <3>1. Settled(c)' \subseteq Settled(c) \cup {cur[c]}
      BY <1>1, <1>4, <2>2 DEF Settled, PutPcs
    <3>2. Settled(c) \subseteq Names
      BY <1>1, SettledNames
    <3>3. \A x \in Settled(c)' : Present(x)' /\ (Intact(x)' \/ x \in struck'[c])
      <4> SUFFICES ASSUME NEW x \in Settled(c)'
                   PROVE  Present(x)' /\ (Intact(x)' \/ x \in struck'[c])
        OBVIOUS
      <4>1. CASE x = cur[c]
        BY <2>1, <4>1 DEF Present, Intact
      <4>2. CASE x # cur[c]
        <5>1. x \in Settled(c) /\ x \in Names /\ bytes'[x] = bytes[x]
          BY <2>1, <3>1, <3>2, <4>2
        <5>2. Present(x) /\ (Intact(x) \/ x \in struck[c])
          BY <5>1 DEF IInv, SettledHolds
        <5>3. QED
          BY <1>4, <5>1, <5>2 DEF Present, Intact
      <4>3. QED
        BY <4>1, <4>2
    <3>4. QED
      BY <1>1, <2>2, <2>6, <3>3, SettledStep DEF IInv
  <2>8. NeverPartial' /\ WholeFiles' /\ ExportedWhole'
    BY <1>1, <1>2, <1>4, <2>1 DEF IInv, NeverPartial, WholeFiles, Present, ExportedWhole
  <2>9. EntriesOfPresent'
    BY <1>4, <2>1, TypeParts DEF IInv, EntriesOfPresent, Present
  <2>10. HasShard'
    BY <1>2, <1>4, <2>1 DEF IInv, HasShard, Present
  <2>11. EntryPending'
    <3> SUFFICES ASSUME NEW n \in Names, Present(n)', n \notin entered', ~ broken'
                 PROVE  \E d \in Clients : pc'[d] = "sync" /\ cur'[d] = n
      BY DEF EntryPending
    <3>1. CASE n = cur[c]
      BY <1>4, <2>2, <3>1
    <3>2. CASE n # cur[c]
      <4>1. PICK d \in Clients : pc[d] = "sync" /\ cur[d] = n
        BY <1>4, <2>1, <3>2 DEF IInv, EntryPending, Present, history
      <4>2. QED
        BY <1>1, <2>2, <4>1 DEF Others
    <3>3. QED
      BY <3>1, <3>2
  <2>12. ShardPending'
    <3> SUFFICES ASSUME NEW x \in Shards, shards'[x] = "made", ~ broken'
                 PROVE  \E d \in Clients : pc'[d] = "parent" /\ ShardOf[cur'[d]] = x
      BY DEF ShardPending
    <3>1. PICK d \in Clients : pc[d] = "parent" /\ ShardOf[cur[d]] = x
      BY <1>4 DEF IInv, ShardPending, history
    <3>2. QED
      BY <1>1, <2>2, <3>1 DEF Others
  <2>13. QED
    BY <2>3, <2>5, <2>7, <2>8, <2>9, <2>10, <2>11, <2>12 DEF IInv
<1>5. QED
  BY <1>2, <1>3, <1>4 DEF Link

\* The shard directory is fsynced after the link, and the put returns.
LEMMA SyncShardStep ==
  ASSUME NEW c \in Clients, IInv, SyncShard(c)
  PROVE  IInv'
<1>1. /\ TypedLocals /\ AtWork(c) /\ pc[c] = "sync" /\ PutReturns(c)
      /\ pc[c] \in PutPcs /\ UNCHANGED <<bytes, flushed, shards, place>>
  BY TypeParts DEF IInv, WorkOrder, SyncShard, PutPcs
<1>2. cur[c] \in Names
  BY <1>1, CurIsName
<1>3. /\ TypedLocals' /\ Others(c) /\ temp'[c] = Absent
      /\ told' = told \cup {cur[c]} /\ UNCHANGED <<broken, faults>>
      /\ \/ pc'[c] = "idle"
         \/ /\ pc'[c] = "next" /\ cur[c] \in Parts[job[c].snap]
            /\ todo'[c] = todo[c] \ {cur[c]} /\ job'[c] = job[c] /\ struck'[c] = struck[c]
         \/ /\ pc'[c] = "write" /\ cur[c] = Root[job[c].snap] /\ cur'[c] = job[c].snap
            /\ todo'[c] = todo[c] /\ job'[c] = job[c] /\ struck'[c] = struck[c]
  BY <1>1, PutReturnsLocally
<1>4. /\ entered \subseteq entered' /\ entered' \subseteq Names
      /\ \A n \in entered' : Present(n)
      /\ Present(cur[c]) => cur[c] \in entered'
  BY <1>2, TypeParts DEF IInv, SyncShard, EntriesOfPresent
<1>5. TypeOK'
  BY <1>1, <1>2, <1>3, <1>4, TypeParts DEF IInv, TypeOK, TypedLocals
<1>6. AtWork(c)' /\ (pc'[c] = "idle" => Settled(c)' = {})
      /\ Settled(c)' \subseteq Settled(c) \cup {cur[c]}
  BY <1>1, <1>3, AfterPut
<1>7. WorkOrder'
  BY <1>1, <1>3, <1>6, WorkStep DEF IInv
<1>8. SettledHolds'
  <2>1. cur[c] # job[c].snap => cur[c] \in Settled(c)
    BY <1>1 DEF Settled, PutPcs
  <2>2. cur[c] = job[c].snap => pc'[c] = "idle"
    BY <1>1, <1>3, CurIsName, ArchiveAssumption
  <2>3. \A x \in Settled(c)' : Present(x)' /\ (Intact(x)' \/ x \in struck'[c])
    BY <1>1, <1>3, <1>6, <2>1, <2>2 DEF IInv, SettledHolds, Present, Intact
  <2>4. BytesStay
    BY <1>1 DEF BytesStay
  <2>5. QED
    BY <1>1, <1>3, <2>3, <2>4, SettledStep DEF IInv
<1>9. NeverPartial' /\ WholeFiles' /\ EntriesOfPresent' /\ ExportedWhole' /\ HasShard'
  BY <1>1, <1>4 DEF IInv, NeverPartial, WholeFiles, EntriesOfPresent, Present, ExportedWhole, HasShard
<1>10. EntryPending'
  <2> SUFFICES ASSUME NEW n \in Names, Present(n)', n \notin entered', ~ broken'
               PROVE  \E d \in Clients : pc'[d] = "sync" /\ cur'[d] = n
    BY DEF EntryPending
  <2>1. PICK d \in Clients : pc[d] = "sync" /\ cur[d] = n
    BY <1>1, <1>3, <1>4 DEF IInv, EntryPending, Present
  <2>2. d # c
    BY <1>1, <1>4, <2>1 DEF Present
  <2>3. QED
    BY <1>3, <2>1, <2>2 DEF Others
<1>11. ShardPending'
  <2> SUFFICES ASSUME NEW x \in Shards, shards'[x] = "made", ~ broken'
               PROVE  \E d \in Clients : pc'[d] = "parent" /\ ShardOf[cur'[d]] = x
    BY DEF ShardPending
  <2>1. PICK d \in Clients : pc[d] = "parent" /\ ShardOf[cur[d]] = x
    BY <1>1, <1>3 DEF IInv, ShardPending
  <2>2. QED
    BY <1>1, <1>3, <2>1 DEF Others
<1>12. QED
  BY <1>5, <1>7, <1>8, <1>9, <1>10, <1>11 DEF IInv

\* An export's steps before the last are local.
LEMMA ExportLocalStep ==
  ASSUME NEW c \in Clients, IInv, TypedLocals', Others(c), AtWork(c)',
         UNCHANGED <<store, place, history>>, pc[c] \notin {"sync", "parent"}, pc'[c] \in CopyPcs
  PROVE  IInv'
<1>1. Settled(c)' = {}
  BY DEF Settled, PutPcs, CopyPcs
<1>2. told' \subseteq Names /\ faults' \in 0..MaxFaults
  BY TypeParts DEF IInv, history
<1>3. QED
  BY <1>1, <1>2, LocalStep DEF history

\* The steps of an export before it publishes its file.
LEMMA ExportSteps ==
  ASSUME NEW c \in Clients, IInv,
         \/ \E b \in Blobs, x \in Places : StartExport(c, b, x)
         \/ Copy(c) \/ FlushCopy(c) \/ Recheck(c)
  PROVE  IInv'
<1>1. /\ TypedLocals /\ AtWork(c) /\ faults \in 0..MaxFaults
      /\ bytes \in [Names -> Names \cup {Absent, Torn, Damaged}]
  BY TypeParts DEF IInv, WorkOrder
<1>2. ASSUME NEW b \in Blobs, NEW x \in Places, StartExport(c, b, x)
      PROVE  IInv'
  <2>1. TypedLocals' /\ Others(c) /\ pc'[c] = "copy" /\ cur'[c] = b /\ target'[c] = x
    BY <1>1, <1>2 DEF TypedLocals, Others, Goto, StartExport, AllOps, Names
  <2>2. AtWork(c)'
    BY <2>1 DEF AtWork, PutPcs, ReadyPcs, ShardPcs, CopyPcs
  <2>3. QED
    BY <1>2, <2>1, <2>2, ExportLocalStep DEF StartExport, CopyPcs
<1>3. CASE Copy(c)
  <2>1. CASE Ends(c)
    BY <1>1, <1>3, <2>1, EndingStep DEF Copy, history
  <2>2. ASSUME Intact(cur[c]), temp' = [temp EXCEPT ![c] = bytes[cur[c]]], Goto(c, "flush_copy"),
               UNCHANGED <<job, todo, cur, safe, target, struck>>
        PROVE  IInv'
    <3>1. cur[c] \in Blobs /\ target[c] \in Places /\ bytes[cur[c]] = cur[c]
      BY <1>1, <1>3, <2>2 DEF AtWork, CopyPcs, Copy, Intact
    <3>2. TypedLocals' /\ Others(c) /\ pc'[c] = "flush_copy" /\ temp'[c] = cur[c]
      BY <1>1, <2>2, <3>1 DEF TypedLocals, Others, Goto, Names
    <3>3. AtWork(c)'
      BY <2>2, <3>1, <3>2 DEF AtWork, PutPcs, ReadyPcs, ShardPcs, CopyPcs
    <3>4. QED
      BY <1>3, <3>2, <3>3, ExportLocalStep DEF Copy, CopyPcs
  <2>3. QED
    BY <1>3, <2>1, <2>2 DEF Copy
<1>4. CASE FlushCopy(c)
  <2>1. TypedLocals' /\ Others(c) /\ pc'[c] = "recheck" /\ safe'[c]
        /\ UNCHANGED <<cur, target, temp>>
    BY <1>1, <1>4 DEF TypedLocals, Others, Goto, FlushCopy
  <2>2. AtWork(c)'
    BY <1>1, <1>4, <2>1 DEF AtWork, PutPcs, ReadyPcs, ShardPcs, CopyPcs, FlushCopy
  <2>3. QED
    BY <1>4, <2>1, <2>2, ExportLocalStep DEF FlushCopy, CopyPcs
<1>5. CASE Recheck(c)
  <2>1. CASE Ends(c)
    BY <1>1, <1>5, <2>1, EndingStep DEF Recheck, history
  <2>2. ASSUME Goto(c, "replace"), UNCHANGED <<job, todo, cur, temp, safe, target, struck>>
        PROVE  IInv'
    <3>1. TypedLocals' /\ Others(c) /\ pc'[c] = "replace"
      BY <1>1, <2>2 DEF TypedLocals, Others, Goto
    <3>2. AtWork(c)'
      BY <1>1, <1>5, <2>2, <3>1 DEF AtWork, PutPcs, ReadyPcs, ShardPcs, CopyPcs, Recheck
    <3>3. QED
      BY <1>5, <3>1, <3>2, ExportLocalStep DEF Recheck, CopyPcs
  <2>3. QED
    BY <1>5, <2>1, <2>2 DEF Recheck
<1>6. QED
  BY <1>2, <1>3, <1>4, <1>5


\* Ends, whatever else the step does to broken and to place.
LEMMA EndsAnyway ==
  ASSUME NEW c \in Clients, IInv, Ends(c), UNCHANGED <<store, told>>, faults' \in 0..MaxFaults,
         place' \in [Places -> [of : Blobs \cup {Absent}, bytes : Blobs \cup {Absent, Torn},
                                flushed : BOOLEAN]],
         ExportedWhole', broken' \in BOOLEAN,
         (pc[c] \notin {"sync", "parent"} /\ broken' = broken) \/ broken'
  PROVE  IInv'
<1>1. TypedLocals /\ TypedLocals' /\ Others(c) /\ pc'[c] = "idle" /\ temp'[c] = Absent
  BY EndsLocally, TypeParts DEF IInv
<1>2. UNCHANGED <<bytes, flushed, entered, shards>>
  BY DEF store
<1>3. TypeOK'
  BY <1>1, <1>2, TypeParts DEF IInv, TypeOK, TypedLocals
<1>4. AtWork(c)'
  BY <1>1 DEF AtWork, PutPcs, ReadyPcs, ShardPcs, CopyPcs
<1>5. WorkOrder'
  BY <1>1, <1>2, <1>4, WorkStep DEF IInv
<1>6. SettledHolds'
  <2>1. Settled(c)' = {} /\ BytesStay
    BY <1>1, <1>2 DEF Settled, PutPcs, BytesStay
  <2>2. QED
    BY <1>1, <2>1, SettledStep DEF IInv
<1>7. NeverPartial' /\ WholeFiles' /\ EntriesOfPresent' /\ HasShard'
  BY <1>2 DEF IInv, NeverPartial, WholeFiles, EntriesOfPresent, HasShard, Present
<1>8. EntryPending' /\ ShardPending'
  <2>1. CASE broken'
    BY <2>1 DEF EntryPending, ShardPending
  <2>2. CASE pc[c] \notin {"sync", "parent"} /\ broken' = broken
    BY <1>1, <1>2, <2>2, PendingStep DEF IInv
  <2>3. QED
    BY <2>1, <2>2
<1>9. QED
  BY <1>3, <1>5, <1>6, <1>7, <1>8 DEF IInv

\* An export puts its file at the destination.
LEMMA ReplaceStep ==
  ASSUME NEW c \in Clients, IInv, Replace(c)
  PROVE  IInv'
<1>1. /\ AtWork(c) /\ pc[c] = "replace" /\ TypeOK
      /\ place' = [place EXCEPT ![target[c]] =
                     [of |-> cur[c], bytes |-> temp[c], flushed |-> safe[c]]]
      /\ Ends(c) /\ UNCHANGED <<store, told, broken, faults>>
  BY DEF IInv, WorkOrder, Replace, history
<1>2. cur[c] \in Blobs /\ temp[c] = cur[c] /\ safe[c] /\ target[c] \in Places
  BY <1>1 DEF AtWork, CopyPcs
<1>3. safe[c] \in BOOLEAN
  BY <1>1 DEF TypeOK
<1>4. ExportedWhole'
  BY <1>1, <1>2 DEF IInv, ExportedWhole, TypeOK
<1>5. place' \in [Places -> [of : Blobs \cup {Absent}, bytes : Blobs \cup {Absent, Torn},
                             flushed : BOOLEAN]]
  BY <1>1, <1>2, <1>3 DEF TypeOK
<1>6. QED
  BY <1>1, <1>4, <1>5, EndsAnyway DEF TypeOK

\* Faults stay within their bound.
LEMMA FaultCounts ==
  ASSUME TypeOK, Fault
  PROVE  faults' \in 0..MaxFaults
  BY ArchiveAssumption DEF TypeOK, Fault

\* A process dies between two system calls.
LEMMA DieStep ==
  ASSUME NEW c \in Clients, IInv, Die(c)
  PROVE  IInv'
<1>1. /\ TypeOK /\ Fault /\ Ends(c) /\ UNCHANGED <<store, place, told>>
      /\ broken' = (broken \/ pc[c] \in {"parent", "sync"})
  BY DEF IInv, Die
<1>2. faults' \in 0..MaxFaults
  BY <1>1, FaultCounts
<1>3. broken \in BOOLEAN /\ broken' \in BOOLEAN
  BY <1>1 DEF TypeOK
<1>4. (pc[c] \notin {"sync", "parent"} /\ broken' = broken) \/ broken'
  BY <1>1, <1>3
<1>5. ExportedWhole'
  BY <1>1 DEF IInv, ExportedWhole
<1>6. QED
  BY <1>1, <1>2, <1>3, <1>4, <1>5, EndsAnyway DEF TypeOK

\* A stored object is changed by the medium.
LEMMA DamageStep ==
  ASSUME NEW m \in Names, IInv, Damage(m)
  PROVE  IInv'
<1>1. /\ TypedLocals /\ Fault /\ bytes' = [bytes EXCEPT ![m] = Damaged] /\ bytes[m] = m
      /\ struck' = [c \in Clients |-> IF pc[c] = "idle" THEN {} ELSE struck[c] \cup {m}]
      /\ UNCHANGED <<flushed, entered, shards, place, pc, job, todo, cur, temp, safe, target,
                     told, broken>>
      /\ bytes \in [Names -> Names \cup {Absent, Torn, Damaged}]
  BY TypeParts DEF IInv, Damage, Intact
<1>2. /\ \A n \in Names : Present(n)' <=> Present(n)
      /\ \A n \in Names \ {m} : bytes'[n] = bytes[n]
      /\ bytes'[m] = Damaged
      /\ bytes' \in [Names -> Names \cup {Absent, Torn, Damaged}]
  BY <1>1, ArchiveAssumption DEF Present
<1>3. TypedLocals'
  BY <1>1 DEF TypedLocals
<1>4. faults' \in 0..MaxFaults
  BY <1>1, FaultCounts DEF IInv
<1>5. TypeOK'
  BY <1>1, <1>2, <1>3, <1>4, TypeParts DEF IInv, TypeOK, TypedLocals
<1>6. WorkOrder'
  BY <1>1 DEF IInv, WorkOrder, AtWork
<1>7. SettledHolds'
  <2> SUFFICES ASSUME NEW d \in Clients, NEW b \in Settled(d)'
               PROVE  Present(b)' /\ (Intact(b)' \/ b \in struck'[d])
    BY DEF SettledHolds
  <2>1. b \in Settled(d) /\ pc[d] # "idle"
    BY <1>1 DEF Settled, PutPcs
  <2>2. b \in Names
    BY <1>1, <2>1, SettledNames DEF IInv, WorkOrder
  <2>3. Present(b) /\ (Intact(b) \/ b \in struck[d])
    BY <2>1 DEF IInv, SettledHolds
  <2>4. struck'[d] = struck[d] \cup {m}
    BY <1>1, <2>1
  <2>5. QED
    BY <1>2, <2>2, <2>3, <2>4 DEF Intact
<1>8. NeverPartial' /\ WholeFiles' /\ HasShard' /\ ExportedWhole'
  BY <1>1, <1>2 DEF IInv, NeverPartial, WholeFiles, HasShard, ExportedWhole
<1>9. EntriesOfPresent'
  BY <1>1, <1>2, TypeParts DEF IInv, EntriesOfPresent
<1>10. EntryPending'
  BY <1>1, <1>2 DEF IInv, EntryPending
<1>11. ShardPending'
  BY <1>1 DEF IInv, ShardPending
<1>12. QED
  BY <1>5, <1>6, <1>7, <1>8, <1>9, <1>10, <1>11 DEF IInv

\* What a power loss leaves.
PowerLossLeaves(gone, rmdirs, torn, left) ==
  /\ \A n \in Names : Present(n) /\ ShardOf[n] \in rmdirs => n \in gone
  /\ bytes' = [n \in Names |-> IF n \in gone \/ ~ Present(n) THEN Absent
                               ELSE IF n \in torn THEN Torn ELSE bytes[n]]
  /\ flushed' = {n \in Names : Present(n) /\ n \notin gone}
  /\ entered' = flushed'
  /\ shards' = [sh \in Shards |-> IF sh \in rmdirs \/ shards[sh] = "none"
                                  THEN "none" ELSE "kept"]
  /\ place' = [x \in Places |->
                 IF x \notin left THEN Nothing
                 ELSE IF place[x].flushed THEN place[x]
                 ELSE [place[x] EXCEPT !.bytes = Torn]]

\* A power loss takes objects that are not on disk, and no other: what remains is as it was.
LEMMA PowerLossOutcome ==
  ASSUME IInv, PowerLoss
  PROVE  \E gone \in SUBSET {n \in Names : Present(n) /\ ~ OnDisk(n)} :
           /\ \A n \in Names : bytes'[n] = IF n \in gone THEN Absent ELSE bytes[n]
           /\ bytes' \in [Names -> Names \cup {Absent, Torn, Damaged}]
           /\ flushed' = {n \in Names : Present(n) /\ n \notin gone}
           /\ entered' = flushed'
           /\ shards' \in [Shards -> {"none", "kept"}]
           /\ \A n \in Names : Present(n) /\ n \notin gone => shards'[ShardOf[n]] = "kept"
           /\ \A x \in Places : place'[x] \in {Nothing, place[x]}
           /\ place' \in [Places -> [of : Blobs \cup {Absent}, bytes : Blobs \cup {Absent, Torn},
                                     flushed : BOOLEAN]]
<1>1. PICK gone \in SUBSET {n \in Names : Present(n) /\ ~ OnDisk(n)},
           rmdirs \in SUBSET {sh \in Shards : shards[sh] = "made"},
           torn \in SUBSET (Names \ flushed),
           left \in SUBSET Places :
        PowerLossLeaves(gone, rmdirs, torn, left)
  BY DEF PowerLoss, PowerLossLeaves
<1>2. \A n \in Names : bytes'[n] = IF n \in gone THEN Absent ELSE bytes[n]
  BY <1>1 DEF PowerLossLeaves, IInv, WholeFiles, Present
<1>3. bytes' \in [Names -> Names \cup {Absent, Torn, Damaged}]
  BY <1>1 DEF PowerLossLeaves, IInv, TypeOK
<1>4. flushed' = {n \in Names : Present(n) /\ n \notin gone} /\ entered' = flushed'
  BY <1>1 DEF PowerLossLeaves
<1>5. shards' \in [Shards -> {"none", "kept"}]
  BY <1>1 DEF PowerLossLeaves
<1>6. \A n \in Names : Present(n) /\ n \notin gone => shards'[ShardOf[n]] = "kept"
  <2> SUFFICES ASSUME NEW n \in Names, Present(n), n \notin gone
               PROVE  shards'[ShardOf[n]] = "kept"
    OBVIOUS
  <2>1. ShardOf[n] \in Shards /\ ShardOf[n] \notin rmdirs /\ shards[ShardOf[n]] # "none"
    BY <1>1, ArchiveAssumption DEF PowerLossLeaves, IInv, HasShard
  <2>2. QED
    BY <1>1, <2>1 DEF PowerLossLeaves
<1>7. \A x \in Places : place'[x] \in {Nothing, place[x]}
  BY <1>1 DEF PowerLossLeaves, IInv, ExportedWhole
<1>8. place' \in [Places -> [of : Blobs \cup {Absent}, bytes : Blobs \cup {Absent, Torn},
                             flushed : BOOLEAN]]
  <2>1. Nothing \in [of : Blobs \cup {Absent}, bytes : Blobs \cup {Absent, Torn},
                     flushed : BOOLEAN]
    BY DEF Nothing
  <2> DEFINE Left(x) == IF x \notin left THEN Nothing
                        ELSE IF place[x].flushed THEN place[x]
                        ELSE [place[x] EXCEPT !.bytes = Torn]
  <2>2. place' = [x \in Places |-> Left(x)]
    BY <1>1 DEF PowerLossLeaves
  <2>3. \A x \in Places : Left(x) \in {Nothing, place[x]}
    BY DEF IInv, ExportedWhole
  <2>4. QED
    BY <2>1, <2>2, <2>3 DEF IInv, TypeOK
<1>9. QED
  BY <1>1, <1>2, <1>3, <1>4, <1>5, <1>6, <1>7, <1>8

\* After a power loss every client is gone and the rest of the invariant holds.
LEMMA PowerLossStep ==
  ASSUME IInv, PowerLoss
  PROVE  IInv'
<1>1. PICK gone \in SUBSET {n \in Names : Present(n) /\ ~ OnDisk(n)} :
           /\ \A n \in Names : bytes'[n] = IF n \in gone THEN Absent ELSE bytes[n]
           /\ bytes' \in [Names -> Names \cup {Absent, Torn, Damaged}]
           /\ flushed' = {n \in Names : Present(n) /\ n \notin gone}
           /\ entered' = flushed'
           /\ shards' \in [Shards -> {"none", "kept"}]
           /\ \A n \in Names : Present(n) /\ n \notin gone => shards'[ShardOf[n]] = "kept"
           /\ \A x \in Places : place'[x] \in {Nothing, place[x]}
           /\ place' \in [Places -> [of : Blobs \cup {Absent}, bytes : Blobs \cup {Absent, Torn},
                                     flushed : BOOLEAN]]
  BY PowerLossOutcome
<1>2. /\ TypeOK /\ Fault /\ broken' = FALSE /\ told' = told
      /\ pc' = [c \in Clients |-> "idle"] /\ job' = [c \in Clients |-> NoJob]
      /\ todo' = [c \in Clients |-> {}] /\ cur' = [c \in Clients |-> Absent]
      /\ temp' = [c \in Clients |-> Absent] /\ safe' = [c \in Clients |-> FALSE]
      /\ target' = [c \in Clients |-> Absent] /\ struck' = [c \in Clients |-> {}]
  BY DEF IInv, PowerLoss
<1>3. TypedLocals'
  BY <1>2 DEF TypedLocals, NoJob
<1>4. faults' \in 0..MaxFaults
  BY <1>2, FaultCounts
<1>5. TypeOK'
  BY <1>1, <1>2, <1>3, <1>4 DEF TypeOK, TypedLocals
<1>6. WorkOrder' /\ SettledHolds'
  BY <1>2 DEF WorkOrder, AtWork, SettledHolds, Settled, PutPcs, ReadyPcs, ShardPcs, CopyPcs
<1>7. \A n \in Names : Present(n)' <=> (Present(n) /\ n \notin gone)
  BY <1>1 DEF Present
<1>8. NeverPartial'
  BY <1>1 DEF IInv, NeverPartial
<1>9. WholeFiles' /\ EntriesOfPresent' /\ HasShard'
  BY <1>1, <1>7 DEF WholeFiles, EntriesOfPresent, HasShard
<1>10. EntryPending'
  BY <1>1, <1>7 DEF EntryPending
<1>11. ShardPending'
  BY <1>1 DEF ShardPending
<1>12. ExportedWhole'
  BY <1>1 DEF IInv, ExportedWhole, Nothing
<1>13. QED
  BY <1>5, <1>6, <1>8, <1>9, <1>10, <1>11, <1>12 DEF IInv


-----------------------------------------------------------------------------
(***************************************************************************)
(* The theorems.                                                           *)
(***************************************************************************)
LEMMA InitIInv == Init => IInv
<1> SUFFICES ASSUME Init PROVE IInv
  OBVIOUS
<1>1. TypeOK
  <2>1. TypedLocals
    BY DEF Init, TypedLocals, NoJob
  <2>2. faults \in 0..MaxFaults
    BY ArchiveAssumption DEF Init
  <2>3. place \in [Places -> [of : Blobs \cup {Absent}, bytes : Blobs \cup {Absent, Torn},
                             flushed : BOOLEAN]]
    BY DEF Init, Nothing
  <2>4. bytes \in [Names -> Names \cup {Absent, Torn, Damaged}]
    BY DEF Init
  <2>5. shards \in [Shards -> {"none", "made", "kept"}]
    BY DEF Init
  <2>6. QED
    BY <2>1, <2>2, <2>3, <2>4, <2>5, TypeParts DEF Init
<1>2. WorkOrder /\ SettledHolds
  BY DEF Init, WorkOrder, AtWork, SettledHolds, Settled, PutPcs, ReadyPcs, ShardPcs, CopyPcs
<1>3. NeverPartial /\ WholeFiles /\ EntriesOfPresent /\ HasShard /\ EntryPending
  BY DEF Init, NeverPartial, WholeFiles, EntriesOfPresent, HasShard, EntryPending, Present
<1>4. ShardPending /\ ExportedWhole
  BY DEF Init, ShardPending, ExportedWhole, Nothing
<1>5. QED
  BY <1>1, <1>2, <1>3, <1>4 DEF IInv

\* Every step keeps the inductive invariant.
LEMMA NextIInv == IInv /\ [Next]_vars => IInv'
<1> SUFFICES ASSUME IInv, [Next]_vars PROVE IInv'
  OBVIOUS
<1>1. ASSUME NEW c \in Clients, NEW op \in AllOps, NEW s \in Snaps, Begin(c, op, s)
      PROVE  IInv'
  BY <1>1, BeginStep
<1>2. ASSUME NEW c \in Clients, Verify(c)
      PROVE  IInv'
  BY <1>2, VerifyStep
<1>3. ASSUME NEW c \in Clients, Put(c)
      PROVE  IInv'
  BY <1>3, NextPutStep, WriteTempStep, FlushTempStep, LookShardStep, MakeShardStep, SyncParentStep,
     LookStep, LinkStep, SyncShardStep DEF Put
<1>4. ASSUME NEW c \in Clients, Export(c) \/ \E b \in Blobs, x \in Places : StartExport(c, b, x)
      PROVE  IInv'
  BY <1>4, ExportSteps, ReplaceStep DEF Export
<1>5. ASSUME NEW c \in Clients, Die(c)
      PROVE  IInv'
  BY <1>5, DieStep
<1>6. ASSUME NEW n \in Names, Damage(n)
      PROVE  IInv'
  BY <1>6, DamageStep
<1>7. CASE PowerLoss
  BY <1>7, PowerLossStep
<1>8. CASE UNCHANGED vars
  <2>1. TypeOK' /\ WorkOrder'
    BY <1>8 DEF vars, store, local, history, IInv, TypeOK, WorkOrder, AtWork
  <2>2. \A d \in Clients : Settled(d)' = Settled(d)
    BY <1>8 DEF vars, store, local, history, Settled
  <2>3. SettledHolds'
    BY <1>8, <2>2 DEF vars, store, local, history, IInv, SettledHolds, Present, Intact
  <2>4. NeverPartial' /\ WholeFiles' /\ EntriesOfPresent' /\ HasShard' /\ ExportedWhole'
    BY <1>8 DEF vars, store, local, history, IInv, NeverPartial, WholeFiles, EntriesOfPresent,
                HasShard, ExportedWhole, Present
  <2>5. EntryPending' /\ ShardPending'
    BY <1>8 DEF vars, store, local, history, IInv, EntryPending, ShardPending, Present
  <2>6. QED
    BY <2>1, <2>3, <2>4, <2>5 DEF IInv
<1>9. QED
  BY <1>1, <1>2, <1>3, <1>4, <1>5, <1>6, <1>7, <1>8 DEF Next

\* The inductive invariant of the store holds in every reachable state.
THEOREM Inductive == Spec => []IInv
BY InitIInv, NextIInv, PTL DEF Spec

\* Type correctness.
THEOREM TypeCorrect == Spec => []TypeOK
<1>1. IInv => TypeOK
  BY DEF IInv
<1>2. QED
  BY <1>1, Inductive, PTL

\* No crash leaves a partial object under a final name (_install): the file is
\* fsynced before os.link gives it the name.
THEOREM FinalNamesWhole == Spec => []NeverPartial
<1>1. IInv => NeverPartial
  BY DEF IInv
<1>2. QED
  BY <1>1, Inductive, PTL

\* What is published has its directory entry on disk, or somebody about to
\* fsync it, unless that client died (_install, _fsync_directory).
THEOREM QuietOnDisk == Spec => []QuietIsOnDisk
<1>1. ASSUME IInv PROVE QuietIsOnDisk
  <2> SUFFICES ASSUME NEW n \in Names, Present(n), ~ OnDisk(n), ~ broken
               PROVE  \E c \in Clients : \/ pc[c] = "sync" /\ cur[c] = n
                                         \/ pc[c] = "parent" /\ ShardOf[cur[c]] = ShardOf[n]
    BY DEF QuietIsOnDisk
  <2>1. CASE n \notin entered
    BY <1>1, <2>1 DEF IInv, EntryPending
  <2>2. CASE n \in entered
    <3>1. ShardOf[n] \in Shards /\ shards[ShardOf[n]] = "made"
      BY <1>1, <2>2, ArchiveAssumption DEF IInv, TypeOK, HasShard, OnDisk
    <3>2. QED
      BY <1>1, <3>1 DEF IInv, ShardPending
  <2>3. QED
    BY <2>1, <2>2
<1>2. QED
  BY <1>1, Inductive, PTL

\* An exported file has the bytes of the digest that was asked for (export()).
THEOREM ExportsAreIntact == Spec => []ExportsIntact
<1>1. IInv => ExportsIntact
  BY DEF IInv, ExportedWhole, ExportsIntact
<1>2. QED
  BY <1>1, Inductive, PTL


\* What a step does to what is stored.
LEMMA StoreSteps ==
  ASSUME IInv, [Next]_vars
  PROVE  \/ UNCHANGED store
         \/ \E c \in Clients : MakeShard(c) \/ SyncParent(c) \/ SyncShard(c)
         \/ \E c \in Clients : Link(c)
         \/ \E n \in Names : Damage(n)
         \/ PowerLoss
<1>1. ASSUME NEW c \in Clients
      PROVE  /\ \A op \in AllOps, s \in Snaps : Begin(c, op, s) => UNCHANGED store
             /\ \A b \in Blobs, x \in Places : StartExport(c, b, x) => UNCHANGED store
             /\ Verify(c) \/ NextPut(c) \/ WriteTemp(c) \/ FlushTemp(c) => UNCHANGED store
             /\ LookShard(c) \/ Look(c) => UNCHANGED store
             /\ Export(c) \/ Die(c) => UNCHANGED store
  BY DEF Begin, StartExport, Verify, NextPut, WriteTemp, FlushTemp, LookShard, Look, Export, Copy,
         FlushCopy, Recheck, Replace, Die
<1>2. UNCHANGED vars => UNCHANGED store
  BY DEF vars
<1>3. QED
  BY <1>1, <1>2 DEF Next, Put

\* os.link publishes an object under a name that was free, or changes nothing stored.
LEMMA LinkEffect ==
  ASSUME IInv, NEW c \in Clients, Link(c)
  PROVE  \/ UNCHANGED store
         \/ /\ pc[c] = "link" /\ cur[c] \in Names /\ ~ Present(cur[c])
            /\ bytes' = [bytes EXCEPT ![cur[c]] = cur[c]]
            /\ UNCHANGED <<entered, shards>>
<1>1. TypedLocals /\ AtWork(c) /\ pc[c] = "link" /\ pc[c] \in PutPcs /\ pc[c] \in ReadyPcs
  BY TypeParts DEF IInv, WorkOrder, Link, PutPcs, ReadyPcs
<1>2. cur[c] \in Names /\ temp[c] = cur[c]
  BY <1>1, CurIsName DEF AtWork
<1>3. QED
  BY <1>1, <1>2 DEF Link

\* A record certifies blobs that are there and, but for damage done since the
\* call began, intact (put_snapshot, snapshot_staged_input).
THEOREM RecordsCertify == Spec => CertifiesIntact
<1> DEFINE Certified(s) ==
      \E c \in Clients :
         /\ pc[c] = "link" /\ cur[c] = s
         /\ \A b \in Covers(s) : Present(b) /\ (Intact(b) \/ b \in struck[c])
<1>1. ASSUME IInv, [Next]_vars, NEW s \in Snaps, ~ Present(s), Present(s)'
      PROVE  Certified(s)
  <2>1. s \in Names
    BY DEF Names
  <2>2. CASE UNCHANGED store
    BY <1>1, <2>2 DEF store, Present
  <2>3. CASE \E c \in Clients : MakeShard(c) \/ SyncParent(c) \/ SyncShard(c)
    BY <1>1, <2>3 DEF MakeShard, SyncParent, SyncShard, Present
  <2>4. ASSUME NEW c \in Clients, Link(c), bytes' # bytes
        PROVE  Certified(s)
    <3>1. pc[c] = "link" /\ cur[c] = s
      BY <1>1, <2>1, <2>4, LinkEffect DEF store, IInv, TypeOK, Present
    <3>2. job[c].snap \in Snaps /\ s \in Covers(job[c].snap) \cup {job[c].snap}
          /\ Covers(job[c].snap) \subseteq Blobs
      BY <1>1, <3>1, CurIsName, TypeParts DEF IInv, WorkOrder, PutPcs
    <3>3. job[c].snap = s
      BY <3>2, ArchiveAssumption
    <3>4. Settled(c) = Covers(s)
      BY <3>1, <3>3 DEF Settled, PutPcs
    <3>5. \A b \in Covers(s) : Present(b) /\ (Intact(b) \/ b \in struck[c])
      BY <1>1, <3>4 DEF IInv, SettledHolds
    <3>6. QED
      BY <3>1, <3>5
  <2>5. CASE \E n \in Names : Damage(n)
    BY <1>1, <2>1, <2>5, ArchiveAssumption DEF Damage, Intact, IInv, TypeOK, Present
  <2>6. CASE PowerLoss
    BY <1>1, <2>1, <2>6, PowerLossOutcome DEF Present
  <2>7. bytes' # bytes
    BY <1>1 DEF Present
  <2>8. QED
    BY <1>1, <2>2, <2>3, <2>4, <2>5, <2>6, <2>7, StoreSteps
<1>2. IInv /\ [Next]_vars => [\A s \in Snaps : ~ Present(s) /\ Present(s)' => Certified(s)]_vars
  BY <1>1
<1>3. QED
  BY <1>2, Inductive, PTL DEF Spec, CertifiesIntact

-----------------------------------------------------------------------------
(***************************************************************************)
(* The store implements its contract.                                      *)
(***************************************************************************)
Condition == [n \in Names |-> IF ~ Present(n) THEN "absent"
                              ELSE IF Intact(n) THEN "intact" ELSE "damaged"]
Kept == {n \in Names : OnDisk(n)}

\* What the contract calls held is what is under a final name.
LEMMA HeldIsPresent == Contract!Held = {n \in Names : Present(n)}
  BY DEF Contract!Held

\* What is on disk only grows, while the bytes stay.
LEMMA ReachesDisk ==
  ASSUME UNCHANGED bytes, entered \subseteq entered',
         \A sh \in Shards : shards[sh] = "kept" => shards'[sh] = "kept"
  PROVE  Contract!ReachDisk
<1>1. Condition' = Condition
  BY DEF Condition, Present, Intact
<1>2. Kept' \subseteq {n \in Names : Present(n)}
  BY DEF Kept, OnDisk, Present
<1>3. Kept \subseteq Kept'
  BY ArchiveAssumption DEF Kept, OnDisk, Present
<1>4. QED
  BY <1>1, <1>2, <1>3, HeldIsPresent DEF Contract!ReachDisk, Condition, Kept

\* Every step is one of the contract, or changes nothing it speaks of.
LEMMA ContractStep ==
  ASSUME IInv, [Next]_vars
  PROVE  [Contract!Next]_<<Condition, Kept>>
<1>1. CASE UNCHANGED store
  <2>1. Condition' = Condition /\ Kept' = Kept
    BY <1>1 DEF Condition, Kept, store, Present, Intact, OnDisk
  <2>2. QED
    BY <2>1
<1>2. ASSUME NEW c \in Clients, MakeShard(c) \/ SyncParent(c) \/ SyncShard(c)
      PROVE  Contract!Next
  <2>1. UNCHANGED bytes /\ entered \subseteq entered'
    BY <1>2 DEF MakeShard, SyncParent, SyncShard
  <2>2. ASSUME NEW sh \in Shards, shards[sh] = "kept"
        PROVE  shards'[sh] = "kept"
    BY <1>2, <2>2 DEF MakeShard, SyncParent, SyncShard, IInv, TypeOK
  <2>3. QED
    BY <2>1, <2>2, ReachesDisk DEF Contract!Next
<1>3. ASSUME NEW c \in Clients, Link(c), ~ UNCHANGED store
      PROVE  Contract!Next
  <2>1. /\ cur[c] \in Names /\ ~ Present(cur[c])
        /\ bytes' = [bytes EXCEPT ![cur[c]] = cur[c]]
        /\ UNCHANGED <<entered, shards>>
    BY <1>3, LinkEffect
  <2>2. /\ bytes'[cur[c]] = cur[c] /\ \A n \in Names \ {cur[c]} : bytes'[n] = bytes[n]
        /\ cur[c] # Absent
    BY <2>1, ArchiveAssumption DEF IInv, TypeOK
  <2>3. /\ Condition[cur[c]] = "absent"
        /\ Condition' = [Condition EXCEPT ![cur[c]] = "intact"]
    BY <2>1, <2>2 DEF Condition, Present, Intact
  <2>4. Kept' = Kept
    BY <2>1, <2>2 DEF Kept, OnDisk, Present, IInv, EntriesOfPresent
  <2>5. Contract!Publish(cur[c])
    BY <2>3, <2>4 DEF Contract!Publish, Condition, Kept
  <2>6. QED
    BY <2>1, <2>5 DEF Contract!Next
<1>4. ASSUME NEW m \in Names, Damage(m)
      PROVE  Contract!Next
  <2>1. /\ bytes[m] = m /\ bytes'[m] = Damaged /\ UNCHANGED <<entered, shards>>
        /\ \A n \in Names \ {m} : bytes'[n] = bytes[n]
    BY <1>4 DEF Damage, Intact, IInv, TypeOK
  <2>2. m # Absent /\ Damaged # Absent /\ Damaged # m
    BY ArchiveAssumption
  <2>3. Condition[m] = "intact" /\ Condition' = [Condition EXCEPT ![m] = "damaged"]
    BY <2>1, <2>2 DEF Condition, Present, Intact
  <2>4. Kept' = Kept
    BY <2>1, <2>2 DEF Kept, OnDisk, Present
  <2>5. Contract!Rot(m)
    BY <2>3, <2>4 DEF Contract!Rot, Condition, Kept
  <2>6. QED
    BY <2>5 DEF Contract!Next
<1>5. ASSUME PowerLoss
      PROVE  Contract!Next
  <2>1. PICK gone \in SUBSET {n \in Names : Present(n) /\ ~ OnDisk(n)} :
           /\ \A n \in Names : bytes'[n] = IF n \in gone THEN Absent ELSE bytes[n]
           /\ entered' = {n \in Names : Present(n) /\ n \notin gone}
           /\ \A n \in Names : Present(n) /\ n \notin gone => shards'[ShardOf[n]] = "kept"
    BY <1>5, PowerLossOutcome
  <2>2. gone \in SUBSET Contract!Held /\ gone \cap Kept = {}
    BY HeldIsPresent DEF Kept
  <2>3. Condition' = [n \in Names |-> IF n \in gone THEN "absent" ELSE Condition[n]]
    BY <2>1 DEF Condition, Present, Intact
  <2>4. Kept' = {n \in Names : Present(n)} \ gone
    BY <2>1 DEF Kept, OnDisk, Present
  <2>5. Contract!Lose(gone)
    BY <2>2, <2>3, <2>4, HeldIsPresent DEF Contract!Lose, Condition, Kept
  <2>6. QED
    BY <2>2, <2>5 DEF Contract!Next
<1>6. QED
  BY <1>1, <1>2, <1>3, <1>4, <1>5, StoreSteps

\* The store implements its contract: whatever its clients, the medium and the
\* power do, an object is published once, whole, and never changed by the store.
THEOREM ContractImplemented == Spec => KeepsContract
<1>1. Init => Contract!Init
  BY DEF Init, Contract!Init, Present, OnDisk
<1>2. IInv /\ [Next]_vars => [Contract!Next]_<<Condition, Kept>>
  BY ContractStep
<1>3. QED
  BY <1>1, <1>2, Inductive, PTL DEF Spec, KeepsContract, Contract!Spec, Condition, Kept

=============================================================================

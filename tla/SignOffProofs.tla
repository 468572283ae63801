--------------------------- MODULE SignOffProofs ----------------------------
(***************************************************************************)
(* Theorems about a campaign and its journal, the passes that replay and    *)
(* validate records, and the report and its sign-off, for any corpus, lanes, *)
(* plans, ledgers, policies and faults.                                    *)
(***************************************************************************)
EXTENDS SignOff, TLAPS

-----------------------------------------------------------------------------
(***************************************************************************)
(* The campaign's invariant.                                               *)
(***************************************************************************)
IsSeq(s) == s \in Seq(ToSet(s))

IsObservation(o) == DOMAIN o = {"run", "status", "failure", "input", "record", "out"}

Shapes ==
  /\ IsSeq(records) /\ \A i \in DOMAIN records : IsRecord(records[i])
  /\ DOMAIN journal = {"lines", "torn", "hurt"}
  /\ journal.hurt \in BOOLEAN /\ IsSeq(journal.lines)
  /\ DOMAIN camp = {"pc", "mem", "obs", "made"}
  /\ IsSeq(camp.mem)

\* A sealed observation cites a record, of recs, of what it observed.
Backed(o, recs) ==
  /\ o.record \in DOMAIN recs
  /\ LET r == recs[o.record] IN
     <<r.doc, r.lane>> = o.run /\ r.source = corpus.entries[r.doc] /\ r.out = o.out

\* Observations of the campaign's first runs, in its order, each sealed one of a record of its own.
Observations(os, recs) ==
  /\ Len(os) <= Len(Runs)
  /\ \A i \in DOMAIN os :
       /\ os[i].run = Runs[i]
       /\ os[i].status = "sealed" =>
            Backed(os[i], recs) /\ \A j \in DOMAIN os \ {i} : os[j].record # os[i].record
       /\ os[i].status # "sealed" => os[i].record = 0

Working == {"ready", "record", "append"}

JournalKept ==
  /\ journal.lines # <<>> => Head(journal.lines) = Header /\ Observations(Tail(journal.lines), records)
  /\ camp.pc \in Working =>
       journal.torn = FALSE /\ journal.lines # <<>> /\ camp.mem = Tail(journal.lines)
  /\ camp.pc \in {"record", "append"} =>
       /\ IsObservation(camp.obs)
       /\ Len(camp.mem) < Len(Runs) /\ camp.obs.run = Runs[Len(camp.mem) + 1]
  /\ camp.pc = "record" =>
       /\ camp.obs.status = "sealed" /\ camp.obs.record = 0
       /\ camp.obs.input = corpus.entries[camp.obs.run[1]]
  /\ camp.pc = "append" => Observations(Append(camp.mem, camp.obs), records)

CampaignInv ==
  /\ Shapes
  /\ camp.pc = "refused" => journal.hurt
  /\ ~journal.hurt => JournalKept

-----------------------------------------------------------------------------
(***************************************************************************)
(* Sequences.                                                              *)
(***************************************************************************)
\* A sequence of anything is one of its own elements.
LEMMA OwnElements ==
  ASSUME NEW S, NEW s \in Seq(S)
  PROVE  IsSeq(s) /\ Len(s) \in Nat /\ DOMAIN s = 1 .. Len(s)
BY DEF IsSeq, ToSet

\* One element more.
LEMMA Longer ==
  ASSUME NEW s, IsSeq(s), NEW x
  PROVE  /\ IsSeq(Append(s, x))
         /\ Len(s) \in Nat /\ DOMAIN s = 1 .. Len(s)
         /\ Len(Append(s, x)) = Len(s) + 1 /\ DOMAIN Append(s, x) = 1 .. Len(s) + 1
         /\ Append(s, x)[Len(s) + 1] = x
         /\ \A i \in 1 .. Len(s) : Append(s, x)[i] = s[i]
         /\ Append(s, x) # <<>>
<1> DEFINE S == ToSet(s) \cup {x}
<1>1. s \in Seq(S) /\ x \in S
  BY DEF IsSeq
<1>2. Append(s, x) \in Seq(S)
  BY <1>1
<1>3. IsSeq(Append(s, x))
  BY <1>2, OwnElements
<1> HIDE DEF S
<1>4. QED
  BY <1>1, <1>3

\* One element changed.
LEMMA Changed ==
  ASSUME NEW s, IsSeq(s), NEW i \in DOMAIN s, NEW x
  PROVE  IsSeq([s EXCEPT ![i] = x])
<1> DEFINE S == ToSet(s) \cup {x}
<1>1. s \in Seq(S) /\ x \in S
  BY DEF IsSeq
<1>2. [s EXCEPT ![i] = x] \in Seq(S)
  BY <1>1
<1>3. QED
  BY <1>2, OwnElements

\* What comes after the first element.
LEMMA TailFacts ==
  ASSUME NEW s, IsSeq(s), s # <<>>
  PROVE  /\ IsSeq(Tail(s)) /\ Len(s) \in Nat \ {0} /\ Len(Tail(s)) = Len(s) - 1
         /\ DOMAIN Tail(s) = 1 .. Len(s) - 1 /\ Head(s) = s[1]
         /\ \A i \in 1 .. Len(s) - 1 : Tail(s)[i] = s[i + 1]
<1>1. s \in Seq(ToSet(s))
  BY DEF IsSeq
<1>2. Tail(s) \in Seq(ToSet(s)) /\ Len(s) \in Nat \ {0} /\ Len(Tail(s)) = Len(s) - 1
  BY <1>1
<1>3. IsSeq(Tail(s)) /\ DOMAIN Tail(s) = 1 .. Len(s) - 1
  BY <1>2, OwnElements
<1>4. Head(s) = s[1] /\ \A i \in 1 .. Len(s) - 1 : Tail(s)[i] = s[i + 1]
  BY <1>1, <1>2
<1>5. QED
  BY <1>2, <1>3, <1>4

\* The tail of a longer sequence, and of one with a single element.
LEMMA TailOfLonger ==
  ASSUME NEW s, IsSeq(s), NEW x
  PROVE  /\ Head(Append(s, x)) = IF s = <<>> THEN x ELSE Head(s)
         /\ Tail(Append(s, x)) = IF s = <<>> THEN <<>> ELSE Append(Tail(s), x)
<1> DEFINE S == ToSet(s) \cup {x}
<1>1. s \in Seq(S) /\ x \in S
  BY DEF IsSeq
<1>2. QED
  BY <1>1

\* Two lists without repetition, of different elements, one after the other.
LEMMA JoinedApart ==
  ASSUME NEW S, NEW s \in Seq(S), NEW t \in Seq(S), IsInjective(s), IsInjective(t),
         \A m \in DOMAIN s, n \in DOMAIN t : s[m] # t[n]
  PROVE  /\ s \o t \in Seq(S) /\ IsInjective(s \o t)
         /\ \A k \in DOMAIN (s \o t) : (\E m \in DOMAIN s : (s \o t)[k] = s[m]) \/ (\E n \in DOMAIN t : (s \o t)[k] = t[n])
<1> DEFINE u == s \o t
<1>1. /\ u \in Seq(S) /\ Len(s) \in Nat /\ Len(t) \in Nat /\ Len(u) = Len(s) + Len(t)
      /\ DOMAIN s = 1 .. Len(s) /\ DOMAIN t = 1 .. Len(t) /\ DOMAIN u = 1 .. Len(s) + Len(t)
  OBVIOUS
<1>2. \A k \in 1 .. Len(s) : u[k] = s[k]
  OBVIOUS
<1>3. \A k \in Len(s) + 1 .. Len(s) + Len(t) : u[k] = t[k - Len(s)]
  OBVIOUS
<1>4. \A k \in DOMAIN u : \/ k \in DOMAIN s /\ u[k] = s[k]
                          \/ k \notin DOMAIN s /\ k - Len(s) \in DOMAIN t /\ u[k] = t[k - Len(s)]
  BY <1>1, <1>2, <1>3
<1> HIDE DEF u
<1>5. IsInjective(u)
  <2> SUFFICES ASSUME NEW a \in DOMAIN u, NEW b \in DOMAIN u, u[a] = u[b] PROVE a = b
    BY DEF IsInjective
  <2>1. CASE a \in DOMAIN s /\ b \in DOMAIN s
    <3>1. u[a] = s[a] /\ u[b] = s[b]
      BY <1>4, <2>1
    <3>2. QED
      BY <2>1, <3>1 DEF IsInjective
  <2>2. CASE a \notin DOMAIN s /\ b \notin DOMAIN s
    <3>1. a - Len(s) = b - Len(s)
      BY <1>4, <2>2 DEF IsInjective
    <3>2. QED
      BY <1>1, <3>1
  <2>3. QED
    BY <1>4, <2>1, <2>2
<1>6. QED
  BY <1>1, <1>4, <1>5 DEF u

\* The runs are of the corpus's documents on the lanes, and each comes once.
LEMMA RunsFacts ==
  /\ Runs \in Seq((DOMAIN corpus.entries) \X ToSet(LaneOrder))
  /\ IsInjective(Runs)
<1> DEFINE Docs == DOMAIN corpus.entries
           of(p) == IF p \in Docs THEN [i \in DOMAIN LaneOrder |-> <<p, LaneOrder[i]>>] ELSE <<>>
           all == [i \in DOMAIN Paths |-> of(Paths[i])]
           n == Len(Paths)
           Pairs == Docs \X ToSet(LaneOrder)
           St == Joined!Stages(<<>>, all)
           Fine == {i \in 0 .. n : /\ St[i] \in Seq(Pairs) /\ IsInjective(St[i])
                                   /\ \A k \in DOMAIN St[i] : \E j \in 1 .. i : St[i][k][1] = Paths[j]}
<1>1. /\ n \in Nat /\ DOMAIN Paths = 1 .. n /\ IsInjective(Paths)
      /\ LaneOrder \in Seq(ToSet(LaneOrder)) /\ IsInjective(LaneOrder)
  BY CampaignAssumption
<1>2. Len(all) = n /\ \A i \in 1 .. n : all[i] = of(Paths[i])
  BY <1>1
<1>3. ASSUME NEW p PROVE /\ of(p) \in Seq(Pairs) /\ IsInjective(of(p))
                         /\ \A k \in DOMAIN of(p) : of(p)[k][1] = p
  <2>1. CASE p \in Docs
    <3>1. of(p) = [i \in 1 .. Len(LaneOrder) |-> <<p, LaneOrder[i]>>]
      BY <1>1, <2>1
    <3>2. of(p) \in Seq(Pairs)
      BY <1>1, <2>1, <3>1 DEF ToSet
    <3>3. \A k \in DOMAIN of(p) : k \in DOMAIN LaneOrder /\ of(p)[k][1] = p /\ of(p)[k][2] = LaneOrder[k]
      BY <1>1, <3>1
    <3> HIDE DEF of
    <3>4. QED
      BY <1>1, <3>2, <3>3 DEF IsInjective
  <2>2. CASE p \notin Docs
    <3>1. of(p) = <<>> /\ DOMAIN of(p) = {}
      BY <2>2
    <3> HIDE DEF of
    <3>2. QED
      BY <3>1 DEF IsInjective
  <2>3. QED
    BY <2>1, <2>2
<1>4. /\ St[0] = <<>>
      /\ \A i \in 1 .. n : St[i] = St[i - 1] \o all[i]
  <2> HIDE DEF all
  <2>1. Len(all) \in Nat
    BY <1>1, <1>2
  <2>2. /\ Joined!Stages(<<>>, all)[0] = <<>>
        /\ \A i \in 1 .. Len(all) : Joined!Stages(<<>>, all)[i] = Then(Joined!Stages(<<>>, all)[i - 1], all[i])
    BY <2>1, Joined!StagesDefined
  <2>3. QED
    BY <1>2, <2>2 DEF Then
<1>5. Runs = St[n]
  BY <1>2 DEF Runs, Flat, Joined!Folded
<1> HIDE DEF St, all, of
<1>6. 0 \in Fine
  <2>1. 0 \in 0 .. n /\ St[0] \in Seq(Pairs) /\ DOMAIN St[0] = {}
    BY <1>1, <1>4
  <2>2. IsInjective(St[0])
    BY <2>1 DEF IsInjective
  <2>3. QED
    BY <2>1, <2>2
<1>7. ASSUME NEW i \in 0 .. n - 1, i \in Fine PROVE i + 1 \in Fine
  <2> DEFINE s == St[i]
             t == of(Paths[i + 1])
  <2>1. i + 1 \in 1 .. n /\ i + 1 - 1 = i /\ i + 1 \in 0 .. n
    BY <1>1
  <2>2. St[i + 1] = s \o t
    <3> HIDE DEF Fine, Pairs, n
    <3>1. PICK k \in 1 .. n : k = i + 1
      BY <2>1
    <3>2. St[k] = St[k - 1] \o all[k] /\ all[k] = of(Paths[k])
      BY <1>2, <1>4
    <3>3. k - 1 = i
      BY <2>1, <3>1
    <3>4. QED
      BY <3>1, <3>2, <3>3 DEF s, t
  <2>3. /\ s \in Seq(Pairs) /\ IsInjective(s)
        /\ \A k \in DOMAIN s : \E j \in 1 .. i : s[k][1] = Paths[j]
    BY <1>7
  <2>4. /\ t \in Seq(Pairs) /\ IsInjective(t)
        /\ \A k \in DOMAIN t : t[k][1] = Paths[i + 1]
    BY <1>3
  <2> HIDE DEF s, t
  <2>5. \A j \in 1 .. i : Paths[j] # Paths[i + 1] /\ j \in 1 .. i + 1
    BY <1>1, <2>1 DEF IsInjective
  <2>6. \A m \in DOMAIN s, k \in DOMAIN t : s[m] # t[k]
    BY <2>3, <2>4, <2>5
  <2> HIDE DEF Pairs
  <2>7. /\ s \o t \in Seq(Pairs) /\ IsInjective(s \o t)
        /\ \A k \in DOMAIN (s \o t) : (\E m \in DOMAIN s : (s \o t)[k] = s[m]) \/ (\E m \in DOMAIN t : (s \o t)[k] = t[m])
    BY <2>3, <2>4, <2>6, JoinedApart
  <2>8. i + 1 \in 1 .. i + 1
    BY <2>1
  <2>9. \A k \in DOMAIN (s \o t) : \E j \in 1 .. i + 1 : (s \o t)[k][1] = Paths[j]
    <3>1. ASSUME NEW k \in DOMAIN (s \o t), NEW m \in DOMAIN s, (s \o t)[k] = s[m]
          PROVE  \E j \in 1 .. i + 1 : (s \o t)[k][1] = Paths[j]
      BY <2>3, <2>5, <3>1
    <3>2. ASSUME NEW k \in DOMAIN (s \o t), NEW m \in DOMAIN t, (s \o t)[k] = t[m]
          PROVE  \E j \in 1 .. i + 1 : (s \o t)[k][1] = Paths[j]
      BY <2>4, <2>8, <3>2
    <3>3. QED
      BY <2>7, <3>1, <3>2
  <2>10. QED
    BY <2>1, <2>2, <2>7, <2>9
<1>8. 0 .. n \subseteq Fine
  <2> HIDE DEF Fine
  <2>1. QED
    BY <1>1, <1>6, <1>7, Joined!InductiveUpTo
<1>9. QED
  BY <1>1, <1>5, <1>8

-----------------------------------------------------------------------------
(***************************************************************************)
(* Observations.                                                           *)
(***************************************************************************)
\* Nothing of the manifest changes during a campaign.
LEMMA CorpusFixed ==
  ASSUME corpus' = corpus
  PROVE  /\ Runs' = Runs
         /\ \A os, recs : Observations(os, recs)' <=> Observations(os, recs)
<1>1. Runs' = Runs
  BY DEF Runs
<1>2. QED
  BY <1>1 DEF Observations, Backed

\* Records are added, and a record's state may change, never what it is of.
Kept(recs, news) ==
  /\ DOMAIN recs \subseteq DOMAIN news
  /\ \A i \in DOMAIN recs : /\ news[i].doc = recs[i].doc /\ news[i].lane = recs[i].lane
                            /\ news[i].source = recs[i].source /\ news[i].out = recs[i].out
                            /\ news[i].config = recs[i].config

\* What was observed stays so.
LEMMA StillBacked ==
  ASSUME NEW recs, NEW news, Kept(recs, news), NEW os, Observations(os, recs)
  PROVE  Observations(os, news)
BY DEF Kept, Observations, Backed

\* The observation of the next run, of no record or of one that no other cites.
LEMMA OneMore ==
  ASSUME NEW recs, IsSeq(recs), NEW os, IsSeq(os), Observations(os, recs), Len(os) < Len(Runs),
         NEW o, o.run = Runs[Len(os) + 1],
         o.status # "sealed" => o.record = 0,
         o.status = "sealed" => Backed(o, recs) /\ \A j \in DOMAIN os : os[j].record # o.record
  PROVE  Observations(Append(os, o), recs)
<1> DEFINE n == Len(os)
           all == Append(os, o)
<1>1. /\ n \in Nat /\ DOMAIN os = 1 .. n /\ Len(all) = n + 1 /\ DOMAIN all = 1 .. n + 1
      /\ all[n + 1] = o /\ \A i \in 1 .. n : all[i] = os[i]
  BY Longer
<1>2. 0 \notin DOMAIN recs
  BY DEF IsSeq
<1>3. Len(Runs) \in Nat
  BY RunsFacts
<1> HIDE DEF n, all
<1>4. \A i \in 1 .. n + 1 : i \in 1 .. n \/ i = n + 1
  BY <1>1
<1>5. ASSUME NEW i \in 1 .. n
      PROVE  /\ all[i].run = Runs[i]
             /\ all[i].status = "sealed" =>
                  Backed(all[i], recs) /\ \A j \in 1 .. n + 1 : j # i => all[j].record # all[i].record
             /\ all[i].status # "sealed" => all[i].record = 0
  <2>1. os[i].status = "sealed" => os[i].record \in DOMAIN recs /\ os[i].record # o.record
    BY <1>1, <1>2 DEF Observations, Backed
  <2>2. /\ os[i].run = Runs[i]
        /\ os[i].status = "sealed" =>
             Backed(os[i], recs) /\ \A j \in 1 .. n : j # i => os[j].record # os[i].record
        /\ os[i].status # "sealed" => os[i].record = 0
    BY <1>1 DEF Observations
  <2>3. all[i] = os[i]
    BY <1>1
  <2>4. ASSUME os[i].status = "sealed", NEW j \in 1 .. n + 1, j # i PROVE all[j].record # os[i].record
    BY <1>1, <1>4, <2>1, <2>2, <2>4
  <2>5. QED
    BY <2>2, <2>3, <2>4
<1>6. /\ all[n + 1].run = Runs[n + 1]
      /\ all[n + 1].status = "sealed" =>
           Backed(all[n + 1], recs) /\ \A j \in 1 .. n + 1 : j # n + 1 => all[j].record # all[n + 1].record
      /\ all[n + 1].status # "sealed" => all[n + 1].record = 0
  BY <1>1, <1>4 DEF n
<1>7. n + 1 <= Len(Runs)
  BY <1>1, <1>3 DEF n
<1>8. \A i \in 1 .. n + 1 :
       /\ all[i].run = Runs[i]
       /\ all[i].status = "sealed" =>
            Backed(all[i], recs) /\ \A j \in (1 .. n + 1) \ {i} : all[j].record # all[i].record
       /\ all[i].status # "sealed" => all[i].record = 0
  BY <1>4, <1>5, <1>6
<1>9. QED
  BY <1>1, <1>7, <1>8 DEF Observations, all

\* What is pending is what comes after the observations there are.
LEMMA NextPending ==
  ASSUME NEW recs, NEW os, IsSeq(os), Observations(os, recs), NEW n \in Pending(os), \A m \in Pending(os) : n <= m
  PROVE  Len(os) < Len(Runs) /\ n = Len(os) + 1
<1>1. Len(os) \in Nat /\ DOMAIN os = 1 .. Len(os)
  BY Longer
<1>2. Len(Runs) \in Nat /\ DOMAIN Runs = 1 .. Len(Runs) /\ IsInjective(Runs)
  BY RunsFacts
<1>3. n \in DOMAIN Runs /\ \A i \in DOMAIN os : Runs[i] # Runs[n]
  BY DEF Pending, Observations
<1>4. n \notin DOMAIN os
  BY <1>3
<1>5. Len(os) < n /\ Len(os) < Len(Runs)
  BY <1>1, <1>2, <1>3, <1>4
<1>6. Len(os) + 1 \in Pending(os)
  <2>1. Len(os) + 1 \in DOMAIN Runs /\ Len(os) + 1 \notin DOMAIN os /\ DOMAIN os \subseteq DOMAIN Runs
    BY <1>1, <1>2, <1>5
  <2>2. \A i \in DOMAIN os : os[i].run # Runs[Len(os) + 1]
    BY <1>2, <2>1 DEF Observations, IsInjective
  <2>3. QED
    BY <2>1, <2>2 DEF Pending
<1>7. n <= Len(os) + 1
  BY <1>6
<1>8. QED
  BY <1>1, <1>2, <1>3, <1>5, <1>7

-----------------------------------------------------------------------------
(***************************************************************************)
(* The campaign's steps keep its invariant.                                *)
(***************************************************************************)
\* The lines of a new file are not an observation.
LEMMA HeaderFacts == Header.status = "header" /\ Garbled.status = "garbled" /\ Garbled.run = <<>> /\ Header # Garbled
BY DEF Header, Garbled, Line, Observation

\* One line more, to a file without a torn end.
LEMMA AppendedLine ==
  ASSUME NEW j, DOMAIN j = {"lines", "torn", "hurt"}, NEW line
  PROVE  LET new == AppendLine(j, line) IN
         /\ DOMAIN new = {"lines", "torn", "hurt"} /\ new.torn = FALSE /\ new.hurt = j.hurt
         /\ new.lines = Append(j.lines, IF j.torn THEN Garbled ELSE line)
BY DEF AppendLine

\* A pair is not the empty sequence.
LEMMA PairNotEmpty == ASSUME NEW A, NEW B, NEW p \in A \X B PROVE p # <<>>
<1>1. PICK a \in A, b \in B : p = <<a, b>>
  OBVIOUS
<1>2. Len(<<a, b>>) = 2 /\ Len(<<>>) = 0
  OBVIOUS
<1>3. QED
  BY <1>1, <1>2

\* A journal that nobody spoilt can be read.
LEMMA ReadableJournal ==
  ASSUME IsSeq(journal.lines), journal.lines # <<>> =>
           Head(journal.lines) = Header /\ Observations(Tail(journal.lines), records)
  PROVE  Readable(Recovered(journal))
<1> DEFINE lines == journal.lines
<1>1. Recovered(journal).lines = lines
  BY DEF Recovered
<1>2. ASSUME NEW i \in DOMAIN lines PROVE lines[i] # Garbled
  <2>1. lines # <<>>
    BY <1>2
  <2>2. /\ IsSeq(Tail(lines)) /\ Len(lines) \in Nat \ {0} /\ DOMAIN Tail(lines) = 1 .. Len(lines) - 1
        /\ Head(lines) = lines[1] /\ \A k \in 1 .. Len(lines) - 1 : Tail(lines)[k] = lines[k + 1]
    BY <2>1, TailFacts
  <2>3. CASE i = 1
    BY <2>1, <2>2, <2>3, HeaderFacts
  <2>4. CASE i # 1
    <3>1. i - 1 \in 1 .. Len(lines) - 1 /\ i - 1 + 1 = i
      BY <1>2, <2>2, <2>4 DEF IsSeq
    <3>2. lines[i] = Tail(lines)[i - 1] /\ i - 1 \in DOMAIN Tail(lines)
      BY <2>2, <3>1
    <3>3. lines[i].run = Runs[i - 1] /\ Len(Tail(lines)) <= Len(Runs)
      BY <2>1, <3>2 DEF Observations
    <3>4. i - 1 \in DOMAIN Runs
      BY <2>2, <3>1, <3>3, RunsFacts, TailFacts, <2>1
    <3>5. Runs[i - 1] \in (DOMAIN corpus.entries) \X ToSet(LaneOrder)
      BY <3>4, RunsFacts
    <3>6. Runs[i - 1] # <<>>
      BY <3>5, PairNotEmpty, Zenon
    <3>7. QED
      BY <3>3, <3>6, HeaderFacts
  <2>5. QED
    BY <2>3, <2>4
<1>3. QED
  BY <1>1, <1>2 DEF Readable, ToSet

\* A process opens the journal: what it takes for observed is what the journal has.
LEMMA OpenKeeps ==
  ASSUME CampaignInv, OpenJournal
  PROVE  CampaignInv'
<1>1. Shapes /\ (~journal.hurt => JournalKept)
  BY DEF CampaignInv
<1>2. corpus' = corpus /\ records' = records /\ camp.pc = "closed"
  BY DEF OpenJournal
<1> DEFINE j == Recovered(journal)
<1>3. /\ DOMAIN j = {"lines", "torn", "hurt"}
      /\ j.lines = journal.lines /\ j.torn = FALSE /\ j.hurt = journal.hurt
  BY <1>1 DEF Recovered, Shapes
<1> HIDE DEF j
<1>4. CASE Readable(j)
  <2>1. /\ journal' = Opened(j)
        /\ camp' = [camp EXCEPT !.pc = "ready", !.mem = Tail(Opened(j).lines), !.made = FALSE]
    BY <1>4 DEF OpenJournal, j
  <2>2. /\ DOMAIN journal' = {"lines", "torn", "hurt"} /\ journal'.torn = FALSE /\ journal'.hurt = journal.hurt
        /\ journal'.lines = IF journal.lines = <<>> THEN <<Header>> ELSE journal.lines
    <3>1. CASE j.lines = <<>>
      <4>1. journal' = AppendLine(j, Header)
        BY <2>1, <3>1 DEF Opened
      <4>2. Append(<<>>, Header) = <<Header>>
        OBVIOUS
      <4>3. QED
        BY <1>3, <3>1, <4>1, <4>2, AppendedLine
    <3>2. CASE j.lines # <<>>
      BY <1>3, <2>1, <3>2 DEF Opened
    <3>3. QED
      BY <3>1, <3>2
  <2>3. /\ DOMAIN camp' = {"pc", "mem", "obs", "made"}
        /\ camp'.pc = "ready" /\ camp'.mem = Tail(journal'.lines)
    BY <1>1, <2>1 DEF Shapes
  <2>4. IsSeq(journal'.lines) /\ journal'.lines # <<>>
    <3>1. CASE journal.lines = <<>>
      <4>1. journal'.lines = <<Header>>
        BY <2>2, <3>1
      <4>2. <<Header>> \in Seq({Header}) /\ <<Header>> # <<>>
        OBVIOUS
      <4>3. IsSeq(<<Header>>)
        BY <4>2, OwnElements
      <4>4. QED
        BY <4>1, <4>2, <4>3
    <3>2. CASE journal.lines # <<>>
      BY <1>1, <2>1, <2>2, <3>2 DEF Shapes
    <3>3. QED
      BY <3>1, <3>2
  <2>5. IsSeq(Tail(journal'.lines))
    BY <2>4, TailFacts
  <2>6. Shapes'
    BY <1>1, <1>2, <2>2, <2>3, <2>4, <2>5 DEF Shapes, IsSeq
  <2>7. ASSUME ~journal'.hurt PROVE JournalKept'
    <3>1. ~journal.hurt /\ JournalKept
      BY <1>1, <2>1, <2>2, <2>7
    <3>2. Head(journal'.lines) = Header /\ Observations(Tail(journal'.lines), records)
      <4>1. CASE journal.lines = <<>>
        <5>1. journal'.lines = <<Header>>
          BY <2>1, <2>2, <4>1
        <5>2. Head(<<Header>>) = Header /\ Tail(<<Header>>) = <<>> /\ Len(<<>>) = 0 /\ DOMAIN <<>> = {}
          OBVIOUS
        <5>3. Len(Runs) \in Nat
          BY RunsFacts
        <5>4. QED
          BY <5>1, <5>2, <5>3 DEF Observations
      <4>2. CASE journal.lines # <<>>
        BY <2>1, <2>2, <3>1, <4>2 DEF JournalKept
      <4>3. QED
        BY <4>1, <4>2
    <3>3. Observations(Tail(journal.lines)', records')
      BY <1>2, <3>2
    <3>4. Observations(Tail(journal.lines), records)'
      BY <1>2, <3>3, CorpusFixed
    <3>5. journal'.torn = FALSE /\ camp'.pc = "ready" /\ camp'.mem = Tail(journal'.lines)
      BY <2>1, <2>2, <2>3
    <3>6. QED
      BY <2>4, <3>2, <3>4, <3>5 DEF JournalKept
  <2>8. camp'.pc = "ready"
    BY <2>3
  <2>9. QED
    BY <2>6, <2>7, <2>8 DEF CampaignInv
<1>5. CASE ~Readable(j)
  <2>1. journal' = j /\ camp' = [camp EXCEPT !.pc = "refused"]
    BY <1>5 DEF OpenJournal, j
  <2>2. journal.hurt
    <3>1. SUFFICES ASSUME ~journal.hurt PROVE Readable(j)
      BY <1>5
    <3>2. QED
      BY <1>1, <3>1, ReadableJournal DEF Shapes, JournalKept, j
  <2>3. /\ DOMAIN journal' = {"lines", "torn", "hurt"}
        /\ journal'.lines = journal.lines /\ journal'.hurt = journal.hurt
    BY <1>3, <2>1
  <2>4. DOMAIN camp' = {"pc", "mem", "obs", "made"} /\ camp'.pc = "refused" /\ camp'.mem = camp.mem
    BY <1>1, <2>1 DEF Shapes
  <2>5. Shapes'
    BY <1>1, <1>2, <2>3, <2>4 DEF Shapes, IsSeq
  <2>6. QED
    BY <2>2, <2>3, <2>5 DEF CampaignInv
<1>6. QED
  BY <1>4, <1>5

\* What one observation may be, before it is recorded or written down.
LEMMA ObserveForms ==
  ASSUME Shapes, NEW run, Observe(run)
  PROVE  /\ DOMAIN camp' = {"pc", "mem", "obs", "made"} /\ camp'.mem = camp.mem
         /\ camp'.pc \in {"record", "append"} /\ IsObservation(camp'.obs) /\ camp'.obs.run = run
         /\ camp'.obs.record = 0
         /\ camp'.pc = "append" => camp'.obs.status # "sealed"
         /\ camp'.pc = "record" => camp'.obs.status = "sealed" /\ camp'.obs.input = corpus.entries[run[1]]
<1> DEFINE version == disk[run[1]]
           read == version = corpus.entries[run[1]]
           went == IF version \in Versions THEN plan.runs[<<run[2], version>>]
                   ELSE [end |-> "fault", failure |-> "none", out |-> NoRecord]
           told(status, failure, input) == Observation(run, status, failure, input, 0, NoRecord)
           kept == IF run \notin plan.refused /\ read /\ went.end = "ok" THEN went.out ELSE NoRecord
           sealed == Observation(run, "sealed", "none", version, 0, kept)
           obs == IF run \in plan.refused THEN told("not_applicable", "none", Gone)
                  ELSE IF went.end \in {"cleanup", "unsupported", "fault"} THEN told(StatusOf(went.end), "none", Gone)
                  ELSE IF ~read THEN told("error", "none", version)
                  ELSE IF went.end \in {"failed", "empty"} THEN told("failed", went.failure, version)
                  ELSE sealed
<1>1. camp' = [camp EXCEPT !.pc = IF obs.status = "sealed" THEN "record" ELSE "append", !.obs = obs]
  BY DEF Observe
<1> HIDE DEF version, went, kept
<1>2. \/ obs = told("not_applicable", "none", Gone)
      \/ went.end \in {"cleanup", "unsupported", "fault"} /\ obs = told(StatusOf(went.end), "none", Gone)
      \/ obs = told("error", "none", version)
      \/ obs = told("failed", went.failure, version)
      \/ read /\ obs = sealed
  <2> HIDE DEF told, read, sealed
  <2>1. QED
    OBVIOUS
<1>3. DOMAIN camp = {"pc", "mem", "obs", "made"}
  BY DEF Shapes
<1>4. ASSUME NEW status, NEW failure, NEW input, status # "sealed", obs = told(status, failure, input)
      PROVE  IsObservation(obs) /\ obs.run = run /\ obs.record = 0 /\ obs.status # "sealed"
  <2> HIDE DEF obs
  <2>1. QED
    BY <1>4 DEF Observation, IsObservation
<1>5. ASSUME went.end \in {"cleanup", "unsupported", "fault"} PROVE StatusOf(went.end) # "sealed"
  BY <1>5 DEF StatusOf
<1>6. ASSUME read, obs = sealed
      PROVE  /\ IsObservation(obs) /\ obs.run = run
             /\ obs.record = 0 /\ obs.status = "sealed" /\ obs.input = corpus.entries[run[1]]
  <2> HIDE DEF obs
  <2>1. QED
    BY <1>6 DEF Observation, IsObservation
<1> HIDE DEF told, read, sealed, obs
<1>7. /\ IsObservation(obs) /\ obs.run = run /\ obs.record = 0
      /\ obs.status = "sealed" => obs.input = corpus.entries[run[1]]
  BY <1>2, <1>4, <1>5, <1>6
<1>8. QED
  BY <1>1, <1>3, <1>7

\* Between two steps nothing else moves the campaign's process.
LEMMA Observing ==
  ASSUME CampaignInv, NEW run, Observe(run)
  PROVE  CampaignInv'
<1>1. Shapes /\ (~journal.hurt => JournalKept) /\ camp.pc = "ready"
  BY DEF CampaignInv, Observe
<1>2. corpus' = corpus /\ records' = records /\ journal' = journal
  BY DEF Observe
<1>3. /\ DOMAIN camp' = {"pc", "mem", "obs", "made"} /\ camp'.mem = camp.mem
      /\ camp'.pc \in {"record", "append"} /\ IsObservation(camp'.obs) /\ camp'.obs.run = run
      /\ camp'.obs.record = 0
      /\ camp'.pc = "append" => camp'.obs.status # "sealed"
      /\ camp'.pc = "record" => camp'.obs.status = "sealed" /\ camp'.obs.input = corpus.entries[run[1]]
  BY <1>1, ObserveForms
<1>4. Shapes'
  BY <1>1, <1>2, <1>3 DEF Shapes, IsSeq
<1>5. ASSUME ~journal'.hurt PROVE JournalKept'
  <2>1. JournalKept /\ journal.torn = FALSE /\ journal.lines # <<>> /\ camp.mem = Tail(journal.lines)
    BY <1>1, <1>2, <1>5 DEF JournalKept, Working
  <2>2. Head(journal.lines) = Header /\ Observations(camp.mem, records)
    BY <2>1 DEF JournalKept
  <2>3. PICK n \in Pending(camp.mem) : run = Runs[n] /\ \A m \in Pending(camp.mem) : n <= m
    BY DEF Observe
  <2>4. Len(camp.mem) < Len(Runs) /\ run = Runs[Len(camp.mem) + 1] /\ IsSeq(camp.mem)
    BY <1>1, <2>2, <2>3, NextPending DEF Shapes
  <2>5. camp'.pc = "append" => Observations(Append(camp.mem, camp'.obs), records)
    BY <1>1, <1>3, <2>2, <2>4, OneMore DEF Shapes
  <2>6. Runs' = Runs /\ \A os, recs : Observations(os, recs)' <=> Observations(os, recs)
    BY <1>2, CorpusFixed
  <2>7. Observations(Tail(journal.lines), records)'
    BY <1>2, <2>1, <2>2, <2>6
  <2>8. camp'.pc = "append" => Observations(Append(camp.mem, camp.obs), records)'
    BY <1>2, <1>3, <2>5, <2>6
  <2>9. QED
    BY <1>2, <1>3, <2>1, <2>2, <2>4, <2>6, <2>7, <2>8 DEF JournalKept, Working
<1>6. QED
  BY <1>3, <1>4, <1>5 DEF CampaignInv

\* The ledger records the run, or keeps a record that did not seal.
LEMMA Recording ==
  ASSUME CampaignInv, RecordRun
  PROVE  CampaignInv'
<1> DEFINE n == Len(records)
           o == camp.obs
<1>1. Shapes /\ (~journal.hurt => JournalKept) /\ camp.pc = "record"
  BY DEF CampaignInv, RecordRun
<1>2. corpus' = corpus /\ journal' = journal
  BY DEF RecordRun
<1>3. PICK r, new :
        /\ IsRecord(r) /\ r.doc = o.run[1] /\ r.lane = o.run[2] /\ r.source = o.input /\ r.out = o.out
        /\ records' = Append(records, r)
        /\ camp' = [camp EXCEPT !.pc = "append", !.obs = new]
        /\ \/ new = [o EXCEPT !.record = n + 1]
           \/ new = [o EXCEPT !.status = "error", !.out = NoRecord]
  <2>1. ASSUME NEW state
        PROVE  LET r == Record(state, o.run, o.input, o.out, "ours") IN
               IsRecord(r) /\ r.doc = o.run[1] /\ r.lane = o.run[2] /\ r.source = o.input /\ r.out = o.out
    BY DEF Record, IsRecord
  <2>2. CASE /\ records' = Append(records, Record("sealed", camp.obs.run, camp.obs.input, camp.obs.out, "ours"))
             /\ Observed([camp.obs EXCEPT !.record = Len(records) + 1])
    BY <2>1, <2>2 DEF Observed
  <2>3. CASE /\ records' = Append(records, Record("failed", camp.obs.run, camp.obs.input, camp.obs.out, "ours"))
             /\ Observed([camp.obs EXCEPT !.status = "error", !.out = NoRecord])
    BY <2>1, <2>3 DEF Observed
  <2>4. QED
    BY <2>2, <2>3 DEF RecordRun
<1>4. /\ IsSeq(records') /\ n \in Nat /\ DOMAIN records = 1 .. n /\ DOMAIN records' = 1 .. n + 1
      /\ records'[n + 1] = r /\ \A i \in 1 .. n : records'[i] = records[i]
  BY <1>1, <1>3, Longer DEF Shapes
<1>5. /\ DOMAIN camp' = {"pc", "mem", "obs", "made"} /\ camp'.mem = camp.mem
      /\ camp'.pc = "append" /\ camp'.obs = new
  BY <1>1, <1>3 DEF Shapes
<1>6. \A i \in DOMAIN records' : IsRecord(records'[i])
  <2>1. \A i \in 1 .. n + 1 : i \in 1 .. n \/ i = n + 1
    BY <1>4
  <2>2. QED
    BY <1>1, <1>3, <1>4, <2>1 DEF Shapes
<1>7. Shapes'
  BY <1>1, <1>2, <1>4, <1>5, <1>6 DEF Shapes, IsSeq
<1>8. ASSUME ~journal'.hurt PROVE JournalKept'
  <2>1. /\ JournalKept /\ journal.torn = FALSE /\ journal.lines # <<>> /\ camp.mem = Tail(journal.lines)
        /\ IsObservation(o) /\ Len(camp.mem) < Len(Runs) /\ o.run = Runs[Len(camp.mem) + 1]
        /\ o.status = "sealed" /\ o.record = 0 /\ o.input = corpus.entries[o.run[1]]
    BY <1>1, <1>2, <1>8 DEF JournalKept, Working
  <2>2. Head(journal.lines) = Header /\ Observations(camp.mem, records) /\ IsSeq(camp.mem)
    BY <1>1, <2>1 DEF JournalKept, Shapes
  <2>3. Kept(records, records')
    BY <1>4 DEF Kept
  <2>4. Observations(camp.mem, records')
    BY <2>2, <2>3, StillBacked
  <2>5. IsObservation(new) /\ new.run = o.run
    BY <1>3, <2>1 DEF IsObservation
  <2>6. new.status # "sealed" => new.record = 0
    BY <1>3, <2>1 DEF IsObservation
  <2>7. ASSUME new.status = "sealed"
        PROVE  Backed(new, records') /\ \A j \in DOMAIN camp.mem : camp.mem[j].record # new.record
    <3>1. new.record = n + 1 /\ new.out = o.out
      BY <1>3, <2>1, <2>7 DEF IsObservation
    <3>2. Len(camp.mem) \in Nat /\ Len(Runs) \in Nat /\ DOMAIN Runs = 1 .. Len(Runs)
      BY <2>2, Longer, RunsFacts
    <3>3. Len(camp.mem) + 1 \in DOMAIN Runs
      BY <2>1, <3>2
    <3>4. o.run \in (DOMAIN corpus.entries) \X ToSet(LaneOrder)
      BY <2>1, <3>3, RunsFacts
    <3>5. <<o.run[1], o.run[2]>> = o.run
      BY <3>4
    <3>6. n + 1 \in DOMAIN records'
      BY <1>4
    <3>7. Backed(new, records')
      BY <1>3, <1>4, <2>1, <2>5, <3>1, <3>5, <3>6 DEF Backed
    <3>8. \A j \in DOMAIN camp.mem : camp.mem[j].record \in 1 .. n \/ camp.mem[j].record = 0
      BY <1>4, <2>2 DEF Observations, Backed
    <3>9. QED
      BY <1>4, <3>1, <3>7, <3>8
  <2>8. Observations(Append(camp.mem, new), records')
    <3>1. new.run = Runs[Len(camp.mem) + 1]
      BY <2>1, <2>5
    <3>2. Len(camp.mem) < Len(Runs) /\ IsSeq(records') /\ IsSeq(camp.mem)
      BY <1>4, <2>1, <2>2
    <3> HIDE DEF n, o
    <3>3. QED
      BY <2>4, <2>6, <2>7, <3>1, <3>2, OneMore
  <2>9. Runs' = Runs /\ \A os, recs : Observations(os, recs)' <=> Observations(os, recs)
    BY <1>2, CorpusFixed
  <2>10. Observations(Tail(journal.lines), records)'
    BY <1>2, <2>1, <2>4, <2>9
  <2>11. Observations(Append(camp.mem, camp.obs), records)'
    BY <1>5, <2>8, <2>9
  <2>12. QED
    BY <1>2, <1>5, <2>1, <2>2, <2>5, <2>9, <2>10, <2>11 DEF JournalKept, Working
<1>9. QED
  BY <1>5, <1>7, <1>8 DEF CampaignInv

\* The observation becomes a line, or a part of one.
LEMMA Writing ==
  ASSUME CampaignInv, AppendObservation
  PROVE  CampaignInv'
<1> DEFINE o == camp.obs
           lines == journal.lines
<1>1. Shapes /\ (~journal.hurt => JournalKept) /\ camp.pc = "append"
  BY DEF CampaignInv, AppendObservation
<1>2. corpus' = corpus /\ records' = records
  BY DEF AppendObservation
<1>3. /\ DOMAIN camp' = {"pc", "mem", "obs", "made"} /\ camp'.mem = Append(camp.mem, o) /\ camp'.pc = "ready"
  BY <1>1 DEF AppendObservation, Shapes
<1>4. IsSeq(camp'.mem)
  BY <1>1, <1>3, Longer DEF Shapes
<1>5. \/ /\ DOMAIN journal' = {"lines", "torn", "hurt"} /\ journal'.torn = FALSE /\ journal'.hurt = journal.hurt
         /\ journal'.lines = Append(lines, IF journal.torn THEN Garbled ELSE o)
      \/ /\ DOMAIN journal' = {"lines", "torn", "hurt"} /\ journal'.lines = lines /\ journal'.hurt = TRUE
  <2>1. CASE journal' = AppendLine(journal, o)
    <3> DEFINE new == AppendLine(journal, o)
    <3>1. DOMAIN journal = {"lines", "torn", "hurt"}
      BY <1>1 DEF Shapes
    <3>2. /\ DOMAIN new = {"lines", "torn", "hurt"} /\ new.torn = FALSE /\ new.hurt = journal.hurt
          /\ new.lines = Append(lines, IF journal.torn THEN Garbled ELSE o)
      BY <3>1, AppendedLine
    <3> HIDE DEF new
    <3>3. journal' = new
      BY <2>1 DEF new
    <3>4. QED
      BY <3>2, <3>3
  <2>2. CASE journal' = [journal EXCEPT !.torn = TRUE, !.hurt = TRUE]
    BY <1>1, <2>2 DEF Shapes
  <2>3. QED
    BY <2>1, <2>2 DEF AppendObservation
<1>6. IsSeq(journal'.lines) /\ journal'.hurt \in BOOLEAN
  <2>1. IsSeq(lines) /\ journal.hurt \in BOOLEAN
    BY <1>1 DEF Shapes
  <2>2. \A x : IsSeq(Append(lines, x))
    BY <2>1, Longer
  <2>3. QED
    BY <1>5, <2>1, <2>2
<1>7. Shapes'
  BY <1>1, <1>2, <1>3, <1>4, <1>5, <1>6 DEF Shapes, IsSeq
<1>8. ASSUME ~journal'.hurt PROVE JournalKept'
  <2>1. journal'.hurt = journal.hurt /\ journal'.torn = FALSE
        /\ journal'.lines = Append(lines, IF journal.torn THEN Garbled ELSE o)
    BY <1>5, <1>8
  <2>2. /\ JournalKept /\ journal.torn = FALSE /\ lines # <<>> /\ camp.mem = Tail(lines)
        /\ Observations(Append(camp.mem, o), records) /\ Head(lines) = Header
    BY <1>1, <1>8, <2>1 DEF JournalKept, Working
  <2>3. journal'.lines = Append(lines, o)
    BY <2>1, <2>2
  <2>4. journal'.lines # <<>> /\ Head(journal'.lines) = Header /\ Tail(journal'.lines) = Append(camp.mem, o)
    BY <1>1, <2>2, <2>3, Longer, TailOfLonger DEF Shapes
  <2>5. Observations(Tail(journal'.lines), records')
    BY <1>2, <2>2, <2>4
  <2>6. Observations(Tail(journal.lines), records)'
    BY <1>2, <2>5, CorpusFixed
  <2>7. QED
    BY <1>3, <2>1, <2>4, <2>6 DEF JournalKept
<1>9. QED
  BY <1>3, <1>7, <1>8 DEF CampaignInv

\* The campaign's process ends: the journal keeps what it has, but for a part of a line at most.
LEMMA Ending ==
  ASSUME CampaignInv, Stop \/ Crash
  PROVE  CampaignInv'
<1>1. Shapes /\ (~journal.hurt => JournalKept)
  BY DEF CampaignInv
<1>2. corpus' = corpus /\ records' = records /\ camp' = [camp EXCEPT !.pc = "closed"]
  BY DEF Stop, Crash
<1>3. DOMAIN camp' = {"pc", "mem", "obs", "made"} /\ camp'.mem = camp.mem /\ camp'.pc = "closed"
  BY <1>1, <1>2 DEF Shapes
<1>4. journal' = journal \/ journal' = [journal EXCEPT !.torn = TRUE]
  BY DEF Stop, Crash
<1>5. DOMAIN journal' = {"lines", "torn", "hurt"} /\ journal'.lines = journal.lines /\ journal'.hurt = journal.hurt
  BY <1>1, <1>4 DEF Shapes
<1>6. Shapes'
  BY <1>1, <1>2, <1>3, <1>5 DEF Shapes, IsSeq
<1>7. ASSUME ~journal'.hurt PROVE JournalKept'
  <2>1. JournalKept
    BY <1>1, <1>5, <1>7
  <2>2. \A os, recs : Observations(os, recs)' <=> Observations(os, recs)
    BY <1>2, CorpusFixed
  <2>3. journal.lines # <<>> => Observations(Tail(journal.lines), records)'
    BY <1>2, <1>5, <2>1, <2>2 DEF JournalKept
  <2>4. QED
    BY <1>3, <1>5, <2>1, <2>3 DEF JournalKept, Working
<1>8. QED
  BY <1>3, <1>6, <1>7 DEF CampaignInv

\* Others: the journal stays as it is, loses a torn end or is spoilt, and a record's state may change.
LEMMA OthersKeep ==
  ASSUME CampaignInv, corpus' = corpus, camp' = camp,
         \/ UNCHANGED records
         \/ \E r, why : Invalid(r, why),
         \/ UNCHANGED journal
         \/ journal' = Recovered(journal)
         \/ /\ DOMAIN journal' = {"lines", "torn", "hurt"} /\ IsSeq(journal'.lines) /\ journal'.hurt = TRUE
  PROVE  CampaignInv'
<1>1. Shapes /\ (~journal.hurt => JournalKept)
  BY DEF CampaignInv
<1>2. IsSeq(records') /\ Kept(records, records') /\ \A i \in DOMAIN records' : IsRecord(records'[i])
  <2>1. CASE UNCHANGED records
    BY <1>1, <2>1 DEF Shapes, Kept
  <2>2. ASSUME NEW r \in DOMAIN records, NEW why, Invalid(r, why)
        PROVE  IsSeq(records') /\ Kept(records, records') /\ \A i \in DOMAIN records' : IsRecord(records'[i])
    <3> DEFINE new == [[records[r] EXCEPT !.state = "invalidated"] EXCEPT !.cause = why]
    <3>1. records' = [records EXCEPT ![r] = new]
      BY <1>1, <2>2 DEF Invalid, Shapes
    <3>2. IsRecord(records[r])
      BY <1>1 DEF Shapes
    <3>3. /\ IsRecord(new) /\ new.doc = records[r].doc /\ new.lane = records[r].lane
          /\ new.source = records[r].source /\ new.out = records[r].out /\ new.config = records[r].config
      BY <3>2 DEF IsRecord
    <3> HIDE DEF new
    <3>4. IsSeq(records')
      BY <1>1, <3>1, Changed DEF Shapes
    <3>5. DOMAIN records' = DOMAIN records /\ \A i \in DOMAIN records : records'[i] = IF i = r THEN new ELSE records[i]
      BY <3>1
    <3>6. QED
      BY <1>1, <3>3, <3>4, <3>5 DEF Shapes, Kept
  <2>3. ASSUME NEW r, r \notin DOMAIN records, NEW why, Invalid(r, why) PROVE UNCHANGED records
    BY <1>1, <2>3 DEF Invalid, Shapes, IsSeq
  <2>4. QED
    BY <2>1, <2>2, <2>3
<1>3. CASE UNCHANGED journal \/ journal' = Recovered(journal)
  <2>1. /\ DOMAIN journal' = {"lines", "torn", "hurt"} /\ journal'.lines = journal.lines /\ journal'.hurt = journal.hurt
        /\ journal'.torn = journal.torn \/ journal'.torn = FALSE
    BY <1>1, <1>3 DEF Shapes, Recovered
  <2>2. Shapes'
    BY <1>1, <1>2, <2>1 DEF Shapes, IsSeq
  <2>3. ASSUME ~journal'.hurt PROVE JournalKept'
    <3>1. JournalKept
      BY <1>1, <2>1, <2>3
    <3>2. Runs' = Runs /\ \A os, recs : Observations(os, recs)' <=> Observations(os, recs)
      BY CorpusFixed
    <3>3. \A os : Observations(os, records) => Observations(os, records')
      BY <1>2, StillBacked
    <3>4. journal.lines # <<>> => Head(journal.lines) = Header /\ Observations(Tail(journal.lines), records)'
      BY <2>1, <3>1, <3>2, <3>3 DEF JournalKept
    <3>5. camp.pc = "append" => Observations(Append(camp.mem, camp.obs), records)'
      BY <3>1, <3>2, <3>3 DEF JournalKept
    <3>6. QED
      BY <2>1, <3>1, <3>2, <3>4, <3>5 DEF JournalKept
  <2>4. QED
    BY <2>1, <2>2, <2>3 DEF CampaignInv
<1>4. CASE /\ DOMAIN journal' = {"lines", "torn", "hurt"} /\ IsSeq(journal'.lines) /\ journal'.hurt = TRUE
  <2>1. Shapes'
    BY <1>1, <1>2, <1>4 DEF Shapes, IsSeq
  <2>2. QED
    BY <1>4, <2>1 DEF CampaignInv
<1>5. QED
  BY <1>3, <1>4

\* An empty journal, and the ledger's records of before.
LEMMA CampaignStart ==
  ASSUME CampaignInit
  PROVE  CampaignInv
<1>1. IsSeq(records) /\ \A i \in DOMAIN records : IsRecord(records[i])
  BY CampaignAssumption DEF CampaignInit, IsSeq
<1>2. /\ DOMAIN journal = {"lines", "torn", "hurt"} /\ journal.lines = <<>> /\ journal.hurt = FALSE
      /\ DOMAIN camp = {"pc", "mem", "obs", "made"} /\ camp.mem = <<>> /\ camp.pc = "closed"
  BY DEF CampaignInit
<1>3. IsSeq(<<>>)
  BY DEF IsSeq
<1>4. Shapes
  BY <1>1, <1>2, <1>3 DEF Shapes
<1>5. QED
  BY <1>2, <1>4 DEF CampaignInv, JournalKept, Working

\* A step of the campaign, or of what goes on around it.
LEMMA CampaignStep ==
  ASSUME CampaignInv, CampaignSteps \/ Crash \/ Changes
  PROVE  CampaignInv'
<1>1. CASE CampaignSteps
  BY <1>1, OpenKeeps, Observing, Recording, Writing, Ending DEF CampaignSteps
<1>2. CASE Crash
  BY <1>2, Ending
<1>3. CASE Changes
  <2>1. corpus' = corpus /\ camp' = camp /\ UNCHANGED records /\ UNCHANGED journal
    BY <1>3 DEF Changes, Damage, EditWorking, EditDocument
  <2>2. QED
    BY <2>1, OthersKeep
<1>4. QED
  BY <1>1, <1>2, <1>3

\* A step of a pass over the records, or of a client that invalidates one.
LEMMA PassStep ==
  ASSUME CampaignInv, PassSteps \/ PassStarts \/ \E r \in DOMAIN records : InvalidateOther(r)
  PROVE  CampaignInv'
<1>1. corpus' = corpus /\ camp' = camp /\ UNCHANGED journal
  BY DEF PassSteps, PassStarts, StartPass, InvalidateOther, ValidateOne, ReadLive, JudgeReplay, NextResult, AskState,
         InvalidateOne, campaignVars
<1>2. UNCHANGED records \/ \E r, why : Invalid(r, why)
  <2>1. CASE InvalidateOne
    BY <2>1 DEF InvalidateOne
  <2>2. CASE \E r \in DOMAIN records : InvalidateOther(r)
    BY <2>2 DEF InvalidateOther
  <2>3. CASE ValidateOne \/ ReadLive \/ JudgeReplay \/ NextResult \/ AskState \/ PassStarts
    BY <2>3 DEF PassStarts, StartPass, ValidateOne, ReadLive, JudgeReplay, NextResult, AskState, campaignVars
  <2>4. QED
    BY <2>1, <2>2, <2>3 DEF PassSteps
<1>3. QED
  BY <1>1, <1>2, OthersKeep

\* A line that somebody changed.
LEMMA Spoiling ==
  ASSUME CampaignInv, NEW i \in DOMAIN journal.lines, NEW r, EditJournal(i, r)
  PROVE  CampaignInv'
<1> DEFINE line == [journal.lines[i] EXCEPT !.record = r, !.out = records[r].out]
           lines == [journal.lines EXCEPT ![i] = line]
<1>1. journal' = [[journal EXCEPT !.lines = lines] EXCEPT !.hurt = TRUE]
  BY DEF EditJournal
<1>2. DOMAIN journal = {"lines", "torn", "hurt"} /\ IsSeq(lines)
  BY Changed DEF CampaignInv, Shapes
<1> HIDE DEF lines
<1>3. DOMAIN journal' = {"lines", "torn", "hurt"} /\ journal'.lines = lines /\ journal'.hurt = TRUE
  BY <1>1, <1>2
<1>4. corpus' = corpus /\ camp' = camp /\ UNCHANGED records
  BY DEF EditJournal
<1>5. QED
  BY <1>2, <1>3, <1>4, OthersKeep

\* A campaign's journal is kept while replays and validations go on.
THEOREM CampaignInvariant == ReplaySpec => []CampaignInv
<1>1. ReplaySpecInit => CampaignInv
  BY CampaignStart DEF ReplaySpecInit
<1>2. CampaignInv /\ [ReplayNext]_<<campaignVars, replayVars>> => CampaignInv'
  <2> SUFFICES ASSUME CampaignInv, [ReplayNext]_<<campaignVars, replayVars>> PROVE CampaignInv'
    OBVIOUS
  <2>1. CASE ReplayNext
    BY <2>1, CampaignStep, PassStep DEF ReplayNext
  <2>2. CASE UNCHANGED <<campaignVars, replayVars>>
    BY <2>2, OthersKeep DEF campaignVars
  <2>3. QED
    BY <2>1, <2>2
<1>3. QED
  BY <1>1, <1>2, PTL DEF ReplaySpec

\* The same while a report is built, signed off and checked.
THEOREM CampaignInvariantAudited == Spec => []CampaignInv
<1>1. Init => CampaignInv
  BY CampaignStart DEF Init
<1>2. CampaignInv /\ [Next]_vars => CampaignInv'
  <2> SUFFICES ASSUME CampaignInv, [Next]_vars PROVE CampaignInv'
    OBVIOUS
  <2>1. CASE CampaignSteps \/ Crash \/ Changes
    BY <2>1, CampaignStep
  <2>2. CASE Damage(ReportBlob)
    BY <2>2, OthersKeep DEF Damage
  <2>3. CASE \E i \in DOMAIN journal.lines, r \in DOMAIN records : EditJournal(i, r)
    BY <2>3, Spoiling
  <2>4. CASE \E r \in DOMAIN records : InvalidateOther(r)
    BY <2>4, PassStep
  <2>5. CASE \E why : ReadJournal(why)
    BY <2>5, OthersKeep DEF ReadJournal
  <2>6. CASE Signing \/ StartCheck \/ EditReport \/ Forge \/ UNCHANGED vars
    <3>1. UNCHANGED <<corpus, records, journal, camp>>
      BY <2>6 DEF Signing, CheckRow, FinishReport, Rebuild, RecheckChain, RecheckRow, PutReport, AppendSignOff,
                  ReadReport, Answer, StartCheck, EditReport, Forge, campaignVars, vars
    <3>2. QED
      BY <3>1, OthersKeep
  <2>7. QED
    BY <2>1, <2>2, <2>3, <2>4, <2>5, <2>6 DEF Next, Outsiders, StartSignOff
<1>3. QED
  BY <1>1, <1>2, PTL DEF Spec

\* What the journal has is what the property says of it.
LEMMA KeptMeansOnce == CampaignInv => ObservedOnce
<1> SUFFICES ASSUME CampaignInv, journal.lines # <<>>, ~journal.hurt PROVE ObservedOnce
  BY DEF ObservedOnce
<1> DEFINE lines == Tail(journal.lines)
           runs == [i \in DOMAIN lines |-> lines[i].run]
<1>1. Observations(lines, records) /\ IsSeq(lines)
  BY TailFacts DEF CampaignInv, JournalKept, Shapes
<1> HIDE DEF lines
<1>2. /\ Len(lines) \in Nat /\ DOMAIN lines = 1 .. Len(lines)
      /\ Len(Runs) \in Nat /\ DOMAIN Runs = 1 .. Len(Runs) /\ Len(lines) <= Len(Runs)
  BY <1>1, Longer, RunsFacts DEF Observations
<1>3. runs = [i \in 1 .. Len(lines) |-> Runs[i]]
  BY <1>1, <1>2 DEF Observations
<1>4. IsPrefix(runs, Runs)
  <2> DEFINE S == (DOMAIN corpus.entries) \X ToSet(LaneOrder)
  <2>1. Runs \in Seq(S)
    BY RunsFacts
  <2> HIDE DEF S
  <2>2. runs \in Seq(S) /\ Len(runs) = Len(lines)
    BY <1>2, <1>3, <2>1
  <2>3. \A i \in 1 .. Len(lines) : runs[i] = Runs[i]
    BY <1>2, <1>3
  <2> HIDE DEF runs
  <2>4. SubSeq(runs, 1, Len(lines)) = [i \in 1 .. Len(lines) |-> runs[i]]
    BY <1>2, <2>2
  <2>5. SubSeq(Runs, 1, Len(lines)) = [i \in 1 .. Len(lines) |-> Runs[i]]
    BY <1>2, <2>1
  <2>6. QED
    BY <1>2, <2>2, <2>3, <2>4, <2>5 DEF IsPrefix
<1>5. \A i \in DOMAIN lines : lines[i].status = "sealed" =>
         /\ \A k \in DOMAIN lines \ {i} : lines[k].record # lines[i].record
         /\ LET r == records[lines[i].record] IN
            <<r.doc, r.lane>> = lines[i].run /\ r.source = corpus.entries[r.doc]
              /\ r.out = lines[i].out
  BY <1>1 DEF Observations, Backed
<1> HIDE DEF runs
<1>6. QED
  BY <1>4, <1>5 DEF ObservedOnce, lines, runs

\* Every document and lane is observed at most once, in order, and each sealed observation has a record of its
\* own, whatever deaths and whoever reads and invalidates meanwhile.
THEOREM ObservedOnceHolds == ReplaySpec => []ObservedOnce
<1>1. QED
  BY CampaignInvariant, KeptMeansOnce, PTL

\* A journal is refused only if it was spoilt.
THEOREM JournalAlwaysReopens == ReplaySpec => []JournalReopens
<1>1. CampaignInv => JournalReopens
  BY DEF CampaignInv, JournalReopens
<1>2. QED
  BY <1>1, CampaignInvariant, PTL

-----------------------------------------------------------------------------
(***************************************************************************)
(* The invariant of the report, its sign-off and the check of it.           *)
(***************************************************************************)
\* What cites a record cites one of recs, or none.
CiteRecords(s, recs) == IsSeq(s) /\ \A i \in DOMAIN s : s[i].record \in DOMAIN recs \cup {0}

CitingLines(s, recs) == CiteRecords(s, recs) /\ \A i \in DOMAIN s : IsObservation(s[i])

LinesCite ==
  /\ CitingLines(journal.lines, records) /\ CitingLines(camp.mem, records)
  /\ IsObservation(camp.obs) /\ camp.obs.record \in DOMAIN records \cup {0}

RowsCite ==
  /\ DOMAIN signer = {"pc", "why", "mem", "rows", "sealed", "whole", "problems"}
  /\ CiteRecords(signer.mem, records) /\ CiteRecords(signer.rows, records)
  /\ CiteRecords(report.rows, records) /\ CiteRecords(signed.rows, records)

\* One report, one sign-off and one check of it, in this order.
Order ==
  /\ report # NoReport => DOMAIN report = {"rows", "failed", "findings", "waivers", "verified"}
  /\ signed # NoReport => report # NoReport
  /\ \/ signer.pc = "idle"
     \/ signer.why = "report" /\ signer.pc = "row" /\ signed = NoReport
     \/ signer.why = "sign_off" /\ report # NoReport /\ signed = NoReport /\ signer.pc \in {"row", "chain", "recheck", "put"}
     \/ signer.why = "check" /\ signed # NoReport /\ answer = "none"
          /\ signer.pc \in {"read", "chain", "recheck"}
  /\ answer # "none" => signed # NoReport /\ signer.pc = "idle"

\* A row that a recheck has passed cites a record that was sealed when it began, and so does a row that it will
\* pass; what it has not reached is still to come.
Checked(sg, why, rows, recs) ==
  /\ sg.pc = "chain" /\ sg.why = why /\ sg.problems = {} => sg.rows = rows
  /\ sg.pc = "recheck" /\ sg.why = why =>
       /\ \A k \in DOMAIN sg.rows :
            sg.rows[k].record # 0 /\ recs[sg.rows[k].record].state = "sealed" => sg.rows[k].record \in sg.sealed
       /\ sg.problems = {} =>
            \A i \in DOMAIN rows :
              \/ rows[i].record = 0
              \/ rows[i].record \in sg.sealed
              \/ \E k \in DOMAIN sg.rows : sg.rows[k] = rows[i]

Checking == Checked(signer, "check", signed.rows, records)

\* A check that has found nothing wrong began with a whole chain and a whole report, if the report is whole now.
Wholeness ==
  /\ signer.pc = "read" /\ signer.problems = {} /\ ReportBlob \notin damaged => signer.whole
  /\ signer.why = "check" /\ signer.pc \in {"chain", "recheck"} /\ signer.problems = {} => signer.whole

AuditInv == LinesCite /\ RowsCite /\ Order /\ Checking /\ Wholeness /\ StaleTold

-----------------------------------------------------------------------------
(***************************************************************************)
(* What the campaign and others do beside a report.                        *)
(***************************************************************************)
\* Records are added, and no record is sealed again.
Later(recs, news) ==
  /\ DOMAIN recs \subseteq DOMAIN news
  /\ \A i \in DOMAIN recs : news[i].state = "sealed" => recs[i].state = "sealed"

\* What cites a record goes on citing one.
LEMMA StillCite ==
  ASSUME NEW recs, NEW news, DOMAIN recs \subseteq DOMAIN news, NEW s
  PROVE  /\ CiteRecords(s, recs) => CiteRecords(s, news)
         /\ CitingLines(s, recs) => CitingLines(s, news)
BY DEF CiteRecords, CitingLines

\* One line more.
LEMMA CiteMore ==
  ASSUME NEW recs, NEW s, NEW x, x.record \in DOMAIN recs \cup {0}
  PROVE  /\ CiteRecords(s, recs) => CiteRecords(Append(s, x), recs)
         /\ CitingLines(s, recs) /\ IsObservation(x) => CitingLines(Append(s, x), recs)
<1>1. ASSUME IsSeq(s)
      PROVE  /\ IsSeq(Append(s, x)) /\ DOMAIN s = 1 .. Len(s)
             /\ \A i \in DOMAIN Append(s, x) : Append(s, x)[i] = x \/ (i \in DOMAIN s /\ Append(s, x)[i] = s[i])
  <2>1. /\ IsSeq(Append(s, x)) /\ Len(s) \in Nat /\ DOMAIN s = 1 .. Len(s)
        /\ DOMAIN Append(s, x) = 1 .. Len(s) + 1 /\ Append(s, x)[Len(s) + 1] = x
        /\ \A i \in 1 .. Len(s) : Append(s, x)[i] = s[i]
    BY <1>1, Longer
  <2>2. \A i \in 1 .. Len(s) + 1 : i \in 1 .. Len(s) \/ i = Len(s) + 1
    BY <2>1
  <2>3. QED
    BY <2>1, <2>2
<1>2. QED
  BY <1>1 DEF CiteRecords, CitingLines

\* All but the first.
LEMMA CiteTail ==
  ASSUME NEW recs, NEW s, s # <<>>
  PROVE  /\ CiteRecords(s, recs) => CiteRecords(Tail(s), recs)
         /\ CitingLines(s, recs) => CitingLines(Tail(s), recs)
<1>1. ASSUME IsSeq(s)
      PROVE  IsSeq(Tail(s)) /\ \A i \in DOMAIN Tail(s) : i + 1 \in DOMAIN s /\ Tail(s)[i] = s[i + 1]
  <2>1. /\ IsSeq(Tail(s)) /\ Len(s) \in Nat \ {0} /\ DOMAIN Tail(s) = 1 .. Len(s) - 1
        /\ \A i \in 1 .. Len(s) - 1 : Tail(s)[i] = s[i + 1]
    BY <1>1, TailFacts
  <2>2. DOMAIN s = 1 .. Len(s)
    BY <1>1, Longer
  <2>3. QED
    BY <2>1, <2>2
<1>2. QED
  BY <1>1 DEF CiteRecords, CitingLines

\* The lines that are not observations cite none.
LEMMA LinesOfNone ==
  /\ IsObservation(Header) /\ Header.record = 0
  /\ IsObservation(Garbled) /\ Garbled.record = 0
BY DEF Header, Garbled, Line, Observation, IsObservation

\* A journal that is opened cites what it cited.
LEMMA OpenCites ==
  ASSUME Shapes, LinesCite, OpenJournal
  PROVE  LinesCite'
<1> DEFINE j == Recovered(journal)
<1>1. /\ DOMAIN j = {"lines", "torn", "hurt"} /\ j.lines = journal.lines /\ j.torn = FALSE
  BY DEF Recovered, Shapes
<1>2. records' = records
  BY DEF OpenJournal
<1>3. CASE Readable(j)
  <2>1. /\ journal' = Opened(j)
        /\ camp' = [camp EXCEPT !.pc = "ready", !.mem = Tail(Opened(j).lines), !.made = FALSE]
    BY <1>3 DEF OpenJournal
  <2> HIDE DEF j
  <2>2. journal'.lines = IF j.lines = <<>> THEN Append(j.lines, Header) ELSE j.lines
    <3>1. AppendLine(j, Header).lines = Append(j.lines, Header)
      BY <1>1, AppendedLine
    <3>2. QED
      BY <2>1, <3>1 DEF Opened
  <2>3. CitingLines(journal'.lines, records)
    BY <1>1, <2>2, CiteMore, LinesOfNone DEF LinesCite
  <2>4. journal'.lines # <<>>
    BY <1>1, <2>2, Longer DEF Shapes
  <2>5. camp'.mem = Tail(journal'.lines) /\ camp'.obs = camp.obs
    BY <2>1 DEF Shapes
  <2>6. QED
    BY <1>2, <2>3, <2>4, <2>5, CiteTail DEF LinesCite
<1>4. CASE ~Readable(j)
  <2>1. journal' = j /\ camp' = [camp EXCEPT !.pc = "refused"]
    BY <1>4 DEF OpenJournal
  <2>2. camp'.mem = camp.mem /\ camp'.obs = camp.obs
    BY <2>1 DEF Shapes
  <2> HIDE DEF j
  <2>3. QED
    BY <1>1, <1>2, <2>1, <2>2 DEF LinesCite
<1>5. QED
  BY <1>3, <1>4

\* A run that is recorded is cited by its observation.
LEMMA RecordCites ==
  ASSUME Shapes, LinesCite, RecordRun
  PROVE  LinesCite' /\ Later(records, records')
<1> DEFINE n == Len(records)
           o == camp.obs
<1>1. PICK r, new :
        /\ records' = Append(records, r)
        /\ camp' = [camp EXCEPT !.pc = "append", !.obs = new]
        /\ new = [o EXCEPT !.record = n + 1] \/ new = [o EXCEPT !.status = "error", !.out = NoRecord]
  BY DEF RecordRun, Observed
<1>2. journal' = journal
  BY DEF RecordRun
<1>3. /\ n \in Nat /\ DOMAIN records = 1 .. n /\ DOMAIN records' = 1 .. n + 1
      /\ \A i \in 1 .. n : records'[i] = records[i]
  BY <1>1, Longer DEF Shapes
<1>4. camp'.mem = camp.mem /\ camp'.obs = new
  BY <1>1 DEF Shapes
<1>5. IsObservation(new) /\ new.record \in {n + 1, o.record}
  BY <1>1 DEF LinesCite, IsObservation
<1> HIDE DEF n
<1>6. DOMAIN records \subseteq DOMAIN records' /\ n + 1 \in DOMAIN records'
  BY <1>3
<1>7. Later(records, records')
  BY <1>3, <1>6 DEF Later
<1>8. QED
  BY <1>2, <1>4, <1>5, <1>6, <1>7, StillCite DEF LinesCite

\* An observation that is written down is the line that it was in memory.
LEMMA WriteCites ==
  ASSUME Shapes, LinesCite, AppendObservation
  PROVE  LinesCite'
<1>1. records' = records /\ camp' = [camp EXCEPT !.pc = "ready", !.mem = Append(@, camp.obs), !.made = TRUE]
  BY DEF AppendObservation
<1>2. camp'.mem = Append(camp.mem, camp.obs) /\ camp'.obs = camp.obs
  BY <1>1 DEF Shapes
<1>3. \/ \E x \in {Garbled, camp.obs} : journal'.lines = Append(journal.lines, x)
      \/ journal'.lines = journal.lines
  <2>1. CASE journal' = AppendLine(journal, camp.obs)
    <3>1. AppendLine(journal, camp.obs).lines = Append(journal.lines, IF journal.torn THEN Garbled ELSE camp.obs)
      BY AppendedLine DEF Shapes
    <3>2. QED
      BY <2>1, <3>1
  <2>2. CASE journal' = [journal EXCEPT !.torn = TRUE, !.hurt = TRUE]
    BY <2>2 DEF Shapes
  <2>3. QED
    BY <2>1, <2>2 DEF AppendObservation
<1>4. \A x \in {Garbled, camp.obs} : IsObservation(x) /\ x.record \in DOMAIN records \cup {0}
  BY LinesOfNone DEF LinesCite
<1>5. CitingLines(journal'.lines, records) /\ CitingLines(camp'.mem, records)
  BY <1>2, <1>3, <1>4, CiteMore DEF LinesCite
<1>6. QED
  BY <1>1, <1>2, <1>5 DEF LinesCite

\* A record invalidated was sealed before.
LEMMA InvalidIsLater ==
  ASSUME Shapes, NEW r \in DOMAIN records, NEW why, Invalid(r, why)
  PROVE  Later(records, records') /\ DOMAIN records' = DOMAIN records
<1> DEFINE new == [[records[r] EXCEPT !.state = "invalidated"] EXCEPT !.cause = why]
<1>1. records' = [records EXCEPT ![r] = new]
  BY DEF Invalid, Shapes
<1>2. IsRecord(records[r])
  BY DEF Shapes
<1>3. new.state # "sealed"
  BY <1>2 DEF IsRecord
<1> HIDE DEF new
<1>4. QED
  BY <1>1, <1>3 DEF Later

\* Nothing changes.
LEMMA SameIsLater == Later(records, records)
BY DEF Later

\* A line that somebody changed cites another record.
LEMMA EditCites ==
  ASSUME Shapes, LinesCite, NEW i \in DOMAIN journal.lines, NEW r \in DOMAIN records, EditJournal(i, r)
  PROVE  LinesCite'
<1> DEFINE line == [journal.lines[i] EXCEPT !.record = r, !.out = records[r].out]
           lines == [journal.lines EXCEPT ![i] = line]
<1>1. journal' = [[journal EXCEPT !.lines = lines] EXCEPT !.hurt = TRUE] /\ records' = records /\ camp' = camp
  BY DEF EditJournal
<1>2. IsObservation(line) /\ line.record = r
  BY DEF LinesCite, CitingLines, IsObservation
<1>3. IsSeq(lines)
  BY Changed DEF Shapes
<1>4. DOMAIN lines = DOMAIN journal.lines /\ \A k \in DOMAIN lines : lines[k] = IF k = i THEN line ELSE journal.lines[k]
  OBVIOUS
<1> HIDE DEF line, lines
<1>5. CitingLines(lines, records)
  BY <1>2, <1>3, <1>4 DEF LinesCite, CitingLines, CiteRecords
<1>6. journal'.lines = lines
  BY <1>1 DEF Shapes
<1>7. QED
  BY <1>1, <1>5, <1>6 DEF LinesCite

\* Whatever goes on beside a report leaves the lines citing records, and seals no record of before.
LEMMA BesideCites ==
  ASSUME Shapes, LinesCite, CampaignSteps \/ Crash \/ Outsiders \/ \E r \in DOMAIN records : InvalidateOther(r)
  PROVE  LinesCite' /\ Later(records, records')
<1>1. CASE OpenJournal
  BY <1>1, OpenCites, SameIsLater DEF OpenJournal
<1>2. CASE RecordRun
  BY <1>2, RecordCites
<1>3. CASE AppendObservation
  BY <1>3, WriteCites, SameIsLater DEF AppendObservation
<1>4. CASE Stop \/ Crash
  <2>1. records' = records /\ camp' = [camp EXCEPT !.pc = "closed"]
        /\ (journal' = journal \/ journal' = [journal EXCEPT !.torn = TRUE])
    BY <1>4 DEF Stop, Crash
  <2>2. camp'.mem = camp.mem /\ camp'.obs = camp.obs /\ journal'.lines = journal.lines
    BY <2>1 DEF Shapes
  <2>3. QED
    BY <2>1, <2>2, SameIsLater DEF LinesCite
<1>5. ASSUME NEW run, Observe(run) PROVE LinesCite' /\ Later(records, records')
  <2>1. records' = records /\ journal' = journal
    BY <1>5 DEF Observe
  <2>2. camp'.mem = camp.mem /\ IsObservation(camp'.obs) /\ camp'.obs.record = 0
    BY <1>5, ObserveForms
  <2>3. QED
    BY <2>1, <2>2, SameIsLater DEF LinesCite
<1>6. CASE Changes \/ Damage(ReportBlob)
  <2>1. UNCHANGED <<records, journal, camp>>
    BY <1>6 DEF Changes, Damage, EditWorking, EditDocument
  <2>2. QED
    BY <2>1, SameIsLater DEF LinesCite
<1>7. ASSUME NEW i \in DOMAIN journal.lines, NEW r \in DOMAIN records, EditJournal(i, r)
      PROVE  LinesCite' /\ Later(records, records')
  BY <1>7, EditCites, SameIsLater DEF EditJournal
<1>8. ASSUME NEW r \in DOMAIN records, InvalidateOther(r) PROVE LinesCite' /\ Later(records, records')
  <2>1. UNCHANGED <<journal, camp>>
    BY <1>8 DEF InvalidateOther
  <2>2. Later(records, records') /\ DOMAIN records' = DOMAIN records
    BY <1>8, InvalidIsLater DEF InvalidateOther
  <2>3. QED
    BY <2>1, <2>2, StillCite DEF LinesCite
<1>9. QED
  BY <1>1, <1>2, <1>3, <1>4, <1>5, <1>6, <1>7, <1>8 DEF CampaignSteps, Outsiders

-----------------------------------------------------------------------------
(***************************************************************************)
(* A report is built, signed off and checked.                              *)
(***************************************************************************)
\* What was rechecked stays so, whatever is invalidated or recorded.
LEMMA StillChecked ==
  ASSUME NEW sg, NEW why, NEW rows, NEW recs, NEW news, CiteRecords(sg.rows, recs), Later(recs, news),
         Checked(sg, why, rows, recs)
  PROVE  Checked(sg, why, rows, news)
<1>1. ASSUME NEW k \in DOMAIN sg.rows, sg.rows[k].record # 0, news[sg.rows[k].record].state = "sealed"
      PROVE  recs[sg.rows[k].record].state = "sealed"
  BY <1>1 DEF CiteRecords, Later
<1>2. QED
  BY <1>1 DEF Checked

\* What goes on beside a report leaves what is said of it true.
LEMMA BesideKeeps ==
  ASSUME AuditInv, LinesCite', Later(records, records'), damaged \subseteq damaged',
         UNCHANGED <<report, signer, signed, answer>>
  PROVE  AuditInv'
<1>1. DOMAIN records \subseteq DOMAIN records'
  BY DEF Later
<1>2. RowsCite'
  BY <1>1, StillCite DEF AuditInv, RowsCite
<1>3. Order' /\ Wholeness' /\ StaleTold'
  BY DEF AuditInv, Order, Wholeness, StaleTold
<1>4. Checking'
  BY StillChecked DEF AuditInv, RowsCite, Checking
<1>5. QED
  BY <1>2, <1>3, <1>4 DEF AuditInv

\* Nothing mends a blob.
LEMMA DamageGrows ==
  ASSUME CampaignSteps \/ Crash \/ Outsiders \/ \E r \in DOMAIN records : InvalidateOther(r)
  PROVE  damaged \subseteq damaged'
<1>1. CASE CampaignSteps \/ Crash
  BY <1>1 DEF CampaignSteps, OpenJournal, RecordRun, AppendObservation, Stop, Observe, Crash
<1>2. CASE Outsiders
  BY <1>2 DEF Outsiders, Changes, Damage, EditWorking, EditDocument, EditJournal
<1>3. CASE \E r \in DOMAIN records : InvalidateOther(r)
  BY <1>3 DEF InvalidateOther
<1>4. QED
  BY <1>1, <1>2, <1>3

\* A set of places has a last one.
LEMMA LastPlace ==
  ASSUME NEW n \in Nat, NEW S, S \subseteq 1 .. n, S # {}
  PROVE  \E i \in S : \A j \in S : j <= i
<1> DEFINE T == {m \in 0 .. n : n - m \in S}
<1>1. T \subseteq Nat /\ \A i \in S : n - i \in T
  OBVIOUS
<1>2. T # {}
  BY <1>1
<1>3. PICK m \in T : \A k \in T : m <= k
  <2> HIDE DEF T
  <2>1. QED
    BY <1>1, <1>2, Joined!Least
<1>4. n - m \in S /\ m \in Nat
  OBVIOUS
<1>5. ASSUME NEW j \in S PROVE j <= n - m
  <2>1. m <= n - j
    BY <1>1, <1>3
  <2>2. QED
    BY <1>4, <2>1
<1>6. QED
  BY <1>4, <1>5

\* The latest observation of a run is one of the lines read, or of no record.
LEMMA LatestCites ==
  ASSUME NEW mem, CiteRecords(mem, records), NEW run
  PROVE  Latest(mem, run).record \in DOMAIN records \cup {0}
<1> DEFINE of == {i \in DOMAIN mem : mem[i].run = run}
<1>1. CASE of = {}
  BY <1>1 DEF Latest, Observation
<1>2. CASE of # {}
  <2>1. Len(mem) \in Nat /\ of \subseteq 1 .. Len(mem)
    BY Longer DEF CiteRecords
  <2>2. \E i \in of : \A j \in of : j <= i
    <3> HIDE DEF of
    <3>1. QED
      BY <1>2, <2>1, LastPlace
  <2>3. Latest(mem, run) = mem[CHOOSE i \in of : \A j \in of : j <= i]
    BY <1>2 DEF Latest
  <2>4. (CHOOSE i \in of : \A j \in of : j <= i) \in DOMAIN mem
    <3>1. (CHOOSE i \in of : \A j \in of : j <= i) \in of
      <4> HIDE DEF of
      <4>1. QED
        BY <2>2
    <3>2. QED
      BY <3>1
  <2> HIDE DEF of
  <2>5. QED
    BY <2>3, <2>4 DEF CiteRecords
<1>3. QED
  BY <1>1, <1>2

\* Nobody at work, and no report.
LEMMA NoOne ==
  /\ DOMAIN Idle = {"pc", "why", "mem", "rows", "sealed", "whole", "problems"}
  /\ Idle.pc = "idle" /\ Idle.mem = <<>> /\ Idle.rows = <<>>
  /\ NoReport.rows = <<>> /\ DOMAIN NoReport = {"rows"}
  /\ \A recs : CiteRecords(<<>>, recs)
<1>1. \A recs : CiteRecords(<<>>, recs)
  BY DEF CiteRecords, IsSeq
<1>2. QED
  BY <1>1 DEF Idle, NoReport

\* The journal is read, for a report or to sign one off.
LEMMA ReadingKeeps ==
  ASSUME Shapes, AuditInv, NEW why, ReadJournal(why),
         \/ why = "report" /\ report = NoReport
         \/ why = "sign_off" /\ report # NoReport /\ signed = NoReport
  PROVE  AuditInv'
<1>1. UNCHANGED <<records, camp, damaged, report, signed, answer>> /\ signer.pc = "idle" /\ journal.lines # <<>>
  BY DEF ReadJournal
<1>2. journal'.lines = journal.lines
  BY DEF ReadJournal, Recovered, Shapes
<1>3. LinesCite'
  BY <1>1, <1>2 DEF AuditInv, LinesCite
<1>4. CASE signer' = signer
  BY <1>1, <1>3, <1>4, SameIsLater, BesideKeeps
<1>5. CASE signer' = [Idle EXCEPT !.pc = "row", !.why = why, !.mem = Tail(journal.lines)]
  <2>1. /\ DOMAIN signer' = {"pc", "why", "mem", "rows", "sealed", "whole", "problems"}
        /\ signer'.pc = "row" /\ signer'.why = why /\ signer'.mem = Tail(journal.lines) /\ signer'.rows = <<>>
    BY <1>5, NoOne
  <2>2. CiteRecords(Tail(journal.lines), records)
    BY <1>1, CiteTail DEF AuditInv, LinesCite, CitingLines
  <2>3. RowsCite'
    BY <1>1, <2>1, <2>2, NoOne DEF AuditInv, RowsCite
  <2>4. answer = "none" /\ signed = NoReport
    BY <1>1 DEF AuditInv, Order
  <2>5. Order'
    BY <1>1, <2>1, <2>4 DEF AuditInv, Order
  <2>6. Checking' /\ Wholeness' /\ StaleTold'
    BY <1>1, <2>1, <2>4 DEF Checking, Checked, Wholeness, StaleTold
  <2>7. QED
    BY <1>3, <2>3, <2>5, <2>6 DEF AuditInv
<1>6. QED
  BY <1>4, <1>5 DEF ReadJournal

\* A row is of no record, or of one that a line cites.
LEMMA RowKeeps ==
  ASSUME AuditInv, CheckRow
  PROVE  AuditInv'
<1>1. UNCHANGED <<records, journal, camp, report, signed, answer>> /\ signer.pc = "row"
  BY DEF CheckRow, campaignVars
<1>2. PICK row : row.record \in DOMAIN records \cup {0} /\ signer' = [signer EXCEPT !.rows = Append(@, row)]
  <2>1. PICK run, problems : signer' = [signer EXCEPT !.rows = Append(@, Row(run, Latest(signer.mem, run), problems))]
    BY DEF CheckRow
  <2>2. Row(run, Latest(signer.mem, run), problems).record = Latest(signer.mem, run).record
    BY DEF Row
  <2>3. QED
    BY <2>1, <2>2, LatestCites DEF AuditInv, RowsCite
<1>3. /\ DOMAIN signer' = {"pc", "why", "mem", "rows", "sealed", "whole", "problems"}
      /\ signer'.pc = "row" /\ signer'.why = signer.why /\ signer'.mem = signer.mem
      /\ signer'.rows = Append(signer.rows, row)
  BY <1>1, <1>2 DEF AuditInv, RowsCite
<1>4. LinesCite'
  BY <1>1 DEF AuditInv, LinesCite
<1>5. RowsCite'
  BY <1>1, <1>2, <1>3, CiteMore DEF AuditInv, RowsCite
<1>6. Order'
  BY <1>1, <1>3 DEF AuditInv, Order
<1>7. Checking' /\ Wholeness' /\ StaleTold'
  BY <1>1, <1>3, <1>6 DEF AuditInv, Checking, Checked, Wholeness, StaleTold, Order
<1>8. QED
  BY <1>4, <1>5, <1>6, <1>7 DEF AuditInv

\* A report that is finished has the rows that were checked.
LEMMA FinishKeeps ==
  ASSUME AuditInv, FinishReport
  PROVE  AuditInv'
<1>1. /\ UNCHANGED <<records, journal, camp, signed, answer>> /\ signer' = Idle
      /\ signer.pc = "row" /\ signer.why = "report"
  BY DEF FinishReport, campaignVars, Leave
<1>2. PICK w : report' = report \/ report' = Built(signer.rows, w)
  BY DEF FinishReport
<1>3. /\ DOMAIN Built(signer.rows, w) = {"rows", "failed", "findings", "waivers", "verified"}
      /\ Built(signer.rows, w).rows = signer.rows
  BY DEF Built
<1>4. Built(signer.rows, w) # NoReport
  BY <1>3, NoOne
<1>5. LinesCite'
  BY <1>1 DEF AuditInv, LinesCite
<1>6. RowsCite'
  BY <1>1, <1>2, <1>3, NoOne DEF AuditInv, RowsCite
<1>7. signed = NoReport /\ answer = "none"
  BY <1>1 DEF AuditInv, Order
<1>8. Order'
  BY <1>1, <1>2, <1>3, <1>7, NoOne DEF AuditInv, Order
<1>9. Checking' /\ Wholeness' /\ StaleTold'
  BY <1>1, <1>7, NoOne DEF Checking, Checked, Wholeness, StaleTold
<1>10. QED
  BY <1>5, <1>6, <1>8, <1>9 DEF AuditInv

\* The rebuild leaves the report's own rows to be checked, or nothing.
LEMMA RebuildKeeps ==
  ASSUME AuditInv, Rebuild
  PROVE  AuditInv'
<1>1. /\ UNCHANGED <<records, journal, camp, report, signed, answer>>
      /\ signer.pc = "row" /\ signer.why = "sign_off"
  BY DEF Rebuild, campaignVars
<1>2. PICK problems :
        \/ signer' = Idle
        \/ signer' = [signer EXCEPT !.pc = "chain", !.problems = problems, !.rows = report.rows]
  BY DEF Rebuild
<1>3. /\ DOMAIN signer' = {"pc", "why", "mem", "rows", "sealed", "whole", "problems"}
      /\ \/ signer'.pc = "idle" /\ signer'.mem = <<>> /\ signer'.rows = <<>>
         \/ /\ signer'.pc = "chain" /\ signer'.why = "sign_off"
            /\ signer'.mem = signer.mem /\ signer'.rows = report.rows
  BY <1>1, <1>2, NoOne DEF AuditInv, RowsCite
<1>4. LinesCite'
  BY <1>1 DEF AuditInv, LinesCite
<1>5. RowsCite'
  BY <1>1, <1>3, NoOne DEF AuditInv, RowsCite
<1>6. signed = NoReport /\ answer = "none" /\ report # NoReport
  BY <1>1 DEF AuditInv, Order
<1>7. Order'
  BY <1>1, <1>3, <1>6 DEF AuditInv, Order
<1>8. Checking' /\ Wholeness' /\ StaleTold'
  BY <1>1, <1>3, <1>6 DEF Checking, Checked, Wholeness, StaleTold
<1>9. QED
  BY <1>4, <1>5, <1>7, <1>8 DEF AuditInv

\* What is sealed when the recheck begins.
LEMMA ChainChecked ==
  ASSUME RowsCite, RecheckChain, NEW why, NEW rows, Checked(signer, why, rows, records)
  PROVE  Checked(signer', why, rows, records)
<1>1. PICK more : signer' = [signer EXCEPT !.pc = "recheck", !.sealed = Sealed, !.problems = @ \cup more]
  BY DEF RecheckChain
<1>2. /\ signer'.pc = "recheck" /\ signer'.why = signer.why /\ signer'.rows = signer.rows
      /\ signer'.sealed = Sealed /\ signer'.problems = signer.problems \cup more
  BY <1>1 DEF RowsCite
<1>3. ASSUME NEW k \in DOMAIN signer.rows, signer.rows[k].record # 0, records[signer.rows[k].record].state = "sealed"
      PROVE  signer.rows[k].record \in Sealed
  BY <1>3 DEF RowsCite, CiteRecords, Sealed
<1>4. signer.why = why /\ signer'.problems = {} => signer.rows = rows
  BY <1>2 DEF Checked, RecheckChain
<1>5. QED
  BY <1>2, <1>3, <1>4 DEF Checked

\* The records that are sealed when the rows' turn comes.
LEMMA ChainKeeps ==
  ASSUME AuditInv, RecheckChain
  PROVE  AuditInv'
<1>1. UNCHANGED <<records, journal, camp, report, signed, answer>> /\ signer.pc = "chain"
  BY DEF RecheckChain, campaignVars
<1>2. PICK more : signer' = [signer EXCEPT !.pc = "recheck", !.sealed = Sealed, !.problems = @ \cup more]
  BY DEF RecheckChain
<1>3. /\ DOMAIN signer' = {"pc", "why", "mem", "rows", "sealed", "whole", "problems"}
      /\ signer'.pc = "recheck" /\ signer'.why = signer.why /\ signer'.mem = signer.mem
      /\ signer'.rows = signer.rows /\ signer'.sealed = Sealed /\ signer'.problems = signer.problems \cup more
      /\ signer'.whole = signer.whole
  BY <1>2 DEF AuditInv, RowsCite
<1>4. LinesCite'
  BY <1>1 DEF AuditInv, LinesCite
<1>5. RowsCite'
  BY <1>1, <1>3 DEF AuditInv, RowsCite
<1>6. Order'
  BY <1>1, <1>3 DEF AuditInv, Order
<1>7. answer = "none" \/ signed = NoReport
  BY <1>1 DEF AuditInv, Order
<1>8. Wholeness' /\ StaleTold'
  BY <1>1, <1>3, <1>7 DEF AuditInv, Wholeness, StaleTold, Order
<1>9. Checking'
  BY <1>1, ChainChecked DEF AuditInv, Checking
<1>10. QED
  BY <1>4, <1>5, <1>6, <1>8, <1>9 DEF AuditInv

\* A row that passes cites a record that was sealed.
LEMMA RowChecked ==
  ASSUME RowsCite, RecheckRow, NEW why, NEW rows, Checked(signer, why, rows, records)
  PROVE  Checked(signer', why, rows, records)
<1> DEFINE row == Head(signer.rows)
           wrong == row.record # 0 /\ (records[row.record].state # "sealed" \/ records[row.record].out # row.out)
<1>1. /\ signer.pc = "recheck" /\ signer.rows # <<>>
      /\ signer' = [signer EXCEPT !.rows = Tail(@), !.problems = @ \cup IF wrong THEN {"record"} ELSE {}]
  BY DEF RecheckRow
<1>2. /\ signer'.pc = "recheck" /\ signer'.why = signer.why
      /\ signer'.sealed = signer.sealed /\ signer'.rows = Tail(signer.rows)
      /\ signer'.problems = signer.problems \cup IF wrong THEN {"record"} ELSE {}
  <2> HIDE DEF wrong
  <2>1. QED
    BY <1>1 DEF RowsCite
<1>3. ASSUME signer.why = why PROVE Checked(signer', why, rows, records)
  <2>1. /\ Len(signer.rows) \in Nat \ {0} /\ DOMAIN signer.rows = 1 .. Len(signer.rows)
        /\ DOMAIN Tail(signer.rows) = 1 .. Len(signer.rows) - 1 /\ row = signer.rows[1]
        /\ \A k \in 1 .. Len(signer.rows) - 1 : Tail(signer.rows)[k] = signer.rows[k + 1]
    BY <1>1, Longer, TailFacts DEF RowsCite, CiteRecords
  <2>2. \A k \in DOMAIN Tail(signer.rows) : k + 1 \in DOMAIN signer.rows /\ Tail(signer.rows)[k] = signer.rows[k + 1]
    BY <2>1
  <2>3. ASSUME NEW k \in DOMAIN signer.rows, k # 1
        PROVE  \E m \in DOMAIN Tail(signer.rows) : Tail(signer.rows)[m] = signer.rows[k]
    <3>1. k - 1 \in DOMAIN Tail(signer.rows) /\ k - 1 + 1 = k
      BY <2>1, <2>3
    <3>2. QED
      BY <2>2, <3>1
  <2>4. /\ \A k \in DOMAIN signer.rows :
             signer.rows[k].record # 0 /\ records[signer.rows[k].record].state = "sealed" =>
               signer.rows[k].record \in signer.sealed
        /\ signer.problems = {} =>
             \A i \in DOMAIN rows :
               \/ rows[i].record = 0
               \/ rows[i].record \in signer.sealed
               \/ \E k \in DOMAIN signer.rows : signer.rows[k] = rows[i]
    BY <1>1, <1>3 DEF Checked
  <2>5. ASSUME ~wrong PROVE row.record = 0 \/ row.record \in signer.sealed
    <3>1. 1 \in DOMAIN signer.rows
      BY <2>1
    <3>2. QED
      BY <2>1, <2>4, <2>5, <3>1
  <2>6. signer'.problems = {} => signer.problems = {} /\ ~wrong
    BY <1>2
  <2> HIDE DEF row, wrong
  <2>7. ASSUME signer'.problems = {}, NEW i \in DOMAIN rows
        PROVE  \/ rows[i].record = 0
               \/ rows[i].record \in signer.sealed
               \/ \E k \in DOMAIN Tail(signer.rows) : Tail(signer.rows)[k] = rows[i]
    <3>1. CASE \E k \in DOMAIN signer.rows : signer.rows[k] = rows[i]
      BY <2>1, <2>3, <2>5, <2>6, <2>7, <3>1
    <3>2. QED
      BY <2>4, <2>6, <2>7, <3>1
  <2>8. \A k \in DOMAIN Tail(signer.rows) :
          Tail(signer.rows)[k].record # 0 /\ records[Tail(signer.rows)[k].record].state = "sealed" =>
            Tail(signer.rows)[k].record \in signer.sealed
    BY <2>2, <2>4
  <2>9. QED
    BY <1>2, <2>7, <2>8 DEF Checked
<1>4. QED
  BY <1>2, <1>3 DEF Checked

\* A row that passes cites a record that was sealed when the check began.
LEMMA RecheckKeeps ==
  ASSUME AuditInv, RecheckRow
  PROVE  AuditInv'
<1> DEFINE row == Head(signer.rows)
           wrong == row.record # 0 /\ (records[row.record].state # "sealed" \/ records[row.record].out # row.out)
<1>1. /\ UNCHANGED <<records, journal, camp, report, signed, answer>>
      /\ signer.pc = "recheck" /\ signer.rows # <<>>
      /\ signer' = [signer EXCEPT !.rows = Tail(@), !.problems = @ \cup IF wrong THEN {"record"} ELSE {}]
  BY DEF RecheckRow, campaignVars
<1>2. /\ DOMAIN signer' = {"pc", "why", "mem", "rows", "sealed", "whole", "problems"}
      /\ signer'.pc = "recheck" /\ signer'.why = signer.why /\ signer'.mem = signer.mem
      /\ signer'.sealed = signer.sealed /\ signer'.rows = Tail(signer.rows) /\ signer'.whole = signer.whole
      /\ signer'.problems = signer.problems \cup IF wrong THEN {"record"} ELSE {}
  <2> HIDE DEF wrong
  <2>1. QED
    BY <1>1 DEF AuditInv, RowsCite
<1>3. LinesCite'
  BY <1>1 DEF AuditInv, LinesCite
<1>4. RowsCite'
  BY <1>1, <1>2, CiteTail DEF AuditInv, RowsCite
<1>5. Order'
  BY <1>1, <1>2 DEF AuditInv, Order
<1>6. Wholeness' /\ StaleTold'
  <2>1. signer'.problems = {} => signer.problems = {}
    BY <1>2
  <2> HIDE DEF wrong
  <2>2. QED
    BY <1>1, <1>2, <2>1 DEF AuditInv, Wholeness, StaleTold, Order
<1>7. Checking'
  BY <1>1, RowChecked DEF AuditInv, Checking
<1>8. QED
  BY <1>3, <1>4, <1>5, <1>6, <1>7 DEF AuditInv

\* The report's bytes are put, or the sign-off is refused.
LEMMA PutKeeps ==
  ASSUME AuditInv, PutReport
  PROVE  AuditInv'
<1>1. /\ UNCHANGED <<records, journal, camp, report, signed, answer>>
      /\ signer.pc = "recheck" /\ signer.why = "sign_off"
      /\ signer' = [signer EXCEPT !.pc = "put"] \/ signer' = Idle
  BY DEF PutReport, Rechecked, campaignVars
<1>2. /\ DOMAIN signer' = {"pc", "why", "mem", "rows", "sealed", "whole", "problems"}
      /\ \/ signer'.pc = "idle" /\ signer'.mem = <<>> /\ signer'.rows = <<>>
         \/ /\ signer'.pc = "put" /\ signer'.why = "sign_off"
            /\ signer'.mem = signer.mem /\ signer'.rows = signer.rows
  BY <1>1, NoOne DEF AuditInv, RowsCite
<1>3. LinesCite'
  BY <1>1 DEF AuditInv, LinesCite
<1>4. RowsCite'
  BY <1>1, <1>2, NoOne DEF AuditInv, RowsCite
<1>5. Order' /\ answer = "none"
  BY <1>1, <1>2 DEF AuditInv, Order
<1>6. Checking' /\ Wholeness' /\ StaleTold'
  BY <1>1, <1>2, <1>5 DEF Checking, Checked, Wholeness, StaleTold
<1>7. QED
  BY <1>3, <1>4, <1>5, <1>6 DEF AuditInv

\* The sign-off has the report's rows.
LEMMA SignKeeps ==
  ASSUME AuditInv, AppendSignOff
  PROVE  AuditInv'
<1>1. /\ UNCHANGED <<records, journal, camp, report, answer>> /\ signer.pc = "put" /\ signer' = Idle
      /\ signed'.rows = report.rows
  BY DEF AppendSignOff, campaignVars, Leave
<1>2. LinesCite'
  BY <1>1 DEF AuditInv, LinesCite
<1>3. RowsCite'
  BY <1>1, NoOne DEF AuditInv, RowsCite
<1>4. report # NoReport /\ answer = "none"
  BY <1>1 DEF AuditInv, Order
<1>5. Order'
  BY <1>1, <1>4, NoOne DEF AuditInv, Order
<1>6. Checking' /\ Wholeness' /\ StaleTold'
  BY <1>1, <1>4, NoOne DEF Checking, Checked, Wholeness, StaleTold
<1>7. QED
  BY <1>2, <1>3, <1>5, <1>6 DEF AuditInv

\* A check begins with the chain.
LEMMA CheckKeeps ==
  ASSUME AuditInv, StartCheck
  PROVE  AuditInv'
<1> DEFINE whole == forged # "chain" /\ ReportBlob \notin damaged
<1>1. /\ UNCHANGED <<records, journal, camp, damaged, report, signed, answer>>
      /\ signer.pc = "idle" /\ signed # NoReport /\ answer = "none"
      /\ signer' = [Idle EXCEPT !.pc = "read", !.why = "check", !.problems = ChainProblems, !.whole = whole]
  BY DEF StartCheck, campaignVars
<1>2. ChainProblems = {} /\ ReportBlob \notin damaged => whole
  BY DEF ChainProblems
<1> HIDE DEF whole
<1>3. /\ DOMAIN signer' = {"pc", "why", "mem", "rows", "sealed", "whole", "problems"}
      /\ signer'.pc = "read" /\ signer'.why = "check" /\ signer'.mem = <<>> /\ signer'.rows = <<>>
      /\ signer'.problems = ChainProblems /\ signer'.whole = whole
  BY <1>1, NoOne
<1>4. LinesCite'
  BY <1>1 DEF AuditInv, LinesCite
<1>5. RowsCite'
  BY <1>1, <1>3, NoOne DEF AuditInv, RowsCite
<1>6. Order'
  BY <1>1, <1>3 DEF AuditInv, Order
<1>7. Checking' /\ StaleTold'
  BY <1>1, <1>3 DEF Checking, Checked, StaleTold
<1>8. Wholeness'
  BY <1>1, <1>2, <1>3 DEF Wholeness
<1>9. QED
  BY <1>4, <1>5, <1>6, <1>7, <1>8 DEF AuditInv

\* It goes on with the rows of the report as it was archived, or has found it unreadable.
LEMMA ReadKeeps ==
  ASSUME AuditInv, ReadReport
  PROVE  AuditInv'
<1>1. UNCHANGED <<records, journal, camp, damaged, report, signed>> /\ signer.pc = "read"
  BY DEF ReadReport, campaignVars
<1>2. LinesCite'
  BY <1>1 DEF AuditInv, LinesCite
<1>3. signed # NoReport /\ answer = "none" /\ signer.why = "check"
  BY <1>1 DEF AuditInv, Order
<1>4. CASE ReportBlob \in damaged
  <2>1. answer' = "stale" /\ signer' = Idle
    BY <1>4 DEF ReadReport, Leave
  <2>2. RowsCite' /\ Order'
    BY <1>1, <1>3, <2>1, NoOne DEF AuditInv, RowsCite, Order
  <2>3. Checking' /\ Wholeness' /\ StaleTold'
    BY <2>1, NoOne DEF Checking, Checked, Wholeness, StaleTold
  <2>4. QED
    BY <1>2, <2>2, <2>3 DEF AuditInv
<1>5. CASE ReportBlob \notin damaged
  <2>1. PICK more : signer' = [signer EXCEPT !.pc = "chain", !.rows = signed.rows, !.problems = @ \cup more]
    BY <1>5 DEF ReadReport
  <2>2. answer' = answer
    BY <1>5 DEF ReadReport
  <2>3. /\ DOMAIN signer' = {"pc", "why", "mem", "rows", "sealed", "whole", "problems"}
        /\ signer'.pc = "chain" /\ signer'.why = "check" /\ signer'.mem = signer.mem
        /\ signer'.rows = signed.rows /\ signer'.problems = signer.problems \cup more
        /\ signer'.whole = signer.whole
    BY <1>3, <2>1 DEF AuditInv, RowsCite
  <2>4. RowsCite'
    BY <1>1, <2>3 DEF AuditInv, RowsCite
  <2>5. Order'
    BY <1>1, <1>3, <2>2, <2>3 DEF AuditInv, Order
  <2>6. Checking' /\ StaleTold'
    BY <1>1, <1>3, <2>2, <2>3 DEF Checking, Checked, StaleTold
  <2>7. Wholeness'
    <3>1. signer'.problems = {} => signer.problems = {}
      BY <2>3
    <3>2. QED
      BY <1>1, <1>5, <2>3, <3>1 DEF AuditInv, Wholeness
  <2>8. QED
    BY <1>2, <2>4, <2>5, <2>6, <2>7 DEF AuditInv
<1>6. QED
  BY <1>4, <1>5

\* Nothing wrong was found when every row has passed.
LEMMA AnswerKeeps ==
  ASSUME AuditInv, Answer
  PROVE  AuditInv'
<1>1. /\ UNCHANGED <<records, journal, camp, report, signed>>
      /\ signer.pc = "recheck" /\ signer.why = "check" /\ signer.rows = <<>>
      /\ answer' = (IF signer.problems = {} THEN "holds" ELSE "stale")
      /\ signer' = [Idle EXCEPT !.sealed = signer.sealed, !.whole = signer.whole]
  BY DEF Answer, Rechecked, campaignVars
<1>2. /\ DOMAIN signer' = {"pc", "why", "mem", "rows", "sealed", "whole", "problems"}
      /\ signer'.pc = "idle" /\ signer'.mem = <<>> /\ signer'.rows = <<>>
      /\ signer'.sealed = signer.sealed /\ signer'.whole = signer.whole
  BY <1>1, NoOne
<1>3. LinesCite'
  BY <1>1 DEF AuditInv, LinesCite
<1>4. RowsCite'
  BY <1>1, <1>2, NoOne DEF AuditInv, RowsCite
<1>5. signed # NoReport
  BY <1>1 DEF AuditInv, Order
<1>6. Order'
  BY <1>1, <1>2, <1>5 DEF AuditInv, Order
<1>7. Checking' /\ Wholeness'
  BY <1>2 DEF Checking, Checked, Wholeness
<1>8. StaleTold'
  <2>1. answer' = "holds" => signer.problems = {}
    BY <1>1
  <2>2. DOMAIN signer.rows = {}
    BY <1>1
  <2>3. signer.problems = {} =>
          \A i \in DOMAIN signed.rows : signed.rows[i].record = 0 \/ signed.rows[i].record \in signer.sealed
    BY <1>1, <2>2 DEF AuditInv, Checking, Checked
  <2>4. signer.problems = {} => signer.whole
    BY <1>1 DEF AuditInv, Wholeness
  <2>5. QED
    BY <1>1, <1>2, <2>1, <2>3, <2>4 DEF StaleTold
<1>9. QED
  BY <1>3, <1>4, <1>6, <1>7, <1>8 DEF AuditInv

\* The report's file is edited: not its rows.
LEMMA EditKeeps ==
  ASSUME AuditInv, EditReport
  PROVE  AuditInv'
<1>1. /\ UNCHANGED <<records, journal, camp, damaged, signer, signed, answer>> /\ report # NoReport
      /\ report' = [report EXCEPT !.failed = {}, !.verified = TRUE]
  BY DEF EditReport
<1>2. DOMAIN report' = DOMAIN report /\ report'.rows = report.rows /\ report' # NoReport
  <2>1. DOMAIN report = {"rows", "failed", "findings", "waivers", "verified"}
    BY <1>1 DEF AuditInv, Order
  <2>2. QED
    BY <1>1, <2>1, NoOne
<1>3. LinesCite'
  BY <1>1 DEF AuditInv, LinesCite
<1>4. RowsCite'
  BY <1>1, <1>2 DEF AuditInv, RowsCite
<1>5. Order'
  BY <1>1, <1>2 DEF AuditInv, Order
<1>6. Checking' /\ Wholeness' /\ StaleTold'
  BY <1>1 DEF AuditInv, Checking, Checked, Wholeness, StaleTold
<1>7. QED
  BY <1>3, <1>4, <1>5, <1>6 DEF AuditInv

\* No report yet, and an empty journal.
LEMMA AuditStart ==
  ASSUME Init
  PROVE  AuditInv
<1>1. /\ journal.lines = <<>> /\ camp.mem = <<>> /\ camp.obs = Line("none")
      /\ report = NoReport /\ signer = Idle /\ signed = NoReport /\ answer = "none"
  BY DEF Init, CampaignInit
<1>2. IsObservation(Line("none")) /\ Line("none").record = 0
  BY DEF Line, Observation, IsObservation
<1>3. CitingLines(<<>>, records)
  BY NoOne DEF CitingLines
<1>4. LinesCite
  BY <1>1, <1>2, <1>3 DEF LinesCite
<1>5. RowsCite /\ Order /\ Checking /\ Wholeness /\ StaleTold
  BY <1>1, NoOne DEF RowsCite, Order, Checking, Checked, Wholeness, StaleTold
<1>6. QED
  BY <1>4, <1>5 DEF AuditInv

\* A report, its sign-off and its check cite records, in their order; what a check has passed was sealed when the
\* recheck began, and chain and report were whole when the check did.
THEOREM AuditInvariant == Spec => []AuditInv
<1>1. Init => AuditInv
  BY AuditStart
<1>2. CampaignInv /\ AuditInv /\ [Next]_vars => AuditInv'
  <2> SUFFICES ASSUME CampaignInv, AuditInv, [Next]_vars PROVE AuditInv'
    OBVIOUS
  <2>1. Shapes /\ LinesCite
    BY DEF CampaignInv, AuditInv
  <2>2. CASE (CampaignSteps \/ Crash \/ Outsiders) /\ UNCHANGED <<replayVars, signVars>>
    BY <2>1, <2>2, BesideCites, DamageGrows, BesideKeeps DEF signVars
  <2>3. CASE \E r \in DOMAIN records : InvalidateOther(r) /\ UNCHANGED signVars
    BY <2>1, <2>3, BesideCites, DamageGrows, BesideKeeps DEF signVars
  <2>4. CASE Signing
    BY <2>4, RowKeeps, FinishKeeps, RebuildKeeps, ChainKeeps, RecheckKeeps, PutKeeps, SignKeeps, ReadKeeps, AnswerKeeps
    DEF Signing
  <2>5. CASE StartSignOff
    BY <2>1, <2>5, ReadingKeeps DEF StartSignOff
  <2>6. CASE report = NoReport /\ ReadJournal("report")
    BY <2>1, <2>6, ReadingKeeps
  <2>7. CASE StartCheck \/ EditReport
    BY <2>7, CheckKeeps, EditKeeps
  <2>8. CASE Forge \/ UNCHANGED vars
    <3>1. UNCHANGED <<records, journal, camp, damaged, report, signer, signed, answer>>
      BY <2>8 DEF Forge, vars, campaignVars, signVars
    <3>2. QED
      BY <2>1, <3>1, SameIsLater, BesideKeeps DEF LinesCite
  <2>9. QED
    BY <2>2, <2>3, <2>4, <2>5, <2>6, <2>7, <2>8 DEF Next
<1>3. QED
  BY <1>1, <1>2, CampaignInvariantAudited, PTL DEF Spec

\* A check that finds nothing wrong means that the chain and the archived report were whole when it began, and that
\* every record the sign-off covers was sealed when the recheck did.
THEOREM NothingStaleHolds == Spec => []StaleTold
<1>1. AuditInv => StaleTold
  BY DEF AuditInv
<1>2. QED
  BY <1>1, AuditInvariant, PTL

-----------------------------------------------------------------------------
(***************************************************************************)
(* Nested values: what the policy finds and what it is to be nearly the     *)
(* same are recursions over them, and both have a solution.                *)
(***************************************************************************)
PartsOf == [n \in DOMAIN Json |-> Parts(Json[n])]

\* One value's place in Walk, and in Leaves, from what f says of its parts.
WalkAt(f, m, n, tol) ==
  LET a == Json[m]
      b == Json[n]
  IN  IF a.kind = "dict" /\ b.kind = "dict" THEN
        {<<"key", k>> : k \in (Keys(a) \ Keys(b)) \cup (Keys(b) \ Keys(a))}
          \cup UNION {f[a.at[k]][b.at[k]][Inner(k, tol)] : k \in Keys(a) \cap Keys(b)}
      ELSE IF a.kind = "list" /\ b.kind = "list" THEN
        IF Len(a.at) # Len(b.at) THEN {<<"length", m>>}
        ELSE UNION {f[a.at[i]][b.at[i]][tol] : i \in DOMAIN a.at}
      ELSE IF {a.kind, b.kind} \subseteq Numbers /\ "float" \in {a.kind, b.kind} THEN
        IF IsClose(a.at, b.at, tol) THEN {} ELSE {<<"beyond", m>>}
      ELSE IF a.kind = b.kind /\ a.at = b.at THEN {} ELSE {<<"value", m>>}

WalkStep(f, m) == [n \in DOMAIN Json |-> [tol \in Tolerances |-> WalkAt(f, m, n, tol)]]

LeavesAt(f, n, tol) ==
  LET x == Json[n]
      under(step, leaves) == {[l EXCEPT !.where = <<step, @>>] : l \in leaves}
      here(kind, at) == [where |-> <<>>, kind |-> kind, at |-> at, tol |-> tol]
  IN  IF x.kind = "dict" THEN
        {here("keys", Keys(x))} \cup UNION {under(<<"key", k>>, f[x.at[k]][Inner(k, tol)]) : k \in Keys(x)}
      ELSE IF x.kind = "list" THEN
        {here("length", Len(x.at))} \cup UNION {under(<<"index", i>>, f[x.at[i]][tol]) : i \in DOMAIN x.at}
      ELSE {here(x.kind, x.at)}

LeavesStep(f, n) == [tol \in Tolerances |-> LeavesAt(f, n, tol)]

Walking == INSTANCE Folding WITH Step <- WalkStep
Leaving == INSTANCE Folding WITH Step <- LeavesStep

\* No value is a part of itself.
LEMMA NoValueInItself ==
  /\ \A n \in DOMAIN Json : PartsOf[n] \subseteq DOMAIN Json
  /\ Walking!WellFounded(DOMAIN Json, PartsOf)
  /\ Leaving!WellFounded(DOMAIN Json, PartsOf)
<1>1. \A n \in DOMAIN Json : PartsOf[n] \subseteq DOMAIN Json
  BY ComparisonAssumption DEF PartsOf
<1>2. ASSUME NEW S \in SUBSET DOMAIN Json, S # {} PROVE \E n \in S : PartsOf[n] \cap S = {}
  <2>1. CASE \E n \in S : Json[n].kind \notin Nests
    BY <2>1 DEF PartsOf, Parts
  <2>2. CASE \A n \in S : Json[n].kind \in Nests
    <3>1. PICK n \in S : Parts(Json[n]) \cap S = {}
      BY <1>2, <2>2, ComparisonAssumption
    <3>2. QED
      BY <3>1 DEF PartsOf
  <2>3. QED
    BY <2>1, <2>2
<1>3. QED
  BY <1>1, <1>2 DEF Walking!WellFounded, Leaving!WellFounded

\* The parts of a dict are under its keys, those of a list at its places.
LEMMA PartsAt ==
  ASSUME NEW n \in DOMAIN Json
  PROVE  /\ Json[n].kind = "dict" => \A k \in Keys(Json[n]) : Json[n].at[k] \in PartsOf[n] /\ Json[n].at[k] \in DOMAIN Json
         /\ Json[n].kind = "list" => /\ \A i \in DOMAIN Json[n].at : Json[n].at[i] \in PartsOf[n]
                                                                      /\ Json[n].at[i] \in DOMAIN Json
                                     /\ DOMAIN Json[n].at = 1 .. Len(Json[n].at)
BY ComparisonAssumption DEF PartsOf, Parts, Nests, Keys

\* A tolerance's rule for a key is one of the policy's.
LEMMA InnerRule == ASSUME NEW tol \in Tolerances, NEW k PROVE Inner(k, tol) \in Tolerances
BY DEF Inner, Tolerances

\* Both recursions look at nothing but the parts.
LEMMA WalkIsLocal == Walking!Local(DOMAIN Json, PartsOf)
<1> SUFFICES ASSUME NEW f, NEW g, NEW m \in DOMAIN Json, \A k \in PartsOf[m] : f[k] = g[k]
             PROVE  WalkStep(f, m) = WalkStep(g, m)
  BY DEF Walking!Local
<1>1. ASSUME NEW n \in DOMAIN Json, NEW tol \in Tolerances
      PROVE  WalkAt(f, m, n, tol) = WalkAt(g, m, n, tol)
  <2> DEFINE a == Json[m]
             b == Json[n]
  <2>1. CASE a.kind = "dict" /\ b.kind = "dict"
    <3>1. \A k \in Keys(a) : f[a.at[k]] = g[a.at[k]]
      BY <2>1, PartsAt
    <3> HIDE DEF a, b
    <3>2. {f[a.at[k]][b.at[k]][Inner(k, tol)] : k \in Keys(a) \cap Keys(b)}
            = {g[a.at[k]][b.at[k]][Inner(k, tol)] : k \in Keys(a) \cap Keys(b)}
      BY <3>1
    <3>3. QED
      BY <2>1, <3>2 DEF WalkAt, a, b
  <2>2. CASE a.kind = "list" /\ b.kind = "list"
    <3>1. \A i \in DOMAIN a.at : f[a.at[i]] = g[a.at[i]]
      BY <2>2, PartsAt
    <3> HIDE DEF a, b
    <3>2. {f[a.at[i]][b.at[i]][tol] : i \in DOMAIN a.at} = {g[a.at[i]][b.at[i]][tol] : i \in DOMAIN a.at}
      BY <3>1
    <3>3. QED
      BY <2>2, <3>2 DEF WalkAt, a, b
  <2>3. CASE ~(a.kind = "dict" /\ b.kind = "dict") /\ ~(a.kind = "list" /\ b.kind = "list")
    BY <2>3 DEF WalkAt
  <2>4. QED
    BY <2>1, <2>2, <2>3
<1>2. QED
  BY <1>1 DEF WalkStep

\* A value's leaves depend on its parts' alone.
LEMMA LeavesAreLocal == Leaving!Local(DOMAIN Json, PartsOf)
<1> SUFFICES ASSUME NEW f, NEW g, NEW n \in DOMAIN Json, \A k \in PartsOf[n] : f[k] = g[k]
             PROVE  LeavesStep(f, n) = LeavesStep(g, n)
  BY DEF Leaving!Local
<1>1. ASSUME NEW tol \in Tolerances
      PROVE  LeavesAt(f, n, tol) = LeavesAt(g, n, tol)
  <2> DEFINE x == Json[n]
             under(step, leaves) == {[l EXCEPT !.where = <<step, @>>] : l \in leaves}
  <2>1. CASE x.kind = "dict"
    <3>1. \A k \in Keys(x) : f[x.at[k]] = g[x.at[k]]
      BY <2>1, PartsAt
    <3> HIDE DEF x, under
    <3>2. {under(<<"key", k>>, f[x.at[k]][Inner(k, tol)]) : k \in Keys(x)}
            = {under(<<"key", k>>, g[x.at[k]][Inner(k, tol)]) : k \in Keys(x)}
      BY <3>1
    <3>3. QED
      BY <2>1, <3>2 DEF LeavesAt, x, under
  <2>2. CASE x.kind = "list"
    <3>1. \A i \in DOMAIN x.at : f[x.at[i]] = g[x.at[i]]
      BY <2>2, PartsAt
    <3> HIDE DEF x, under
    <3>2. {under(<<"index", i>>, f[x.at[i]][tol]) : i \in DOMAIN x.at}
            = {under(<<"index", i>>, g[x.at[i]][tol]) : i \in DOMAIN x.at}
      BY <3>1
    <3>3. QED
      BY <2>2, <3>2 DEF LeavesAt, x, under
  <2>3. CASE x.kind \notin Nests
    BY <2>3 DEF LeavesAt, Nests
  <2>4. QED
    BY <2>1, <2>2, <2>3 DEF Nests
<1>2. QED
  BY <1>1 DEF LeavesStep

\* So each is what its definition says.
LEMMA WalkUnfolds ==
  ASSUME NEW m \in DOMAIN Json, NEW n \in DOMAIN Json, NEW tol \in Tolerances
  PROVE  Walk[m][n][tol] = WalkAt(Walk, m, n, tol)
<1>1. \E f : Walking!Solves(f, DOMAIN Json)
  BY NoValueInItself, WalkIsLocal, Walking!SolutionExists
<1>2. Walk = CHOOSE f : Walking!Solves(f, DOMAIN Json)
  BY DEF Walk, Walking!Solves, WalkStep, WalkAt
<1>3. Walking!Solves(Walk, DOMAIN Json)
  BY <1>1, <1>2
<1>4. Walk[m] = WalkStep(Walk, m)
  BY <1>3 DEF Walking!Solves
<1>5. QED
  BY <1>4 DEF WalkStep

\* The leaves are what their recursion says of them.
LEMMA LeavesUnfold ==
  ASSUME NEW n \in DOMAIN Json, NEW tol \in Tolerances
  PROVE  Leaves[n][tol] = LeavesAt(Leaves, n, tol)
<1>1. \E f : Leaving!Solves(f, DOMAIN Json)
  BY NoValueInItself, LeavesAreLocal, Leaving!SolutionExists
<1>2. Leaves = CHOOSE f : Leaving!Solves(f, DOMAIN Json)
  BY DEF Leaves, Leaving!Solves, LeavesStep, LeavesAt
<1>3. Leaving!Solves(Leaves, DOMAIN Json)
  BY <1>1, <1>2
<1>4. Leaves[n] = LeavesStep(Leaves, n)
  BY <1>3 DEF Leaving!Solves
<1>5. QED
  BY <1>4 DEF LeavesStep

IsLeaf(l) == DOMAIN l = {"where", "kind", "at", "tol"}

\* A leaf seen from a step further out.
Under(step, l) == [l EXCEPT !.where = <<step, @>>]

\* A leaf a place further down is the same leaf.
LEMMA UnderFacts ==
  ASSUME NEW l, IsLeaf(l), NEW step
  PROVE  /\ IsLeaf(Under(step, l)) /\ Under(step, l).where = <<step, l.where>>
         /\ Under(step, l).kind = l.kind /\ Under(step, l).at = l.at /\ Under(step, l).tol = l.tol
BY DEF IsLeaf, Under

\* Leaves are only the same if what they are told by is.
LEMMA SameBelow ==
  ASSUME NEW x, NEW y, NEW xx, NEW yy, xx.kind = x.kind, xx.at = x.at, xx.tol = x.tol,
         yy.kind = y.kind, yy.at = y.at, yy.tol = y.tol
  PROVE  SameLeaf(xx, yy) <=> SameLeaf(x, y)
BY DEF SameLeaf

\* The leaves of what has the leaves of A[k] under each k.
Grown(root, tag, K, A) == {root} \cup UNION {{Under(<<tag, k>>, l) : l \in A[k]} : k \in K}

\* What is among them.
LEMMA GrownMembers ==
  ASSUME NEW root, NEW tag, NEW K, NEW A
  PROVE  /\ root \in Grown(root, tag, K, A)
         /\ \A k \in K : \A l \in A[k] : Under(<<tag, k>>, l) \in Grown(root, tag, K, A)
         /\ \A x \in Grown(root, tag, K, A) : x = root \/ \E k \in K : \E l \in A[k] : x = Under(<<tag, k>>, l)
BY DEF Grown

\* The place of every leaf of a is one of b's.
Covers(a, b) == \A x \in a : \E y \in b : y.where = x.where

\* The same places are the places of each in the other.
LEMMA CoveringBothWays ==
  ASSUME NEW a, NEW b
  PROVE  {x.where : x \in a} = {y.where : y \in b} <=> Covers(a, b) /\ Covers(b, a)
<1> DEFINE W == {x.where : x \in a}
           V == {y.where : y \in b}
<1>1. W \subseteq V <=> Covers(a, b)
  <2>1. ASSUME W \subseteq V, NEW x \in a PROVE \E y \in b : y.where = x.where
    <3>1. x.where \in W
      OBVIOUS
    <3>2. x.where \in V
      BY <2>1, <3>1
    <3>3. QED
      BY <3>2
  <2>2. ASSUME Covers(a, b), NEW w \in W PROVE w \in V
    BY <2>2 DEF Covers
  <2> HIDE DEF W, V
  <2>3. QED
    BY <2>1, <2>2 DEF Covers
<1>2. V \subseteq W <=> Covers(b, a)
  <2>1. ASSUME V \subseteq W, NEW y \in b PROVE \E x \in a : x.where = y.where
    <3>1. y.where \in V
      OBVIOUS
    <3>2. y.where \in W
      BY <2>1, <3>1
    <3>3. QED
      BY <3>2
  <2>2. ASSUME Covers(b, a), NEW v \in V PROVE v \in W
    BY <2>2 DEF Covers
  <2> HIDE DEF W, V
  <2>3. QED
    BY <2>1, <2>2 DEF Covers
<1> HIDE DEF W, V
<1>3. W = V <=> Covers(a, b) /\ Covers(b, a)
  BY <1>1, <1>2
<1>4. QED
  BY <1>3 DEF W, V

\* What has leaves below.
Rooted(root, K, A) == IsLeaf(root) /\ root.where = <<>> /\ \A k \in K : \A l \in A[k] : IsLeaf(l)

\* A place below is not the root's.
LEMMA TwoNotEmpty == ASSUME NEW a, NEW b PROVE <<a, b>> # <<>>
<1>2. Len(<<a, b>>) = 2 /\ Len(<<>>) = 0
  OBVIOUS
<1>3. QED
  BY <1>2

\* Two places are one if both their parts are.
LEMMA PairsEqual == ASSUME NEW a, NEW b, NEW c, NEW d, <<a, b>> = <<c, d>> PROVE a = c /\ b = d
OBVIOUS

\* The places of the whole are covered if those of every part are.
LEMMA CoversParts ==
  ASSUME NEW r, NEW q, NEW tag, NEW K, NEW A, NEW B, Rooted(r, K, A), Rooted(q, K, B)
  PROVE  Covers(Grown(r, tag, K, A), Grown(q, tag, K, B)) <=> \A k \in K : Covers(A[k], B[k])
<1> DEFINE GA == Grown(r, tag, K, A)
           GB == Grown(q, tag, K, B)
<1>1. ASSUME Covers(GA, GB), NEW k \in K, NEW l \in A[k] PROVE \E m \in B[k] : m.where = l.where
  <2> DEFINE x == Under(<<tag, k>>, l)
  <2>1. x \in GA
    BY GrownMembers
  <2>2. PICK y \in GB : y.where = x.where
    BY <1>1, <2>1 DEF Covers
  <2>3. x.where = <<<<tag, k>>, l.where>>
    BY UnderFacts DEF Rooted
  <2> HIDE DEF x, GA, GB
  <2>4. y # q
    <3>1. x.where # <<>>
      BY <2>3, TwoNotEmpty
    <3>2. QED
      BY <2>2, <3>1 DEF Rooted
  <2>5. PICK j \in K : \E m \in B[j] : y = Under(<<tag, j>>, m)
    BY <2>4, GrownMembers DEF GB
  <2>9. PICK m \in B[j] : y = Under(<<tag, j>>, m)
    BY <2>5
  <2>6. y.where = <<<<tag, j>>, m.where>>
    BY <2>9, UnderFacts DEF Rooted
  <2>7. j = k /\ m.where = l.where
    BY <2>2, <2>3, <2>6
  <2>8. QED
    BY <2>7
<1>2. ASSUME \A k \in K : Covers(A[k], B[k]), NEW x \in GA PROVE \E y \in GB : y.where = x.where
  <2>1. CASE x = r
    BY <2>1, GrownMembers DEF Rooted
  <2>2. CASE x # r
    <3>5. PICK k \in K : \E l \in A[k] : x = Under(<<tag, k>>, l)
      BY <2>2, GrownMembers
    <3>1. PICK l \in A[k] : x = Under(<<tag, k>>, l)
      BY <3>5
    <3>2. PICK m \in B[k] : m.where = l.where
      BY <1>2 DEF Covers
    <3>3. Under(<<tag, k>>, m) \in GB
      BY GrownMembers
    <3>4. Under(<<tag, k>>, m).where = x.where
      BY <3>1, <3>2, UnderFacts DEF Rooted
    <3>6. QED
      BY <3>3, <3>4
  <2>3. QED
    BY <2>1, <2>2
<1> HIDE DEF GA, GB
<1>3. QED
  BY <1>1, <1>2 DEF Covers, GA, GB

\* Two wholes are the same if they are at their roots and in every part.
LEMMA SameParts ==
  ASSUME NEW r, NEW q, NEW tag, NEW K, NEW A, NEW B, Rooted(r, K, A), Rooted(q, K, B)
  PROVE  SameLeaves(Grown(r, tag, K, A), Grown(q, tag, K, B))
           <=> SameLeaf(r, q) /\ \A k \in K : SameLeaves(A[k], B[k])
<1> DEFINE GA == Grown(r, tag, K, A)
           GB == Grown(q, tag, K, B)
           Alike(a, b) == \A x \in a, y \in b : x.where = y.where => SameLeaf(x, y)
<1>1. \A a, b : SameLeaves(a, b) <=> Covers(a, b) /\ Covers(b, a) /\ Alike(a, b)
  BY CoveringBothWays DEF SameLeaves
<1>2. /\ Covers(GA, GB) <=> \A k \in K : Covers(A[k], B[k])
      /\ Covers(GB, GA) <=> \A k \in K : Covers(B[k], A[k])
  BY CoversParts
<1>3. ASSUME Alike(GA, GB) PROVE SameLeaf(r, q)
  BY <1>3, GrownMembers DEF Rooted
<1>4. ASSUME Alike(GA, GB), NEW k \in K, NEW l \in A[k], NEW m \in B[k], l.where = m.where PROVE SameLeaf(l, m)
  <2> DEFINE x == Under(<<tag, k>>, l)
             y == Under(<<tag, k>>, m)
  <2>1. x \in GA /\ y \in GB
    BY GrownMembers
  <2>2. /\ x.where = y.where /\ x.kind = l.kind /\ x.at = l.at /\ x.tol = l.tol
        /\ y.kind = m.kind /\ y.at = m.at /\ y.tol = m.tol
    BY <1>4, UnderFacts DEF Rooted
  <2> HIDE DEF x, y, GA, GB
  <2>3. SameLeaf(x, y)
    BY <1>4, <2>1, <2>2
  <2>4. QED
    BY <2>2, <2>3, SameBelow
<1>5. ASSUME SameLeaf(r, q), \A k \in K : Alike(A[k], B[k]), NEW x \in GA, NEW y \in GB, x.where = y.where
      PROVE  SameLeaf(x, y)
  <2>1. ASSUME NEW k \in K, NEW l \in A[k], x = Under(<<tag, k>>, l),
               NEW j \in K, NEW m \in B[j], y = Under(<<tag, j>>, m)
        PROVE  SameLeaf(x, y)
    <3>1. /\ x.where = <<<<tag, k>>, l.where>> /\ x.kind = l.kind /\ x.at = l.at /\ x.tol = l.tol
          /\ y.where = <<<<tag, j>>, m.where>> /\ y.kind = m.kind /\ y.at = m.at /\ y.tol = m.tol
      BY <2>1, UnderFacts DEF Rooted
    <3>5. <<tag, k>> = <<tag, j>> /\ l.where = m.where
      <4>1. <<<<tag, k>>, l.where>> = <<<<tag, j>>, m.where>>
        BY <1>5, <3>1
      <4>2. QED
        BY <4>1, PairsEqual
    <3>2. k = j /\ l.where = m.where
      BY <3>5, PairsEqual
    <3>3. SameLeaf(l, m)
      BY <1>5, <3>2
    <3>4. QED
      BY <3>1, <3>3, SameBelow
  <2>2. ASSUME NEW k \in K, NEW l \in A[k], x = Under(<<tag, k>>, l) PROVE y # q
    <3>1. x.where = <<<<tag, k>>, l.where>>
      BY <2>2, UnderFacts DEF Rooted
    <3>2. QED
      BY <1>5, <3>1, TwoNotEmpty DEF Rooted
  <2>3. ASSUME NEW j \in K, NEW m \in B[j], y = Under(<<tag, j>>, m) PROVE x # r
    <3>1. y.where = <<<<tag, j>>, m.where>>
      BY <2>3, UnderFacts DEF Rooted
    <3>2. QED
      BY <1>5, <3>1, TwoNotEmpty DEF Rooted
  <2>4. /\ x = r \/ \E k \in K : \E l \in A[k] : x = Under(<<tag, k>>, l)
        /\ y = q \/ \E j \in K : \E m \in B[j] : y = Under(<<tag, j>>, m)
    <3>1. x = r \/ \E k \in K : \E l \in A[k] : x = Under(<<tag, k>>, l)
      BY GrownMembers
    <3>2. y = q \/ \E j \in K : \E m \in B[j] : y = Under(<<tag, j>>, m)
      BY GrownMembers
    <3>3. QED
      BY <3>1, <3>2
  <2>5. QED
    BY <1>5, <2>1, <2>2, <2>3, <2>4
<1>6. ASSUME Alike(GA, GB) PROVE SameLeaf(r, q) /\ \A k \in K : Alike(A[k], B[k])
  BY <1>3, <1>4, <1>6
<1>7. ASSUME SameLeaf(r, q), \A k \in K : Alike(A[k], B[k]) PROVE Alike(GA, GB)
  BY <1>5, <1>7
<1> HIDE DEF GA, GB, Alike
<1>8. QED
  BY <1>1, <1>2, <1>6, <1>7 DEF GA, GB

\* The root of a value, and the leaves of its parts.
Root(n, tol) ==
  LET x == Json[n]
  IN  IF x.kind = "dict" THEN [where |-> <<>>, kind |-> "keys", at |-> Keys(x), tol |-> tol]
      ELSE IF x.kind = "list" THEN [where |-> <<>>, kind |-> "length", at |-> Len(x.at), tol |-> tol]
      ELSE [where |-> <<>>, kind |-> x.kind, at |-> x.at, tol |-> tol]

OfKeys(n, tol) == [k \in Keys(Json[n]) |-> Leaves[Json[n].at[k]][Inner(k, tol)]]
OfPlaces(n, tol) == [i \in DOMAIN Json[n].at |-> Leaves[Json[n].at[i]][tol]]

\* The leaves of a dict or a list are its own place and those of its parts; of any other value, its own place.
LEMMA LeavesGrow ==
  ASSUME NEW n \in DOMAIN Json, NEW tol \in Tolerances
  PROVE  /\ Json[n].kind = "dict" => Leaves[n][tol] = Grown(Root(n, tol), "key", Keys(Json[n]), OfKeys(n, tol))
         /\ Json[n].kind = "list" => Leaves[n][tol] = Grown(Root(n, tol), "index", DOMAIN Json[n].at, OfPlaces(n, tol))
         /\ Json[n].kind \notin Nests => Leaves[n][tol] = {Root(n, tol)}
<1> DEFINE x == Json[n]
           under(step, leaves) == {[l EXCEPT !.where = <<step, @>>] : l \in leaves}
<1>1. Leaves[n][tol] = LeavesAt(Leaves, n, tol)
  BY LeavesUnfold
<1>2. CASE x.kind = "dict"
  <2> DEFINE all == UNION {under(<<"key", k>>, Leaves[x.at[k]][Inner(k, tol)]) : k \in Keys(x)}
             grown == UNION {{Under(<<"key", k>>, l) : l \in OfKeys(n, tol)[k]} : k \in Keys(x)}
  <2>1. Leaves[n][tol] = {Root(n, tol)} \cup all
    BY <1>1, <1>2 DEF LeavesAt, Root
  <2>2. \A k \in Keys(x) : OfKeys(n, tol)[k] = Leaves[x.at[k]][Inner(k, tol)]
    BY DEF OfKeys
  <2>3. \A k \in Keys(x) : under(<<"key", k>>, Leaves[x.at[k]][Inner(k, tol)])
                             = {Under(<<"key", k>>, l) : l \in OfKeys(n, tol)[k]}
    BY <2>2 DEF Under
  <2>4. all = grown
    <3> DEFINE one(k) == under(<<"key", k>>, Leaves[x.at[k]][Inner(k, tol)])
               other(k) == {Under(<<"key", k>>, l) : l \in OfKeys(n, tol)[k]}
    <3>1. \A k \in Keys(x) : one(k) = other(k)
      BY <2>3
    <3> HIDE DEF one, other
    <3>2. UNION {one(k) : k \in Keys(x)} = UNION {other(k) : k \in Keys(x)}
      BY <3>1
    <3>3. QED
      BY <3>2 DEF one, other
  <2> HIDE DEF all, x
  <2>5. Grown(Root(n, tol), "key", Keys(x), OfKeys(n, tol)) = {Root(n, tol)} \cup grown
    BY DEF Grown
  <2> HIDE DEF grown
  <2>6. QED
    BY <1>2, <2>1, <2>4, <2>5 DEF x, Nests
<1>3. CASE x.kind = "list"
  <2> DEFINE all == UNION {under(<<"index", i>>, Leaves[x.at[i]][tol]) : i \in DOMAIN x.at}
             grown == UNION {{Under(<<"index", i>>, l) : l \in OfPlaces(n, tol)[i]} : i \in DOMAIN x.at}
  <2>1. Leaves[n][tol] = {Root(n, tol)} \cup all
    BY <1>1, <1>3 DEF LeavesAt, Root
  <2>2. \A i \in DOMAIN x.at : OfPlaces(n, tol)[i] = Leaves[x.at[i]][tol]
    BY DEF OfPlaces
  <2>3. \A i \in DOMAIN x.at : under(<<"index", i>>, Leaves[x.at[i]][tol])
                                 = {Under(<<"index", i>>, l) : l \in OfPlaces(n, tol)[i]}
    BY <2>2 DEF Under
  <2>4. all = grown
    <3> DEFINE one(i) == under(<<"index", i>>, Leaves[x.at[i]][tol])
               other(i) == {Under(<<"index", i>>, l) : l \in OfPlaces(n, tol)[i]}
    <3>1. \A i \in DOMAIN x.at : one(i) = other(i)
      BY <2>3
    <3> HIDE DEF one, other
    <3>2. UNION {one(i) : i \in DOMAIN x.at} = UNION {other(i) : i \in DOMAIN x.at}
      BY <3>1
    <3>3. QED
      BY <3>2 DEF one, other
  <2> HIDE DEF all, x
  <2>5. Grown(Root(n, tol), "index", DOMAIN x.at, OfPlaces(n, tol)) = {Root(n, tol)} \cup grown
    BY DEF Grown
  <2> HIDE DEF grown
  <2>6. QED
    BY <1>3, <2>1, <2>4, <2>5 DEF x, Nests
<1>4. CASE x.kind \notin Nests
  <2>1. Leaves[n][tol] = {Root(n, tol)}
    BY <1>1, <1>4 DEF LeavesAt, Root, Nests
  <2>2. QED
    BY <1>4, <2>1 DEF Nests
<1>5. QED
  BY <1>2, <1>3, <1>4 DEF Nests

\* Leaves are leaves, and none of them is of a blob that is not JSON, if the whole is not.
LEMMA LeavesAreLeaves ==
  ASSUME NEW n \in DOMAIN Json, NEW tol \in Tolerances
  PROVE  \A l \in Leaves[n][tol] : IsLeaf(l) /\ (Json[n].kind # "bytes" => l.kind # "bytes")
<1> DEFINE Fine(m, t) == \A l \in Leaves[m][t] : IsLeaf(l) /\ (Json[m].kind # "bytes" => l.kind # "bytes")
           Bad == {m \in DOMAIN Json : \E t \in Tolerances : ~Fine(m, t)}
<1>1. SUFFICES ASSUME Bad # {} PROVE FALSE
  OBVIOUS
<1>2. PICK m \in Bad : PartsOf[m] \cap Bad = {}
  <2> HIDE DEF Bad
  <2>1. Bad \subseteq DOMAIN Json
    BY DEF Bad
  <2>2. QED
    BY <1>1, <2>1, NoValueInItself DEF Walking!WellFounded
<1>3. m \in DOMAIN Json
  OBVIOUS
<1>4. ASSUME NEW t \in Tolerances PROVE Fine(m, t)
  <2> DEFINE x == Json[m]
             root == Root(m, t)
  <2>1. IsLeaf(root) /\ (x.kind # "bytes" => root.kind # "bytes")
    BY DEF Root, IsLeaf
  <2>2. \A p \in PartsOf[m], tt \in Tolerances : p \in DOMAIN Json => Fine(p, tt) /\ Json[p].kind # "bytes"
    <3>1. \A p \in PartsOf[m] : Json[p].kind # "bytes"
      BY <1>3, ComparisonAssumption DEF PartsOf
    <3> HIDE DEF Fine
    <3>2. QED
      BY <1>2, <3>1
  <2>3. CASE x.kind = "dict"
    <3>1. ASSUME NEW k \in Keys(x), NEW l \in OfKeys(m, t)[k] PROVE IsLeaf(l) /\ l.kind # "bytes"
      <4>1. x.at[k] \in PartsOf[m] /\ x.at[k] \in DOMAIN Json
        BY <1>3, <2>3, PartsAt
      <4>2. l \in Leaves[x.at[k]][Inner(k, t)] /\ Inner(k, t) \in Tolerances
        BY InnerRule DEF OfKeys
      <4>3. QED
        BY <2>2, <4>1, <4>2
    <3>2. Leaves[m][t] = Grown(root, "key", Keys(x), OfKeys(m, t))
      BY <1>3, <2>3, LeavesGrow
    <3> HIDE DEF x, root
    <3>3. ASSUME NEW l \in Leaves[m][t] PROVE IsLeaf(l) /\ (x.kind # "bytes" => l.kind # "bytes")
      <4>1. CASE l = root
        BY <2>1, <4>1
      <4>2. CASE l # root
        <5>1. PICK k \in Keys(x) : \E y \in OfKeys(m, t)[k] : l = Under(<<"key", k>>, y)
          BY <3>2, <4>2, GrownMembers
        <5>2. PICK y \in OfKeys(m, t)[k] : l = Under(<<"key", k>>, y)
          BY <5>1
        <5>3. QED
          BY <3>1, <5>2, UnderFacts
      <4>3. QED
        BY <4>1, <4>2
    <3>4. QED
      BY <3>3 DEF x
  <2>4. CASE x.kind = "list"
    <3>1. ASSUME NEW i \in DOMAIN x.at, NEW l \in OfPlaces(m, t)[i] PROVE IsLeaf(l) /\ l.kind # "bytes"
      <4>1. x.at[i] \in PartsOf[m] /\ x.at[i] \in DOMAIN Json
        BY <1>3, <2>4, PartsAt
      <4>2. l \in Leaves[x.at[i]][t]
        BY DEF OfPlaces
      <4>3. QED
        BY <2>2, <4>1, <4>2
    <3>2. Leaves[m][t] = Grown(root, "index", DOMAIN x.at, OfPlaces(m, t))
      BY <1>3, <2>4, LeavesGrow
    <3> HIDE DEF x, root
    <3>3. ASSUME NEW l \in Leaves[m][t] PROVE IsLeaf(l) /\ (x.kind # "bytes" => l.kind # "bytes")
      <4>1. CASE l = root
        BY <2>1, <4>1
      <4>2. CASE l # root
        <5>1. PICK i \in DOMAIN x.at : \E y \in OfPlaces(m, t)[i] : l = Under(<<"index", i>>, y)
          BY <3>2, <4>2, GrownMembers
        <5>2. PICK y \in OfPlaces(m, t)[i] : l = Under(<<"index", i>>, y)
          BY <5>1
        <5>3. QED
          BY <3>1, <5>2, UnderFacts
      <4>3. QED
        BY <4>1, <4>2
    <3>4. QED
      BY <3>3 DEF x
  <2>5. CASE x.kind \notin Nests
    <3>1. Leaves[m][t] = {root}
      BY <1>3, <2>5, LeavesGrow
    <3>2. QED
      BY <2>1, <3>1
  <2>6. QED
    BY <2>3, <2>4, <2>5 DEF Nests
<1>5. QED
  BY <1>4

\* Roots of what nests differently differ.
LEMMA SameRoots ==
  ASSUME NEW m \in DOMAIN Json, NEW n \in DOMAIN Json, NEW tol \in Tolerances
  PROVE  LET a == Json[m]
             b == Json[n]
             same == SameLeaf(Root(m, tol), Root(n, tol))
         IN  /\ a.kind = "dict" /\ b.kind = "dict" => (same <=> Keys(a) = Keys(b))
             /\ a.kind = "list" /\ b.kind = "list" => (same <=> Len(a.at) = Len(b.at))
             /\ a.kind \notin Nests /\ b.kind \notin Nests =>
                  (same <=> IF {a.kind, b.kind} \subseteq Numbers /\ "float" \in {a.kind, b.kind}
                            THEN IsClose(a.at, b.at, tol) ELSE a.kind = b.kind /\ a.at = b.at)
             /\ a.kind \in Nests \/ b.kind \in Nests => a.kind = b.kind \/ ~same
<1> DEFINE a == Json[m]
           b == Json[n]
           r == Root(m, tol)
           q == Root(n, tol)
<1>1. /\ a.kind = "dict" => r.kind = "keys" /\ r.at = Keys(a)
      /\ a.kind = "list" => r.kind = "length" /\ r.at = Len(a.at)
      /\ a.kind \notin Nests => r.kind = a.kind /\ r.at = a.at
      /\ r.tol = tol
  BY DEF Root, Nests
<1>2. /\ b.kind = "dict" => q.kind = "keys" /\ q.at = Keys(b)
      /\ b.kind = "list" => q.kind = "length" /\ q.at = Len(b.at)
      /\ b.kind \notin Nests => q.kind = b.kind /\ q.at = b.at
  BY DEF Root, Nests
<1>3. /\ a.kind \in Nests \cup Numbers \cup {"str", "bool", "null", "bytes"}
      /\ b.kind \in Nests \cup Numbers \cup {"str", "bool", "null", "bytes"}
  BY ComparisonAssumption
<1> HIDE DEF a, b, r, q
<1>4. a.kind = "dict" /\ b.kind = "dict" => (SameLeaf(r, q) <=> Keys(a) = Keys(b))
  BY <1>1, <1>2 DEF SameLeaf, Numbers
<1>5. a.kind = "list" /\ b.kind = "list" => (SameLeaf(r, q) <=> Len(a.at) = Len(b.at))
  BY <1>1, <1>2 DEF SameLeaf, Numbers
<1>6. a.kind \notin Nests /\ b.kind \notin Nests =>
        (SameLeaf(r, q) <=> IF {a.kind, b.kind} \subseteq Numbers /\ "float" \in {a.kind, b.kind}
                            THEN IsClose(a.at, b.at, tol) ELSE a.kind = b.kind /\ a.at = b.at)
  BY <1>1, <1>2 DEF SameLeaf
<1>7. a.kind \in Nests \/ b.kind \in Nests => a.kind = b.kind \/ ~SameLeaf(r, q)
  BY <1>1, <1>2, <1>3 DEF SameLeaf, Numbers, Nests
<1>8. QED
  BY <1>4, <1>5, <1>6, <1>7 DEF a, b, r, q

\* The leaves of what nests are its root's and those below.
LEMMA LeavesRooted ==
  ASSUME NEW n \in DOMAIN Json, NEW tol \in Tolerances
  PROVE  /\ Json[n].kind = "dict" => Rooted(Root(n, tol), Keys(Json[n]), OfKeys(n, tol))
         /\ Json[n].kind = "list" => Rooted(Root(n, tol), DOMAIN Json[n].at, OfPlaces(n, tol))
<1>1. IsLeaf(Root(n, tol)) /\ Root(n, tol).where = <<>>
  BY DEF Root, IsLeaf
<1>2. ASSUME Json[n].kind = "dict", NEW k \in Keys(Json[n]), NEW l \in OfKeys(n, tol)[k] PROVE IsLeaf(l)
  <2>1. Json[n].at[k] \in DOMAIN Json /\ Inner(k, tol) \in Tolerances
    BY <1>2, PartsAt, InnerRule
  <2>2. l \in Leaves[Json[n].at[k]][Inner(k, tol)]
    BY <1>2 DEF OfKeys
  <2>3. QED
    BY <2>1, <2>2, LeavesAreLeaves
<1>3. ASSUME Json[n].kind = "list", NEW i \in DOMAIN Json[n].at, NEW l \in OfPlaces(n, tol)[i] PROVE IsLeaf(l)
  <2>1. Json[n].at[i] \in DOMAIN Json
    BY <1>3, PartsAt
  <2>2. l \in Leaves[Json[n].at[i]][tol]
    BY <1>3 DEF OfPlaces
  <2>3. QED
    BY <2>1, <2>2, LeavesAreLeaves
<1>4. QED
  BY <1>1, <1>2, <1>3 DEF Rooted

\* Every value has its root among its leaves.
LEMMA RootIsLeaf ==
  ASSUME NEW n \in DOMAIN Json, NEW tol \in Tolerances
  PROVE  Root(n, tol) \in Leaves[n][tol] /\ Root(n, tol).where = <<>> /\ Root(n, tol).tol = tol
<1>1. Root(n, tol).where = <<>> /\ Root(n, tol).tol = tol
  BY DEF Root
<1>2. Root(n, tol) \in Leaves[n][tol]
  BY LeavesGrow, GrownMembers DEF Nests
<1>3. QED
  BY <1>1, <1>2

\* What the walk finds nothing in: _walk's cases.
LEMMA WalkFindsNothing ==
  ASSUME NEW m \in DOMAIN Json, NEW n \in DOMAIN Json, NEW tol \in Tolerances
  PROVE  LET a == Json[m]
             b == Json[n]
             nothing == Walk[m][n][tol] = {}
         IN  /\ a.kind = "dict" /\ b.kind = "dict" =>
                  (nothing <=> Keys(a) = Keys(b) /\ \A k \in Keys(a) : Walk[a.at[k]][b.at[k]][Inner(k, tol)] = {})
             /\ a.kind = "list" /\ b.kind = "list" =>
                  (nothing <=> Len(a.at) = Len(b.at) /\ \A i \in DOMAIN a.at : Walk[a.at[i]][b.at[i]][tol] = {})
             /\ a.kind \notin Nests /\ b.kind \notin Nests =>
                  (nothing <=> IF {a.kind, b.kind} \subseteq Numbers /\ "float" \in {a.kind, b.kind}
                               THEN IsClose(a.at, b.at, tol) ELSE a.kind = b.kind /\ a.at = b.at)
             /\ a.kind \in Nests \/ b.kind \in Nests => a.kind = b.kind \/ ~nothing
<1> DEFINE a == Json[m]
           b == Json[n]
           found == Walk[m][n][tol]
<1>1. found = WalkAt(Walk, m, n, tol)
  BY WalkUnfolds
<1>2. CASE a.kind = "dict" /\ b.kind = "dict"
  <2> DEFINE odd == {<<"key", k>> : k \in (Keys(a) \ Keys(b)) \cup (Keys(b) \ Keys(a))}
             inner(k) == Walk[a.at[k]][b.at[k]][Inner(k, tol)]
  <2>1. found = odd \cup UNION {inner(k) : k \in Keys(a) \cap Keys(b)}
    BY <1>1, <1>2 DEF WalkAt
  <2> HIDE DEF inner, found, a, b
  <2>2. odd = {} <=> Keys(a) = Keys(b)
    OBVIOUS
  <2> HIDE DEF odd
  <2>3. UNION {inner(k) : k \in Keys(a) \cap Keys(b)} = {} <=> \A k \in Keys(a) \cap Keys(b) : inner(k) = {}
    OBVIOUS
  <2>4. found = {} <=> Keys(a) = Keys(b) /\ \A k \in Keys(a) : inner(k) = {}
    BY <2>1, <2>2, <2>3
  <2>5. QED
    BY <1>2, <2>4 DEF a, b, found, inner, Nests
<1>3. CASE a.kind = "list" /\ b.kind = "list"
  <2> DEFINE inner(i) == Walk[a.at[i]][b.at[i]][tol]
  <2>1. found = IF Len(a.at) # Len(b.at) THEN {<<"length", m>>} ELSE UNION {inner(i) : i \in DOMAIN a.at}
    BY <1>1, <1>3 DEF WalkAt
  <2> HIDE DEF inner, found, a, b
  <2>2. UNION {inner(i) : i \in DOMAIN a.at} = {} <=> \A i \in DOMAIN a.at : inner(i) = {}
    OBVIOUS
  <2>3. found = {} <=> Len(a.at) = Len(b.at) /\ \A i \in DOMAIN a.at : inner(i) = {}
    BY <2>1, <2>2
  <2>4. QED
    BY <1>3, <2>3 DEF a, b, found, inner, Nests
<1>4. CASE ~(a.kind = "dict" /\ b.kind = "dict") /\ ~(a.kind = "list" /\ b.kind = "list")
  <2>1. found = IF {a.kind, b.kind} \subseteq Numbers /\ "float" \in {a.kind, b.kind}
                THEN IF IsClose(a.at, b.at, tol) THEN {} ELSE {<<"beyond", m>>}
                ELSE IF a.kind = b.kind /\ a.at = b.at THEN {} ELSE {<<"value", m>>}
    BY <1>1, <1>4 DEF WalkAt
  <2> DEFINE numeric == {a.kind, b.kind} \subseteq Numbers /\ "float" \in {a.kind, b.kind}
  <2>2. a.kind \in Nests \/ b.kind \in Nests => ~numeric
    BY DEF Nests, Numbers
  <2> HIDE DEF found, a, b, numeric
  <2>3. ASSUME a.kind \in Nests \/ b.kind \in Nests PROVE a.kind # b.kind
    BY <1>4, <2>3 DEF Nests
  <2>4. ASSUME numeric PROVE found = {} <=> IsClose(a.at, b.at, tol)
    BY <2>1, <2>4 DEF numeric
  <2>5. ASSUME ~numeric PROVE found = {} <=> a.kind = b.kind /\ a.at = b.at
    BY <2>1, <2>5 DEF numeric
  <2>6. a.kind \in Nests \/ b.kind \in Nests => found # {}
    BY <2>2, <2>3, <2>5
  <2>7. found = {} <=> IF numeric THEN IsClose(a.at, b.at, tol) ELSE a.kind = b.kind /\ a.at = b.at
    BY <2>4, <2>5
  <2>8. QED
    BY <1>4, <2>6, <2>7 DEF a, b, found, numeric
<1>5. QED
  BY <1>2, <1>3, <1>4

\* The walk through two values finds nothing exactly if their leaves are the same.
LEMMA WalkAgrees ==
  ASSUME NEW m \in DOMAIN Json, NEW n \in DOMAIN Json, NEW tol \in Tolerances
  PROVE  Walk[m][n][tol] = {} <=> SameLeaves(Leaves[m][tol], Leaves[n][tol])
<1> DEFINE Agrees(x, y, t) == Walk[x][y][t] = {} <=> SameLeaves(Leaves[x][t], Leaves[y][t])
           Bad == {x \in DOMAIN Json : \E y \in DOMAIN Json, t \in Tolerances : ~Agrees(x, y, t)}
<1>1. SUFFICES ASSUME Bad # {} PROVE FALSE
  OBVIOUS
<1>2. PICK x \in Bad : PartsOf[x] \cap Bad = {}
  <2> HIDE DEF Bad
  <2>1. Bad \subseteq DOMAIN Json
    BY DEF Bad
  <2>2. QED
    BY <1>1, <2>1, NoValueInItself DEF Walking!WellFounded
<1>3. x \in DOMAIN Json
  OBVIOUS
<1>4. \A p \in PartsOf[x], y \in DOMAIN Json, t \in Tolerances : p \in DOMAIN Json => Agrees(p, y, t)
  <2> HIDE DEF Agrees
  <2>1. QED
    BY <1>2
<1>5. ASSUME NEW y \in DOMAIN Json, NEW t \in Tolerances PROVE Agrees(x, y, t)
  <2> DEFINE a == Json[x]
             b == Json[y]
             r == Root(x, t)
             q == Root(y, t)
             A == Leaves[x][t]
             B == Leaves[y][t]
             nothing == Walk[x][y][t] = {}
  <2>1. SameLeaves(A, B) => SameLeaf(r, q)
    BY <1>3, RootIsLeaf DEF SameLeaves
  <2>2. CASE a.kind = "dict" /\ b.kind = "dict" /\ Keys(a) = Keys(b)
    <3>1. A = Grown(r, "key", Keys(a), OfKeys(x, t)) /\ B = Grown(q, "key", Keys(a), OfKeys(y, t))
      BY <1>3, <2>2, LeavesGrow
    <3>2. Rooted(r, Keys(a), OfKeys(x, t)) /\ Rooted(q, Keys(a), OfKeys(y, t))
      BY <1>3, <2>2, LeavesRooted
    <3>3. SameLeaf(r, q)
      BY <1>3, <2>2, SameRoots
    <3>4. nothing <=> \A k \in Keys(a) : Walk[a.at[k]][b.at[k]][Inner(k, t)] = {}
      BY <1>3, <2>2, WalkFindsNothing
    <3>5. ASSUME NEW k \in Keys(a)
          PROVE  Walk[a.at[k]][b.at[k]][Inner(k, t)] = {} <=> SameLeaves(OfKeys(x, t)[k], OfKeys(y, t)[k])
      <4>1. /\ a.at[k] \in PartsOf[x] /\ a.at[k] \in DOMAIN Json /\ b.at[k] \in DOMAIN Json
            /\ Inner(k, t) \in Tolerances
        BY <1>3, <2>2, PartsAt, InnerRule
      <4>2. OfKeys(x, t)[k] = Leaves[a.at[k]][Inner(k, t)] /\ OfKeys(y, t)[k] = Leaves[b.at[k]][Inner(k, t)]
        BY <2>2 DEF OfKeys
      <4>3. QED
        BY <1>4, <4>1, <4>2
    <3>6. SameLeaves(A, B) <=> SameLeaf(r, q) /\ \A k \in Keys(a) : SameLeaves(OfKeys(x, t)[k], OfKeys(y, t)[k])
      BY <3>1, <3>2, SameParts
    <3> HIDE DEF a, b, A, B, r, q, nothing
    <3>7. nothing <=> SameLeaves(A, B)
      BY <3>3, <3>4, <3>5, <3>6
    <3>8. QED
      BY <3>7 DEF nothing, A, B
  <2>3. CASE a.kind = "list" /\ b.kind = "list" /\ Len(a.at) = Len(b.at)
    <3>0. DOMAIN a.at = DOMAIN b.at
      BY <1>3, <2>3, PartsAt
    <3>1. A = Grown(r, "index", DOMAIN a.at, OfPlaces(x, t)) /\ B = Grown(q, "index", DOMAIN a.at, OfPlaces(y, t))
      BY <1>3, <2>3, <3>0, LeavesGrow
    <3>2. Rooted(r, DOMAIN a.at, OfPlaces(x, t)) /\ Rooted(q, DOMAIN a.at, OfPlaces(y, t))
      BY <1>3, <2>3, <3>0, LeavesRooted
    <3>3. SameLeaf(r, q)
      BY <1>3, <2>3, SameRoots
    <3>4. nothing <=> \A i \in DOMAIN a.at : Walk[a.at[i]][b.at[i]][t] = {}
      BY <1>3, <2>3, WalkFindsNothing
    <3>5. ASSUME NEW i \in DOMAIN a.at
          PROVE  Walk[a.at[i]][b.at[i]][t] = {} <=> SameLeaves(OfPlaces(x, t)[i], OfPlaces(y, t)[i])
      <4>1. a.at[i] \in PartsOf[x] /\ a.at[i] \in DOMAIN Json /\ b.at[i] \in DOMAIN Json
        BY <1>3, <2>3, <3>0, PartsAt
      <4>2. OfPlaces(x, t)[i] = Leaves[a.at[i]][t] /\ OfPlaces(y, t)[i] = Leaves[b.at[i]][t]
        BY <3>0 DEF OfPlaces
      <4>3. QED
        BY <1>4, <4>1, <4>2
    <3>6. SameLeaves(A, B) <=> SameLeaf(r, q) /\ \A i \in DOMAIN a.at : SameLeaves(OfPlaces(x, t)[i], OfPlaces(y, t)[i])
      BY <3>1, <3>2, SameParts
    <3> HIDE DEF a, b, A, B, r, q, nothing
    <3>7. nothing <=> SameLeaves(A, B)
      BY <3>3, <3>4, <3>5, <3>6
    <3>8. QED
      BY <3>7 DEF nothing, A, B
  <2>4. CASE a.kind \notin Nests /\ b.kind \notin Nests
    <3>1. A = {r} /\ B = {q}
      BY <1>3, <2>4, LeavesGrow
    <3>2. r.where = <<>> /\ q.where = <<>>
      BY <1>3, RootIsLeaf
    <3>3. SameLeaves(A, B) <=> SameLeaf(r, q)
      <4> HIDE DEF A, B, r, q
      <4>1. {z.where : z \in A} = {z.where : z \in B}
        BY <3>1, <3>2
      <4>2. QED
        BY <3>1, <3>2, <4>1 DEF SameLeaves
    <3>4. nothing <=> SameLeaf(r, q)
      <4> DEFINE alike == IF {a.kind, b.kind} \subseteq Numbers /\ "float" \in {a.kind, b.kind}
                          THEN IsClose(a.at, b.at, t) ELSE a.kind = b.kind /\ a.at = b.at
      <4>1. SameLeaf(r, q) <=> alike
        BY <1>3, <2>4, SameRoots
      <4>2. nothing <=> alike
        BY <1>3, <2>4, WalkFindsNothing
      <4> HIDE DEF alike, nothing, r, q
      <4>3. QED
        BY <4>1, <4>2
    <3> HIDE DEF A, B, r, q, nothing
    <3>5. nothing <=> SameLeaves(A, B)
      BY <3>3, <3>4
    <3>6. QED
      BY <3>5 DEF nothing, A, B
  <2>5. CASE \/ (a.kind \in Nests \/ b.kind \in Nests) /\ a.kind # b.kind
             \/ a.kind = "dict" /\ b.kind = "dict" /\ Keys(a) # Keys(b)
             \/ a.kind = "list" /\ b.kind = "list" /\ Len(a.at) # Len(b.at)
    <3>1. ~SameLeaf(r, q)
      BY <1>3, <2>5, SameRoots
    <3>2. ~nothing
      BY <1>3, <2>5, WalkFindsNothing
    <3> HIDE DEF A, B, r, q, nothing
    <3>3. nothing <=> SameLeaves(A, B)
      BY <2>1, <3>1, <3>2
    <3>4. QED
      BY <3>3 DEF nothing, A, B
  <2> HIDE DEF Agrees, a, b
  <2>6. QED
    BY <2>2, <2>3, <2>4, <2>5 DEF Nests
<1> HIDE DEF Agrees
<1>6. QED
  BY <1>5

\* Two manifests without a differing path are one.
LEMMA NoPathDiffers ==
  ASSUME NEW a, NEW b, IsManifest(a), IsManifest(b)
  PROVE  DifferingPaths(a, b) = {} <=> a = b
<1>1. ASSUME DifferingPaths(a, b) = {} PROVE a = b
  <2>1. ASSUME NEW p \in DOMAIN a \cup DOMAIN b PROVE p \in DOMAIN a /\ p \in DOMAIN b /\ a[p] = b[p]
    BY <1>1 DEF DifferingPaths
  <2>2. DOMAIN a = DOMAIN b
    BY <2>1
  <2>3. a = [p \in DOMAIN a |-> a[p]] /\ b = [p \in DOMAIN b |-> b[p]]
    BY DEF IsManifest
  <2>4. [p \in DOMAIN a |-> a[p]] = [p \in DOMAIN b |-> b[p]]
    BY <2>1, <2>2
  <2>5. QED
    BY <2>3, <2>4
<1>2. ASSUME a = b PROVE DifferingPaths(a, b) = {}
  BY <1>2 DEF DifferingPaths
<1>3. QED
  BY <1>1, <1>2

\* Two files are within the policy if both are JSON and the walk finds nothing.
LEMMA FileWithin ==
  ASSUME NEW p, NEW a, NEW b, Parsed[a] \in DOMAIN Json, Parsed[b] \in DOMAIN Json
  PROVE  CompareJson(p, a, b) = {} <=>
           LET x == Leaves[Parsed[a]][DefaultTol]
               y == Leaves[Parsed[b]][DefaultTol]
           IN  (\A l \in x \cup y : l.kind # "bytes") /\ SameLeaves(x, y)
<1> DEFINE m == Parsed[a]
           n == Parsed[b]
           x == Leaves[m][DefaultTol]
           y == Leaves[n][DefaultTol]
           json == Json[m].kind # "bytes" /\ Json[n].kind # "bytes"
<1>1. DefaultTol \in Tolerances
  BY DEF Tolerances
<1>2. json <=> \A l \in x \cup y : l.kind # "bytes"
  <2>1. ASSUME json, NEW l \in x \cup y PROVE l.kind # "bytes"
    BY <1>1, <2>1, LeavesAreLeaves
  <2>2. /\ Root(m, DefaultTol) \in x /\ Root(n, DefaultTol) \in y
        /\ Json[m].kind = "bytes" => Root(m, DefaultTol).kind = "bytes"
        /\ Json[n].kind = "bytes" => Root(n, DefaultTol).kind = "bytes"
    BY <1>1, RootIsLeaf DEF Root
  <2>3. ASSUME ~json PROVE \E l \in x \cup y : l.kind = "bytes"
    BY <2>2, <2>3
  <2> HIDE DEF json, x, y
  <2>4. QED
    BY <2>1, <2>3
<1>3. Walk[m][n][DefaultTol] = {} <=> SameLeaves(x, y)
  BY <1>1, WalkAgrees
<1>4. CompareJson(p, a, b) = IF json THEN Walk[m][n][DefaultTol] ELSE {<<"not_json", p>>}
  BY DEF CompareJson
<1>5. CompareJson(p, a, b) = {} <=> json /\ Walk[m][n][DefaultTol] = {}
  <2> HIDE DEF json, m, n
  <2>1. QED
    BY <1>4
<1> HIDE DEF json, x, y
<1>6. QED
  BY <1>2, <1>3, <1>5 DEF x, y

\* The policy has no finding exactly if the replay is nearly what was recorded, by the policy's own words.
LEMMA PolicyIsNearly ==
  ASSUME NEW a, NEW b, IsManifest(a), IsManifest(b)
  PROVE  PolicyFindings(a, b) = {} <=> Nearly(a, b)
<1> DEFINE Files == {q \in DOMAIN a \cap DOMAIN b : a[q] # b[q]}
           file(p) == IF p \in JsonFiles THEN CompareJson(p, a[p], b[p]) ELSE {<<"bytes_differ", p>>}
           missing == {<<"missing", p>> : p \in DOMAIN a \ DOMAIN b}
           more == {<<"not_recorded", p>> : p \in DOMAIN b \ DOMAIN a}
           within(p) == LET x == Leaves[Parsed[a[p]]][DefaultTol]
                            y == Leaves[Parsed[b[p]]][DefaultTol]
                        IN  (\A l \in x \cup y : l.kind # "bytes") /\ SameLeaves(x, y)
<1>1. PolicyFindings(a, b) = missing \cup more \cup UNION {file(p) : p \in Files}
  BY DEF PolicyFindings
<1>2. (missing = {} /\ more = {}) <=> DOMAIN a = DOMAIN b
  <2>1. missing = {} <=> DOMAIN a \subseteq DOMAIN b
    OBVIOUS
  <2>2. more = {} <=> DOMAIN b \subseteq DOMAIN a
    OBVIOUS
  <2> HIDE DEF missing, more
  <2>3. QED
    BY <2>1, <2>2
<1>3. ASSUME NEW p \in Files PROVE file(p) = {} <=> p \in JsonFiles /\ within(p)
  <2>1. CASE p \in JsonFiles
    <3>1. Parsed[a[p]] \in DOMAIN Json /\ Parsed[b[p]] \in DOMAIN Json
      BY <2>1 DEF IsManifest
    <3>2. CompareJson(p, a[p], b[p]) = {} <=> within(p)
      BY <3>1, FileWithin
    <3> HIDE DEF within
    <3>3. QED
      BY <2>1, <3>2
  <2>2. CASE p \notin JsonFiles
    BY <2>2
  <2>3. QED
    BY <2>1, <2>2
<1>4. Nearly(a, b) <=> DOMAIN a = DOMAIN b /\ \A p \in Files : p \in JsonFiles /\ within(p)
  <2>1. Nearly(a, b) <=> DOMAIN a = DOMAIN b /\ \A p \in DOMAIN a : a[p] # b[p] => p \in JsonFiles /\ within(p)
    BY DEF Nearly
  <2> HIDE DEF within
  <2>2. QED
    BY <2>1
<1> HIDE DEF missing, more, file, within, Files
<1>5. UNION {file(p) : p \in Files} = {} <=> \A p \in Files : file(p) = {}
  OBVIOUS
<1>6. QED
  BY <1>1, <1>2, <1>3, <1>4, <1>5

\* What is the same is nearly so.
LEMMA SameIsNearly == ASSUME NEW a PROVE Nearly(a, a)
BY DEF Nearly

\* Sequences one after the other have the elements of each, and no others.
LEMMA FlatFacts ==
  ASSUME NEW S, NEW ss, Len(ss) \in Nat, \A i \in 1 .. Len(ss) : ss[i] \in Seq(S)
  PROVE  /\ Flat(ss) \in Seq(S)
         /\ \A x : x \in ToSet(Flat(ss)) <=> \E i \in 1 .. Len(ss) : x \in ToSet(ss[i])
<1> DEFINE n == Len(ss)
           St == Joined!Stages(<<>>, ss)
           Of(u, i) == /\ u \in Seq(S)
                       /\ \A k \in DOMAIN u : \E j \in 1 .. i : \E m \in DOMAIN ss[j] : u[k] = ss[j][m]
                       /\ \A j \in 1 .. i : \A m \in DOMAIN ss[j] : \E k \in DOMAIN u : u[k] = ss[j][m]
           Fine == {i \in 0 .. n : Of(St[i], i)}
<1>1. /\ St[0] = <<>>
      /\ \A i \in 1 .. n : St[i] = St[i - 1] \o ss[i]
  <2>1. /\ Joined!Stages(<<>>, ss)[0] = <<>>
        /\ \A i \in 1 .. Len(ss) : Joined!Stages(<<>>, ss)[i] = Then(Joined!Stages(<<>>, ss)[i - 1], ss[i])
    BY Joined!StagesDefined
  <2>2. QED
    BY <2>1 DEF Then
<1>2. Flat(ss) = St[n]
  BY DEF Flat, Joined!Folded
<1> HIDE DEF St
<1>3. 0 \in Fine
  <2>1. <<>> \in Seq(S) /\ DOMAIN <<>> = {} /\ 1 .. 0 = {} /\ 0 \in 0 .. n
    OBVIOUS
  <2>2. Of(St[0], 0)
    BY <1>1, <2>1
  <2> HIDE DEF Of
  <2>3. QED
    BY <2>1, <2>2
<1>4. ASSUME NEW i \in 0 .. n - 1, i \in Fine PROVE i + 1 \in Fine
  <2> DEFINE s == St[i]
             t == ss[i + 1]
  <2>1. i + 1 \in 1 .. n /\ i + 1 \in 0 .. n /\ i \in Nat
    OBVIOUS
  <2>2. St[i + 1] = s \o t
    <3>1. PICK k \in 1 .. n : k = i + 1
      BY <2>1
    <3>2. St[k] = St[k - 1] \o ss[k]
      BY <1>1
    <3>3. k - 1 = i
      BY <2>1, <3>1
    <3>4. QED
      BY <3>1, <3>2, <3>3
  <2>3. Of(s, i)
    BY <1>4
  <2>4. t \in Seq(S)
    BY <2>1
  <2> HIDE DEF s
  <2> DEFINE u == s \o t
  <2>5. /\ u \in Seq(S) /\ Len(s) \in Nat /\ Len(t) \in Nat /\ DOMAIN s = 1 .. Len(s) /\ DOMAIN t = 1 .. Len(t)
        /\ DOMAIN u = 1 .. Len(s) + Len(t)
    BY <2>3, <2>4
  <2>6. (\A k \in 1 .. Len(s) : u[k] = s[k]) /\ \A k \in Len(s) + 1 .. Len(s) + Len(t) : u[k] = t[k - Len(s)]
    BY <2>3, <2>4
  <2> HIDE DEF u, t
  <2>7. \A j \in 1 .. i + 1 : j \in 1 .. i \/ j = i + 1
    BY <2>1
  <2>8. ASSUME NEW k \in DOMAIN u PROVE \E j \in 1 .. i + 1 : \E m \in DOMAIN ss[j] : u[k] = ss[j][m]
    <3>1. CASE k \in 1 .. Len(s)
      <4>1. PICK j \in 1 .. i : \E m \in DOMAIN ss[j] : s[k] = ss[j][m]
        BY <2>3, <2>5, <3>1
      <4>2. j \in 1 .. i + 1
        BY <2>1
      <4>3. QED
        BY <2>6, <3>1, <4>1, <4>2
    <3>2. CASE k \notin 1 .. Len(s)
      <4>1. k - Len(s) \in DOMAIN t /\ k \in Len(s) + 1 .. Len(s) + Len(t)
        BY <2>5, <3>2
      <4>2. u[k] = t[k - Len(s)]
        BY <2>6, <4>1
      <4>3. i + 1 \in 1 .. i + 1
        BY <2>1
      <4>4. QED
        BY <4>1, <4>2, <4>3 DEF t
    <3>3. QED
      BY <3>1, <3>2
  <2>9. ASSUME NEW j \in 1 .. i + 1, NEW m \in DOMAIN ss[j] PROVE \E k \in DOMAIN u : u[k] = ss[j][m]
    <3>1. CASE j \in 1 .. i
      <4>1. PICK k \in DOMAIN s : s[k] = ss[j][m]
        BY <2>3, <3>1
      <4>2. k \in DOMAIN u /\ u[k] = s[k]
        BY <2>5, <2>6
      <4>3. QED
        BY <4>1, <4>2
    <3>2. CASE j = i + 1
      <4>1. m \in 1 .. Len(t)
        BY <2>5, <3>2 DEF t
      <4>2. PICK k \in Len(s) + 1 .. Len(s) + Len(t) : k = Len(s) + m
        <5>1. Len(s) + m \in Len(s) + 1 .. Len(s) + Len(t)
          BY <2>5, <4>1
        <5>2. QED
          BY <5>1
      <4>3. k \in DOMAIN u /\ u[k] = t[k - Len(s)] /\ k - Len(s) = m
        BY <2>5, <2>6, <4>1, <4>2
      <4>4. QED
        BY <3>2, <4>3 DEF t
    <3>3. QED
      BY <2>7, <3>1, <3>2
  <2>10. Of(u, i + 1)
    BY <2>5, <2>8, <2>9
  <2>11. St[i + 1] = u
    BY <2>2 DEF t, u
  <2> HIDE DEF Of
  <2>12. QED
    BY <2>1, <2>10, <2>11
<1>5. 0 .. n \subseteq Fine
  <2> HIDE DEF Fine
  <2>1. QED
    BY <1>3, <1>4, Joined!InductiveUpTo
<1>6. n \in Fine
  BY <1>5
<1>7. Of(St[n], n)
  BY <1>6
<1>8. \A x : x \in ToSet(Flat(ss)) <=> \E i \in 1 .. Len(ss) : x \in ToSet(ss[i])
  BY <1>2, <1>7 DEF ToSet
<1>9. QED
  BY <1>2, <1>7, <1>8

\* Every document of the corpus has a run on every lane.
LEMMA RunsCover ==
  ASSUME DOMAIN corpus.entries \subseteq ToSet(Paths)
  PROVE  \A p \in DOMAIN corpus.entries, l \in ToSet(LaneOrder) : <<p, l>> \in ToSet(Runs)
<1> DEFINE Docs == DOMAIN corpus.entries
           of(p) == IF p \in Docs THEN [i \in DOMAIN LaneOrder |-> <<p, LaneOrder[i]>>] ELSE <<>>
           all == [i \in DOMAIN Paths |-> of(Paths[i])]
           Pairs == Docs \X ToSet(LaneOrder)
<1>1. /\ Len(Paths) \in Nat /\ DOMAIN Paths = 1 .. Len(Paths) /\ LaneOrder \in Seq(ToSet(LaneOrder))
      /\ DOMAIN LaneOrder = 1 .. Len(LaneOrder) /\ Len(LaneOrder) \in Nat
  BY CampaignAssumption
<1>2. Len(all) = Len(Paths) /\ \A i \in DOMAIN Paths : all[i] = of(Paths[i])
  BY <1>1
<1>3. ASSUME NEW p \in Docs PROVE of(p) = [i \in 1 .. Len(LaneOrder) |-> <<p, LaneOrder[i]>>]
  BY <1>1
<1>4. ASSUME NEW p PROVE of(p) \in Seq(Pairs)
  <2>1. CASE p \in Docs
    BY <1>1, <1>3, <2>1 DEF ToSet
  <2>2. CASE p \notin Docs
    BY <2>2
  <2>3. QED
    BY <2>1, <2>2
<1>5. Runs = Flat(all)
  BY DEF Runs
<1>6. ASSUME NEW p \in Docs, NEW l \in ToSet(LaneOrder)
      PROVE  \E i \in DOMAIN Paths : <<p, l>> \in ToSet(of(Paths[i]))
  <2>1. PICK i \in DOMAIN Paths : Paths[i] = p
    BY DEF ToSet
  <2>2. PICK m \in DOMAIN LaneOrder : LaneOrder[m] = l
    BY DEF ToSet
  <2>3. m \in DOMAIN of(p) /\ of(p)[m] = <<p, l>>
    BY <1>1, <1>3, <2>2
  <2> HIDE DEF of
  <2>4. <<p, l>> \in ToSet(of(p))
    BY <2>3 DEF ToSet
  <2>5. QED
    BY <2>1, <2>4
<1> HIDE DEF all, of
<1>7. \A x : x \in ToSet(Flat(all)) <=> \E i \in 1 .. Len(all) : x \in ToSet(all[i])
  <2>1. Len(all) \in Nat /\ \A i \in 1 .. Len(all) : all[i] \in Seq(Pairs)
    BY <1>1, <1>2, <1>4
  <2> HIDE DEF Pairs
  <2>2. QED
    BY <2>1, FlatFacts
<1>8. QED
  BY <1>1, <1>2, <1>5, <1>6, <1>7

-----------------------------------------------------------------------------
(***************************************************************************)
(* What the ledger's records are of.                                       *)
(***************************************************************************)
\* The plan and the corpus are what the instance allows, and every record is of a manifest.
Made ==
  /\ plan \in Plans
  /\ DOMAIN corpus.entries \subseteq ToSet(Paths)
  /\ \A i \in DOMAIN records : IsManifest(records[i].out)
  /\ camp.pc = "record" => IsManifest(camp.obs.out)

Statuses == {"sealed", "failed", "error", "containment_error", "not_applicable"}

\* Nobody but a pass says that a pass invalidated a record.
OthersCauses(recs, news) ==
  \A i \in DOMAIN news : news[i].cause \in {"none", "other"} \/ (i \in DOMAIN recs /\ news[i].cause = recs[i].cause)

\* An observation to record is of an output, and every other is of a status that has none.
LEMMA ObservedWhat ==
  ASSUME Shapes, plan \in Plans, NEW run \in ToSet(Paths) \X ToSet(LaneOrder), Observe(run)
  PROVE  /\ camp'.pc = "record" => IsManifest(camp'.obs.out)
         /\ camp'.obs.status \in Statuses
<1> DEFINE version == disk[run[1]]
           read == version = corpus.entries[run[1]]
           went == IF version \in Versions THEN plan.runs[<<run[2], version>>]
                   ELSE [end |-> "fault", failure |-> "none", out |-> NoRecord]
           told(status, failure, input) == Observation(run, status, failure, input, 0, NoRecord)
           kept == IF run \notin plan.refused /\ read /\ went.end = "ok" THEN went.out ELSE NoRecord
           sealed == Observation(run, "sealed", "none", version, 0, kept)
           obs == IF run \in plan.refused THEN told("not_applicable", "none", Gone)
                  ELSE IF went.end \in {"cleanup", "unsupported", "fault"} THEN told(StatusOf(went.end), "none", Gone)
                  ELSE IF ~read THEN told("error", "none", version)
                  ELSE IF went.end \in {"failed", "empty"} THEN told("failed", went.failure, version)
                  ELSE sealed
<1>1. camp' = [camp EXCEPT !.pc = IF obs.status = "sealed" THEN "record" ELSE "append", !.obs = obs]
  BY DEF Observe
<1>2. camp'.obs = obs /\ (camp'.pc = "record" => obs.status = "sealed")
  <2> HIDE DEF obs
  <2>1. QED
    BY <1>1 DEF Shapes
<1>3. version \in Versions => EndsWell(went)
  BY CampaignAssumption
<1>4. version \notin Versions => went.end = "fault"
  OBVIOUS
<1> HIDE DEF version, went
<1>5. CASE /\ obs = sealed /\ run \notin plan.refused /\ read
           /\ went.end \notin {"cleanup", "unsupported", "fault", "failed", "empty"}
  <2>1. went.end = "ok" /\ IsManifest(went.out)
    BY <1>3, <1>4, <1>5 DEF EndsWell
  <2>2. kept = went.out
    BY <1>5, <2>1
  <2> HIDE DEF kept, obs
  <2>3. obs.out = kept /\ obs.status = "sealed"
    BY <1>5 DEF Observation
  <2>4. QED
    BY <1>2, <2>1, <2>2, <2>3 DEF Statuses
<1>6. ASSUME NEW status \in Statuses \ {"sealed"}, NEW failure, NEW input, obs = told(status, failure, input)
      PROVE  obs.status \in Statuses \ {"sealed"}
  <2> HIDE DEF obs
  <2>1. QED
    BY <1>6 DEF Observation
<1>7. StatusOf(went.end) \in Statuses \ {"sealed"}
  BY DEF StatusOf, Statuses
<1>8. {"not_applicable", "error", "failed"} \subseteq Statuses \ {"sealed"}
  BY DEF Statuses
<1>9. \/ /\ obs = sealed /\ run \notin plan.refused /\ read
         /\ went.end \notin {"cleanup", "unsupported", "fault", "failed", "empty"}
      \/ obs = told("not_applicable", "none", Gone)
      \/ obs = told(StatusOf(went.end), "none", Gone)
      \/ obs = told("error", "none", version)
      \/ obs = told("failed", went.failure, version)
  <2> HIDE DEF told, read, sealed
  <2>1. QED
    OBVIOUS
<1> HIDE DEF obs, told, sealed, read
<1>10. QED
  BY <1>2, <1>5, <1>6, <1>7, <1>8, <1>9

\* A record that is invalidated is of what it was of.
LEMMA InvalidKeeps ==
  ASSUME Shapes, NEW r \in DOMAIN records, NEW why, Invalid(r, why)
  PROVE  /\ DOMAIN records' = DOMAIN records /\ Kept(records, records')
         /\ records'[r].cause = why
         /\ \A i \in DOMAIN records \ {r} : records'[i] = records[i]
<1> DEFINE new == [[records[r] EXCEPT !.state = "invalidated"] EXCEPT !.cause = why]
<1>1. records' = [records EXCEPT ![r] = new]
  BY DEF Invalid, Shapes
<1>2. IsRecord(records[r])
  BY DEF Shapes
<1>3. /\ new.doc = records[r].doc /\ new.lane = records[r].lane /\ new.source = records[r].source
      /\ new.out = records[r].out /\ new.config = records[r].config /\ new.cause = why
  BY <1>2 DEF IsRecord
<1> HIDE DEF new
<1>4. DOMAIN records' = DOMAIN records /\ \A i \in DOMAIN records : records'[i] = IF i = r THEN new ELSE records[i]
  BY <1>1
<1>5. QED
  BY <1>3, <1>4 DEF Kept

\* What is kept is of manifests still.
LEMMA MadeAsBefore ==
  ASSUME Made, Kept(records, records'), DOMAIN records' = DOMAIN records, UNCHANGED <<plan, corpus, camp>>
  PROVE  Made'
BY DEF Made, Kept

\* Records that stay as they are.
LEMMA SameRecords ==
  ASSUME records' = records
  PROVE  Kept(records, records') /\ OthersCauses(records, records')
BY DEF Kept, OthersCauses

\* What the campaign and others do leaves the records of manifests, and tells no pass's invalidation.
LEMMA BesideMade ==
  ASSUME Shapes, Made, CampaignSteps \/ Crash \/ Outsiders
  PROVE  Made' /\ Kept(records, records') /\ OthersCauses(records, records')
<1>1. UNCHANGED <<plan, corpus>>
  BY DEF CampaignSteps, OpenJournal, RecordRun, AppendObservation, Stop, Observe, Crash, Outsiders, Changes, Damage,
         EditWorking, EditDocument, EditJournal
<1>2. CASE RecordRun
  <2> DEFINE n == Len(records)
             o == camp.obs
  <2>1. PICK r, new :
          /\ r.out = o.out /\ r.cause = "none"
          /\ records' = Append(records, r)
          /\ camp' = [camp EXCEPT !.pc = "append", !.obs = new]
    <3>1. ASSUME NEW state
          PROVE  LET r == Record(state, o.run, o.input, o.out, "ours") IN r.out = o.out /\ r.cause = "none"
      BY DEF Record
    <3>2. CASE /\ records' = Append(records, Record("sealed", camp.obs.run, camp.obs.input, camp.obs.out, "ours"))
               /\ Observed([camp.obs EXCEPT !.record = Len(records) + 1])
      BY <3>1, <3>2 DEF Observed
    <3>3. CASE /\ records' = Append(records, Record("failed", camp.obs.run, camp.obs.input, camp.obs.out, "ours"))
               /\ Observed([camp.obs EXCEPT !.status = "error", !.out = NoRecord])
      BY <3>1, <3>3 DEF Observed
    <3>4. QED
      BY <1>2, <3>2, <3>3 DEF RecordRun
  <2>2. /\ n \in Nat /\ DOMAIN records = 1 .. n /\ DOMAIN records' = 1 .. n + 1
        /\ records'[n + 1] = r /\ \A i \in 1 .. n : records'[i] = records[i]
    BY <2>1, Longer DEF Shapes
  <2>3. \A i \in 1 .. n + 1 : i \in 1 .. n \/ i = n + 1
    BY <2>2
  <2>4. IsManifest(r.out) /\ camp'.pc = "append"
    BY <1>2, <2>1 DEF Made, RecordRun, Shapes
  <2>5. Made'
    BY <1>1, <2>2, <2>3, <2>4 DEF Made
  <2>6. Kept(records, records') /\ OthersCauses(records, records')
    BY <2>1, <2>2, <2>3 DEF Kept, OthersCauses
  <2>7. QED
    BY <2>5, <2>6
<1>3. CASE ~RecordRun
  <2>1. records' = records
    BY <1>3 DEF CampaignSteps, OpenJournal, AppendObservation, Stop, Observe, Crash, Outsiders, Changes, Damage,
                EditWorking, EditDocument, EditJournal
  <2>2. camp'.pc = "record" => IsManifest(camp'.obs.out)
    <3>1. CASE \E run \in ToSet(Paths) \X ToSet(LaneOrder) : Observe(run)
      BY <3>1, ObservedWhat DEF Made
    <3>2. CASE OpenJournal \/ AppendObservation \/ Stop \/ Crash
      <4>1. PICK pc \in {"ready", "refused", "closed"} : camp'.pc = pc
        BY <3>2 DEF OpenJournal, AppendObservation, Stop, Crash, Shapes
      <4>2. QED
        BY <4>1
    <3>3. CASE Outsiders
      <4>1. UNCHANGED camp
        BY <3>3 DEF Outsiders, Changes, Damage, EditWorking, EditDocument, EditJournal
      <4>2. QED
        BY <4>1 DEF Made
    <3>4. QED
      BY <1>3, <3>1, <3>2, <3>3 DEF CampaignSteps
  <2>3. QED
    BY <1>1, <2>1, <2>2, SameRecords DEF Made
<1>4. QED
  BY <1>2, <1>3

\* What is pinned is in the corpus's directory, and a ledger's records are of manifests.
LEMMA MadeStart ==
  ASSUME CampaignInit
  PROVE  Made /\ \A i \in DOMAIN records : records[i].cause = "none"
<1>1. records \in Ledgers /\ plan \in Plans /\ disk \in Disks /\ corpus = Pinned(disk) /\ camp.pc = "closed"
  BY DEF CampaignInit
<1>2. \A i \in DOMAIN records : IsManifest(records[i].out) /\ records[i].cause = "none"
  BY <1>1, CampaignAssumption
<1>3. DOMAIN corpus.entries \subseteq DOMAIN disk /\ DOMAIN disk \subseteq ToSet(Paths)
  BY <1>1, CampaignAssumption DEF Pinned
<1>4. QED
  BY <1>1, <1>2, <1>3 DEF Made

-----------------------------------------------------------------------------
(***************************************************************************)
(* The invariant of a pass over the records.                               *)
(***************************************************************************)
\* An entry of the log says what its run was, compared with what the record is of.
Judged(e, recs) ==
  LET r == recs[e.record] IN
  /\ e.record \in DOMAIN recs
  /\ e.outcome = "reproduced" => spec.deterministic /\ e.run.end = "ok" /\ e.run.out = r.out
  /\ e.outcome = "equivalent" => spec.policy /\ e.run.end = "ok" /\ Nearly(r.out, e.run.out)
  /\ e.outcome = "diverged" =>
       /\ e.run.end = "ok" /\ e.run.identity = "same" /\ e.run.out # r.out
       /\ spec.policy => ~Nearly(r.out, e.run.out)

LogKept == IsSeq(replays) /\ \A i \in DOMAIN replays : Judged(replays[i], records)

Diverging(r, log) == \E i \in DOMAIN log : log[i].record = r /\ log[i].outcome = "diverged"

\* A pass invalidated a record for what it found of it.
CausesTold ==
  \A r \in DOMAIN records :
    /\ records[r].cause = "replay" => Diverging(r, replays)
    /\ records[r].cause = "validate" =>
         \E i \in DOMAIN pass.results : pass.results[i].record = r /\ ~IsIntact(pass.results[i].verdict)

Told(one, kind, recs, log) ==
  /\ one.record \in DOMAIN recs
  /\ kind = "replay" =>
       /\ one.verdict \in {"unreplayable", "failed", "reproduced", "equivalent", "diverged"}
       /\ one.verdict = "diverged" => Diverging(one.record, log)
  /\ kind = "validate" => one.verdict \in {"missing", "drift", "archived", "ok"}

\* What a pass will invalidate is among its results.
PassTold ==
  /\ DOMAIN pass = {"pc", "kind", "todo", "at", "results"} /\ pass.kind \in {"none", "replay", "validate"}
  /\ IsSeq(pass.todo) /\ IsSeq(pass.results)
  /\ \A i \in DOMAIN pass.todo : pass.todo[i].record \in DOMAIN records
  /\ \A i \in DOMAIN pass.results : Told(pass.results[i], pass.kind, records, replays)
  /\ pass.pc = "none" => pass.results = <<>>
  /\ pass.pc = "judge" => pass.kind = "replay" /\ pass.todo # <<>>
  /\ pass.pc \in {"invalidate", "asked"} =>
       /\ pass.todo # <<>>
       /\ \A i \in DOMAIN pass.todo : pass.todo[i] \in ToSet(pass.results) /\ ToInvalidate(pass.todo[i])

ReplayInv == Made /\ LogKept /\ CausesTold /\ PassTold

\* What a pass says goes on being so, whatever becomes of the records beside it.
LEMMA BesidePass ==
  ASSUME ReplayInv, Made', Kept(records, records'), OthersCauses(records, records'), UNCHANGED replayVars
  PROVE  ReplayInv'
<1>1. UNCHANGED <<spec, replays, pass>>
  BY DEF replayVars
<1>2. DOMAIN records \subseteq DOMAIN records' /\ \A i \in DOMAIN records : records'[i].out = records[i].out
  BY DEF Kept
<1>3. \A e : Judged(e, records) => Judged(e, records)'
  BY <1>1, <1>2 DEF Judged
<1>4. LogKept'
  BY <1>1, <1>3 DEF ReplayInv, LogKept
<1>6. CausesTold'
  BY <1>1 DEF ReplayInv, CausesTold, OthersCauses
<1>7. \A one, kind, log : Told(one, kind, records, log) => Told(one, kind, records', log)
  BY <1>2 DEF Told
<1>8. PassTold'
  BY <1>1, <1>2, <1>7 DEF ReplayInv, PassTold, ToInvalidate
<1>9. QED
  BY <1>4, <1>6, <1>8 DEF ReplayInv

\* A pass that goes on, with the records and the log as they are.
LEMMA PassGoesOn ==
  ASSUME ReplayInv, UNCHANGED <<spec, replays, campaignVars>>, pass'.kind = pass.kind, pass'.results = pass.results,
         PassTold'
  PROVE  ReplayInv'
<1>1. UNCHANGED <<plan, corpus, records, camp>>
  BY DEF campaignVars
<1>2. Made' /\ LogKept'
  BY <1>1 DEF ReplayInv, Made, LogKept, Judged
<1>3. CausesTold'
  BY <1>1 DEF ReplayInv, CausesTold, Diverging
<1>4. QED
  BY <1>2, <1>3 DEF ReplayInv

\* The records of some states, in their order.
LEMMA InStateFacts ==
  ASSUME IsSeq(records), NEW states
  PROVE  InState(states) \in Seq(DOMAIN records)
<1> DEFINE all == [r \in DOMAIN records |-> IF records[r].state \in states THEN <<r>> ELSE <<>>]
           S == DOMAIN records
<1>1. Len(records) \in Nat /\ DOMAIN records = 1 .. Len(records) /\ Len(all) = Len(records)
  BY Longer
<1>2. ASSUME NEW i \in 1 .. Len(all) PROVE all[i] \in Seq(S)
  <2>1. i \in S /\ (all[i] = <<i>> \/ all[i] = <<>>)
    BY <1>1
  <2>2. <<i>> \in Seq(S) /\ <<>> \in Seq(S)
    BY <2>1
  <2>3. QED
    BY <2>1, <2>2
<1>3. Len(all) \in Nat
  BY <1>1
<1>4. InState(states) = Flat(all)
  BY DEF InState
<1> HIDE DEF all, S
<1>5. Flat(all) \in Seq(S)
  BY <1>2, <1>3, FlatFacts
<1>6. QED
  BY <1>4, <1>5 DEF S

\* A pass begins with no result: no record was invalidated by a validation before it.
LEMMA PassStarting ==
  ASSUME Shapes, ReplayInv, NEW kind \in {"replay", "validate"}, NEW states, StartPass(kind, states)
  PROVE  ReplayInv'
<1> DEFINE some == InState(states)
           one(i) == [record |-> some[i], state |-> records[some[i]].state]
           todo == [i \in DOMAIN some |-> one(i)]
           S == {one(i) : i \in DOMAIN some}
<1>1. /\ pass.pc = "none" /\ UNCHANGED <<spec, replays, campaignVars>>
      /\ pass' = [pc |-> "next", kind |-> kind, at |-> 0, results |-> <<>>, todo |-> todo]
  BY DEF StartPass
<1>2. pass.results = <<>>
  BY <1>1 DEF ReplayInv, PassTold
<1>3. some \in Seq(DOMAIN records)
  BY InStateFacts DEF Shapes
<1> HIDE DEF some
<1>4. Len(some) \in Nat /\ DOMAIN some = 1 .. Len(some) /\ \A i \in DOMAIN some : one(i).record \in DOMAIN records
  BY <1>3
<1>5. IsSeq(todo) /\ DOMAIN todo = DOMAIN some /\ \A i \in DOMAIN todo : todo[i].record \in DOMAIN records
  <2> HIDE DEF one
  <2>1. \A i \in DOMAIN some : one(i) \in S
    OBVIOUS
  <2> HIDE DEF S
  <2>2. todo \in Seq(S)
    BY <1>4, <2>1
  <2>3. DOMAIN todo = DOMAIN some /\ \A i \in DOMAIN todo : todo[i] = one(i)
    OBVIOUS
  <2> HIDE DEF todo
  <2>4. QED
    BY <1>4, <2>2, <2>3, OwnElements
<1> HIDE DEF todo
<1>6. /\ DOMAIN pass' = {"pc", "kind", "todo", "at", "results"} /\ pass'.kind = kind /\ pass'.pc = "next"
      /\ pass'.todo = todo /\ pass'.results = <<>>
  BY <1>1
<1>7. UNCHANGED <<plan, corpus, records, camp>>
  BY <1>1 DEF campaignVars
<1>8. Made' /\ LogKept'
  BY <1>1, <1>7 DEF ReplayInv, Made, LogKept, Judged
<1>9. CausesTold'
  BY <1>1, <1>2, <1>6, <1>7 DEF ReplayInv, CausesTold, Diverging
<1>10. IsSeq(<<>>) /\ DOMAIN <<>> = {}
  BY DEF IsSeq
<1>11. PassTold'
  BY <1>5, <1>6, <1>7, <1>10 DEF PassTold
<1>12. QED
  BY <1>8, <1>9, <1>11 DEF ReplayInv

\* One result more.
LEMMA OneResult ==
  ASSUME ReplayInv, pass.todo # <<>>, NEW verdict, Settled(Head(pass.todo), verdict), UNCHANGED <<spec, campaignVars>>,
         LogKept', \A r : Diverging(r, replays) => Diverging(r, replays'),
         Told(Result(Head(pass.todo), verdict), pass.kind, records, replays')
  PROVE  ReplayInv'
<1> DEFINE one == Result(Head(pass.todo), verdict)
<1>1. pass' = [pass EXCEPT !.todo = Tail(pass.todo), !.results = Append(pass.results, one), !.pc = "next"]
  BY DEF Settled
<1> HIDE DEF one
<1>2. /\ DOMAIN pass' = {"pc", "kind", "todo", "at", "results"} /\ pass'.kind = pass.kind /\ pass'.pc = "next"
      /\ pass'.todo = Tail(pass.todo) /\ pass'.results = Append(pass.results, one)
  BY <1>1 DEF ReplayInv, PassTold
<1>3. UNCHANGED <<plan, corpus, records, camp>>
  BY DEF campaignVars
<1>4. /\ IsSeq(pass'.results)
      /\ \A i \in DOMAIN pass'.results : pass'.results[i] = one \/ pass'.results[i] \in ToSet(pass.results)
      /\ \A i \in DOMAIN pass.results : i \in DOMAIN pass'.results /\ pass'.results[i] = pass.results[i]
  <2>1. IsSeq(pass.results)
    BY DEF ReplayInv, PassTold
  <2>2. /\ IsSeq(pass'.results) /\ Len(pass.results) \in Nat /\ DOMAIN pass.results = 1 .. Len(pass.results)
        /\ DOMAIN pass'.results = 1 .. Len(pass.results) + 1 /\ pass'.results[Len(pass.results) + 1] = one
        /\ \A i \in 1 .. Len(pass.results) : pass'.results[i] = pass.results[i]
    BY <1>2, <2>1, Longer
  <2>3. \A i \in 1 .. Len(pass.results) + 1 : i \in 1 .. Len(pass.results) \/ i = Len(pass.results) + 1
    BY <2>2
  <2>4. QED
    BY <2>2, <2>3 DEF ToSet
<1>5. IsSeq(pass'.todo) /\ \A i \in DOMAIN pass'.todo : pass'.todo[i].record \in DOMAIN records
  <2>1. IsSeq(pass.todo) /\ \A i \in DOMAIN pass.todo : pass.todo[i].record \in DOMAIN records
    BY DEF ReplayInv, PassTold
  <2>2. /\ IsSeq(Tail(pass.todo)) /\ Len(pass.todo) \in Nat \ {0} /\ DOMAIN pass.todo = 1 .. Len(pass.todo)
        /\ DOMAIN Tail(pass.todo) = 1 .. Len(pass.todo) - 1
        /\ \A i \in 1 .. Len(pass.todo) - 1 : Tail(pass.todo)[i] = pass.todo[i + 1]
    BY <2>1, TailFacts, Longer
  <2>3. \A i \in 1 .. Len(pass.todo) - 1 : i + 1 \in 1 .. Len(pass.todo)
    BY <2>2
  <2>4. QED
    BY <1>2, <2>1, <2>2, <2>3
<1>6. \A x, kind : Told(x, kind, records, replays) => Told(x, kind, records, replays')
  BY DEF Told
<1>7. \A x \in ToSet(pass.results) : Told(x, pass.kind, records, replays)
  BY DEF ReplayInv, PassTold, ToSet
<1>8. \A i \in DOMAIN pass'.results : Told(pass'.results[i], pass'.kind, records', replays')
  BY <1>2, <1>3, <1>4, <1>6, <1>7 DEF one
<1>9. Made'
  BY <1>3 DEF ReplayInv, Made
<1>10. CausesTold'
  BY <1>3, <1>4 DEF ReplayInv, CausesTold
<1>11. PassTold'
  BY <1>2, <1>3, <1>4, <1>5, <1>8 DEF ReplayInv, PassTold
<1>12. QED
  BY <1>9, <1>10, <1>11 DEF ReplayInv

\* What is next to be done is a record of the ledger.
LEMMA FirstToDo ==
  ASSUME PassTold, pass.todo # <<>>
  PROVE  /\ Head(pass.todo).record \in DOMAIN records
         /\ IsSeq(Tail(pass.todo)) /\ Len(pass.todo) \in Nat \ {0}
         /\ Len(pass.todo) # 1 => Tail(pass.todo) # <<>>
         /\ \A i \in DOMAIN Tail(pass.todo) : \E k \in DOMAIN pass.todo : Tail(pass.todo)[i] = pass.todo[k]
         /\ \E k \in DOMAIN pass.todo : Head(pass.todo) = pass.todo[k]
<1>1. IsSeq(pass.todo) /\ \A i \in DOMAIN pass.todo : pass.todo[i].record \in DOMAIN records
  BY DEF PassTold
<1>2. /\ IsSeq(Tail(pass.todo)) /\ Len(pass.todo) \in Nat \ {0} /\ DOMAIN pass.todo = 1 .. Len(pass.todo)
      /\ DOMAIN Tail(pass.todo) = 1 .. Len(pass.todo) - 1 /\ Head(pass.todo) = pass.todo[1]
      /\ Len(Tail(pass.todo)) = Len(pass.todo) - 1
      /\ \A i \in 1 .. Len(pass.todo) - 1 : Tail(pass.todo)[i] = pass.todo[i + 1]
  BY <1>1, TailFacts, Longer
<1>3. 1 \in DOMAIN pass.todo /\ \A i \in 1 .. Len(pass.todo) - 1 : i + 1 \in 1 .. Len(pass.todo)
  BY <1>2
<1>4. Len(pass.todo) # 1 => Tail(pass.todo) # <<>>
  <2>1. Len(<<>>) = 0 /\ (Len(pass.todo) # 1 => Len(Tail(pass.todo)) # 0)
    BY <1>2
  <2>2. QED
    BY <2>1
<1>5. QED
  BY <1>1, <1>2, <1>3, <1>4

\* A record's files are validated, and one of the four verdicts is told.
LEMMA ValidatedTold ==
  ASSUME ReplayInv, ValidateOne
  PROVE  ReplayInv'
<1> DEFINE one == Head(pass.todo)
           verdict == ValidationOf(records[one.record])
<1>1. /\ pass.kind = "validate" /\ pass.todo # <<>> /\ Settled(one, verdict)
      /\ UNCHANGED <<spec, replays, campaignVars>>
  BY DEF ValidateOne
<1>2. verdict \in {"missing", "drift", "archived", "ok"}
  BY DEF ValidationOf, Validation
<1>3. one.record \in DOMAIN records
  BY <1>1, FirstToDo DEF ReplayInv
<1> HIDE DEF one, verdict
<1>4. Told(Result(one, verdict), pass.kind, records, replays')
  BY <1>1, <1>2, <1>3 DEF Told, Result
<1>5. UNCHANGED <<plan, corpus, records, camp>>
  BY <1>1 DEF campaignVars
<1>6. LogKept'
  BY <1>1, <1>5 DEF ReplayInv, LogKept, Judged
<1>7. QED
  BY <1>1, <1>4, <1>6, OneResult DEF one

\* The live state is read, and the replay is judged or the pass ends.
LEMMA LiveRead ==
  ASSUME ReplayInv, ReadLive
  PROVE  ReplayInv'
<1>1. /\ pass.kind = "replay" /\ pass.todo # <<>> /\ UNCHANGED <<spec, replays, campaignVars>>
      /\ \E pc \in {"judge", "raised"} : pass' = [pass EXCEPT !.pc = pc]
  BY DEF ReadLive, Raised
<1>2. /\ DOMAIN pass' = {"pc", "kind", "todo", "at", "results"} /\ pass'.kind = pass.kind
      /\ pass'.pc \in {"judge", "raised"} /\ pass'.todo = pass.todo /\ pass'.results = pass.results
  BY <1>1 DEF ReplayInv, PassTold
<1>3. UNCHANGED records
  BY <1>1 DEF campaignVars
<1>4. PassTold'
  BY <1>1, <1>2, <1>3 DEF ReplayInv, PassTold
<1>5. QED
  BY <1>1, <1>2, <1>4, PassGoesOn

\* What a replay is told for is what its run was, compared by the bytes and by the policy.
LEMMA OutcomeIsJudged ==
  ASSUME NEW r, IsManifest(r.out), NEW run \in ReRuns, run.end # "fault", ~CannotRun(r)
  PROVE  LET outcome == OutcomeOf(r, run) IN
         /\ outcome \in {"unreplayable", "failed", "reproduced", "equivalent", "diverged"}
         /\ outcome = "reproduced" => spec.deterministic /\ run.end = "ok" /\ run.out = r.out
         /\ outcome = "equivalent" => spec.policy /\ run.end = "ok" /\ Nearly(r.out, run.out)
         /\ outcome = "diverged" =>
              /\ run.end = "ok" /\ run.identity = "same" /\ run.out # r.out
              /\ spec.policy => ~Nearly(r.out, run.out)
<1> DEFINE outcome == OutcomeOf(r, run)
           same == DifferingPaths(r.out, run.out) = {}
           near == PolicyFindings(r.out, run.out) = {}
<1>1. /\ run.identity \in {"same", "other"} /\ run.end \in {"ok", "failed", "unsupported", "fault"}
      /\ run.end = "ok" => IsManifest(run.out)
  BY ReplayAssumption DEF EndsWell
<1>2. spec.deterministic \/ spec.policy
  BY DEF CannotRun
<1>3. outcome = IF run.end = "unsupported" \/ run.identity = "other" THEN "unreplayable"
                ELSE IF run.end = "failed" THEN "failed"
                ELSE IF same /\ spec.deterministic THEN "reproduced"
                ELSE IF spec.policy /\ near THEN "equivalent" ELSE "diverged"
  BY DEF OutcomeOf
<1>4. CASE run.end = "unsupported" \/ run.identity = "other"
  BY <1>3, <1>4
<1>5. CASE run.end # "unsupported" /\ run.identity # "other" /\ run.end = "failed"
  BY <1>3, <1>5
<1>6. CASE run.end = "ok" /\ run.identity = "same"
  <2>1. IsManifest(run.out)
    BY <1>1, <1>6
  <2>2. same <=> r.out = run.out
    BY <2>1, NoPathDiffers
  <2>3. near <=> Nearly(r.out, run.out)
    BY <2>1, PolicyIsNearly
  <2>4. r.out = run.out => Nearly(r.out, run.out)
    BY SameIsNearly
  <2>5. outcome = IF same /\ spec.deterministic THEN "reproduced"
                  ELSE IF spec.policy /\ near THEN "equivalent" ELSE "diverged"
    BY <1>3, <1>6
  <2> HIDE DEF outcome, same, near
  <2>6. CASE same /\ spec.deterministic
    BY <1>6, <2>2, <2>5, <2>6 DEF outcome
  <2>7. CASE ~(same /\ spec.deterministic) /\ spec.policy /\ near
    BY <1>6, <2>3, <2>5, <2>7 DEF outcome
  <2>8. CASE ~(same /\ spec.deterministic) /\ ~(spec.policy /\ near)
    <3>1. outcome = "diverged"
      BY <2>5, <2>8
    <3>2. run.out # r.out
      BY <1>2, <2>2, <2>3, <2>4, <2>8
    <3>3. spec.policy => ~Nearly(r.out, run.out)
      BY <2>3, <2>8
    <3>4. QED
      BY <1>6, <3>1, <3>2, <3>3 DEF outcome
  <2>9. QED
    BY <2>6, <2>7, <2>8
<1>7. QED
  BY <1>1, <1>4, <1>5, <1>6

\* An entry of the log that is judged well, and the result with its outcome.
LEMMA LoggedTold ==
  ASSUME ReplayInv, pass.kind = "replay", pass.todo # <<>>, UNCHANGED <<spec, campaignVars>>,
         NEW outcome \in {"unreplayable", "failed", "reproduced", "equivalent", "diverged"}, NEW run,
         Log(Head(pass.todo), outcome, run),
         Judged([record |-> Head(pass.todo).record, outcome |-> outcome, run |-> run], records)
  PROVE  ReplayInv'
<1> DEFINE one == Head(pass.todo)
           entry == [record |-> one.record, outcome |-> outcome, run |-> run]
<1>1. replays' = Append(replays, entry) /\ Settled(one, outcome)
  BY DEF Log
<1>2. one.record \in DOMAIN records
  BY FirstToDo DEF ReplayInv
<1>3. /\ IsSeq(replays') /\ Len(replays) \in Nat /\ DOMAIN replays = 1 .. Len(replays)
      /\ DOMAIN replays' = 1 .. Len(replays) + 1 /\ replays'[Len(replays) + 1] = entry
      /\ \A i \in 1 .. Len(replays) : replays'[i] = replays[i]
  <2>1. IsSeq(replays)
    BY DEF ReplayInv, LogKept
  <2> HIDE DEF entry
  <2>2. QED
    BY <1>1, <2>1, Longer
<1>4. entry.record = one.record /\ entry.outcome = outcome /\ Judged(entry, records)
  OBVIOUS
<1> HIDE DEF one, entry
<1>5. UNCHANGED <<plan, corpus, records, camp>>
  BY DEF campaignVars
<1>6. \A i \in DOMAIN replays' : (i \in DOMAIN replays /\ replays'[i] = replays[i]) \/ replays'[i] = entry
  <2>1. \A i \in 1 .. Len(replays) + 1 : i \in 1 .. Len(replays) \/ i = Len(replays) + 1
    BY <1>3
  <2>2. QED
    BY <1>3, <2>1
<1>7. LogKept'
  <2>1. \A i \in DOMAIN replays' : Judged(replays'[i], records)
    BY <1>4, <1>6 DEF ReplayInv, LogKept
  <2>2. QED
    BY <1>3, <1>5, <2>1 DEF LogKept, Judged
<1>8. \A i \in DOMAIN replays : i \in DOMAIN replays' /\ replays'[i] = replays[i]
  BY <1>3
<1>9. \A r : Diverging(r, replays) => Diverging(r, replays')
  BY <1>8 DEF Diverging
<1>10. Len(replays) + 1 \in DOMAIN replays'
  BY <1>3
<1>11. outcome = "diverged" => Diverging(one.record, replays')
  BY <1>3, <1>4, <1>10 DEF Diverging
<1>12. Told(Result(one, outcome), pass.kind, records, replays')
  BY <1>2, <1>11 DEF Told, Result
<1>13. QED
  BY <1>1, <1>7, <1>9, <1>12, OneResult DEF one

\* The replay is judged and logged, or the pass ends.
LEMMA ReplayJudged ==
  ASSUME ReplayInv, JudgeReplay
  PROVE  ReplayInv'
<1> DEFINE one == Head(pass.todo)
           r == records[one.record]
<1>1. pass.pc = "judge" /\ UNCHANGED <<spec, campaignVars>> /\ pass.kind = "replay" /\ pass.todo # <<>>
  BY DEF JudgeReplay, ReplayInv, PassTold
<1>2. one.record \in DOMAIN records /\ IsManifest(r.out)
  BY <1>1, FirstToDo DEF ReplayInv, Made
<1>3. CASE CannotRun(r)
  <2>1. Log(one, "unreplayable", NotRun)
    BY <1>3 DEF JudgeReplay
  <2>2. Judged([record |-> one.record, outcome |-> "unreplayable", run |-> NotRun], records)
    BY <1>2 DEF Judged
  <2>3. QED
    BY <1>1, <2>1, <2>2, LoggedTold
<1>4. ASSUME ~CannotRun(r), NEW run \in ReRuns, run.end # "fault", Log(one, OutcomeOf(r, run), run)
      PROVE  ReplayInv'
  <2> DEFINE outcome == OutcomeOf(r, run)
             entry == [record |-> one.record, outcome |-> outcome, run |-> run]
  <2>1. /\ outcome \in {"unreplayable", "failed", "reproduced", "equivalent", "diverged"}
        /\ outcome = "reproduced" => spec.deterministic /\ run.end = "ok" /\ run.out = r.out
        /\ outcome = "equivalent" => spec.policy /\ run.end = "ok" /\ Nearly(r.out, run.out)
        /\ outcome = "diverged" =>
             /\ run.end = "ok" /\ run.identity = "same" /\ run.out # r.out
             /\ spec.policy => ~Nearly(r.out, run.out)
    BY <1>2, <1>4, OutcomeIsJudged
  <2>2. Log(one, outcome, run)
    BY <1>4
  <2> HIDE DEF outcome
  <2>3. entry.record = one.record /\ entry.outcome = outcome /\ entry.run = run
    OBVIOUS
  <2> HIDE DEF entry
  <2>4. Judged(entry, records)
    BY <1>2, <2>1, <2>3 DEF Judged
  <2>5. QED
    BY <1>1, <2>1, <2>2, <2>4, LoggedTold DEF entry
<1>5. CASE Raised /\ UNCHANGED replays
  <2>1. /\ DOMAIN pass' = {"pc", "kind", "todo", "at", "results"} /\ pass'.kind = pass.kind
        /\ pass'.pc = "raised" /\ pass'.todo = pass.todo /\ pass'.results = pass.results
    BY <1>5 DEF Raised, ReplayInv, PassTold
  <2>2. UNCHANGED records
    BY <1>1 DEF campaignVars
  <2>3. PassTold'
    BY <1>1, <1>5, <2>1, <2>2 DEF ReplayInv, PassTold
  <2>4. QED
    BY <1>1, <1>5, <2>1, <2>3, PassGoesOn
<1>6. QED
  BY <1>3, <1>4, <1>5 DEF JudgeReplay

\* What failed is what is left to do, or nothing is.
LEMMA ResultsSorted ==
  ASSUME ReplayInv, NextResult
  PROVE  ReplayInv'
<1> DEFINE all == [i \in DOMAIN pass.results |->
                     IF ToInvalidate(pass.results[i]) THEN <<pass.results[i]>> ELSE <<>>]
           left == Flat(all)
           S == {x \in ToSet(pass.results) : ToInvalidate(x)}
<1>1. /\ pass.pc = "next" /\ pass.todo = <<>> /\ UNCHANGED <<spec, replays, campaignVars>>
      /\ \/ pass' = [pass EXCEPT !.pc = "done"]
         \/ left # <<>> /\ pass' = [pass EXCEPT !.pc = "invalidate", !.todo = left]
  BY DEF NextResult
<1>2. IsSeq(pass.results) /\ \A i \in DOMAIN pass.results : Told(pass.results[i], pass.kind, records, replays)
  BY DEF ReplayInv, PassTold
<1>3. left \in Seq(S)
  <2>1. Len(pass.results) \in Nat /\ DOMAIN pass.results = 1 .. Len(pass.results)
    BY <1>2, Longer
  <2>2. Len(all) = Len(pass.results)
    BY <2>1
  <2>3. ASSUME NEW i \in 1 .. Len(all) PROVE all[i] \in Seq(S)
    <3>1. i \in DOMAIN pass.results /\ pass.results[i] \in ToSet(pass.results)
      BY <2>1, <2>2 DEF ToSet
    <3>2. CASE ToInvalidate(pass.results[i])
      <4> DEFINE x == pass.results[i]
      <4>1. x \in S /\ all[i] = <<x>>
        BY <3>1, <3>2
      <4> HIDE DEF x, S
      <4>2. <<x>> \in Seq(S)
        BY <4>1
      <4>3. QED
        BY <4>1, <4>2
    <3>3. CASE ~ToInvalidate(pass.results[i])
      BY <3>1, <3>3
    <3>4. QED
      BY <3>2, <3>3
  <2>4. Len(all) \in Nat
    BY <2>1, <2>2
  <2> HIDE DEF all, S
  <2>5. QED
    BY <2>3, <2>4, FlatFacts
<1> HIDE DEF left
<1>4. IsSeq(left) /\ \A i \in DOMAIN left : left[i] \in ToSet(pass.results) /\ ToInvalidate(left[i])
  BY <1>3, OwnElements
<1>5. \A x \in ToSet(pass.results) : x.record \in DOMAIN records
  BY <1>2 DEF ToSet, Told
<1>6. UNCHANGED records
  BY <1>1 DEF campaignVars
<1>7. /\ DOMAIN pass' = {"pc", "kind", "todo", "at", "results"} /\ pass'.kind = pass.kind /\ pass'.results = pass.results
      /\ \/ pass'.pc = "done" /\ pass'.todo = pass.todo
         \/ left # <<>> /\ pass'.pc = "invalidate" /\ pass'.todo = left
  BY <1>1 DEF ReplayInv, PassTold
<1>8. PassTold'
  <2>1. CASE pass'.pc = "done" /\ pass'.todo = pass.todo
    BY <1>1, <1>6, <1>7, <2>1 DEF ReplayInv, PassTold
  <2>2. CASE left # <<>> /\ pass'.pc = "invalidate" /\ pass'.todo = left
    BY <1>1, <1>2, <1>4, <1>5, <1>6, <1>7, <2>2 DEF ReplayInv, PassTold, ToInvalidate
  <2>3. QED
    BY <1>7, <2>1, <2>2
<1>9. QED
  BY <1>1, <1>7, <1>8, PassGoesOn

\* What is left after one has been dealt with.
LEMMA RestFacts ==
  ASSUME PassTold, pass.pc \in {"invalidate", "asked"}, pass' = Rest
  PROVE  /\ DOMAIN pass' = {"pc", "kind", "todo", "at", "results"} /\ pass'.kind = pass.kind
         /\ pass'.results = pass.results /\ IsSeq(pass'.todo) /\ pass'.pc \in {"done", "invalidate"}
         /\ pass'.pc = "invalidate" => pass'.todo # <<>>
         /\ \A i \in DOMAIN pass'.todo : \E k \in DOMAIN pass.todo : pass'.todo[i] = pass.todo[k]
<1>1. /\ IsSeq(Tail(pass.todo)) /\ (Len(pass.todo) # 1 => Tail(pass.todo) # <<>>)
      /\ \A i \in DOMAIN Tail(pass.todo) : \E k \in DOMAIN pass.todo : Tail(pass.todo)[i] = pass.todo[k]
  BY FirstToDo DEF PassTold
<1>2. IsSeq(<<>>) /\ DOMAIN <<>> = {}
  BY DEF IsSeq
<1>3. DOMAIN pass = {"pc", "kind", "todo", "at", "results"}
  BY DEF PassTold
<1>4. CASE Len(pass.todo) = 1
  <2>1. pass' = [pass EXCEPT !.todo = <<>>, !.pc = "done"]
    BY <1>4 DEF Rest
  <2>2. QED
    BY <1>2, <1>3, <2>1
<1>5. CASE Len(pass.todo) # 1
  <2>1. pass' = [pass EXCEPT !.todo = Tail(pass.todo), !.pc = "invalidate"]
    BY <1>5 DEF Rest
  <2>2. /\ DOMAIN pass' = {"pc", "kind", "todo", "at", "results"} /\ pass'.kind = pass.kind
        /\ pass'.results = pass.results /\ pass'.todo = Tail(pass.todo) /\ pass'.pc = "invalidate"
    BY <1>3, <2>1
  <2>3. IsSeq(pass'.todo) /\ pass'.todo # <<>>
    BY <1>1, <1>5, <2>2
  <2>4. \A i \in DOMAIN pass'.todo : \E k \in DOMAIN pass.todo : pass'.todo[i] = pass.todo[k]
    BY <1>1, <2>2
  <2>5. QED
    BY <2>2, <2>3, <2>4
<1>6. QED
  BY <1>4, <1>5

\* A pass that invalidates goes on with what it has left.
LEMMA RestTold ==
  ASSUME PassTold, pass.pc \in {"invalidate", "asked"}, pass' = Rest, replays' = replays,
         DOMAIN records' = DOMAIN records
  PROVE  PassTold'
<1>1. /\ DOMAIN pass' = {"pc", "kind", "todo", "at", "results"} /\ pass'.kind = pass.kind
      /\ pass'.results = pass.results /\ IsSeq(pass'.todo) /\ pass'.pc \in {"done", "invalidate"}
      /\ pass'.pc = "invalidate" => pass'.todo # <<>>
      /\ \A i \in DOMAIN pass'.todo : \E k \in DOMAIN pass.todo : pass'.todo[i] = pass.todo[k]
  BY RestFacts
<1>2. \A one, kind, log : Told(one, kind, records, log) => Told(one, kind, records', log)
  BY DEF Told
<1>3. /\ pass.kind \in {"none", "replay", "validate"} /\ IsSeq(pass.results)
      /\ \A i \in DOMAIN pass.results : Told(pass.results[i], pass.kind, records, replays)
      /\ \A k \in DOMAIN pass.todo : /\ pass.todo[k].record \in DOMAIN records
                                     /\ pass.todo[k] \in ToSet(pass.results) /\ ToInvalidate(pass.todo[k])
  BY DEF PassTold
<1>4. \A i \in DOMAIN pass.results : Told(pass.results[i], pass.kind, records', replays)
  BY <1>2, <1>3
<1>5. /\ \A i \in DOMAIN pass'.todo : pass'.todo[i].record \in DOMAIN records
      /\ \A i \in DOMAIN pass'.todo : pass'.todo[i] \in ToSet(pass.results) /\ ToInvalidate(pass'.todo[i])
  BY <1>1, <1>3
<1>6. QED
  BY <1>1, <1>3, <1>4, <1>5 DEF PassTold, ToInvalidate

\* The state is asked for: a record already invalidated is spared.
LEMMA StateAsked ==
  ASSUME ReplayInv, AskState
  PROVE  ReplayInv'
<1>1. /\ pass.pc = "invalidate" /\ UNCHANGED <<spec, replays, campaignVars>>
      /\ (pass' = Rest \/ pass' = [pass EXCEPT !.pc = "asked"])
  BY DEF AskState
<1>2. UNCHANGED records
  BY <1>1 DEF campaignVars
<1>3. CASE pass' = Rest
  <2>1. PassTold' /\ pass'.kind = pass.kind /\ pass'.results = pass.results
    BY <1>1, <1>2, <1>3, RestFacts, RestTold DEF ReplayInv
  <2>2. QED
    BY <1>1, <2>1, PassGoesOn
<1>4. CASE pass' = [pass EXCEPT !.pc = "asked"]
  <2>1. /\ DOMAIN pass' = {"pc", "kind", "todo", "at", "results"} /\ pass'.kind = pass.kind
        /\ pass'.pc = "asked" /\ pass'.todo = pass.todo /\ pass'.results = pass.results
    BY <1>4 DEF ReplayInv, PassTold
  <2>2. PassTold'
    BY <1>1, <1>2, <2>1 DEF ReplayInv, PassTold, ToInvalidate
  <2>3. QED
    BY <1>1, <2>1, <2>2, PassGoesOn
<1>5. QED
  BY <1>1, <1>3, <1>4

\* A record is invalidated for what its result says, or the pass ends.
LEMMA PassInvalidates ==
  ASSUME Shapes, ReplayInv, InvalidateOne
  PROVE  ReplayInv'
<1> DEFINE one == Head(pass.todo)
           r == one.record
<1>1. /\ pass.pc \in {"invalidate", "asked"} /\ UNCHANGED <<spec, replays, plan, corpus, camp>>
      /\ \/ Invalid(r, pass.kind) /\ pass' = Rest
         \/ pass' = [pass EXCEPT !.pc = "stopped"] /\ UNCHANGED records
  BY DEF InvalidateOne
<1>2. /\ r \in DOMAIN records /\ one \in ToSet(pass.results) /\ ToInvalidate(one)
  <2>1. pass.todo # <<>>
    BY <1>1 DEF ReplayInv, PassTold
  <2>2. PICK k \in DOMAIN pass.todo : one = pass.todo[k]
    BY <2>1, FirstToDo DEF ReplayInv
  <2>3. QED
    BY <1>1, <2>1, <2>2, FirstToDo DEF ReplayInv, PassTold
<1>3. PICK j \in DOMAIN pass.results : pass.results[j] = one
  BY <1>2 DEF ToSet
<1>4. Told(one, pass.kind, records, replays)
  BY <1>3 DEF ReplayInv, PassTold
<1> HIDE DEF one
<1>5. CASE Invalid(r, pass.kind) /\ pass' = Rest
  <2>1. /\ DOMAIN records' = DOMAIN records /\ Kept(records, records')
        /\ records'[r].cause = pass.kind
        /\ \A i \in DOMAIN records \ {r} : records'[i] = records[i]
    BY <1>2, <1>5, InvalidKeeps
  <2>2. Made'
    BY <1>1, <2>1, MadeAsBefore DEF ReplayInv
  <2>3. LogKept'
    <3>1. \A e : Judged(e, records) => Judged(e, records')
      BY <2>1 DEF Judged, Kept
    <3>2. \A i \in DOMAIN replays : Judged(replays[i], records')
      BY <3>1 DEF ReplayInv, LogKept
    <3>3. QED
      BY <1>1, <3>2 DEF ReplayInv, LogKept, Judged
  <2>4. PassTold' /\ pass'.results = pass.results
    BY <1>1, <1>5, <2>1, RestFacts, RestTold DEF ReplayInv
  <2>5. pass.kind = "replay" => Diverging(r, replays)
    BY <1>2, <1>4 DEF Told, ToInvalidate
  <2>6. pass.kind = "validate" =>
          \E i \in DOMAIN pass.results : pass.results[i].record = r /\ ~IsIntact(pass.results[i].verdict)
    <3>1. pass.kind = "validate" => one.verdict \in {"missing", "drift"}
      BY <1>2, <1>4 DEF Told, ToInvalidate
    <3>2. QED
      BY <1>3, <3>1 DEF IsIntact
  <2>7. CausesTold'
    BY <1>1, <2>1, <2>4, <2>5, <2>6 DEF ReplayInv, CausesTold
  <2>8. QED
    BY <2>2, <2>3, <2>4, <2>7 DEF ReplayInv
<1>6. CASE pass' = [pass EXCEPT !.pc = "stopped"] /\ UNCHANGED records
  <2>1. /\ DOMAIN pass' = {"pc", "kind", "todo", "at", "results"} /\ pass'.kind = pass.kind
        /\ pass'.pc = "stopped" /\ pass'.todo = pass.todo /\ pass'.results = pass.results
    BY <1>6 DEF ReplayInv, PassTold
  <2>2. PassTold'
    BY <1>1, <1>6, <2>1 DEF ReplayInv, PassTold
  <2>3. Made' /\ LogKept'
    BY <1>1, <1>6 DEF ReplayInv, Made, LogKept, Judged
  <2>4. CausesTold'
    BY <1>1, <1>6, <2>1 DEF ReplayInv, CausesTold
  <2>5. QED
    BY <2>2, <2>3, <2>4 DEF ReplayInv
<1>7. QED
  BY <1>1, <1>5, <1>6

\* Another client's invalidation is no pass's.
LEMMA OtherInvalidates ==
  ASSUME Shapes, ReplayInv, NEW r \in DOMAIN records, InvalidateOther(r)
  PROVE  ReplayInv'
<1>1. Invalid(r, "other") /\ UNCHANGED <<plan, corpus, camp>> /\ UNCHANGED replayVars
  BY DEF InvalidateOther, replayVars
<1>2. /\ DOMAIN records' = DOMAIN records /\ Kept(records, records') /\ records'[r].cause = "other"
      /\ \A i \in DOMAIN records \ {r} : records'[i] = records[i]
  BY <1>1, InvalidKeeps
<1>3. OthersCauses(records, records')
  BY <1>2 DEF OthersCauses
<1>4. Made'
  BY <1>1, <1>2, MadeAsBefore DEF ReplayInv
<1>5. QED
  BY <1>1, <1>2, <1>3, <1>4, BesidePass

\* No pass, and an empty log.
LEMMA ReplayStart ==
  ASSUME ReplaySpecInit
  PROVE  ReplayInv
<1>1. Made /\ \A i \in DOMAIN records : records[i].cause = "none"
  BY MadeStart DEF ReplaySpecInit
<1>2. replays = <<>> /\ pass = IdlePass
  BY DEF ReplaySpecInit, ReplayInit
<1>3. /\ DOMAIN pass = {"pc", "kind", "todo", "at", "results"} /\ pass.pc = "none" /\ pass.kind = "none"
      /\ pass.todo = <<>> /\ pass.results = <<>>
  BY <1>2 DEF IdlePass
<1>4. IsSeq(<<>>) /\ DOMAIN <<>> = {}
  BY DEF IsSeq
<1>5. LogKept
  BY <1>2, <1>4 DEF LogKept
<1>6. CausesTold
  BY <1>1 DEF CausesTold
<1>7. PassTold
  BY <1>3, <1>4 DEF PassTold
<1>8. QED
  BY <1>1, <1>5, <1>6, <1>7 DEF ReplayInv

\* Every entry of the replay log was judged by its run, whatever becomes of the record afterwards, and a pass
\* invalidates what it has a result against.
THEOREM ReplayInvariant == ReplaySpec => []ReplayInv
<1>1. ReplaySpecInit => ReplayInv
  BY ReplayStart
<1>2. CampaignInv /\ ReplayInv /\ [ReplayNext]_<<campaignVars, replayVars>> => ReplayInv'
  <2> SUFFICES ASSUME CampaignInv, ReplayInv, [ReplayNext]_<<campaignVars, replayVars>> PROVE ReplayInv'
    OBVIOUS
  <2>1. Shapes
    BY DEF CampaignInv
  <2>2. CASE (CampaignSteps \/ Crash \/ Changes) /\ UNCHANGED replayVars
    <3>1. CampaignSteps \/ Crash \/ Outsiders
      BY <2>2 DEF Outsiders
    <3>2. Made' /\ Kept(records, records') /\ OthersCauses(records, records')
      BY <2>1, <3>1, BesideMade DEF ReplayInv
    <3>3. QED
      BY <2>2, <3>2, BesidePass
  <2>3. CASE PassSteps
    BY <2>1, <2>3, ValidatedTold, LiveRead, ReplayJudged, ResultsSorted, StateAsked, PassInvalidates DEF PassSteps
  <2>4. CASE PassStarts
    BY <2>1, <2>4, PassStarting DEF PassStarts
  <2>5. CASE \E r \in DOMAIN records : InvalidateOther(r)
    BY <2>1, <2>5, OtherInvalidates
  <2>6. CASE UNCHANGED <<campaignVars, replayVars>>
    <3>1. records' = records /\ UNCHANGED <<plan, corpus, camp>> /\ UNCHANGED replayVars
      BY <2>6 DEF campaignVars
    <3>2. Made'
      BY <3>1 DEF ReplayInv, Made
    <3>3. QED
      BY <3>1, <3>2, SameRecords, BesidePass
  <2>7. QED
    BY <2>2, <2>3, <2>4, <2>5, <2>6 DEF ReplayNext
<1>3. QED
  BY <1>1, <1>2, CampaignInvariant, PTL DEF ReplaySpec

\* A replay is told for what it was - the same bytes, within the policy's own words, or outside them - and only what
\* diverged, or has files that changed or are nowhere to be read, is invalidated by a pass.
THEOREM ReplayAlwaysJustified == ReplaySpec => []ReplayJustified
<1>1. ReplayInv => ReplayJustified
  BY DEF ReplayInv, LogKept, CausesTold, Judged, Diverging, ReplayJustified
<1>2. QED
  BY <1>1, ReplayInvariant, PTL

-----------------------------------------------------------------------------
(***************************************************************************)
(* What a signed-off report covers: the lines it is built of.              *)
(***************************************************************************)
\* A line says what an observation may say, and only a sealed one cites a record, of recs.
LineTold(o, recs) ==
  /\ o.run # <<>> => o.status \in Statuses
  /\ o.status = "sealed" => o.record \in DOMAIN recs
  /\ o.status # "sealed" => o.record = 0

LinesTold ==
  /\ \A i \in DOMAIN journal.lines : LineTold(journal.lines[i], records)
  /\ camp.pc = "append" => LineTold(camp.obs, records)
  /\ camp.pc = "record" => camp.obs.status = "sealed" /\ camp.obs.record = 0

\* Of the lines that were read, a sealed one cites a record of its document and lane, unless the journal is spoilt.
ReadTold(mem, recs, hurt) ==
  \A i \in DOMAIN mem :
    /\ LineTold(mem[i], recs)
    /\ ~hurt /\ mem[i].status = "sealed" => <<recs[mem[i].record].doc, recs[mem[i].record].lane>> = mem[i].run

\* What a line says goes on being so.
LEMMA StillTold ==
  ASSUME NEW recs, NEW news, Kept(recs, news)
  PROVE  /\ \A o : LineTold(o, recs) => LineTold(o, news)
         /\ \A mem, hurt, more : ReadTold(mem, recs, hurt) /\ (~more => ~hurt) => ReadTold(mem, news, more)
BY DEF Kept, LineTold, ReadTold

\* The lines that are not observations.
LEMMA OtherLinesTold == ASSUME NEW recs PROVE LineTold(Header, recs) /\ LineTold(Garbled, recs)
BY DEF LineTold, Header, Garbled, Line, Observation

\* One line more.
LEMMA ToldMore ==
  ASSUME NEW recs, NEW s, IsSeq(s), NEW x, LineTold(x, recs), \A i \in DOMAIN s : LineTold(s[i], recs)
  PROVE  \A i \in DOMAIN Append(s, x) : LineTold(Append(s, x)[i], recs)
<1>1. /\ Len(s) \in Nat /\ DOMAIN s = 1 .. Len(s)
      /\ DOMAIN Append(s, x) = 1 .. Len(s) + 1 /\ Append(s, x)[Len(s) + 1] = x
      /\ \A i \in 1 .. Len(s) : Append(s, x)[i] = s[i]
  BY Longer
<1>2. \A i \in 1 .. Len(s) + 1 : i \in 1 .. Len(s) \/ i = Len(s) + 1
  BY <1>1
<1>3. QED
  BY <1>1, <1>2

\* Nothing that goes on beside a report takes another corpus or other lanes, or mends a journal.
LEMMA BesideSteady ==
  ASSUME Shapes, CampaignSteps \/ Crash \/ Outsiders
  PROVE  UNCHANGED <<corpus, plan>> /\ (~journal'.hurt => ~journal.hurt)
<1>1. UNCHANGED <<corpus, plan>>
  BY DEF CampaignSteps, OpenJournal, RecordRun, AppendObservation, Stop, Observe, Crash, Outsiders, Changes, Damage,
         EditWorking, EditDocument, EditJournal
<1>2. DOMAIN journal = {"lines", "torn", "hurt"} /\ journal.hurt \in BOOLEAN
  BY DEF Shapes
<1>3. CASE OpenJournal
  <2> DEFINE j == Recovered(journal)
  <2>1. DOMAIN j = {"lines", "torn", "hurt"} /\ j.hurt = journal.hurt
    BY <1>2 DEF Recovered
  <2>2. journal' = j \/ journal' = AppendLine(j, Header)
    BY <1>3 DEF OpenJournal, Opened
  <2> HIDE DEF j
  <2>3. AppendLine(j, Header).hurt = j.hurt
    BY <2>1, AppendedLine
  <2>4. QED
    BY <1>1, <2>1, <2>2, <2>3
<1>4. CASE AppendObservation
  <2>1. AppendLine(journal, camp.obs).hurt = journal.hurt
    BY <1>2, AppendedLine
  <2>2. [journal EXCEPT !.torn = TRUE, !.hurt = TRUE].hurt = TRUE
    BY <1>2
  <2>3. QED
    BY <1>1, <1>4, <2>1, <2>2 DEF AppendObservation
<1>5. CASE Crash
  <2>1. journal' = journal \/ journal' = [journal EXCEPT !.torn = TRUE]
    BY <1>5 DEF Crash
  <2>2. QED
    BY <1>1, <1>2, <2>1
<1>6. ASSUME NEW i, NEW r, EditJournal(i, r) PROVE journal'.hurt
  BY <1>2, <1>6 DEF EditJournal
<1>7. CASE UNCHANGED journal
  BY <1>1, <1>7
<1>8. QED
  BY <1>1, <1>3, <1>4, <1>5, <1>6, <1>7 DEF CampaignSteps, RecordRun, Stop, Observe, Outsiders, Changes, Damage,
     EditWorking, EditDocument

\* A journal that is opened says what it said.
LEMMA OpenTold ==
  ASSUME Shapes, LinesTold, OpenJournal
  PROVE  LinesTold'
<1> DEFINE j == Recovered(journal)
<1>1. /\ DOMAIN j = {"lines", "torn", "hurt"} /\ j.lines = journal.lines /\ IsSeq(journal.lines)
  BY DEF Recovered, Shapes
<1>2. records' = records /\ camp'.pc \in {"ready", "refused"}
  BY DEF OpenJournal, Shapes
<1>3. journal' = j \/ journal' = AppendLine(j, Header)
  BY DEF OpenJournal, Opened
<1> HIDE DEF j
<1>4. AppendLine(j, Header).lines \in {Append(j.lines, Header), Append(j.lines, Garbled)}
  BY <1>1, AppendedLine
<1>5. \A i \in DOMAIN journal'.lines : LineTold(journal'.lines[i], records)
  BY <1>1, <1>3, <1>4, ToldMore, OtherLinesTold DEF LinesTold
<1>6. QED
  BY <1>2, <1>5 DEF LinesTold

\* A run that is recorded is cited by a sealed observation.
LEMMA RecordTold ==
  ASSUME Shapes, LinesCite, LinesTold, Kept(records, records'), RecordRun
  PROVE  LinesTold'
<1> DEFINE n == Len(records)
           o == camp.obs
<1>1. PICK r, new :
        /\ records' = Append(records, r)
        /\ camp' = [camp EXCEPT !.pc = "append", !.obs = new]
        /\ new = [o EXCEPT !.record = n + 1] \/ new = [o EXCEPT !.status = "error", !.out = NoRecord]
  BY DEF RecordRun, Observed
<1>2. journal' = journal /\ camp.pc = "record"
  BY DEF RecordRun
<1>3. n \in Nat /\ DOMAIN records' = 1 .. n + 1
  BY <1>1, Longer DEF Shapes
<1>4. camp'.pc = "append" /\ camp'.obs = new
  BY <1>1 DEF Shapes
<1>5. o.status = "sealed" /\ o.record = 0 /\ IsObservation(o)
  BY <1>2 DEF LinesTold, LinesCite
<1>6. (new.status = "sealed" /\ new.record = n + 1) \/ (new.status = "error" /\ new.record = 0)
  BY <1>1, <1>5 DEF IsObservation
<1> HIDE DEF n, o
<1>7. n + 1 \in DOMAIN records'
  BY <1>3
<1>8. LineTold(new, records')
  BY <1>6, <1>7 DEF LineTold, Statuses
<1>9. QED
  BY <1>2, <1>4, <1>8, StillTold DEF LinesTold

\* What was observed and is written down is the line that it was in memory, or a garbled one.
LEMMA WriteTold ==
  ASSUME Shapes, LinesTold, AppendObservation
  PROVE  LinesTold'
<1>1. records' = records /\ camp'.pc = "ready" /\ IsSeq(journal.lines)
  BY DEF AppendObservation, Shapes
<1>2. \/ \E x \in {Garbled, camp.obs} : journal'.lines = Append(journal.lines, x)
      \/ journal'.lines = journal.lines
  <2>1. CASE journal' = AppendLine(journal, camp.obs)
    <3>1. AppendLine(journal, camp.obs).lines = Append(journal.lines, IF journal.torn THEN Garbled ELSE camp.obs)
      BY AppendedLine DEF Shapes
    <3>2. QED
      BY <2>1, <3>1
  <2>2. CASE journal' = [journal EXCEPT !.torn = TRUE, !.hurt = TRUE]
    BY <2>2 DEF Shapes
  <2>3. QED
    BY <2>1, <2>2 DEF AppendObservation
<1>3. \A x \in {Garbled, camp.obs} : LineTold(x, records)
  BY OtherLinesTold DEF LinesTold, AppendObservation
<1>4. \A i \in DOMAIN journal'.lines : LineTold(journal'.lines[i], records)
  BY <1>1, <1>2, <1>3, ToldMore DEF LinesTold
<1>5. QED
  BY <1>1, <1>4 DEF LinesTold

\* Whatever goes on beside a report leaves the lines as an observation may be.
LEMMA BesideTold ==
  ASSUME Shapes, LinesCite, Made, LinesTold, Kept(records, records'), CampaignSteps \/ Crash \/ Outsiders
  PROVE  LinesTold'
<1>1. CASE OpenJournal \/ RecordRun \/ AppendObservation
  BY <1>1, OpenTold, RecordTold, WriteTold
<1>2. CASE Stop \/ Crash
  <2>1. records' = records /\ camp' = [camp EXCEPT !.pc = "closed"]
        /\ (journal' = journal \/ journal' = [journal EXCEPT !.torn = TRUE])
    BY <1>2 DEF Stop, Crash
  <2>2. camp'.pc = "closed" /\ journal'.lines = journal.lines
    BY <2>1 DEF Shapes
  <2>3. QED
    BY <2>1, <2>2 DEF LinesTold
<1>3. ASSUME NEW run \in ToSet(Paths) \X ToSet(LaneOrder), Observe(run) PROVE LinesTold'
  <2>1. records' = records /\ journal' = journal
    BY <1>3 DEF Observe
  <2>2. /\ camp'.obs.record = 0
        /\ camp'.pc = "append" => camp'.obs.status # "sealed"
        /\ camp'.pc = "record" => camp'.obs.status = "sealed"
    BY <1>3, ObserveForms
  <2>3. camp'.obs.status \in Statuses
    BY <1>3, ObservedWhat DEF Made
  <2>4. QED
    BY <2>1, <2>2, <2>3 DEF LinesTold, LineTold
<1>4. CASE Changes \/ Damage(ReportBlob)
  <2>1. UNCHANGED <<records, journal, camp>>
    BY <1>4 DEF Changes, Damage, EditWorking, EditDocument
  <2>2. QED
    BY <2>1 DEF LinesTold
<1>5. ASSUME NEW i \in DOMAIN journal.lines, NEW r \in DOMAIN records, EditJournal(i, r) PROVE LinesTold'
  <2> DEFINE line == [journal.lines[i] EXCEPT !.record = r, !.out = records[r].out]
             lines == [journal.lines EXCEPT ![i] = line]
  <2>1. /\ journal' = [[journal EXCEPT !.lines = lines] EXCEPT !.hurt = TRUE] /\ records' = records /\ camp' = camp
        /\ journal.lines[i].status = "sealed"
    BY <1>5 DEF EditJournal
  <2>2. line.record = r /\ line.status = "sealed" /\ line.run = journal.lines[i].run
    BY <2>1 DEF LinesCite, CitingLines, IsObservation
  <2>3. DOMAIN lines = DOMAIN journal.lines /\ \A k \in DOMAIN lines : lines[k] = IF k = i THEN line ELSE journal.lines[k]
    OBVIOUS
  <2> HIDE DEF line, lines
  <2>4. LineTold(line, records)
    BY <2>2 DEF LineTold, Statuses
  <2>5. journal'.lines = lines
    BY <2>1 DEF Shapes
  <2>6. QED
    BY <2>1, <2>3, <2>4, <2>5 DEF LinesTold
<1>6. QED
  BY <1>1, <1>2, <1>3, <1>4, <1>5 DEF CampaignSteps, Outsiders

-----------------------------------------------------------------------------
(***************************************************************************)
(* The rows of a report.                                                   *)
(***************************************************************************)
\* The record of a sealed row is of what the row is of.
Fits(row) ==
  LET r == records[row.record] IN
  /\ row.record \in DOMAIN records
  /\ plan.backend[r.lane] = plan.backend[row.run[2]]
  /\ r.source = corpus.entries[row.run[1]] /\ r.config = "ours" /\ r.out = row.out
  /\ journal.hurt \/ <<r.doc, r.lane>> = row.run

\* The first runs' rows: a sealed one without problems fits its record, which no row before it has.
RowsTold(rows) ==
  /\ Len(rows) <= Len(Runs)
  /\ \A i \in DOMAIN rows :
       LET row == rows[i] IN
       /\ row.run = Runs[i] /\ row.status \in Statuses \cup {"incomplete"}
       /\ row.status # "sealed" => row.record = 0
       /\ row.status = "sealed" /\ row.problems = {} =>
            Fits(row) /\ \A j \in 1 .. i - 1 : rows[j].record # row.record

\* The latest observation of a run is of it, and is one of the lines read, or says that there is none.
LEMMA LatestTold ==
  ASSUME NEW mem, IsSeq(mem), NEW hurt, ReadTold(mem, records, hurt), NEW run, run # <<>>
  PROVE  LET obs == Latest(mem, run) IN
         /\ obs.run = run /\ obs.status \in Statuses \cup {"incomplete"}
         /\ obs.status # "sealed" => obs.record = 0
         /\ obs.status = "sealed" =>
              obs.record \in DOMAIN records /\ (~hurt => <<records[obs.record].doc, records[obs.record].lane>> = run)
<1> DEFINE of == {i \in DOMAIN mem : mem[i].run = run}
           obs == Latest(mem, run)
<1>1. CASE of = {}
  <2>1. obs = Observation(run, "incomplete", "none", Gone, 0, NoRecord)
    BY <1>1 DEF Latest
  <2>2. obs.run = run /\ obs.status = "incomplete" /\ obs.record = 0
    BY <2>1 DEF Observation
  <2>3. QED
    BY <2>2
<1>2. CASE of # {}
  <2>1. Len(mem) \in Nat /\ of \subseteq 1 .. Len(mem)
    BY Longer
  <2>2. \E i \in of : \A j \in of : j <= i
    <3> HIDE DEF of
    <3>1. QED
      BY <1>2, <2>1, LastPlace
  <2>3. obs = mem[CHOOSE i \in of : \A j \in of : j <= i]
    BY <1>2 DEF Latest
  <2>4. PICK i \in of : obs = mem[i]
    <3> HIDE DEF of, obs
    <3>1. QED
      BY <2>2, <2>3
  <2>5. i \in DOMAIN mem /\ obs = mem[i] /\ mem[i].run = run
    BY <2>4
  <2> HIDE DEF of, obs
  <2>6. /\ LineTold(mem[i], records)
        /\ ~hurt /\ mem[i].status = "sealed" =>
             <<records[mem[i].record].doc, records[mem[i].record].lane>> = mem[i].run
    BY <2>5 DEF ReadTold
  <2>7. QED
    BY <2>5, <2>6 DEF LineTold, obs
<1>3. QED
  BY <1>1, <1>2

\* A record that has no problems is what the observation says.
LEMMA NoProblems ==
  ASSUME NEW obs, NEW claimed, RecordProblems(obs, claimed) = {}
  PROVE  LET r == records[obs.record] IN
         /\ r.out = obs.out /\ plan.backend[r.lane] = plan.backend[obs.run[2]] /\ r.config = "ours" /\ obs.record \notin claimed
         /\ r.source = corpus.entries[obs.run[1]]
<1> DEFINE r == records[obs.record]
           all == {"state", "run", "backend", "config", "claimed", "input", "files"}
           Bad(p) == \/ p = "state"   /\ r.state # "sealed"
                     \/ p = "run"     /\ r.out # obs.out
                     \/ p = "backend" /\ plan.backend[r.lane] # plan.backend[obs.run[2]]
                     \/ p = "config"  /\ r.config # "ours"
                     \/ p = "claimed" /\ obs.record \in claimed
                     \/ p = "input"   /\ r.source # corpus.entries[obs.run[1]]
                     \/ p = "files"   /\ ~IsIntact(ValidationOf(r))
<1>1. RecordProblems(obs, claimed) = {p \in all : Bad(p)}
  BY DEF RecordProblems
<1>2. \A p \in all : ~Bad(p)
  <2> HIDE DEF Bad, all
  <2>1. QED
    BY <1>1
<1>3. ~Bad("run") /\ ~Bad("backend") /\ ~Bad("config") /\ ~Bad("claimed") /\ ~Bad("input")
  <2> HIDE DEF Bad
  <2>1. QED
    BY <1>2
<1>4. QED
  BY <1>3

\* One row more is the next run's.
LEMMA RowTold ==
  ASSUME IsSeq(signer.rows), IsSeq(signer.mem), DOMAIN signer = {"pc", "why", "mem", "rows", "sealed", "whole", "problems"},
         RowsTold(signer.rows), ReadTold(signer.mem, records, journal.hurt), CheckRow
  PROVE  RowsTold(signer'.rows)
<1> DEFINE n == Len(signer.rows)
           run == Runs[n + 1]
           obs == Latest(signer.mem, run)
           claimed == {signer.rows[i].record : i \in DOMAIN signer.rows}
           problems == IF obs.status = "sealed" THEN RecordProblems(obs, claimed) ELSE {}
           row == Row(run, obs, problems)
           rows == signer'.rows
<1>1. n < Len(Runs) /\ signer' = [signer EXCEPT !.rows = Append(signer.rows, row)]
  BY DEF CheckRow
<1>2. rows = Append(signer.rows, row)
  <2> HIDE DEF row
  <2>1. QED
    BY <1>1
<1>3. n \in Nat /\ Len(Runs) \in Nat /\ DOMAIN Runs = 1 .. Len(Runs) /\ n + 1 \in DOMAIN Runs
  BY <1>1, Longer, RunsFacts
<1>4. run # <<>>
  <2>1. Runs[n + 1] \in (DOMAIN corpus.entries) \X ToSet(LaneOrder)
    BY <1>3, RunsFacts
  <2> HIDE DEF n
  <2>2. QED
    BY <2>1, PairNotEmpty, Zenon
<1> HIDE DEF run
<1>5. /\ obs.run = run /\ obs.status \in Statuses \cup {"incomplete"}
      /\ obs.status # "sealed" => obs.record = 0
      /\ obs.status = "sealed" =>
           /\ obs.record \in DOMAIN records
           /\ ~journal.hurt => <<records[obs.record].doc, records[obs.record].lane>> = run
  BY <1>4, LatestTold
<1>6. problems = {} /\ obs.status = "sealed" => RecordProblems(obs, claimed) = {}
  OBVIOUS
<1> HIDE DEF obs, claimed, problems
<1>7. /\ row.run = run /\ row.status = obs.status /\ row.record = obs.record /\ row.out = obs.out
      /\ row.problems = problems
  BY DEF Row
<1> HIDE DEF row
<1>8. ASSUME row.status = "sealed", row.problems = {}
      PROVE  Fits(row) /\ \A j \in DOMAIN signer.rows : signer.rows[j].record # row.record
  <2>1. LET r == records[obs.record] IN
        /\ r.out = obs.out /\ plan.backend[r.lane] = plan.backend[obs.run[2]] /\ r.config = "ours" /\ obs.record \notin claimed
        /\ r.source = corpus.entries[obs.run[1]]
    BY <1>6, <1>7, <1>8, NoProblems
  <2>2. Fits(row)
    BY <1>5, <1>7, <1>8, <2>1 DEF Fits
  <2>3. QED
    BY <1>7, <2>1, <2>2 DEF claimed
<1>9. /\ DOMAIN signer.rows = 1 .. n /\ Len(rows) = n + 1 /\ DOMAIN rows = 1 .. n + 1 /\ rows[n + 1] = row
      /\ \A i \in 1 .. n : rows[i] = signer.rows[i]
  BY <1>2, Longer
<1> HIDE DEF rows
<1>10. /\ \A i \in 1 .. n + 1 : i \in 1 .. n \/ i = n + 1
       /\ \A i \in 1 .. n : \A j \in 1 .. i - 1 : j \in 1 .. n
       /\ 1 .. (n + 1) - 1 = 1 .. n
  BY <1>3
<1>11. ASSUME NEW i \in 1 .. n
       PROVE  /\ rows[i].run = Runs[i] /\ rows[i].status \in Statuses \cup {"incomplete"}
              /\ rows[i].status # "sealed" => rows[i].record = 0
              /\ rows[i].status = "sealed" /\ rows[i].problems = {} =>
                   Fits(rows[i]) /\ \A j \in 1 .. i - 1 : rows[j].record # rows[i].record
  <2> DEFINE old == signer.rows[i]
  <2>1. /\ old.run = Runs[i] /\ old.status \in Statuses \cup {"incomplete"}
        /\ old.status # "sealed" => old.record = 0
        /\ old.status = "sealed" /\ old.problems = {} =>
             Fits(old) /\ \A j \in 1 .. i - 1 : signer.rows[j].record # old.record
    BY <1>9 DEF RowsTold
  <2>2. rows[i] = old /\ \A j \in 1 .. i - 1 : rows[j] = signer.rows[j]
    BY <1>9, <1>10
  <2> HIDE DEF old
  <2>3. QED
    BY <2>1, <2>2
<1>12. /\ rows[n + 1].run = Runs[n + 1] /\ rows[n + 1].status \in Statuses \cup {"incomplete"}
       /\ rows[n + 1].status # "sealed" => rows[n + 1].record = 0
       /\ rows[n + 1].status = "sealed" /\ rows[n + 1].problems = {} =>
            Fits(rows[n + 1]) /\ \A j \in 1 .. (n + 1) - 1 : rows[j].record # rows[n + 1].record
  BY <1>5, <1>7, <1>8, <1>9, <1>10 DEF run
<1>13. Len(rows) <= Len(Runs)
  BY <1>1, <1>3, <1>9
<1> HIDE DEF n
<1>14. QED
  BY <1>9, <1>10, <1>11, <1>12, <1>13 DEF RowsTold, rows

-----------------------------------------------------------------------------
(***************************************************************************)
(* What the rows of a report that passes say.                              *)
(***************************************************************************)
Acceptable == {"sealed", "failed", "not_applicable"}

\* A row for every run, each sealed one fitting a record of its own, and every difference waived.
Certified(rows, waivers) ==
  /\ Len(rows) = Len(Runs)
  /\ \A i \in DOMAIN rows :
       LET row == rows[i] IN
       /\ row.run = Runs[i] /\ row.status \in Acceptable
       /\ row.status # "sealed" => row.record = 0
       /\ row.status = "sealed" => Fits(row) /\ \A j \in 1 .. i - 1 : rows[j].record # row.record
  /\ \A c \in Compared :
       LET outcome == OutcomeIn(rows, c[1], c[2])
       IN  outcome \in Waivable => <<c[1], c[2], outcome>> \in waivers

\* Rows of all the runs that fail no gate are certified.
LEMMA GatesCertify ==
  ASSUME NEW rows, RowsTold(rows), Len(rows) = Len(Runs), NEW waivers, FailedGates(rows, waivers) = {}
  PROVE  Certified(rows, waivers)
<1> DEFINE all == {"corpus_unchanged", "coverage", "baseline_produced_output", "no_errors", "records_verified",
                   "ledger_verified", "candidates_agree", "waivers_used", "baseline_failure_rate"}
           Bad(g) ==
             \/ g = "corpus_unchanged" /\ ~Unchanged(corpus, disk)
             \/ g = "coverage" /\ (rows = <<>> \/ \E i \in DOMAIN rows : rows[i].status = "incomplete")
             \/ g = "baseline_produced_output" /\ Count(rows, Baseline, {"sealed"}) = 0
             \/ g = "no_errors" /\ \E i \in DOMAIN rows : rows[i].status \in {"error", "containment_error"}
             \/ g = "records_verified" /\ \E i \in DOMAIN rows : rows[i].problems # {}
             \/ g = "ledger_verified" /\ forged # "no"
             \/ g = "candidates_agree" /\ Findings(rows) \ waivers # {}
             \/ g = "waivers_used" /\ waivers \ Findings(rows) # {}
             \/ /\ g = "baseline_failure_rate" /\ MaxFailures # NoLimit
                /\ LET applicable == {"sealed", "failed", "error", "containment_error"}
                   IN  100 * Count(rows, Baseline, {"failed"}) > MaxFailures * Count(rows, Baseline, applicable)
<1>1. FailedGates(rows, waivers) = {g \in all : Bad(g)}
  BY DEF FailedGates
<1>2. \A g \in all : ~Bad(g)
  <2> HIDE DEF Bad, all
  <2>1. QED
    BY <1>1
<1>3. ~Bad("coverage") /\ ~Bad("no_errors") /\ ~Bad("records_verified") /\ ~Bad("candidates_agree")
  <2> HIDE DEF Bad
  <2>1. QED
    BY <1>2
<1>4. \A i \in DOMAIN rows : rows[i].status # "incomplete"
  BY <1>3
<1>5. \A i \in DOMAIN rows : rows[i].status \notin {"error", "containment_error"}
  BY <1>3
<1>6. \A i \in DOMAIN rows : rows[i].problems = {}
  BY <1>3
<1>7. Findings(rows) \subseteq waivers
  BY <1>3
<1> HIDE DEF Bad, all
<1>8. ASSUME NEW i \in DOMAIN rows PROVE rows[i].status \in Acceptable
  <2>1. rows[i].status \in Statuses \cup {"incomplete"}
    BY DEF RowsTold
  <2>2. QED
    BY <1>4, <1>5, <2>1 DEF Statuses, Acceptable
<1>9. ASSUME NEW c \in Compared, OutcomeIn(rows, c[1], c[2]) \in Waivable
      PROVE  <<c[1], c[2], OutcomeIn(rows, c[1], c[2])>> \in waivers
  <2> DEFINE outcome(d) == OutcomeIn(rows, d[1], d[2])
             finding(d) == <<d[1], d[2], outcome(d)>>
  <2>1. Findings(rows) = {finding(d) : d \in Compared} \cap ((DOMAIN corpus.entries) \X ToSet(Candidates) \X Waivable)
    BY DEF Findings
  <2>2. outcome(c) \in Waivable
    BY <1>9
  <2> HIDE DEF outcome
  <2>3. finding(c) \in (DOMAIN corpus.entries) \X ToSet(Candidates) \X Waivable
    BY <2>2 DEF Compared
  <2> HIDE DEF finding
  <2>4. finding(c) \in Findings(rows)
    BY <2>1, <2>3
  <2>5. QED
    BY <1>7, <2>4 DEF finding, outcome
<1>10. QED
  BY <1>6, <1>8, <1>9 DEF RowsTold, Certified

\* There is a row of every document on every lane.
LEMMA RowThere ==
  ASSUME DOMAIN corpus.entries \subseteq ToSet(Paths), NEW rows, IsSeq(rows), Len(rows) = Len(Runs),
         \A i \in DOMAIN rows : rows[i].run = Runs[i],
         NEW p \in DOMAIN corpus.entries, NEW lane \in ToSet(LaneOrder)
  PROVE  \E i \in DOMAIN rows : RowOf(rows, <<p, lane>>) = rows[i] /\ rows[i].run = <<p, lane>>
<1>1. <<p, lane>> \in ToSet(Runs)
  BY RunsCover
<1>2. PICK k \in DOMAIN Runs : Runs[k] = <<p, lane>>
  BY <1>1 DEF ToSet
<1>3. DOMAIN rows = 1 .. Len(rows) /\ DOMAIN Runs = 1 .. Len(Runs)
  BY Longer, RunsFacts
<1>4. k \in DOMAIN rows /\ rows[k].run = <<p, lane>>
  BY <1>2, <1>3
<1>5. QED
  BY <1>4 DEF RowOf

\* The lanes compared with the baseline are lanes.
LEMMA LanesThere == Baseline \in ToSet(LaneOrder) /\ ToSet(Candidates) \subseteq ToSet(LaneOrder)
<1>1. IsSeq(LaneOrder) /\ LaneOrder # <<>>
  BY CampaignAssumption DEF IsSeq
<1>2. /\ Len(LaneOrder) \in Nat \ {0} /\ DOMAIN LaneOrder = 1 .. Len(LaneOrder) /\ Head(LaneOrder) = LaneOrder[1]
      /\ DOMAIN Tail(LaneOrder) = 1 .. Len(LaneOrder) - 1
      /\ \A i \in 1 .. Len(LaneOrder) - 1 : Tail(LaneOrder)[i] = LaneOrder[i + 1]
  BY <1>1, TailFacts, Longer
<1>3. 1 \in DOMAIN LaneOrder /\ \A i \in 1 .. Len(LaneOrder) - 1 : i + 1 \in DOMAIN LaneOrder
  BY <1>2
<1>4. QED
  BY <1>2, <1>3 DEF Baseline, Candidates, ToSet

\* Both rows that are compared are there.
LEMMA ComparedRows ==
  ASSUME DOMAIN corpus.entries \subseteq ToSet(Paths), NEW rows, IsSeq(rows), NEW waivers, Certified(rows, waivers),
         NEW c \in Compared
  PROVE  /\ c = <<c[1], c[2]>>
         /\ \E i \in DOMAIN rows : RowOf(rows, <<c[1], Baseline>>) = rows[i]
         /\ \E i \in DOMAIN rows : RowOf(rows, <<c[1], c[2]>>) = rows[i]
<1>1. c[1] \in DOMAIN corpus.entries /\ c[2] \in ToSet(LaneOrder) /\ c = <<c[1], c[2]>>
  BY LanesThere DEF Compared
<1>2. Len(rows) = Len(Runs) /\ \A i \in DOMAIN rows : rows[i].run = Runs[i]
  BY DEF Certified
<1>3. \E i \in DOMAIN rows : RowOf(rows, <<c[1], Baseline>>) = rows[i]
  BY <1>1, <1>2, LanesThere, RowThere
<1>4. \E i \in DOMAIN rows : RowOf(rows, <<c[1], c[2]>>) = rows[i]
  BY <1>1, <1>2, RowThere
<1>5. QED
  BY <1>1, <1>3, <1>4

\* What is certified stays so, whatever becomes of the records' states.
LEMMA CertifiedStays ==
  ASSUME Made, NEW rows, IsSeq(rows), NEW waivers, Certified(rows, waivers),
         Kept(records, records'), UNCHANGED <<corpus, plan>>, spec' = spec, ~journal'.hurt => ~journal.hurt
  PROVE  Certified(rows, waivers)'
<1>1. Runs' = Runs /\ Compared' = Compared
  BY CorpusFixed DEF Compared
<1>2. ASSUME NEW row, Fits(row) PROVE Fits(row)'
  BY <1>2 DEF Fits, Kept
<1>3. ASSUME NEW i \in DOMAIN rows PROVE ManifestOf(rows[i])' = ManifestOf(rows[i])
  <2>1. rows[i].status = "sealed" => rows[i].record \in DOMAIN records
    BY DEF Certified, Fits
  <2>2. rows[i].status # "sealed" => rows[i].record = 0
    BY DEF Certified
  <2>3. QED
    BY <2>1, <2>2 DEF ManifestOf, Kept
<1>4. ASSUME NEW c \in Compared PROVE OutcomeIn(rows, c[1], c[2])' = OutcomeIn(rows, c[1], c[2])
  <2> DEFINE base == RowOf(rows, <<c[1], Baseline>>)
             cand == RowOf(rows, <<c[1], c[2]>>)
  <2>1. PICK i \in DOMAIN rows : base = rows[i]
    BY ComparedRows DEF Made
  <2>2. PICK j \in DOMAIN rows : cand = rows[j]
    BY ComparedRows DEF Made
  <2>3. ManifestOf(base)' = ManifestOf(base) /\ ManifestOf(cand)' = ManifestOf(cand)
    BY <1>3, <2>1, <2>2 DEF ManifestOf
  <2> HIDE DEF base, cand
  <2>4. OutcomeIn(rows, c[1], c[2]) = CompareLanes(base, cand, ManifestOf(base), ManifestOf(cand), spec.policy, NoRecord)
    BY DEF OutcomeIn, base, cand
  <2>5. OutcomeIn(rows, c[1], c[2])' = CompareLanes(base, cand, ManifestOf(base)', ManifestOf(cand)', spec.policy, NoRecord)
    BY DEF OutcomeIn, base, cand
  <2>6. QED
    BY <2>3, <2>4, <2>5
<1>5. \A i \in DOMAIN rows :
        /\ rows[i].run = Runs'[i] /\ rows[i].status \in Acceptable
        /\ rows[i].status # "sealed" => rows[i].record = 0
        /\ rows[i].status = "sealed" => Fits(rows[i])' /\ \A j \in 1 .. i - 1 : rows[j].record # rows[i].record
  BY <1>1, <1>2 DEF Certified
<1>6. \A c \in Compared' :
        OutcomeIn(rows, c[1], c[2])' \in Waivable => <<c[1], c[2], OutcomeIn(rows, c[1], c[2])'>> \in waivers
  BY <1>1, <1>4 DEF Certified
<1>7. Len(rows) = Len(Runs')
  BY <1>1 DEF Certified
<1>8. QED
  BY <1>5, <1>6, <1>7 DEF Certified

-----------------------------------------------------------------------------
(***************************************************************************)
(* What is signed off.                                                     *)
(***************************************************************************)
\* Lanes whose outcome needs no waiver agree.
LEMMA LanesAgree ==
  ASSUME NEW base, NEW cand, base.status \in Acceptable, cand.status \in Acceptable, NEW bo, NEW co, NEW policy,
         base.status = "sealed" => IsManifest(bo), cand.status = "sealed" => IsManifest(co),
         CompareLanes(base, cand, bo, co, policy, NoRecord) \notin Waivable
  PROVE  \/ cand.status = "failed" /\ base.status = "failed" /\ cand.failure = base.failure
         \/ cand.status = "not_applicable" /\ base.status = "not_applicable"
         \/ cand.status = "sealed" /\ base.status = "failed"
         \/ cand.status = "sealed" /\ base.status = "sealed" /\ IF policy THEN Nearly(bo, co) ELSE bo = co
<1> DEFINE outcome == CompareLanes(base, cand, bo, co, policy, NoRecord)
<1>1. outcome \notin {"diverged", "regression", "failure_mismatch"}
  BY DEF Waivable
<1>2. CASE base.status = "sealed" /\ cand.status = "sealed"
  <2>1. bo # NoRecord /\ co # NoRecord
    BY <1>2 DEF IsManifest
  <2>2. outcome = IF bo = co THEN "identical"
                  ELSE IF policy /\ PolicyFindings(bo, co) = {} THEN "equivalent" ELSE "diverged"
    BY <1>2, <2>1 DEF CompareLanes
  <2> HIDE DEF outcome
  <2>3. bo = co \/ (policy /\ PolicyFindings(bo, co) = {})
    BY <1>1, <2>2
  <2>4. bo = co \/ (policy /\ Nearly(bo, co))
    BY <1>2, <2>3, PolicyIsNearly
  <2>5. bo = co => Nearly(bo, co)
    BY SameIsNearly
  <2>6. QED
    BY <1>2, <2>4, <2>5
<1>3. CASE base.status = "sealed" /\ cand.status = "failed"
  <2>1. outcome = "regression"
    BY <1>3 DEF CompareLanes
  <2>2. QED
    BY <1>1, <2>1
<1>4. CASE base.status = "failed" /\ cand.status = "sealed"
  BY <1>4
<1>5. CASE base.status = "failed" /\ cand.status = "failed"
  <2>1. outcome = IF base.failure = cand.failure THEN "consistent_failure" ELSE "failure_mismatch"
    BY <1>5 DEF CompareLanes
  <2> HIDE DEF outcome
  <2>2. QED
    BY <1>1, <1>5, <2>1
<1>6. CASE base.status = "not_applicable" /\ cand.status = "not_applicable"
  BY <1>6
<1>7. CASE "not_applicable" \in {base.status, cand.status} /\ base.status # cand.status
  <2>1. outcome = "failure_mismatch"
    BY <1>7 DEF CompareLanes, Acceptable
  <2>2. QED
    BY <1>1, <2>1
<1>8. QED
  BY <1>2, <1>3, <1>4, <1>5, <1>6, <1>7 DEF Acceptable

Restable(rows, sealed) == \A i \in DOMAIN rows : rows[i].record \in sealed \cup {0}

\* Certified rows with their records sealed are what a signed-off report covers.
LEMMA CertifiedCovers ==
  ASSUME Shapes, Made,
         signed # NoReport =>
           IsSeq(signed.rows) /\ Certified(signed.rows, signed.waivers) /\ Restable(signed.rows, signed.sealed)
  PROVE  SignedCovers
<1> SUFFICES ASSUME signed # NoReport
             PROVE  /\ [i \in DOMAIN signed.rows |-> signed.rows[i].run] = Runs
                    /\ \A i \in DOMAIN signed.rows :
                         LET row == signed.rows[i]
                             r == records[row.record]
                         IN  /\ row.status \in {"sealed", "failed", "not_applicable"}
                             /\ row.status = "sealed" =>
                                  /\ row.record \in signed.sealed
                                  /\ plan.backend[r.lane] = plan.backend[row.run[2]]
                                  /\ r.source = corpus.entries[row.run[1]]
                                  /\ r.config = "ours" /\ r.out = row.out
                                  /\ journal.hurt \/ <<r.doc, r.lane>> = row.run
                                  /\ \A j \in DOMAIN signed.rows \ {i} : signed.rows[j].record # row.record
                    /\ \A c \in Compared :
                         LET base == RowOf(signed.rows, <<c[1], Baseline>>)
                             cand == RowOf(signed.rows, c)
                         IN  \/ <<c[1], c[2], OutcomeIn(signed.rows, c[1], c[2])>> \in signed.waivers
                             \/ cand.status = "failed" /\ base.status = "failed" /\ cand.failure = base.failure
                             \/ cand.status = "not_applicable" /\ base.status = "not_applicable"
                             \/ cand.status = "sealed" /\ base.status = "failed"
                             \/ /\ cand.status = "sealed" /\ base.status = "sealed"
                                /\ IF spec.policy THEN Nearly(base.out, cand.out) ELSE base.out = cand.out
  BY DEF SignedCovers
<1> DEFINE rows == signed.rows
           waivers == signed.waivers
<1>1. IsSeq(rows) /\ Certified(rows, waivers) /\ Restable(rows, signed.sealed)
  OBVIOUS
<1>2. /\ Len(rows) \in Nat /\ DOMAIN rows = 1 .. Len(rows) /\ Len(rows) = Len(Runs)
      /\ DOMAIN Runs = 1 .. Len(Runs) /\ Runs \in Seq((DOMAIN corpus.entries) \X ToSet(LaneOrder))
  BY <1>1, Longer, RunsFacts DEF Certified
<1>3. 0 \notin DOMAIN records
  BY DEF Shapes, IsSeq
<1>4. \A i \in DOMAIN rows :
        /\ rows[i].run = Runs[i] /\ rows[i].status \in Acceptable
        /\ rows[i].status # "sealed" => rows[i].record = 0
        /\ rows[i].status = "sealed" => Fits(rows[i]) /\ \A j \in 1 .. i - 1 : rows[j].record # rows[i].record
  BY <1>1 DEF Certified
<1> HIDE DEF rows, waivers
<1>5. [i \in DOMAIN rows |-> rows[i].run] = Runs
  <2>1. Runs = [i \in 1 .. Len(Runs) |-> Runs[i]]
    BY <1>2
  <2>2. QED
    BY <1>2, <1>4, <2>1
<1>6. ASSUME NEW i \in DOMAIN rows, NEW j \in DOMAIN rows, rows[i].status = "sealed", j # i
      PROVE  rows[j].record # rows[i].record
  <2>1. rows[i].record # 0
    BY <1>3, <1>4, <1>6 DEF Fits
  <2>2. CASE rows[j].status # "sealed"
    BY <1>4, <2>1, <2>2
  <2>3. CASE rows[j].status = "sealed"
    <3>1. j \in 1 .. i - 1 \/ i \in 1 .. j - 1
      BY <1>2, <1>6
    <3>2. QED
      BY <1>4, <1>6, <2>3, <3>1
  <2>4. QED
    BY <2>2, <2>3
<1>7. ASSUME NEW i \in DOMAIN rows, rows[i].status = "sealed"
      PROVE  LET row == rows[i]
                 r == records[row.record]
             IN  /\ row.record \in signed.sealed
                 /\ plan.backend[r.lane] = plan.backend[row.run[2]] /\ r.source = corpus.entries[row.run[1]]
                 /\ r.config = "ours" /\ r.out = row.out
                 /\ journal.hurt \/ <<r.doc, r.lane>> = row.run
  <2>1. Fits(rows[i]) /\ rows[i].record # 0
    BY <1>3, <1>4, <1>7 DEF Fits
  <2>2. rows[i].record \in signed.sealed
    BY <1>1, <2>1 DEF Restable
  <2>3. QED
    BY <2>1, <2>2 DEF Fits
<1>8. ASSUME NEW i \in DOMAIN rows
      PROVE  /\ rows[i].status \in Acceptable
             /\ rows[i].status = "sealed" => IsManifest(ManifestOf(rows[i])) /\ ManifestOf(rows[i]) = rows[i].out
  <2>1. CASE rows[i].status = "sealed"
    <3>1. Fits(rows[i]) /\ rows[i].record # 0
      BY <1>3, <1>4, <2>1 DEF Fits
    <3>2. QED
      BY <1>4, <3>1 DEF Fits, ManifestOf, Made
  <2>2. QED
    BY <1>4, <2>1
<1>9. ASSUME NEW c \in Compared
      PROVE  LET base == RowOf(rows, <<c[1], Baseline>>)
                 cand == RowOf(rows, c)
             IN  \/ <<c[1], c[2], OutcomeIn(rows, c[1], c[2])>> \in waivers
                 \/ cand.status = "failed" /\ base.status = "failed" /\ cand.failure = base.failure
                 \/ cand.status = "not_applicable" /\ base.status = "not_applicable"
                 \/ cand.status = "sealed" /\ base.status = "failed"
                 \/ /\ cand.status = "sealed" /\ base.status = "sealed"
                    /\ IF spec.policy THEN Nearly(base.out, cand.out) ELSE base.out = cand.out
  <2> DEFINE base == RowOf(rows, <<c[1], Baseline>>)
             cand == RowOf(rows, <<c[1], c[2]>>)
             bo == ManifestOf(base)
             co == ManifestOf(cand)
  <2>1. /\ c = <<c[1], c[2]>>
        /\ \E i \in DOMAIN rows : base = rows[i]
        /\ \E i \in DOMAIN rows : cand = rows[i]
    BY <1>1, ComparedRows DEF Made, rows, waivers
  <2>2. OutcomeIn(rows, c[1], c[2]) = CompareLanes(base, cand, bo, co, spec.policy, NoRecord)
    BY DEF OutcomeIn
  <2>3. OutcomeIn(rows, c[1], c[2]) \in Waivable => <<c[1], c[2], OutcomeIn(rows, c[1], c[2])>> \in waivers
    BY <1>1 DEF Certified, rows, waivers
  <2>4. /\ base.status \in Acceptable /\ cand.status \in Acceptable
        /\ base.status = "sealed" => IsManifest(bo) /\ bo = base.out
        /\ cand.status = "sealed" => IsManifest(co) /\ co = cand.out
    BY <1>8, <2>1
  <2>5. RowOf(rows, c) = cand
    BY <2>1
  <2> HIDE DEF base, cand, bo, co
  <2>6. OutcomeIn(rows, c[1], c[2]) \notin Waivable =>
          \/ cand.status = "failed" /\ base.status = "failed" /\ cand.failure = base.failure
          \/ cand.status = "not_applicable" /\ base.status = "not_applicable"
          \/ cand.status = "sealed" /\ base.status = "failed"
          \/ cand.status = "sealed" /\ base.status = "sealed" /\ IF spec.policy THEN Nearly(bo, co) ELSE bo = co
    BY <2>2, <2>4, LanesAgree
  <2>7. QED
    BY <2>3, <2>4, <2>5, <2>6 DEF base
<1>10. QED
  BY <1>4, <1>5, <1>6, <1>7, <1>9 DEF rows, waivers, Acceptable

-----------------------------------------------------------------------------
(***************************************************************************)
(* A sign-off is prepared.                                                 *)
(***************************************************************************)
\* What is read, checked, to be signed off and signed off: it is certified, and of records that were sealed.
Signs(sg, rp, sd) ==
  /\ ReadTold(sg.mem, records, journal.hurt)
  /\ sg.pc = "row" => RowsTold(sg.rows)
  /\ sg.pc \in {"chain", "recheck", "put"} /\ sg.why = "sign_off" /\ sg.problems = {} =>
       Certified(rp.rows, rp.waivers)
  /\ Checked(sg, "sign_off", rp.rows, records)
  /\ sg.pc = "put" => sg.problems = {} /\ Restable(rp.rows, sg.sealed)
  /\ sd # NoReport => Certified(sd.rows, sd.waivers) /\ Restable(sd.rows, sd.sealed)

SignInv == Made /\ LinesTold /\ Signs(signer, report, signed)

\* Rows that were checked stay so, whatever becomes of the records' states.
LEMMA RowsStay ==
  ASSUME NEW rows, RowsTold(rows), Kept(records, records'), UNCHANGED <<corpus, plan>>, ~journal'.hurt => ~journal.hurt
  PROVE  RowsTold(rows)'
<1>1. Runs' = Runs
  BY CorpusFixed
<1>2. ASSUME NEW row, Fits(row) PROVE Fits(row)'
  BY <1>2 DEF Fits, Kept
<1>3. ASSUME NEW i \in DOMAIN rows
      PROVE  /\ rows[i].run = Runs[i] /\ rows[i].status \in Statuses \cup {"incomplete"}
             /\ rows[i].status # "sealed" => rows[i].record = 0
             /\ rows[i].status = "sealed" /\ rows[i].problems = {} =>
                  Fits(rows[i])' /\ \A j \in 1 .. i - 1 : rows[j].record # rows[i].record
  BY <1>2 DEF RowsTold
<1>4. Len(rows) <= Len(Runs)
  BY DEF RowsTold
<1>5. QED
  BY <1>1, <1>3, <1>4 DEF RowsTold

\* The same of all that is signed off.
LEMMA SignsStay ==
  ASSUME Made, NEW sg, NEW rp, NEW sd, Signs(sg, rp, sd),
         CiteRecords(sg.rows, records), IsSeq(rp.rows), IsSeq(sd.rows),
         Kept(records, records'), Later(records, records'), UNCHANGED <<corpus, plan>>, spec' = spec,
         ~journal'.hurt => ~journal.hurt
  PROVE  Signs(sg, rp, sd)'
<1>1. ReadTold(sg.mem, records', journal'.hurt)
  BY StillTold DEF Signs
<1>2. sg.pc = "row" => RowsTold(sg.rows)'
  BY RowsStay DEF Signs
<1>3. Checked(sg, "sign_off", rp.rows, records')
  BY StillChecked DEF Signs
<1>4. \A waivers : Certified(rp.rows, waivers) => Certified(rp.rows, waivers)'
  BY CertifiedStays
<1>5. \A waivers : Certified(sd.rows, waivers) => Certified(sd.rows, waivers)'
  BY CertifiedStays
<1>6. QED
  BY <1>1, <1>2, <1>3, <1>4, <1>5 DEF Signs

\* What the campaign and others do leaves it so.
LEMMA BesideSigns ==
  ASSUME SignInv, RowsCite, Made', LinesTold', Kept(records, records'), Later(records, records'),
         UNCHANGED <<corpus, plan>>, spec' = spec, ~journal'.hurt => ~journal.hurt, UNCHANGED <<report, signer, signed>>
  PROVE  SignInv'
<1>1. Signs(signer, report, signed) /\ Made
  BY DEF SignInv
<1>2. CiteRecords(signer.rows, records) /\ IsSeq(report.rows) /\ IsSeq(signed.rows)
  BY DEF RowsCite, CiteRecords
<1>3. PICK sg, rp, sd : sg = signer /\ rp = report /\ sd = signed
  OBVIOUS
<1>4. Signs(sg, rp, sd)'
  BY <1>1, <1>2, <1>3, SignsStay
<1>5. signer' = sg /\ report' = rp /\ signed' = sd
  BY <1>3
<1>6. Signs(signer, report, signed)'
  BY <1>4, <1>5
<1>7. QED
  BY <1>6 DEF SignInv

\* A step of the report's and the sign-off's own.
LEMMA OwnStep ==
  ASSUME Made, LinesTold, RowsCite', UNCHANGED <<records, journal, camp, corpus, plan, replayVars>>,
         NEW sg, NEW rp, NEW sd, signer' = sg, report' = rp, signed' = sd, Signs(sg, rp, sd)
  PROVE  SignInv'
<1>1. UNCHANGED <<records, journal, camp, corpus, plan, spec>>
  BY DEF replayVars
<1>2. Made' /\ LinesTold'
  BY <1>1 DEF Made, LinesTold
<1>3. CiteRecords(sg.rows, records) /\ IsSeq(rp.rows) /\ IsSeq(sd.rows)
  BY <1>1 DEF RowsCite, CiteRecords
<1>4. Kept(records, records') /\ Later(records, records')
  BY <1>1, SameRecords, SameIsLater
<1>5. Signs(sg, rp, sd)'
  BY <1>1, <1>3, <1>4, SignsStay
<1>6. Signs(signer, report, signed)'
  BY <1>5
<1>7. QED
  BY <1>2, <1>6 DEF SignInv

\* Who is idle signs nothing.
LEMMA IdleSigns ==
  ASSUME NEW sg, sg.pc = "idle", sg.mem = <<>>, NEW rp, NEW sd,
         sd # NoReport => Certified(sd.rows, sd.waivers) /\ Restable(sd.rows, sd.sealed)
  PROVE  Signs(sg, rp, sd)
<1>1. ReadTold(<<>>, records, journal.hurt)
  BY DEF ReadTold
<1>2. QED
  BY <1>1 DEF Signs, Checked

\* The next row.
LEMMA RowSigns ==
  ASSUME AuditInv, SignInv, CheckRow
  PROVE  Signs(signer', report', signed')
<1>1. UNCHANGED <<report, signed>> /\ signer.pc = "row"
  BY DEF CheckRow
<1>2. Signs(signer, report, signed) /\ RowsCite
  BY DEF SignInv, AuditInv
<1>3. RowsTold(signer'.rows)
  BY <1>1, <1>2, RowTold DEF Signs, RowsCite, CiteRecords
<1>4. signer'.pc = "row" /\ signer'.mem = signer.mem
  BY <1>1, <1>2 DEF CheckRow, RowsCite
<1>5. QED
  BY <1>1, <1>2, <1>3, <1>4 DEF Signs, Checked

\* A report that is finished, or cannot be, is nobody's yet.
LEMMA FinishSigns ==
  ASSUME AuditInv, SignInv, FinishReport
  PROVE  Signs(signer', report', signed')
<1>1. signer' = Idle /\ signed' = signed
  BY DEF FinishReport, Leave
<1>2. signed # NoReport => Certified(signed.rows, signed.waivers) /\ Restable(signed.rows, signed.sealed)
  BY DEF SignInv, Signs
<1>3. QED
  BY <1>1, <1>2, NoOne, IdleSigns

\* What the rebuild finds no problem with is certified.
LEMMA RebuildSigns ==
  ASSUME AuditInv, SignInv, Rebuild
  PROVE  Signs(signer', report', signed')
<1> DEFINE again == Built(signer.rows, report.waivers)
           problems == report.failed \cup IF again = report /\ report.verified THEN {} ELSE {"rebuild"}
<1>1. /\ UNCHANGED <<report, signed>> /\ signer.pc = "row" /\ Len(signer.rows) = Len(Runs)
      /\ signer' = IF ComparisonRaises(signer.rows) THEN Idle
                   ELSE [signer EXCEPT !.pc = "chain", !.problems = problems, !.rows = report.rows]
  BY DEF Rebuild
<1>2. Signs(signer, report, signed) /\ RowsCite
  BY DEF SignInv, AuditInv
<1>3. signed # NoReport => Certified(signed.rows, signed.waivers) /\ Restable(signed.rows, signed.sealed)
  BY <1>2 DEF Signs
<1>4. CASE signer' = Idle
  BY <1>1, <1>3, <1>4, NoOne, IdleSigns
<1>5. CASE signer' = [signer EXCEPT !.pc = "chain", !.problems = problems, !.rows = report.rows]
  <2>1. ASSUME problems = {} PROVE Certified(report.rows, report.waivers)
    <3>1. report.failed = {} /\ again = report
      BY <2>1
    <3>2. again.rows = signer.rows /\ again.failed = FailedGates(signer.rows, report.waivers)
      BY DEF Built
    <3> HIDE DEF again
    <3>3. report.rows = signer.rows /\ FailedGates(signer.rows, report.waivers) = {}
      BY <3>1, <3>2
    <3>4. RowsTold(signer.rows)
      BY <1>1, <1>2 DEF Signs
    <3>5. QED
      BY <1>1, <3>3, <3>4, GatesCertify
  <2> HIDE DEF problems
  <2>2. /\ signer'.pc = "chain" /\ signer'.problems = problems /\ signer'.rows = report.rows
        /\ signer'.mem = signer.mem
    BY <1>2, <1>5 DEF RowsCite
  <2>3. ReadTold(signer'.mem, records, journal.hurt)
    BY <1>2, <2>2 DEF Signs
  <2>4. QED
    BY <1>1, <1>3, <2>1, <2>2, <2>3 DEF Signs, Checked
<1>6. QED
  BY <1>1, <1>4, <1>5

\* The rows' turn comes.
LEMMA ChainSigns ==
  ASSUME AuditInv, SignInv, RecheckChain
  PROVE  Signs(signer', report', signed')
<1>1. UNCHANGED <<report, signed>> /\ signer.pc = "chain"
  BY DEF RecheckChain
<1>2. Signs(signer, report, signed) /\ RowsCite
  BY DEF SignInv, AuditInv
<1>3. PICK more : signer' = [signer EXCEPT !.pc = "recheck", !.sealed = Sealed, !.problems = @ \cup more]
  BY DEF RecheckChain
<1>4. /\ signer'.pc = "recheck" /\ signer'.why = signer.why /\ signer'.mem = signer.mem
      /\ signer'.problems = signer.problems \cup more
  BY <1>2, <1>3 DEF RowsCite
<1>5. Checked(signer', "sign_off", report.rows, records)
  BY <1>2, ChainChecked DEF Signs
<1>6. QED
  BY <1>1, <1>2, <1>4, <1>5 DEF Signs

\* A row is rechecked.
LEMMA RecheckSigns ==
  ASSUME AuditInv, SignInv, RecheckRow
  PROVE  Signs(signer', report', signed')
<1>1. UNCHANGED <<report, signed>> /\ signer.pc = "recheck"
  BY DEF RecheckRow
<1>2. Signs(signer, report, signed) /\ RowsCite
  BY DEF SignInv, AuditInv
<1>3. PICK more : signer' = [signer EXCEPT !.rows = Tail(@), !.problems = @ \cup more]
  BY DEF RecheckRow
<1>4. /\ signer'.pc = "recheck" /\ signer'.why = signer.why /\ signer'.mem = signer.mem
      /\ signer'.problems = signer.problems \cup more
  BY <1>1, <1>2, <1>3 DEF RowsCite
<1>5. Checked(signer', "sign_off", report.rows, records)
  BY <1>2, RowChecked DEF Signs
<1>6. QED
  BY <1>1, <1>2, <1>4, <1>5 DEF Signs

\* Every row has passed, and the report is put; or it is refused.
LEMMA PutSigns ==
  ASSUME AuditInv, SignInv, PutReport
  PROVE  Signs(signer', report', signed')
<1>1. /\ UNCHANGED <<report, signed>> /\ signer.pc = "recheck" /\ signer.why = "sign_off" /\ signer.rows = <<>>
      /\ signer' = IF signer.problems = {} THEN [signer EXCEPT !.pc = "put"] ELSE Idle
  BY DEF PutReport, Rechecked
<1>2. Signs(signer, report, signed) /\ RowsCite
  BY DEF SignInv, AuditInv
<1>3. signed # NoReport => Certified(signed.rows, signed.waivers) /\ Restable(signed.rows, signed.sealed)
  BY <1>2 DEF Signs
<1>4. CASE signer.problems = {}
  <2>1. /\ signer'.pc = "put" /\ signer'.why = "sign_off" /\ signer'.mem = signer.mem
        /\ signer'.problems = {} /\ signer'.sealed = signer.sealed
    BY <1>1, <1>2, <1>4 DEF RowsCite
  <2>2. DOMAIN signer.rows = {}
    BY <1>1
  <2>3. Restable(report.rows, signer.sealed)
    BY <1>1, <1>2, <1>4, <2>2 DEF Signs, Checked, Restable
  <2>4. Certified(report.rows, report.waivers)
    BY <1>1, <1>2, <1>4 DEF Signs
  <2>5. QED
    BY <1>1, <1>2, <2>1, <2>3, <2>4 DEF Signs, Checked
<1>5. CASE signer.problems # {}
  BY <1>1, <1>3, <1>5, NoOne, IdleSigns
<1>6. QED
  BY <1>4, <1>5

\* The event says what the report says, and what it rests on.
LEMMA AppendSigns ==
  ASSUME AuditInv, SignInv, AppendSignOff
  PROVE  Signs(signer', report', signed')
<1>1. /\ signer' = Idle /\ signer.pc = "put"
      /\ signed'.rows = report.rows /\ signed'.waivers = report.waivers /\ signed'.sealed = signer.sealed
  BY DEF AppendSignOff, Leave
<1>2. signer.why = "sign_off"
  BY <1>1 DEF AuditInv, Order
<1>3. Certified(report.rows, report.waivers) /\ Restable(report.rows, signer.sealed)
  BY <1>1, <1>2 DEF SignInv, Signs
<1>4. QED
  BY <1>1, <1>3, NoOne, IdleSigns

\* A sign-off is checked later, an edited report changes no row, and a forged chain none.
LEMMA LaterSigns ==
  ASSUME AuditInv, SignInv, StartCheck \/ ReadReport \/ Answer \/ EditReport \/ Forge
  PROVE  Signs(signer', report', signed')
<1>1. Signs(signer, report, signed) /\ signed' = signed
  BY DEF SignInv, StartCheck, ReadReport, Answer, EditReport, Forge
<1>2. signed # NoReport => Certified(signed.rows, signed.waivers) /\ Restable(signed.rows, signed.sealed)
  BY <1>1 DEF Signs
<1>3. CASE StartCheck
  <2>1. PICK problems, whole :
          signer' = [Idle EXCEPT !.pc = "read", !.why = "check", !.problems = problems, !.whole = whole]
    BY <1>3 DEF StartCheck
  <2>2. signer'.pc = "read" /\ signer'.why = "check" /\ signer'.mem = <<>>
    BY <2>1, NoOne
  <2>3. ReadTold(<<>>, records, journal.hurt)
    BY DEF ReadTold
  <2>4. QED
    BY <1>1, <1>2, <2>2, <2>3 DEF Signs, Checked
<1>4. CASE Answer
  <2>1. signer'.pc = "idle" /\ signer'.mem = <<>>
    BY <1>4, NoOne DEF Answer
  <2>2. QED
    BY <1>1, <1>2, <2>1, IdleSigns
<1>5. CASE EditReport
  <2>1. signer' = signer /\ signer.why # "sign_off"
    BY <1>5 DEF EditReport
  <2>2. signer.pc # "put"
    BY <2>1 DEF AuditInv, Order
  <2>3. QED
    BY <1>1, <1>2, <2>1, <2>2 DEF Signs, Checked
<1>6. CASE Forge
  BY <1>1, <1>6 DEF Forge
<1>7. CASE ReadReport
  <2>1. signer.pc = "read" /\ signer.why = "check" /\ RowsCite
    BY <1>7 DEF ReadReport, AuditInv, Order
  <2>2. CASE signer' = Idle
    BY <1>1, <1>2, <2>2, NoOne, IdleSigns
  <2>3. CASE signer' # Idle
    <3>1. PICK more : signer' = [signer EXCEPT !.pc = "chain", !.rows = signed.rows, !.problems = @ \cup more]
      BY <1>7, <2>3 DEF ReadReport, Leave
    <3>2. signer'.pc = "chain" /\ signer'.why = "check" /\ signer'.mem = signer.mem
      BY <2>1, <3>1 DEF RowsCite
    <3>3. report' = report
      BY <1>7 DEF ReadReport
    <3>4. QED
      BY <1>1, <1>2, <3>2, <3>3 DEF Signs, Checked
  <2>4. QED
    BY <2>2, <2>3
<1>8. QED
  BY <1>3, <1>4, <1>5, <1>6, <1>7

\* The lines of a journal that was kept are of records of their documents and lanes.
LEMMA LinesRead ==
  ASSUME CampaignInv, LinesTold, journal.lines # <<>>
  PROVE  ReadTold(Tail(journal.lines), records, journal.hurt)
<1> DEFINE mem == Tail(journal.lines)
<1>1. IsSeq(journal.lines)
  BY DEF CampaignInv, Shapes
<1>2. /\ Len(journal.lines) \in Nat \ {0} /\ DOMAIN mem = 1 .. Len(journal.lines) - 1
      /\ DOMAIN journal.lines = 1 .. Len(journal.lines)
      /\ \A i \in 1 .. Len(journal.lines) - 1 : mem[i] = journal.lines[i + 1]
  BY <1>1, TailFacts, Longer
<1>3. ASSUME NEW i \in DOMAIN mem PROVE LineTold(mem[i], records)
  <2>1. i + 1 \in DOMAIN journal.lines /\ mem[i] = journal.lines[i + 1]
    BY <1>2
  <2>2. PICK k \in DOMAIN journal.lines : mem[i] = journal.lines[k]
    BY <2>1
  <2>3. QED
    BY <2>2 DEF LinesTold
<1>4. ASSUME ~journal.hurt, NEW i \in DOMAIN mem, mem[i].status = "sealed"
      PROVE  <<records[mem[i].record].doc, records[mem[i].record].lane>> = mem[i].run
  <2>1. Observations(mem, records)
    BY <1>4 DEF CampaignInv, JournalKept
  <2> HIDE DEF mem
  <2>2. Backed(mem[i], records)
    BY <1>4, <2>1 DEF Observations
  <2>3. QED
    BY <2>2 DEF Backed
<1>5. QED
  BY <1>3, <1>4 DEF ReadTold

\* The journal is read for a report or for a sign-off, or is refused.
LEMMA ReadSigns ==
  ASSUME CampaignInv, AuditInv, SignInv, AuditInv', NEW why, ReadJournal(why)
  PROVE  SignInv'
<1>1. /\ UNCHANGED <<records, camp, corpus, plan, spec, report, signed>> /\ journal.lines # <<>>
      /\ journal' = journal \/ journal' = Recovered(journal)
  BY DEF ReadJournal, replayVars
<1>2. journal'.lines = journal.lines /\ journal'.hurt = journal.hurt
  <2>1. DOMAIN journal = {"lines", "torn", "hurt"}
    BY DEF CampaignInv, Shapes
  <2>2. QED
    BY <1>1, <2>1 DEF Recovered
<1>3. Made /\ LinesTold /\ Signs(signer, report, signed)
  BY DEF SignInv
<1>4. Made' /\ LinesTold'
  BY <1>1, <1>2, <1>3 DEF Made, LinesTold
<1>5. Signs(signer', report', signed')
  <2>1. CASE signer' = signer
    BY <1>1, <1>3, <2>1
  <2>2. CASE signer' = [Idle EXCEPT !.pc = "row", !.why = why, !.mem = Tail(journal.lines)]
    <3>1. signer'.pc = "row" /\ signer'.mem = Tail(journal.lines) /\ signer'.rows = <<>>
      BY <2>2, NoOne
    <3>2. ReadTold(Tail(journal.lines), records, journal.hurt)
      BY <1>1, <1>3, LinesRead
    <3>3. RowsTold(<<>>)
      <4>1. Len(<<>>) = 0 /\ DOMAIN <<>> = {} /\ Len(Runs) \in Nat
        BY RunsFacts
      <4>2. QED
        BY <4>1 DEF RowsTold
    <3>4. QED
      BY <1>1, <1>3, <3>1, <3>2, <3>3 DEF Signs, Checked
  <2>3. QED
    BY <2>1, <2>2 DEF ReadJournal
<1>6. PICK sg, rp, sd : sg = signer' /\ rp = report' /\ sd = signed'
  OBVIOUS
<1>7. CiteRecords(sg.rows, records) /\ IsSeq(rp.rows) /\ IsSeq(sd.rows)
  BY <1>1, <1>6 DEF AuditInv, RowsCite, CiteRecords
<1>8. Kept(records, records') /\ Later(records, records')
  BY <1>1, SameRecords, SameIsLater
<1>9. Signs(sg, rp, sd)
  BY <1>5, <1>6
<1>10. Signs(sg, rp, sd)'
  BY <1>1, <1>2, <1>3, <1>7, <1>8, <1>9, SignsStay
<1>11. Signs(signer, report, signed)'
  BY <1>6, <1>10
<1>12. QED
  BY <1>4, <1>11 DEF SignInv

\* Any other step of the report's and the sign-off's own.
LEMMA OwnSigns ==
  ASSUME AuditInv, SignInv, AuditInv', Signing \/ StartCheck \/ EditReport \/ Forge
  PROVE  SignInv'
<1>1. UNCHANGED <<campaignVars, replayVars>> \/ EditReport \/ Forge
  BY DEF Signing, CheckRow, FinishReport, Rebuild, RecheckChain, RecheckRow, PutReport, AppendSignOff, ReadReport,
         Answer, StartCheck
<1>2. UNCHANGED <<records, journal, camp, corpus, plan, replayVars>>
  BY <1>1 DEF EditReport, Forge, campaignVars
<1>3. Signs(signer', report', signed')
  BY RowSigns, FinishSigns, RebuildSigns, ChainSigns, RecheckSigns, PutSigns, AppendSigns, LaterSigns DEF Signing
<1>4. PICK sg, rp, sd : sg = signer' /\ rp = report' /\ sd = signed'
  OBVIOUS
<1>5. Signs(sg, rp, sd)
  BY <1>3, <1>4
<1>6. Made /\ LinesTold /\ RowsCite'
  BY DEF SignInv, AuditInv
<1>7. QED
  BY <1>2, <1>4, <1>5, <1>6, OwnStep

\* Nothing is recorded, reported or signed.
LEMMA SignStart ==
  ASSUME Init
  PROVE  SignInv
<1>1. /\ journal.lines = <<>> /\ camp.pc = "closed" /\ report = NoReport /\ signer = Idle /\ signed = NoReport
  BY DEF Init, CampaignInit
<1>2. Made
  BY MadeStart DEF Init
<1>3. LinesTold
  BY <1>1 DEF LinesTold
<1>4. Signs(signer, report, signed)
  BY <1>1, NoOne, IdleSigns
<1>5. QED
  BY <1>2, <1>3, <1>4 DEF SignInv

\* What is read of the journal, checked, rebuilt and rechecked keeps its meaning until it is signed off, and after,
\* while the campaign goes on, records are invalidated, files are edited and the journal is spoilt.
THEOREM SignInvariant == Spec => []SignInv
<1>1. Init => SignInv
  BY SignStart
<1>2. CampaignInv /\ AuditInv /\ SignInv /\ AuditInv' /\ [Next]_vars => SignInv'
  <2> SUFFICES ASSUME CampaignInv, AuditInv, SignInv, AuditInv', [Next]_vars PROVE SignInv'
    OBVIOUS
  <2>1. Shapes /\ LinesCite /\ RowsCite /\ Made /\ LinesTold
    BY DEF CampaignInv, AuditInv, SignInv
  <2>2. CASE (CampaignSteps \/ Crash \/ Outsiders) /\ UNCHANGED <<replayVars, signVars>>
    <3>1. spec' = spec /\ UNCHANGED <<report, signer, signed>>
      BY <2>2 DEF replayVars, signVars
    <3>2. Made' /\ Kept(records, records')
      BY <2>1, <2>2, BesideMade
    <3>3. LinesTold' /\ Later(records, records')
      BY <2>1, <2>2, <3>2, BesideTold, BesideCites
    <3>4. UNCHANGED <<corpus, plan>> /\ (~journal'.hurt => ~journal.hurt)
      BY <2>1, <2>2, BesideSteady
    <3>5. QED
      BY <2>1, <3>1, <3>2, <3>3, <3>4, BesideSigns
  <2>3. CASE \E r \in DOMAIN records : InvalidateOther(r) /\ UNCHANGED signVars
    <3>1. /\ UNCHANGED <<corpus, plan, camp, journal, spec, report, signer, signed>>
          /\ \E r \in DOMAIN records : Invalid(r, "other")
      BY <2>3 DEF InvalidateOther, signVars
    <3>2. DOMAIN records' = DOMAIN records /\ Kept(records, records') /\ Later(records, records')
      BY <2>1, <3>1, InvalidKeeps, InvalidIsLater
    <3>3. Made'
      BY <2>1, <3>1, <3>2, MadeAsBefore
    <3>4. LinesTold'
      BY <2>1, <3>1, <3>2, StillTold DEF LinesTold
    <3>5. QED
      BY <2>1, <3>1, <3>2, <3>3, <3>4, BesideSigns
  <2>4. CASE Signing \/ StartCheck \/ EditReport \/ Forge
    BY <2>4, OwnSigns
  <2>5. CASE \E why : ReadJournal(why)
    BY <2>5, ReadSigns
  <2>6. CASE UNCHANGED vars
    <3>1. UNCHANGED <<campaignVars, replayVars>> /\ UNCHANGED <<report, signer, signed>>
      BY <2>6 DEF vars, signVars
    <3>2. UNCHANGED <<records, journal, camp, corpus, plan, spec>>
      BY <3>1 DEF campaignVars, replayVars
    <3>3. Made' /\ LinesTold'
      BY <2>1, <3>2 DEF Made, LinesTold
    <3>4. Kept(records, records') /\ Later(records, records')
      BY <3>2, SameRecords, SameIsLater
    <3>5. QED
      BY <2>1, <3>1, <3>2, <3>3, <3>4, BesideSigns
  <2>7. QED
    BY <2>2, <2>3, <2>4, <2>5, <2>6 DEF Next, StartSignOff
<1>3. QED
  BY <1>1, <1>2, CampaignInvariantAudited, AuditInvariant, PTL DEF Spec

\* A report that was signed off covers every document on every lane, by records of the campaign's own that were
\* sealed when the last check of them began, and lanes that agree or whose difference was waived.
THEOREM SignedAlwaysCovers == Spec => []SignedCovers
<1>1. CampaignInv /\ AuditInv /\ SignInv => SignedCovers
  <2> SUFFICES ASSUME CampaignInv, AuditInv, SignInv PROVE SignedCovers
    OBVIOUS
  <2>1. Shapes /\ Made /\ Signs(signer, report, signed) /\ IsSeq(signed.rows)
    BY DEF CampaignInv, AuditInv, SignInv, RowsCite, CiteRecords
  <2>2. QED
    BY <2>1, CertifiedCovers DEF Signs
<1>2. QED
  BY <1>1, CampaignInvariantAudited, AuditInvariant, SignInvariant, PTL
=============================================================================

---------------------------- MODULE MigrationProofs ----------------------------
(***************************************************************************)
(* Theorems about the event chain and about migrating into it, for any     *)
(* records, deliveries, replays and openers, any old version, and any      *)
(* number of writes, edits and verifications.                              *)
(***************************************************************************)
EXTENDS Migration, TLAPS

-----------------------------------------------------------------------------
(***************************************************************************)
(* Chains: sequences of events whose fields have values in some set.       *)
(***************************************************************************)
Events(H) == [seq : Int, kind : H, subject : H, body : H, prev : H, hash : H]

Shaped(ch) == \E H : ch \in Seq(Events(H))

\* Every event is numbered, linked to the one before, and hashed.
Linked(ch) ==
  \A i \in 1 .. Len(ch) :
    /\ ch[i].seq = i
    /\ ch[i].hash = Hash(ch[i])
    /\ ch[i].prev = IF i = 1 THEN Genesis ELSE ch[i - 1].hash

\* A new log is one, and is linked.
LEMMA EmptyShaped == Shaped(<<>>) /\ Linked(<<>>)
<1>1. <<>> \in Seq(Events({}))
  OBVIOUS
<1>2. QED
  BY <1>1 DEF Shaped, Linked

\* A sequence over a set is one over any larger set.
LEMMA SeqMonotone == ASSUME NEW A, NEW B, A \subseteq B, NEW s \in Seq(A) PROVE s \in Seq(B)
OBVIOUS

\* What can be said of a shaped chain without naming the set.
LEMMA ShapedFacts ==
  ASSUME NEW ch, Shaped(ch)
  PROVE  /\ Len(ch) \in Nat /\ DOMAIN ch = 1 .. Len(ch)
         /\ (ch = <<>> <=> Len(ch) = 0)
         /\ \A i \in 1 .. Len(ch) :
              /\ ch[i].seq \in Int
              /\ ch[i] = [seq |-> ch[i].seq, kind |-> ch[i].kind, subject |-> ch[i].subject,
                          body |-> ch[i].body, prev |-> ch[i].prev, hash |-> ch[i].hash]
<1>1. PICK H : ch \in Seq(Events(H))
  BY DEF Shaped
<1>2. ASSUME NEW i \in 1 .. Len(ch)
      PROVE  /\ ch[i].seq \in Int
             /\ ch[i] = [seq |-> ch[i].seq, kind |-> ch[i].kind, subject |-> ch[i].subject,
                         body |-> ch[i].body, prev |-> ch[i].prev, hash |-> ch[i].hash]
  <2>1. ch[i] \in Events(H)
    BY <1>1
  <2>2. QED
    BY <2>1 DEF Events
<1>3. QED
  BY <1>1, <1>2

\* One chain more: an event of any shape may be put at its end.
LEMMA AppendShaped ==
  ASSUME NEW ch, Shaped(ch), NEW seq \in Int, NEW kind, NEW subject, NEW body, NEW prev
  PROVE  LET e == Event(seq, kind, subject, body, prev)
             new == Append(ch, e)
         IN  /\ Shaped(new)
             /\ Len(new) = Len(ch) + 1
             /\ \A i \in 1 .. Len(ch) : new[i] = ch[i]
             /\ new[Len(ch) + 1] = e
             /\ e = [seq |-> seq, kind |-> kind, subject |-> subject, body |-> body, prev |-> prev,
                     hash |-> Hash(e)]
<1> DEFINE e == Event(seq, kind, subject, body, prev)
           new == Append(ch, e)
<1>1. PICK H : ch \in Seq(Events(H))
  BY DEF Shaped
<1> DEFINE G == H \cup {kind, subject, body, prev, <<seq, kind, subject, body, prev>>}
<1>2. e \in Events(G)
  BY DEF Event, Events
<1>3. ch \in Seq(Events(G))
  <2>1. Events(H) \subseteq Events(G)
    BY DEF Events
  <2>2. QED
    BY <1>1, <2>1, SeqMonotone
<1>4. new \in Seq(Events(G))
  <2> HIDE DEF G, e
  <2>1. QED
    BY <1>2, <1>3
<1>5. e = [seq |-> seq, kind |-> kind, subject |-> subject, body |-> body, prev |-> prev, hash |-> Hash(e)]
  BY DEF Event, Hash
<1>6. Len(new) = Len(ch) + 1 /\ new[Len(ch) + 1] = e /\ \A i \in 1 .. Len(ch) : new[i] = ch[i]
  <2> HIDE DEF G, e
  <2>1. QED
    BY <1>2, <1>3
<1>7. QED
  BY <1>4, <1>5, <1>6 DEF Shaped

\* Appending an event continues the chain.
LEMMA AppendEventFacts ==
  ASSUME NEW ch, Shaped(ch), NEW kind, NEW subject, NEW body
  PROVE  LET new == AppendEvent(ch, kind, subject, body)
             n == Len(ch) + 1
         IN  /\ Shaped(new)
             /\ Len(new) = n
             /\ \A i \in 1 .. Len(ch) : new[i] = ch[i]
             /\ new[n].kind = kind /\ new[n].subject = subject /\ new[n].body = body
             /\ new = Append(ch, new[n])
             /\ Linked(ch) => Linked(new)
<1> DEFINE new == AppendEvent(ch, kind, subject, body)
           n == Len(ch) + 1
<1>1. Len(ch) \in Nat /\ (ch = <<>> <=> Len(ch) = 0) /\ \A i \in 1 .. Len(ch) : ch[i].seq \in Int
  BY ShapedFacts
<1>2. PICK s \in Int : \E p :
        /\ new = Append(ch, Event(s, kind, subject, body, p))
        /\ Len(ch) = 0 => s = 1 /\ p = Genesis
        /\ Len(ch) # 0 => s = ch[Len(ch)].seq + 1 /\ p = ch[Len(ch)].hash
  <2>1. CASE ch = <<>>
    <3>1. new = Append(ch, Event(1, kind, subject, body, Genesis))
      BY <2>1 DEF AppendEvent
    <3>2. QED
      BY <1>1, <2>1, <3>1
  <2>2. CASE ch # <<>>
    <3>1. new = Append(ch, Event(ch[Len(ch)].seq + 1, kind, subject, body, ch[Len(ch)].hash))
      BY <2>2 DEF AppendEvent, Last
    <3>2. ch[Len(ch)].seq + 1 \in Int
      BY <1>1, <2>2
    <3>3. QED
      BY <1>1, <2>2, <3>1, <3>2
  <2>3. QED
    BY <2>1, <2>2
<1>3. PICK p :
        /\ new = Append(ch, Event(s, kind, subject, body, p))
        /\ Len(ch) = 0 => s = 1 /\ p = Genesis
        /\ Len(ch) # 0 => s = ch[Len(ch)].seq + 1 /\ p = ch[Len(ch)].hash
  BY <1>2
<1> DEFINE e == Event(s, kind, subject, body, p)
<1>4. /\ Shaped(new) /\ Len(new) = n /\ new[n] = e
      /\ \A i \in 1 .. Len(ch) : new[i] = ch[i]
      /\ e = [seq |-> s, kind |-> kind, subject |-> subject, body |-> body, prev |-> p, hash |-> Hash(e)]
  BY <1>3, AppendShaped
<1> HIDE DEF new, e
<1>5. ASSUME Linked(ch) PROVE Linked(new)
  <2> SUFFICES ASSUME NEW i \in 1 .. n
               PROVE  /\ new[i].seq = i
                      /\ new[i].hash = Hash(new[i])
                      /\ new[i].prev = IF i = 1 THEN Genesis ELSE new[i - 1].hash
    BY <1>4 DEF Linked
  <2>1. CASE i # n
    <3>1. i \in 1 .. Len(ch) /\ (i # 1 => i - 1 \in 1 .. Len(ch))
      BY <1>1, <2>1
    <3>2. new[i] = ch[i] /\ (i # 1 => new[i - 1] = ch[i - 1])
      BY <1>4, <3>1
    <3>3. QED
      BY <1>5, <3>1, <3>2 DEF Linked
  <2>2. CASE i = n
    <3>1. new[n].seq = s /\ new[n].prev = p /\ new[n].hash = Hash(new[n])
      BY <1>4
    <3>2. CASE Len(ch) = 0
      BY <1>3, <2>2, <3>1, <3>2
    <3>3. CASE Len(ch) # 0
      <4>1. Len(ch) \in 1 .. Len(ch) /\ n # 1 /\ n - 1 = Len(ch)
        BY <1>1, <3>3
      <4>2. ch[Len(ch)].seq = Len(ch) /\ new[n - 1] = ch[Len(ch)]
        BY <1>4, <1>5, <4>1 DEF Linked
      <4>3. QED
        BY <1>3, <2>2, <3>1, <3>3, <4>1, <4>2
    <3>4. QED
      BY <3>2, <3>3
  <2>3. QED
    BY <2>1, <2>2
<1>6. new = Append(ch, new[n])
  BY <1>3, <1>4 DEF e
<1>7. new[n].kind = kind /\ new[n].subject = subject /\ new[n].body = body
  BY <1>4
<1>8. QED
  BY <1>4, <1>5, <1>6, <1>7 DEF new

\* A prefix is known by its elements.
LEMMA PrefixByElements ==
  ASSUME NEW p, NEW ch, Shaped(p), Shaped(ch), Len(p) <= Len(ch), \A i \in 1 .. Len(p) : ch[i] = p[i]
  PROVE  IsPrefix(p, ch)
<1>1. PICK G : p \in Seq(Events(G))
  BY DEF Shaped
<1>2. PICK H : ch \in Seq(Events(H))
  BY DEF Shaped
<1>3. SubSeq(p, 1, Len(p)) = [i \in 1 .. Len(p) |-> p[i]]
  BY <1>1
<1>4. SubSeq(ch, 1, Len(p)) = [i \in 1 .. Len(p) |-> ch[i]]
  BY <1>1, <1>2
<1>5. QED
  BY <1>3, <1>4 DEF IsPrefix

\* A prefix agrees with the log.
LEMMA PrefixElements ==
  ASSUME NEW p, NEW ch, Shaped(p), Shaped(ch), IsPrefix(p, ch)
  PROVE  Len(p) <= Len(ch) /\ \A i \in 1 .. Len(p) : ch[i] = p[i]
<1>1. PICK G : p \in Seq(Events(G))
  BY DEF Shaped
<1>2. PICK H : ch \in Seq(Events(H))
  BY DEF Shaped
<1>3. SubSeq(p, 1, Len(p)) = [i \in 1 .. Len(p) |-> p[i]]
  BY <1>1
<1>4. Len(p) <= Len(ch) /\ SubSeq(p, 1, Len(p)) = SubSeq(ch, 1, Len(p))
  BY DEF IsPrefix
<1>5. SubSeq(ch, 1, Len(p)) = [i \in 1 .. Len(p) |-> ch[i]]
  BY <1>1, <1>2, <1>4
<1>6. QED
  BY <1>3, <1>4, <1>5

-----------------------------------------------------------------------------
(***************************************************************************)
(* What a report shows of the chain it read.                               *)
(***************************************************************************)
\* In a chain without a gap, an event's place is its number.
LEMMA NumberedWithoutGaps ==
  ASSUME NEW ch, Shaped(ch), NEW anchor, ChainProblems(ch, anchor) = {}
  PROVE  \A i \in 1 .. Len(ch) : ch[i].seq = i
<1> DEFINE Before(i) == IF i = 1 THEN [seq |-> 0, hash |-> Genesis]
                        ELSE [seq |-> ch[i - 1].seq, hash |-> ch[i - 1].hash]
           Right == {i \in 0 .. Len(ch) : i = 0 \/ ch[i].seq = i}
<1>1. Len(ch) \in Nat /\ DOMAIN ch = 1 .. Len(ch)
  BY ShapedFacts
<1>2. \A i \in 1 .. Len(ch) : ch[i].seq = Before(i).seq + 1
  BY <1>1 DEF ChainProblems
<1>3. ASSUME NEW i \in 0 .. Len(ch) - 1, i \in Right PROVE i + 1 \in Right
  <2>1. i + 1 \in 1 .. Len(ch) /\ i + 1 - 1 = i /\ (i + 1 = 1 <=> i = 0)
    BY <1>1
  <2>2. ch[i + 1].seq = Before(i + 1).seq + 1
    BY <1>2, <2>1
  <2>3. Before(i + 1).seq = i
    BY <1>3, <2>1
  <2>4. QED
    BY <2>1, <2>2, <2>3
<1>4. 0 \in Right
  BY <1>1
<1>5. 0 .. Len(ch) \subseteq Right
  <2> HIDE DEF Right
  <2>1. QED
    BY <1>1, <1>3, <1>4, Fold!InductiveUpTo
<1>6. QED
  BY <1>1, <1>5

\* The hash of an event fixes the event and, link by link, all before it.
LEMMA HashFixesPrefix ==
  ASSUME NEW ch, Shaped(ch), NEW anchor, ChainProblems(ch, anchor) = {},
         NEW p, Shaped(p), Linked(p),
         Len(p) # 0, Len(p) <= Len(ch), ch[Len(p)].hash = p[Len(p)].hash
  PROVE  IsPrefix(p, ch)
<1> DEFINE n == Len(p)
           Same == {k \in 0 .. n - 1 : ch[n - k].hash = p[n - k].hash}
<1>1. /\ n \in Nat /\ Len(ch) \in Nat /\ n # 0 /\ DOMAIN ch = 1 .. Len(ch)
      /\ \A i \in 1 .. n : i \in 1 .. Len(ch)
  BY ShapedFacts
<1>2. \A i \in 1 .. Len(ch) : ch[i].hash = Hash(ch[i]) /\ (i # 1 => ch[i].prev = ch[i - 1].hash)
  BY <1>1 DEF ChainProblems
<1>3. \A i \in 1 .. n : p[i].hash = Hash(p[i]) /\ (i # 1 => p[i].prev = p[i - 1].hash)
  BY <1>1 DEF Linked
<1>4. ASSUME NEW i \in 1 .. n, ch[i].hash = p[i].hash
      PROVE  ch[i] = p[i] /\ (i # 1 => ch[i - 1].hash = p[i - 1].hash)
  <2>1. Hash(ch[i]) = Hash(p[i])
    BY <1>1, <1>2, <1>3, <1>4
  <2>2. /\ ch[i].seq = p[i].seq /\ ch[i].kind = p[i].kind /\ ch[i].subject = p[i].subject
        /\ ch[i].body = p[i].body /\ ch[i].prev = p[i].prev
    BY <2>1 DEF Hash
  <2>3. ch[i] = p[i]
    <3>1. /\ ch[i] = [seq |-> ch[i].seq, kind |-> ch[i].kind, subject |-> ch[i].subject,
                      body |-> ch[i].body, prev |-> ch[i].prev, hash |-> ch[i].hash]
          /\ p[i] = [seq |-> p[i].seq, kind |-> p[i].kind, subject |-> p[i].subject,
                     body |-> p[i].body, prev |-> p[i].prev, hash |-> p[i].hash]
      BY <1>1, ShapedFacts
    <3>2. QED
      BY <1>4, <2>2, <3>1
  <2>4. QED
    BY <1>1, <1>2, <1>3, <2>2, <2>3
<1>5. 0 \in Same
  BY <1>1
<1>6. ASSUME NEW k \in 0 .. (n - 1) - 1, k \in Same PROVE k + 1 \in Same
  <2>1. n - k \in 1 .. n /\ n - k # 1 /\ n - k - 1 = n - (k + 1) /\ k + 1 \in 0 .. n - 1
    BY <1>1
  <2>2. ch[n - k].hash = p[n - k].hash
    BY <1>6
  <2>3. ch[n - k - 1].hash = p[n - k - 1].hash
    BY <1>4, <2>1, <2>2
  <2>4. QED
    BY <2>1, <2>3
<1>7. 0 .. n - 1 \subseteq Same
  <2> HIDE DEF Same
  <2>1. n - 1 \in Nat
    BY <1>1
  <2>2. QED
    BY <1>5, <1>6, <2>1, Fold!InductiveUpTo
<1>8. \A i \in 1 .. n : ch[i] = p[i]
  <2> TAKE i \in 1 .. n
  <2>1. n - i \in 0 .. n - 1 /\ n - (n - i) = i
    BY <1>1
  <2>2. ch[i].hash = p[i].hash
    BY <1>7, <2>1
  <2>3. QED
    BY <1>4, <2>2
<1>9. QED
  BY <1>1, <1>8, PrefixByElements, ShapedFacts

\* A clean report with the head of p for its anchor: the chain begins with p.
LEMMA AnchoredPrefix ==
  ASSUME NEW ch, Shaped(ch), NEW p, Shaped(p), Linked(p), p # <<>>, Head_(p) # Absent,
         ChainProblems(ch, Head_(p)) = {}
  PROVE  IsPrefix(p, ch)
<1> DEFINE n == Len(p)
           anchor == [seq |-> p[n].seq, hash |-> p[n].hash]
<1>1. Head_(p) = anchor
  BY DEF Head_, Last
<1>2. /\ n \in Nat /\ n # 0 /\ n \in 1 .. n /\ p[n].seq = n
      /\ Len(ch) \in Nat /\ DOMAIN ch = 1 .. Len(ch) /\ (ch = <<>> <=> Len(ch) = 0)
  <2>1. n \in Nat /\ n # 0
    BY ShapedFacts
  <2>2. QED
    BY <2>1, ShapedFacts DEF Linked
<1>3. \A i \in 1 .. Len(ch) : ch[i].seq = i
  BY NumberedWithoutGaps
<1> HIDE DEF n
<1>4. \/ \E i \in DOMAIN ch : [seq |-> ch[i].seq, hash |-> ch[i].hash] = anchor
      \/ ~(ch = <<>> \/ Last(ch).seq < anchor.seq)
  BY <1>1 DEF ChainProblems
<1>5. \A i \in DOMAIN ch : ch[i].seq = anchor.seq => ch[i].hash = anchor.hash
  BY <1>1 DEF ChainProblems
<1>6. n <= Len(ch)
  <2>1. CASE \E i \in DOMAIN ch : [seq |-> ch[i].seq, hash |-> ch[i].hash] = anchor
    <3>1. PICK i \in DOMAIN ch : [seq |-> ch[i].seq, hash |-> ch[i].hash] = anchor
      BY <2>1
    <3>2. ch[i].seq = n
      BY <1>2, <3>1
    <3>3. QED
      BY <1>2, <1>3, <3>1, <3>2
  <2>2. CASE ~(ch = <<>> \/ Last(ch).seq < anchor.seq)
    <3>1. Len(ch) \in 1 .. Len(ch)
      BY <1>2, <2>2
    <3>2. Last(ch).seq = Len(ch)
      BY <1>3, <3>1 DEF Last
    <3>3. QED
      BY <1>2, <2>2, <3>2
  <2>3. QED
    BY <1>4, <2>1, <2>2
<1>7. ch[n].hash = p[n].hash
  <2>1. n \in DOMAIN ch /\ ch[n].seq = anchor.seq
    BY <1>2, <1>3, <1>6
  <2>2. QED
    BY <1>5, <2>1
<1>8. QED
  BY <1>2, <1>6, <1>7, HashFixesPrefix DEF n

\* An untouched chain and the head published of it give nothing to report.
LEMMA HonestChainClean ==
  ASSUME NEW ch, Shaped(ch), Linked(ch), NEW p, Shaped(p), IsPrefix(p, ch),
         NEW anchor \in {Absent, Head_(p)}
  PROVE  ChainProblems(ch, anchor) = {}
<1>1. /\ Len(ch) \in Nat /\ DOMAIN ch = 1 .. Len(ch)
      /\ Len(p) \in Nat /\ (p = <<>> <=> Len(p) = 0)
      /\ Len(p) <= Len(ch) /\ \A i \in 1 .. Len(p) : ch[i] = p[i]
  BY ShapedFacts, PrefixElements
<1> DEFINE Before(i) == IF i = 1 THEN [seq |-> 0, hash |-> Genesis]
                        ELSE [seq |-> ch[i - 1].seq, hash |-> ch[i - 1].hash]
<1>2. \A i \in 1 .. Len(ch) : /\ ch[i].seq = Before(i).seq + 1
                             /\ ch[i].prev = Before(i).hash
                             /\ ch[i].hash = Hash(ch[i])
  <2> TAKE i \in 1 .. Len(ch)
  <2>1. /\ ch[i].seq = i /\ ch[i].hash = Hash(ch[i])
        /\ ch[i].prev = IF i = 1 THEN Genesis ELSE ch[i - 1].hash
    BY DEF Linked
  <2>2. i # 1 => ch[i - 1].seq = i - 1
    BY <1>1 DEF Linked
  <2>3. QED
    BY <1>1, <2>1, <2>2
<1>3. CASE anchor = Absent
  BY <1>1, <1>2, <1>3 DEF ChainProblems
<1>4. CASE anchor # Absent
  <2> DEFINE n == Len(p)
  <2>1. p # <<>> /\ anchor = [seq |-> p[n].seq, hash |-> p[n].hash]
    BY <1>4 DEF Head_, Last
  <2>2. n \in 1 .. Len(ch) /\ ch[n] = p[n]
    BY <1>1, <2>1
  <2>3. \A i \in 1 .. Len(ch) : ch[i].seq = i
    BY DEF Linked
  <2>4. anchor.seq = n /\ anchor.hash = ch[n].hash
    BY <2>1, <2>2, <2>3
  <2>5. \A i \in DOMAIN ch : ch[i].seq = anchor.seq => ch[i].hash = anchor.hash
    BY <1>1, <2>3, <2>4
  <2>6. [seq |-> ch[n].seq, hash |-> ch[n].hash] = anchor
    BY <2>1, <2>2
  <2>7. QED
    BY <1>1, <1>2, <2>2, <2>5, <2>6 DEF ChainProblems
<1>5. QED
  BY <1>3, <1>4

-----------------------------------------------------------------------------
(***************************************************************************)
(* Chains made anew from a list of events.                                 *)
(***************************************************************************)
\* Appending the entries of a list one by one gives a linked chain with the
\* list's kinds, subjects and bodies.
LEMMA RelogFacts ==
  ASSUME NEW R, NEW list \in Seq(R)
  PROVE  LET new == Log!Folded(<<>>, list)
         IN  /\ Shaped(new) /\ Linked(new) /\ Len(new) = Len(list)
             /\ \A j \in 1 .. Len(list) :
                  /\ new[j].kind = list[j].kind
                  /\ new[j].subject = list[j].subject
                  /\ new[j].body = list[j].body
<1> DEFINE St == Log!Stages(<<>>, list)
           Good(i) == /\ Shaped(St[i]) /\ Linked(St[i]) /\ Len(St[i]) = i
                      /\ \A j \in 1 .. i : /\ St[i][j].kind = list[j].kind
                                           /\ St[i][j].subject = list[j].subject
                                           /\ St[i][j].body = list[j].body
           S == {i \in 0 .. Len(list) : Good(i)}
<1>0. Len(list) \in Nat
  OBVIOUS
<1>1. 0 \in S
  <2>1. St[0] = <<>>
    BY <1>0, Log!StagesDefined
  <2>2. QED
    BY <1>0, <2>1, EmptyShaped, Len(<<>>) = 0
<1>2. ASSUME NEW i \in 0 .. Len(list) - 1, i \in S PROVE i + 1 \in S
  <2>1. i + 1 \in 1 .. Len(list) /\ i + 1 - 1 = i
    BY <1>0
  <2>2. St[i + 1] = AppendLike(St[i], list[i + 1])
    BY <1>0, <2>1, Log!StagesDefined
  <2>3. Good(i)
    BY <1>2
  <2> DEFINE new == St[i + 1]
             old_ == St[i]
  <2> HIDE DEF St
  <2>4. /\ Shaped(new) /\ Linked(new) /\ Len(new) = i + 1
        /\ \A j \in 1 .. i : new[j] = old_[j]
        /\ new[i + 1].kind = list[i + 1].kind
        /\ new[i + 1].subject = list[i + 1].subject
        /\ new[i + 1].body = list[i + 1].body
    BY <2>2, <2>3, AppendEventFacts DEF AppendLike
  <2>5. Good(i + 1)
    <3> SUFFICES ASSUME NEW j \in 1 .. i + 1
                 PROVE  /\ new[j].kind = list[j].kind
                        /\ new[j].subject = list[j].subject
                        /\ new[j].body = list[j].body
      BY <2>4
    <3>1. CASE j = i + 1
      BY <2>4, <3>1
    <3>2. CASE j # i + 1
      <4>1. j \in 1 .. i
        BY <3>2
      <4>2. QED
        BY <2>3, <2>4, <4>1
    <3>3. QED
      BY <3>1, <3>2
  <2>6. QED
    BY <1>0, <2>1, <2>5
<1>3. 0 .. Len(list) \subseteq S
  <2> HIDE DEF S
  <2>1. QED
    BY <1>0, <1>1, <1>2, Fold!InductiveUpTo
<1>4. Good(Len(list))
  <2> HIDE DEF Good
  <2>1. QED
    BY <1>0, <1>3
<1>5. QED
  BY <1>4 DEF Log!Folded

\* So is a chain whose hashes are computed anew.
LEMMA RelinkedFacts ==
  ASSUME NEW ch, Shaped(ch)
  PROVE  /\ Shaped(Relinked(ch)) /\ Len(Relinked(ch)) = Len(ch)
         /\ \A j \in 1 .. Len(ch) :
              /\ Relinked(ch)[j].kind = ch[j].kind
              /\ Relinked(ch)[j].subject = ch[j].subject
              /\ Relinked(ch)[j].body = ch[j].body
<1>1. PICK H : ch \in Seq(Events(H))
  BY DEF Shaped
<1>2. QED
  BY <1>1, RelogFacts DEF Relinked

-----------------------------------------------------------------------------
(***************************************************************************)
(* The inductive invariant, in three parts.                                *)
(***************************************************************************)
IsTable(t) == t = [k \in Keys |-> t[k]]

\* What honest writers leave in the tables.
HonestTable(t) ==
  /\ IsTable(t)
  /\ \A k \in Keys : IF k[1] = "delivery_events" THEN t[k] \in Seq({"intent"})
                     ELSE t[k] \in RowValues \cup {Absent}

Migrating(o) == opener[o].pc = "migrating"

\* Chains and tables have their shape, whoever wrote them.
LogShapes ==
  /\ Shaped(chain) /\ Shaped(published) /\ Linked(published)
  /\ IsTable(rows)
  /\ tampers \in Nat

OpenerShapes ==
  /\ bundle = [r \in Records |-> bundle[r]]
  /\ \A r \in Records : bundle[r] \in {"kept", "lost", "archived"}
  /\ opener = [o \in Openers |-> opener[o]]
  /\ \A o \in Openers :
       /\ opener[o] = [pc |-> opener[o].pc, todo |-> opener[o].todo, migrated |-> opener[o].migrated]
       /\ HonestTable(opener[o].migrated)

VerifierShape ==
  /\ v = [pc |-> v.pc, anchor |-> v.anchor, found |-> v.found, said |-> v.said, moved |-> v.moved]
  /\ v.pc \in {"idle", "fold", "records", "deliveries", "delivery_events", "replays", "done"}
  /\ v.moved \in Nat

\* A ledger is migrated by one opener, before anybody uses it.
Phases ==
  /\ \A o \in Openers : Migrating(o) => version = 0 /\ opener[o].todo \subseteq DOMAIN old
  /\ \A o, p \in Openers : Migrating(o) /\ Migrating(p) => o = p
  /\ \A o \in Openers : Migrating(o) => Representable
  /\ version = 0 => old \in OldRecords
  /\ version # Current => v = Idle /\ published = <<>> /\ tampers = 0
  /\ version \notin 7 .. Current => chain = <<>>
  /\ version \notin 2 .. Current => rows = Empty

\* The tables the verifier has compared when it is at pc.
Compared ==
  [records |-> {}, deliveries |-> {"records"}, delivery_events |-> {"records", "deliveries"},
   replays |-> {"records", "deliveries", "delivery_events"},
   done |-> {"records", "deliveries", "delivery_events", "replays"}]

\* What the verifier has found so far is about what it has read.
VerifierKnows ==
  /\ v.pc \in DOMAIN Compared /\ v.moved = 0 => v.said = Said(chain)
  /\ v.pc \in DOMAIN Compared /\ v.moved = 0 /\ v.found = {} =>
       \A k \in Keys : k[1] \in Compared[v.pc] => v.said[k] = rows[k]
  /\ v.pc # "idle" /\ v.anchor # Absent => published # <<>>
  /\ v.pc # "idle" /\ v.found = {} /\ v.anchor # Absent /\ v.anchor = Head_(published)
       => IsPrefix(published, chain)

\* While nobody edits the file, the chain and the tables say the same.
Honest ==
  tampers = 0 =>
    /\ HonestTable(rows)
    /\ Linked(chain) /\ IsPrefix(published, chain)
    /\ \A i \in DOMAIN chain : chain[i].body # Malformed
    /\ version \in 7 .. Current => Said(chain) = rows
    /\ v.pc # "idle" /\ v.moved = 0 => v.found = {}

Entry(e) == e.kind \in {"record.created", "record.imported"}

\* An event that enters a record is of a row that is there, and the only one.
EnteredOnce ==
  tampers = 0 =>
    /\ \A i \in DOMAIN chain :
         Entry(chain[i]) => chain[i].subject \in Records /\ rows[<<"records", chain[i].subject>>] # Absent
    /\ \A i, j \in DOMAIN chain :
         Entry(chain[i]) /\ Entry(chain[j]) /\ chain[i].subject = chain[j].subject => i = j

\* A record that is sealed, or about to be, before the ledger is used has its
\* bundle in the archive.
SealedArchivedFirst ==
  /\ \A r \in Records : version # Current /\ rows[<<"records", r>>] = "sealed" => bundle[r] = "archived"
  /\ \A o \in Openers, r \in Records :
       opener[o].migrated[<<"records", r>>] = "sealed" => bundle[r] = "archived"

IInv ==
  /\ LogShapes /\ OpenerShapes /\ VerifierShape
  /\ Phases /\ VerifierKnows
  /\ Honest /\ EnteredOnce
  /\ SealedArchivedFirst /\ MigratedArchived

-----------------------------------------------------------------------------
(***************************************************************************)
(* What a chain says of the tables.                                        *)
(***************************************************************************)
\* What one event does to the tables, by its kind.
LEMMA ApplyForms ==
  ASSUME NEW t, NEW e
  PROVE  LET row == <<"records", e.subject>>
             list == <<"delivery_events", e.subject>>
         IN  /\ e.body = Malformed => Apply(t, e) = t
             /\ e.body # Malformed =>
                  /\ e.kind \in {"record.created", "record.imported"} =>
                       Apply(t, e) = [t EXCEPT ![row] = e.body]
                  /\ e.kind = "record.changed" =>
                       Apply(t, e) = [t EXCEPT ![row] = IF @ = Absent THEN @ ELSE e.body]
                  /\ e.kind \in {"delivery.opened", "delivery.imported"} =>
                       Apply(t, e) = [t EXCEPT ![<<"deliveries", e.subject>>] = e.body]
                  /\ e.kind \in {"delivery.event", "delivery_event.imported"} =>
                       Apply(t, e) = [t EXCEPT ![list] = Append(@, e.body)]
                  /\ e.kind \in {"replay.logged", "replay.imported"} =>
                       Apply(t, e) = [t EXCEPT ![<<"replays", e.subject>>] = e.body]
                  /\ e.kind \notin {"record.created", "record.imported", "record.changed",
                                    "delivery.opened", "delivery.imported",
                                    "delivery.event", "delivery_event.imported",
                                    "replay.logged", "replay.imported"} => Apply(t, e) = t
<1> DEFINE row == <<"records", e.subject>>
           list == <<"delivery_events", e.subject>>
<1>1. e.body = Malformed => Apply(t, e) = t
  BY DEF Apply
<1> SUFFICES ASSUME e.body # Malformed
             PROVE  /\ e.kind \in {"record.created", "record.imported"} =>
                         Apply(t, e) = [t EXCEPT ![row] = e.body]
                    /\ e.kind = "record.changed" =>
                         Apply(t, e) = [t EXCEPT ![row] = IF @ = Absent THEN @ ELSE e.body]
                    /\ e.kind \in {"delivery.opened", "delivery.imported"} =>
                         Apply(t, e) = [t EXCEPT ![<<"deliveries", e.subject>>] = e.body]
                    /\ e.kind \in {"delivery.event", "delivery_event.imported"} =>
                         Apply(t, e) = [t EXCEPT ![list] = Append(@, e.body)]
                    /\ e.kind \in {"replay.logged", "replay.imported"} =>
                         Apply(t, e) = [t EXCEPT ![<<"replays", e.subject>>] = e.body]
                    /\ e.kind \notin {"record.created", "record.imported", "record.changed",
                                      "delivery.opened", "delivery.imported",
                                      "delivery.event", "delivery_event.imported",
                                      "replay.logged", "replay.imported"} => Apply(t, e) = t
  BY <1>1
<1>2. e.kind \in {"record.created", "record.imported"} => Apply(t, e) = [t EXCEPT ![row] = e.body]
  BY DEF Apply
<1>3. e.kind = "record.changed" => Apply(t, e) = [t EXCEPT ![row] = IF @ = Absent THEN @ ELSE e.body]
  BY DEF Apply
<1>4. e.kind \in {"delivery.opened", "delivery.imported"} =>
        Apply(t, e) = [t EXCEPT ![<<"deliveries", e.subject>>] = e.body]
  BY DEF Apply
<1>5. e.kind \in {"delivery.event", "delivery_event.imported"} =>
        Apply(t, e) = [t EXCEPT ![list] = Append(@, e.body)]
  BY DEF Apply
<1>6. e.kind \in {"replay.logged", "replay.imported"} =>
        Apply(t, e) = [t EXCEPT ![<<"replays", e.subject>>] = e.body]
  BY DEF Apply
<1>7. e.kind \notin {"record.created", "record.imported", "record.changed",
                     "delivery.opened", "delivery.imported",
                     "delivery.event", "delivery_event.imported",
                     "replay.logged", "replay.imported"} => Apply(t, e) = t
  BY DEF Apply
<1>8. QED
  BY <1>2, <1>3, <1>4, <1>5, <1>6, <1>7, Zenon

\* An event leaves the tables a table.
LEMMA ApplyTable == ASSUME NEW t, IsTable(t), NEW e PROVE IsTable(Apply(t, e))
<1> DEFINE Put(k, x) == [t EXCEPT ![k] = x]
<1>1. ASSUME NEW k, NEW x PROVE IsTable(Put(k, x))
  BY DEF IsTable
<1>2. IsTable(t)
  OBVIOUS
<1> HIDE DEF Put
<1>3. CASE e.body = Malformed
  BY <1>2, <1>3, ApplyForms
<1>4. CASE e.body # Malformed
  <2>1. CASE e.kind \in {"record.created", "record.imported"}
    <3>1. Apply(t, e) = Put(<<"records", e.subject>>, e.body)
      BY <1>4, <2>1, ApplyForms DEF Put
    <3>2. QED
      BY <1>1, <3>1
  <2>2. CASE e.kind = "record.changed"
    <3>1. Apply(t, e) = Put(<<"records", e.subject>>,
                            IF t[<<"records", e.subject>>] = Absent THEN t[<<"records", e.subject>>] ELSE e.body)
      BY <1>4, <2>2, ApplyForms DEF Put
    <3>2. QED
      BY <1>1, <3>1
  <2>3. CASE e.kind \in {"delivery.opened", "delivery.imported"}
    <3>1. Apply(t, e) = Put(<<"deliveries", e.subject>>, e.body)
      BY <1>4, <2>3, ApplyForms DEF Put
    <3>2. QED
      BY <1>1, <3>1
  <2>4. CASE e.kind \in {"delivery.event", "delivery_event.imported"}
    <3>1. Apply(t, e) = Put(<<"delivery_events", e.subject>>,
                            Append(t[<<"delivery_events", e.subject>>], e.body))
      BY <1>4, <2>4, ApplyForms DEF Put
    <3>2. QED
      BY <1>1, <3>1
  <2>5. CASE e.kind \in {"replay.logged", "replay.imported"}
    <3>1. Apply(t, e) = Put(<<"replays", e.subject>>, e.body)
      BY <1>4, <2>5, ApplyForms DEF Put
    <3>2. QED
      BY <1>1, <3>1
  <2>6. CASE e.kind \notin {"record.created", "record.imported", "record.changed",
                            "delivery.opened", "delivery.imported",
                            "delivery.event", "delivery_event.imported",
                            "replay.logged", "replay.imported"}
    BY <1>2, <1>4, <2>6, ApplyForms
  <2>7. QED
    BY <2>1, <2>2, <2>3, <2>4, <2>5, <2>6
<1>5. QED
  BY <1>3, <1>4

\* A new ledger's tables are honest ones.
LEMMA EmptyTable == IsTable(Empty) /\ HonestTable(Empty)
<1>1. <<>> \in Seq({"intent"})
  OBVIOUS
<1>2. QED
  BY <1>1 DEF IsTable, HonestTable, Empty

\* What a log says is a table.
LEMMA SaidTable == ASSUME NEW ch, Shaped(ch) PROVE IsTable(Said(ch))
<1> DEFINE St == Fold!Stages(Empty, ch)
           S == {i \in 0 .. Len(ch) : IsTable(St[i])}
<1>0. Len(ch) \in Nat
  BY ShapedFacts
<1>1. 0 \in S
  BY <1>0, Fold!StagesDefined, EmptyTable
<1>2. ASSUME NEW i \in 0 .. Len(ch) - 1, i \in S PROVE i + 1 \in S
  <2>1. i + 1 \in 1 .. Len(ch) /\ i + 1 - 1 = i
    BY <1>0
  <2>2. St[i + 1] = Apply(St[i], ch[i + 1])
    BY <1>0, <2>1, Fold!StagesDefined
  <2>3. QED
    BY <1>2, <2>1, <2>2, ApplyTable
<1>3. 0 .. Len(ch) \subseteq S
  <2> HIDE DEF S
  <2>1. QED
    BY <1>0, <1>1, <1>2, Fold!InductiveUpTo
<1>4. QED
  BY <1>0, <1>3 DEF Said, Fold!Folded

\* A new log says that the tables are empty.
LEMMA SaidEmpty == Said(<<>>) = Empty
BY Fold!FoldedEmpty DEF Said

\* One event more is one more application.
LEMMA SaidAppended ==
  ASSUME NEW ch, Shaped(ch), NEW kind, NEW subject, NEW body
  PROVE  LET new == AppendEvent(ch, kind, subject, body)
         IN  Said(new) = Apply(Said(ch), new[Len(ch) + 1])
<1>1. PICK H : ch \in Seq(Events(H))
  BY DEF Shaped
<1> DEFINE new == AppendEvent(ch, kind, subject, body)
           e == new[Len(ch) + 1]
<1>2. new = Append(ch, e)
  BY AppendEventFacts
<1> HIDE DEF new, e
<1>3. Fold!Folded(Empty, Append(ch, e)) = Apply(Fold!Folded(Empty, ch), e)
  BY <1>1, Fold!FoldedAppend
<1>4. QED
  BY <1>2, <1>3 DEF Said, new, e

-----------------------------------------------------------------------------
(***************************************************************************)
(* Importing tables.                                                       *)
(***************************************************************************)
LEMMA KeyForms ==
  ASSUME NEW k \in Keys
  PROVE  /\ k = <<k[1], k[2]>>
         /\ k[1] \in {"records", "deliveries", "delivery_events", "replays"}
         /\ k[1] = "records" => k[2] \in Records
BY DEF Keys

\* An order of import has every row once, and a delivery's events in theirs.
LEMMA OrderFacts ==
  ASSUME NEW t, HonestTable(t), NEW o \in Orders(t)
  PROVE  /\ Len(o) \in Nat /\ DOMAIN o = 1 .. Len(o) /\ o \in Seq(Entries(t))
         /\ \A i \in 1 .. Len(o) : /\ o[i] = <<o[i][1], o[i][2]>>
                                   /\ o[i][1] \in Keys
                                   /\ o[i][2] \in 1 .. Len(RowsOf(t, o[i][1]))
         /\ \A k \in Keys : \A n \in 1 .. Len(RowsOf(t, k)) : \E i \in 1 .. Len(o) : o[i] = <<k, n>>
         /\ \A i, j \in 1 .. Len(o) : i < j /\ o[i][1] = o[j][1] => o[i][2] < o[j][2]
<1>1. PICK m \in 0 .. Cardinality(Entries(t)) : o \in [1 .. m -> Entries(t)]
  BY DEF Orders, SeqOf
<1>2. m \in Nat /\ Len(o) = m /\ DOMAIN o = 1 .. Len(o) /\ o \in Seq(Entries(t))
  BY <1>1
<1>3. \A k \in Keys : DOMAIN RowsOf(t, k) = 1 .. Len(RowsOf(t, k))
  <2> TAKE k \in Keys
  <2>1. CASE k[1] = "delivery_events"
    BY <2>1 DEF RowsOf, HonestTable
  <2>2. CASE k[1] # "delivery_events" /\ t[k] = Absent
    BY <2>2 DEF RowsOf
  <2>3. CASE k[1] # "delivery_events" /\ t[k] # Absent
    BY <2>3 DEF RowsOf
  <2>4. QED
    BY <2>1, <2>2, <2>3
<1>4. ASSUME NEW i \in 1 .. Len(o)
      PROVE  /\ o[i] = <<o[i][1], o[i][2]>>
             /\ o[i][1] \in Keys
             /\ o[i][2] \in 1 .. Len(RowsOf(t, o[i][1]))
  <2>1. o[i] \in Entries(t)
    BY <1>1, <1>2
  <2>2. PICK k \in Keys : \E n \in DOMAIN RowsOf(t, k) : o[i] = <<k, n>>
    BY <2>1 DEF Entries
  <2>3. QED
    BY <1>3, <2>2
<1>5. ASSUME NEW k \in Keys, NEW n \in 1 .. Len(RowsOf(t, k)) PROVE \E i \in 1 .. Len(o) : o[i] = <<k, n>>
  <2>1. <<k, n>> \in Entries(t)
    BY <1>3 DEF Entries
  <2>2. QED
    BY <1>2, <2>1 DEF Orders
<1>6. \A i, j \in 1 .. Len(o) : i < j /\ o[i][1] = o[j][1] => o[i][2] < o[j][2]
  BY <1>2 DEF Orders
<1>7. QED
  BY <1>2, <1>4, <1>5, <1>6

\* Every row is in every order of import.
LEMMA OrderCovers ==
  ASSUME NEW t, HonestTable(t), NEW o \in Orders(t), NEW k \in Keys, NEW n \in 1 .. Len(RowsOf(t, k))
  PROVE  \E i \in 1 .. Len(o) : o[i] = <<k, n>>
<1>1. \A l \in Keys : \A m \in 1 .. Len(RowsOf(t, l)) : \E i \in 1 .. Len(o) : o[i] = <<l, m>>
  BY OrderFacts
<1>2. QED
  BY <1>1

\* What a row is imported as.
LEMMA ImportApplied ==
  ASSUME NEW t, HonestTable(t), NEW k \in Keys, NEW n \in 1 .. Len(RowsOf(t, k)),
         NEW s, NEW e,
         e.kind = Import(t, <<k, n>>).kind,
         e.subject = Import(t, <<k, n>>).subject,
         e.body = Import(t, <<k, n>>).body
  PROVE  /\ e.body # Malformed
         /\ Entry(e) => /\ k = <<"records", e.subject>> /\ e.subject \in Records
                        /\ n = 1 /\ t[k] # Absent /\ e.body = t[k]
         /\ k[1] = "delivery_events" => Apply(s, e) = [s EXCEPT ![k] = Append(@, t[k][n])]
         /\ k[1] # "delivery_events" => n = 1 /\ t[k] # Absent /\ Apply(s, e) = [s EXCEPT ![k] = t[k]]
<1>1. e.kind = ImportKind[k[1]] /\ e.subject = k[2] /\ e.body = RowsOf(t, k)[n]
  BY DEF Import
<1>2. /\ k = <<k[1], k[2]>> /\ k[1] \in {"records", "deliveries", "delivery_events", "replays"}
      /\ k[1] = "records" => k[2] \in Records
  BY KeyForms
<1>3. k[1] # "delivery_events" => n = 1 /\ t[k] # Absent /\ e.body = t[k] /\ t[k] \in RowValues
  <2> SUFFICES ASSUME k[1] # "delivery_events"
               PROVE  n = 1 /\ t[k] # Absent /\ e.body = t[k] /\ t[k] \in RowValues
    OBVIOUS
  <2>1. t[k] # Absent
    <3>1. t[k] = Absent => Len(RowsOf(t, k)) = 0
      BY DEF RowsOf
    <3>2. QED
      BY <3>1
  <2>2. RowsOf(t, k) = <<t[k]>>
    BY <2>1 DEF RowsOf
  <2>3. n = 1
    BY <2>2
  <2>4. QED
    BY <1>1, <2>1, <2>2, <2>3 DEF HonestTable
<1>4. k[1] = "delivery_events" => e.body = t[k][n] /\ e.body = "intent"
  <2> SUFFICES ASSUME k[1] = "delivery_events" PROVE e.body = t[k][n] /\ e.body = "intent"
    OBVIOUS
  <2>1. RowsOf(t, k) = t[k] /\ t[k] \in Seq({"intent"})
    BY DEF RowsOf, HonestTable
  <2>2. QED
    BY <1>1, <2>1
<1>5. e.body \in RowValues
  BY <1>2, <1>3, <1>4 DEF RowValues
<1>6. e.body # Malformed
  BY <1>5, EventChainAssumption
<1>7. /\ k[1] = "records" => e.kind = "record.imported"
      /\ k[1] = "deliveries" => e.kind = "delivery.imported"
      /\ k[1] = "delivery_events" => e.kind = "delivery_event.imported"
      /\ k[1] = "replays" => e.kind = "replay.imported"
  BY <1>1 DEF ImportKind
<1>8. k[1] # "delivery_events" => Apply(s, e) = [s EXCEPT ![k] = t[k]]
  BY <1>1, <1>2, <1>3, <1>6, <1>7 DEF Apply
<1>9. k[1] = "delivery_events" => Apply(s, e) = [s EXCEPT ![k] = Append(@, t[k][n])]
  BY <1>1, <1>2, <1>4, <1>6, <1>7 DEF Apply
<1>10. Entry(e) => k[1] = "records"
  BY <1>2, <1>7 DEF Entry
<1>11. QED
  BY <1>1, <1>2, <1>3, <1>6, <1>8, <1>9, <1>10

\* The events of a backfill, before what they say of the tables.
LEMMA BackfillChain ==
  ASSUME NEW t, HonestTable(t), NEW o \in Orders(t)
  PROVE  LET new == Log!Folded(<<>>, [i \in DOMAIN o |-> Import(t, o[i])])
         IN  /\ Shaped(new) /\ Linked(new) /\ Len(new) = Len(o)
             /\ \A i \in 1 .. Len(o) :
                  /\ new[i].kind = Import(t, o[i]).kind
                  /\ new[i].subject = Import(t, o[i]).subject
                  /\ new[i].body = Import(t, o[i]).body
<1> DEFINE list == [i \in DOMAIN o |-> Import(t, o[i])]
           R == {Import(t, o[i]) : i \in 1 .. Len(o)}
<1>1. Len(o) \in Nat /\ DOMAIN o = 1 .. Len(o)
  BY OrderFacts
<1>2. \A i \in 1 .. Len(o) : list[i] = Import(t, o[i])
  BY <1>1
<1>3. list \in Seq(R) /\ Len(list) = Len(o)
  <2>1. list \in [1 .. Len(o) -> R]
    BY <1>1
  <2> HIDE DEF list, R
  <2>2. QED
    BY <1>1, <2>1
<1> HIDE DEF list, R
<1> DEFINE new == Log!Folded(<<>>, list)
<1>4. /\ Shaped(new) /\ Linked(new) /\ Len(new) = Len(list)
      /\ \A j \in 1 .. Len(list) :
           /\ new[j].kind = list[j].kind
           /\ new[j].subject = list[j].subject
           /\ new[j].body = list[j].body
  BY <1>3, RelogFacts
<1> HIDE DEF new
<1>5. QED
  BY <1>2, <1>3, <1>4 DEF new, list

\* What the first i events of a backfill say: each row that is among them, and
\* of a delivery's events as many.
LEMMA BackfillSays ==
  ASSUME NEW t, HonestTable(t), NEW o \in Orders(t),
         NEW new, Shaped(new), Len(new) = Len(o),
         \A i \in 1 .. Len(o) : /\ new[i].kind = Import(t, o[i]).kind
                                /\ new[i].subject = Import(t, o[i]).subject
                                /\ new[i].body = Import(t, o[i]).body
  PROVE  Said(new) = t
<1> DEFINE St == Fold!Stages(Empty, new)
           Imported(i, k, x) == \E j \in 1 .. i : o[j] = <<k, x>>
           Listed(i, k) == /\ St[i][k] \in Seq({"intent"})
                           /\ Len(St[i][k]) <= Len(t[k])
                           /\ \A x \in 1 .. Len(t[k]) : Imported(i, k, x) <=> x <= Len(St[i][k])
           Held(i, k) == St[i][k] = IF Imported(i, k, 1) THEN t[k] ELSE Absent
           Good(i) == /\ IsTable(St[i])
                      /\ \A k \in Keys : IF k[1] = "delivery_events" THEN Listed(i, k) ELSE Held(i, k)
           S == {i \in 0 .. Len(o) : Good(i)}
<1>0. /\ Len(o) \in Nat
      /\ \A i \in 1 .. Len(o) : /\ o[i] = <<o[i][1], o[i][2]>>
                                /\ o[i][1] \in Keys
                                /\ o[i][2] \in 1 .. Len(RowsOf(t, o[i][1]))
      /\ \A k \in Keys : \A n \in 1 .. Len(RowsOf(t, k)) : \E i \in 1 .. Len(o) : o[i] = <<k, n>>
      /\ \A i, j \in 1 .. Len(o) : i < j /\ o[i][1] = o[j][1] => o[i][2] < o[j][2]
  <2>1. Len(o) \in Nat
    BY OrderFacts
  <2>2. \A i \in 1 .. Len(o) : /\ o[i] = <<o[i][1], o[i][2]>>
                                /\ o[i][1] \in Keys
                                /\ o[i][2] \in 1 .. Len(RowsOf(t, o[i][1]))
    BY OrderFacts
  <2>3. ASSUME NEW k \in Keys, NEW n \in 1 .. Len(RowsOf(t, k)) PROVE \E i \in 1 .. Len(o) : o[i] = <<k, n>>
    BY OrderCovers
  <2>4. \A i, j \in 1 .. Len(o) : i < j /\ o[i][1] = o[j][1] => o[i][2] < o[j][2]
    BY OrderFacts
  <2>5. QED
    BY <2>1, <2>2, <2>3, <2>4
<1>1. Good(0)
  <2>1. St[0] = Empty
    BY <1>0, Fold!StagesDefined
  <2>2. ASSUME NEW k \in Keys, k[1] = "delivery_events" PROVE Listed(0, k)
    <3>1. St[0][k] = <<>>
      BY <2>1, <2>2 DEF Empty
    <3>2. t[k] \in Seq({"intent"})
      BY <2>2 DEF HonestTable
    <3>3. QED
      BY <3>1, <3>2
  <2>3. ASSUME NEW k \in Keys, k[1] # "delivery_events" PROVE Held(0, k)
    BY <2>1, <2>3 DEF Empty
  <2>4. QED
    BY <2>1, <2>2, <2>3, EmptyTable
<1>2. ASSUME NEW i \in 0 .. Len(o) - 1, Good(i) PROVE Good(i + 1)
  <2>1. /\ i + 1 \in 1 .. Len(o) /\ i + 1 - 1 = i /\ i \in Nat
        /\ \A j \in 1 .. i + 1 : j \in 1 .. i \/ j = i + 1
        /\ \A j \in 1 .. i : j \in 1 .. i + 1 /\ j \in 1 .. Len(o) /\ j < i + 1
    BY <1>0
  <2>2. St[i + 1] = Apply(St[i], new[i + 1])
    BY <1>0, <2>1, Fold!StagesDefined
  <2>3. PICK key, num : /\ o[i + 1] = <<key, num>> /\ key \in Keys
                        /\ num \in 1 .. Len(RowsOf(t, key))
    BY <1>0, <2>1
  <2>4. /\ key[1] = "delivery_events" => St[i + 1] = [St[i] EXCEPT ![key] = Append(@, t[key][num])]
        /\ key[1] # "delivery_events" =>
             num = 1 /\ t[key] # Absent /\ St[i + 1] = [St[i] EXCEPT ![key] = t[key]]
    <3>1. /\ new[i + 1].kind = Import(t, <<key, num>>).kind
          /\ new[i + 1].subject = Import(t, <<key, num>>).subject
          /\ new[i + 1].body = Import(t, <<key, num>>).body
      BY <2>1, <2>3
    <3>2. /\ key[1] = "delivery_events" =>
               Apply(St[i], new[i + 1]) = [St[i] EXCEPT ![key] = Append(@, t[key][num])]
          /\ key[1] # "delivery_events" =>
               num = 1 /\ t[key] # Absent /\ Apply(St[i], new[i + 1]) = [St[i] EXCEPT ![key] = t[key]]
      <4> DEFINE e == new[i + 1]
      <4> HIDE DEF e, Good, St
      <4>1. /\ e.kind = Import(t, <<key, num>>).kind
            /\ e.subject = Import(t, <<key, num>>).subject
            /\ e.body = Import(t, <<key, num>>).body
        BY <3>1 DEF e
      <4>2. \A s : key[1] = "delivery_events" => Apply(s, e) = [s EXCEPT ![key] = Append(@, t[key][num])]
        BY <2>3, <4>1, ImportApplied
      <4>3. \A s : key[1] # "delivery_events" =>
              num = 1 /\ t[key] # Absent /\ Apply(s, e) = [s EXCEPT ![key] = t[key]]
        BY <2>3, <4>1, ImportApplied
      <4>4. QED
        BY <4>2, <4>3, Zenon DEF e
    <3>3. QED
      BY <2>2, <3>2
  <2>5. IsTable(St[i + 1])
    BY <1>2, <2>2, ApplyTable
  <2>6. \A k \in Keys : k # key => St[i + 1][k] = St[i][k]
    BY <1>2, <2>4 DEF IsTable
  <2>7. \A k, x : Imported(i + 1, k, x) <=> (Imported(i, k, x) \/ (k = key /\ x = num))
    BY <2>1, <2>3
  <2>8. ASSUME NEW k \in Keys, k # key
        PROVE  IF k[1] = "delivery_events" THEN Listed(i + 1, k) ELSE Held(i + 1, k)
    <3>1. \A x : Imported(i + 1, k, x) <=> Imported(i, k, x)
      BY <2>7, <2>8
    <3>2. St[i + 1][k] = St[i][k]
      BY <2>6, <2>8
    <3> HIDE DEF Imported, St
    <3>3. QED
      BY <1>2, <3>1, <3>2
  <2>9. ASSUME key[1] # "delivery_events" PROVE Held(i + 1, key)
    <3>1. St[i + 1][key] = t[key]
      BY <1>2, <2>3, <2>4, <2>9 DEF IsTable
    <3>2. Imported(i + 1, key, 1)
      BY <2>1, <2>3, <2>4, <2>9
    <3>3. QED
      BY <3>1, <3>2
  <2>10. ASSUME key[1] = "delivery_events" PROVE Listed(i + 1, key)
    <3>0. RowsOf(t, key) = t[key] /\ t[key] \in Seq({"intent"})
      BY <2>3, <2>10 DEF RowsOf, HonestTable
    <3> DEFINE m == Len(St[i][key])
    <3>1. /\ St[i][key] \in Seq({"intent"}) /\ m \in Nat /\ m <= Len(t[key])
          /\ \A x \in 1 .. Len(t[key]) : Imported(i, key, x) <=> x <= m
      <4>1. Listed(i, key)
        BY <1>2, <2>3, <2>10
      <4> HIDE DEF Imported, St
      <4>2. QED
        BY <4>1
    <3>2. \A j \in 1 .. Len(o) : o[j][1] = key =>
            /\ j < i + 1 => o[j][2] < num
            /\ i + 1 < j => num < o[j][2]
      <4>1. o[i + 1][1] = key /\ o[i + 1][2] = num
        BY <2>3
      <4> HIDE DEF Good, St
      <4>2. QED
        BY <1>0, <2>1, <4>1
    <3>3. num \in 1 .. Len(t[key]) /\ num \in Nat
      BY <2>3, <3>0
    <3>4. ~(num <= m)
      <4>1. SUFFICES ASSUME Imported(i, key, num) PROVE FALSE
        BY <3>1, <3>3
      <4>2. PICK j \in 1 .. i : o[j] = <<key, num>>
        BY <4>1
      <4>3. o[j][1] = key /\ o[j][2] = num
        BY <4>2
      <4>4. QED
        BY <2>1, <3>2, <3>3, <4>3
    <3>5. ~(num > m + 1)
      <4> SUFFICES ASSUME num > m + 1 PROVE FALSE
        OBVIOUS
      <4>1. m + 1 \in 1 .. Len(t[key]) /\ ~(m + 1 <= m)
        BY <3>1, <3>3
      <4>2. PICK j \in 1 .. Len(o) : o[j] = <<key, m + 1>>
        BY <1>0, <2>3, <3>0, <4>1
      <4>3. ~Imported(i, key, m + 1)
        BY <3>1, <4>1
      <4>4. j \notin 1 .. i /\ j # i + 1
        BY <2>3, <4>2, <4>3
      <4>5. i + 1 < j
        BY <2>1, <4>4
      <4>6. o[j][1] = key /\ o[j][2] = m + 1
        BY <4>2
      <4>7. num < m + 1
        BY <3>2, <4>5, <4>6
      <4>8. QED
        BY <3>1, <3>3, <4>7
    <3>6. num = m + 1
      BY <3>1, <3>3, <3>4, <3>5
    <3>7. t[key][num] = "intent"
      BY <3>0, <3>3
    <3>8. St[i + 1][key] = Append(St[i][key], "intent")
      BY <1>2, <2>3, <2>4, <2>10, <3>7 DEF IsTable
    <3>9. St[i + 1][key] \in Seq({"intent"}) /\ Len(St[i + 1][key]) = m + 1
      <4> HIDE DEF St
      <4>1. QED
        BY <3>1, <3>8
    <3>10. \A x \in 1 .. Len(t[key]) : Imported(i + 1, key, x) <=> x <= m + 1
      <4> HIDE DEF Imported, m
      <4>1. \A x \in 1 .. Len(t[key]) : x <= m + 1 <=> x <= m \/ x = m + 1
        BY <3>1
      <4>2. QED
        BY <2>7, <3>1, <3>6, <4>1
    <3> HIDE DEF Imported, St, m
    <3>11. QED
      BY <3>1, <3>3, <3>6, <3>9, <3>10
  <2>11. QED
    BY <2>5, <2>8, <2>9, <2>10
<1> HIDE DEF Good
<1>3. 0 .. Len(o) \subseteq S
  <2>1. 0 \in S
    BY <1>0, <1>1
  <2>2. ASSUME NEW i \in 0 .. Len(o) - 1, i \in S PROVE i + 1 \in S
    <3>1. Good(i) /\ i + 1 \in 0 .. Len(o)
      BY <1>0, <2>2
    <3>2. QED
      BY <1>2, <3>1
  <2> HIDE DEF S
  <2>3. QED
    BY <1>0, <2>1, <2>2, Fold!InductiveUpTo
<1>4. Good(Len(o))
  BY <1>0, <1>3
<1> USE DEF Good
<1>5. ASSUME NEW k \in Keys PROVE St[Len(o)][k] = t[k]
  <2>0. \A x \in 1 .. Len(RowsOf(t, k)) : Imported(Len(o), k, x)
    BY <1>0
  <2>1. CASE k[1] = "delivery_events"
    <3>1. RowsOf(t, k) = t[k] /\ t[k] \in Seq({"intent"})
      BY <2>1 DEF RowsOf, HonestTable
    <3>2. Listed(Len(o), k)
      BY <1>4, <2>1
    <3> HIDE DEF Imported, St
    <3>3. \A x \in 1 .. Len(t[k]) : x <= Len(St[Len(o)][k])
      BY <2>0, <3>1, <3>2
    <3>4. Len(St[Len(o)][k]) = Len(t[k])
      BY <3>1, <3>2, <3>3
    <3>5. QED
      BY <3>1, <3>2, <3>4
  <2>2. CASE k[1] # "delivery_events"
    <3>1. Held(Len(o), k)
      BY <1>4, <2>2
    <3>2. t[k] # Absent => 1 \in 1 .. Len(RowsOf(t, k))
      BY <2>2 DEF RowsOf
    <3> HIDE DEF Imported, St
    <3>3. QED
      BY <2>0, <3>1, <3>2
  <2>3. QED
    BY <2>1, <2>2
<1>6. Said(new) = St[Len(o)]
  BY DEF Said, Fold!Folded
<1>7. IsTable(St[Len(o)]) /\ IsTable(t)
  BY <1>4 DEF HonestTable
<1> HIDE DEF St
<1>8. QED
  BY <1>5, <1>6, <1>7 DEF IsTable

\* A log started from honest tables says what they hold, and enters each record
\* once.
LEMMA BackfillFacts ==
  ASSUME NEW t, HonestTable(t), NEW new \in Backfilled(<<>>, t)
  PROVE  /\ Shaped(new) /\ Linked(new) /\ Said(new) = t
         /\ \A i \in 1 .. Len(new) :
              /\ new[i].body # Malformed
              /\ Entry(new[i]) => /\ new[i].subject \in Records
                                  /\ t[<<"records", new[i].subject>>] # Absent
                                  /\ new[i].body = t[<<"records", new[i].subject>>]
         /\ \A i, j \in 1 .. Len(new) :
              Entry(new[i]) /\ Entry(new[j]) /\ new[i].subject = new[j].subject => i = j
<1>1. PICK o \in Orders(t) : new = Log!Folded(<<>>, [i \in DOMAIN o |-> Import(t, o[i])])
  BY DEF Backfilled
<1>2. /\ Shaped(new) /\ Linked(new) /\ Len(new) = Len(o)
      /\ \A i \in 1 .. Len(o) :
           /\ new[i].kind = Import(t, o[i]).kind
           /\ new[i].subject = Import(t, o[i]).subject
           /\ new[i].body = Import(t, o[i]).body
  BY <1>1, BackfillChain
<1>3. Said(new) = t
  BY <1>2, BackfillSays
<1>4. ASSUME NEW i \in 1 .. Len(new)
      PROVE  /\ new[i].body # Malformed
             /\ Entry(new[i]) => /\ new[i].subject \in Records
                                 /\ t[<<"records", new[i].subject>>] # Absent
                                 /\ new[i].body = t[<<"records", new[i].subject>>]
                                 /\ o[i] = <<<<"records", new[i].subject>>, 1>>
  <2>1. PICK k, n : o[i] = <<k, n>> /\ k \in Keys /\ n \in 1 .. Len(RowsOf(t, k))
    BY <1>2, OrderFacts
  <2>2. /\ new[i].kind = Import(t, <<k, n>>).kind
        /\ new[i].subject = Import(t, <<k, n>>).subject
        /\ new[i].body = Import(t, <<k, n>>).body
    BY <1>2, <2>1
  <2> DEFINE e == new[i]
  <2>3. /\ e.body # Malformed
        /\ Entry(e) => /\ k = <<"records", e.subject>> /\ e.subject \in Records
                        /\ n = 1 /\ t[k] # Absent /\ e.body = t[k]
    <3> HIDE DEF e
    <3>1. e.kind = Import(t, <<k, n>>).kind /\ e.subject = Import(t, <<k, n>>).subject
          /\ e.body = Import(t, <<k, n>>).body
      BY <2>2 DEF e
    <3>2. QED
      BY <2>1, <3>1, ImportApplied
  <2>4. QED
    BY <2>1, <2>3
<1>5. ASSUME NEW i \in 1 .. Len(new), NEW j \in 1 .. Len(new),
             Entry(new[i]), Entry(new[j]), new[i].subject = new[j].subject
      PROVE  i = j
  <2>0. o[i] = <<<<"records", new[i].subject>>, 1>> /\ o[j] = <<<<"records", new[j].subject>>, 1>>
    BY <1>4, <1>5
  <2>1. o[i][1] = o[j][1] /\ o[i][2] = 1 /\ o[j][2] = 1
    BY <1>5, <2>0
  <2>2. ~(i < j) /\ ~(j < i)
    BY <1>2, <2>1, OrderFacts
  <2>3. Len(new) \in Nat
    BY <1>2, ShapedFacts
  <2>4. QED
    BY <2>2, <2>3
<1>6. QED
  BY <1>2, <1>3, <1>4, <1>5

-----------------------------------------------------------------------------
(***************************************************************************)
(* The invariant holds of a ledger of any version.                         *)
(***************************************************************************)
LEMMA OldRowsHonest == ASSUME NEW t \in OldRows PROVE HonestTable(t)
<1> DEFINE Cell(states, ds, k) ==
             CASE k[1] = "records"         -> states[k[2]]
               [] k[1] = "deliveries"      -> IF k[2] \in ds THEN "opened" ELSE Absent
               [] k[1] = "delivery_events" -> IF k[2] \in ds THEN <<"intent">> ELSE <<>>
               [] k[1] = "replays"         -> Absent
           Form(states, ds) == [k \in Keys |-> Cell(states, ds, k)]
           OneRecord == {f \in [Records -> {Absent, "pending", "sealed"}] :
                           Cardinality({r \in Records : f[r] # Absent}) <= 1}
<1>1. PICK states \in OneRecord, ds \in SUBSET Deliveries : t = Form(states, ds)
  <2>1. OldRows = {Form(states, ds) : states \in OneRecord, ds \in SUBSET Deliveries}
    BY DEF OldRows
  <2> HIDE DEF Form, OneRecord
  <2>2. QED
    BY <2>1
<1>2. IsTable(t)
  <2> HIDE DEF Cell
  <2>1. DOMAIN t = Keys /\ t = [k \in DOMAIN t |-> t[k]]
    BY <1>1
  <2>2. QED
    BY <2>1 DEF IsTable
<1>3. ASSUME NEW k \in Keys
      PROVE  IF k[1] = "delivery_events" THEN t[k] \in Seq({"intent"}) ELSE t[k] \in RowValues \cup {Absent}
  <2>1. CASE k[1] = "records"
    <3>1. t[k] = states[k[2]] /\ k[2] \in Records
      BY <1>1, <2>1, KeyForms
    <3>2. QED
      BY <2>1, <3>1 DEF RowValues
  <2>2. CASE k[1] = "deliveries"
    BY <1>1, <2>2 DEF RowValues
  <2>3. CASE k[1] = "delivery_events"
    <3>1. t[k] = IF k[2] \in ds THEN <<"intent">> ELSE <<>>
      BY <1>1, <2>3
    <3>2. <<"intent">> \in Seq({"intent"}) /\ <<>> \in Seq({"intent"})
      OBVIOUS
    <3>3. QED
      BY <2>3, <3>1, <3>2
  <2>4. CASE k[1] = "replays"
    BY <1>1, <2>4
  <2>5. QED
    BY <2>1, <2>2, <2>3, <2>4, KeyForms
<1>4. QED
  BY <1>2, <1>3 DEF HonestTable

\* Nothing is sealed in an empty table.
LEMMA EmptyFacts == \A r \in Records : Empty[<<"records", r>>] = Absent /\ Absent \notin RowValues
BY EventChainAssumption DEF Empty, Keys

\* It holds of every ledger that may be opened.
LEMMA InitIInv == Init => IInv
<1> SUFFICES ASSUME Init PROVE IInv
  OBVIOUS
<1>1. /\ published = <<>> /\ tampers = 0 /\ v = Idle /\ opener = [o \in Openers |-> Away]
      /\ bundle \in [Records -> {"kept", "lost", "archived"}]
      /\ version = 0 => old \in OldRecords
      /\ rows = Empty \/ (version \in 2 .. Current /\ rows \in OldRows)
      /\ IF version \in 7 .. Current THEN chain \in Backfilled(<<>>, rows) ELSE chain = <<>>
      /\ \A r \in Records : rows[<<"records", r>>] = "sealed" => bundle[r] = "archived"
  BY DEF Init
<1>2. HonestTable(rows)
  BY <1>1, OldRowsHonest, EmptyTable
<1>3. /\ Shaped(chain) /\ Linked(chain)
      /\ version \in 7 .. Current => Said(chain) = rows
      /\ \A i \in 1 .. Len(chain) :
           /\ chain[i].body # Malformed
           /\ Entry(chain[i]) => /\ chain[i].subject \in Records
                                 /\ rows[<<"records", chain[i].subject>>] # Absent
                                 /\ chain[i].body = rows[<<"records", chain[i].subject>>]
      /\ \A i, j \in 1 .. Len(chain) :
           Entry(chain[i]) /\ Entry(chain[j]) /\ chain[i].subject = chain[j].subject => i = j
  <2>1. CASE version \in 7 .. Current
    BY <1>1, <1>2, <2>1, BackfillFacts
  <2>2. CASE version \notin 7 .. Current
    BY <1>1, <2>2, EmptyShaped
  <2>3. QED
    BY <2>1, <2>2
<1>4. Len(chain) \in Nat /\ DOMAIN chain = 1 .. Len(chain)
  BY <1>3, ShapedFacts
<1>5. v = [pc |-> "idle", anchor |-> Absent, found |-> {}, said |-> Empty, moved |-> 0]
  BY <1>1 DEF Idle
<1>6. \A o \in Openers : opener[o] = [pc |-> "away", todo |-> {}, migrated |-> Empty]
  BY <1>1 DEF Away
<1>7. LogShapes
  BY <1>1, <1>2, <1>3, EmptyShaped DEF LogShapes, HonestTable
<1>8. OpenerShapes
  <2>1. opener = [o \in Openers |-> opener[o]]
    BY <1>1
  <2>2. ASSUME NEW o \in Openers
        PROVE  /\ opener[o] = [pc |-> opener[o].pc, todo |-> opener[o].todo, migrated |-> opener[o].migrated]
               /\ HonestTable(opener[o].migrated)
    BY <1>6, EmptyTable
  <2>3. QED
    BY <1>1, <2>1, <2>2 DEF OpenerShapes
<1>9. VerifierShape
  BY <1>5 DEF VerifierShape
<1>10. Phases
  BY <1>1, <1>6 DEF Phases, Migrating, Current
<1>11. VerifierKnows
  BY <1>5 DEF VerifierKnows, Compared
<1>12. Honest
  <2>1. IsPrefix(published, chain)
    BY <1>1, <1>3, EmptyShaped, PrefixByElements, ShapedFacts
  <2>2. QED
    BY <1>2, <1>3, <1>4, <1>5, <2>1 DEF Honest
<1>13. EnteredOnce
  BY <1>3, <1>4 DEF EnteredOnce
<1>14. SealedArchivedFirst
  BY <1>1, <1>6, EmptyFacts DEF SealedArchivedFirst, RowValues
<1>15. MigratedArchived
  BY <1>1, <1>3, <1>4 DEF MigratedArchived, Entry
<1>16. QED
  BY <1>7, <1>8, <1>9, <1>10, <1>11, <1>12, <1>13, <1>14, <1>15 DEF IInv

-----------------------------------------------------------------------------
(***************************************************************************)
(* Opening keeps it.                                                       *)
(***************************************************************************)
\* Nobody migrates unless the version is 0.
LEMMA NobodyMigrates == IInv /\ (~Locked \/ version # 0) => \A o \in Openers : ~Migrating(o)
BY DEF IInv, Phases, Locked, Migrating

\* A new file has no log and no rows.
LEMMA CreateSchemaKeeps ==
  ASSUME IInv, NEW o \in Openers, CreateSchema(o)
  PROVE  IInv'
<1>1. /\ version = NoTable /\ version' = Current /\ ~Locked
      /\ UNCHANGED <<chain, rows, published, tampers, v, old, bundle, opener>>
  BY DEF CreateSchema, chainVars
<1>2. chain = <<>> /\ rows = Empty
  BY <1>1 DEF IInv, Phases, Current, NoTable
<1>3. LogShapes' /\ OpenerShapes' /\ VerifierShape'
  BY <1>1 DEF IInv, LogShapes, OpenerShapes, VerifierShape
<1>4. Phases'
  <2>1. \A p \in Openers : ~Migrating(p)'
    BY <1>1, NobodyMigrates DEF Migrating
  <2>2. QED
    BY <1>1, <1>2, <2>1 DEF Phases, Current
<1>5. VerifierKnows'
  BY <1>1 DEF IInv, VerifierKnows
<1>6. Honest'
  <2>1. Said(chain) = rows
    BY <1>2, SaidEmpty
  <2>2. QED
    BY <1>1, <2>1 DEF IInv, Honest
<1>7. EnteredOnce'
  BY <1>1 DEF IInv, EnteredOnce
<1>8. SealedArchivedFirst'
  BY <1>1 DEF IInv, SealedArchivedFirst
<1>9. MigratedArchived'
  BY <1>1 DEF IInv, MigratedArchived
<1>10. QED
  BY <1>3, <1>4, <1>5, <1>6, <1>7, <1>8, <1>9 DEF IInv

\* The log that a migration starts, of honest tables whose sealed records are
\* archived.
LEMMA BackfillKeeps ==
  ASSUME IInv, version # Current, version' = Current, HonestTable(rows'),
         chain' \in Backfilled(<<>>, rows'),
         UNCHANGED <<published, tampers, v, bundle>>,
         \A r \in Records : rows'[<<"records", r>>] = "sealed" => bundle[r] = "archived"
  PROVE  LogShapes' /\ Honest' /\ EnteredOnce' /\ MigratedArchived' /\ VerifierShape' /\ VerifierKnows'
<1>1. v = Idle /\ published = <<>> /\ tampers = 0
  BY DEF IInv, Phases
<1>2. /\ Shaped(chain') /\ Linked(chain') /\ Said(chain') = rows'
      /\ \A i \in 1 .. Len(chain') :
           /\ chain'[i].body # Malformed
           /\ Entry(chain'[i]) => /\ chain'[i].subject \in Records
                                  /\ rows'[<<"records", chain'[i].subject>>] # Absent
                                  /\ chain'[i].body = rows'[<<"records", chain'[i].subject>>]
      /\ \A i, j \in 1 .. Len(chain') :
           Entry(chain'[i]) /\ Entry(chain'[j]) /\ chain'[i].subject = chain'[j].subject => i = j
  BY BackfillFacts
<1>3. DOMAIN chain' = 1 .. Len(chain')
  BY <1>2, ShapedFacts
<1>4. v' = [pc |-> "idle", anchor |-> Absent, found |-> {}, said |-> Empty, moved |-> 0]
  BY <1>1 DEF Idle
<1>5. LogShapes'
  BY <1>1, <1>2, EmptyShaped DEF IInv, LogShapes, HonestTable
<1>6. Honest'
  <2>1. IsPrefix(published', chain')
    BY <1>1, <1>2, EmptyShaped, PrefixByElements, ShapedFacts
  <2>2. \A i \in DOMAIN chain' : chain'[i].body # Malformed
    BY <1>2, <1>3
  <2>3. v'.found = {}
    BY <1>4
  <2>4. QED
    BY <1>2, <2>1, <2>2, <2>3 DEF Honest
<1>7. EnteredOnce'
  BY <1>2, <1>3 DEF EnteredOnce, Entry
<1>8. MigratedArchived'
  BY <1>2, <1>3 DEF MigratedArchived, Entry
<1>9. VerifierShape' /\ VerifierKnows'
  BY <1>4 DEF VerifierShape, VerifierKnows, Compared
<1>10. QED
  BY <1>5, <1>6, <1>7, <1>8, <1>9

\* Adding tables starts the log with what the others hold, unless there is one.
LEMMA AddTablesKeeps ==
  ASSUME IInv, NEW o \in Openers, AddTables(o)
  PROVE  IInv'
<1>1. /\ version \in 2 .. 7 /\ version' = Current /\ ~Locked
      /\ UNCHANGED <<rows, published, tampers, v, old, bundle, opener>>
      /\ version < 7 => chain' \in Backfilled(chain, rows)
      /\ version = 7 => chain' = chain
  BY DEF AddTables
<1>2. /\ HonestTable(rows)
      /\ version < 7 => chain = <<>>
      /\ version # Current /\ 7 \in 7 .. Current
      /\ v = Idle /\ published = <<>> /\ tampers = 0
  BY <1>1 DEF IInv, Phases, Honest, Current
<1>3. \A r \in Records : rows[<<"records", r>>] = "sealed" => bundle[r] = "archived"
  BY <1>2 DEF IInv, SealedArchivedFirst
<1>4. LogShapes' /\ Honest' /\ EnteredOnce' /\ MigratedArchived' /\ VerifierShape' /\ VerifierKnows'
  <2>1. CASE version = 7
    <3>1. LogShapes' /\ VerifierShape'
      BY <1>1, <2>1 DEF IInv, LogShapes, VerifierShape
    <3>2. Honest'
      BY <1>1, <1>2, <2>1 DEF IInv, Honest
    <3>3. EnteredOnce' /\ MigratedArchived'
      BY <1>1, <2>1 DEF IInv, EnteredOnce, MigratedArchived
    <3>4. VerifierKnows'
      BY <1>1, <2>1 DEF IInv, VerifierKnows
    <3>5. QED
      BY <3>1, <3>2, <3>3, <3>4
  <2>2. CASE version < 7
    BY <1>1, <1>2, <1>3, <2>2, BackfillKeeps
  <2>3. QED
    BY <1>1, <2>1, <2>2
<1>5. OpenerShapes'
  BY <1>1 DEF IInv, OpenerShapes
<1>6. Phases'
  <2>1. \A p \in Openers : ~Migrating(p)'
    BY <1>1, NobodyMigrates DEF Migrating
  <2>2. QED
    BY <1>1, <2>1 DEF Phases, Current
<1>7. SealedArchivedFirst'
  BY <1>1 DEF IInv, SealedArchivedFirst
<1>8. QED
  BY <1>4, <1>5, <1>6, <1>7 DEF IInv

\* While an opener migrates, nothing but it and the bundles changes.
LEMMA LogUntouched ==
  ASSUME IInv, UNCHANGED <<chain, rows, published, tampers, v, version>>
  PROVE  LogShapes' /\ Honest' /\ EnteredOnce' /\ VerifierShape' /\ VerifierKnows'
<1>1. LogShapes' /\ VerifierShape'
  BY DEF IInv, LogShapes, VerifierShape
<1>2. Honest'
  BY DEF IInv, Honest
<1>3. EnteredOnce'
  BY DEF IInv, EnteredOnce
<1>4. VerifierKnows'
  BY DEF IInv, VerifierKnows
<1>5. QED
  BY <1>1, <1>2, <1>3, <1>4

\* One opener's state is another one of the same shape.
LEMMA OpenerChanged ==
  ASSUME OpenerShapes, NEW o \in Openers, NEW x,
         x = [pc |-> x.pc, todo |-> x.todo, migrated |-> x.migrated], HonestTable(x.migrated),
         opener' = [opener EXCEPT ![o] = x]
  PROVE  /\ opener' = [p \in Openers |-> opener'[p]]
         /\ opener'[o] = x
         /\ \A p \in Openers : p # o => opener'[p] = opener[p]
         /\ \A p \in Openers :
              /\ opener'[p] = [pc |-> opener'[p].pc, todo |-> opener'[p].todo, migrated |-> opener'[p].migrated]
              /\ HonestTable(opener'[p].migrated)
<1>1. opener = [p \in Openers |-> opener[p]]
  BY DEF OpenerShapes
<1>2. opener' = [p \in Openers |-> opener'[p]]
  BY <1>1
<1>3. opener'[o] = x /\ \A p \in Openers : p # o => opener'[p] = opener[p]
  BY <1>1
<1>4. ASSUME NEW p \in Openers
      PROVE  /\ opener'[p] = [pc |-> opener'[p].pc, todo |-> opener'[p].todo, migrated |-> opener'[p].migrated]
             /\ HonestTable(opener'[p].migrated)
  <2>1. CASE p = o
    BY <1>3, <2>1
  <2>2. CASE p # o
    BY <1>3, <2>2 DEF OpenerShapes
  <2>3. QED
    BY <2>1, <2>2
<1>5. QED
  BY <1>2, <1>3, <1>4

\* The opener that has the lock starts on the rows.
LEMMA StartRowsKeeps ==
  ASSUME IInv, NEW o \in Openers, StartRows(o)
  PROVE  IInv'
<1> DEFINE x == [pc |-> "migrating", todo |-> DOMAIN old, migrated |-> Empty]
<1>1. /\ ~Locked /\ version = 0 /\ Representable
      /\ UNCHANGED <<chain, rows, published, tampers, v, version, old, bundle>>
      /\ opener' = [opener EXCEPT ![o] = x]
  <2> DEFINE a == [Away EXCEPT !.pc = "migrating"]
  <2>1. a = [pc |-> "migrating", todo |-> {}, migrated |-> Empty]
    BY DEF Away
  <2>2. [a EXCEPT !.todo = DOMAIN old] = x
    <3> HIDE DEF a
    <3>1. QED
      BY <2>1
  <2>3. [Away EXCEPT !.pc = "migrating", !.todo = DOMAIN old] = [a EXCEPT !.todo = DOMAIN old]
    OBVIOUS
  <2>4. QED
    BY <2>2, <2>3 DEF StartRows, chainVars
<1>2. /\ x.pc = "migrating" /\ x.todo = DOMAIN old /\ x.migrated = Empty
      /\ x = [pc |-> x.pc, todo |-> x.todo, migrated |-> x.migrated]
  OBVIOUS
<1> HIDE DEF x
<1>3. /\ opener' = [p \in Openers |-> opener'[p]]
      /\ opener'[o] = x
      /\ \A p \in Openers : p # o => opener'[p] = opener[p]
      /\ \A p \in Openers :
           /\ opener'[p] = [pc |-> opener'[p].pc, todo |-> opener'[p].todo, migrated |-> opener'[p].migrated]
           /\ HonestTable(opener'[p].migrated)
  BY <1>1, <1>2, EmptyTable, OpenerChanged DEF IInv
<1>4. LogShapes' /\ Honest' /\ EnteredOnce' /\ VerifierShape' /\ VerifierKnows'
  BY <1>1, LogUntouched
<1>5. OpenerShapes'
  BY <1>1, <1>3 DEF IInv, OpenerShapes
<1>6. Phases'
  <2>1. \A p \in Openers : Migrating(p)' => p = o
    BY <1>1, <1>3, NobodyMigrates DEF Migrating
  <2>2. Representable'
    BY <1>1 DEF Representable
  <2>3. opener'[o].todo \subseteq DOMAIN old'
    BY <1>1, <1>2, <1>3
  <2>4. QED
    BY <1>1, <2>1, <2>2, <2>3 DEF IInv, Phases
<1>7. SealedArchivedFirst'
  <2>1. \A p \in Openers, r \in Records :
          opener'[p].migrated[<<"records", r>>] = "sealed" => bundle'[r] = "archived"
    <3> TAKE p \in Openers, r \in Records
    <3>1. CASE p = o
      BY <1>2, <1>3, <3>1, EmptyFacts DEF RowValues
    <3>2. CASE p # o
      BY <1>1, <1>3, <3>2 DEF IInv, SealedArchivedFirst
    <3>3. QED
      BY <3>1, <3>2
  <2>2. QED
    BY <1>1, <2>1 DEF IInv, SealedArchivedFirst
<1>8. MigratedArchived'
  BY <1>1 DEF IInv, MigratedArchived
<1>9. QED
  BY <1>4, <1>5, <1>6, <1>7, <1>8 DEF IInv

\* A migration that dies leaves the ledger as it was.
LEMMA DieKeeps ==
  ASSUME IInv, NEW o \in Openers, Die(o)
  PROVE  IInv'
<1> DEFINE x == [pc |-> "away", todo |-> {}, migrated |-> Empty]
<1>1. /\ UNCHANGED <<chain, rows, published, tampers, v, version, old, bundle>>
      /\ opener' = [opener EXCEPT ![o] = x]
  BY DEF Die, chainVars, Away
<1>2. /\ x.pc = "away" /\ x.todo = {} /\ x.migrated = Empty
      /\ x = [pc |-> x.pc, todo |-> x.todo, migrated |-> x.migrated]
  OBVIOUS
<1> HIDE DEF x
<1>3. /\ opener' = [p \in Openers |-> opener'[p]]
      /\ opener'[o] = x
      /\ \A p \in Openers : p # o => opener'[p] = opener[p]
      /\ \A p \in Openers :
           /\ opener'[p] = [pc |-> opener'[p].pc, todo |-> opener'[p].todo, migrated |-> opener'[p].migrated]
           /\ HonestTable(opener'[p].migrated)
  BY <1>1, <1>2, EmptyTable, OpenerChanged DEF IInv
<1>4. LogShapes' /\ Honest' /\ EnteredOnce' /\ VerifierShape' /\ VerifierKnows'
  BY <1>1, LogUntouched
<1>5. OpenerShapes'
  BY <1>1, <1>3 DEF IInv, OpenerShapes
<1>6. Phases'
  <2>1. \A p \in Openers : Migrating(p)' => p # o /\ Migrating(p) /\ opener'[p] = opener[p]
    BY <1>2, <1>3 DEF Migrating
  <2>2. Representable' <=> Representable
    BY <1>1 DEF Representable
  <2>3. QED
    BY <1>1, <2>1, <2>2 DEF IInv, Phases
<1>7. SealedArchivedFirst'
  <2>1. \A p \in Openers, r \in Records :
          opener'[p].migrated[<<"records", r>>] = "sealed" => bundle'[r] = "archived"
    <3> TAKE p \in Openers, r \in Records
    <3>1. CASE p = o
      BY <1>2, <1>3, <3>1, EmptyFacts DEF RowValues
    <3>2. CASE p # o
      BY <1>1, <1>3, <3>2 DEF IInv, SealedArchivedFirst
    <3>3. QED
      BY <3>1, <3>2
  <2>2. QED
    BY <1>1, <2>1 DEF IInv, SealedArchivedFirst
<1>8. MigratedArchived'
  BY <1>1 DEF IInv, MigratedArchived
<1>9. QED
  BY <1>4, <1>5, <1>6, <1>7, <1>8 DEF IInv

\* A row is judged as one of the states a record may have, and sealed only with
\* its bundle in the archive.
LEMMA MigrateRowKeeps ==
  ASSUME IInv, NEW o \in Openers, NEW r \in Records, MigrateRow(o, r)
  PROVE  IInv'
<1> DEFINE key == <<"records", r>>
           y == [opener[o].migrated EXCEPT ![key] = Judged(r)]
           x == [pc |-> opener[o].pc, todo |-> opener[o].todo \ {r}, migrated |-> y]
<1>1. /\ Migrating(o) /\ r \in opener[o].todo
      /\ UNCHANGED <<chain, rows, published, tampers, v, version, old>>
      /\ opener' = [opener EXCEPT ![o].todo = @ \ {r}, ![o].migrated[key] = Judged(r)]
      /\ bundle' = [bundle EXCEPT ![r] = IF Judged(r) = "sealed" /\ @ = "kept" THEN "archived" ELSE @]
  BY DEF MigrateRow, Migrating, chainVars
<1>2. opener' = [opener EXCEPT ![o] = x]
  <2>1. opener = [p \in Openers |-> opener[p]]
        /\ opener[o] = [pc |-> opener[o].pc, todo |-> opener[o].todo, migrated |-> opener[o].migrated]
    BY DEF IInv, OpenerShapes
  <2> DEFINE todo == opener[o].todo \ {r}
  <2> DEFINE a == [opener[o] EXCEPT !.todo = todo]
  <2>2. [opener[o] EXCEPT !.todo = todo, !.migrated[key] = Judged(r)] = x
    <3>1. a = [pc |-> opener[o].pc, todo |-> todo, migrated |-> opener[o].migrated]
      BY <2>1
    <3>2. [a EXCEPT !.migrated = y] = x
      <4> HIDE DEF a, y
      <4>1. QED
        BY <3>1
    <3>3. a.migrated = opener[o].migrated
      BY <3>1
    <3>4. [opener[o] EXCEPT !.todo = todo, !.migrated[key] = Judged(r)]
            = [a EXCEPT !.migrated = [@ EXCEPT ![key] = Judged(r)]]
      OBVIOUS
    <3>5. QED
      BY <3>2, <3>3, <3>4
  <2>3. opener' = [opener EXCEPT ![o] = [opener[o] EXCEPT !.todo = todo, !.migrated[key] = Judged(r)]]
    BY <1>1, <2>1
  <2>4. QED
    BY <2>2, <2>3
<1>3. version = 0 /\ Representable /\ opener[o].todo \subseteq DOMAIN old /\ old \in OldRecords
  BY <1>1 DEF IInv, Phases
<1>4. Judged(r) \in RowValues /\ (Judged(r) = "sealed" => bundle'[r] = "archived")
  <2>1. old[r].state \in {"pending", "committed"}
    <3>1. PICK rs \in SUBSET Records : old \in [rs -> [run : Runs, state : {"pending", "committed", "unknown"}]]
      BY <1>3 DEF OldRecords
    <3>2. old[r] \in [run : Runs, state : {"pending", "committed", "unknown"}]
      BY <1>1, <1>3, <3>1
    <3>3. old[r].state # "unknown"
      BY <1>1, <1>3 DEF Representable
    <3>4. QED
      BY <3>2, <3>3
  <2>2. Judged(r) \in {"pending", "invalidated", "sealed"}
        /\ (Judged(r) = "sealed" => bundle[r] # "lost")
    BY <2>1 DEF Judged
  <2>3. bundle = [s \in Records |-> bundle[s]] /\ bundle[r] \in {"kept", "lost", "archived"}
    BY DEF IInv, OpenerShapes
  <2>4. Judged(r) = "sealed" => bundle'[r] = "archived"
    BY <1>1, <2>2, <2>3
  <2>5. QED
    BY <2>2, <2>4 DEF RowValues
<1>5. /\ bundle' = [s \in Records |-> bundle'[s]]
      /\ \A s \in Records : /\ bundle'[s] \in {"kept", "lost", "archived"}
                            /\ bundle[s] = "archived" => bundle'[s] = "archived"
  BY <1>1 DEF IInv, OpenerShapes
<1>6. /\ HonestTable(y) /\ y[key] = Judged(r)
      /\ \A s \in Records : s # r => y[<<"records", s>>] = opener[o].migrated[<<"records", s>>]
  <2>1. HonestTable(opener[o].migrated)
    BY DEF IInv, OpenerShapes
  <2>2. /\ key \in Keys /\ key[1] = "records"
        /\ \A s \in Records : <<"records", s>> \in Keys /\ (s # r => <<"records", s>> # key)
    BY DEF Keys
  <2> DEFINE m == opener[o].migrated
  <2> HIDE DEF key, m
  <2>3. y = [m EXCEPT ![key] = Judged(r)] /\ HonestTable(m)
    BY <2>1 DEF m
  <2> HIDE DEF y
  <2>4. IsTable(m) /\ IsTable(y) /\ y[key] = Judged(r) /\ \A k \in Keys : k # key => y[k] = m[k]
    BY <2>2, <2>3 DEF HonestTable, IsTable
  <2>5. ASSUME NEW k \in Keys
        PROVE  IF k[1] = "delivery_events" THEN y[k] \in Seq({"intent"}) ELSE y[k] \in RowValues \cup {Absent}
    <3>1. CASE k = key
      BY <1>4, <2>2, <2>4, <3>1
    <3>2. CASE k # key
      BY <2>3, <2>4, <3>2 DEF HonestTable
    <3>3. QED
      BY <3>1, <3>2
  <2>6. QED
    BY <2>2, <2>4, <2>5 DEF HonestTable, m
<1>7. /\ x.pc = opener[o].pc /\ x.todo = opener[o].todo \ {r} /\ x.migrated = y
      /\ x = [pc |-> x.pc, todo |-> x.todo, migrated |-> x.migrated]
  OBVIOUS
<1> HIDE DEF x, y
<1>8. /\ opener' = [p \in Openers |-> opener'[p]]
      /\ opener'[o] = x
      /\ \A p \in Openers : p # o => opener'[p] = opener[p]
      /\ \A p \in Openers :
           /\ opener'[p] = [pc |-> opener'[p].pc, todo |-> opener'[p].todo, migrated |-> opener'[p].migrated]
           /\ HonestTable(opener'[p].migrated)
  BY <1>2, <1>6, <1>7, OpenerChanged DEF IInv
<1>9. LogShapes' /\ Honest' /\ EnteredOnce' /\ VerifierShape' /\ VerifierKnows'
  BY <1>1, LogUntouched
<1>10. OpenerShapes'
  BY <1>5, <1>8 DEF OpenerShapes
<1>11. Phases'
  <2>1. \A p \in Openers : Migrating(p)' => Migrating(p) /\ opener'[p].todo \subseteq opener[p].todo
    BY <1>1, <1>7, <1>8 DEF Migrating
  <2>2. Representable' <=> Representable
    BY <1>1 DEF Representable
  <2>3. \A p \in Openers : Migrating(p)' => version' = 0 /\ opener'[p].todo \subseteq DOMAIN old' /\ Representable'
    BY <1>1, <2>1, <2>2 DEF IInv, Phases
  <2>4. QED
    BY <1>1, <2>1, <2>3 DEF IInv, Phases
<1>12. SealedArchivedFirst'
  <2>1. \A p \in Openers, s \in Records :
          opener'[p].migrated[<<"records", s>>] = "sealed" => bundle'[s] = "archived"
    <3> TAKE p \in Openers, s \in Records
    <3>1. CASE p = o /\ s = r
      BY <1>4, <1>6, <1>7, <1>8, <3>1
    <3>2. CASE p = o /\ s # r
      BY <1>5, <1>6, <1>7, <1>8, <3>2 DEF IInv, SealedArchivedFirst
    <3>3. CASE p # o
      BY <1>5, <1>8, <3>3 DEF IInv, SealedArchivedFirst
    <3>4. QED
      BY <3>1, <3>2, <3>3
  <2>2. \A s \in Records : version' # Current /\ rows'[<<"records", s>>] = "sealed" => bundle'[s] = "archived"
    BY <1>1, <1>5 DEF IInv, SealedArchivedFirst
  <2>3. QED
    BY <2>1, <2>2 DEF SealedArchivedFirst
<1>13. MigratedArchived'
  <2>1. version # Current /\ version \notin 7 .. Current
    BY <1>3 DEF Current
  <2>2. chain' = <<>>
    BY <1>1, <2>1 DEF IInv, Phases
  <2>3. QED
    BY <2>2 DEF MigratedArchived
<1>14. QED
  BY <1>9, <1>10, <1>11, <1>12, <1>13 DEF IInv

\* Replacing the table starts the log with the migrated rows.
LEMMA CommitRowsKeeps ==
  ASSUME IInv, NEW o \in Openers, CommitRows(o)
  PROVE  IInv'
<1> DEFINE x == [pc |-> "away", todo |-> {}, migrated |-> Empty]
<1>1. /\ Migrating(o) /\ version' = Current /\ rows' = opener[o].migrated
      /\ chain' \in Backfilled(chain, rows')
      /\ UNCHANGED <<published, tampers, v, bundle>>
      /\ opener' = [opener EXCEPT ![o] = x]
  BY DEF CommitRows, Migrating, Away
<1>2. /\ x.pc = "away" /\ x.todo = {} /\ x.migrated = Empty
      /\ x = [pc |-> x.pc, todo |-> x.todo, migrated |-> x.migrated]
  OBVIOUS
<1> HIDE DEF x
<1>3. version = 0 /\ version # Current /\ chain = <<>>
  <2>1. version = 0
    BY <1>1 DEF IInv, Phases
  <2>2. QED
    BY <2>1 DEF IInv, Phases, Current
<1>4. HonestTable(rows') /\ \A r \in Records : rows'[<<"records", r>>] = "sealed" => bundle[r] = "archived"
  BY <1>1 DEF IInv, OpenerShapes, SealedArchivedFirst
<1>5. LogShapes' /\ Honest' /\ EnteredOnce' /\ MigratedArchived' /\ VerifierShape' /\ VerifierKnows'
  BY <1>1, <1>3, <1>4, BackfillKeeps
<1>6. /\ opener' = [p \in Openers |-> opener'[p]]
      /\ opener'[o] = x
      /\ \A p \in Openers : p # o => opener'[p] = opener[p]
      /\ \A p \in Openers :
           /\ opener'[p] = [pc |-> opener'[p].pc, todo |-> opener'[p].todo, migrated |-> opener'[p].migrated]
           /\ HonestTable(opener'[p].migrated)
  BY <1>1, <1>2, EmptyTable, OpenerChanged DEF IInv
<1>7. OpenerShapes'
  BY <1>1, <1>6 DEF IInv, OpenerShapes
<1>8. Phases'
  <2>1. \A p \in Openers : ~Migrating(p)'
    BY <1>1, <1>2, <1>6 DEF IInv, Phases, Migrating
  <2>2. QED
    BY <1>1, <2>1 DEF Phases, Current
<1>9. SealedArchivedFirst'
  <2>1. \A p \in Openers, r \in Records :
          opener'[p].migrated[<<"records", r>>] = "sealed" => bundle'[r] = "archived"
    <3> TAKE p \in Openers, r \in Records
    <3>1. CASE p = o
      BY <1>2, <1>6, <3>1, EmptyFacts DEF RowValues
    <3>2. CASE p # o
      BY <1>1, <1>6, <3>2 DEF IInv, SealedArchivedFirst
    <3>3. QED
      BY <3>1, <3>2
  <2>2. QED
    BY <1>1, <2>1 DEF SealedArchivedFirst
<1>10. QED
  BY <1>5, <1>7, <1>8, <1>9 DEF IInv

\* A bundle that is lost was in no archive.
LEMMA LoseFilesKeeps ==
  ASSUME IInv, NEW r \in Records, LoseFiles(r)
  PROVE  IInv'
<1>1. /\ bundle[r] = "kept" /\ version = 0 /\ bundle' = [bundle EXCEPT ![r] = "lost"]
      /\ UNCHANGED <<chain, rows, published, tampers, v, version, old, opener>>
  BY DEF LoseFiles, chainVars
<1>2. /\ bundle' = [s \in Records |-> bundle'[s]]
      /\ \A s \in Records : /\ bundle'[s] \in {"kept", "lost", "archived"}
                            /\ bundle[s] = "archived" => bundle'[s] = "archived"
  BY <1>1 DEF IInv, OpenerShapes
<1>3. LogShapes' /\ Honest' /\ EnteredOnce' /\ VerifierShape' /\ VerifierKnows'
  BY <1>1, LogUntouched
<1>4. OpenerShapes'
  BY <1>1, <1>2 DEF IInv, OpenerShapes
<1>5. Phases'
  BY <1>1 DEF IInv, Phases, Migrating, Representable
<1>6. SealedArchivedFirst'
  BY <1>1, <1>2 DEF IInv, SealedArchivedFirst
<1>7. MigratedArchived'
  <2>1. chain' = <<>>
    BY <1>1 DEF IInv, Phases, Current
  <2>2. QED
    BY <2>1 DEF MigratedArchived
<1>8. QED
  BY <1>3, <1>4, <1>5, <1>6, <1>7 DEF IInv

-----------------------------------------------------------------------------
(***************************************************************************)
(* Writing keeps it.                                                       *)
(***************************************************************************)
\* A prefix of a log is one of the log with an event more.
LEMMA PrefixOfAppended ==
  ASSUME NEW p, NEW ch, Shaped(p), Shaped(ch), IsPrefix(p, ch), NEW kind, NEW subject, NEW body
  PROVE  IsPrefix(p, AppendEvent(ch, kind, subject, body))
<1> DEFINE new == AppendEvent(ch, kind, subject, body)
<1>1. Len(p) <= Len(ch) /\ \A i \in 1 .. Len(p) : ch[i] = p[i]
  BY PrefixElements
<1>2. Len(p) \in Nat /\ Len(ch) \in Nat
  BY ShapedFacts
<1>3. Shaped(new) /\ Len(new) = Len(ch) + 1 /\ \A i \in 1 .. Len(ch) : new[i] = ch[i]
  BY AppendEventFacts
<1> HIDE DEF new
<1>4. Len(p) <= Len(new) /\ \A i \in 1 .. Len(p) : new[i] = p[i]
  BY <1>1, <1>2, <1>3
<1>5. IsPrefix(p, new)
  BY <1>3, <1>4, PrefixByElements
<1>6. QED
  BY <1>5 DEF new

\* A transaction of a row, if there is one, and the event that says it.
LEMMA AppendKeeps ==
  ASSUME IInv, version = Current,
         NEW kind, NEW subject, NEW body,
         chain' = AppendEvent(chain, kind, subject, body), v' = Moved, IsTable(rows'),
         UNCHANGED <<published, tampers, version, old, bundle, opener>>,
         kind # "record.imported",
         tampers = 0 =>
           /\ HonestTable(rows') /\ body # Malformed
           /\ \A e : e.kind = kind /\ e.subject = subject /\ e.body = body => Apply(rows, e) = rows'
           /\ \A r \in Records : rows[<<"records", r>>] # Absent => rows'[<<"records", r>>] # Absent
           /\ kind = "record.created" => /\ subject \in Records
                                         /\ rows[<<"records", subject>>] = Absent
                                         /\ rows'[<<"records", subject>>] # Absent
  PROVE  IInv'
<1> DEFINE n == Len(chain) + 1
<1>1. Shaped(chain) /\ Shaped(published)
  BY DEF IInv, LogShapes
<1>2. Len(chain) \in Nat /\ DOMAIN chain = 1 .. Len(chain)
  BY <1>1, ShapedFacts
<1>3. /\ Shaped(chain') /\ Len(chain') = n /\ \A i \in 1 .. Len(chain) : chain'[i] = chain[i]
      /\ chain'[n].kind = kind /\ chain'[n].subject = subject /\ chain'[n].body = body
      /\ Linked(chain) => Linked(chain')
  BY <1>1, AppendEventFacts
<1>4. /\ DOMAIN chain' = 1 .. n
      /\ \A i \in 1 .. n : (i \in 1 .. Len(chain) /\ chain'[i] = chain[i]) \/ i = n
  BY <1>2, <1>3, ShapedFacts
<1>5. Said(chain') = Apply(Said(chain), chain'[n])
  BY <1>1, SaidAppended
<1>6. IsPrefix(published, chain) => IsPrefix(published', chain')
  BY <1>1, PrefixOfAppended
<1>7. \/ v.pc = "idle" /\ v' = v
      \/ /\ v.pc # "idle" /\ v' = [v EXCEPT !.moved = @ + 1]
  BY DEF Moved
<1>8. /\ v' = [pc |-> v.pc, anchor |-> v.anchor, found |-> v.found, said |-> v.said, moved |-> v'.moved]
      /\ v'.moved \in Nat /\ (v.pc # "idle" => v'.moved # 0)
  <2>1. v = [pc |-> v.pc, anchor |-> v.anchor, found |-> v.found, said |-> v.said, moved |-> v.moved]
        /\ v.moved \in Nat
    BY DEF IInv, VerifierShape
  <2>2. QED
    BY <1>7, <2>1
<1>9. v'.pc = v.pc /\ v'.anchor = v.anchor /\ v'.found = v.found
  BY <1>8
<1>10. LogShapes'
  BY <1>3 DEF IInv, LogShapes
<1>11. OpenerShapes'
  BY DEF IInv, OpenerShapes
<1>12. VerifierShape'
  BY <1>8, <1>9 DEF IInv, VerifierShape
<1>13. Phases'
  BY DEF IInv, Phases, Migrating, Representable, Current
<1>14. VerifierKnows'
  <2>1. v'.pc \in DOMAIN Compared => v'.moved # 0
    BY <1>8, <1>9 DEF Compared
  <2>2. v'.pc # "idle" /\ v'.anchor # Absent => published' # <<>>
    BY <1>9 DEF IInv, VerifierKnows
  <2>3. v'.pc # "idle" /\ v'.found = {} /\ v'.anchor # Absent /\ v'.anchor = Head_(published')
          => IsPrefix(published', chain')
    BY <1>6, <1>9 DEF IInv, VerifierKnows
  <2>4. QED
    BY <2>1, <2>2, <2>3 DEF VerifierKnows
<1>15. Honest'
  <2> SUFFICES ASSUME tampers = 0 PROVE Honest'
    BY DEF Honest
  <2>1. /\ Linked(chain) /\ IsPrefix(published, chain) /\ Said(chain) = rows
        /\ \A i \in DOMAIN chain : chain[i].body # Malformed
    BY DEF IInv, Honest, Current
  <2>2. Said(chain') = rows'
    BY <1>3, <1>5, <2>1
  <2>3. \A i \in DOMAIN chain' : chain'[i].body # Malformed
    BY <1>2, <1>3, <1>4, <2>1
  <2>4. v'.pc # "idle" => v'.moved # 0
    BY <1>8, <1>9
  <2>5. Linked(chain') /\ IsPrefix(published', chain')
    BY <1>3, <1>6, <2>1
  <2>6. QED
    BY <2>2, <2>3, <2>4, <2>5 DEF Honest
<1>16. EnteredOnce'
  <2> SUFFICES ASSUME tampers = 0 PROVE EnteredOnce'
    BY DEF EnteredOnce
  <2>1. /\ \A i \in DOMAIN chain :
             Entry(chain[i]) => /\ chain[i].subject \in Records
                                /\ rows[<<"records", chain[i].subject>>] # Absent
        /\ \A i, j \in DOMAIN chain :
             Entry(chain[i]) /\ Entry(chain[j]) /\ chain[i].subject = chain[j].subject => i = j
    BY DEF IInv, EnteredOnce
  <2>2. Entry(chain'[n]) => kind = "record.created"
    BY <1>3 DEF Entry
  <2>3. \A i \in 1 .. n : Entry(chain'[i]) => /\ chain'[i].subject \in Records
                                              /\ rows'[<<"records", chain'[i].subject>>] # Absent
    BY <1>2, <1>3, <1>4, <2>1, <2>2
  <2>4. ASSUME NEW i \in 1 .. n, NEW j \in 1 .. n,
               Entry(chain'[i]), Entry(chain'[j]), chain'[i].subject = chain'[j].subject
        PROVE  i = j
    <3>1. CASE i # n /\ j # n
      BY <1>2, <1>4, <2>1, <2>4, <3>1
    <3>2. ASSUME NEW k \in 1 .. n, k # n, Entry(chain'[k]), Entry(chain'[n]) PROVE chain'[k].subject # chain'[n].subject
      BY <1>2, <1>3, <1>4, <2>1, <2>2, <3>2
    <3>3. QED
      BY <2>4, <3>1, <3>2
  <2>5. QED
    BY <1>4, <2>3, <2>4 DEF EnteredOnce
<1>17. SealedArchivedFirst'
  BY DEF IInv, SealedArchivedFirst
<1>18. MigratedArchived'
  <2>1. \A i \in 1 .. n : chain'[i].kind = "record.imported" /\ chain'[i].body = "sealed"
                            => bundle[chain'[i].subject] = "archived"
    BY <1>2, <1>3, <1>4 DEF IInv, MigratedArchived
  <2>2. QED
    BY <1>4, <2>1 DEF MigratedArchived
<1>19. QED
  BY <1>10, <1>11, <1>12, <1>13, <1>14, <1>15, <1>16, <1>17, <1>18 DEF IInv

\* Putting an honest value into an honest table.
LEMMA PutHonest ==
  ASSUME NEW t, IsTable(t), NEW k \in Keys, NEW x
  PROVE  LET new == [t EXCEPT ![k] = x]
         IN  /\ IsTable(new) /\ new[k] = x /\ \A l \in Keys : l # k => new[l] = t[l]
             /\ HonestTable(t) /\ (IF k[1] = "delivery_events" THEN x \in Seq({"intent"})
                                   ELSE x \in RowValues \cup {Absent}) => HonestTable(new)
<1> DEFINE new == [t EXCEPT ![k] = x]
<1>1. IsTable(new) /\ new[k] = x /\ \A l \in Keys : l # k => new[l] = t[l]
  BY DEF IsTable
<1> HIDE DEF new
<1>2. ASSUME HonestTable(t), IF k[1] = "delivery_events" THEN x \in Seq({"intent"}) ELSE x \in RowValues \cup {Absent}
      PROVE  HonestTable(new)
  <2>1. ASSUME NEW l \in Keys
        PROVE  IF l[1] = "delivery_events" THEN new[l] \in Seq({"intent"}) ELSE new[l] \in RowValues \cup {Absent}
    <3>1. CASE l = k
      BY <1>1, <1>2, <3>1
    <3>2. CASE l # k
      BY <1>1, <1>2, <3>2 DEF HonestTable
    <3>3. QED
      BY <3>1, <3>2
  <2>2. QED
    BY <1>1, <2>1 DEF HonestTable
<1>3. QED
  BY <1>1, <1>2 DEF new

\* One of the transactions of a row: what has to be shown of it.
LEMMA CommitKeeps ==
  ASSUME IInv, version = Current, UNCHANGED <<version, old, bundle, opener>>,
         NEW key \in Keys, NEW row, NEW kind, NEW body,
         Commit(key, row, kind, body),
         kind # "record.imported",
         tampers = 0 =>
           /\ IF key[1] = "delivery_events" THEN row \in Seq({"intent"}) ELSE row \in RowValues
           /\ body # Malformed
           /\ \A e : e.kind = kind /\ e.subject = key[2] /\ e.body = body =>
                Apply(rows, e) = [rows EXCEPT ![key] = row]
           /\ kind = "record.created" => key[1] = "records" /\ rows[key] = Absent
  PROVE  IInv'
<1>1. /\ rows' = [rows EXCEPT ![key] = row]
      /\ chain' = AppendEvent(chain, kind, key[2], body)
      /\ v' = Moved /\ UNCHANGED <<published, tampers>>
  BY DEF Commit
<1>2. IsTable(rows') /\ rows'[key] = row /\ \A l \in Keys : l # key => rows'[l] = rows[l]
  <2>1. IsTable(rows)
    BY DEF IInv, LogShapes
  <2>2. QED
    BY <1>1, <2>1 DEF IsTable
<1>3. /\ key = <<key[1], key[2]>> /\ (key[1] = "records" => key[2] \in Records)
      /\ \A r \in Records : <<"records", r>> \in Keys
      /\ Absent \notin RowValues
  BY KeyForms, EventChainAssumption DEF Keys
<1>4. ASSUME tampers = 0
      PROVE  /\ HonestTable(rows')
             /\ \A r \in Records : rows[<<"records", r>>] # Absent => rows'[<<"records", r>>] # Absent
             /\ kind = "record.created" => /\ key[2] \in Records
                                           /\ rows[<<"records", key[2]>>] = Absent
                                           /\ rows'[<<"records", key[2]>>] # Absent
  <2>1. HonestTable(rows)
    BY <1>4 DEF IInv, Honest
  <2>2. HonestTable(rows')
    <3>1. IF key[1] = "delivery_events" THEN row \in Seq({"intent"}) ELSE row \in RowValues \cup {Absent}
      BY <1>4
    <3>2. IsTable(rows)
      BY DEF IInv, LogShapes
    <3>3. QED
      BY <1>1, <2>1, <3>1, <3>2, PutHonest
  <2>3. key[1] = "records" => row # Absent
    BY <1>3, <1>4
  <2>4. \A r \in Records : rows[<<"records", r>>] # Absent => rows'[<<"records", r>>] # Absent
    BY <1>2, <1>3, <2>3
  <2>5. kind = "record.created" => /\ key[2] \in Records
                                   /\ rows[<<"records", key[2]>>] = Absent
                                   /\ rows'[<<"records", key[2]>>] # Absent
    BY <1>2, <1>3, <1>4, <2>3
  <2>6. QED
    BY <2>2, <2>4, <2>5
<1>5. QED
  BY <1>1, <1>2, <1>4, AppendKeeps

\* Every writer commits the row that its event says.
LEMMA WriteKeeps ==
  ASSUME IInv, version = Current, UNCHANGED <<version, old, bundle, opener>>, Write
  PROVE  IInv'
<1>0. /\ \A r \in Records : <<"records", r>> \in Keys
      /\ \A d \in Deliveries : <<"deliveries", d>> \in Keys /\ <<"delivery_events", d>> \in Keys
      /\ \A y \in Replays : <<"replays", y>> \in Keys
  BY DEF Keys
<1>1. Malformed \notin RowValues /\ Absent \notin RowValues
  BY EventChainAssumption
<1>2. ASSUME NEW r \in Records, CreateRecord(r) PROVE IInv'
  <2> DEFINE key == <<"records", r>>
  <2>1. rows[key] = Absent /\ Commit(key, "pending", "record.created", "pending")
    BY <1>2 DEF CreateRecord
  <2>2. key \in Keys /\ key[1] = "records" /\ key[2] = r
    BY <1>0
  <2>3. \A e : e.kind = "record.created" /\ e.subject = key[2] /\ e.body = "pending" =>
          Apply(rows, e) = [rows EXCEPT ![key] = "pending"]
    <3> SUFFICES ASSUME NEW e, e.kind = "record.created", e.subject = r, e.body = "pending"
                 PROVE  Apply(rows, e) = [rows EXCEPT ![key] = "pending"]
      BY <2>2
    <3>1. e.body # Malformed
      BY <1>1 DEF RowValues
    <3>2. Apply(rows, e) = [rows EXCEPT ![<<"records", e.subject>>] = e.body]
      BY <3>1, ApplyForms
    <3>3. QED
      BY <3>2
  <2> HIDE DEF key
  <2>4. QED
    BY <1>1, <2>1, <2>2, <2>3, CommitKeeps DEF RowValues
<1>3. ASSUME NEW r \in Records, NEW state \in Transitions, ChangeRecord(r, state) PROVE IInv'
  <2> DEFINE key == <<"records", r>>
  <2>1. rows[key] \in {"pending", "sealed"} /\ Commit(key, state, "record.changed", state)
    BY <1>3 DEF ChangeRecord
  <2>2. key \in Keys /\ key[1] = "records" /\ key[2] = r /\ state \in RowValues
    BY <1>0 DEF Transitions, RowValues
  <2>3. \A e : e.kind = "record.changed" /\ e.subject = key[2] /\ e.body = state =>
          Apply(rows, e) = [rows EXCEPT ![key] = state]
    <3> SUFFICES ASSUME NEW e, e.kind = "record.changed", e.subject = r, e.body = state
                 PROVE  Apply(rows, e) = [rows EXCEPT ![key] = state]
      BY <2>2
    <3>1. e.body # Malformed /\ rows[<<"records", e.subject>>] # Absent
      BY <1>1, <2>1, <2>2 DEF RowValues
    <3>2. Apply(rows, e) = [rows EXCEPT ![<<"records", e.subject>>] =
                              IF @ = Absent THEN @ ELSE e.body]
      BY <3>1, ApplyForms
    <3>3. QED
      BY <3>1, <3>2
  <2> HIDE DEF key
  <2>4. QED
    BY <1>1, <2>1, <2>2, <2>3, CommitKeeps
<1>4. ASSUME NEW d \in Deliveries, OpenDelivery(d) PROVE IInv'
  <2> DEFINE key == <<"deliveries", d>>
  <2>1. Commit(key, "opened", "delivery.opened", "opened")
    BY <1>4 DEF OpenDelivery
  <2>2. key \in Keys /\ key[1] = "deliveries" /\ key[2] = d
    BY <1>0
  <2>3. \A e : e.kind = "delivery.opened" /\ e.subject = key[2] /\ e.body = "opened" =>
          Apply(rows, e) = [rows EXCEPT ![key] = "opened"]
    <3> SUFFICES ASSUME NEW e, e.kind = "delivery.opened", e.subject = d, e.body = "opened"
                 PROVE  Apply(rows, e) = [rows EXCEPT ![key] = "opened"]
      BY <2>2
    <3>1. e.body # Malformed
      BY <1>1 DEF RowValues
    <3>2. Apply(rows, e) = [rows EXCEPT ![<<"deliveries", e.subject>>] = e.body]
      BY <3>1, ApplyForms
    <3>3. QED
      BY <3>2
  <2> HIDE DEF key
  <2>4. QED
    BY <1>1, <2>1, <2>2, <2>3, CommitKeeps DEF RowValues
<1>5. ASSUME NEW d \in Deliveries, LogDelivery(d) PROVE IInv'
  <2> DEFINE key == <<"delivery_events", d>>
  <2>1. Commit(key, Append(rows[key], "intent"), "delivery.event", "intent")
    BY <1>5 DEF LogDelivery
  <2>2. key \in Keys /\ key[1] = "delivery_events" /\ key[2] = d
    BY <1>0
  <2>3. \A e : e.kind = "delivery.event" /\ e.subject = key[2] /\ e.body = "intent" =>
          Apply(rows, e) = [rows EXCEPT ![key] = Append(rows[key], "intent")]
    BY <1>1, <2>2, ApplyForms DEF RowValues
  <2> HIDE DEF key
  <2>4. tampers = 0 => Append(rows[key], "intent") \in Seq({"intent"})
    <3>1. tampers = 0 => rows[key] \in Seq({"intent"})
      BY <2>2 DEF IInv, Honest, HonestTable
    <3>2. QED
      BY <3>1
  <2>5. QED
    BY <1>1, <2>1, <2>2, <2>3, <2>4, CommitKeeps DEF RowValues
<1>6. ASSUME NEW y \in Replays, LogReplay(y) PROVE IInv'
  <2> DEFINE key == <<"replays", y>>
  <2>1. Commit(key, "diverged", "replay.logged", "diverged")
    BY <1>6 DEF LogReplay
  <2>2. key \in Keys /\ key[1] = "replays" /\ key[2] = y
    BY <1>0
  <2>3. \A e : e.kind = "replay.logged" /\ e.subject = key[2] /\ e.body = "diverged" =>
          Apply(rows, e) = [rows EXCEPT ![key] = "diverged"]
    <3> SUFFICES ASSUME NEW e, e.kind = "replay.logged", e.subject = y, e.body = "diverged"
                 PROVE  Apply(rows, e) = [rows EXCEPT ![key] = "diverged"]
      BY <2>2
    <3>1. e.body # Malformed
      BY <1>1 DEF RowValues
    <3>2. Apply(rows, e) = [rows EXCEPT ![<<"replays", e.subject>>] = e.body]
      BY <3>1, ApplyForms
    <3>3. QED
      BY <3>2
  <2> HIDE DEF key
  <2>4. QED
    BY <1>1, <2>1, <2>2, <2>3, CommitKeeps DEF RowValues
<1>7. ASSUME SignOff PROVE IInv'
  <2>1. /\ chain' = AppendEvent(chain, "verification.signed_off", "corpus", "signed")
        /\ v' = Moved /\ UNCHANGED <<rows, published, tampers>>
    BY <1>7 DEF SignOff
  <2>2. \A e : e.kind = "verification.signed_off" /\ e.subject = "corpus" /\ e.body = "signed" =>
          Apply(rows, e) = rows
    BY <1>1, ApplyForms DEF RowValues
  <2>3. IsTable(rows) /\ (tampers = 0 => HonestTable(rows))
    BY DEF IInv, LogShapes, Honest
  <2>4. QED
    BY <1>1, <2>1, <2>2, <2>3, AppendKeeps DEF RowValues
<1>8. QED
  BY <1>2, <1>3, <1>4, <1>5, <1>6, <1>7 DEF Write

-----------------------------------------------------------------------------
(***************************************************************************)
(* Editing, publishing and verifying keep it.                              *)
(***************************************************************************)
\* The two ways to change an event: its body, or its hash with it.
WithBody(ch, i, b) == [ch EXCEPT ![i].body = b]
Rehashed(ch, i, b, h) == [ch EXCEPT ![i].body = b, ![i].hash = h]

\* The same events, but for a body that has become b.
SameBut(new, ch, b) ==
  /\ Shaped(new) /\ Len(new) = Len(ch)
  /\ \A j \in 1 .. Len(ch) :
       /\ new[j].kind = ch[j].kind /\ new[j].subject = ch[j].subject
       /\ new[j].body = b \/ new[j].body = ch[j].body

\* What somebody can make of a log by changing an event.
LEMMA EditedShaped ==
  ASSUME NEW ch, Shaped(ch), NEW i \in DOMAIN ch, NEW b, NEW h, NEW new,
         new = WithBody(ch, i, b) \/ new = Rehashed(ch, i, b, h)
  PROVE  SameBut(new, ch, b)
<1>1. PICK H : ch \in Seq(Events(H))
  BY DEF Shaped
<1> DEFINE G == H \cup {b, h}
<1>2. /\ Len(ch) \in Nat /\ DOMAIN ch = 1 .. Len(ch) /\ ch = [j \in 1 .. Len(ch) |-> ch[j]]
      /\ \A j \in 1 .. Len(ch) : ch[j] \in Events(H)
  BY <1>1
<1>3. \A j \in 1 .. Len(ch) : ch[j] \in Events(G)
  BY <1>2 DEF Events
<1> DEFINE one == [ch[i] EXCEPT !.body = b]
           two == [ch[i] EXCEPT !.body = b, !.hash = h]
<1>4. /\ one \in Events(G) /\ two \in Events(G)
      /\ one.kind = ch[i].kind /\ one.subject = ch[i].subject /\ one.body = b
      /\ two.kind = ch[i].kind /\ two.subject = ch[i].subject /\ two.body = b
  BY <1>2, <1>3 DEF Events
<1>5. new = [ch EXCEPT ![i] = one] \/ new = [ch EXCEPT ![i] = two]
  BY <1>2 DEF WithBody, Rehashed
<1> HIDE DEF one, two, G
<1>6. PICK e : /\ e \in Events(G) /\ e.kind = ch[i].kind /\ e.subject = ch[i].subject /\ e.body = b
               /\ new = [ch EXCEPT ![i] = e]
  BY <1>4, <1>5
<1>7. /\ new = [j \in 1 .. Len(ch) |-> IF j = i THEN e ELSE ch[j]]
      /\ \A j \in 1 .. Len(ch) : new[j] \in Events(G)
  BY <1>2, <1>3, <1>6
<1>8. new \in Seq(Events(G)) /\ Len(new) = Len(ch)
  BY <1>2, <1>7
<1>9. Shaped(new)
  BY <1>8 DEF Shaped
<1>10. QED
  BY <1>2, <1>6, <1>7, <1>8, <1>9 DEF SameBut

\* A log without one of its events.
LEMMA RemovedShaped ==
  ASSUME NEW ch, Shaped(ch), NEW i \in DOMAIN ch
  PROVE  LET new == RemoveAt(ch, i)
         IN  /\ Shaped(new) /\ Len(new) = Len(ch) - 1
             /\ \A j \in 1 .. Len(new) : \E k \in 1 .. Len(ch) : new[j] = ch[k]
<1>1. PICK H : ch \in Seq(Events(H))
  BY DEF Shaped
<1> DEFINE new == RemoveAt(ch, i)
           E == Events(H)
<1> HIDE DEF E
<1>2. /\ Len(ch) \in Nat /\ i \in 1 .. Len(ch)
      /\ \A j \in 1 .. Len(ch) : ch[j] \in E
  BY <1>1 DEF E
<1> DEFINE A == SubSeq(ch, 1, i - 1)
           B == SubSeq(ch, i + 1, Len(ch))
<1>3. new = A \o B
  BY DEF RemoveAt
<1>4. A \in Seq(E) /\ B \in Seq(E) /\ Len(A) = i - 1 /\ Len(B) = Len(ch) - i
  BY <1>1, <1>2 DEF E
<1>5. /\ \A j \in 1 .. Len(A) : A[j] = ch[j]
      /\ \A j \in 1 .. Len(B) : B[j] = ch[j + i]
  BY <1>1, <1>2, <1>4 DEF E
<1> HIDE DEF A, B, new
<1>6. /\ new \in Seq(E) /\ Len(new) = Len(A) + Len(B)
      /\ \A j \in 1 .. Len(new) : IF j <= Len(A) THEN new[j] = A[j]
                                   ELSE j - Len(A) \in 1 .. Len(B) /\ new[j] = B[j - Len(A)]
  BY <1>3, <1>4
<1>7. ASSUME NEW j \in 1 .. Len(new) PROVE \E k \in 1 .. Len(ch) : new[j] = ch[k]
  <2>1. CASE j <= Len(A)
    <3>1. j \in 1 .. Len(A) /\ j \in 1 .. Len(ch)
      BY <1>2, <1>4, <2>1
    <3>2. QED
      BY <1>5, <1>6, <2>1, <3>1
  <2>2. CASE ~(j <= Len(A))
    <3>1. j - Len(A) \in 1 .. Len(B) /\ new[j] = B[j - Len(A)]
      BY <1>6, <2>2
    <3>2. PICK k \in 1 .. Len(B) : k = j - Len(A)
      BY <3>1
    <3>3. B[k] = ch[k + i]
      BY <1>5
    <3>4. Len(B) = Len(ch) - i /\ Len(ch) \in Nat /\ i \in 1 .. Len(ch)
      BY <1>2, <1>4
    <3>5. k + i \in 1 .. Len(ch)
      BY <3>4
    <3>6. QED
      BY <3>1, <3>2, <3>3, <3>5
  <2>3. QED
    BY <2>1, <2>2
<1>8. Len(new) = Len(ch) - 1
  BY <1>2, <1>4, <1>6
<1>9. QED
  BY <1>6, <1>7, <1>8 DEF Shaped, E, new

\* No edit makes an event say that a record was imported as sealed: the body is
\* forged, or one that was there.
NoNewSeal(ch) ==
  \A j \in DOMAIN ch :
    ch[j].kind = "record.imported" /\ ch[j].body = "sealed" =>
      \E i \in DOMAIN chain : /\ chain[i].kind = "record.imported" /\ chain[i].body = "sealed"
                              /\ chain[i].subject = ch[j].subject

\* The edits of an event, by those names.
LEMMA EditedForms ==
  EditedChains =
    {WithBody(chain, i, b) : i \in DOMAIN chain, b \in {Forged, Malformed}}
      \cup {RemoveAt(chain, i) : i \in DOMAIN chain}
      \cup {Rehashed(chain, i, Forged, Hash([chain[i] EXCEPT !.body = Forged])) : i \in DOMAIN chain}
BY DEF EditedChains, WithBody, Rehashed

\* An edited log has its shape, and says no new seal.
LEMMA EditedFacts ==
  ASSUME Shaped(chain), NEW ch \in EditedChains \cup {chain}
  PROVE  Shaped(ch) /\ NoNewSeal(ch)
<1>1. Len(chain) \in Nat /\ DOMAIN chain = 1 .. Len(chain)
  BY ShapedFacts
<1>2. Forged # "sealed" /\ Malformed # "sealed"
  BY EventChainAssumption DEF RowValues
<1>3. CASE ch = chain
  BY <1>3 DEF NoNewSeal
<1>4. ASSUME NEW b \in {Forged, Malformed}, SameBut(ch, chain, b)
      PROVE  Shaped(ch) /\ NoNewSeal(ch)
  <2>1. DOMAIN ch = DOMAIN chain
    BY <1>1, <1>4, ShapedFacts DEF SameBut
  <2>2. QED
    BY <1>1, <1>2, <1>4, <2>1 DEF NoNewSeal, SameBut
<1>5. ASSUME NEW i \in DOMAIN chain, NEW b \in {Forged, Malformed}, NEW h,
             ch = WithBody(chain, i, b) \/ ch = Rehashed(chain, i, b, h)
      PROVE  Shaped(ch) /\ NoNewSeal(ch)
  BY <1>4, <1>5, EditedShaped
<1>6. ASSUME NEW i \in DOMAIN chain, ch = RemoveAt(chain, i)
      PROVE  Shaped(ch) /\ NoNewSeal(ch)
  <2>1. /\ Shaped(ch) /\ \A j \in 1 .. Len(ch) : \E k \in 1 .. Len(chain) : ch[j] = chain[k]
    BY <1>6, RemovedShaped
  <2>2. DOMAIN ch = 1 .. Len(ch)
    BY <2>1, ShapedFacts
  <2>3. QED
    BY <1>1, <2>1, <2>2 DEF NoNewSeal
<1> DEFINE X == {WithBody(chain, i, b) : i \in DOMAIN chain, b \in {Forged, Malformed}}
           Y == {RemoveAt(chain, i) : i \in DOMAIN chain}
           Z == {Rehashed(chain, i, Forged, Hash([chain[i] EXCEPT !.body = Forged])) : i \in DOMAIN chain}
<1>7. CASE ch \in X
  BY <1>5, <1>7
<1>8. CASE ch \in Y
  BY <1>6, <1>8
<1>9. CASE ch \in Z
  <2>1. PICK i \in DOMAIN chain : \E h : ch = Rehashed(chain, i, Forged, h)
    BY <1>9
  <2>2. QED
    BY <1>5, <2>1
<1>10. EditedChains = X \cup Y \cup Z
  BY EditedForms
<1> HIDE DEF X, Y, Z
<1>11. QED
  BY <1>3, <1>7, <1>8, <1>9, <1>10

\* Computing every hash anew does not, either.
LEMMA RelinkedSeals ==
  ASSUME NEW ch, Shaped(ch), NoNewSeal(ch)
  PROVE  Shaped(Relinked(ch)) /\ NoNewSeal(Relinked(ch))
<1> DEFINE new == Relinked(ch)
<1>1. /\ Shaped(new) /\ Len(new) = Len(ch)
      /\ \A j \in 1 .. Len(ch) : /\ new[j].kind = ch[j].kind
                                 /\ new[j].subject = ch[j].subject
                                 /\ new[j].body = ch[j].body
  BY RelinkedFacts
<1> HIDE DEF new
<1>2. DOMAIN new = 1 .. Len(ch) /\ DOMAIN ch = 1 .. Len(ch)
  BY <1>1, ShapedFacts
<1>3. NoNewSeal(new)
  BY <1>1, <1>2 DEF NoNewSeal
<1>4. QED
  BY <1>1, <1>3 DEF new

\* An edit leaves a chain of events and a table, and says no more seals.
LEMMA TamperKeeps ==
  ASSUME IInv, version = Current, UNCHANGED <<version, old, bundle, opener>>, Tamper
  PROVE  IInv'
<1>1. /\ v.pc = "idle" /\ tampers' = tampers + 1 /\ UNCHANGED <<published, v>>
      /\ \/ rows' \in EditedRows /\ chain' = chain
         \/ chain' \in EditedChains /\ rows' = rows
         \/ /\ \E ch \in EditedChains \cup {chain} : chain' = Relinked(ch)
            /\ rows' \in {rows, Said(chain')}
  BY DEF Tamper
<1>2. Shaped(chain) /\ IsTable(rows) /\ tampers \in Nat
  BY DEF IInv, LogShapes
<1>3. Shaped(chain') /\ NoNewSeal(chain')
  <2>1. \A ch \in EditedChains \cup {chain} : Shaped(ch) /\ NoNewSeal(ch)
    BY <1>2, EditedFacts
  <2>2. \A ch \in EditedChains \cup {chain} : Shaped(Relinked(ch)) /\ NoNewSeal(Relinked(ch))
    BY <2>1, RelinkedSeals
  <2>3. QED
    BY <1>1, <2>1, <2>2
<1>4. IsTable(rows')
  <2>1. CASE rows' \in EditedRows
    BY <1>2, <2>1 DEF EditedRows, IsTable
  <2>2. CASE rows' = Said(chain')
    BY <1>3, <2>2, SaidTable
  <2>3. QED
    BY <1>1, <1>2, <2>1, <2>2
<1>5. tampers' \in Nat /\ tampers' # 0
  BY <1>1, <1>2
<1>6. LogShapes'
  BY <1>1, <1>3, <1>4, <1>5 DEF IInv, LogShapes
<1>7. OpenerShapes' /\ VerifierShape'
  BY <1>1 DEF IInv, OpenerShapes, VerifierShape
<1>8. Phases'
  BY DEF IInv, Phases, Migrating, Representable, Current
<1>9. VerifierKnows'
  BY <1>1 DEF VerifierKnows, Compared
<1>10. Honest' /\ EnteredOnce'
  BY <1>5 DEF Honest, EnteredOnce
<1>11. SealedArchivedFirst'
  BY DEF IInv, SealedArchivedFirst
<1>12. MigratedArchived'
  BY <1>3 DEF IInv, MigratedArchived, NoNewSeal
<1>13. QED
  BY <1>6, <1>7, <1>8, <1>9, <1>10, <1>11, <1>12 DEF IInv

\* What is published is the log as it was written.
LEMMA PublishKeeps ==
  ASSUME IInv, version = Current, UNCHANGED <<version, old, bundle, opener>>, Publish
  PROVE  IInv'
<1>1. /\ tampers = 0 /\ chain # <<>> /\ published = <<>> /\ published' = chain
      /\ UNCHANGED <<chain, rows, tampers, v>>
  BY DEF Publish
<1>2. Shaped(chain) /\ Linked(chain)
  BY <1>1 DEF IInv, LogShapes, Honest
<1>3. IsPrefix(chain, chain)
  BY <1>2, PrefixByElements, ShapedFacts
<1>4. LogShapes'
  BY <1>1, <1>2 DEF IInv, LogShapes
<1>5. OpenerShapes' /\ VerifierShape'
  BY <1>1 DEF IInv, OpenerShapes, VerifierShape
<1>6. Phases'
  BY DEF IInv, Phases, Migrating, Representable, Current
<1>7. VerifierKnows'
  BY <1>1 DEF IInv, VerifierKnows
<1>8. Honest'
  BY <1>1, <1>3 DEF IInv, Honest
<1>9. EnteredOnce' /\ SealedArchivedFirst' /\ MigratedArchived'
  BY <1>1 DEF IInv, EnteredOnce, SealedArchivedFirst, MigratedArchived
<1>10. QED
  BY <1>4, <1>5, <1>6, <1>7, <1>8, <1>9 DEF IInv

\* What a step makes of the verifier's state.
LEMMA VerifierSet ==
  ASSUME NEW w, w = [pc |-> w.pc, anchor |-> w.anchor, found |-> w.found, said |-> w.said, moved |-> w.moved],
         NEW p, NEW x, NEW f
  PROVE  /\ [w EXCEPT !.pc = p, !.anchor = x, !.found = f]
              = [pc |-> p, anchor |-> x, found |-> f, said |-> w.said, moved |-> w.moved]
         /\ [w EXCEPT !.pc = p, !.said = x, !.found = f]
              = [pc |-> p, anchor |-> w.anchor, found |-> f, said |-> x, moved |-> w.moved]
         /\ [w EXCEPT !.pc = p, !.found = f]
              = [pc |-> p, anchor |-> w.anchor, found |-> f, said |-> w.said, moved |-> w.moved]
<1> DEFINE a == [w EXCEPT !.pc = p]
<1>1. a = [pc |-> p, anchor |-> w.anchor, found |-> w.found, said |-> w.said, moved |-> w.moved]
  OBVIOUS
<1>2. /\ [w EXCEPT !.pc = p, !.anchor = x, !.found = f] = [[a EXCEPT !.anchor = x] EXCEPT !.found = f]
      /\ [w EXCEPT !.pc = p, !.said = x, !.found = f] = [[a EXCEPT !.said = x] EXCEPT !.found = f]
      /\ [w EXCEPT !.pc = p, !.found = f] = [a EXCEPT !.found = f]
  OBVIOUS
<1> DEFINE b == [a EXCEPT !.anchor = x]
           c == [a EXCEPT !.said = x]
<1> HIDE DEF a
<1>3. b = [pc |-> p, anchor |-> x, found |-> w.found, said |-> w.said, moved |-> w.moved]
  BY <1>1
<1>4. c = [pc |-> p, anchor |-> w.anchor, found |-> w.found, said |-> x, moved |-> w.moved]
  BY <1>1
<1>5. [a EXCEPT !.found = f]
        = [pc |-> p, anchor |-> w.anchor, found |-> f, said |-> w.said, moved |-> w.moved]
  BY <1>1
<1> HIDE DEF b, c
<1>6. [b EXCEPT !.found = f] = [pc |-> p, anchor |-> x, found |-> f, said |-> w.said, moved |-> w.moved]
  BY <1>3
<1>7. [c EXCEPT !.found = f] = [pc |-> p, anchor |-> w.anchor, found |-> f, said |-> x, moved |-> w.moved]
  BY <1>4
<1>8. QED
  BY <1>2, <1>5, <1>6, <1>7 DEF b, c

\* A step of the verifier touches nothing but the verifier.
LEMMA VerifierOnly ==
  ASSUME IInv, version = Current, UNCHANGED <<chain, rows, published, tampers, version, old, bundle, opener>>,
         VerifierShape', VerifierKnows',
         tampers = 0 /\ v'.pc # "idle" /\ v'.moved = 0 => v'.found = {}
  PROVE  IInv'
<1>1. LogShapes' /\ OpenerShapes'
  BY DEF IInv, LogShapes, OpenerShapes
<1>2. Phases'
  BY DEF IInv, Phases, Migrating, Representable, Current
<1>3. Honest'
  BY DEF IInv, Honest
<1>4. EnteredOnce' /\ SealedArchivedFirst' /\ MigratedArchived'
  BY DEF IInv, EnteredOnce, SealedArchivedFirst, MigratedArchived
<1>5. QED
  BY <1>1, <1>2, <1>3, <1>4 DEF IInv

\* Reading the chain: an honest one has no problem, and one without has the anchored one in it.
LEMMA StartVerifyKeeps ==
  ASSUME IInv, version = Current, UNCHANGED <<version, old, bundle, opener>>, StartVerify
  PROVE  IInv'
<1>1. PICK anchor \in {Absent, Head_(published)} :
        v' = [Idle EXCEPT !.pc = "fold", !.anchor = anchor, !.found = ChainProblems(chain, anchor)]
  BY DEF StartVerify
<1>2. v' = [pc |-> "fold", anchor |-> anchor, found |-> ChainProblems(chain, anchor), said |-> Empty, moved |-> 0]
  <2>1. /\ Idle = [pc |-> Idle.pc, anchor |-> Idle.anchor, found |-> Idle.found, said |-> Idle.said,
                   moved |-> Idle.moved]
        /\ Idle.said = Empty /\ Idle.moved = 0
    BY DEF Idle
  <2> HIDE DEF Idle
  <2>2. QED
    BY <1>1, <2>1, VerifierSet
<1>3. UNCHANGED <<chain, rows, published, tampers>>
  BY DEF StartVerify
<1>4. /\ v'.pc = "fold" /\ v'.anchor = anchor /\ v'.found = ChainProblems(chain, anchor)
      /\ v'.said = Empty /\ v'.moved = 0
  BY <1>2
<1>5. VerifierShape'
  BY <1>2, <1>4 DEF VerifierShape
<1>6. Shaped(chain) /\ Shaped(published) /\ Linked(published)
  BY DEF IInv, LogShapes
<1>7. anchor # Absent => anchor = Head_(published) /\ published # <<>>
  BY DEF Head_
<1>8. ChainProblems(chain, anchor) = {} /\ anchor # Absent => IsPrefix(published, chain)
  BY <1>6, <1>7, AnchoredPrefix
<1>9. VerifierKnows'
  BY <1>3, <1>4, <1>7, <1>8 DEF VerifierKnows, Compared
<1>10. tampers = 0 => ChainProblems(chain, anchor) = {}
  BY <1>6, HonestChainClean DEF IInv, Honest
<1>11. QED
  BY <1>3, <1>4, <1>5, <1>9, <1>10, VerifierOnly

\* Folding the events says what the log says now.
LEMMA FoldEventsKeeps ==
  ASSUME IInv, version = Current, UNCHANGED <<version, old, bundle, opener>>, FoldEvents
  PROVE  IInv'
<1> DEFINE found == v.found \cup (IF Unreadable(chain) THEN {"malformed"} ELSE {})
<1>1. /\ v.pc = "fold" /\ UNCHANGED <<chain, rows, published, tampers>>
      /\ v' = [v EXCEPT !.pc = "records", !.said = Said(chain), !.found = found]
  BY DEF FoldEvents
<1> HIDE DEF found
<1>2. v = [pc |-> v.pc, anchor |-> v.anchor, found |-> v.found, said |-> v.said, moved |-> v.moved]
      /\ v.moved \in Nat
  BY DEF IInv, VerifierShape
<1>3. v' = [pc |-> "records", anchor |-> v.anchor, found |-> found, said |-> Said(chain), moved |-> v.moved]
  BY <1>1, <1>2, VerifierSet
<1>4. /\ v'.pc = "records" /\ v'.anchor = v.anchor /\ v'.found = found
      /\ v'.said = Said(chain) /\ v'.moved = v.moved
  BY <1>3
<1>5. VerifierShape'
  BY <1>2, <1>3, <1>4 DEF VerifierShape
<1>6. found = {} => v.found = {}
  BY DEF found
<1>7. VerifierKnows'
  <2>1. Compared["records"] = {}
    BY DEF Compared
  <2>2. v.anchor # Absent => published # <<>>
    BY <1>1 DEF IInv, VerifierKnows
  <2>3. v.found = {} /\ v.anchor # Absent /\ v.anchor = Head_(published) => IsPrefix(published, chain)
    BY <1>1 DEF IInv, VerifierKnows
  <2>4. QED
    BY <1>1, <1>4, <1>6, <2>1, <2>2, <2>3 DEF VerifierKnows
<1>8. tampers = 0 /\ v.moved = 0 => found = {}
  BY <1>1 DEF IInv, Honest, Unreadable, found
<1>9. QED
  BY <1>1, <1>4, <1>5, <1>7, <1>8, VerifierOnly

\* Comparing a table of an honest ledger, or one that differs.
LEMMA CompareTableKeeps ==
  ASSUME IInv, version = Current, UNCHANGED <<version, old, bundle, opener>>,
         NEW i \in DOMAIN Tables, CompareTable(i)
  PROVE  IInv'
<1> DEFINE found == v.found \cup (IF Differs(Tables[i], v.said, rows) THEN {Tables[i]} ELSE {})
           next == IF i = Len(Tables) THEN "done" ELSE Tables[i + 1]
<1>1. /\ v.pc = Tables[i] /\ UNCHANGED <<chain, rows, published, tampers>>
      /\ v' = [v EXCEPT !.pc = next, !.found = found]
  BY DEF CompareTable
<1>2. /\ Tables[i] \in DOMAIN Compared /\ Tables[i] # "idle"
      /\ next \in {"deliveries", "delivery_events", "replays", "done"}
      /\ \A t \in Compared[next] : t \in Compared[Tables[i]] \/ t = Tables[i]
  <2>1. i \in {1, 2, 3, 4} /\ Len(Tables) = 4
    BY DEF Tables
  <2>2. CASE i = 1
    BY <2>1, <2>2 DEF Tables, Compared
  <2>3. CASE i = 2
    BY <2>1, <2>3 DEF Tables, Compared
  <2>4. CASE i = 3
    BY <2>1, <2>4 DEF Tables, Compared
  <2>5. CASE i = 4
    BY <2>1, <2>5 DEF Tables, Compared
  <2>6. QED
    BY <2>1, <2>2, <2>3, <2>4, <2>5
<1> HIDE DEF found, next
<1>3. v = [pc |-> v.pc, anchor |-> v.anchor, found |-> v.found, said |-> v.said, moved |-> v.moved]
      /\ v.moved \in Nat
  BY DEF IInv, VerifierShape
<1>4. v' = [pc |-> next, anchor |-> v.anchor, found |-> found, said |-> v.said, moved |-> v.moved]
  BY <1>1, <1>3, VerifierSet
<1>5. v'.pc = next /\ v'.anchor = v.anchor /\ v'.found = found /\ v'.said = v.said /\ v'.moved = v.moved
  BY <1>4
<1>6. VerifierShape'
  BY <1>2, <1>3, <1>4, <1>5 DEF VerifierShape
<1>7. found = {} => v.found = {} /\ ~Differs(Tables[i], v.said, rows)
  BY DEF found
<1>8. VerifierKnows'
  <2>1. /\ v.moved = 0 => v.said = Said(chain)
        /\ v.moved = 0 /\ v.found = {} => \A k \in Keys : k[1] \in Compared[Tables[i]] => v.said[k] = rows[k]
        /\ v.anchor # Absent => published # <<>>
        /\ v.found = {} /\ v.anchor # Absent /\ v.anchor = Head_(published) => IsPrefix(published, chain)
    BY <1>1, <1>2 DEF IInv, VerifierKnows
  <2>2. v.moved = 0 /\ found = {} => \A k \in Keys : k[1] \in Compared[next] => v.said[k] = rows[k]
    BY <1>2, <1>7, <2>1 DEF Differs
  <2>3. v'.moved = 0 => v'.said = Said(chain')
    BY <1>1, <1>5, <2>1
  <2>4. v'.moved = 0 /\ v'.found = {} => \A k \in Keys : k[1] \in Compared[v'.pc] => v'.said[k] = rows'[k]
    BY <1>1, <1>5, <2>2
  <2>5. v'.anchor # Absent => published' # <<>>
    BY <1>1, <1>5, <2>1
  <2>6. v'.found = {} /\ v'.anchor # Absent /\ v'.anchor = Head_(published') => IsPrefix(published', chain')
    BY <1>1, <1>5, <1>7, <2>1
  <2>7. QED
    BY <2>3, <2>4, <2>5, <2>6 DEF VerifierKnows
<1>9. tampers = 0 /\ v.moved = 0 => found = {}
  <2>1. v.moved = 0 => v.said = Said(chain)
    BY <1>1, <1>2 DEF IInv, VerifierKnows
  <2>2. tampers = 0 => Said(chain) = rows /\ (v.moved = 0 => v.found = {})
    BY <1>1, <1>2 DEF IInv, Honest, Current
  <2>3. QED
    BY <2>1, <2>2 DEF found, Differs
<1>10. QED
  BY <1>1, <1>5, <1>6, <1>8, <1>9, VerifierOnly

\* Returning forgets everything.
LEMMA ReturnKeeps ==
  ASSUME IInv, version = Current, UNCHANGED <<version, old, bundle, opener>>, Return
  PROVE  IInv'
<1>1. /\ UNCHANGED <<chain, rows, published, tampers>>
      /\ v' = [pc |-> "idle", anchor |-> Absent, found |-> {}, said |-> Empty, moved |-> 0]
  BY DEF Return, Idle
<1>2. VerifierShape' /\ VerifierKnows'
  BY <1>1 DEF VerifierShape, VerifierKnows, Compared
<1>3. QED
  BY <1>1, <1>2, VerifierOnly

-----------------------------------------------------------------------------
(***************************************************************************)
(* The theorems.                                                           *)
(***************************************************************************)
LEMMA StepIInv == IInv /\ [Next]_vars => IInv'
<1> SUFFICES ASSUME IInv, [Next]_vars PROVE IInv'
  OBVIOUS
<1>1. ASSUME NEW o \in Openers, Opening(o) PROVE IInv'
  BY <1>1, CreateSchemaKeeps, AddTablesKeeps, StartRowsKeeps, MigrateRowKeeps, CommitRowsKeeps, DieKeeps
     DEF Opening
<1>2. ASSUME NEW r \in Records, LoseFiles(r) PROVE IInv'
  BY <1>2, LoseFilesKeeps
<1>3. ASSUME version = Current, Write \/ Tamper, UNCHANGED <<version, old, bundle, opener>> PROVE IInv'
  BY <1>3, WriteKeeps, TamperKeeps
<1>4. ASSUME version = Current, Publish \/ Verify, UNCHANGED <<version, old, bundle, opener>> PROVE IInv'
  BY <1>4, PublishKeeps, StartVerifyKeeps, FoldEventsKeeps, CompareTableKeeps, ReturnKeeps DEF Verify
<1>5. CASE UNCHANGED vars
  <2>1. UNCHANGED <<chain, rows, published, tampers, v, version, old, bundle, opener>>
    BY <1>5 DEF vars, chainVars
  <2>2. LogShapes' /\ Honest' /\ EnteredOnce' /\ VerifierShape' /\ VerifierKnows'
    BY <2>1, LogUntouched
  <2>3. OpenerShapes'
    BY <2>1 DEF IInv, OpenerShapes
  <2>4. Phases'
    BY <2>1 DEF IInv, Phases, Migrating, Representable
  <2>5. SealedArchivedFirst' /\ MigratedArchived'
    BY <2>1 DEF IInv, SealedArchivedFirst, MigratedArchived
  <2>6. QED
    BY <2>2, <2>3, <2>4, <2>5 DEF IInv
<1>6. QED
  BY <1>1, <1>2, <1>3, <1>4, <1>5 DEF Next

\* The invariant holds of every ledger, whatever version it was found in,
\* whoever opened, wrote, edited or verified it, and in whatever order.
THEOREM InvariantHolds == Spec => []IInv
BY InitIInv, StepIInv, PTL DEF Spec

\* HonestAccepted: verify_ledger reports nothing of a ledger nobody edited that
\* was quiet while it read.
THEOREM AcceptsHonest == Spec => []HonestAccepted
<1>1. IInv => HonestAccepted
  BY DEF IInv, Honest, HonestAccepted
<1>2. QED
  BY <1>1, InvariantHolds, PTL

\* CleanMeansKept: a report without a problem means that the tables are what
\* the events say, and that the log begins with the anchored one.
THEOREM CleanIsKept == Spec => []CleanMeansKept
<1>1. IInv => CleanMeansKept
  <2> SUFFICES ASSUME IInv, v.pc = "done", v.found = {}
               PROVE  /\ v.moved = 0 => Said(chain) = rows
                      /\ v.anchor # Absent /\ v.anchor = Head_(published) => IsPrefix(published, chain)
    BY DEF CleanMeansKept
  <2>1. ASSUME v.moved = 0 PROVE Said(chain) = rows
    <3>1. v.said = Said(chain) /\ \A k \in Keys : k[1] \in Compared["done"] => v.said[k] = rows[k]
      BY <2>1 DEF IInv, VerifierKnows, Compared
    <3>2. \A k \in Keys : Said(chain)[k] = rows[k]
      BY <3>1, KeyForms DEF Compared
    <3>3. IsTable(rows) /\ IsTable(Said(chain))
      BY SaidTable DEF IInv, LogShapes
    <3>4. QED
      BY <3>2, <3>3 DEF IsTable
  <2>2. QED
    BY <2>1 DEF IInv, VerifierKnows
<1>2. QED
  BY <1>1, InvariantHolds, PTL

\* LoggedOnce: a ledger of the current version is covered by its log, each
\* record entered by one event, whether it was created, imported or migrated.
THEOREM CoveredOnce == Spec => []LoggedOnce
<1>1. IInv => LoggedOnce
  <2> SUFFICES ASSUME IInv, version = Current, tampers = 0
               PROVE  /\ Said(chain) = rows
                      /\ \A i, j \in DOMAIN chain :
                           Entry(chain[i]) /\ Entry(chain[j]) /\ chain[i].subject = chain[j].subject => i = j
    BY DEF LoggedOnce, Entry
  <2>1. QED
    BY DEF IInv, Honest, EnteredOnce, Current
<1>2. QED
  BY <1>1, InvariantHolds, PTL

\* MigratedArchived: the log never says that a record was imported as sealed
\* whose bundle is not in the archive.
THEOREM SealedIsArchived == Spec => []MigratedArchived
<1>1. IInv => MigratedArchived
  BY DEF IInv
<1>2. QED
  BY <1>1, InvariantHolds, PTL

=============================================================================

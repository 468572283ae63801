------------------------ MODULE DeliveryEventsProofs ------------------------
(***************************************************************************)
(* Theorems about a delivery's event list, for any attempts and payloads   *)
(* and a list of any length: the one pass that possibly_written, status    *)
(* and explain make over it says what their docstrings say of the list.    *)
(***************************************************************************)
EXTENDS DeliveryEvents, TLAPS

Ids == Attempts \cup {NoAttempt}

\* What the methods of the log append.
Events ==
  {Intent(a, pl) : a \in Ids, pl \in Payloads}
    \cup {Receipt(a) : a \in Ids}
    \cup {Failure(a, done) : a \in Ids, done \in {0, 1, Unknown}}
    \cup {RemovalIntent, RemovalReceipt, RemovalFailure}

Removals == {"removal_intent", "removal_receipt", "removal_failure"}

\* Every event is of one of the kinds, and has the fields of its kind.
LEMMA EventForms ==
  ASSUME NEW e \in Events
  PROVE  /\ e.event \in {"intent"} \cup Outcomes \cup Removals
         /\ e.event = "intent" => e.attempt \in Ids /\ e.payload \in Payloads
         /\ e.event \in Outcomes => e.attempt \in Ids
<1>1. CASE \E a \in Ids, pl \in Payloads : e = Intent(a, pl)
  BY <1>1 DEF Intent, Outcomes, Removals
<1>2. CASE \E a \in Ids : e = Receipt(a)
  BY <1>2 DEF Receipt, Outcomes, Removals
<1>3. CASE \E a \in Ids, done \in {0, 1, Unknown} : e = Failure(a, done)
  BY <1>3 DEF Failure, Outcomes, Removals
<1>4. CASE e \in {RemovalIntent, RemovalReceipt, RemovalFailure}
  BY <1>4 DEF RemovalIntent, RemovalReceipt, RemovalFailure, Outcomes, Removals
<1>5. QED
  BY <1>1, <1>2, <1>3, <1>4 DEF Events

\* What an event makes of what was read before it.
LEMMA AfterFacts ==
  ASSUME NEW w \in Views, NEW e \in Events
  PROVE  /\ After(w, e) \in Views
         /\ After(w, e).status # "not_attempted"
         /\ e.event = "intent" =>
              /\ After(w, e).written <=> w.written \/ (e.attempt = NoAttempt /\ w.legacy)
              /\ After(w, e).outstanding = IF e.attempt = NoAttempt THEN w.outstanding
                                           ELSE w.outstanding \cup {e.attempt}
              /\ After(w, e).legacy <=> w.legacy \/ e.attempt = NoAttempt
         /\ e.event \in Outcomes =>
              /\ After(w, e).written <=> w.written \/ e.event = "receipt" \/ e.done # 0
              /\ After(w, e).outstanding = w.outstanding \ {e.attempt}
              /\ After(w, e).legacy <=> w.legacy /\ e.attempt # NoAttempt
         /\ e.event \in Removals =>
              /\ After(w, e).written <=> w.written /\ e.event # "removal_receipt"
              /\ After(w, e).outstanding = w.outstanding
              /\ After(w, e).legacy <=> w.legacy
<1>0. /\ w.status \in Statuses /\ w.bound \in Payloads \cup {NoPayload} /\ w.written \in BOOLEAN
      /\ w.outstanding \in SUBSET Attempts /\ w.legacy \in BOOLEAN
  BY DEF Views
<1>1. CASE e.event = "intent"
  <2>1. After(w, e) = AfterIntent(w, e)
    BY <1>1 DEF After
  <2>2. e.attempt \in Ids /\ e.payload \in Payloads
    BY <1>1, EventForms
  <2>3. AfterIntent(w, e) \in Views
    BY <1>0, <2>2 DEF AfterIntent, Views, Ids, Statuses
  <2>4. /\ AfterIntent(w, e).status = "in_flight"
        /\ AfterIntent(w, e).outstanding = IF e.attempt = NoAttempt THEN w.outstanding
                                           ELSE w.outstanding \cup {e.attempt}
    BY DEF AfterIntent
  <2>5. AfterIntent(w, e).written <=> w.written \/ (e.attempt = NoAttempt /\ w.legacy)
    BY Zenon DEF AfterIntent
  <2>6. AfterIntent(w, e).legacy <=> w.legacy \/ e.attempt = NoAttempt
    BY Zenon DEF AfterIntent
  <2>7. QED
    BY <1>1, <2>1, <2>3, <2>4, <2>5, <2>6 DEF Outcomes, Removals
<1>2. CASE e.event \in Outcomes
  <2>1. After(w, e) = AfterOutcome(w, e)
    BY <1>2 DEF After, Outcomes
  <2>2. AfterOutcome(w, e) \in Views
    BY <1>0 DEF AfterOutcome, Views, Statuses
  <2>3. /\ AfterOutcome(w, e).status \in {"delivered", "failed"}
        /\ AfterOutcome(w, e).outstanding = w.outstanding \ {e.attempt}
    BY DEF AfterOutcome
  <2>4. AfterOutcome(w, e).written <=> w.written \/ e.event = "receipt" \/ e.done # 0
    BY Zenon DEF AfterOutcome
  <2>5. AfterOutcome(w, e).legacy <=> w.legacy /\ e.attempt # NoAttempt
    BY Zenon DEF AfterOutcome
  <2>6. QED
    BY <1>2, <2>1, <2>2, <2>3, <2>4, <2>5 DEF Outcomes, Removals
<1>3. CASE e.event \in Removals
  <2>1. After(w, e) = AfterRemoval(w, e)
    BY <1>3 DEF After, Removals
  <2>2. AfterRemoval(w, e).status \in {"removing", "removed", "removal_failed"}
    BY <1>3 DEF AfterRemoval, Removals
  <2>3. AfterRemoval(w, e).outstanding = w.outstanding /\ AfterRemoval(w, e).bound = w.bound
    BY DEF AfterRemoval
  <2>4. AfterRemoval(w, e).written <=> w.written /\ e.event # "removal_receipt"
    BY Zenon DEF AfterRemoval
  <2>5. AfterRemoval(w, e).legacy <=> w.legacy
    BY Zenon DEF AfterRemoval
  <2>6. AfterRemoval(w, e) \in Views
    <3> DEFINE status == CASE e.event = "removal_intent"  -> "removing"
                           [] e.event = "removal_receipt" -> "removed"
                           [] e.event = "removal_failure" -> "removal_failed"
               written == w.written /\ e.event # "removal_receipt"
    <3>1. status \in Statuses
      BY <1>3 DEF Removals, Statuses
    <3>2. written \in BOOLEAN
      BY <1>0
    <3>3. AfterRemoval(w, e) = [status |-> status, bound |-> w.bound, written |-> written,
                                outstanding |-> w.outstanding, legacy |-> w.legacy]
      BY DEF AfterRemoval
    <3> HIDE DEF status, written
    <3>4. QED
      BY <1>0, <3>1, <3>2, <3>3 DEF Views
  <2>7. QED
    BY <1>3, <2>1, <2>2, <2>3, <2>4, <2>5, <2>6 DEF Outcomes, Removals
<1>4. QED
  BY <1>1, <1>2, <1>3, EventForms

-----------------------------------------------------------------------------
(***************************************************************************)
(* The inductive invariant: each field of what was read, said of the list. *)
(***************************************************************************)
Legacy == {i \in DOMAIN log : IsLegacy(i)}

\* The last event of an old ledger is an intent that never reported.
Waiting == \E i \in Legacy : Is(i, "intent") /\ \A j \in Legacy : j <= i

\* The next event after i of an old ledger is an intent as well, and no data
\* was removed since.
Abandoned(i) ==
  /\ i \in Legacy /\ Is(i, "intent")
  /\ \E j \in Legacy :
       /\ i < j /\ \A k \in Legacy : i < k => j <= k
       /\ Is(j, "intent")
       /\ ~ \E k \in DOMAIN log : k > j /\ Is(k, "removal_receipt")

IInv ==
  /\ log \in Seq(Events)
  /\ TypeOK
  /\ ViewOf(log).status = "not_attempted" => log = <<>>
  /\ ViewOf(log).outstanding = {log[i].attempt : i \in {k \in DOMAIN log : Unconcluded(k)}}
  /\ ViewOf(log).legacy <=> Waiting
  /\ ViewOf(log).written <=> \E i \in DOMAIN log : LeftData(i) \/ Abandoned(i)

-----------------------------------------------------------------------------
(***************************************************************************)
(* What one more event changes.                                            *)
(***************************************************************************)
IsOld(e) == e.event \in {"intent"} \cup Outcomes /\ e.attempt = NoAttempt

\* The list, and what is read of it.
LEMMA ListFacts ==
  ASSUME log \in Seq(Events), NEW e \in Events, log' = Append(log, e)
  PROVE  /\ Len(log) \in Nat /\ DOMAIN log = 1 .. Len(log) /\ DOMAIN log' = 1 .. Len(log) + 1
         /\ log' \in Seq(Events)
         /\ log'[Len(log) + 1] = e
         /\ \A i \in 1 .. Len(log) : log'[i] = log[i]
         /\ \A i \in 1 .. Len(log) + 1 : i \in 1 .. Len(log) \/ i = Len(log) + 1
         /\ \A i \in 1 .. Len(log) : i \in 1 .. Len(log) + 1 /\ i < Len(log) + 1
         /\ Len(log) + 1 \in 1 .. Len(log) + 1
         /\ ViewOf(log') = After(ViewOf(log), e)
<1>1. ViewOf(log') = After(ViewOf(log), e)
  BY Reading!FoldedAppend DEF ViewOf
<1>2. QED
  BY <1>1

\* An outcome concludes the attempt it names, and an intent begins one.
LEMMA UnconcludedStep ==
  ASSUME log \in Seq(Events), NEW e \in Events, log' = Append(log, e), NEW n \in Nat, n = Len(log)
  PROVE  /\ \A i \in 1 .. n :
              Unconcluded(i)' <=> Unconcluded(i) /\ ~(e.event \in Outcomes /\ e.attempt = log[i].attempt)
         /\ Unconcluded(n + 1)' <=> e.event = "intent" /\ e.attempt # NoAttempt
<1>1. /\ n \in Nat /\ DOMAIN log = 1 .. n /\ DOMAIN log' = 1 .. n + 1 /\ log'[n + 1] = e
      /\ \A i \in 1 .. n : log'[i] = log[i]
      /\ \A i \in 1 .. n + 1 : i \in 1 .. n \/ i = n + 1
      /\ \A i \in 1 .. n : i \in 1 .. n + 1 /\ i < n + 1
      /\ n + 1 \in 1 .. n + 1
  BY ListFacts
<1>2. ASSUME NEW i \in 1 .. n
      PROVE  Unconcluded(i)' <=> Unconcluded(i) /\ ~(e.event \in Outcomes /\ e.attempt = log[i].attempt)
  <2>1. (Is(i, "intent") /\ ~IsLegacy(i))' <=> (Is(i, "intent") /\ ~IsLegacy(i))
    BY <1>1 DEF Is, IsLegacy
  <2>2. (\E j \in DOMAIN log : j > i /\ log[j].event \in Outcomes /\ log[j].attempt = log[i].attempt)'
          <=> \/ \E j \in DOMAIN log : j > i /\ log[j].event \in Outcomes /\ log[j].attempt = log[i].attempt
              \/ e.event \in Outcomes /\ e.attempt = log[i].attempt
    BY <1>1
  <2>3. QED
    BY <2>1, <2>2 DEF Unconcluded
<1>3. Unconcluded(n + 1)' <=> e.event = "intent" /\ e.attempt # NoAttempt
  <2>1. ~ \E j \in 1 .. n + 1 : j > n + 1
    BY <1>1
  <2>2. (Is(n + 1, "intent") /\ ~IsLegacy(n + 1))' <=> e.event = "intent" /\ e.attempt # NoAttempt
    BY <1>1 DEF Is, IsLegacy
  <2>3. QED
    BY <1>1, <2>1, <2>2 DEF Unconcluded
<1>4. QED
  BY <1>2, <1>3

\* A removal receipt covers the data of every event before it.
LEMMA LeftDataStep ==
  ASSUME log \in Seq(Events), NEW e \in Events, log' = Append(log, e), NEW n \in Nat, n = Len(log)
  PROVE  /\ \A i \in 1 .. n : LeftData(i)' <=> LeftData(i) /\ e.event # "removal_receipt"
         /\ LeftData(n + 1)' <=> e.event = "receipt" \/ (e.event = "failure" /\ e.done # 0)
<1>1. /\ n \in Nat /\ DOMAIN log = 1 .. n /\ DOMAIN log' = 1 .. n + 1 /\ log'[n + 1] = e
      /\ \A i \in 1 .. n : log'[i] = log[i]
      /\ \A i \in 1 .. n + 1 : i \in 1 .. n \/ i = n + 1
      /\ \A i \in 1 .. n : i \in 1 .. n + 1 /\ i < n + 1
      /\ n + 1 \in 1 .. n + 1
  BY ListFacts
<1>2. ASSUME NEW i \in 1 .. n PROVE LeftData(i)' <=> LeftData(i) /\ e.event # "removal_receipt"
  BY <1>1 DEF LeftData, Is
<1>3. LeftData(n + 1)' <=> e.event = "receipt" \/ (e.event = "failure" /\ e.done # 0)
  <2>1. ~ \E j \in 1 .. n + 1 : j > n + 1
    BY <1>1
  <2>2. QED
    BY <1>1, <2>1 DEF LeftData, Is
<1>4. QED
  BY <1>2, <1>3

\* An event of an old ledger is the outcome of the one before it, or says that
\* there will be none.
LEMMA LegacyStep ==
  ASSUME log \in Seq(Events), NEW e \in Events, log' = Append(log, e), NEW n \in Nat, n = Len(log)
  PROVE  /\ IsOld(e) => Waiting' <=> e.event = "intent"
         /\ ~IsOld(e) => Waiting' <=> Waiting
         /\ e.event = "removal_receipt" => \A i \in 1 .. n : ~Abandoned(i)'
         /\ ~IsOld(e) /\ e.event # "removal_receipt" =>
              \A i \in 1 .. n : Abandoned(i)' <=> Abandoned(i)
         /\ IsOld(e) /\ e.event # "intent" =>
              \A i \in 1 .. n : Abandoned(i)' <=> Abandoned(i)
         /\ IsOld(e) /\ e.event = "intent" =>
              ((\E i \in 1 .. n : Abandoned(i)') <=> Waiting \/ \E i \in 1 .. n : Abandoned(i))
         /\ ~Abandoned(n + 1)'
<1>1. /\ n \in Nat /\ DOMAIN log = 1 .. n /\ DOMAIN log' = 1 .. n + 1 /\ log'[n + 1] = e
      /\ \A i \in 1 .. n : log'[i] = log[i]
      /\ \A i \in 1 .. n + 1 : i \in 1 .. n \/ i = n + 1
      /\ \A i \in 1 .. n : i \in 1 .. n + 1 /\ i < n + 1
      /\ n + 1 \in 1 .. n + 1
  BY ListFacts
<1>2. Legacy' = IF IsOld(e) THEN Legacy \cup {n + 1} ELSE Legacy
  BY <1>1 DEF Legacy, IsLegacy, IsOld
<1>3. Legacy \subseteq 1 .. n /\ \A i \in 1 .. n : \A k : Is(i, k)' <=> Is(i, k)
  BY <1>1 DEF Legacy, Is
<1>4. \A k : Is(n + 1, k)' <=> e.event = k
  BY <1>1 DEF Is
<1>5. \A i \in Nat : (\E k \in DOMAIN log : k > i /\ Is(k, "removal_receipt"))'
        <=> \/ \E k \in DOMAIN log : k > i /\ Is(k, "removal_receipt")
            \/ n + 1 > i /\ e.event = "removal_receipt"
  BY <1>1, <1>3, <1>4
<1>6. ASSUME IsOld(e) PROVE Waiting' <=> e.event = "intent"
  <2>1. Legacy' = Legacy \cup {n + 1}
    BY <1>2, <1>6
  <2>2. \A j \in Legacy : j \in Nat /\ j <= n
    BY <1>3
  <2>3. n + 1 \in Legacy' /\ \A j \in Legacy' : j <= n + 1 /\ (n + 1 <= j => j = n + 1)
    BY <2>1, <2>2
  <2>4. QED
    BY <1>4, <2>3 DEF Waiting
<1>7. ASSUME ~IsOld(e) PROVE Waiting' <=> Waiting
  BY <1>2, <1>3, <1>7 DEF Waiting
<1>8. ASSUME ~IsOld(e), e.event # "removal_receipt", NEW i \in 1 .. n PROVE Abandoned(i)' <=> Abandoned(i)
  <2>1. Legacy' = Legacy /\ Legacy \subseteq Nat
    BY <1>1, <1>2, <1>3, <1>8
  <2>2. \A j \in Legacy : (\E k \in DOMAIN log : k > j /\ Is(k, "removal_receipt"))'
                            <=> \E k \in DOMAIN log : k > j /\ Is(k, "removal_receipt")
    BY <1>5, <1>8, <2>1
  <2>3. QED
    BY <1>3, <2>1, <2>2 DEF Abandoned
<1>9. ASSUME e.event = "removal_receipt", NEW i \in 1 .. n PROVE ~Abandoned(i)'
  <2>1. ~IsOld(e)
    BY <1>9 DEF IsOld, Outcomes
  <2>2. Legacy' = Legacy /\ Legacy \subseteq Nat /\ \A j \in Legacy : n + 1 > j
    BY <1>1, <1>2, <1>3, <2>1
  <2>3. \A j \in Legacy : (\E k \in DOMAIN log : k > j /\ Is(k, "removal_receipt"))'
    BY <1>5, <1>9, <2>2
  <2>4. QED
    BY <2>2, <2>3 DEF Abandoned
<1>10. ASSUME IsOld(e), NEW i \in 1 .. n
       PROVE  Abandoned(i)' <=> \/ Abandoned(i)
                                \/ /\ e.event = "intent" /\ i \in Legacy /\ Is(i, "intent")
                                   /\ \A j \in Legacy : j <= i
  <2>1. Legacy' = Legacy \cup {n + 1} /\ Legacy \subseteq Nat /\ e.event # "removal_receipt"
    BY <1>1, <1>2, <1>3, <1>10 DEF IsOld, Outcomes
  <2>2. \A j \in Nat : (\E k \in DOMAIN log : k > j /\ Is(k, "removal_receipt"))'
                         <=> \E k \in DOMAIN log : k > j /\ Is(k, "removal_receipt")
    BY <1>5, <2>1
  <2>3. ~ \E k \in DOMAIN log : k > n + 1
    BY <1>1
  <2>4. \A j \in Legacy : j \in 1 .. n /\ j <= n + 1 /\ ~(n + 1 <= j) /\ (Is(j, "intent")' <=> Is(j, "intent"))
    BY <1>1, <1>3
  <2>5. i < n + 1 /\ (i \in Legacy' <=> i \in Legacy) /\ (Is(i, "intent")' <=> Is(i, "intent"))
    BY <1>1, <1>3, <2>1
  <2>6. ASSUME Abandoned(i)' PROVE \/ Abandoned(i)
                                   \/ /\ e.event = "intent" /\ i \in Legacy /\ Is(i, "intent")
                                      /\ \A j \in Legacy : j <= i
    <3>1. PICK j \in Legacy' : /\ i < j /\ \A k \in Legacy' : i < k => j <= k
                               /\ Is(j, "intent")'
                               /\ ~(\E k \in DOMAIN log : k > j /\ Is(k, "removal_receipt"))'
      BY <2>6 DEF Abandoned
    <3>2. i \in Legacy /\ Is(i, "intent")
      BY <2>5, <2>6 DEF Abandoned
    <3>3. CASE j = n + 1
      <4>1. \A k \in Legacy : ~(i < k)
        BY <2>1, <2>4, <3>1, <3>3
      <4>2. \A k \in Legacy : k <= i
        BY <2>1, <4>1
      <4>3. QED
        BY <1>4, <3>1, <3>2, <3>3, <4>2
    <3>4. CASE j \in Legacy
      BY <2>1, <2>2, <2>4, <3>1, <3>2, <3>4 DEF Abandoned
    <3>5. QED
      BY <2>1, <3>3, <3>4
  <2>7. ASSUME Abandoned(i) PROVE Abandoned(i)'
    <3>1. PICK j \in Legacy : /\ i < j /\ \A k \in Legacy : i < k => j <= k
                              /\ Is(j, "intent")
                              /\ ~ \E k \in DOMAIN log : k > j /\ Is(k, "removal_receipt")
      BY <2>7 DEF Abandoned
    <3>2. j \in Legacy' /\ (\A k \in Legacy' : i < k => j <= k) /\ Is(j, "intent")'
      BY <2>1, <2>4, <3>1
    <3>3. ~(\E k \in DOMAIN log : k > j /\ Is(k, "removal_receipt"))'
      BY <2>1, <2>2, <3>1
    <3>4. QED
      BY <2>5, <2>7, <3>1, <3>2, <3>3 DEF Abandoned
  <2>8. ASSUME e.event = "intent", i \in Legacy, Is(i, "intent"), \A j \in Legacy : j <= i PROVE Abandoned(i)'
    <3>1. n + 1 \in Legacy' /\ \A k \in Legacy' : i < k => n + 1 <= k
      BY <2>1, <2>4, <2>8
    <3>2. Is(n + 1, "intent")'
      BY <1>4, <2>8
    <3>3. ~(\E k \in DOMAIN log : k > n + 1 /\ Is(k, "removal_receipt"))'
      BY <1>1, <2>2, <2>3
    <3>4. QED
      BY <2>5, <2>8, <3>1, <3>2, <3>3 DEF Abandoned
  <2>9. QED
    BY <2>6, <2>7, <2>8
<1>11. ~Abandoned(n + 1)'
  <2>1. \A j \in Legacy' : ~(n + 1 < j)
    BY <1>1, <1>2, <1>3
  <2>2. QED
    BY <2>1 DEF Abandoned
<1>12. IsOld(e) /\ e.event # "intent" => \A i \in 1 .. n : Abandoned(i)' <=> Abandoned(i)
  BY <1>10
<1>13. IsOld(e) /\ e.event = "intent" =>
         ((\E i \in 1 .. n : Abandoned(i)') <=> Waiting \/ \E i \in 1 .. n : Abandoned(i))
  BY <1>3, <1>10 DEF Waiting
<1>14. QED
  BY <1>6, <1>7, <1>8, <1>9, <1>11, <1>12, <1>13


-----------------------------------------------------------------------------
(***************************************************************************)
(* The invariant is inductive.                                             *)
(***************************************************************************)
\* An empty list: nothing was read, and nothing is there to say.
LEMMA InitIInv ==
  ASSUME Init
  PROVE  IInv
<1>1. log = <<>> /\ DOMAIN log = {} /\ log \in Seq(Events)
  BY DEF Init
<1>2. ViewOf(log) = EmptyView
  BY <1>1, Reading!FoldedEmpty DEF ViewOf
<1>3. EmptyView \in Views
  BY DEF EmptyView, Views, Statuses
<1>4. ~Waiting /\ ~(\E i \in DOMAIN log : LeftData(i) \/ Abandoned(i))
  BY <1>1 DEF Waiting, Legacy
<1>5. {log[i].attempt : i \in {k \in DOMAIN log : Unconcluded(k)}} = {}
  BY <1>1
<1>6. EmptyView.outstanding = {} /\ EmptyView.legacy = FALSE /\ EmptyView.written = FALSE
  BY DEF EmptyView
<1>7. QED
  BY <1>1, <1>2, <1>3, <1>4, <1>5, <1>6 DEF IInv, TypeOK

\* Whatever event is appended, in whatever order: no guard of the methods is
\* needed for the pass over the list to say what its fields mean.
LEMMA AppendKeeps ==
  ASSUME IInv, NEW e \in Events, log' = Append(log, e)
  PROVE  IInv'
<1> DEFINE w == ViewOf(log)
<1>1. log \in Seq(Events) /\ w \in Views
  BY DEF IInv, TypeOK
<1>2. PICK n \in Nat : n = Len(log)
  BY <1>1
<1>3. /\ DOMAIN log = 1 .. n /\ DOMAIN log' = 1 .. n + 1 /\ log'[n + 1] = e
      /\ log' \in Seq(Events)
      /\ \A i \in 1 .. n : log'[i] = log[i]
      /\ \A i \in 1 .. n + 1 : i \in 1 .. n \/ i = n + 1
      /\ \A i \in 1 .. n : i \in 1 .. n + 1
      /\ n + 1 \in 1 .. n + 1
      /\ ViewOf(log') = After(w, e)
  BY <1>1, <1>2, ListFacts
<1>4. e.event \in {"intent"} \cup Outcomes \cup Removals
  BY EventForms
<1>5. After(w, e) \in Views /\ After(w, e).status # "not_attempted"
  BY <1>1, AfterFacts
<1>6. /\ w.outstanding = {log[i].attempt : i \in {k \in DOMAIN log : Unconcluded(k)}}
      /\ w.legacy <=> Waiting
      /\ w.written <=> \E i \in DOMAIN log : LeftData(i) \/ Abandoned(i)
  BY DEF IInv
<1>7. ViewOf(log').outstanding = {log'[i].attempt : i \in {k \in DOMAIN log' : Unconcluded(k)'}}
  <2>1. /\ \A i \in 1 .. n :
             Unconcluded(i)' <=> Unconcluded(i) /\ ~(e.event \in Outcomes /\ e.attempt = log[i].attempt)
        /\ Unconcluded(n + 1)' <=> e.event = "intent" /\ e.attempt # NoAttempt
    BY <1>1, <1>2, UnconcludedStep
  <2>2. After(w, e).outstanding = IF e.event = "intent" /\ e.attempt # NoAttempt
                                  THEN w.outstanding \cup {e.attempt}
                                  ELSE IF e.event \in Outcomes THEN w.outstanding \ {e.attempt}
                                  ELSE w.outstanding
    BY <1>1, <1>4, AfterFacts DEF Outcomes, Removals
  <2>3. e.event = "intent" => e.event \notin Outcomes
    BY DEF Outcomes
  <2> HIDE DEF w
  <2>4. ASSUME NEW a PROVE a \in After(w, e).outstanding <=> \E i \in 1 .. n + 1 : Unconcluded(i)' /\ log'[i].attempt = a
    BY <1>3, <1>6, <2>1, <2>2, <2>3
  <2>5. QED
    BY <1>3, <2>4
<1>8. ViewOf(log').legacy <=> Waiting'
  <2>1. (IsOld(e) => (Waiting' <=> e.event = "intent")) /\ (~IsOld(e) => (Waiting' <=> Waiting))
    BY <1>1, <1>2, LegacyStep
  <2>2. CASE e.event = "intent"
    <3>1. After(w, e).legacy <=> w.legacy \/ e.attempt = NoAttempt
      BY <1>1, <2>2, AfterFacts
    <3>2. QED
      BY <1>3, <1>6, <2>1, <2>2, <3>1 DEF IsOld
  <2>3. CASE e.event \in Outcomes
    <3>1. After(w, e).legacy <=> w.legacy /\ e.attempt # NoAttempt
      BY <1>1, <2>3, AfterFacts
    <3>2. e.event # "intent"
      BY <2>3 DEF Outcomes
    <3>3. QED
      BY <1>3, <1>6, <2>1, <2>3, <3>1, <3>2 DEF IsOld
  <2>4. CASE e.event \in Removals
    <3>1. After(w, e).legacy <=> w.legacy
      BY <1>1, <2>4, AfterFacts
    <3>2. ~IsOld(e)
      BY <2>4 DEF IsOld, Removals, Outcomes
    <3>3. QED
      BY <1>3, <1>6, <2>1, <3>1, <3>2
  <2>5. QED
    BY <1>4, <2>2, <2>3, <2>4
<1>9. ViewOf(log').written <=> \E i \in DOMAIN log' : LeftData(i)' \/ Abandoned(i)'
  <2> DEFINE Left == \E i \in 1 .. n : LeftData(i)
             Kept == \E i \in 1 .. n : Abandoned(i)
  <2>1. /\ \A i \in 1 .. n : LeftData(i)' <=> LeftData(i) /\ e.event # "removal_receipt"
        /\ LeftData(n + 1)' <=> e.event = "receipt" \/ (e.event = "failure" /\ e.done # 0)
    BY <1>1, <1>2, LeftDataStep
  <2>2. /\ e.event = "removal_receipt" => \A i \in 1 .. n : ~Abandoned(i)'
        /\ ~IsOld(e) /\ e.event # "removal_receipt" =>
             \A i \in 1 .. n : Abandoned(i)' <=> Abandoned(i)
        /\ IsOld(e) /\ e.event # "intent" => \A i \in 1 .. n : Abandoned(i)' <=> Abandoned(i)
        /\ IsOld(e) /\ e.event = "intent" =>
             ((\E i \in 1 .. n : Abandoned(i)') <=> Waiting \/ \E i \in 1 .. n : Abandoned(i))
        /\ ~Abandoned(n + 1)'
    BY <1>1, <1>2, LegacyStep
  <2>3. (\E i \in DOMAIN log' : LeftData(i)' \/ Abandoned(i)')
          <=> \/ \E i \in 1 .. n : LeftData(i)'
              \/ LeftData(n + 1)'
              \/ \E i \in 1 .. n : Abandoned(i)'
    BY <1>3, <2>2
  <2>4. w.written <=> Left \/ Kept
    BY <1>3, <1>6
  <2>5. CASE e.event = "intent"
    <3>1. After(w, e).written <=> w.written \/ (e.attempt = NoAttempt /\ w.legacy)
      BY <1>1, <2>5, AfterFacts
    <3>2. (\E i \in 1 .. n : LeftData(i)') <=> Left
      BY <2>1, <2>5
    <3>3. ~LeftData(n + 1)'
      BY <2>1, <2>5
    <3>4. (\E i \in 1 .. n : Abandoned(i)') <=> Kept \/ (e.attempt = NoAttempt /\ Waiting)
      BY <2>2, <2>5 DEF IsOld
    <3> HIDE DEF Left, Kept, w
    <3>5. QED
      BY <1>3, <1>6, <2>3, <2>4, <3>1, <3>2, <3>3, <3>4
  <2>6. CASE e.event \in Outcomes
    <3>0. e.event \in {"receipt", "failure"}
      BY <2>6 DEF Outcomes
    <3>1. After(w, e).written <=> w.written \/ e.event = "receipt" \/ e.done # 0
      BY <1>1, <2>6, AfterFacts
    <3>2. (\E i \in 1 .. n : LeftData(i)') <=> Left
      BY <2>1, <3>0
    <3>3. LeftData(n + 1)' <=> e.event = "receipt" \/ e.done # 0
      BY <2>1, <3>0
    <3>4. (\E i \in 1 .. n : Abandoned(i)') <=> Kept
      BY <2>2, <3>0
    <3> HIDE DEF Left, Kept, w
    <3>5. QED
      BY <1>3, <2>3, <2>4, <3>1, <3>2, <3>3, <3>4
  <2>7. CASE e.event \in Removals
    <3>0. ~IsOld(e) /\ e.event # "receipt" /\ e.event # "failure"
      BY <2>7 DEF IsOld, Removals, Outcomes
    <3>1. After(w, e).written <=> w.written /\ e.event # "removal_receipt"
      BY <1>1, <2>7, AfterFacts
    <3>2. (\E i \in 1 .. n : LeftData(i)') <=> Left /\ e.event # "removal_receipt"
      BY <2>1
    <3>3. ~LeftData(n + 1)'
      BY <2>1, <3>0
    <3>4. (\E i \in 1 .. n : Abandoned(i)') <=> Kept /\ e.event # "removal_receipt"
      BY <2>2, <3>0
    <3> HIDE DEF Left, Kept, w
    <3>5. QED
      BY <1>3, <2>3, <2>4, <3>1, <3>2, <3>3, <3>4
  <2>8. QED
    BY <1>4, <2>5, <2>6, <2>7
<1>10. QED
  BY <1>3, <1>5, <1>7, <1>8, <1>9 DEF IInv, TypeOK


\* Every method appends one of the events.
LEMMA NextAppends ==
  ASSUME log \in Seq(Events), Next
  PROVE  \E e \in Events : log' = Append(log, e)
<1>1. Used \subseteq Ids
  <2>1. \A i \in DOMAIN log : log[i] \in Events
    OBVIOUS
  <2>2. \A i \in DOMAIN log : log[i].event \in {"intent"} \cup Outcomes => log[i].attempt \in Ids
    BY <2>1, EventForms
  <2>3. QED
    BY <2>2 DEF Used
<1>2. /\ \A a \in Ids, pl \in Payloads : Intent(a, pl) \in Events
      /\ \A a \in Ids : Receipt(a) \in Events
      /\ \A a \in Ids : \A done \in {0, 1, Unknown} : Failure(a, done) \in Events
      /\ RemovalIntent \in Events /\ RemovalReceipt \in Events /\ RemovalFailure \in Events
  BY DEF Events
<1>3. NoAttempt \in Ids /\ Attempts \subseteq Ids
  BY DEF Ids
<1>4. CASE LegacyEvent
  BY <1>2, <1>3, <1>4 DEF LegacyEvent, Add
<1>5. CASE AppendIntent
  BY <1>2, <1>3, <1>5 DEF AppendIntent, Add
<1>6. CASE AppendOutcome
  BY <1>1, <1>2, <1>6 DEF AppendOutcome, Open, Add
<1>7. CASE AppendUnwrittenFailure
  BY <1>2, <1>3, <1>7 DEF AppendUnwrittenFailure, Add
<1>8. CASE AppendRemoval
  BY <1>2, <1>8 DEF AppendRemoval, Add
<1>9. QED
  BY <1>4, <1>5, <1>6, <1>7, <1>8 DEF Next

\* The pass over the list says what its fields mean, in every behaviour.
THEOREM InvariantHolds == Spec => []IInv
<1>1. Init => IInv
  BY InitIInv
<1>2. IInv /\ [Next]_log => IInv'
  <2>1. CASE Next
    <3>1. ASSUME IInv PROVE IInv'
      <4>1. log \in Seq(Events)
        BY <3>1 DEF IInv
      <4>2. PICK e \in Events : log' = Append(log, e)
        BY <2>1, <4>1, NextAppends
      <4>3. QED
        BY <3>1, <4>2, AppendKeeps
    <3>2. QED
      BY <3>1
  <2>2. CASE UNCHANGED log
    BY <2>2 DEF IInv, TypeOK, ViewOf, Reading!Folded, Reading!Stages, Waiting, Legacy, Abandoned, LeftData,
                Unconcluded, Is, IsLegacy
  <2>3. QED
    BY <2>1, <2>2
<1>3. QED
  BY <1>1, <1>2, PTL DEF Spec

-----------------------------------------------------------------------------
(***************************************************************************)
(* What possibly_written and explain say.                                  *)
(***************************************************************************)
\* A legacy intent without an outcome is the last legacy event or the one
\* before another intent.
LEMMA LegacyForms ==
  ASSUME log \in Seq(Events)
  PROVE  (\E i \in DOMAIN log : LegacyUnconcluded(i)) <=> Waiting \/ \E i \in DOMAIN log : Abandoned(i)
<1> DEFINE Later(i) == {j \in DOMAIN log : j > i /\ IsLegacy(j)}
<1>1. Legacy \subseteq DOMAIN log /\ DOMAIN log \subseteq Nat
  BY DEF Legacy
<1>2. ASSUME NEW i \in DOMAIN log PROVE Later(i) = {j \in Legacy : j > i}
  BY DEF Legacy
<1>3. ASSUME NEW i \in DOMAIN log
      PROVE  LegacyUnconcluded(i) <=>
               \/ i \in Legacy /\ Is(i, "intent") /\ \A j \in Legacy : j <= i
               \/ Abandoned(i)
  <2>1. LegacyUnconcluded(i) <=>
          /\ Is(i, "intent") /\ i \in Legacy
          /\ \/ Later(i) = {}
             \/ \E j \in Later(i) :
                  /\ \A k \in Later(i) : j <= k
                  /\ Is(j, "intent")
                  /\ ~ \E k \in DOMAIN log : k > j /\ Is(k, "removal_receipt")
    BY <1>3 DEF LegacyUnconcluded, Legacy
  <2> HIDE DEF Later
  <2>2. Later(i) = {} <=> \A j \in Legacy : j <= i
    BY <1>1, <1>2, <1>3
  <2>3. Abandoned(i) <=>
          /\ Is(i, "intent") /\ i \in Legacy
          /\ \E j \in Later(i) :
               /\ \A k \in Later(i) : j <= k
               /\ Is(j, "intent")
               /\ ~ \E k \in DOMAIN log : k > j /\ Is(k, "removal_receipt")
    BY <1>1, <1>2, <1>3 DEF Abandoned
  <2>4. QED
    BY <2>1, <2>2, <2>3
<1>4. Waiting <=> \E i \in DOMAIN log : i \in Legacy /\ Is(i, "intent") /\ \A j \in Legacy : j <= i
  BY <1>1 DEF Waiting
<1>5. QED
  BY <1>3, <1>4

\* possibly_written answers exactly whether an event may have left data.
LEMMA Meaning ==
  ASSUME IInv
  PROVE  PossiblyWrittenMeaning
<1>1. /\ ViewOf(log).outstanding # {} <=> \E i \in DOMAIN log : Unconcluded(i)
      /\ ViewOf(log).legacy <=> Waiting
      /\ ViewOf(log).written <=> \E i \in DOMAIN log : LeftData(i) \/ Abandoned(i)
  BY DEF IInv
<1>2. (\E i \in DOMAIN log : LegacyUnconcluded(i)) <=> Waiting \/ \E i \in DOMAIN log : Abandoned(i)
  BY LegacyForms DEF IInv
<1>3. MayHoldData <=> \/ \E i \in DOMAIN log : Unconcluded(i)
                      \/ \E i \in DOMAIN log : LeftData(i)
                      \/ \E i \in DOMAIN log : LegacyUnconcluded(i)
  BY DEF MayHoldData
<1>4. (\E i \in DOMAIN log : LeftData(i) \/ Abandoned(i))
        <=> (\E i \in DOMAIN log : LeftData(i)) \/ (\E i \in DOMAIN log : Abandoned(i))
  OBVIOUS
<1>5. QED
  BY <1>1, <1>2, <1>3, <1>4 DEF PossiblyWrittenMeaning, PossiblyWritten

\* "Nothing" and "data removed" are told only when nothing is written.
LEMMA Understates ==
  ASSUME IInv
  PROVE  ExplainNeverUnderstates
<1> DEFINE w == ViewOf(log)
<1>1. PossiblyWritten(w) <=> MayHoldData
  BY Meaning DEF PossiblyWrittenMeaning
<1>2. w.status = "not_attempted" => ~MayHoldData
  BY DEF IInv, MayHoldData
<1> HIDE DEF w
<1>3. Explain(w) \in {"nothing", "data_removed"} => w.status = "not_attempted" \/ ~PossiblyWritten(w)
  <2>1. CASE w.status = "not_attempted"
    BY <2>1
  <2>2. CASE w.status = "delivered"
    <3>1. Explain(w) = "all"
      BY <2>2 DEF Explain
    <3>2. QED
      BY <3>1
  <2>3. CASE w.status = "removed" /\ PossiblyWritten(w)
    <3>1. Explain(w) = "between_0_and_planned"
      BY <2>3 DEF Explain
    <3>2. QED
      BY <3>1
  <2>4. CASE w.status \notin {"not_attempted", "delivered", "removed"} /\ PossiblyWritten(w)
    <3>1. Explain(w) = "between_0_and_planned"
      BY <2>4 DEF Explain
    <3>2. QED
      BY <3>1
  <2>5. QED
    BY <2>1, <2>2, <2>3, <2>4
<1>4. QED
  BY <1>1, <1>2, <1>3 DEF ExplainNeverUnderstates, w

\* A failure under an attempt id of its own, saying that nothing was written,
\* leaves the answer as it was.
LEMMA Neutral ==
  ASSUME IInv, AppendUnwrittenFailure
  PROVE  PossiblyWritten(ViewOf(log')) <=> PossiblyWritten(ViewOf(log))
<1> DEFINE w == ViewOf(log)
<1>1. PICK a \in Attempts \ Used : log' = Append(log, Failure(a, 0))
  BY DEF AppendUnwrittenFailure, Add
<1>2. a # NoAttempt
  BY DeliveryLogAssumption
<1> DEFINE e == Failure(a, 0)
<1>3. e \in Events /\ e.event = "failure" /\ e.attempt = a /\ e.done = 0
  BY DEF Events, Failure, Ids
<1>4. log \in Seq(Events) /\ w \in Views
  BY DEF IInv, TypeOK
<1>5. ViewOf(log') = After(w, e)
  BY <1>1, <1>3, <1>4, ListFacts
<1>6. a \notin w.outstanding
  <2>1. w.outstanding = {log[i].attempt : i \in {k \in DOMAIN log : Unconcluded(k)}}
    BY DEF IInv
  <2>2. \A i \in DOMAIN log : Unconcluded(i) => log[i].attempt \in Used
    BY DEF Unconcluded, Is, Used
  <2>3. QED
    BY <1>1, <2>1, <2>2
<1> HIDE DEF e, w
<1>7. /\ After(w, e).written <=> w.written
      /\ After(w, e).outstanding = w.outstanding
      /\ After(w, e).legacy <=> w.legacy
  <2>1. e.event \in Outcomes
    BY <1>3 DEF Outcomes
  <2>2. /\ After(w, e).written <=> w.written \/ e.event = "receipt" \/ e.done # 0
        /\ After(w, e).outstanding = w.outstanding \ {e.attempt}
        /\ After(w, e).legacy <=> w.legacy /\ e.attempt # NoAttempt
    BY <1>3, <1>4, <2>1, AfterFacts
  <2>3. QED
    BY <1>2, <1>3, <1>6, <2>2
<1>8. QED
  BY <1>5, <1>7 DEF PossiblyWritten, w

\* What possibly_written keeps of a list is always a view.
THEOREM ViewTyped == Spec => []TypeOK
<1>1. IInv => TypeOK
  BY DEF IInv
<1>2. QED
  BY <1>1, InvariantHolds, PTL

\* possibly_written says of a list of any length, from any attempts, what its
\* docstring says event by event.
THEOREM PossiblyWrittenMeans == Spec => []PossiblyWrittenMeaning
<1>1. QED
  BY Meaning, InvariantHolds, PTL

\* explain() never tells an operator that nothing is left when data may be.
THEOREM ExplainIsHonest == Spec => []ExplainNeverUnderstates
<1>1. QED
  BY Understates, InvariantHolds, PTL

\* append_unwritten_failure never changes what possibly_written answers.
THEOREM UnwrittenIsNeutral == Spec => UnwrittenFailureNeutral
<1>1. IInv /\ [Next]_log => [AppendUnwrittenFailure => (PossiblyWritten(ViewOf(log')) <=> PossiblyWritten(ViewOf(log)))]_log
  BY Neutral
<1>2. QED
  BY <1>1, InvariantHolds, PTL DEF Spec, UnwrittenFailureNeutral

=============================================================================

------------------------------- MODULE Folding -------------------------------
(***************************************************************************)
(* Recursion, for the modules with theorems: a fold of a sequence from the  *)
(* left by a step, and a function over nested values, whose parts are       *)
(* well-founded. The proofs about both need that the recursion has a        *)
(* solution, that it is what it says, and that it depends on nothing but    *)
(* what it has read. Users take the module by INSTANCE, with their step.    *)
(***************************************************************************)
EXTENDS Integers, Sequences, WellFoundedInduction, TLAPS

CONSTANT Step(_, _)

\* What base has become after the first i elements of s, for each i.
Stages(base, s) ==
  LET after[i \in 0 .. Len(s)] == IF i = 0 THEN base ELSE Step(after[i - 1], s[i])
  IN  after

Folded(base, s) == Stages(base, s)[Len(s)]

-----------------------------------------------------------------------------
(***************************************************************************)
(* Induction over the natural numbers, about a set instead of a predicate.  *)
(***************************************************************************)
LEMMA Least ==
  ASSUME NEW S, S \subseteq Nat, S # {}
  PROVE  \E m \in S : \A k \in S : m <= k
<1> DEFINE R == {ss \in Nat \X Nat : ss[1] < ss[2]}
<1>1. IsWellFoundedOn(R, Nat)
  BY NatLessThanWellFounded, Zenon DEF OpToRel
<1>2. ASSUME NEW x \in Nat, NEW y \in Nat, y < x PROVE <<y, x>> \in R
  <2>1. <<y, x>> \in Nat \X Nat /\ <<y, x>>[1] = y /\ <<y, x>>[2] = x
    OBVIOUS
  <2>2. QED
    BY <1>2, <2>1, Zenon
<1> HIDE DEF R
<1>3. PICK x \in S : \A y \in S : ~ (<<y, x>> \in R)
  BY <1>1, WFMin
<1>4. ASSUME NEW k \in S PROVE x <= k
  <2>1. x \in Nat /\ k \in Nat
    OBVIOUS
  <2>2. ~(k < x)
    BY <1>2, <1>3, <2>1
  <2>3. QED
    BY <2>1, <2>2
<1>5. QED
  BY <1>4

\* A set with 0 and every successor of its elements has every number.
THEOREM Inductive ==
  ASSUME NEW S, 0 \in S, \A m \in Nat : m \in S => m + 1 \in S
  PROVE  Nat \subseteq S
<1> DEFINE Bad == Nat \ S
<1>1. SUFFICES ASSUME Bad # {} PROVE FALSE
  OBVIOUS
<1>2. PICK m \in Bad : \A k \in Bad : m <= k
  <2> HIDE DEF Bad
  <2>1. Bad \subseteq Nat
    BY DEF Bad
  <2>2. QED
    BY <1>1, <2>1, Least
<1>3. m # 0 /\ m \in Nat /\ m \notin S
  OBVIOUS
<1>4. m - 1 \in Nat /\ m - 1 \in S
  BY <1>2, <1>3
<1>5. m - 1 + 1 = m
  BY <1>3
<1>6. QED
  BY <1>3, <1>4, <1>5

\* The same up to a bound.
THEOREM InductiveUpTo ==
  ASSUME NEW n \in Nat, NEW S, 0 \in S, \A m \in 0 .. n - 1 : m \in S => m + 1 \in S
  PROVE  0 .. n \subseteq S
<1> DEFINE T == S \cup {m \in Nat : m > n}
<1>1. 0 \in T /\ \A m \in Nat : m \in T => m + 1 \in T
  OBVIOUS
<1> HIDE DEF T
<1>2. Nat \subseteq T
  BY <1>1, Inductive
<1>3. QED
  BY <1>2 DEF T

-----------------------------------------------------------------------------
(***************************************************************************)
(* What Stages and Folded are.                                             *)
(***************************************************************************)
\* The recursion has a solution, so Stages is one.
THEOREM StagesDefined ==
  ASSUME NEW base, NEW s, Len(s) \in Nat
  PROVE  /\ Stages(base, s)[0] = base
         /\ \A i \in 1 .. Len(s) : Stages(base, s)[i] = Step(Stages(base, s)[i - 1], s[i])
<1> DEFINE Recursion(f, m) == f = [i \in 0 .. m |-> IF i = 0 THEN base ELSE Step(f[i - 1], s[i])]
           Solved == {m \in Nat : \E f : Recursion(f, m)}
<1>1. 0 \in Solved
  <2>1. Recursion([i \in 0 .. 0 |-> base], 0)
    OBVIOUS
  <2>2. QED
    BY <2>1
<1>2. ASSUME NEW m \in Nat, m \in Solved PROVE m + 1 \in Solved
  <2>1. PICK g : Recursion(g, m)
    BY <1>2
  <2> DEFINE f == [i \in 0 .. m + 1 |-> IF i = m + 1 THEN Step(g[m], s[m + 1]) ELSE g[i]]
  <2>2. ASSUME NEW i \in 0 .. m + 1
        PROVE  f[i] = IF i = 0 THEN base ELSE Step(f[i - 1], s[i])
    <3>1. CASE i = m + 1
      BY <3>1
    <3>2. CASE i # m + 1
      <4>1. i \in 0 .. m /\ f[i] = g[i] /\ (i # 0 => f[i - 1] = g[i - 1])
        BY <3>2
      <4>2. g[i] = IF i = 0 THEN base ELSE Step(g[i - 1], s[i])
        BY <2>1, <4>1
      <4>3. QED
        BY <4>1, <4>2
    <3>3. QED
      BY <3>1, <3>2
  <2>3. Recursion(f, m + 1)
    BY <2>2
  <2> HIDE DEF f
  <2>4. QED
    BY <2>3, m + 1 \in Nat
<1>3. Len(s) \in Solved
  <2> HIDE DEF Solved
  <2>1. QED
    BY <1>1, <1>2, Inductive
<1>4. Recursion(Stages(base, s), Len(s))
  BY <1>3 DEF Stages
<1>5. QED
  BY <1>4

\* A stage depends on the elements before it only.
THEOREM StagesOfPrefix ==
  ASSUME NEW base, NEW s, NEW t, Len(s) \in Nat, Len(t) \in Nat,
         NEW n \in Nat, n <= Len(s), n <= Len(t), \A i \in 1 .. n : s[i] = t[i]
  PROVE  \A i \in 0 .. n : Stages(base, s)[i] = Stages(base, t)[i]
<1> DEFINE Same == {i \in 0 .. n : Stages(base, s)[i] = Stages(base, t)[i]}
<1>1. 0 \in Same
  BY StagesDefined
<1>2. ASSUME NEW i \in 0 .. n - 1, i \in Same PROVE i + 1 \in Same
  <2>1. i + 1 \in 1 .. Len(s) /\ i + 1 \in 1 .. Len(t) /\ i + 1 \in 1 .. n /\ i + 1 - 1 = i
    OBVIOUS
  <2>2. /\ Stages(base, s)[i + 1] = Step(Stages(base, s)[i], s[i + 1])
        /\ Stages(base, t)[i + 1] = Step(Stages(base, t)[i], t[i + 1])
    BY <2>1, StagesDefined
  <2>3. QED
    BY <1>2, <2>1, <2>2
<1>3. 0 .. n \subseteq Same
  <2> HIDE DEF Same
  <2>1. QED
    BY <1>1, <1>2, InductiveUpTo
<1>4. QED
  BY <1>3

\* Folding nothing, and one element more.
THEOREM FoldedEmpty == ASSUME NEW base PROVE Folded(base, <<>>) = base
<1>1. Len(<<>>) = 0
  OBVIOUS
<1>2. QED
  BY <1>1, StagesDefined DEF Folded

\* One element more is one step more.
THEOREM FoldedAppend ==
  ASSUME NEW base, NEW R, NEW s \in Seq(R), NEW e
  PROVE  Folded(base, Append(s, e)) = Step(Folded(base, s), e)
<1> DEFINE n == Len(s)
           t == Append(s, e)
<1>1. /\ n \in Nat /\ Len(t) = n + 1 /\ t[n + 1] = e
      /\ \A i \in 1 .. n : t[i] = s[i]
  <2>1. s \in Seq(R \cup {e}) /\ e \in R \cup {e}
    OBVIOUS
  <2>2. QED
    BY <2>1
<1> HIDE DEF n, t
<1>2. Stages(base, t)[n + 1] = Step(Stages(base, t)[n], e)
  <2>1. n + 1 \in 1 .. Len(t) /\ n + 1 - 1 = n /\ Len(t) \in Nat
    BY <1>1
  <2>2. QED
    BY <1>1, <2>1, StagesDefined
<1>3. Stages(base, t)[n] = Stages(base, s)[n]
  <2>1. Len(s) = n /\ Len(t) \in Nat /\ n <= Len(s) /\ n <= Len(t) /\ n \in 0 .. n
    BY <1>1 DEF n
  <2>2. QED
    BY <1>1, <2>1, StagesOfPrefix
<1>4. QED
  BY <1>1, <1>2, <1>3 DEF Folded, n, t

-----------------------------------------------------------------------------
(***************************************************************************)
(* The same for nested values: f has at n what Step makes of f's values at   *)
(* the parts of n.  Where no value is nested in itself, there is such an f. *)
(***************************************************************************)
Solves(f, D) == f = [n \in D |-> Step(f, n)]

\* A solution for some of the values, and for whatever they are made of.
Attempt(f, C, D, parts) ==
  /\ C \subseteq D /\ \A n \in C : parts[n] \subseteq C
  /\ DOMAIN f = C /\ \A n \in C : f[n] = Step(f, n)

\* Among any values there is one made of none of them.
WellFounded(D, parts) == \A S \in SUBSET D : S # {} => \E n \in S : parts[n] \cap S = {}

\* Step looks at nothing but the parts.
Local(D, parts) == \A f, g : \A n \in D : (\A k \in parts[n] : f[k] = g[k]) => Step(f, n) = Step(g, n)

\* Two attempts agree.
LEMMA AttemptsAgree ==
  ASSUME NEW D, NEW parts, WellFounded(D, parts), Local(D, parts),
         NEW f, NEW C, Attempt(f, C, D, parts), NEW g, NEW E, Attempt(g, E, D, parts)
  PROVE  \A n \in C \cap E : f[n] = g[n]
<1> DEFINE S == {n \in C \cap E : f[n] # g[n]}
<1>1. SUFFICES ASSUME S # {} PROVE FALSE
  OBVIOUS
<1>2. S \subseteq D
  BY DEF Attempt
<1>3. PICK n \in S : parts[n] \cap S = {}
  <2> HIDE DEF S
  <2>1. QED
    BY <1>1, <1>2 DEF WellFounded
<1>4. n \in D /\ \A k \in parts[n] : k \in C \cap E
  BY DEF Attempt
<1>5. \A k \in parts[n] : f[k] = g[k]
  BY <1>3, <1>4
<1>6. Step(f, n) = Step(g, n)
  BY <1>4, <1>5 DEF Local
<1>7. f[n] = Step(f, n) /\ g[n] = Step(g, n)
  BY DEF Attempt
<1>8. QED
  BY <1>6, <1>7

\* There is a solution.
THEOREM SolutionExists ==
  ASSUME NEW D, NEW parts, WellFounded(D, parts), Local(D, parts), \A n \in D : parts[n] \subseteq D
  PROVE  \E f : Solves(f, D)
<1> DEFINE Is(v, n) == \E f, C : Attempt(f, C, D, parts) /\ n \in C /\ v = f[n]
           Covered == {n \in D : \E v : Is(v, n)}
           F == [n \in Covered |-> CHOOSE v : Is(v, n)]
<1>1. ASSUME NEW f, NEW C, Attempt(f, C, D, parts), NEW n \in C PROVE n \in Covered /\ F[n] = f[n]
  <2>1. Is(f[n], n) /\ n \in D
    BY <1>1 DEF Attempt
  <2>2. ASSUME NEW v, Is(v, n) PROVE v = f[n]
    <3>1. PICK g, E : Attempt(g, E, D, parts) /\ n \in E /\ v = g[n]
      BY <2>2
    <3>2. QED
      BY <1>1, <3>1, AttemptsAgree
  <2> HIDE DEF Is
  <2>3. (CHOOSE v : Is(v, n)) = f[n]
    BY <2>1, <2>2
  <2>4. QED
    BY <2>1, <2>3
<1>2. Attempt(F, Covered, D, parts)
  <2>1. ASSUME NEW n \in Covered PROVE parts[n] \subseteq Covered /\ F[n] = Step(F, n)
    <3>1. PICK f, C : Attempt(f, C, D, parts) /\ n \in C
      OBVIOUS
    <3> HIDE DEF F, Covered
    <3>2. n \in D /\ parts[n] \subseteq C /\ f[n] = Step(f, n)
      BY <3>1 DEF Attempt
    <3>3. \A k \in C : k \in Covered /\ F[k] = f[k]
      BY <1>1, <3>1
    <3>4. Step(F, n) = Step(f, n)
      BY <3>2, <3>3 DEF Local
    <3>5. QED
      BY <3>1, <3>2, <3>3, <3>4
  <2>2. Covered \subseteq D /\ DOMAIN F = Covered
    OBVIOUS
  <2> HIDE DEF F, Covered
  <2>3. QED
    BY <2>1, <2>2 DEF Attempt
<1>3. Covered = D
  <2> DEFINE Left == D \ Covered
  <2>1. SUFFICES ASSUME Left # {} PROVE FALSE
    OBVIOUS
  <2>2. PICK n \in Left : parts[n] \cap Left = {}
    <3>1. Left \subseteq D
      OBVIOUS
    <3> HIDE DEF Left
    <3>2. QED
      BY <2>1, <3>1 DEF WellFounded
  <2> HIDE DEF F, Covered
  <2>3. n \in D /\ n \notin Covered /\ parts[n] \subseteq Covered
    BY <2>2
  <2> DEFINE C == Covered \cup {n}
             G == [k \in C |-> IF k = n THEN Step(F, n) ELSE F[k]]
  <2>4. ASSUME NEW k \in C PROVE parts[k] \subseteq C /\ G[k] = Step(G, k)
    <3>1. k \in D /\ parts[k] \subseteq Covered
      BY <1>2, <2>3 DEF Attempt
    <3>2. \A m \in parts[k] : G[m] = F[m]
      BY <2>3, <3>1
    <3>3. G[k] = Step(F, k)
      BY <1>2, <2>3 DEF Attempt
    <3> HIDE DEF G
    <3>4. Step(G, k) = Step(F, k)
      BY <3>1, <3>2 DEF Local
    <3>5. QED
      BY <3>1, <3>3, <3>4
  <2>5. DOMAIN G = C /\ C \subseteq D /\ n \in C
    BY <1>2, <2>3 DEF Attempt
  <2> HIDE DEF G, C
  <2>6. Attempt(G, C, D, parts)
    BY <2>4, <2>5 DEF Attempt
  <2>7. QED
    BY <1>1, <2>3, <2>5, <2>6
<1>4. Solves(F, D)
  <2>1. F = [n \in Covered |-> F[n]]
    OBVIOUS
  <2> HIDE DEF F, Covered
  <2>2. F = [n \in D |-> F[n]] /\ \A n \in D : F[n] = Step(F, n)
    BY <1>2, <1>3, <2>1 DEF Attempt
  <2>3. QED
    BY <2>2 DEF Solves
<1>5. QED
  BY <1>4
=============================================================================

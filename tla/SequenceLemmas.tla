--------------------------- MODULE SequenceLemmas --------------------------
(***************************************************************************)
(* What the proofs need to know about sequences: the loops over them,      *)
(* which the specifications write as a FoldLeft, with induction over the   *)
(* naturals, stated of a set, and the existence of the function that       *)
(* FoldLeft chooses; and single elements that come and go.                 *)
(***************************************************************************)
EXTENDS Integers, Sequences, FiniteSets, SequencesExt, FiniteSetTheorems,
        WellFoundedInduction, SequenceTheorems, TLAPS

\* A set that holds 0 and the successor of each of its numbers holds every
\* natural number: a smallest number missing would have a smaller one missing.
LEMMA SetInduction ==
    ASSUME NEW S, 0 \in S, \A n \in Nat : n \in S => n + 1 \in S
    PROVE  \A n \in Nat : n \in S
<1>1. SUFFICES ASSUME NEW bad \in Nat, bad \notin S PROVE FALSE
  OBVIOUS
<1> DEFINE T == {s \in SUBSET Nat : \E n \in Nat : s = 0..n /\ n \notin S}
           R == StrictSubsetOrdering(Nat)
<1>2. T \subseteq FiniteSubsetsOf(Nat) /\ T # {}
  <2>1. 0..bad \in T
    BY <1>1
  <2>2. \A s \in T : IsFiniteSet(s)
    BY FS_Interval
  <2> QED BY <2>1, <2>2 DEF FiniteSubsetsOf
<1>3. PICK x \in T : \A y \in T : ~ (<<y, x>> \in R)
  <2> HIDE DEF T, R
  <2>1. IsWellFoundedOn(R, FiniteSubsetsOf(Nat))
    BY FS_StrictSubsetOrderingWellFounded DEF R
  <2> QED BY <2>1, <1>2, WFMin
<1>4. PICK k \in Nat : x = 0..k /\ k \notin S
  OBVIOUS
<1>5. k # 0 /\ k - 1 \in Nat
  BY <1>4
<1>6. 0..(k - 1) \in T
  BY <1>4, <1>5
<1>7. <<0..(k - 1), 0..k>> \in R
  BY <1>5 DEF StrictSubsetOrdering
<1> QED BY <1>3, <1>4, <1>6, <1>7

\* Min finds a smallest number of a set of naturals.
LEMMA MinOfNaturals ==
    ASSUME NEW S \in SUBSET Nat, S # {}
    PROVE  Min(S) \in S /\ \A y \in S : Min(S) <= y
<1> DEFINE T == {n \in Nat : \A k \in 0..n : k \notin S}
<1>1. \E x \in S : \A y \in S : x <= y
  <2> SUFFICES ASSUME \A x \in S : \E y \in S : y < x PROVE FALSE
    OBVIOUS
  <2>1. 0 \in T
    OBVIOUS
  <2>2. \A n \in Nat : n \in T => n + 1 \in T
    OBVIOUS
  <2>3. \A n \in Nat : n \in T
    <3> HIDE DEF T
    <3> QED BY <2>1, <2>2, SetInduction
  <2>4. PICK x \in S : x \in Nat
    OBVIOUS
  <2>5. x \in T /\ x \in 0..x
    BY <2>3, <2>4
  <2> QED BY <2>4, <2>5
<1> QED BY <1>1 DEF Min

\* Max finds a greatest number of a set of integers below some bound.
LEMMA MaxOfBounded ==
    ASSUME NEW S \in SUBSET Int, S # {}, NEW b \in Int, \A y \in S : y <= b
    PROVE  Max(S) \in S /\ \A y \in S : Max(S) >= y
<1> DEFINE T == {b - y : y \in S}
<1>1. T \in SUBSET Nat /\ T # {}
  <2>1. \A y \in S : b - y \in Nat
    OBVIOUS
  <2> QED BY <2>1
<1>2. Min(T) \in T /\ \A y \in T : Min(T) <= y
  <2> HIDE DEF T
  <2> QED BY <1>1, MinOfNaturals
<1>3. PICK x \in S : Min(T) = b - x
  BY <1>2
<1>4. ASSUME NEW y \in S PROVE x >= y
  <2>1. b - y \in T
    OBVIOUS
  <2>2. b - x <= b - y
    <3> HIDE DEF T
    <3> QED BY <1>2, <1>3, <2>1
  <2> QED BY <2>2
<1> QED BY <1>4 DEF Max

\* The maximum of a set of positions, as FoldLeft takes it.
LEMMA MaxOfPositions ==
    ASSUME NEW n \in Nat, NEW s \in SUBSET (1..n), n \in s
    PROVE  Max(s) = n
<1>1. n \in s /\ \A y \in s : n >= y
  OBVIOUS
<1>2. \A x \in s : (\A y \in s : x >= y) => x = n
  OBVIOUS
<1> QED BY <1>1, <1>2 DEF Max

\* g folds step over seq the way FoldLeft is defined: over the positions, the
\* greatest one last.
Folds(g, S, step, base, seq) ==
    /\ g \in [SUBSET (1..Len(seq)) -> S]
    /\ g[{}] = base
    /\ \A s \in (SUBSET (1..Len(seq))) \ {{}} :
         /\ Max(s) \in 1..Len(seq)
         /\ g[s] = step[<<g[s \ {Max(s)}], seq[Max(s)]>>]

\* A loop over a sequence has a result: the recursion that FoldLeft is defined
\* by has a solution, for every step that stays in S.
LEMMA FoldHasSolution ==
    ASSUME NEW S, NEW V, NEW step \in [S \X V -> S], NEW base \in S, NEW seq \in Seq(V)
    PROVE  \E g : Folds(g, S, step, base, seq)
<1> DEFINE N == Len(seq)
           IsIter(g, n) == \A s \in SUBSET (1..n) :
              IF s = {} THEN g[s] = base
              ELSE /\ Max(s) \in 1..n
                   /\ g[s] = step[<<g[s \ {Max(s)}], seq[Max(s)]>>]
           Has(n) == \E g \in [SUBSET (1..n) -> S] : IsIter(g, n)
           P == {n \in Nat : n <= N => Has(n)}
<1>1. Has(0)
  <2> DEFINE g == [s \in SUBSET (1..0) |-> base]
  <2>1. SUBSET (1..0) = {{}}
    OBVIOUS
  <2>2. g \in [SUBSET (1..0) -> S] /\ IsIter(g, 0)
    BY <2>1
  <2> QED BY <2>2
<1>2. ASSUME NEW n \in Nat, n + 1 <= N, Has(n) PROVE Has(n + 1)
  <2>1. PICK h \in [SUBSET (1..n) -> S] : IsIter(h, n)
    <3> HIDE DEF IsIter
    <3> QED BY <1>2
  <2> DEFINE g == [s \in SUBSET (1..(n+1)) |->
                     IF n + 1 \in s THEN step[<<h[s \ {n + 1}], seq[n + 1]>>] ELSE h[s]]
  <2>2. ASSUME NEW s \in SUBSET (1..(n+1)), n + 1 \in s
        PROVE  Max(s) = n + 1 /\ s \ {n + 1} \in SUBSET (1..n)
    <3>1. Max(s) = n + 1
      BY <2>2, MaxOfPositions
    <3> QED BY <3>1
  <2>3. seq[n + 1] \in V
    BY <1>2
  <2>4. g \in [SUBSET (1..(n+1)) -> S]
    BY <2>2, <2>3
  <2>5. ASSUME NEW s \in SUBSET (1..(n+1))
        PROVE  IF s = {} THEN g[s] = base
               ELSE /\ Max(s) \in 1..(n+1)
                    /\ g[s] = step[<<g[s \ {Max(s)}], seq[Max(s)]>>]
    <3>1. CASE n + 1 \in s
      BY <2>2, <3>1
    <3>2. CASE n + 1 \notin s
      <4>1. s \in SUBSET (1..n)
        BY <3>2
      <4>2. s \ {Max(s)} \in SUBSET (1..n)
        BY <4>1
      <4>3. g[s] = h[s] /\ g[s \ {Max(s)}] = h[s \ {Max(s)}]
        BY <3>2, <4>1, <4>2
      <4>4. IF s = {} THEN h[s] = base
            ELSE Max(s) \in 1..n /\ h[s] = step[<<h[s \ {Max(s)}], seq[Max(s)]>>]
        BY <2>1, <4>1
      <4>5. Max(s) \in 1..n => Max(s) \in 1..(n+1)
        OBVIOUS
      <4> HIDE DEF g
      <4> QED BY <4>3, <4>4, <4>5
    <3> QED BY <3>1, <3>2
  <2>6. IsIter(g, n + 1)
    <3> HIDE DEF g
    <3> QED BY <2>5
  <2> HIDE DEF IsIter, g
  <2> QED BY <2>4, <2>6
<1>3. N \in Nat
  OBVIOUS
<1> HIDE DEF Has, N
<1>4. \A n \in Nat : n \in P
  <2>1. 0 \in P
    BY <1>1
  <2>2. \A n \in Nat : n \in P => n + 1 \in P
    BY <1>2, <1>3
  <2> HIDE DEF P
  <2> QED BY <2>1, <2>2, SetInduction
<1>5. Has(N)
  BY <1>3, <1>4
<1>6. PICK g \in [SUBSET (1..N) -> S] : IsIter(g, N)
  <2> HIDE DEF IsIter
  <2> QED BY <1>5 DEF Has
<1>7. g[{}] = base
  BY <1>6
<1> QED BY <1>6, <1>7 DEF N, Folds

\* The set of the first k positions: what FoldLeft has folded after k steps.
LEMMA FirstPositions ==
    ASSUME NEW n \in Nat, NEW k \in 1..n
    PROVE  /\ 1..k # {} /\ 1..k \in SUBSET (1..n)
           /\ Max(1..k) = k
           /\ (1..k) \ {k} = 1..(k - 1)
<1>1. Max(1..k) = k
  BY MaxOfPositions
<1> QED BY <1>1

-----------------------------------------------------------------------------
(* Sequences that are lengthened or shortened by an element.              *)

LEMMA FunctionIsSequence ==
    ASSUME NEW S, NEW n \in Nat, NEW f \in [1..n -> S]
    PROVE  f \in Seq(S) /\ Len(f) = n /\ DOMAIN f = 1..n
OBVIOUS

LEMMA SequenceIsFunction ==
    ASSUME NEW S, NEW s \in Seq(S)
    PROVE  s = [k \in 1..Len(s) |-> s[k]]
OBVIOUS

LEMMA Removed ==
    ASSUME NEW S, NEW s \in Seq(S), NEW i \in 1..Len(s)
    PROVE  /\ RemoveAt(s, i) \in Seq(S) /\ Len(RemoveAt(s, i)) = Len(s) - 1
           /\ \A k \in 1..(Len(s) - 1) :
                 RemoveAt(s, i)[k] = IF k < i THEN s[k] ELSE s[k + 1]
<1> DEFINE a == SubSeq(s, 1, i - 1)
           b == SubSeq(s, i + 1, Len(s))
<1>1. a \in Seq(S) /\ Len(a) = i - 1 /\ \A k \in 1..(i - 1) : a[k] = s[k]
  OBVIOUS
<1>2. b \in Seq(S) /\ Len(b) = Len(s) - i /\ \A k \in 1..(Len(s) - i) : b[k] = s[i + k]
  OBVIOUS
<1>3. RemoveAt(s, i) = a \o b
  BY DEF RemoveAt
<1> HIDE DEF a, b
<1>4. /\ a \o b \in Seq(S) /\ Len(a \o b) = Len(s) - 1
      /\ \A k \in 1..(Len(s) - 1) :
            (a \o b)[k] = IF k <= Len(a) THEN a[k] ELSE b[k - Len(a)]
  <2>1. i - 1 \in Nat /\ Len(s) - i \in Nat /\ (i - 1) + (Len(s) - i) = Len(s) - 1
    OBVIOUS
  <2>2. /\ a \o b \in Seq(S) /\ Len(a \o b) = Len(a) + Len(b)
        /\ \A k \in 1..(Len(a) + Len(b)) :
              (a \o b)[k] = IF k <= Len(a) THEN a[k] ELSE b[k - Len(a)]
    BY <1>1, <1>2, ConcatProperties
  <2>3. Len(a) + Len(b) = Len(s) - 1
    BY <1>1, <1>2
  <2> QED
    BY <2>2, <2>3
<1>5. ASSUME NEW k \in 1..(Len(s) - 1)
      PROVE  (a \o b)[k] = IF k < i THEN s[k] ELSE s[k + 1]
  <2>1. CASE k < i
    <3>1. k \in 1..(i - 1) /\ k <= i - 1
      BY <2>1
    <3>2. (a \o b)[k] = a[k]
      BY <1>1, <1>4, <3>1
    <3> QED
      BY <1>1, <2>1, <3>1, <3>2
  <2>2. CASE ~(k < i)
    <3>1. k - (i - 1) \in 1..(Len(s) - i) /\ i + (k - (i - 1)) = k + 1 /\ ~(k <= i - 1)
      BY <2>2
    <3>2. (a \o b)[k] = b[k - Len(a)]
      BY <1>1, <1>4, <3>1
    <3> QED
      BY <1>1, <1>2, <2>2, <3>1, <3>2
  <2> QED
    BY <2>1, <2>2
<1> QED
  BY <1>3, <1>4, <1>5

LEMMA Lengthened ==
    ASSUME NEW S, NEW s \in Seq(S), NEW e \in S
    PROVE  /\ Append(s, e) \in Seq(S) /\ Len(Append(s, e)) = Len(s) + 1
           /\ \A k \in 1..(Len(s) + 1) :
                 Append(s, e)[k] = IF k = Len(s) + 1 THEN e ELSE s[k]
OBVIOUS

LEMMA Members ==
    ASSUME NEW S, NEW s \in Seq(S)
    PROVE  \A e : e \in ToSet(s) <=> \E k \in 1..Len(s) : s[k] = e
BY DEF ToSet

\* A sequence of whatever it holds, with one more element.
LEMMA Grown ==
    ASSUME NEW s, s \in Seq(ToSet(s)), NEW e
    PROVE  /\ Append(s, e) \in Seq(ToSet(Append(s, e)))
           /\ Len(s) \in Nat /\ Len(Append(s, e)) = Len(s) + 1
           /\ \A k \in 1..Len(s) : Append(s, e)[k] = s[k]
           /\ Append(s, e)[Len(s) + 1] = e
<1> PICK S : S = ToSet(s) \cup {e}
  OBVIOUS
<1> PICK n \in Nat : n = Len(s)
  OBVIOUS
<1>1. s \in Seq(S) /\ e \in S
  OBVIOUS
<1> PICK w : w = Append(s, e)
  OBVIOUS
<1>2. /\ w \in Seq(S) /\ Len(w) = n + 1
      /\ \A k \in 1..(n + 1) : w[k] = IF k = n + 1 THEN e ELSE s[k]
  BY <1>1, Lengthened
<1>3. w \in Seq(ToSet(w))
  BY <1>2 DEF ToSet
<1>4. /\ \A k \in 1..n : w[k] = s[k]
      /\ w[n + 1] = e
  BY <1>2
<1> QED BY <1>2, <1>3, <1>4
=============================================================================

------------------------------- MODULE Lemmas -------------------------------
(***************************************************************************)
(* Facts about naturals, finite sets and sequences that the proofs about   *)
(* several components need.  Induction over data is stated with sets in    *)
(* place of predicates: the minimum of a family of finite sets exists      *)
(* because strict inclusion is well founded on it, and the rest follows.   *)
(***************************************************************************)
EXTENDS Integers, Sequences, FiniteSets, SequencesExt,
        SequenceTheorems, FiniteSetTheorems, WellFoundedInduction, TLAPS

\* A family of finite sets has a member that no other member lies inside of (used
\* for the searches of the kernel's lists, which end at a first or a smallest
\* entry).
LEMMA FiniteMinimum ==
  ASSUME NEW F, F # {}, \A T \in F : IsFiniteSet(T)
  PROVE  \E M \in F : \A T \in F : T \subseteq M => T = M
<1> DEFINE S == UNION F
<1>1. IsWellFoundedOn(StrictSubsetOrdering(S), FiniteSubsetsOf(S))
  BY FS_StrictSubsetOrderingWellFounded
<1>2. F \subseteq FiniteSubsetsOf(S)
  BY DEF FiniteSubsetsOf
<1>3. \E M \in F : \A T \in F : ~(<<T, M>> \in StrictSubsetOrdering(S))
  <2> HIDE DEF S
  <2>1. QED
    BY <1>1, <1>2, WFMin, Zenon
<1>4. QED
  BY <1>3 DEF StrictSubsetOrdering

\* A set of naturals has a least element: the one a search loop stops at.
LEMMA LeastElement ==
  ASSUME NEW S, S \subseteq Nat, S # {}
  PROVE  \E m \in S : \A n \in S : m <= n
<1> DEFINE F == {0 .. n : n \in S}
<1>1. F # {}
  OBVIOUS
<1>2. \A T \in F : IsFiniteSet(T)
  <2> SUFFICES ASSUME NEW T \in F PROVE IsFiniteSet(T)
    OBVIOUS
  <2>1. PICK n \in S : T = 0 .. n
    OBVIOUS
  <2>2. IsFiniteSet(0 .. n)
    BY FS_Interval
  <2>3. QED
    BY <2>1, <2>2
<1>3. \E M \in F : \A T \in F : T \subseteq M => T = M
  <2> HIDE DEF F
  <2>1. QED
    BY <1>1, <1>2, FiniteMinimum, SMT
<1>4. PICK m \in S : \A n \in S : (0 .. n) \subseteq (0 .. m) => (0 .. n) = (0 .. m)
  <2>1. PICK M \in F : \A T \in F : T \subseteq M => T = M
    BY <1>3
  <2>2. PICK m \in S : M = 0 .. m
    BY <2>1
  <2>3. \A n \in S : (0 .. n) \in F
    OBVIOUS
  <2>4. QED
    BY <2>1, <2>2, <2>3
<1>5. ASSUME NEW n \in S, n < m PROVE FALSE
  <2>1. (0 .. n) \subseteq (0 .. m) /\ m \in 0 .. m /\ m \notin 0 .. n
    BY <1>5
  <2>2. QED
    BY <1>4, <2>1
<1>6. QED
  BY <1>4, <1>5

\* Min of the community modules is that element.
LEMMA MinIsLeast ==
  ASSUME NEW S, S \subseteq Nat, S # {}
  PROVE  Min(S) \in S /\ \A n \in S : Min(S) <= n
<1>1. \E m \in S : \A n \in S : m <= n
  BY LeastElement
<1>2. QED
  BY <1>1 DEF Min

\* Induction: a set with 0 in it that is closed under successor holds all naturals.
LEMMA NatSetInduction ==
  ASSUME NEW S, 0 \in S, \A n \in Nat : n \in S => n + 1 \in S
  PROVE  Nat \subseteq S
<1> SUFFICES ASSUME NEW b \in Nat \ S PROVE FALSE
  OBVIOUS
<1>1. PICK m \in Nat \ S : \A n \in Nat \ S : m <= n
  BY LeastElement
<1>2. m # 0 /\ m - 1 \in Nat /\ m - 1 \notin Nat \ S
  BY <1>1
<1>3. m - 1 + 1 \in S
  BY <1>2
<1>4. QED
  BY <1>2, <1>3

-----------------------------------------------------------------------------
\* What RemoveAt (list_del on proc_list) leaves: a shorter sequence whose
\* elements keep their order.
LEMMA RemoveAtElements ==
  ASSUME NEW S, NEW s \in Seq(S), NEW i \in 1 .. Len(s)
  PROVE  /\ RemoveAt(s, i) \in Seq(S)
         /\ Len(RemoveAt(s, i)) = Len(s) - 1
         /\ \A k \in 1 .. Len(s) - 1 :
              RemoveAt(s, i)[k] = IF k < i THEN s[k] ELSE s[k + 1]
<1> DEFINE front == SubSeq(s, 1, i - 1)
           back == SubSeq(s, i + 1, Len(s))
<1>1. /\ front \in Seq(S)
      /\ Len(front) = i - 1
      /\ \A k \in 1 .. i - 1 : front[k] = s[k]
  <2>1. \A k \in 1 .. i - 1 : s[k] \in S
    OBVIOUS
  <2>2. QED
    BY <2>1, SubSeqProperties
<1>2. /\ back \in Seq(S)
      /\ Len(back) = Len(s) - i
      /\ \A k \in 1 .. Len(s) - i : back[k] = s[k + i]
  <2>1. \A k \in i + 1 .. Len(s) : s[k] \in S
    OBVIOUS
  <2>2. QED
    BY <2>1, SubSeqProperties
<1>3. RemoveAt(s, i) = front \o back
  BY DEF RemoveAt
<1> HIDE DEF front, back
<1>4. /\ front \o back \in Seq(S)
      /\ Len(front \o back) = Len(s) - 1
  <2>1. Len(front) + Len(back) = Len(s) - 1
    BY <1>1, <1>2
  <2>2. QED
    BY <1>1, <1>2, <2>1, ConcatProperties
<1>5. ASSUME NEW k \in 1 .. Len(s) - 1
      PROVE  (front \o back)[k] = IF k < i THEN s[k] ELSE s[k + 1]
  <2>1. CASE k < i
    BY <1>1, <1>2, <2>1
  <2>2. CASE ~(k < i)
    <3>1. (front \o back)[k] = back[k - (i - 1)]
      BY <1>1, <1>2, <2>2
    <3>2. k - (i - 1) \in 1 .. Len(s) - i
      BY <2>2
    <3>3. back[k - (i - 1)] = s[(k - (i - 1)) + i]
      BY <1>2, <3>2
    <3>4. (k - (i - 1)) + i = k + 1 /\ ~(k < i)
      BY <2>2
    <3>5. QED
      BY <3>1, <3>3, <3>4
  <2>3. QED
    BY <2>1, <2>2
<1>6. QED
  BY <1>3, <1>4, <1>5

\* What InsertAt (list_add_before on a free list) leaves: the element, and the
\* others around it in their order.
IsInserted(S, s, i, e, new) ==
  /\ new \in Seq(S)
  /\ Len(new) = Len(s) + 1
  /\ \A k \in 1 .. Len(s) + 1 : new[k] = IF k < i THEN s[k] ELSE IF k = i THEN e ELSE s[k - 1]

LEMMA InsertAtInserts ==
  ASSUME NEW S, NEW s \in Seq(S), NEW i \in 1 .. Len(s) + 1, NEW e \in S
  PROVE  IsInserted(S, s, i, e, InsertAt(s, i, e))
<1> DEFINE front == SubSeq(s, 1, i - 1)
           back == SubSeq(s, i, Len(s))
<1>1. /\ front \in Seq(S)
      /\ Len(front) = i - 1
      /\ \A k \in 1 .. i - 1 : front[k] = s[k]
  <2>1. \A k \in 1 .. i - 1 : s[k] \in S
    OBVIOUS
  <2>2. QED
    BY <2>1, SubSeqProperties
<1>2. /\ back \in Seq(S)
      /\ Len(back) = Len(s) + 1 - i
      /\ \A k \in 1 .. Len(s) + 1 - i : back[k] = s[k + i - 1]
  <2>1. \A k \in i .. Len(s) : s[k] \in S
    OBVIOUS
  <2>2. QED
    BY <2>1, SubSeqProperties
<1>3. InsertAt(s, i, e) = (front \o <<e>>) \o back
  BY DEF InsertAt
<1> HIDE DEF front, back
<1>4. <<e>> \in Seq(S) /\ Len(<<e>>) = 1 /\ <<e>>[1] = e
  OBVIOUS
<1> DEFINE fronte == front \o <<e>>
<1>5. /\ fronte \in Seq(S) /\ Len(fronte) = i
      /\ \A k \in 1 .. i - 1 : fronte[k] = s[k]
      /\ fronte[i] = e
  <2>1. fronte \in Seq(S) /\ Len(fronte) = Len(front) + 1
    BY <1>1, <1>4, ConcatProperties
  <2>2. \A k \in 1 .. Len(front) + 1 :
          fronte[k] = IF k <= Len(front) THEN front[k] ELSE <<e>>[k - Len(front)]
    BY <1>1, <1>4, ConcatProperties
  <2>3. QED
    BY <1>1, <1>4, <2>1, <2>2
<1> HIDE DEF fronte
<1>6. /\ fronte \o back \in Seq(S)
      /\ Len(fronte \o back) = Len(fronte) + Len(back)
      /\ \A k \in 1 .. Len(fronte) + Len(back) :
           (fronte \o back)[k] = IF k <= Len(fronte) THEN fronte[k] ELSE back[k - Len(fronte)]
  BY <1>2, <1>5, ConcatProperties
<1>7. ASSUME NEW k \in 1 .. Len(s) + 1
      PROVE  (fronte \o back)[k] = IF k < i THEN s[k] ELSE IF k = i THEN e ELSE s[k - 1]
  <2>1. CASE k <= i
    BY <1>5, <1>6, <2>1
  <2>2. CASE ~(k <= i)
    <3>1. (fronte \o back)[k] = back[k - i] /\ k - i \in 1 .. Len(s) + 1 - i
      BY <1>2, <1>5, <1>6, <2>2
    <3>2. back[k - i] = s[(k - i) + i - 1] /\ (k - i) + i - 1 = k - 1
      BY <1>2, <3>1
    <3>3. QED
      BY <2>2, <3>1, <3>2
  <2>3. i \in Nat /\ k \in Nat
    OBVIOUS
  <2>4. QED
    BY <2>1, <2>2, <2>3
<1>8. Len(fronte \o back) = Len(s) + 1
  BY <1>2, <1>5, <1>6
<1>9. QED
  BY <1>3, <1>6, <1>7, <1>8 DEF fronte, IsInserted

LEMMA InsertAtElements ==
  ASSUME NEW S, NEW s \in Seq(S), NEW i \in 1 .. Len(s) + 1, NEW e \in S
  PROVE  /\ InsertAt(s, i, e) \in Seq(S)
         /\ Len(InsertAt(s, i, e)) = Len(s) + 1
         /\ \A k \in 1 .. Len(s) + 1 :
              InsertAt(s, i, e)[k] = IF k < i THEN s[k] ELSE IF k = i THEN e ELSE s[k - 1]
<1>1. IsInserted(S, s, i, e, InsertAt(s, i, e))
  BY InsertAtInserts
<1>2. QED
  BY <1>1 DEF IsInserted
-----------------------------------------------------------------------------
\* g folds the elements of a subset of D into a value of X, one picked element at
\* a time; and it does so for the rounds of a loop, of which the last comes last.
Folds(g, D, X, base, step, pick) ==
  /\ g \in [SUBSET D -> X]
  /\ \A s \in SUBSET D :
       g[s] = IF s = {} THEN base ELSE step[<<g[s \ {pick[s]}], pick[s]>>]

Loops(g, n, X, base, step) ==
  /\ g \in [SUBSET (1 .. n) -> X]
  /\ \A s \in SUBSET (1 .. n) :
       g[s] = IF s = {} THEN base ELSE step[<<g[s \ {Max(s)}], Max(s)>>]

\* Recursion over the subsets of a finite set exists: the function that folds a
\* set's elements into a value, one picked element at a time.  The folds of the
\* models (loops of the code over a table or a list) are instances of it.
LEMMA RecursionOnSubsets ==
  ASSUME NEW D, IsFiniteSet(D), NEW X, NEW base \in X, NEW step \in [X \X D -> X],
         NEW pick, \A s \in SUBSET D : s # {} => pick[s] \in s
  PROVE  \E g : Folds(g, D, X, base, step, pick)
<1> DEFINE Value(g, s) == IF s = {} THEN base ELSE step[<<g[s \ {pick[s]}], pick[s]>>]
           Good(g, n) == \A s \in SUBSET D : Cardinality(s) <= n => g[s] = Value(g, s)
           K == {n \in Nat : \E g \in [SUBSET D -> X] : Good(g, n)}
<1>1. ASSUME NEW s \in SUBSET D
      PROVE  /\ IsFiniteSet(s) /\ Cardinality(s) \in Nat /\ Cardinality(s) <= Cardinality(D)
             /\ s = {} <=> Cardinality(s) = 0
             /\ s # {} => /\ s \ {pick[s]} \in SUBSET D /\ pick[s] \in D
                          /\ Cardinality(s \ {pick[s]}) = Cardinality(s) - 1
  <2>1. IsFiniteSet(s) /\ Cardinality(s) <= Cardinality(D)
    BY FS_Subset
  <2>2. Cardinality(s) \in Nat /\ (s = {} <=> Cardinality(s) = 0)
    BY <2>1, FS_CardinalityType, FS_EmptySet
  <2>3. s # {} => Cardinality(s \ {pick[s]}) = Cardinality(s) - 1
    BY <2>1, FS_RemoveElement
  <2>4. QED
    BY <2>1, <2>2, <2>3
<1>2. 0 \in K
  <2> DEFINE g == [s \in SUBSET D |-> base]
  <2>1. g \in [SUBSET D -> X]
    OBVIOUS
  <2>2. ASSUME NEW s \in SUBSET D, Cardinality(s) <= 0 PROVE g[s] = Value(g, s)
    <3>1. s = {}
      <4>1. Cardinality(s) \in Nat /\ (s = {} <=> Cardinality(s) = 0)
        BY <1>1
      <4>2. QED
        BY <2>2, <4>1
    <3>2. QED
      BY <3>1
  <2>3. QED
    BY <2>1, <2>2
<1>3. ASSUME NEW n \in Nat, n \in K PROVE n + 1 \in K
  <2>1. PICK g \in [SUBSET D -> X] : Good(g, n)
    BY <1>3
  <2> DEFINE h == [s \in SUBSET D |-> IF Cardinality(s) <= n THEN g[s] ELSE Value(g, s)]
  <2>2. ASSUME NEW s \in SUBSET D PROVE Value(g, s) \in X
    <3>1. CASE s = {}
      BY <3>1
    <3>2. CASE s # {}
      <4>1. g[s \ {pick[s]}] \in X /\ pick[s] \in D
        BY <3>2, <1>1
      <4>2. QED
        BY <3>2, <4>1
    <3>3. QED
      BY <3>1, <3>2
  <2>3. h \in [SUBSET D -> X]
    <3> HIDE DEF Value
    <3>1. QED
      BY <2>2
  <2>4. ASSUME NEW s \in SUBSET D, Cardinality(s) <= n + 1 PROVE h[s] = Value(h, s)
    <3>1. h[s] = Value(g, s)
      <4> HIDE DEF Value
      <4>1. QED
        BY <2>1
    <3>2. s # {} => h[s \ {pick[s]}] = g[s \ {pick[s]}]
      <4> SUFFICES ASSUME s # {} PROVE h[s \ {pick[s]}] = g[s \ {pick[s]}]
        OBVIOUS
      <4>1. s \ {pick[s]} \in SUBSET D /\ Cardinality(s \ {pick[s]}) <= n
        <5>1. /\ s \ {pick[s]} \in SUBSET D /\ Cardinality(s) \in Nat
              /\ Cardinality(s \ {pick[s]}) = Cardinality(s) - 1
          BY <1>1
        <5>2. QED
          BY <2>4, <5>1
      <4>2. QED
        BY <4>1
    <3> HIDE DEF h
    <3>3. Value(h, s) = Value(g, s)
      BY <3>2
    <3>4. QED
      BY <3>1, <3>3
  <2>5. Good(h, n + 1)
    BY <2>4
  <2> HIDE DEF h, Good
  <2>6. QED
    BY <2>3, <2>5
<1>4. Cardinality(D) \in K
  <2> HIDE DEF K
  <2>1. Nat \subseteq K
    BY <1>2, <1>3, NatSetInduction
  <2>2. QED
    BY <2>1, FS_CardinalityType
<1>5. PICK g \in [SUBSET D -> X] : Good(g, Cardinality(D))
  BY <1>4
<1>6. \A s \in SUBSET D : g[s] = Value(g, s)
  BY <1>1, <1>5
<1>7. QED
  BY <1>6 DEF Folds

\* Max of the community modules, on a range.
LEMMA MaxIsGreatest ==
  ASSUME NEW n \in Nat, NEW s \in SUBSET (1 .. n), s # {}
  PROVE  Max(s) \in s /\ \A k \in s : k <= Max(s)
<1> DEFINE T == {n - k : k \in s}
<1>1. T \subseteq Nat /\ T # {}
  <2>1. \A k \in s : n - k \in Nat
    OBVIOUS
  <2>2. QED
    BY <2>1
<1>2. PICK t \in T : \A u \in T : t <= u
  <2> HIDE DEF T
  <2>1. QED
    BY <1>1, LeastElement
<1>3. PICK m \in s : t = n - m
  OBVIOUS
<1>4. ASSUME NEW k \in s PROVE m >= k
  <2>1. n - k \in T
    OBVIOUS
  <2>2. n - m <= n - k
    BY <2>1, <1>2, <1>3
  <2>3. QED
    BY <2>2
<1>5. QED
  BY <1>3, <1>4 DEF Max

LEMMA MaxOfInterval ==
  ASSUME NEW k \in Nat \ {0}
  PROVE  Max(1 .. k) = k /\ (1 .. k) \ {Max(1 .. k)} = 1 .. (k - 1) /\ 1 .. k # {}
<1>1. 1 .. k \in SUBSET (1 .. k) /\ 1 .. k # {} /\ k \in 1 .. k
  OBVIOUS
<1>2. Max(1 .. k) \in 1 .. k /\ k <= Max(1 .. k)
  BY <1>1, MaxIsGreatest
<1>3. Max(1 .. k) = k
  BY <1>2
<1>4. (1 .. k) \ {k} = 1 .. (k - 1)
  OBVIOUS
<1>5. QED
  BY <1>1, <1>3, <1>4

\* Recursion for a loop over 1 .. n, whose latest round is the largest number.
LEMMA LoopRecursion ==
  ASSUME NEW n \in Nat, NEW X, NEW base \in X, NEW step \in [X \X (1 .. n) -> X]
  PROVE  \E g : Loops(g, n, X, base, step)
<1> DEFINE D == 1 .. n
           pick == [u \in SUBSET D |-> Max(u)]
<1>1. IsFiniteSet(D)
  BY FS_Interval
<1>2. step \in [X \X D -> X]
  OBVIOUS
<1>3. \A u \in SUBSET D : pick[u] = Max(u)
  OBVIOUS
<1>4. \A s \in SUBSET D : s # {} => pick[s] \in s
  BY MaxIsGreatest
<1> HIDE DEF D, pick
<1>5. PICK g : Folds(g, D, X, base, step, pick)
  BY <1>1, <1>2, <1>4, RecursionOnSubsets
<1>6. Loops(g, n, X, base, step)
  BY <1>3, <1>5 DEF Folds, Loops, D
<1>7. QED
  BY <1>6

\* What holds before a loop over 1 .. n and is kept by each of its steps holds
\* after it; P[k] are the values it may have after k steps.  FoldLeft of the
\* community modules computes such an iter.
LEMMA LoopInvariant ==
  ASSUME NEW n \in Nat, NEW iter, NEW P, iter[1 .. 0] \in P[0],
         \A k \in 1 .. n : iter[1 .. (k - 1)] \in P[k - 1] => iter[1 .. k] \in P[k]
  PROVE  iter[1 .. n] \in P[n]
<1> DEFINE K == {k \in Nat : k <= n => iter[1 .. k] \in P[k]}
<1>1. 0 \in K
  OBVIOUS
<1>2. ASSUME NEW k \in Nat, k \in K PROVE k + 1 \in K
  <2> SUFFICES ASSUME k + 1 <= n PROVE iter[1 .. (k + 1)] \in P[k + 1]
    OBVIOUS
  <2>1. k + 1 \in 1 .. n /\ (k + 1) - 1 = k
    OBVIOUS
  <2>2. iter[1 .. k] \in P[k]
    BY <1>2
  <2>3. QED
    BY <2>1, <2>2
<1>3. Nat \subseteq K
  <2> HIDE DEF K
  <2>1. QED
    BY <1>1, <1>2, NatSetInduction
<1>4. QED
  BY <1>3

\* The same for a loop over the elements of a finite set (FoldSet).
LEMMA SetLoopInvariant ==
  ASSUME NEW D, IsFiniteSet(D), NEW pick, \A s \in SUBSET D : s # {} => pick[s] \in s,
         NEW K, {} \in K, \A s \in SUBSET D : s # {} /\ s \ {pick[s]} \in K => s \in K
  PROVE  D \in K
<1> DEFINE F == {s \in SUBSET D : s \notin K}
<1> SUFFICES ASSUME D \notin K PROVE FALSE
  OBVIOUS
<1>1. F # {} /\ \A s \in F : IsFiniteSet(s)
  BY FS_Subset
<1>2. PICK M \in F : \A s \in F : s \subseteq M => s = M
  <2> HIDE DEF F
  <2>1. QED
    BY <1>1, FiniteMinimum
<1>3. M # {} /\ M \in SUBSET D
  <2>1. M \in SUBSET D /\ M \notin K
    BY <1>2, Zenon
  <2>2. QED
    BY <2>1
<1>4. pick[M] \in M /\ M \ {pick[M]} \in SUBSET D
  BY <1>3
<1>5. M \ {pick[M]} \in F
  BY <1>2, <1>3, <1>4
<1>6. QED
  BY <1>2, <1>4, <1>5
-----------------------------------------------------------------------------
\* A number of rounds of a loop: the function that gives the value after each.
Iterates(g, n, base, step) ==
  \A k \in 0 .. n : g[k] = IF k = 0 THEN base ELSE step[g[k - 1]]

LEMMA IterationExists ==
  ASSUME NEW n \in Nat, NEW X, NEW base \in X, NEW step \in [X -> X]
  PROVE  \E g \in [0 .. n -> X] : Iterates(g, n, base, step)
<1> DEFINE Good(g, b) == \A k \in 0 .. n : k <= b => g[k] = IF k = 0 THEN base ELSE step[g[k - 1]]
           K == {b \in Nat : \E g \in [0 .. n -> X] : Good(g, b)}
<1>1. 0 \in K
  <2> DEFINE g == [k \in 0 .. n |-> base]
  <2>1. g \in [0 .. n -> X] /\ Good(g, 0)
    OBVIOUS
  <2>2. QED
    BY <2>1
<1>2. ASSUME NEW b \in Nat, b \in K PROVE b + 1 \in K
  <2>1. PICK g \in [0 .. n -> X] : Good(g, b)
    BY <1>2
  <2> DEFINE h == [k \in 0 .. n |-> IF k = b + 1 THEN step[g[b]] ELSE g[k]]
  <2>2. CASE b + 1 > n
    <3>1. Good(g, b + 1)
      BY <2>1, <2>2
    <3> HIDE DEF Good
    <3>2. QED
      BY <3>1
  <2>3. CASE b + 1 <= n
    <3>1. b \in 0 .. n /\ g[b] \in X
      BY <2>3
    <3>2. h \in [0 .. n -> X]
      BY <3>1
    <3>3. ASSUME NEW k \in 0 .. n, k <= b + 1
          PROVE  h[k] = IF k = 0 THEN base ELSE step[h[k - 1]]
      <4>1. CASE k = b + 1
        <5>1. k # 0 /\ k - 1 = b /\ h[k - 1] = g[b]
          BY <3>1, <4>1
        <5>2. QED
          BY <4>1, <5>1
      <4>2. CASE k # b + 1
        <5>1. h[k] = g[k] /\ k <= b
          BY <3>3, <4>2
        <5>2. k # 0 => h[k - 1] = g[k - 1]
          BY <5>1
        <5>3. QED
          BY <2>1, <5>1, <5>2
      <4>3. QED
        BY <4>1, <4>2
    <3>4. Good(h, b + 1)
      BY <3>3
    <3> HIDE DEF Good, h
    <3>5. QED
      BY <3>2, <3>4
  <2> HIDE DEF K
  <2>4. QED
    BY <2>2, <2>3
<1>3. n \in K
  <2> HIDE DEF K
  <2>1. QED
    BY <1>1, <1>2, NatSetInduction
<1>4. PICK g \in [0 .. n -> X] : Good(g, n)
  BY <1>3
<1>5. QED
  BY <1>4 DEF Iterates


\* The powers of two count the subsets of 1 .. k, which is how the buddy allocator's
\* sizes are reasoned about.
LEMMA PowerIsCount ==
  ASSUME NEW k \in Nat
  PROVE  /\ IsFiniteSet(SUBSET (1 .. k))
         /\ Cardinality(SUBSET (1 .. k)) = 2^k
         /\ 2^k \in Nat
<1>1. IsFiniteSet(1 .. k) /\ Cardinality(1 .. k) = k
  BY FS_Interval
<1>2. IsFiniteSet(SUBSET (1 .. k)) /\ Cardinality(SUBSET (1 .. k)) = 2^k
  BY <1>1, FS_SUBSET
<1>3. QED
  BY <1>2, FS_CardinalityType

\* A block of order k + 1 is as large as two of order k.
LEMMA PowerDoubles ==
  ASSUME NEW k \in Nat
  PROVE  2^(k + 1) = 2^k + 2^k
<1> DEFINE A == SUBSET (1 .. k)
           x == k + 1
           B == {T \cup {x} : T \in A}
           f == [T \in A |-> T \cup {x}]
<1>1. 1 .. k + 1 = (1 .. k) \cup {x} /\ x \notin 1 .. k
  OBVIOUS
<1>2. SUBSET (1 .. k + 1) = A \cup B
  <2>1. ASSUME NEW T \in SUBSET (1 .. k + 1)  PROVE T \in A \cup B
    <3>1. T \ {x} \in A
      BY <1>1
    <3>2. CASE x \in T
      <4>1. T = (T \ {x}) \cup {x}
        BY <3>2
      <4>2. QED
        BY <3>1, <4>1
    <3>3. CASE x \notin T
      BY <3>1, <3>3
    <3>4. QED
      BY <3>2, <3>3
  <2>2. ASSUME NEW T \in A \cup B  PROVE T \in SUBSET (1 .. k + 1)
    BY <1>1
  <2>3. QED
    BY <2>1, <2>2
<1>3. A \cap B = {}
  BY <1>1
<1>4. ExistsBijection(A, B)
  <2>1. \A S, T \in A : f[S] = f[T] => S = T
    BY <1>1
  <2>2. f \in [A -> B] /\ \A T \in B : \E S \in A : f[S] = T
    OBVIOUS
  <2> HIDE DEF A, B, f
  <2>3. f \in Bijection(A, B)
    BY <2>1, <2>2 DEF Bijection, Injection, Surjection, IsInjective
  <2>4. QED
    BY <2>3 DEF ExistsBijection
<1>5. IsFiniteSet(A) /\ Cardinality(A) = 2^k /\ 2^k \in Nat
  BY PowerIsCount
<1>6. IsFiniteSet(B) /\ Cardinality(B) = 2^k
  BY <1>4, <1>5, FS_Bijection
<1>7. Cardinality(A \cup B) = 2^k + 2^k - Cardinality(A \cap B)
  BY <1>5, <1>6, FS_Union
<1>8. Cardinality(A \cap B) = 0
  BY <1>3, FS_EmptySet
<1>9. Cardinality(SUBSET (1 .. k + 1)) = 2^(k + 1)
  BY PowerIsCount, k + 1 \in Nat
<1>10. Cardinality(A \cup B) = 2^(k + 1)
  BY <1>2, <1>9
<1> HIDE DEF A, B, f
<1>11. 2^k + 2^k - 0 = 2^(k + 1)
  BY <1>7, <1>8, <1>10
<1>12. QED
  BY <1>5, <1>11

\* A block of a higher order is larger.
LEMMA PowerGrows ==
  ASSUME NEW j \in Nat, NEW k \in Nat, j < k
  PROVE  2^j < 2^k
<1>1. SUBSET (1 .. j) \in SUBSET (SUBSET (1 .. k))
  OBVIOUS
<1>2. SUBSET (1 .. j) # SUBSET (1 .. k)
  <2>1. 1 .. k \notin SUBSET (1 .. j)
    <3>1. k \in 1 .. k /\ k \notin 1 .. j
      OBVIOUS
    <3>2. QED
      BY <3>1
  <2>2. QED
    BY <2>1
<1>3. /\ IsFiniteSet(SUBSET (1 .. k)) /\ Cardinality(SUBSET (1 .. k)) = 2^k /\ 2^k \in Nat
      /\ Cardinality(SUBSET (1 .. j)) = 2^j /\ 2^j \in Nat
  BY PowerIsCount
<1>4. /\ Cardinality(SUBSET (1 .. j)) <= Cardinality(SUBSET (1 .. k))
      /\ Cardinality(SUBSET (1 .. j)) # Cardinality(SUBSET (1 .. k))
  <2> DEFINE S == SUBSET (1 .. k)
             T == SUBSET (1 .. j)
  <2>1. T \in SUBSET S /\ T # S /\ IsFiniteSet(S)
    BY <1>1, <1>2, <1>3
  <2> HIDE DEF S, T
  <2>2. QED
    BY <2>1, FS_Subset DEF S, T
<1>5. QED
  BY <1>3, <1>4

\* There is a power of two above every number.
LEMMA PowerExceeds ==
  ASSUME NEW k \in Nat
  PROVE  k < 2^k
<1> DEFINE f == [i \in 0 .. k |-> 1 .. i]
<1>1. f \in Injection(0 .. k, SUBSET (1 .. k))
  <2>1. f \in [0 .. k -> SUBSET (1 .. k)]
    OBVIOUS
  <2>2. ASSUME NEW i \in 0 .. k, NEW j \in 0 .. k, i < j  PROVE f[i] # f[j]
    <3>1. j \in f[j] /\ j \notin f[i]
      BY <2>2
    <3>2. QED
      BY <3>1
  <2>3. \A i, j \in 0 .. k : f[i] = f[j] => i = j
    BY <2>2
  <2> HIDE DEF f
  <2>4. QED
    BY <2>1, <2>3 DEF Injection, IsInjective
<1>2. Cardinality(0 .. k) = k + 1
  BY FS_Interval
<1>3. IsFiniteSet(SUBSET (1 .. k)) /\ Cardinality(SUBSET (1 .. k)) = 2^k /\ 2^k \in Nat
  BY PowerIsCount
<1>4. Cardinality(0 .. k) <= Cardinality(SUBSET (1 .. k))
  BY <1>1, <1>3, FS_Injection
<1>5. QED
  BY <1>2, <1>3, <1>4
-----------------------------------------------------------------------------
\* nx goes through the addresses R upwards, and from the highest one back to 0.
RingOf(nx, R) ==
  \A a \in R : /\ nx[a] \in R
               /\ \/ a < nx[a] /\ \A b \in R : ~(a < b /\ b < nx[a])
                  \/ nx[a] = 0 /\ \A b \in R : b <= a

\* f makes n steps on the ring from one of its blocks, and is back after len.
Walks(f, n, nx, R, from) ==
  f \in [0 .. n -> R] /\ f[0] = from /\ \A k \in 1 .. n : f[k] = nx[f[k - 1]]

BackAfter(len, f, R, from) ==
  /\ f[len] = from /\ \A j \in 1 .. len - 1 : f[j] # from
  /\ {f[k] : k \in 0 .. len} = R

\* A bounded set of addresses has a highest one.
LEMMA HighestOf ==
  ASSUME NEW B \in Nat, NEW V \in SUBSET (0 .. B), V # {}
  PROVE  \E m \in V : \A a \in V : a <= m
<1> DEFINE D == {B - a : a \in V}
<1>1. D \subseteq Nat /\ D # {}
  <2>1. \A a \in V : a \in 0 .. B
    OBVIOUS
  <2>2. \A a \in V : B - a \in Nat
    BY <2>1
  <2>3. QED
    BY <2>2
<1> HIDE DEF D
<1>2. PICK d \in D : \A e \in D : d <= e
  BY <1>1, LeastElement
<1> USE DEF D
<1>3. PICK m \in V : d = B - m
  BY <1>2
<1>4. \A a \in V : B - m <= B - a
  BY <1>2, <1>3
<1>5. QED
  BY <1>4

\* The free block below an address: where slob_free links a block.
LEMMA BelowExists ==
  ASSUME NEW B \in Nat, NEW R \in SUBSET (0 .. B), 0 \in R, NEW x \in Nat, 0 < x
  PROVE  \E p \in R : p < x /\ \A a \in R : a < x => a <= p
<1> DEFINE V == {a \in R : a < x}
<1>1. V \in SUBSET (0 .. B) /\ V # {}
  OBVIOUS
<1> HIDE DEF V
<1>2. PICK p \in V : \A a \in V : a <= p
  BY <1>1, HighestOf
<1>3. QED
  BY <1>2 DEF V

\* No two blocks have the same successor.
LEMMA RingInjective ==
  ASSUME NEW R \in SUBSET Nat, NEW nx, RingOf(nx, R)
  PROVE  \A a, b \in R : nx[a] = nx[b] => a = b
<1>1. ASSUME NEW a \in R, NEW b \in R, a < b, nx[a] = nx[b]  PROVE FALSE
  <2>1. /\ nx[a] \in R
        /\ \/ a < nx[a] /\ \A c \in R : ~(a < c /\ c < nx[a])
           \/ nx[a] = 0 /\ \A c \in R : c <= a
    BY DEF RingOf
  <2>2. /\ \/ b < nx[b] /\ \A c \in R : ~(b < c /\ c < nx[b])
           \/ nx[b] = 0 /\ \A c \in R : c <= b
    BY DEF RingOf
  <2>3. QED
    BY <1>1, <2>1, <2>2
<1>2. QED
  BY <1>1

\* Whoever follows the ring from anywhere meets all of it.
LEMMA RingWhole ==
  ASSUME NEW B \in Nat, NEW R \in SUBSET (0 .. B), 0 \in R, NEW nx, RingOf(nx, R),
         NEW V \in SUBSET R, V # {}, \A x \in V : nx[x] \in V
  PROVE  V = R
<1>1. 0 \in V
  <2>1. PICK m \in V : \A a \in V : a <= m
    BY HighestOf
  <2>2. nx[m] \in V /\ nx[m] <= m /\ m \in R
    BY <2>1
  <2>3. m \in Nat /\ nx[m] \in Nat
    <3>1. m \in 0 .. B /\ nx[m] \in 0 .. B
      BY <2>2
    <3>2. QED
      BY <3>1
  <2>4. nx[m] = 0
    BY <2>2, <2>3 DEF RingOf
  <2>5. QED
    BY <2>2, <2>4
<1>2. SUFFICES ASSUME R \ V # {}  PROVE FALSE
  OBVIOUS
<1>3. PICK x \in R \ V : \A y \in R \ V : x <= y
  <2>1. R \ V \subseteq Nat
    OBVIOUS
  <2>2. QED
    BY <1>2, <2>1, LeastElement
<1>4. x \in Nat /\ 0 < x
  BY <1>1, <1>3
<1>5. PICK p \in R : p < x /\ \A a \in R : a < x => a <= p
  BY <1>4, BelowExists
<1>6. p \in V /\ p \in Nat
  BY <1>3, <1>4, <1>5
<1>7. nx[p] \in V /\ nx[p] \in R /\ nx[p] \in Nat
  <2>1. nx[p] \in V /\ nx[p] \in 0 .. B
    BY <1>6
  <2>2. QED
    BY <2>1
<1>8. CASE p < nx[p] /\ \A b \in R : ~(p < b /\ b < nx[p])
  <2>1. nx[p] <= x
    BY <1>3, <1>4, <1>5, <1>7, <1>8
  <2>2. ~(nx[p] < x)
    BY <1>4, <1>5, <1>6, <1>7, <1>8
  <2>3. nx[p] = x
    BY <1>4, <1>7, <2>1, <2>2
  <2>4. QED
    BY <1>3, <1>7, <2>3
<1>9. CASE nx[p] = 0 /\ \A b \in R : b <= p
  BY <1>3, <1>4, <1>5, <1>6, <1>9
<1>10. QED
  BY <1>5, <1>8, <1>9 DEF RingOf

\* A walk of n steps along the ring, n being at least its length, comes back, and
\* by then has met every block.
LEMMA WalkComesBack ==
  ASSUME NEW B \in Nat, NEW R \in SUBSET (0 .. B), 0 \in R, NEW nx, RingOf(nx, R),
         NEW from \in R, NEW n \in Nat, Cardinality(R) <= n,
         NEW f, Walks(f, n, nx, R, from)
  PROVE  \E len \in 1 .. n : BackAfter(len, f, R, from)
<1>0. f \in [0 .. n -> R] /\ f[0] = from /\ \A k \in 1 .. n : f[k] = nx[f[k - 1]]
  BY DEF Walks
<1>1. IsFiniteSet(R) /\ Cardinality(R) \in Nat
  <2>1. IsFiniteSet(0 .. B)
    BY FS_Interval
  <2>2. IsFiniteSet(R)
    BY <2>1, FS_Subset
  <2>3. QED
    BY <2>2, FS_CardinalityType
<1>2. \E i, j \in 0 .. n : i < j /\ f[i] = f[j]
  <2>1. IsFiniteSet(0 .. n) /\ Cardinality(0 .. n) = n + 1
    BY FS_Interval
  <2>2. Cardinality(R) < Cardinality(0 .. n)
    BY <1>1, <2>1
  <2>3. PICK x, y \in 0 .. n : x # y /\ f[x] = f[y]
    BY <1>0, <1>1, <2>1, <2>2, FS_PigeonHole
  <2>4. CASE x < y
    BY <2>3, <2>4
  <2>5. CASE y < x
    BY <2>3, <2>5
  <2>6. QED
    BY <2>3, <2>4, <2>5
<1> DEFINE I == {i \in 0 .. n : \E j \in 0 .. n : i < j /\ f[i] = f[j]}
<1>3. PICK i \in I : \A k \in I : i <= k
  <2>1. I \subseteq 0 .. n /\ I # {}
    BY <1>2, Zenon
  <2>3. I \subseteq Nat
    BY <2>1
  <2> HIDE DEF I
  <2>2. QED
    BY <2>1, <2>3, LeastElement
<1>4. PICK j \in 0 .. n : i < j /\ f[i] = f[j]
  BY <1>3
<1>5. i = 0
  <2>1. SUFFICES ASSUME i # 0  PROVE FALSE
    OBVIOUS
  <2>2. i \in 1 .. n /\ j \in 1 .. n /\ i - 1 \in 0 .. n /\ j - 1 \in 0 .. n /\ i - 1 < j - 1
    BY <1>3, <1>4, <2>1
  <2>3. nx[f[i - 1]] = nx[f[j - 1]] /\ f[i - 1] \in R /\ f[j - 1] \in R
    BY <1>0, <1>4, <2>2
  <2>4. f[i - 1] = f[j - 1]
    <3>1. R \in SUBSET Nat
      BY \A a \in R : a \in 0 .. B
    <3>2. \A a, b \in R : nx[a] = nx[b] => a = b
      BY <3>1, RingInjective
    <3>3. QED
      BY <2>3, <3>2
  <2>5. i - 1 \in I
    BY <2>2, <2>4
  <2>6. QED
    BY <1>3, <2>2, <2>5
<1> DEFINE L == {k \in 1 .. n : f[k] = from}
<1>6. PICK len \in L : \A k \in L : len <= k
  <2>1. j \in L
    BY <1>0, <1>4, <1>5
  <2>2. L \subseteq Nat /\ L # {}
    <3>1. L \subseteq 1 .. n /\ L # {}
      BY <2>1, Zenon
    <3>2. QED
      BY <3>1
  <2> HIDE DEF L
  <2>3. QED
    BY <2>2, LeastElement
<1>7. len \in 1 .. n /\ f[len] = from /\ \A k \in 1 .. len - 1 : f[k] # from
  BY <1>6
<1> DEFINE V == {f[k] : k \in 0 .. len}
<1>8. V \in SUBSET R /\ V # {}
  BY <1>0, <1>7
<1>9. \A x \in V : nx[x] \in V
  <2>1. ASSUME NEW k \in 0 .. len  PROVE nx[f[k]] \in V
    <3>1. CASE k < len
      <4>1. k + 1 \in 1 .. n /\ (k + 1) - 1 = k /\ k + 1 \in 0 .. len
        BY <1>7, <3>1
      <4>2. f[k + 1] = nx[f[k]]
        BY <1>0, <4>1
      <4>3. QED
        BY <4>1, <4>2
    <3>2. CASE k = len
      <4>1. f[1] = nx[f[0]] /\ 1 \in 0 .. len
        BY <1>0, <1>7
      <4>2. QED
        BY <1>0, <1>7, <3>2, <4>1
    <3>3. QED
      BY <3>1, <3>2
  <2>2. QED
    BY <2>1
<1>10. V = R
  <2> HIDE DEF V
  <2>1. QED
    BY <1>8, <1>9, RingWhole
<1>11. QED
  BY <1>7, <1>10 DEF BackAfter
\* slob_free (kmalloc.c) links a block behind the free one below it.
LEMMA LinkKeepsRing ==
  ASSUME NEW R \in SUBSET Nat, 0 \in R, NEW nx, RingOf(nx, R), NEW b \in Nat, b \notin R,
         NEW cur \in R, cur < b, \A a \in R : a < b => a <= cur,
         NEW my, my[b] = nx[cur], my[cur] = b, \A a \in R \ {cur} : my[a] = nx[a]
  PROVE  RingOf(my, R \cup {b})
<1>1. /\ nx[cur] \in R
      /\ \/ cur < nx[cur] /\ \A c \in R : ~(cur < c /\ c < nx[cur])
         \/ nx[cur] = 0 /\ \A c \in R : c <= cur
  BY DEF RingOf
<1>2. ASSUME NEW a \in R \cup {b}
      PROVE  /\ my[a] \in R \cup {b}
             /\ \/ a < my[a] /\ \A c \in R \cup {b} : ~(a < c /\ c < my[a])
                \/ my[a] = 0 /\ \A c \in R \cup {b} : c <= a
  <2>1. CASE a = b
    <3>1. CASE cur < nx[cur] /\ \A c \in R : ~(cur < c /\ c < nx[cur])
      <4>1. b < nx[cur]
        <5>1. nx[cur] \in Nat /\ cur \in Nat /\ nx[cur] # b /\ cur < nx[cur]
          BY <1>1, <3>1
        <5>2. nx[cur] < b => nx[cur] <= cur
          BY <1>1
        <5>3. QED
          BY <5>1, <5>2
      <4>2. \A c \in R \cup {b} : ~(b < c /\ c < nx[cur])
        BY <1>1, <3>1
      <4>3. QED
        BY <1>1, <2>1, <4>1, <4>2
    <3>2. CASE nx[cur] = 0 /\ \A c \in R : c <= cur
      BY <2>1, <3>2
    <3>3. QED
      BY <1>1, <3>1, <3>2
  <2>2. CASE a = cur
    <3>1. \A c \in R \cup {b} : ~(cur < c /\ c < b)
      OBVIOUS
    <3>2. QED
      BY <2>2, <3>1
  <2>3. CASE a \in R \ {cur}
    <3>1. /\ my[a] = nx[a] /\ nx[a] \in R
          /\ \/ a < nx[a] /\ \A c \in R : ~(a < c /\ c < nx[a])
             \/ nx[a] = 0 /\ \A c \in R : c <= a
      BY <2>3 DEF RingOf
    <3>2. CASE a < nx[a] /\ \A c \in R : ~(a < c /\ c < nx[a])
      <4>1. ~(a < b /\ b < nx[a])
        <5>1. SUFFICES ASSUME a < b, b < nx[a]  PROVE FALSE
          OBVIOUS
        <5>2. a \in Nat /\ nx[a] \in Nat /\ a <= cur /\ a # cur
          BY <2>3, <3>1, <5>1
        <5>3. a < cur /\ cur < nx[a]
          BY <5>1, <5>2
        <5>4. QED
          BY <3>2, <5>3
      <4>2. QED
        BY <3>1, <3>2, <4>1
    <3>3. CASE nx[a] = 0 /\ \A c \in R : c <= a
      <4>1. b <= a
        BY <2>3, <3>3
      <4>2. QED
        BY <3>1, <3>3, <4>1
    <3>4. QED
      BY <3>1, <3>2, <3>3
  <2>4. QED
    BY <2>1, <2>2, <2>3
<1>3. QED
  BY <1>2 DEF RingOf

\* A block that leaves the ring: its predecessor goes on to its successor.
LEMMA UnlinkKeepsRing ==
  ASSUME NEW R \in SUBSET Nat, 0 \in R, NEW nx, RingOf(nx, R), NEW a \in R,
         NEW n, n = nx[a], n # 0, NEW my, my[a] = nx[n], \A c \in R \ {a, n} : my[c] = nx[c]
  PROVE  RingOf(my, R \ {n})
<1>1. n \in R /\ n \in Nat /\ a \in Nat /\ a < n /\ \A c \in R : ~(a < c /\ c < n)
  BY DEF RingOf
<1>2. /\ nx[n] \in R /\ nx[n] \in Nat
      /\ \/ n < nx[n] /\ \A c \in R : ~(n < c /\ c < nx[n])
         \/ nx[n] = 0 /\ \A c \in R : c <= n
  BY <1>1 DEF RingOf
<1>3. ASSUME NEW c \in R \ {n}
      PROVE  /\ my[c] \in R \ {n}
             /\ \/ c < my[c] /\ \A d \in R \ {n} : ~(c < d /\ d < my[c])
                \/ my[c] = 0 /\ \A d \in R \ {n} : d <= c
  <2>1. CASE c = a
    <3>1. my[c] = nx[n] /\ nx[n] # n
      BY <1>1, <1>2, <2>1
    <3>2. CASE n < nx[n] /\ \A d \in R : ~(n < d /\ d < nx[n])
      <4>1. a < nx[n]
        BY <1>1, <1>2, <3>2
      <4>2. \A d \in R \ {n} : ~(a < d /\ d < nx[n])
        BY <1>1, <1>2, <3>2
      <4>3. QED
        BY <1>2, <2>1, <3>1, <4>1, <4>2
    <3>3. CASE nx[n] = 0 /\ \A d \in R : d <= n
      <4>1. \A d \in R \ {n} : d <= a
        BY <1>1, <3>3
      <4>2. QED
        BY <1>2, <2>1, <3>1, <3>3, <4>1
    <3>4. QED
      BY <1>2, <3>2, <3>3
  <2>2. CASE c # a
    <3>1. /\ my[c] = nx[c] /\ nx[c] \in R
          /\ \/ c < nx[c] /\ \A d \in R : ~(c < d /\ d < nx[c])
             \/ nx[c] = 0 /\ \A d \in R : d <= c
      BY <2>2 DEF RingOf
    <3>2. nx[c] # n
      BY <1>1, <2>2, RingInjective
    <3>3. QED
      BY <3>1, <3>2
  <2>3. QED
    BY <2>1, <2>2
<1>4. QED
  BY <1>3 DEF RingOf
=============================================================================

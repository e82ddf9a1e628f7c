----------------------------- MODULE CountingProofs ---------------------------
(***************************************************************************)
(* Induction over the numbers from 0 to n and over sequences, stated of a  *)
(* set instead of a predicate: a set of numbers that is not empty has a    *)
(* least element, because the intervals that end in its members are well   *)
(* founded.  With it, what a recursive function over 0..n is.              *)
(***************************************************************************)
EXTENDS Integers, Sequences, FiniteSets, FiniteSetTheorems, SequenceTheorems,
        WellFoundedInduction, TLAPS

LEMMA LeastOfInterval ==
  ASSUME NEW n \in Nat, NEW D, D \subseteq 0 .. n, D # {}
  PROVE  \E j \in D : \A i \in 0 .. j - 1 : i \notin D
<1> DEFINE F == {0 .. j : j \in D}
           R == StrictSubsetOrdering(0 .. n)
<1>1. IsFiniteSet(0 .. n)
  BY FS_Interval
<1>2. FiniteSubsetsOf(0 .. n) = SUBSET (0 .. n)
  BY <1>1, FS_FiniteSubsetsOfFinite
<1>3. IsWellFoundedOn(R, SUBSET (0 .. n))
  BY <1>2, FS_StrictSubsetOrderingWellFounded
<1>4. F \subseteq SUBSET (0 .. n) /\ F # {}
  <2>1. \A j \in D : j \in 0 .. n /\ 0 .. j \subseteq 0 .. n
    OBVIOUS
  <2>2. F \subseteq SUBSET (0 .. n)
    BY <2>1
  <2>3. F # {}
    OBVIOUS
  <2> QED
    BY <2>2, <2>3
<1>5. PICK x \in F : \A y \in F : ~(<<y, x>> \in R)
  <2> HIDE DEF F, R
  <2> QED
    BY <1>3, <1>4, WFMin
<1>6. PICK j \in D : x = 0 .. j
  OBVIOUS
<1>7. ASSUME NEW i \in 0 .. j - 1, i \in D
      PROVE  FALSE
  <2>1. 0 .. i \in F /\ i \in 0 .. n /\ j \in 0 .. n /\ i < j
    BY <1>6, <1>7
  <2>2. 0 .. i \subseteq 0 .. j /\ 0 .. i # 0 .. j
    <3>1. j \in 0 .. j /\ j \notin 0 .. i
      BY <2>1
    <3> QED
      BY <2>1, <3>1
  <2>3. <<0 .. i, x>> \in R
    BY <1>6, <2>1, <2>2 DEF StrictSubsetOrdering
  <2> QED
    BY <1>5, <2>1, <2>3
<1> QED
  BY <1>7

\* What is true of 0, and of a number if it is of the one before, is true up to n.
LEMMA IntervalInduction ==
  ASSUME NEW n \in Nat, NEW S, 0 \in S, \A i \in 1 .. n : i - 1 \in S => i \in S
  PROVE  0 .. n \subseteq S
<1> DEFINE D == (0 .. n) \ S
<1> SUFFICES ASSUME D # {} PROVE FALSE
  OBVIOUS
<1>1. PICK j \in D : \A i \in 0 .. j - 1 : i \notin D
  <2>1. D \subseteq 0 .. n
    OBVIOUS
  <2> HIDE DEF D
  <2> QED
    BY <2>1, LeastOfInterval
<1>2. j \in 1 .. n /\ j \notin S
  OBVIOUS
<1>3. j - 1 \in S
  BY <1>1, <1>2
<1> QED
  BY <1>2, <1>3

\* A set of numbers from 1 on has a first one, too.
LEMMA TheFirstOne ==
  ASSUME NEW n \in Nat, NEW D, D \subseteq 1..n, D # {}
  PROVE  \E k \in D : \A j \in 1..(k - 1) : j \notin D
<1>1. D \subseteq 0..n
  OBVIOUS
<1>2. PICK k \in D : \A i \in 0..(k - 1) : i \notin D
  BY <1>1, LeastOfInterval
<1>3. \A j \in 1..(k - 1) : j \in 0..(k - 1)
  OBVIOUS
<1> QED
  BY <1>2, <1>3

\* A function is defined by what it is of 0, and of a number from what it is of the one
\* before.
IsRecursive(g, n, V, b, step) ==
  g \in [0..n -> V] /\ g[0] = b /\ \A k \in 1..n : g[k] = step[k][g[k - 1]]
LEMMA Recursion ==
  ASSUME NEW n \in Nat, NEW V, NEW b \in V, NEW step \in [1..n -> [V -> V]]
  PROVE  \E g : IsRecursive(g, n, V, b, step)
<1> DEFINE Is(g, m) == /\ g \in [0..m -> V] /\ g[0] = b
                       /\ \A k \in 1..m : g[k] = step[k][g[k - 1]]
           S == {m \in 0..n : \E g : Is(g, m)}
<1>1. 0 \in S
  <2> DEFINE g == [k \in 0..0 |-> b]
  <2>1. Is(g, 0)
    OBVIOUS
  <2> HIDE DEF Is, g
  <2> QED
    BY <2>1
<1>2. ASSUME NEW m \in 1..n, m - 1 \in S PROVE m \in S
  <2>1. PICK g : Is(g, m - 1)
    BY <1>2
  <2> DEFINE h == [k \in 0..m |-> IF k = m THEN step[m][g[m - 1]] ELSE g[k]]
  <2>2. g \in [0..(m - 1) -> V] /\ g[0] = b /\ \A k \in 1..(m - 1) : g[k] = step[k][g[k - 1]]
    BY <2>1
  <2>3. m \in Nat /\ m - 1 \in 0..(m - 1) /\ m \in 1..n
    BY <1>2
  <2>4. step[m][g[m - 1]] \in V
    BY <2>2, <2>3
  <2>5. h \in [0..m -> V] /\ h[0] = b
    BY <2>2, <2>3, <2>4
  <2>6. ASSUME NEW k \in 1..m PROVE h[k] = step[k][h[k - 1]]
    <3>1. k - 1 \in 0..m /\ k - 1 # m /\ h[k - 1] = g[k - 1]
      BY <2>3
    <3>2. CASE k = m
      BY <3>1, <3>2
    <3>3. CASE k # m
      <4>1. k \in 1..(m - 1) /\ h[k] = g[k]
        BY <2>3, <3>3
      <4> QED
        BY <2>2, <3>1, <4>1
    <3> QED
      BY <3>2, <3>3
  <2> QED
    <3> HIDE DEF h
    <3>1. Is(h, m)
      BY <2>5, <2>6
    <3>2. m \in 0..n
      OBVIOUS
    <3> HIDE DEF Is
    <3> QED
      BY <3>1, <3>2
<1> HIDE DEF Is, S
<1>3. 0..n \subseteq S
  BY <1>1, <1>2, IntervalInduction
<1>4. n \in S
  BY <1>3
<1>5. PICK g : Is(g, n)
  BY <1>4 DEF S
<1>6. IsRecursive(g, n, V, b, step)
  BY <1>5 DEF Is, IsRecursive
<1> QED
  BY <1>6

\* ... and only one.
LEMMA RecursionIsOne ==
  ASSUME NEW n \in Nat, NEW g, NEW h, g[0] = h[0],
         \A k \in 1..n : g[k - 1] = h[k - 1] => g[k] = h[k]
  PROVE  g[n] = h[n]
<1> DEFINE S == {k \in 0..n : g[k] = h[k]}
<1>1. 0 \in S /\ \A k \in 1..n : k - 1 \in S => k \in S
  OBVIOUS
<1> HIDE DEF S
<1>2. 0..n \subseteq S
  BY <1>1, IntervalInduction
<1> QED
  BY <1>2 DEF S

\* Its values are of the type of the first one, if that is kept from each to the next.
LEMMA RecursionIsTyped ==
  ASSUME NEW n \in Nat, NEW V, NEW g, g[0] \in V, \A k \in 1..n : g[k - 1] \in V => g[k] \in V
  PROVE  \A k \in 0..n : g[k] \in V
<1> DEFINE S == {k \in 0..n : g[k] \in V}
<1>1. 0 \in S /\ \A k \in 1..n : k - 1 \in S => k \in S
  OBVIOUS
<1> HIDE DEF S
<1>2. 0..n \subseteq S
  BY <1>1, IntervalInduction
<1> QED
  BY <1>2 DEF S

\* What is true of the empty sequence, and of one with an element more, is true of all.
LEMMA SequenceInduction ==
  ASSUME NEW E, NEW G, <<>> \in G, \A x \in Seq(E), e \in E : x \in G => Append(x, e) \in G
  PROVE  Seq(E) \subseteq G
<1> SUFFICES ASSUME NEW x \in Seq(E) PROVE x \in G
  OBVIOUS
<1> DEFINE n == Len(x)
           S == {k \in 0..n : SubSeq(x, 1, k) \in G}
<1>1. n \in Nat /\ SubSeq(x, 1, 0) = <<>> /\ SubSeq(x, 1, n) = x
  BY SubSeqEmpty, SubSeqFull, LenProperties
<1>2. ASSUME NEW k \in 1..n, k - 1 \in S PROVE k \in S
  <2>1. /\ 1 \in 1..Len(x) /\ k \in 1..Len(x) /\ x[k] \in E
        /\ SubSeq(x, 1, k - 1) \in Seq(E) /\ k \in 0..n
    <3>1. \A i \in 1..(k - 1) : x[i] \in E
      BY <1>1, ElementOfSeq
    <3>2. 1 \in Int /\ k - 1 \in Int
      OBVIOUS
    <3>3. SubSeq(x, 1, k - 1) \in Seq(E)
      BY <3>1, <3>2, SubSeqProperties
    <3> QED
      BY <1>1, <3>3, ElementOfSeq
  <2>2. SubSeq(x, 1, k) = SubSeq(x, 1, k - 1) \o <<x[k]>>
    <3>1. k \in 1..Len(x)
      BY <2>1
    <3> QED
      BY <2>1, <3>1, SubSeqRecursiveSecond
  <2>3. SubSeq(x, 1, k) = Append(SubSeq(x, 1, k - 1), x[k])
    BY <2>1, <2>2, AppendIsConcat
  <2>4. SubSeq(x, 1, k - 1) \in G
    BY <1>2
  <2>5. SubSeq(x, 1, k) \in G
    BY <2>1, <2>3, <2>4
  <2> QED
    BY <2>1, <2>5
<1>3. 0 \in S
  <2>1. SubSeq(x, 1, 0) \in G
    BY <1>1
  <2>2. 0 \in 0..n
    BY <1>1
  <2> QED
    BY <2>1, <2>2
<1> HIDE DEF S
<1>4. 0..n \subseteq S
  BY <1>1, <1>2, <1>3, IntervalInduction
<1>5. n \in S
  BY <1>1, <1>4
<1>6. SubSeq(x, 1, n) \in G
  BY <1>5 DEF S
<1> QED
  BY <1>1, <1>6
===============================================================================

------------------------------ MODULE Induction ------------------------------
(***************************************************************************)
(* Induction and recursion over the natural numbers, stated with sets and  *)
(* functions so that a proof can cite them: what holds of a set of numbers *)
(* instead of a predicate, a recursion whose step is a function instead of *)
(* an operator.  The proofs about the histories, lists and folds of the    *)
(* models rest on these.                                                   *)
(***************************************************************************)
EXTENDS Integers, Sequences, WellFoundedInduction, TLAPS

Less == OpToRel(<, Nat)

LEMMA LessIsWellFounded == IsWellFoundedOn(Less, Nat)
BY NatLessThanWellFounded, Zenon DEF Less

\* Every set of numbers that is not empty has a least member.
LEMMA LeastMember ==
    ASSUME NEW T, T \subseteq Nat, T # {}
    PROVE  \E m \in T : \A n \in T : m <= n
<1>1. PICK m \in T : \A n \in T : ~(<<n, m>> \in Less)
  BY LessIsWellFounded, WFMin
<1>2. ASSUME NEW x \in Nat, NEW y \in Nat, x < y PROVE <<x, y>> \in Less
  BY <1>2, Zenon DEF Less, OpToRel
<1>3. ASSUME NEW n \in T PROVE m <= n
  <2>1. n \in Nat /\ m \in Nat
    OBVIOUS
  <2>2. ~(n < m)
    BY <1>1, <1>2, <2>1
  <2>3. QED
    BY <2>1, <2>2
<1>4. QED
  BY <1>3

\* A set that has 0, and with every number the next, has them all.
LEMMA SetInduction ==
    ASSUME NEW S, 0 \in S, \A n \in Nat : n \in S => n + 1 \in S
    PROVE  Nat \subseteq S
<1> SUFFICES ASSUME Nat \ S # {} PROVE FALSE
  OBVIOUS
<1>1. PICK m \in Nat \ S : \A n \in Nat \ S : m <= n
  BY LeastMember
<1>2. m - 1 \in Nat
  BY <1>1
<1>3. m - 1 \notin Nat \ S
  BY <1>1, <1>2
<1>4. m - 1 + 1 \in S
  BY <1>2, <1>3
<1>5. QED
  BY <1>4

\* The same up to a number N.
LEMMA IntervalInduction ==
    ASSUME NEW S, NEW N \in Nat, 0 \in S, \A n \in 0..N : n < N /\ n \in S => n + 1 \in S
    PROVE  0..N \subseteq S
<1> DEFINE T == {n \in Nat : n <= N => n \in S}
<1>1. 0 \in T
  OBVIOUS
<1>2. ASSUME NEW n \in Nat, n \in T PROVE n + 1 \in T
  BY <1>2
<1> HIDE DEF T
<1>3. Nat \subseteq T
  BY <1>1, <1>2, SetInduction
<1>4. QED
  BY <1>3 DEF T

-----------------------------------------------------------------------------
\* g starts at base and goes on by F for N steps.
Follows(g, N, base, F) ==
    /\ g[0] = base
    /\ \A n \in 0..N : n < N => g[n + 1] = F[<<n, g[n]>>]

\* Two such functions agree.
LEMMA FollowsOnce ==
    ASSUME NEW N \in Nat, NEW base, NEW F, NEW g, NEW h,
           Follows(g, N, base, F), Follows(h, N, base, F)
    PROVE  \A n \in 0..N : g[n] = h[n]
<1> DEFINE T == {n \in 0..N : g[n] = h[n]}
<1>1. 0 \in T
  BY DEF Follows
<1>2. ASSUME NEW n \in 0..N, n < N, n \in T PROVE n + 1 \in T
  <2>1. g[n + 1] = F[<<n, g[n]>>] /\ h[n + 1] = F[<<n, h[n]>>] /\ g[n] = h[n]
    BY <1>2 DEF Follows
  <2>2. g[n + 1] = h[n + 1]
    BY <2>1
  <2>3. QED
    BY <1>2, <2>2
<1> HIDE DEF T
<1>3. 0..N \subseteq T
  BY <1>1, <1>2, IntervalInduction
<1>4. QED
  BY <1>3 DEF T

\* For any number of steps there is such a function.
LEMMA Recursion ==
    ASSUME NEW S, NEW base \in S, NEW F \in [Nat \X S -> S], NEW N \in Nat
    PROVE  \E g \in [0..N -> S] : Follows(g, N, base, F)
<1> DEFINE T == {n \in Nat : \E g \in [0..n -> S] : Follows(g, n, base, F)}
<1>1. 0 \in T
  <2>1. [n \in 0..0 |-> base] \in [0..0 -> S]
    OBVIOUS
  <2>2. Follows([n \in 0..0 |-> base], 0, base, F)
    BY DEF Follows
  <2>3. QED
    BY <2>1, <2>2
<1>2. ASSUME NEW n \in Nat, n \in T PROVE n + 1 \in T
  <2>1. PICK g \in [0..n -> S] : Follows(g, n, base, F)
    BY <1>2
  <2> DEFINE h == [k \in 0..(n + 1) |-> IF k <= n THEN g[k] ELSE F[<<n, g[n]>>]]
  <2>2. h \in [0..(n + 1) -> S]
    <3>1. F[<<n, g[n]>>] \in S
      OBVIOUS
    <3>2. QED
      BY <3>1
  <2>3. h[0] = base
    BY <2>1 DEF Follows
  <2>4. ASSUME NEW k \in 0..(n + 1), k < n + 1
        PROVE  h[k + 1] = F[<<k, h[k]>>]
    <3>1. CASE k < n
      BY <3>1, <2>1 DEF Follows
    <3>2. CASE k = n
      BY <3>2
    <3>3. QED
      BY <2>4, <3>1, <3>2
  <2> HIDE DEF h
  <2>5. Follows(h, n + 1, base, F)
    BY <2>3, <2>4 DEF Follows
  <2>6. QED
    BY <2>2, <2>5
<1> HIDE DEF T
<1>3. Nat \subseteq T
  BY <1>1, <1>2, SetInduction
<1>4. QED
  BY <1>3 DEF T

\* A function that starts at base, and from a value in S goes on by F, does so
\* all the way.
LEMMA Unfolding ==
    ASSUME NEW S, NEW base \in S, NEW F \in [Nat \X S -> S], NEW N \in Nat, NEW h,
           h[0] = base,
           \A n \in 0..N : n < N /\ h[n] \in S => h[n + 1] = F[<<n, h[n]>>]
    PROVE  (\A n \in 0..N : h[n] \in S) /\ Follows(h, N, base, F)
<1> DEFINE T == {n \in 0..N : h[n] \in S}
<1>1. 0 \in T
  OBVIOUS
<1>2. ASSUME NEW n \in 0..N, n < N, n \in T PROVE n + 1 \in T
  <2>1. h[n + 1] = F[<<n, h[n]>>] /\ h[n] \in S
    BY <1>2
  <2>2. F[<<n, h[n]>>] \in S
    BY <2>1
  <2>3. QED
    BY <1>2, <2>1, <2>2
<1> HIDE DEF T
<1>3. 0..N \subseteq T
  BY <1>1, <1>2, IntervalInduction
<1>4. \A n \in 0..N : h[n] \in S
  BY <1>3 DEF T
<1>5. QED
  BY <1>4 DEF Follows

-----------------------------------------------------------------------------
\* FoldLeft (SequencesExt) recurs over the sets of a sequence's indices, and
\* takes the largest of a set as its last.

Largest(s) == CHOOSE x \in s : \A y \in s : x >= y

LEMMA LargestOfAll ==
    ASSUME NEW n \in Nat, NEW s \in SUBSET (1..(n + 1)), n + 1 \in s
    PROVE  Largest(s) = n + 1
<1>1. \A y \in s : n + 1 >= y
  OBVIOUS
<1>2. \A x \in s : (\A y \in s : x >= y) => x = n + 1
  OBVIOUS
<1>3. QED
  BY <1>1, <1>2 DEF Largest

LEMMA LargestIsMember ==
    ASSUME NEW N \in Nat, NEW s \in SUBSET (1..N), s # {}
    PROVE  Largest(s) \in s
<1> DEFINE T == {N - x : x \in s}
<1>0. \A x \in s : x \in 1..N /\ N - x \in Nat
  OBVIOUS
<1>1. T \subseteq Nat /\ T # {}
  BY <1>0
<1>2. PICK k \in T : \A n \in T : k <= n
  BY <1>1, LeastMember
<1>3. PICK x \in s : k = N - x
  OBVIOUS
<1>4. \A y \in s : x >= y
  <2>1. ASSUME NEW y \in s PROVE N - x <= N - y
    BY <1>2, <1>3
  <2>2. QED
    BY <2>1
<1>5. QED
  BY <1>4 DEF Largest

\* What h says of the sets of indices up to n: F of the rest and the last.
Folds(h, n, base, F, list) ==
    \A s \in SUBSET (1..n) :
        h[s] = IF s = {} THEN base ELSE F[<<h[s \ {Largest(s)}], list[Largest(s)]>>]

LEMMA FoldRecursion ==
    ASSUME NEW S, NEW E, NEW base \in S, NEW F \in [S \X E -> S], NEW N \in Nat,
           NEW list \in [1..N -> E]
    PROVE  \E h \in [SUBSET (1..N) -> S] : Folds(h, N, base, F, list)
<1> DEFINE T == {n \in 0..N : \E h \in [SUBSET (1..n) -> S] : Folds(h, n, base, F, list)}
<1>1. 0 \in T
  <2> DEFINE h == [s \in SUBSET (1..0) |-> base]
  <2>1. h \in [SUBSET (1..0) -> S]
    OBVIOUS
  <2>2. \A s \in SUBSET (1..0) : s = {}
    OBVIOUS
  <2>3. Folds(h, 0, base, F, list)
    BY <2>2 DEF Folds
  <2>4. \E g \in [SUBSET (1..0) -> S] : Folds(g, 0, base, F, list)
    <3> HIDE DEF h
    <3>1. QED
      BY <2>1, <2>3
  <2>5. 0 \in 0..N
    OBVIOUS
  <2>6. QED
    BY <2>4, <2>5
<1>2. ASSUME NEW n \in 0..N, n < N, n \in T PROVE n + 1 \in T
  <2>1. PICK g \in [SUBSET (1..n) -> S] : Folds(g, n, base, F, list)
    BY <1>2
  <2> DEFINE h == [s \in SUBSET (1..(n + 1)) |->
                     IF n + 1 \in s THEN F[<<g[s \ {n + 1}], list[n + 1]>>] ELSE g[s]]
  <2>2. ASSUME NEW s \in SUBSET (1..(n + 1)), n + 1 \in s
        PROVE  s \ {n + 1} \in SUBSET (1..n)
    BY <1>2
  <2>3. ASSUME NEW s \in SUBSET (1..(n + 1)), n + 1 \notin s
        PROVE  s \in SUBSET (1..n)
    BY <1>2, <2>3
  <2>4. h \in [SUBSET (1..(n + 1)) -> S]
    <3>1. list[n + 1] \in E
      BY <1>2
    <3>2. ASSUME NEW s \in SUBSET (1..(n + 1)), n + 1 \in s
          PROVE  F[<<g[s \ {n + 1}], list[n + 1]>>] \in S
      <4>1. g[s \ {n + 1}] \in S
        BY <2>2, <3>2
      <4>2. QED
        BY <3>1, <4>1
    <3>3. ASSUME NEW s \in SUBSET (1..(n + 1)), n + 1 \notin s
          PROVE  g[s] \in S
      BY <2>3, <3>3
    <3>4. QED
      BY <3>2, <3>3
  <2>5. ASSUME NEW s \in SUBSET (1..(n + 1))
        PROVE  h[s] = IF s = {} THEN base
                      ELSE F[<<h[s \ {Largest(s)}], list[Largest(s)]>>]
    <3>1. CASE n + 1 \in s
      <4>1. Largest(s) = n + 1
        BY <1>2, <3>1, LargestOfAll
      <4>2. h[s] = F[<<g[s \ {n + 1}], list[n + 1]>>]
        BY <3>1
      <4>3. h[s \ {n + 1}] = g[s \ {n + 1}]
        OBVIOUS
      <4>4. QED
        BY <3>1, <4>1, <4>2, <4>3
    <3>2. CASE n + 1 \notin s
      <4>1. s \in SUBSET (1..n)
        BY <2>3, <3>2
      <4>2. h[s] = g[s]
        BY <3>2
      <4>3. h[s \ {Largest(s)}] = g[s \ {Largest(s)}]
        BY <3>2
      <4>4. g[s] = IF s = {} THEN base
                   ELSE F[<<g[s \ {Largest(s)}], list[Largest(s)]>>]
        BY <2>1, <4>1 DEF Folds
      <4>5. QED
        BY <4>2, <4>3, <4>4
    <3>3. QED
      BY <3>1, <3>2
  <2> HIDE DEF h
  <2>6. Folds(h, n + 1, base, F, list)
    BY <2>5 DEF Folds
  <2>7. QED
    BY <1>2, <2>4, <2>6
<1> HIDE DEF T
<1>3. 0..N \subseteq T
  BY <1>1, <1>2, IntervalInduction
<1>4. N \in T
  BY <1>3
<1>5. QED
  BY <1>4 DEF T

\* The same of an h of which it is not known where its values lie.
GoesBack(h, S, N, base, F, list) ==
    /\ h[{}] = base
    /\ \A s \in SUBSET (1..N) :
           s # {} /\ h[s \ {Largest(s)}] \in S =>
               h[s] = F[<<h[s \ {Largest(s)}], list[Largest(s)]>>]

\* A fold goes through the sequence from its first element to its last.
GoesOn(h, S, N, base, F, list) ==
    /\ \A n \in 0..N : h[1..n] \in S
    /\ h[1..0] = base
    /\ \A n \in 0..N : n < N => h[1..(n + 1)] = F[<<h[1..n], list[n + 1]>>]

LEMMA FoldUnfolding ==
    ASSUME NEW S, NEW E, NEW base \in S, NEW F \in [S \X E -> S], NEW N \in Nat,
           NEW list \in [1..N -> E], NEW h, GoesBack(h, S, N, base, F, list)
    PROVE  GoesOn(h, S, N, base, F, list)
<1>0. 1..0 = {}
  OBVIOUS
<1>1. ASSUME NEW n \in 0..N, n < N, h[1..n] \in S
      PROVE  h[1..(n + 1)] = F[<<h[1..n], list[n + 1]>>] /\ list[n + 1] \in E
  <2> DEFINE s == 1..(n + 1)
  <2>0. n \in Nat /\ n + 1 <= N
    BY <1>1
  <2>1. s \in SUBSET (1..N) /\ s # {} /\ n + 1 \in s /\ s \ {n + 1} = 1..n
    <3>1. s \ {n + 1} = 1..n
      BY <2>0
    <3>2. n + 1 \in s /\ s \in SUBSET (1..N)
      BY <2>0
    <3>3. QED
      BY <3>1, <3>2
  <2>2. Largest(s) = n + 1
    BY <2>1, LargestOfAll
  <2>3. h[s] = F[<<h[s \ {Largest(s)}], list[Largest(s)]>>]
    BY <1>1, <2>1, <2>2 DEF GoesBack
  <2>4. QED
    BY <1>1, <2>1, <2>2, <2>3
<1> DEFINE T == {n \in 0..N : h[1..n] \in S}
<1>2. 0 \in T
  BY <1>0 DEF GoesBack
<1>3. ASSUME NEW n \in 0..N, n < N, n \in T PROVE n + 1 \in T
  <2>1. h[1..n] \in S
    BY <1>3
  <2>2. F[<<h[1..n], list[n + 1]>>] \in S
    BY <1>1, <1>3, <2>1
  <2>3. QED
    BY <1>1, <1>3, <2>1, <2>2
<1> HIDE DEF T
<1>4. 0..N \subseteq T
  BY <1>2, <1>3, IntervalInduction
<1>5. \A n \in 0..N : h[1..n] \in S
  BY <1>4 DEF T
<1>6. QED
  BY <1>0, <1>1, <1>5 DEF GoesBack, GoesOn
=============================================================================

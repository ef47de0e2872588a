----------------------------- MODULE ListProofs -----------------------------
(***************************************************************************)
(* What the proofs about lists need: induction over the naturals as facts  *)
(* about sets, tables that are filled in order, and folds of a list as     *)
(* such tables.                                                            *)
(*                                                                         *)
(* Where code runs through a list with an accumulator the models fold, and *)
(* FoldLeft is defined by a function on the sets of places that a CHOOSE   *)
(* picks.  That there is one is what FoldTable says; a proof about a fold  *)
(* shows with it that the fold's own table exists, and goes through it by  *)
(* NatInd.                                                                 *)
(***************************************************************************)
EXTENDS Integers, Sequences, SequencesExt, FiniteSets, WellFoundedInduction,
        SequenceTheorems, TLAPS

-----------------------------------------------------------------------------
(* Induction.                                                              *)

Before == {p \in Nat \X Nat : p[1] < p[2]}

LEMMA BeforeIsWellFounded == IsWellFoundedOn(Before, Nat)
<1>1. OpToRel(<, Nat) = Before
  BY DEF OpToRel, Before
<1> QED
  BY <1>1, NatLessThanWellFounded

LEMMA Least ==
    ASSUME NEW T, T \subseteq Nat, T # {}
    PROVE  \E n \in T : \A m \in T : n <= m
<1>1. PICK x \in T : \A y \in T : ~(<<y, x>> \in Before)
  BY BeforeIsWellFounded, WFMin
<1>2. ASSUME NEW m \in T PROVE x <= m
  <2>1. x \in Nat /\ m \in Nat /\ <<m, x>> \in Nat \X Nat
    OBVIOUS
  <2>2. m < x => <<m, x>> \in Before
    BY <2>1 DEF Before
  <2> QED
    BY <1>1, <2>1, <2>2
<1> QED
  BY <1>2

\* Induction: what holds of zero and of the next number holds of all.
LEMMA NatInd ==
    ASSUME NEW S, 0 \in S, \A n \in Nat : n \in S => n + 1 \in S
    PROVE  \A n \in Nat : n \in S
<1> SUFFICES ASSUME Nat \ S # {} PROVE FALSE
  OBVIOUS
<1>1. PICK n \in Nat \ S : \A m \in Nat \ S : n <= m
  BY Least
<1>2. n # 0 /\ n - 1 \in Nat /\ n - 1 \in S
  BY <1>1
<1> QED
  BY <1>1, <1>2

\* The same for the numbers up to n
LEMMA UpTo ==
    ASSUME NEW n \in Nat, NEW S, 0 \in S,
           \A k \in 0..(n - 1) : k \in S => k + 1 \in S
    PROVE  \A k \in 0..n : k \in S
<1> DEFINE T == {k \in Nat : k <= n => k \in S}
<1>1. 0 \in T
  OBVIOUS
<1>2. \A k \in Nat : k \in T => k + 1 \in T
  OBVIOUS
<1> HIDE DEF T
<1>3. \A k \in Nat : k \in T
  BY <1>1, <1>2, NatInd
<1> QED
  BY <1>3 DEF T

LEMMA Greatest ==
    ASSUME NEW n \in Nat, NEW T, T \subseteq 1..n, T # {}
    PROVE  \E k \in T : \A m \in T : k >= m
<1> DEFINE D == {n - m : m \in T}
<1>1. D \subseteq Nat
  OBVIOUS
<1>2. D # {}
  <2>1. PICK m \in T : TRUE
    OBVIOUS
  <2>2. n - m \in D
    BY <2>1
  <2> QED
    BY <2>2
<1> HIDE DEF D
<1>3. PICK d \in D : \A e \in D : d <= e
  BY <1>1, <1>2, Least
<1>4. PICK k \in T : d = n - k
  BY DEF D
<1>5. ASSUME NEW m \in T PROVE k >= m
  <2>1. n - m \in D
    BY DEF D
  <2>2. d <= n - m
    BY <1>3, <2>1
  <2> QED
    BY <1>4, <2>2
<1> QED
  BY <1>5

\* The last of some places
LEMMA LastPlace ==
    ASSUME NEW n \in Nat, NEW T, T \subseteq 1..n, T # {}
    PROVE  Max(T) \in T /\ \A m \in T : m <= Max(T)
<1>1. \E k \in T : \A m \in T : k >= m
  BY Greatest
<1>2. Max(T) \in T /\ \A m \in T : Max(T) >= m
  BY <1>1 DEF Max
<1> QED
  BY <1>2

LEMMA LastOfFirst ==
    ASSUME NEW k \in Nat \ {0}
    PROVE  Max(1..k) = k
<1>1. 1..k \subseteq 1..k /\ k \in 1..k
  OBVIOUS
<1>2. Max(1..k) \in 1..k /\ \A m \in 1..k : m <= Max(1..k)
  BY <1>1, LastPlace
<1> QED
  BY <1>1, <1>2

-----------------------------------------------------------------------------
(* Folds.                                                                  *)

IsTable(g, n, A, base, G) ==
    /\ g \in [SUBSET (1..n) -> A]
    /\ \A t \in SUBSET (1..n) :
           g[t] = IF t = {} THEN base ELSE G[<<g[t \ {Max(t)}], Max(t)>>]

\* Whatever G does at each of n places, with what it did at the ones before,
\* there is a table of it.
LEMMA FoldTable ==
    ASSUME NEW n \in Nat, NEW A, NEW base \in A, NEW G \in [A \X (1..n) -> A]
    PROVE  \E g : IsTable(g, n, A, base, G)
<1> DEFINE S == {k \in 0..n : \E g : IsTable(g, k, A, base, G)}
<1>1. 0 \in S
  <2> DEFINE g == [t \in SUBSET (1..0) |-> base]
  <2>1. \A t \in SUBSET (1..0) : t = {}
    OBVIOUS
  <2>2. g \in [SUBSET (1..0) -> A]
    OBVIOUS
  <2>3. IsTable(g, 0, A, base, G)
    BY <2>1, <2>2 DEF IsTable
  <2> QED
    BY <2>3
<1>2. ASSUME NEW k \in 0..(n - 1), k \in S PROVE k + 1 \in S
  <2>1. PICK g : IsTable(g, k, A, base, G)
    BY <1>2
  <2>2. /\ k \in Nat /\ k + 1 \in 1..n
        /\ 1..k \subseteq 1..(k + 1) /\ k + 1 \notin 1..k
        /\ \A t \in SUBSET (1..(k + 1)) : t \ {k + 1} \in SUBSET (1..k)
    OBVIOUS
  <2> DEFINE h == [t \in SUBSET (1..(k + 1)) |->
                      IF k + 1 \in t THEN G[<<g[t \ {k + 1}], k + 1>>] ELSE g[t]]
  <2>3. ASSUME NEW t \in SUBSET (1..(k + 1)), k + 1 \notin t
        PROVE  t \in SUBSET (1..k) /\ h[t] = g[t] /\ g[t] \in A
    BY <2>1, <2>2, <2>3 DEF IsTable
  <2>4. ASSUME NEW t \in SUBSET (1..(k + 1)), k + 1 \in t
        PROVE  /\ h[t] = G[<<g[t \ {k + 1}], k + 1>>] /\ h[t] \in A
               /\ Max(t) = k + 1 /\ h[t \ {k + 1}] = g[t \ {k + 1}]
    <3>1. t \ {k + 1} \in SUBSET (1..k) /\ g[t \ {k + 1}] \in A
      BY <2>1, <2>2 DEF IsTable
    <3>2. <<g[t \ {k + 1}], k + 1>> \in A \X (1..n)
      BY <3>1, <2>2
    <3>3. Max(t) \in t /\ \A m \in t : m <= Max(t)
      <4>1. k + 1 \in Nat /\ t # {} /\ t \subseteq 1..(k + 1)
        BY <2>2, <2>4
      <4> QED
        BY <4>1, LastPlace
    <3>4. Max(t) = k + 1
      <4>1. Max(t) \in 1..(k + 1) /\ k + 1 <= Max(t)
        BY <3>3, <2>4
      <4> QED
        BY <4>1
    <3>5. h[t \ {k + 1}] = g[t \ {k + 1}]
      BY <2>3
    <3> QED
      BY <2>4, <3>2, <3>4, <3>5
  <2>5. h \in [SUBSET (1..(k + 1)) -> A]
    BY <2>3, <2>4
  <2>6. ASSUME NEW t \in SUBSET (1..(k + 1))
        PROVE  h[t] = IF t = {} THEN base ELSE G[<<h[t \ {Max(t)}], Max(t)>>]
    <3>1. CASE k + 1 \in t
      <4>1. h[t] = G[<<h[t \ {Max(t)}], Max(t)>>] /\ t # {}
        BY <3>1, <2>4
      <4> QED
        BY <4>1
    <3>2. CASE k + 1 \notin t
      <4>1. t \in SUBSET (1..k) /\ h[t] = g[t]
        BY <3>2, <2>3
      <4>2. g[t] = IF t = {} THEN base ELSE G[<<g[t \ {Max(t)}], Max(t)>>]
        BY <2>1, <4>1 DEF IsTable
      <4>3. t \ {Max(t)} \in SUBSET (1..(k + 1)) /\ k + 1 \notin t \ {Max(t)}
        BY <3>2
      <4>4. h[t \ {Max(t)}] = g[t \ {Max(t)}]
        BY <4>3, <2>3
      <4> QED
        BY <4>1, <4>2, <4>4
    <3> QED
      BY <3>1, <3>2
  <2> HIDE DEF h
  <2>7. IsTable(h, k + 1, A, base, G)
    BY <2>5, <2>6 DEF IsTable
  <2> QED
    BY <2>2, <2>7
<1> HIDE DEF S
<1>3. \A k \in 0..n : k \in S
  BY <1>1, <1>2, UpTo
<1> QED
  BY <1>3 DEF S

\* The set of the first places without the last is that of one less.
LEMMA FirstPlaces ==
    ASSUME NEW n \in Nat, NEW k \in 0..(n - 1)
    PROVE  /\ 1..(k + 1) \in SUBSET (1..n) /\ 1..(k + 1) # {}
           /\ Max(1..(k + 1)) = k + 1 /\ (1..(k + 1)) \ {k + 1} = 1..k
<1>1. k + 1 \in Nat \ {0}
  OBVIOUS
<1> QED
  BY <1>1, LastOfFirst

-----------------------------------------------------------------------------
(* Tables of recursive functions: every place from one of lower rank, down *)
(* to those of rank 0.                                                     *)

IsRankTable(g, S, rank, next, A, base, G) ==
    /\ g \in [S -> A]
    /\ \A q \in S : g[q] = IF rank[q] = 0 THEN base ELSE G[<<q, g[next[q]]>>]

LEMMA RankTable ==
    ASSUME NEW S, NEW n \in Nat, NEW rank \in [S -> 0..n], NEW next \in [S -> S],
           \A q \in S : rank[q] # 0 => rank[next[q]] < rank[q],
           NEW A, NEW base \in A, NEW G \in [S \X A -> A]
    PROVE  \E g : IsRankTable(g, S, rank, next, A, base, G)
<1> DEFINE Right(g, q) == g[q] = IF rank[q] = 0 THEN base ELSE G[<<q, g[next[q]]>>]
           T == {k \in 0..n : \E g \in [S -> A] : \A q \in S : rank[q] <= k => Right(g, q)}
<1>1. 0 \in T
  <2> DEFINE g == [q \in S |-> base]
  <2>1. g \in [S -> A] /\ \A q \in S : rank[q] <= 0 => Right(g, q)
    OBVIOUS
  <2> QED
    BY <2>1
<1>2. ASSUME NEW k \in 0..(n - 1), k \in T PROVE k + 1 \in T
  <2>1. PICK g \in [S -> A] : \A q \in S : rank[q] <= k => Right(g, q)
    BY <1>2
  <2> DEFINE h == [q \in S |-> IF rank[q] = k + 1 THEN G[<<q, g[next[q]]>>] ELSE g[q]]
  <2>2. k \in Nat /\ k + 1 \in 0..n
    OBVIOUS
  <2>3. h \in [S -> A]
    OBVIOUS
  <2>4. \A q \in S : h[q] = IF rank[q] = k + 1 THEN G[<<q, g[next[q]]>>] ELSE g[q]
    OBVIOUS
  <2> HIDE DEF h
  <2>5. ASSUME NEW q \in S, rank[q] <= k + 1 PROVE Right(h, q)
    <3>1. rank[q] \in 0..n /\ next[q] \in S /\ rank[next[q]] \in 0..n
      OBVIOUS
    <3>2. ASSUME rank[q] # 0 PROVE h[next[q]] = g[next[q]]
      <4>1. rank[next[q]] < rank[q]
        BY <3>2
      <4>2. rank[next[q]] # k + 1
        BY <2>2, <2>5, <3>1, <4>1
      <4> QED
        BY <2>4, <3>1, <4>2
    <3>3. CASE rank[q] = k + 1
      <4>1. rank[q] # 0 /\ h[q] = G[<<q, g[next[q]]>>]
        BY <2>2, <2>4, <3>3
      <4> QED
        BY <3>2, <4>1
    <3>4. CASE rank[q] # k + 1
      <4>1. Right(g, q) /\ h[q] = g[q]
        BY <2>1, <2>2, <2>4, <2>5, <3>1, <3>4
      <4> QED
        BY <3>2, <4>1
    <3> QED
      BY <3>3, <3>4
  <2> HIDE DEF Right
  <2> QED
    BY <2>2, <2>3, <2>5
<1> HIDE DEF T
<1>3. \A k \in 0..n : k \in T
  BY <1>1, <1>2, UpTo
<1>4. n \in T
  BY <1>3
<1>5. PICK g \in [S -> A] : \A q \in S : rank[q] <= n => Right(g, q)
  BY <1>4 DEF T
<1>6. IsRankTable(g, S, rank, next, A, base, G)
  BY <1>5 DEF IsRankTable
<1> QED
  BY <1>6

\* What a recursive function on the naturals is to be: base comes first,
\* and G says what becomes of each place and the value before it.
IsNatTable(f, A, base, G) ==
    /\ f \in [Nat -> A]
    /\ f = [n \in Nat |-> IF n = 0 THEN base ELSE G[<<n, f[n - 1]>>]]

\* A recursive function on the naturals: there is a table for each first part
\* of them, and the tables agree.
LEMMA NatTable ==
    ASSUME NEW A, NEW base \in A, NEW G \in [Nat \X A -> A]
    PROVE  \E f : IsNatTable(f, A, base, G)
<1> DEFINE Step(g, k) == g[k] = IF k = 0 THEN base ELSE G[<<k, g[k - 1]>>]
           Until(g, n) == g \in [0..n -> A] /\ \A k \in 0..n : Step(g, k)
           T == [n \in Nat |-> CHOOSE g : Until(g, n)]
<1>1. ASSUME NEW n \in Nat PROVE Until(T[n], n)
  <2> DEFINE S    == 0..n
             rank == [q \in S |-> q]
             next == [q \in S |-> IF q = 0 THEN 0 ELSE q - 1]
             H    == [p \in S \X A |-> G[<<p[1], p[2]>>]]
  <2>1. rank \in [S -> 0..n] /\ next \in [S -> S] /\ H \in [S \X A -> A]
    OBVIOUS
  <2>2. \A q \in S : rank[q] # 0 => rank[next[q]] < rank[q]
    OBVIOUS
  <2>3. \A q \in S : rank[q] = q /\ (q # 0 => next[q] = q - 1)
    OBVIOUS
  <2>4. \A q \in S, a \in A : H[<<q, a>>] = G[<<q, a>>]
    OBVIOUS
  <2> HIDE DEF rank, next, H
  <2>5. PICK g : IsRankTable(g, S, rank, next, A, base, H)
    <3> HIDE DEF S
    <3> QED
      BY <2>1, <2>2, RankTable
  <2>6. ASSUME NEW q \in S PROVE Step(g, q)
    <3>1. CASE q = 0
      BY <2>3, <2>5, <3>1 DEF IsRankTable
    <3>2. CASE q # 0
      <4>1. next[q] = q - 1 /\ q - 1 \in S /\ g[q - 1] \in A
        BY <2>3, <2>5, <3>2 DEF IsRankTable
      <4>2. g[q] = H[<<q, g[q - 1]>>]
        BY <2>3, <2>5, <3>2, <4>1 DEF IsRankTable
      <4> QED
        BY <2>4, <3>2, <4>1, <4>2
    <3> QED
      BY <3>1, <3>2
  <2>7. Until(g, n)
    BY <2>5, <2>6 DEF IsRankTable
  <2> HIDE DEF Until
  <2> QED
    BY <2>7
<1>2. ASSUME NEW n \in Nat, NEW g, NEW h, Until(g, n), Until(h, n + 1)
      PROVE  g[n] = h[n]
  <2> DEFINE S == {k \in 0..n : g[k] = h[k]}
  <2>1. 0 \in S
    <3>1. 0 \in 0..n /\ 0 \in 0..(n + 1)
      OBVIOUS
    <3>2. g[0] = base /\ h[0] = base
      BY <1>2, <3>1
    <3> QED
      BY <3>1, <3>2
  <2>2. ASSUME NEW k \in 0..(n - 1), k \in S PROVE k + 1 \in S
    <3>1. k + 1 \in 0..n /\ k + 1 \in 0..(n + 1) /\ k + 1 # 0 /\ (k + 1) - 1 = k
      OBVIOUS
    <3>2. g[k + 1] = G[<<k + 1, g[k]>>] /\ h[k + 1] = G[<<k + 1, h[k]>>]
      BY <1>2, <3>1
    <3> QED
      BY <2>2, <3>1, <3>2
  <2> HIDE DEF S
  <2>3. \A k \in 0..n : k \in S
    BY <2>1, <2>2, UpTo
  <2> QED
    BY <2>3 DEF S
<1> DEFINE f == [n \in Nat |-> T[n][n]]
<1>3. ASSUME NEW n \in Nat PROVE f[n] \in A
  BY <1>1
<1>4. ASSUME NEW n \in Nat PROVE f[n] = IF n = 0 THEN base ELSE G[<<n, f[n - 1]>>]
  <2>1. CASE n = 0
    <3> HIDE DEF T
    <3>1. 0 \in 0..n
      OBVIOUS
    <3>2. T[n][0] = base
      BY <1>1, <3>1
    <3> QED
      BY <2>1, <3>2
  <2>2. CASE n # 0
    <3>1. n - 1 \in Nat /\ (n - 1) + 1 = n
      BY <2>2
    <3>2. Until(T[n], n) /\ Until(T[n - 1], n - 1)
      BY <1>1, <3>1
    <3>3. T[n - 1][n - 1] = T[n][n - 1]
      <4> HIDE DEF T, Until
      <4> QED
        BY <1>2, <3>1, <3>2
    <3>4. T[n][n] = G[<<n, T[n][n - 1]>>]
      <4> HIDE DEF T
      <4> QED
        BY <2>2, <3>2
    <3> HIDE DEF T
    <3> QED
      BY <2>2, <3>1, <3>3, <3>4
  <2> QED
    BY <2>1, <2>2
<1>5. f = [n \in Nat |-> f[n]]
  OBVIOUS
<1> HIDE DEF f
<1>6. f = [n \in Nat |-> IF n = 0 THEN base ELSE G[<<n, f[n - 1]>>]]
  BY <1>4, <1>5
<1>7. f \in [Nat -> A]
  BY <1>3, <1>5
<1> QED
  BY <1>6, <1>7 DEF IsNatTable
=============================================================================

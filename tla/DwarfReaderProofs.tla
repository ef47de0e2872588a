------------------------- MODULE DwarfReaderProofs -------------------------
(***************************************************************************)
(* First, what the passes of the reader leave of the variables that the    *)
(* walk found, for every file: one of each, no local without anything and  *)
(* no placeholder of what is there, and nothing else is lost.  The         *)
(* inductive invariant, PassesInv, says what is true of the list between   *)
(* two passes.                                                             *)
(*                                                                         *)
(* Then, that the units that are walked are those that the rules leave in, *)
(* for all rules and paths.  The matches that wildcard_match_impl finds    *)
(* from the end of a pattern are those that the parts of the pattern lead  *)
(* to from the start of a path; what is matched before a part is reached   *)
(* and what can be matched after it meet at every part (MatchesAsDenoted). *)
(*                                                                         *)
(* Then, that an address is the variable's own, or one of what its entry   *)
(* refers to or of a symbol of its name.  The inductive invariant,         *)
(* SourceInv, follows a variable through the tasks that look for it.       *)
(*                                                                         *)
(* Then, from all of these and the invariant of the walk, the types of the *)
(* reader's variables.                                                     *)
(*                                                                         *)
(* Last, that the walk misses nothing.  What is seen of a unit is done or  *)
(* will be done by one of the tasks that are left: a walk over the DIE or  *)
(* over one that it lies in, or a step of what that began (TypesMet and    *)
(* VariablesMet).  A variable's task must also come while the scopes that  *)
(* are open have the names of those around the variable, so the invariant  *)
(* speaks of the names that are open when the turn of a task comes, which  *)
(* are less by those that the tasks before it close (NamesIn).  That a DIE *)
(* has a scope and a way to it at all is because what lies around it is less *)
(* deep in its tree.                                                       *)
(***************************************************************************)
EXTENDS NumberProofs

-----------------------------------------------------------------------------
(* De-duplication.                                                         *)

LEMMA AppendOfList ==
    ASSUME NEW R, NEW s \in Seq(R), NEW v \in R
    PROVE  /\ Append(s, v) \in Seq(R)
           /\ DOMAIN s = 1..Len(s) /\ Len(s) \in Nat
           /\ DOMAIN Append(s, v) = 1..(Len(s) + 1)
           /\ \A i \in 1..Len(s) : Append(s, v)[i] = s[i]
           /\ Append(s, v)[Len(s) + 1] = v
BY AppendProperties, LenProperties

LEMMA AddUniqueType ==
    ASSUME NEW R, NEW u \in Seq(R), NEW v \in R
    PROVE  AddUnique(u, v) \in Seq(R)
<1> DEFINE same == {i \in DOMAIN u : Same(u[i], v)}
           replaced == [i \in DOMAIN u |->
                 IF /\ i \in same
                    /\ v.availability = "StaticAddressKnown"
                    /\ u[i].availability # "StaticAddressKnown"
                 THEN v ELSE u[i]]
<1>1. DOMAIN u = 1..Len(u) /\ Len(u) \in Nat /\ \A i \in DOMAIN u : u[i] \in R
  BY LenProperties, ElementOfSeq
<1>2. replaced \in [1..Len(u) -> R]
  BY <1>1
<1>3. replaced \in Seq(R)
  BY <1>1, <1>2, SeqDef
<1>4. Append(u, v) \in Seq(R)
  BY AppendProperties
<1>5. AddUnique(u, v) \in {replaced, Append(u, v)}
  BY DEF AddUnique
<1> QED
  BY <1>3, <1>4, <1>5

\* w is there for v: the same variable, with a static address if v has one
Represents(w, v) ==
    /\ Same(v, w)
    /\ v.availability = "StaticAddressKnown" => w.availability = "StaticAddressKnown"

SpokenFor(v, list) == \E i \in DOMAIN list : Represents(list[i], v)

NoneTwice(list) == \A i, j \in DOMAIN list : Same(list[i], list[j]) => i = j

LEMMA SameIsEquivalence ==
    /\ \A v : Same(v, v)
    /\ \A v, w : Same(v, w) => Same(w, v)
    /\ \A u, v, w : Same(u, v) /\ Same(v, w) => Same(u, w)
BY DEF Same

LEMMA RepresentsIsTransitive ==
    ASSUME NEW u, NEW v, NEW w, Represents(v, u), Represents(w, v)
    PROVE  Represents(w, u)
BY SameIsEquivalence DEF Represents

\* A round of deduplicate_variables loses no variable and none twice.
LEMMA AddUniqueKeeps ==
    ASSUME NEW R, NEW u \in Seq(R), NEW v \in R, NoneTwice(u)
    PROVE  LET added == AddUnique(u, v)
           IN  /\ NoneTwice(added)
               /\ SpokenFor(v, added)
               /\ \A x : SpokenFor(x, u) => SpokenFor(x, added)
<1> DEFINE same == {i \in DOMAIN u : Same(u[i], v)}
           added == AddUnique(u, v)
<1>1. CASE same = {}
  <2>1. added = Append(u, v)
    BY <1>1 DEF AddUnique
  <2>2. /\ DOMAIN u = 1..Len(u) /\ Len(u) \in Nat
        /\ DOMAIN added = 1..(Len(u) + 1)
        /\ \A i \in 1..Len(u) : added[i] = u[i]
        /\ added[Len(u) + 1] = v
    BY <2>1, AppendOfList
  <2> HIDE DEF added
  <2>3. \A i \in 1..Len(u) : ~Same(u[i], v) /\ ~Same(v, u[i])
    BY <1>1, <2>2, SameIsEquivalence
  <2>4. ASSUME NEW i \in DOMAIN added, NEW j \in DOMAIN added, Same(added[i], added[j])
        PROVE  i = j
    <3>1. /\ i \in 1..Len(u) \/ i = Len(u) + 1
          /\ j \in 1..Len(u) \/ j = Len(u) + 1
      BY <2>2
    <3>2. CASE i \in 1..Len(u) /\ j \in 1..Len(u)
      BY <2>2, <2>4, <3>2 DEF NoneTwice
    <3>3. CASE i = Len(u) + 1 /\ j = Len(u) + 1
      BY <3>3
    <3>4. CASE i \in 1..Len(u) /\ j = Len(u) + 1
      BY <2>2, <2>3, <2>4, <3>4
    <3>5. CASE i = Len(u) + 1 /\ j \in 1..Len(u)
      BY <2>2, <2>3, <2>4, <3>5
    <3> QED
      BY <3>1, <3>2, <3>3, <3>4, <3>5
  <2>5. Represents(v, v)
    BY SameIsEquivalence DEF Represents
  <2>6. SpokenFor(v, added)
    <3>1. Len(u) + 1 \in DOMAIN added
      BY <2>2
    <3> QED
      BY <2>2, <2>5, <3>1 DEF SpokenFor
  <2>7. ASSUME NEW x, SpokenFor(x, u) PROVE SpokenFor(x, added)
    <3>1. PICK i \in DOMAIN u : Represents(u[i], x)
      BY <2>7 DEF SpokenFor
    <3>2. i \in DOMAIN added /\ added[i] = u[i]
      BY <2>2
    <3> QED
      BY <3>1, <3>2 DEF SpokenFor
  <2>8. NoneTwice(added)
    BY <2>4 DEF NoneTwice
  <2> QED
    BY <2>6, <2>7, <2>8 DEF added
<1>2. CASE same # {}
  <2>1. /\ DOMAIN added = DOMAIN u
        /\ \A i \in DOMAIN u :
              added[i] = IF /\ i \in same
                            /\ v.availability = "StaticAddressKnown"
                            /\ u[i].availability # "StaticAddressKnown"
                         THEN v ELSE u[i]
    BY <1>2 DEF AddUnique
  <2> HIDE DEF added
  <2>2. ASSUME NEW i \in DOMAIN u
        PROVE  /\ Same(added[i], u[i]) /\ Same(u[i], added[i])
               /\ Represents(added[i], u[i])
    BY <2>1, SameIsEquivalence DEF Represents
  <2>3. ASSUME NEW i \in DOMAIN u, i \in same PROVE Represents(added[i], v)
    BY <2>1, <2>3, SameIsEquivalence DEF Represents
  <2>4. NoneTwice(added)
    <3> SUFFICES ASSUME NEW i \in DOMAIN u, NEW j \in DOMAIN u, Same(added[i], added[j])
                 PROVE  i = j
      BY <2>1 DEF NoneTwice
    <3>1. Same(u[i], u[j])
      BY <2>2, SameIsEquivalence
    <3> QED
      BY <3>1 DEF NoneTwice
  <2>5. SpokenFor(v, added)
    BY <1>2, <2>1, <2>3 DEF SpokenFor
  <2>6. ASSUME NEW x, SpokenFor(x, u) PROVE SpokenFor(x, added)
    <3>1. PICK i \in DOMAIN u : Represents(u[i], x)
      BY <2>6 DEF SpokenFor
    <3>2. Represents(added[i], x)
      BY <2>2, <3>1, RepresentsIsTransitive
    <3> QED
      BY <2>1, <3>2 DEF SpokenFor
  <2> QED
    BY <2>4, <2>5, <2>6 DEF added
<1> QED
  BY <1>1, <1>2

\* One of each of the first k of a list
IsOneOfEach(u, list, k) ==
    /\ u \in Seq(Range(list))
    /\ NoneTwice(u)
    /\ \A m \in 1..k : SpokenFor(list[m], u)

LEMMA OneOfEachAfterAll ==
    ASSUME NEW list, IsList(list), NEW f, f[0] = <<>>,
           \A k \in 0..(Len(list) - 1) : f[k + 1] = AddUnique(f[k], list[k + 1])
    PROVE  IsOneOfEach(f[Len(list)], list, Len(list))
<1> DEFINE n == Len(list)
           S == {k \in 0..n : IsOneOfEach(f[k], list, k)}
<1>1. n \in Nat /\ DOMAIN list = 1..n /\ \A k \in 1..n : list[k] \in Range(list)
  BY LenProperties, ElementOfSeq DEF IsList
<1>2. 0 \in S
  <2>1. NoneTwice(<<>>) /\ <<>> \in Seq(Range(list))
    BY EmptySeq DEF NoneTwice
  <2>2. IsOneOfEach(f[0], list, 0)
    BY <2>1 DEF IsOneOfEach
  <2> QED
    BY <1>1, <2>2
<1>3. ASSUME NEW k \in 0..(n - 1), k \in S PROVE k + 1 \in S
  <2>1. k + 1 \in 1..n /\ IsOneOfEach(f[k], list, k)
    BY <1>1, <1>3
  <2>2. f[k + 1] = AddUnique(f[k], list[k + 1])
    OBVIOUS
  <2>3. f[k] \in Seq(Range(list)) /\ list[k + 1] \in Range(list)
    BY <1>1, <2>1 DEF IsOneOfEach
  <2>4. /\ f[k + 1] \in Seq(Range(list))
        /\ NoneTwice(f[k + 1])
        /\ SpokenFor(list[k + 1], f[k + 1])
        /\ \A x : SpokenFor(x, f[k]) => SpokenFor(x, f[k + 1])
    BY <2>1, <2>2, <2>3, AddUniqueKeeps, AddUniqueType DEF IsOneOfEach
  <2>5. ASSUME NEW m \in 1..(k + 1) PROVE SpokenFor(list[m], f[k + 1])
    <3>1. m \in 1..k \/ m = k + 1
      BY <2>1
    <3> QED
      BY <2>1, <2>4, <3>1 DEF IsOneOfEach
  <2> QED
    BY <2>1, <2>4, <2>5 DEF IsOneOfEach
<1> HIDE DEF S
<1>4. \A k \in 0..n : k \in S
  BY <1>1, <1>2, <1>3, UpTo
<1> QED
  BY <1>1, <1>4 DEF S

\* Deduplicated leaves one of each.
LEMMA DeduplicatedIsOneOfEach ==
    ASSUME NEW list, IsList(list)
    PROVE  IsOneOfEach(Deduplicated(list), list, Len(list))
<1> DEFINE n == Len(list)
           A == Seq(Range(list))
           G == [x \in A \X (1..n) |-> AddUnique(x[1], list[x[2]])]
           Table(t) == [s \in SUBSET (DOMAIN list) |->
                          IF s = {} THEN <<>> ELSE AddUnique(t[s \ {Max(s)}], list[Max(s)])]
           iter == CHOOSE t : t = Table(t)
<1>1. /\ n \in Nat /\ DOMAIN list = 1..n
      /\ \A i \in 1..n : list[i] \in Range(list)
      /\ <<>> \in A
  BY LenProperties, ElementOfSeq, EmptySeq DEF IsList
<1>2. G \in [A \X (1..n) -> A]
  BY <1>1, AddUniqueType
<1>3. PICK g : IsTable(g, n, A, <<>>, G)
  BY <1>1, <1>2, FoldTable
<1>4. g = Table(g)
  <2>1. ASSUME NEW s \in SUBSET (1..n), s # {}
        PROVE  G[<<g[s \ {Max(s)}], Max(s)>>] = AddUnique(g[s \ {Max(s)}], list[Max(s)])
    <3>1. Max(s) \in 1..n /\ g[s \ {Max(s)}] \in A
      BY <1>1, <1>3, <2>1, LastPlace DEF IsTable
    <3> HIDE DEF A
    <3> QED
      BY <3>1
  <2> HIDE DEF G
  <2> QED
    BY <1>1, <1>3, <2>1 DEF IsTable
<1>5. iter = Table(iter)
  BY <1>4
<1>6. Deduplicated(list) = iter[DOMAIN list]
  BY DEF Deduplicated, FoldLeft, MapThenFoldSet
<1> HIDE DEF iter
<1> DEFINE f == [k \in 0..n |-> iter[1..k]]
<1>7. \A s \in SUBSET (1..n) :
         iter[s] = IF s = {} THEN <<>> ELSE AddUnique(iter[s \ {Max(s)}], list[Max(s)])
  BY <1>1, <1>5
<1>8. f[0] = <<>>
  <2>1. 1..0 = {} /\ {} \in SUBSET (1..n) /\ 0 \in 0..n
    BY <1>1
  <2> QED
    BY <1>7, <2>1
<1>9. ASSUME NEW k \in 0..(n - 1) PROVE f[k + 1] = AddUnique(f[k], list[k + 1])
  <2>1. k \in 0..n /\ k + 1 \in 0..n
    BY <1>1
  <2>2. /\ 1..(k + 1) \in SUBSET (1..n) /\ 1..(k + 1) # {}
        /\ Max(1..(k + 1)) = k + 1 /\ (1..(k + 1)) \ {k + 1} = 1..k
    BY <1>1, FirstPlaces
  <2> QED
    BY <1>1, <1>7, <2>1, <2>2
<1>10. f[n] = Deduplicated(list)
  BY <1>1, <1>6
<1> HIDE DEF f
<1>11. IsOneOfEach(f[n], list, n)
  BY <1>8, <1>9, OneOfEachAfterAll
<1> QED
  BY <1>10, <1>11

\* u is what is left of the first k of a list without those at some places.
LeftOf(u, list, k, gone) ==
    /\ u \in Seq(Range(list))
    /\ \A x : x \in Range(u) <=> \E m \in (1..k) \ gone : x = list[m]
    /\ NoneTwice(list) => NoneTwice(u)

LEMMA NothingLeft ==
    ASSUME NEW list, NEW gone
    PROVE  LeftOf(<<>>, list, 0, gone)
BY EmptySeq DEF LeftOf, NoneTwice, Range

LEMMA NextLeft ==
    ASSUME NEW list, IsList(list), NEW gone, NEW k \in 0..(Len(list) - 1), NEW u,
           LeftOf(u, list, k, gone)
    PROVE  LeftOf(IF k + 1 \in gone THEN u ELSE Append(u, list[k + 1]), list, k + 1, gone)
<1>1. /\ Len(list) \in Nat /\ DOMAIN list = 1..Len(list)
      /\ \A m \in 1..Len(list) : list[m] \in Range(list)
      /\ u \in Seq(Range(list)) /\ k \in Nat /\ k + 1 \in 1..Len(list)
      /\ \A x : x \in Range(u) <=> \E m \in (1..k) \ gone : x = list[m]
  BY LenProperties, ElementOfSeq DEF IsList, LeftOf
<1>2. CASE k + 1 \in gone
  <2>1. (1..(k + 1)) \ gone = (1..k) \ gone
    BY <1>1, <1>2
  <2> QED
    BY <1>2, <2>1 DEF LeftOf
<1>3. CASE k + 1 \notin gone
  <2> DEFINE w == Append(u, list[k + 1])
  <2>1. /\ DOMAIN u = 1..Len(u) /\ Len(u) \in Nat
        /\ w \in Seq(Range(list))
        /\ DOMAIN w = 1..(Len(u) + 1)
        /\ \A i \in 1..Len(u) : w[i] = u[i]
        /\ w[Len(u) + 1] = list[k + 1]
    BY <1>1, AppendOfList
  <2> HIDE DEF w
  <2>2. ASSUME NEW x PROVE x \in Range(w) <=> x \in Range(u) \/ x = list[k + 1]
    BY <2>1 DEF Range
  <2>3. \A x : x \in Range(w) <=> \E m \in (1..(k + 1)) \ gone : x = list[m]
    <3>1. (1..(k + 1)) \ gone = ((1..k) \ gone) \cup {k + 1}
      BY <1>1, <1>3
    <3> QED
      BY <1>1, <2>2, <3>1
  <2>4. ASSUME NoneTwice(list) PROVE NoneTwice(w)
    <3>1. \A i \in 1..Len(u) : ~Same(u[i], list[k + 1]) /\ ~Same(list[k + 1], u[i])
      <4> SUFFICES ASSUME NEW i \in 1..Len(u), Same(u[i], list[k + 1]) PROVE FALSE
        BY SameIsEquivalence
      <4>1. u[i] \in Range(u)
        BY <2>1 DEF Range
      <4>2. PICK m \in 1..k : u[i] = list[m]
        BY <1>1, <4>1
      <4>3. m \in DOMAIN list /\ k + 1 \in DOMAIN list
        BY <1>1
      <4>4. m = k + 1
        BY <2>4, <4>2, <4>3 DEF NoneTwice
      <4> QED
        BY <1>1, <4>4
    <3>2. NoneTwice(u)
      BY <2>4 DEF LeftOf
    <3> SUFFICES ASSUME NEW i \in DOMAIN w, NEW j \in DOMAIN w, Same(w[i], w[j])
                 PROVE  i = j
      BY DEF NoneTwice
    <3>3. /\ i \in 1..Len(u) \/ i = Len(u) + 1
          /\ j \in 1..Len(u) \/ j = Len(u) + 1
      BY <2>1
    <3>4. CASE i \in 1..Len(u) /\ j \in 1..Len(u)
      BY <2>1, <3>2, <3>4 DEF NoneTwice
    <3>5. CASE i = Len(u) + 1 /\ j = Len(u) + 1
      BY <3>5
    <3>6. CASE i \in 1..Len(u) /\ j = Len(u) + 1
      BY <2>1, <3>1, <3>6
    <3>7. CASE i = Len(u) + 1 /\ j \in 1..Len(u)
      BY <2>1, <3>1, <3>7
    <3> QED
      BY <3>3, <3>4, <3>5, <3>6, <3>7
  <2>5. LeftOf(w, list, k + 1, gone)
    BY <2>1, <2>3, <2>4 DEF LeftOf
  <2> QED
    BY <1>3, <2>5 DEF w
<1> QED
  BY <1>2, <1>3

\* A table whose steps drop a place or append it
LEMMA LeftAfterAll ==
    ASSUME NEW list, IsList(list), NEW gone, NEW f, f[0] = <<>>,
           \A k \in 0..(Len(list) - 1) : LeftOf(f[k], list, k, gone) =>
              f[k + 1] = IF k + 1 \in gone THEN f[k] ELSE Append(f[k], list[k + 1])
    PROVE  LeftOf(f[Len(list)], list, Len(list), gone)
<1>1. Len(list) \in Nat
  BY LenProperties DEF IsList
<1> DEFINE S == {k \in 0..Len(list) : LeftOf(f[k], list, k, gone)}
<1>2. 0 \in S
  BY <1>1, NothingLeft
<1>3. ASSUME NEW k \in 0..(Len(list) - 1), k \in S PROVE k + 1 \in S
  <2>1. LeftOf(f[k], list, k, gone) /\ k + 1 \in 0..Len(list)
    BY <1>1, <1>3
  <2>2. f[k + 1] = IF k + 1 \in gone THEN f[k] ELSE Append(f[k], list[k + 1])
    BY <2>1
  <2> QED
    BY <2>1, <2>2, NextLeft
<1> HIDE DEF S
<1>4. \A k \in 0..Len(list) : k \in S
  BY <1>1, <1>2, <1>3, UpTo
<1> QED
  BY <1>1, <1>4 DEF S

LEMMA WithoutIsLeft ==
    ASSUME NEW list, IsList(list), NEW gone
    PROVE  LeftOf(Without(list, gone), list, Len(list), {m \in DOMAIN list : list[m] \in gone})
<1> DEFINE n == Len(list)
           A == Seq(Range(list))
           Step(u, v) == IF v \in gone THEN u ELSE Append(u, v)
           G == [x \in A \X (1..n) |-> Step(x[1], list[x[2]])]
           Table(t) == [s \in SUBSET (DOMAIN list) |->
                          IF s = {} THEN <<>> ELSE Step(t[s \ {Max(s)}], list[Max(s)])]
           iter == CHOOSE t : t = Table(t)
<1>1. /\ n \in Nat /\ DOMAIN list = 1..n
      /\ \A i \in 1..n : list[i] \in Range(list)
      /\ <<>> \in A
  BY LenProperties, ElementOfSeq, EmptySeq DEF IsList
<1>2. G \in [A \X (1..n) -> A]
  BY <1>1, AppendProperties
<1>3. PICK g : IsTable(g, n, A, <<>>, G)
  BY <1>1, <1>2, FoldTable
<1>4. g = Table(g)
  <2>1. ASSUME NEW s \in SUBSET (1..n), s # {}
        PROVE  G[<<g[s \ {Max(s)}], Max(s)>>] = Step(g[s \ {Max(s)}], list[Max(s)])
    <3>1. Max(s) \in 1..n /\ g[s \ {Max(s)}] \in A
      BY <1>1, <1>3, <2>1, LastPlace DEF IsTable
    <3> HIDE DEF A
    <3> QED
      BY <3>1
  <2> HIDE DEF G, Step
  <2> QED
    BY <1>1, <1>3, <2>1 DEF IsTable
<1>5. iter = Table(iter)
  BY <1>4
<1>6. Without(list, gone) = iter[DOMAIN list]
  BY DEF Without, FoldLeft, MapThenFoldSet
<1> HIDE DEF iter
<1> DEFINE f == [k \in 0..n |-> iter[1..k]]
<1>7. \A s \in SUBSET (1..n) :
         iter[s] = IF s = {} THEN <<>> ELSE Step(iter[s \ {Max(s)}], list[Max(s)])
  BY <1>1, <1>5
<1> HIDE DEF Step
<1>8. f[0] = <<>>
  <2>1. 1..0 = {} /\ {} \in SUBSET (1..n) /\ 0 \in 0..n
    BY <1>1
  <2> QED
    BY <1>7, <2>1
<1>9. ASSUME NEW k \in 0..(n - 1) PROVE f[k + 1] = Step(f[k], list[k + 1])
  <2>1. k \in 0..n /\ k + 1 \in 0..n
    BY <1>1
  <2>2. /\ 1..(k + 1) \in SUBSET (1..n) /\ 1..(k + 1) # {}
        /\ Max(1..(k + 1)) = k + 1 /\ (1..(k + 1)) \ {k + 1} = 1..k
    BY <1>1, FirstPlaces
  <2> QED
    BY <1>1, <1>7, <2>1, <2>2
<1> QED
  <2> DEFINE out == {m \in DOMAIN list : list[m] \in gone}
  <2>1. \A k \in 0..(n - 1) : k + 1 \in out <=> list[k + 1] \in gone
    BY <1>1
  <2>2. n \in 0..n
    BY <1>1
  <2>3. f[n] = Without(list, gone)
    BY <1>1, <1>6, <2>2
  <2>4. \A k \in 0..(n - 1) :
            f[k + 1] = IF k + 1 \in out THEN f[k] ELSE Append(f[k], list[k + 1])
    <3> HIDE DEF f, out
    <3> QED
      BY <1>9, <2>1 DEF Step
  <2> HIDE DEF f, out
  <2>5. LeftOf(f[n], list, n, out)
    BY <1>8, <2>4, LeftAfterAll
  <2> QED
    BY <2>3, <2>5 DEF out

\* What gives way is the same whether the whole list is asked or what is left
\* of it at the time: nothing gives way to what does so itself.
Shadowed(list) ==
    {m \in DOMAIN list : \E w \in Range(list) : GivesWay(list[m], w)}

LEMMA LeftIsEnough ==
    ASSUME NEW list, IsList(list), NEW k \in 0..(Len(list) - 1), NEW u,
           LeftOf(u, list, k, Shadowed(list))
    PROVE  (\E w \in Range(u) \cup {list[j] : j \in (k + 1)..Len(list)} :
                GivesWay(list[k + 1], w))
           <=> k + 1 \in Shadowed(list)
<1>1. /\ Len(list) \in Nat /\ DOMAIN list = 1..Len(list) /\ k + 1 \in 1..Len(list)
      /\ \A x : x \in Range(u) <=> \E m \in (1..k) \ Shadowed(list) : x = list[m]
  BY LenProperties DEF IsList, LeftOf
<1>2. ASSUME NEW w \in Range(u) \cup {list[j] : j \in (k + 1)..Len(list)}
      PROVE  w \in Range(list)
  <2>1. \E m \in DOMAIN list : w = list[m]
    BY <1>1
  <2> QED
    BY <2>1 DEF Range
<1>3. ASSUME NEW w \in Range(list), GivesWay(list[k + 1], w)
      PROVE  w \in Range(u) \cup {list[j] : j \in (k + 1)..Len(list)}
  <2>1. PICK m \in 1..Len(list) : w = list[m]
    BY <1>1 DEF Range
  <2>2. m \notin Shadowed(list)
    BY <1>3, <2>1 DEF Shadowed, GivesWay
  <2>3. m \in 1..k \/ m \in (k + 1)..Len(list)
    BY <1>1
  <2> QED
    BY <1>1, <2>1, <2>2, <2>3
<1> QED
  BY <1>1, <1>2, <1>3 DEF Shadowed

LEMMA UnshadowedIsLeft ==
    ASSUME NEW list, IsList(list)
    PROVE  LeftOf(Unshadowed(list), list, Len(list), Shadowed(list))
<1> DEFINE n == Len(list)
           A == Seq(Range(list))
           places == [i \in DOMAIN list |-> i]
           Step(u, i) == IF \E w \in Range(u) \cup {list[j] : j \in i..Len(list)} :
                                GivesWay(list[i], w)
                         THEN u ELSE Append(u, list[i])
           G == [x \in A \X (1..n) |-> Step(x[1], x[2])]
           Table(t) == [s \in SUBSET (DOMAIN places) |->
                          IF s = {} THEN <<>> ELSE Step(t[s \ {Max(s)}], places[Max(s)])]
           iter == CHOOSE t : t = Table(t)
<1>1. /\ n \in Nat /\ DOMAIN list = 1..n /\ DOMAIN places = 1..n
      /\ \A i \in 1..n : list[i] \in Range(list) /\ places[i] = i
      /\ <<>> \in A
  BY LenProperties, ElementOfSeq, EmptySeq DEF IsList
<1>2. G \in [A \X (1..n) -> A]
  BY <1>1, AppendProperties
<1>3. PICK g : IsTable(g, n, A, <<>>, G)
  BY <1>1, <1>2, FoldTable
<1>4. g = Table(g)
  <2>1. ASSUME NEW s \in SUBSET (1..n), s # {}
        PROVE  G[<<g[s \ {Max(s)}], Max(s)>>] = Step(g[s \ {Max(s)}], places[Max(s)])
    <3>1. Max(s) \in 1..n /\ g[s \ {Max(s)}] \in A
      BY <1>1, <1>3, <2>1, LastPlace DEF IsTable
    <3> HIDE DEF A, Step
    <3> QED
      BY <1>1, <3>1
  <2> HIDE DEF G, Step
  <2> QED
    BY <1>1, <1>3, <2>1 DEF IsTable
<1>5. iter = Table(iter)
  BY <1>4
<1>6. Unshadowed(list) = iter[DOMAIN places]
  BY DEF Unshadowed, FoldLeftDomain, FoldLeft, MapThenFoldSet
<1> HIDE DEF iter, Step
<1> DEFINE f == [k \in 0..n |-> iter[1..k]]
<1>7. \A s \in SUBSET (1..n) :
         iter[s] = IF s = {} THEN <<>> ELSE Step(iter[s \ {Max(s)}], places[Max(s)])
  BY <1>1, <1>5
<1>8. f[0] = <<>>
  <2>1. 1..0 = {} /\ {} \in SUBSET (1..n) /\ 0 \in 0..n
    BY <1>1
  <2> QED
    BY <1>7, <2>1
<1>9. ASSUME NEW k \in 0..(n - 1) PROVE f[k + 1] = Step(f[k], k + 1)
  <2>1. k \in 0..n /\ k + 1 \in 0..n /\ k + 1 \in 1..n
    BY <1>1
  <2>2. /\ 1..(k + 1) \in SUBSET (1..n) /\ 1..(k + 1) # {}
        /\ Max(1..(k + 1)) = k + 1 /\ (1..(k + 1)) \ {k + 1} = 1..k
    BY <1>1, FirstPlaces
  <2> QED
    BY <1>1, <1>7, <2>1, <2>2
<1>10. f[n] = Unshadowed(list)
  BY <1>1, <1>6
<1> HIDE DEF f
<1>11. ASSUME NEW k \in 0..(n - 1), LeftOf(f[k], list, k, Shadowed(list))
       PROVE  f[k + 1] = IF k + 1 \in Shadowed(list) THEN f[k]
                         ELSE Append(f[k], list[k + 1])
  BY <1>9, <1>11, LeftIsEnough DEF Step
<1>12. LeftOf(f[n], list, n, Shadowed(list))
  BY <1>8, <1>11, LeftAfterAll
<1> QED
  BY <1>10, <1>12

\* What each pass leaves, of what was known of the variables before them
AfterUnique(list, known) ==
    /\ NoneTwice(list)
    /\ Range(list) \subseteq known
    /\ \A v \in known : SpokenFor(v, list)

AfterLocals(list, known) ==
    /\ NoneTwice(list)
    /\ Range(list) \subseteq known
    /\ \A w \in Range(list) : ~AbstractLocal(w)
    /\ \A v \in known :
          \/ SpokenFor(v, list)
          \/ /\ v.availability # "StaticAddressKnown"
             /\ \E first \in known : Same(first, v) /\ AbstractLocal(first)

AfterPlaceholders(list, known) ==
    /\ NoneTwice(list)
    /\ Range(list) \subseteq known
    /\ \A w \in Range(list) : ~AbstractLocal(w)
    /\ \A v, w \in Range(list) : ~GivesWay(v, w)
    /\ \A v \in known :
          \/ SpokenFor(v, list)
          \/ /\ v.availability # "StaticAddressKnown"
             /\ \E first \in known :
                   /\ Same(first, v)
                   /\ AbstractLocal(first) \/ \E w \in Range(list) : GivesWay(first, w)

LEMMA UniqueAfter ==
    ASSUME NEW list, IsList(list)
    PROVE  IsList(Deduplicated(list)) /\ AfterUnique(Deduplicated(list), Range(list))
<1> DEFINE once == Deduplicated(list)
<1>1. IsOneOfEach(once, list, Len(list))
  BY DeduplicatedIsOneOfEach
<1>2. DOMAIN list = 1..Len(list)
  BY LenProperties DEF IsList
<1> HIDE DEF once
<1>3. IsList(once) /\ Range(once) \subseteq Range(list)
  <2>1. once \in Seq(Range(list)) /\ DOMAIN once = 1..Len(once) /\ Len(once) \in Nat
    BY <1>1, LenProperties DEF IsOneOfEach
  <2>2. \A i \in 1..Len(once) : once[i] \in Range(list) /\ once[i] \in Range(once)
    BY <2>1, ElementOfSeq DEF Range
  <2>3. once \in [1..Len(once) -> Range(once)]
    BY <2>1, <2>2
  <2>4. once \in Seq(Range(once))
    BY <2>1, <2>3, SeqDef
  <2> QED
    BY <2>1, <2>2, <2>4 DEF IsList, Range
<1>4. ASSUME NEW v \in Range(list) PROVE SpokenFor(v, once)
  <2>1. PICK m \in 1..Len(list) : v = list[m]
    BY <1>2 DEF Range
  <2> QED
    BY <1>1, <2>1 DEF IsOneOfEach
<1>5. NoneTwice(once)
  BY <1>1 DEF IsOneOfEach
<1> QED
  BY <1>3, <1>4, <1>5 DEF AfterUnique, once

\* What is left of a list is a list of what was at the places that are left.
LEMMA LeftFacts ==
    ASSUME NEW list, IsList(list), NEW gone, NEW u, LeftOf(u, list, Len(list), gone)
    PROVE  /\ IsList(u)
           /\ Range(u) \subseteq Range(list)
           /\ \A m \in DOMAIN list : m \notin gone => list[m] \in Range(u)
           /\ \A x \in Range(u) : \E m \in DOMAIN list : m \notin gone /\ x = list[m]
           /\ NoneTwice(list) => NoneTwice(u)
<1>1. /\ DOMAIN list = 1..Len(list)
      /\ u \in Seq(Range(list))
      /\ \A x : x \in Range(u) <=> \E m \in (1..Len(list)) \ gone : x = list[m]
      /\ NoneTwice(list) => NoneTwice(u)
  BY LenProperties DEF IsList, LeftOf
<1>2. IsList(u)
  <2>1. DOMAIN u = 1..Len(u) /\ Len(u) \in Nat
    BY <1>1, LenProperties
  <2>2. \A i \in 1..Len(u) : u[i] \in Range(u)
    BY <2>1 DEF Range
  <2>3. u \in [1..Len(u) -> Range(u)]
    BY <1>1, <2>1, <2>2
  <2>4. u \in Seq(Range(u))
    BY <2>1, <2>3, SeqDef
  <2> QED
    BY <2>4 DEF IsList
<1>3. Range(u) \subseteq Range(list)
  <2>1. \A m \in DOMAIN list : list[m] \in Range(list)
    BY DEF Range
  <2> QED
    BY <1>1, <2>1
<1> QED
  BY <1>1, <1>2, <1>3

LEMMA LocalsAfter ==
    ASSUME NEW list, IsList(list), NEW known, AfterUnique(list, known)
    PROVE  LET left == Without(list, {v \in Range(list) : AbstractLocal(v)})
           IN  IsList(left) /\ AfterLocals(left, known)
<1> DEFINE out  == {v \in Range(list) : AbstractLocal(v)}
           gone == {m \in DOMAIN list : list[m] \in out}
           left == Without(list, out)
<1>1. LeftOf(left, list, Len(list), gone)
  BY WithoutIsLeft
<1> HIDE DEF left, gone
<1>2. /\ IsList(left)
      /\ Range(left) \subseteq Range(list)
      /\ \A m \in DOMAIN list : m \notin gone => list[m] \in Range(left)
      /\ \A x \in Range(left) : \E m \in DOMAIN list : m \notin gone /\ x = list[m]
      /\ NoneTwice(left)
  BY <1>1, LeftFacts DEF AfterUnique
<1>3. \A m \in DOMAIN list : m \in gone <=> AbstractLocal(list[m])
  BY DEF gone, Range
<1>4. \A w \in Range(left) : ~AbstractLocal(w)
  BY <1>2, <1>3
<1>5. ASSUME NEW v \in known
      PROVE  \/ SpokenFor(v, left)
             \/ /\ v.availability # "StaticAddressKnown"
                /\ \E first \in known : Same(first, v) /\ AbstractLocal(first)
  <2>1. PICK m \in DOMAIN list : Represents(list[m], v)
    BY DEF AfterUnique, SpokenFor
  <2>2. list[m] \in known
    BY DEF AfterUnique, Range
  <2>3. CASE m \in gone
    <3>1. AbstractLocal(list[m])
      BY <1>3, <2>3
    <3>2. v.availability # "StaticAddressKnown"
      BY <2>1, <3>1 DEF AbstractLocal, Represents
    <3>3. Same(list[m], v)
      BY <2>1, SameIsEquivalence DEF Represents
    <3> QED
      BY <2>2, <3>1, <3>2, <3>3
  <2>4. CASE m \notin gone
    <3>1. PICK i \in DOMAIN left : left[i] = list[m]
      BY <1>2, <2>4 DEF Range
    <3> QED
      BY <2>1, <3>1 DEF SpokenFor
  <2> QED
    BY <2>3, <2>4
<1>6. Range(left) \subseteq known
  BY <1>2 DEF AfterUnique
<1>7. AfterLocals(left, known)
  BY <1>2, <1>4, <1>5, <1>6 DEF AfterLocals
<1> QED
  BY <1>2, <1>7 DEF left

LEMMA PlaceholdersAfter ==
    ASSUME NEW list, IsList(list), NEW known, AfterLocals(list, known)
    PROVE  IsList(Unshadowed(list)) /\ AfterPlaceholders(Unshadowed(list), known)
<1> DEFINE gone == Shadowed(list)
           left == Unshadowed(list)
<1>1. LeftOf(left, list, Len(list), gone)
  BY UnshadowedIsLeft
<1> HIDE DEF left, gone
<1>2. /\ IsList(left)
      /\ Range(left) \subseteq Range(list)
      /\ \A m \in DOMAIN list : m \notin gone => list[m] \in Range(left)
      /\ \A x \in Range(left) : \E m \in DOMAIN list : m \notin gone /\ x = list[m]
      /\ NoneTwice(left)
  BY <1>1, LeftFacts DEF AfterLocals
<1>3. \A m \in DOMAIN list : m \in gone <=> \E w \in Range(list) : GivesWay(list[m], w)
  BY DEF gone, Shadowed
<1>4. \A w \in Range(left) : ~AbstractLocal(w)
  BY <1>2 DEF AfterLocals
<1>5. \A v, w \in Range(left) : ~GivesWay(v, w)
  BY <1>2, <1>3
<1>6. ASSUME NEW v \in known
      PROVE  \/ SpokenFor(v, left)
             \/ /\ v.availability # "StaticAddressKnown"
                /\ \E first \in known :
                      /\ Same(first, v)
                      /\ AbstractLocal(first) \/ \E w \in Range(left) : GivesWay(first, w)
  <2>1. CASE SpokenFor(v, list)
    <3>1. PICK m \in DOMAIN list : Represents(list[m], v)
      BY <2>1 DEF SpokenFor
    <3>2. list[m] \in known
      BY DEF AfterLocals, Range
    <3>3. CASE m \in gone
      <4>1. PICK w \in Range(list) : GivesWay(list[m], w)
        BY <1>3, <3>3
      <4>2. w \in Range(left)
        <5>1. PICK i \in DOMAIN list : w = list[i]
          BY DEF Range
        <5>2. i \notin gone
          BY <1>3, <4>1, <5>1 DEF GivesWay
        <5> QED
          BY <1>2, <5>1, <5>2
      <4>3. v.availability # "StaticAddressKnown"
        BY <3>1, <4>1 DEF GivesWay, Placeholder, Represents
      <4>4. Same(list[m], v)
        BY <3>1, SameIsEquivalence DEF Represents
      <4> QED
        BY <3>2, <4>1, <4>2, <4>3, <4>4
    <3>4. CASE m \notin gone
      <4>1. PICK i \in DOMAIN left : left[i] = list[m]
        BY <1>2, <3>4 DEF Range
      <4> QED
        BY <3>1, <4>1 DEF SpokenFor
    <3> QED
      BY <3>3, <3>4
  <2>2. CASE ~SpokenFor(v, list)
    BY <2>2 DEF AfterLocals
  <2> QED
    BY <2>1, <2>2
<1>7. Range(left) \subseteq known
  BY <1>2 DEF AfterLocals
<1>8. AfterPlaceholders(left, known)
  BY <1>2, <1>4, <1>5, <1>6, <1>7 DEF AfterPlaceholders
<1> QED
  BY <1>2, <1>8 DEF left

-----------------------------------------------------------------------------
\* The list between the passes
PassesInv ==
    /\ IsList(variables)
    /\ stage \in {"units", "symbols", "unique", "locals", "placeholders", "done"}
    /\ stage = "symbols" => file.elf /\ variables = found
    /\ stage = "unique" => Range(variables) = KnownBefore
    /\ stage = "locals" => AfterUnique(variables, KnownBefore)
    /\ stage = "placeholders" => AfterLocals(variables, KnownBefore)
    /\ stage = "done" => AfterPlaceholders(variables, KnownBefore)

LEMMA PassesInit == ReaderInit => PassesInv
<1> SUFFICES ASSUME ReaderInit PROVE PassesInv
  OBVIOUS
<1>1. variables = <<>> /\ stage = "units"
  BY DEF ReaderInit
<1>2. IsList(variables)
  BY <1>1, EmptySeq DEF IsList
<1> QED
  BY <1>1, <1>2 DEF PassesInv

LEMMA ListAppend ==
    ASSUME NEW list, IsList(list), NEW v
    PROVE  IsList(Append(list, v))
<1>1. list \in Seq(Range(list) \cup {v})
  BY SeqMonotonic DEF IsList
<1>2. Append(list, v) \in Seq(Range(list) \cup {v})
  BY <1>1, AppendProperties
<1>3. Range(Append(list, v)) = Range(list) \cup {v}
  BY <1>1, AppendOfList DEF Range
<1> QED
  BY <1>2, <1>3 DEF IsList

\* While units are walked the list only grows.
WalkGrows ==
    /\ stage = "units" /\ stage' = "units"
    /\ variables' = variables \/ \E v : variables' = Append(variables, v)

LEMMA StepsOfTheList ==
    ASSUME ReaderNext
    PROVE  \/ WalkGrows
           \/ EndWalk
           \/ ApplySymbols
           \/ Deduplicate
           \/ PruneLocals
           \/ PrunePlaceholders
<1> USE DEF WalkGrows
<1>1. CASE NextUnit BY <1>1 DEF NextUnit
<1>2. CASE WalkDie BY <1>2 DEF WalkDie, Doing, unchangedWalk
<1>3. CASE LeaveScope BY <1>3 DEF LeaveScope, Doing, unchangedWalk
<1>4. CASE EnsureType BY <1>4 DEF EnsureType, Doing, unchangedWalk
<1>5. CASE TypeEnsured BY <1>5 DEF TypeEnsured, Doing, unchangedWalk
<1>6. CASE RecordType BY <1>6 DEF RecordType, Doing, unchangedWalk
<1>7. CASE NextChild BY <1>7 DEF NextChild, Doing, unchangedWalk
<1>8. CASE RecordedType BY <1>8 DEF RecordedType, Doing, unchangedWalk
<1>9. CASE PlaceMember BY <1>9 DEF PlaceMember, Doing, unchangedWalk
<1>10. CASE MaterializeType BY <1>10 DEF MaterializeType, Doing, unchangedWalk
<1>11. CASE FollowReferences BY <1>11 DEF FollowReferences, Doing, unchangedWalk
<1>12. CASE RecordUnitType BY <1>12 DEF RecordUnitType, Doing, unchangedWalk
<1>13. CASE BeginVariable BY <1>13 DEF BeginVariable, Doing, unchangedWalk
<1>14. CASE LocateVariable BY <1>14 DEF LocateVariable, Doing, unchangedWalk
<1>15. CASE InheritName BY <1>15 DEF InheritName, Doing, unchangedWalk
<1>16. CASE InheritLocation BY <1>16 DEF InheritLocation, Doing, unchangedWalk
<1>17. CASE StoreVariable BY <1>17 DEF StoreVariable, Doing, unchangedWalk
<1>18. CASE StartExpression BY <1>18 DEF StartExpression, Doing, readerVars
<1>19. CASE StepExpression BY <1>19 DEF StepExpression, readerVars
<1> QED
  BY <1>1, <1>2, <1>3, <1>4, <1>5, <1>6, <1>7, <1>8, <1>9, <1>10, <1>11, <1>12, <1>13,
     <1>14, <1>15, <1>16, <1>17, <1>18, <1>19 DEF ReaderNext

LEMMA PassesNext ==
    ASSUME PassesInv, [ReaderNext]_<<readerVars, expressionVars>>
    PROVE  PassesInv'
<1>3. ASSUME file' = file, found' = found
      PROVE  KnownBefore' = KnownBefore
  BY <1>3 DEF KnownBefore, WithSymbol, Symbols, SymbolOf
<1>0. CASE UNCHANGED <<readerVars, expressionVars>>
  <2>1. /\ stage' = stage /\ variables' = variables /\ file' = file /\ found' = found
        /\ KnownBefore' = KnownBefore
    BY <1>0, <1>3 DEF readerVars
  <2> QED
    BY <2>1 DEF PassesInv
<1>1. CASE WalkGrows
  <2>1. IsList(variables) /\ stage' = "units"
    BY <1>1 DEF PassesInv, WalkGrows
  <2>2. IsList(variables')
    BY <1>1, <2>1, ListAppend DEF WalkGrows
  <2> QED
    BY <2>1, <2>2 DEF PassesInv
<1>2. CASE EndWalk
  <2>1. /\ variables' = variables /\ found' = variables /\ file' = file
        /\ stage' = IF file.elf THEN "symbols" ELSE "unique"
        /\ IsList(variables)
    BY <1>2 DEF EndWalk, PassesInv
  <2>2. CASE file.elf
    BY <2>1, <2>2 DEF PassesInv
  <2>3. CASE ~file.elf
    <3>1. Range(variables)' = KnownBefore'
      BY <2>1, <2>3 DEF KnownBefore
    <3> QED
      BY <2>1, <2>3, <3>1 DEF PassesInv
  <2> QED
    BY <2>2, <2>3
<1>4. CASE ApplySymbols
  <2>1. /\ stage = "symbols" /\ stage' = "unique" /\ file' = file /\ found' = found
        /\ variables' = [i \in DOMAIN variables |-> WithSymbol(variables[i])]
        /\ file.elf /\ variables = found /\ IsList(variables)
    BY <1>4 DEF ApplySymbols, Pass, PassesInv
  <2>2. KnownBefore' = KnownBefore
    BY <1>3, <2>1
  <2>3. KnownBefore = {WithSymbol(v) : v \in Range(variables)}
    BY <2>1 DEF KnownBefore
  <2>4. PICK after : after = [i \in DOMAIN variables |-> WithSymbol(variables[i])]
    OBVIOUS
  <2>5. Range(after) = KnownBefore /\ IsList(after)
    <3>1. DOMAIN variables = 1..Len(variables) /\ Len(variables) \in Nat
      BY <2>1, LenProperties DEF IsList
    <3>2. Range(after) = KnownBefore
      BY <2>3, <2>4 DEF Range
    <3>3. after \in [1..Len(variables) -> Range(after)]
      BY <2>4, <3>1 DEF Range
    <3>4. after \in Seq(Range(after))
      BY <3>1, <3>3, SeqDef
    <3> QED
      BY <3>2, <3>4 DEF IsList
  <2> QED
    BY <2>1, <2>2, <2>4, <2>5 DEF PassesInv
<1>5. CASE Deduplicate
  <2>1. /\ stage = "unique" /\ stage' = "locals" /\ file' = file /\ found' = found
        /\ variables' = Deduplicated(variables)
        /\ Range(variables) = KnownBefore /\ IsList(variables)
    BY <1>5 DEF Deduplicate, Pass, PassesInv
  <2>2. KnownBefore' = KnownBefore
    BY <1>3, <2>1
  <2>3. IsList(variables') /\ AfterUnique(variables', KnownBefore)
    BY <2>1, UniqueAfter
  <2> QED
    BY <2>1, <2>2, <2>3 DEF PassesInv
<1>6. CASE PruneLocals
  <2>1. /\ stage = "locals" /\ stage' = "placeholders" /\ file' = file /\ found' = found
        /\ variables' = Without(variables, {v \in Range(variables) : AbstractLocal(v)})
        /\ AfterUnique(variables, KnownBefore) /\ IsList(variables)
    BY <1>6 DEF PruneLocals, Pass, PassesInv
  <2>2. KnownBefore' = KnownBefore
    BY <1>3, <2>1
  <2>3. IsList(variables') /\ AfterLocals(variables', KnownBefore)
    BY <2>1, LocalsAfter
  <2> QED
    BY <2>1, <2>2, <2>3 DEF PassesInv
<1>7. CASE PrunePlaceholders
  <2>1. /\ stage = "placeholders" /\ stage' = "done" /\ file' = file /\ found' = found
        /\ variables' = Unshadowed(variables)
        /\ AfterLocals(variables, KnownBefore) /\ IsList(variables)
    BY <1>7 DEF PrunePlaceholders, Pass, PassesInv
  <2>2. KnownBefore' = KnownBefore
    BY <1>3, <2>1
  <2>3. IsList(variables') /\ AfterPlaceholders(variables', KnownBefore)
    BY <2>1, PlaceholdersAfter
  <2> QED
    BY <2>1, <2>2, <2>3 DEF PassesInv
<1> QED
  BY <1>0, <1>1, <1>2, <1>4, <1>5, <1>6, <1>7, StepsOfTheList

\* Between the passes over the variables (DwarfReader::load after the walk) the
\* list is what the passes so far promise.
THEOREM PassesInvariant == ReaderSpec => []PassesInv
BY PassesInit, PassesNext, PTL DEF ReaderSpec

LEMMA PassesGiveWay ==
    ASSUME PassesInv
    PROVE  PlaceholdersGiveWay
<1> SUFFICES ASSUME stage = "done" PROVE PlaceholdersGiveWay
  BY DEF PlaceholdersGiveWay
<1>1. AfterPlaceholders(variables, KnownBefore)
  BY DEF PassesInv
<1>2. \A i \in DOMAIN variables : variables[i] \in Range(variables)
  BY DEF Range
<1>3. ASSUME NEW i \in DOMAIN variables, NEW j \in DOMAIN variables
      PROVE  /\ Same(variables[i], variables[j]) => i = j
             /\ ~AbstractLocal(variables[i])
             /\ ~GivesWay(variables[i], variables[j])
  BY <1>1, <1>2 DEF AfterPlaceholders, NoneTwice
<1>4. ASSUME NEW v \in KnownBefore
      PROVE  \/ \E w \in Range(variables) :
                   /\ Same(v, w)
                   /\ v.availability = "StaticAddressKnown" =>
                          w.availability = "StaticAddressKnown"
             \/ /\ v.availability # "StaticAddressKnown"
                /\ \E first \in KnownBefore :
                      /\ Same(first, v)
                      /\ \/ AbstractLocal(first)
                         \/ \E w \in Range(variables) : GivesWay(first, w)
  <2>1. CASE SpokenFor(v, variables)
    BY <1>2, <2>1 DEF SpokenFor, Represents
  <2>2. CASE ~SpokenFor(v, variables)
    BY <1>1, <2>2 DEF AfterPlaceholders
  <2> QED
    BY <2>1, <2>2
<1> QED
  BY <1>3, <1>4 DEF PlaceholdersGiveWay

\* When load is done no record is there twice, no local without anything is
\* left and no placeholder of what is there, and whatever else was known of a
\* variable is.
THEOREM PlaceholdersAlwaysGiveWay == ReaderSpec => []PlaceholdersGiveWay
BY PassesInvariant, PassesGiveWay, PTL

-----------------------------------------------------------------------------
(* The two folds of what the rules mean.                                   *)

LEMMA FrontOfList ==
    ASSUME NEW R, NEW s \in Seq(R), s # <<>>
    PROVE  /\ Front(s) \in Seq(R) /\ Last(s) \in R
           /\ Len(s) \in Nat \ {0} /\ Len(Front(s)) = Len(s) - 1
           /\ \A i \in 1..(Len(s) - 1) : Front(s)[i] = s[i]
<1> DEFINE m == Len(s) - 1
           front == SubSeq(s, 1, m)
<1>1. /\ Len(s) \in Nat \ {0} /\ m \in Nat /\ Len(s) \in 1..Len(s)
      /\ \A i \in 1..Len(s) : s[i] \in R
  BY LenProperties, EmptySeq, ElementOfSeq
<1>2. \A i \in 1..m : s[i] \in R
  BY <1>1
<1>3. Last(s) \in R
  BY <1>1 DEF Last
<1>4. Front(s) = front
  BY DEF Front
<1> HIDE DEF m
<1>5. /\ front \in Seq(R)
      /\ Len(front) = IF 1 <= m THEN m - 1 + 1 ELSE 0
      /\ \A i \in 1..(m - 1 + 1) : front[i] = s[1 + i - 1]
  BY <1>1, <1>2, SubSeqProperties
<1> HIDE DEF front
<1>6. Len(front) = m
  BY <1>1, <1>5
<1>7. ASSUME NEW i \in 1..m PROVE front[i] = s[i]
  <2>1. i \in 1..(m - 1 + 1) /\ 1 + i - 1 = i
    BY <1>1
  <2> QED
    BY <1>5, <2>1
<1> QED
  BY <1>1, <1>3, <1>4, <1>5, <1>6, <1>7 DEF m

\* f is the parts of the first characters of a pattern, for each number of them.
PartsUpTo(f, C, pattern) ==
    /\ f \in [0..Len(pattern) -> Seq(C \cup {"**"})]
    /\ f[0] = <<>>
    /\ \A k \in 0..(Len(pattern) - 1) : f[k + 1] = WithChar(f[k], pattern[k + 1])
    /\ f[Len(pattern)] = Parts(pattern)

LEMMA PartsInSteps ==
    ASSUME NEW C, NEW pattern \in Seq(C)
    PROVE  \E f : PartsUpTo(f, C, pattern)
<1> DEFINE n == Len(pattern)
           A == Seq(C \cup {"**"})
           G == [x \in A \X (1..n) |-> WithChar(x[1], pattern[x[2]])]
           Table(t) == [s \in SUBSET (DOMAIN pattern) |->
                          IF s = {} THEN <<>> ELSE WithChar(t[s \ {Max(s)}], pattern[Max(s)])]
           iter == CHOOSE t : t = Table(t)
<1>1. /\ n \in Nat /\ DOMAIN pattern = 1..n
      /\ \A i \in 1..n : pattern[i] \in C
      /\ <<>> \in A
  BY LenProperties, ElementOfSeq, EmptySeq
<1>2. ASSUME NEW parts \in A, NEW char \in C PROVE WithChar(parts, char) \in A
  <2>1. Append(parts, char) \in A
    BY AppendProperties
  <2>2. ASSUME parts # <<>> PROVE Append(Front(parts), "**") \in A
    <3>1. Front(parts) \in A
      BY <2>2, FrontOfList
    <3> QED
      BY <3>1, AppendProperties
  <2> QED
    BY <2>1, <2>2 DEF WithChar
<1>3. G \in [A \X (1..n) -> A]
  BY <1>1, <1>2
<1>4. PICK g : IsTable(g, n, A, <<>>, G)
  BY <1>1, <1>3, FoldTable
<1>5. g = Table(g)
  <2>1. ASSUME NEW s \in SUBSET (1..n), s # {}
        PROVE  G[<<g[s \ {Max(s)}], Max(s)>>] = WithChar(g[s \ {Max(s)}], pattern[Max(s)])
    <3>1. Max(s) \in 1..n /\ g[s \ {Max(s)}] \in A
      BY <1>1, <1>4, <2>1, LastPlace DEF IsTable
    <3> HIDE DEF A
    <3> QED
      BY <3>1
  <2> HIDE DEF G
  <2> QED
    BY <1>1, <1>4, <2>1 DEF IsTable
<1>6. iter = Table(iter)
  BY <1>5
<1>7. Parts(pattern) = iter[DOMAIN pattern]
  BY DEF Parts, FoldLeft, MapThenFoldSet
<1> HIDE DEF iter
<1> DEFINE f == [k \in 0..n |-> iter[1..k]]
<1>8. \A s \in SUBSET (1..n) :
         iter[s] = IF s = {} THEN <<>> ELSE WithChar(iter[s \ {Max(s)}], pattern[Max(s)])
  BY <1>1, <1>6
<1>9. f[0] = <<>>
  <2>1. 1..0 = {} /\ {} \in SUBSET (1..n) /\ 0 \in 0..n
    BY <1>1
  <2> QED
    BY <1>8, <2>1
<1>10. ASSUME NEW k \in 0..(n - 1) PROVE f[k + 1] = WithChar(f[k], pattern[k + 1])
  <2>1. k \in 0..n /\ k + 1 \in 0..n
    BY <1>1
  <2>2. /\ 1..(k + 1) \in SUBSET (1..n) /\ 1..(k + 1) # {}
        /\ Max(1..(k + 1)) = k + 1 /\ (1..(k + 1)) \ {k + 1} = 1..k
    BY <1>1, FirstPlaces
  <2> QED
    BY <1>1, <1>8, <2>1, <2>2
<1>11. f[n] = Parts(pattern)
  BY <1>1, <1>7
<1>12. DOMAIN f = 0..n /\ f = [k \in 0..n |-> f[k]]
  OBVIOUS
<1> HIDE DEF f
<1> DEFINE S == {k \in 0..n : f[k] \in A}
<1>13. 0 \in S
  <2>1. 0 \in 0..n /\ f[0] \in A
    BY <1>1, <1>9
  <2> HIDE DEF A
  <2> QED
    BY <2>1
<1>14. ASSUME NEW k \in 0..(n - 1), k \in S PROVE k + 1 \in S
  <2>1. k + 1 \in 0..n /\ f[k] \in A /\ pattern[k + 1] \in C
    BY <1>1, <1>14
  <2> HIDE DEF A
  <2> QED
    BY <1>2, <1>10, <2>1
<1> HIDE DEF S
<1>15. \A k \in 0..n : k \in S
  BY <1>1, <1>13, <1>14, UpTo
<1>16. f \in [0..n -> A]
  <2>1. \A k \in 0..n : f[k] \in A
    BY <1>15 DEF S
  <2> HIDE DEF A
  <2> QED
    BY <1>12, <2>1
<1>17. PartsUpTo(f, C, pattern)
  BY <1>9, <1>10, <1>11, <1>16 DEF PartsUpTo
<1> QED
  BY <1>17


\* Where a part leads to from some places
Onward(path, part, places) == UNION {Reach(path, part, p) : p \in places}

LEMMA ReachIsInPath ==
    ASSUME NEW C, NEW path \in Seq(C), NEW places \in SUBSET (0..Len(path)), NEW part
    PROVE  Onward(path, part, places) \in SUBSET (0..Len(path))
<1>1. Len(path) \in Nat /\ DOMAIN path = 1..Len(path)
  BY LenProperties
<1>2. ASSUME NEW p \in 0..Len(path) PROVE Reach(path, part, p) \subseteq 0..Len(path)
  BY <1>1 DEF Reach
<1> QED
  BY <1>2 DEF Onward

LEMMA WaysInSteps ==
    ASSUME NEW C, NEW path \in Seq(C), NEW D, NEW parts \in Seq(D)
    PROVE  \E f \in [0..Len(parts) -> SUBSET (0..Len(path))] :
               /\ f[0] = {0}
               /\ \A k \in 0..(Len(parts) - 1) :
                      f[k + 1] = Onward(path, parts[k + 1], f[k])
               /\ f[Len(parts)] = Ways(path, parts)
<1> DEFINE n == Len(parts)
           A == SUBSET (0..Len(path))
           G == [x \in A \X (1..n) |-> Onward(path, parts[x[2]], x[1])]
           Table(t) == [s \in SUBSET (DOMAIN parts) |->
                          IF s = {} THEN {0} ELSE Onward(path, parts[Max(s)], t[s \ {Max(s)}])]
           iter == CHOOSE t : t = Table(t)
<1>1. /\ n \in Nat /\ DOMAIN parts = 1..n
      /\ {0} \in A
  BY LenProperties
<1>2. ASSUME NEW places \in A, NEW part PROVE Onward(path, part, places) \in A
  BY ReachIsInPath
<1> HIDE DEF A
<1>3. G \in [A \X (1..n) -> A]
  BY <1>1, <1>2
<1>4. PICK g : IsTable(g, n, A, {0}, G)
  BY <1>1, <1>3, FoldTable
<1>5. g = Table(g)
  <2>1. ASSUME NEW s \in SUBSET (1..n), s # {}
        PROVE  G[<<g[s \ {Max(s)}], Max(s)>>] = Onward(path, parts[Max(s)], g[s \ {Max(s)}])
    <3>1. Max(s) \in 1..n /\ g[s \ {Max(s)}] \in A
      BY <1>1, <1>4, <2>1, LastPlace DEF IsTable
    <3> QED
      BY <3>1
  <2> HIDE DEF G
  <2> QED
    BY <1>1, <1>4, <2>1 DEF IsTable
<1>6. iter = Table(iter)
  BY <1>5
<1>7. Ways(path, parts) = iter[DOMAIN parts]
  BY DEF Ways, FoldLeft, MapThenFoldSet, Onward
<1> HIDE DEF iter
<1> DEFINE f == [k \in 0..n |-> iter[1..k]]
<1>8. \A s \in SUBSET (1..n) :
         iter[s] = IF s = {} THEN {0} ELSE Onward(path, parts[Max(s)], iter[s \ {Max(s)}])
  BY <1>1, <1>6
<1>9. f[0] = {0}
  <2>1. 1..0 = {} /\ {} \in SUBSET (1..n) /\ 0 \in 0..n
    BY <1>1
  <2> QED
    BY <1>8, <2>1
<1>10. ASSUME NEW k \in 0..(n - 1) PROVE f[k + 1] = Onward(path, parts[k + 1], f[k])
  <2>1. k \in 0..n /\ k + 1 \in 0..n
    BY <1>1
  <2>2. /\ 1..(k + 1) \in SUBSET (1..n) /\ 1..(k + 1) # {}
        /\ Max(1..(k + 1)) = k + 1 /\ (1..(k + 1)) \ {k + 1} = 1..k
    BY <1>1, FirstPlaces
  <2> QED
    BY <1>1, <1>8, <2>1, <2>2
<1>11. f[n] = Ways(path, parts)
  BY <1>1, <1>7
<1>12. DOMAIN f = 0..n /\ f = [k \in 0..n |-> f[k]]
  OBVIOUS
<1> HIDE DEF f
<1> DEFINE S == {k \in 0..n : f[k] \in A}
<1>13. 0 \in S
  <2>1. 0 \in 0..n /\ f[0] \in A
    BY <1>1, <1>9
  <2> QED
    BY <2>1
<1>14. ASSUME NEW k \in 0..(n - 1), k \in S PROVE k + 1 \in S
  <2>1. k + 1 \in 0..n /\ f[k] \in A
    BY <1>1, <1>14
  <2> QED
    BY <1>2, <1>10, <2>1
<1> HIDE DEF S
<1>15. \A k \in 0..n : k \in S
  BY <1>1, <1>13, <1>14, UpTo
<1>16. f \in [0..n -> A]
  <2>1. \A k \in 0..n : f[k] \in A
    BY <1>15 DEF S
  <2> QED
    BY <1>12, <2>1
<1> QED
  BY <1>9, <1>10, <1>11, <1>16 DEF A

LEMMA WaysOfNone ==
    ASSUME NEW C, NEW path \in Seq(C)
    PROVE  Ways(path, <<>>) = {0}
<1>1. <<>> \in Seq({}) /\ Len(<<>>) = 0
  BY EmptySeq
<1>2. PICK f \in [0..Len(<<>>) -> SUBSET (0..Len(path))] :
               f[0] = {0} /\ f[Len(<<>>)] = Ways(path, <<>>)
  BY <1>1, WaysInSteps
<1> QED
  BY <1>1, <1>2

LEMMA WaysFurther ==
    ASSUME NEW C, NEW path \in Seq(C), NEW D, NEW parts \in Seq(D), NEW part \in D
    PROVE  Ways(path, Append(parts, part)) = Onward(path, part, Ways(path, parts))
<1> DEFINE n == Len(parts)
           longer == Append(parts, part)
<1>1. /\ n \in Nat /\ longer \in Seq(D) /\ Len(longer) = n + 1
      /\ longer[n + 1] = part /\ \A i \in 1..n : longer[i] = parts[i]
  BY LenProperties, AppendProperties
<1>2. PICK f \in [0..n -> SUBSET (0..Len(path))] :
               /\ f[0] = {0}
               /\ \A k \in 0..(n - 1) : f[k + 1] = Onward(path, parts[k + 1], f[k])
               /\ f[n] = Ways(path, parts)
  BY WaysInSteps
<1>3. PICK g \in [0..Len(longer) -> SUBSET (0..Len(path))] :
               /\ g[0] = {0}
               /\ \A k \in 0..(Len(longer) - 1) : g[k + 1] = Onward(path, longer[k + 1], g[k])
               /\ g[Len(longer)] = Ways(path, longer)
  BY <1>1, WaysInSteps
<1> DEFINE S == {k \in 0..n : f[k] = g[k]}
<1> HIDE DEF longer
<1>4. 0 \in S
  <2>1. 0 \in 0..n /\ f[0] = g[0]
    BY <1>1, <1>2, <1>3
  <2> QED
    BY <2>1
<1>5. ASSUME NEW k \in 0..(n - 1), k \in S PROVE k + 1 \in S
  <2>1. /\ k + 1 \in 0..n /\ k \in 0..(Len(longer) - 1) /\ f[k] = g[k]
        /\ longer[k + 1] = parts[k + 1]
    BY <1>1, <1>5
  <2>2. f[k + 1] = Onward(path, parts[k + 1], f[k])
    BY <1>2
  <2>3. g[k + 1] = Onward(path, longer[k + 1], g[k])
    BY <1>3, <2>1
  <2> QED
    BY <2>1, <2>2, <2>3
<1> HIDE DEF S
<1>6. \A k \in 0..n : k \in S
  BY <1>1, <1>4, <1>5, UpTo
<1>7. f[n] = g[n] /\ n \in 0..(Len(longer) - 1)
  BY <1>1, <1>6 DEF S
<1>8. g[n + 1] = Onward(path, longer[n + 1], g[n])
  BY <1>3, <1>7
<1> QED
  BY <1>1, <1>2, <1>3, <1>7, <1>8 DEF longer

-----------------------------------------------------------------------------
(* The table of wildcard_match_impl.                                       *)

IsMatch(from, value, pattern) ==
    /\ from \in [1..(Len(pattern) + 1) -> SUBSET (1..(Len(value) + 1))]
    /\ \A p \in 1..(Len(pattern) + 1) :
           from[p] = IF p = Len(pattern) + 1 THEN {Len(value) + 1}
                     ELSE Fitting(value, pattern, p, from[PlaceAfter(pattern, p)])

LEMMA PlaceAfterIsLater ==
    ASSUME NEW C, NEW pattern \in Seq(C), NEW p \in 1..Len(pattern)
    PROVE  PlaceAfter(pattern, p) \in (p + 1)..(Len(pattern) + 1)
BY LenProperties DEF PlaceAfter, IsDouble

LEMMA Matching ==
    ASSUME NEW C, NEW value \in Seq(C), NEW pattern \in Seq(C)
    PROVE  \E from : /\ IsMatch(from, value, pattern)
                     /\ MatchesFrom(value, pattern) <=> 1 \in from[1]
<1> DEFINE n == Len(pattern)
           A == SUBSET (1..(Len(value) + 1))
           next == [p \in 1..(n + 1) |-> IF p = n + 1 THEN p ELSE PlaceAfter(pattern, p)]
           rank == [p \in 1..(n + 1) |-> n + 1 - p]
           G == [x \in (1..(n + 1)) \X A |-> Fitting(value, pattern, x[1], x[2])]
           Table(t) ==
             [p \in 1..(n + 1) |->
                IF p > n THEN {Len(value) + 1}
                ELSE Fitting(value, pattern, p, t[PlaceAfter(pattern, p)])]
           from == CHOOSE t : t = Table(t)
<1>1. n \in Nat /\ Len(value) \in Nat /\ {Len(value) + 1} \in A
  BY LenProperties
<1>2. \A p \in 1..n : PlaceAfter(pattern, p) \in (p + 1)..(n + 1)
  BY PlaceAfterIsLater
<1>3. /\ next \in [1..(n + 1) -> 1..(n + 1)] /\ rank \in [1..(n + 1) -> 0..n]
      /\ \A p \in 1..(n + 1) : rank[p] = 0 <=> p = n + 1
      /\ \A p \in 1..(n + 1) : rank[p] # 0 => rank[next[p]] < rank[p]
      /\ \A p \in 1..n : next[p] = PlaceAfter(pattern, p)
  BY <1>1, <1>2
<1>4. ASSUME NEW p \in 1..(n + 1), NEW rest \in A PROVE Fitting(value, pattern, p, rest) \in A
  BY <1>1 DEF Fitting
<1> HIDE DEF A
<1>5. G \in [(1..(n + 1)) \X A -> A]
  BY <1>4
<1>6. PICK g : IsRankTable(g, 1..(n + 1), rank, next, A, {Len(value) + 1}, G)
  <2> HIDE DEF n, G, next, rank
  <2> QED
    BY <1>1, <1>3, <1>5, RankTable
<1> HIDE DEF rank, next
<1>7. ASSUME NEW p \in 1..(n + 1)
      PROVE  g[p] = IF p > n THEN {Len(value) + 1}
                    ELSE Fitting(value, pattern, p, g[PlaceAfter(pattern, p)])
  <2>1. g[p] = IF p = n + 1 THEN {Len(value) + 1} ELSE G[<<p, g[next[p]]>>]
    BY <1>3, <1>6 DEF IsRankTable
  <2>2. CASE p = n + 1
    BY <1>1, <2>1, <2>2
  <2>3. CASE p \in 1..n
    <3>1. next[p] = PlaceAfter(pattern, p) /\ next[p] \in 1..(n + 1) /\ p # n + 1
      BY <1>1, <1>3, <2>3
    <3>2. g[next[p]] \in A /\ g[p] = G[<<p, g[next[p]]>>]
      BY <1>6, <2>1, <3>1 DEF IsRankTable
    <3>3. G[<<p, g[next[p]]>>] = Fitting(value, pattern, p, g[next[p]])
      BY <2>3, <3>2
    <3>4. ~(p > n)
      BY <1>1, <2>3
    <3> QED
      BY <3>1, <3>2, <3>3, <3>4
  <2> QED
    BY <1>1, <2>2, <2>3
<1>8. g = Table(g)
  <2>1. g = [p \in 1..(n + 1) |-> g[p]]
    BY <1>6 DEF IsRankTable
  <2> HIDE DEF n
  <2> QED
    BY <1>7, <2>1
<1>9. from = Table(from)
  BY <1>8
<1>10. MatchesFrom(value, pattern) <=> 1 \in from[1]
  BY DEF MatchesFrom
<1> HIDE DEF from
<1>11. ASSUME NEW p \in 1..(n + 1)
       PROVE  from[p] = IF p = n + 1 THEN {Len(value) + 1}
                        ELSE Fitting(value, pattern, p, from[PlaceAfter(pattern, p)])
  <2>1. from[p] = IF p > n THEN {Len(value) + 1}
                  ELSE Fitting(value, pattern, p, from[PlaceAfter(pattern, p)])
    BY <1>9
  <2>2. p > n <=> p = n + 1
    BY <1>1
  <2> QED
    BY <2>1, <2>2
<1>12. ASSUME NEW p \in 1..(n + 1) PROVE from[p] \in A
  <2>1. CASE p = n + 1
    BY <1>1, <1>11, <2>1
  <2>2. CASE p # n + 1
    <3>1. from[p] = Fitting(value, pattern, p, from[PlaceAfter(pattern, p)])
      BY <1>11, <2>2
    <3> QED
      BY <1>1, <3>1 DEF Fitting, A
  <2> QED
    BY <2>1, <2>2
<1>13. from \in [1..(n + 1) -> A]
  <2>1. from = [p \in 1..(n + 1) |-> from[p]]
    BY <1>9
  <2> QED
    BY <1>12, <2>1
<1>14. IsMatch(from, value, pattern)
  BY <1>11, <1>13 DEF IsMatch, A
<1> QED
  BY <1>10, <1>14

-----------------------------------------------------------------------------
(* The code finds the matches that the rules mean.                         *)

\* The part of a pattern that begins at p
PartAt(pattern, p) == IF IsDouble(pattern, p) THEN "**" ELSE pattern[p]

LEMMA FittingIsReach ==
    ASSUME NEW C, "**" \notin C, NEW value \in Seq(C), NEW pattern \in Seq(C),
           NEW p \in 1..Len(pattern),
           NEW places \in SUBSET (0..Len(value)), NEW rest \in SUBSET (1..(Len(value) + 1))
    PROVE  (\E v \in places : v + 1 \in Fitting(value, pattern, p, rest))
           <=> (\E w \in Onward(value, PartAt(pattern, p), places) : w + 1 \in rest)
<1> DEFINE m == Len(value)
           part == PartAt(pattern, p)
<1>1. m \in Nat /\ DOMAIN value = 1..m /\ pattern[p] \in C /\ pattern[p] # "**"
  BY LenProperties, ElementOfSeq
<1>2. SUFFICES ASSUME NEW v \in 0..m
               PROVE  v + 1 \in Fitting(value, pattern, p, rest)
                      <=> \E w \in Reach(value, part, v) : w + 1 \in rest
  BY DEF Onward
<1>3. CASE IsDouble(pattern, p)
  <2>1. part = "**" /\ pattern[p] = "*"
    BY <1>3 DEF PartAt, IsDouble
  <2>2. Reach(value, part, v) = v..m
    BY <2>1 DEF Reach
  <2>3. v + 1 \in Fitting(value, pattern, p, rest) <=> \E next \in rest : v + 1 <= next
    BY <1>1, <1>3, <2>1 DEF Fitting
  <2>4. ASSUME NEW next \in rest, v + 1 <= next
        PROVE  next - 1 \in v..m /\ (next - 1) + 1 \in rest
    BY <1>1, <2>4
  <2>5. ASSUME NEW w \in v..m, w + 1 \in rest PROVE v + 1 <= w + 1
    BY <1>1
  <2> QED
    BY <2>2, <2>3, <2>4, <2>5
<1>4. CASE ~IsDouble(pattern, p) /\ pattern[p] = "*"
  <2>1. part = "*"
    BY <1>4 DEF PartAt
  <2>2. Reach(value, part, v) =
            {end \in v..m : \A i \in (v + 1)..end : value[i] # "/"}
    BY <2>1 DEF Reach
  <2>3. v + 1 \in Fitting(value, pattern, p, rest)
        <=> \E next \in rest : v + 1 <= next /\ \A i \in (v + 1)..(next - 1) : value[i] # "/"
    BY <1>1, <1>4 DEF Fitting
  <2>4. ASSUME NEW next \in rest, v + 1 <= next,
               \A i \in (v + 1)..(next - 1) : value[i] # "/"
        PROVE  next - 1 \in Reach(value, part, v) /\ (next - 1) + 1 \in rest
    BY <1>1, <2>2, <2>4
  <2>5. ASSUME NEW w \in Reach(value, part, v), w + 1 \in rest
        PROVE  v + 1 <= w + 1 /\ \A i \in (v + 1)..((w + 1) - 1) : value[i] # "/"
    BY <1>1, <2>2
  <2> HIDE DEF part
  <2> QED
    BY <2>3, <2>4, <2>5
<1>5. CASE ~IsDouble(pattern, p) /\ pattern[p] # "*"
  <2>1. part = pattern[p] /\ part \notin {"*", "**"}
    BY <1>1, <1>5 DEF PartAt
  <2>2. Reach(value, part, v) =
            {v + 1} \cap {i \in 1..m : IF part = "?" THEN value[i] # "/" ELSE value[i] = part}
    BY <1>1, <2>1 DEF Reach
  <2>3. v + 1 \in Fitting(value, pattern, p, rest)
        <=> /\ v + 1 \in 1..m /\ (v + 1) + 1 \in rest
            /\ IF part = "?" THEN value[v + 1] # "/" ELSE part = value[v + 1]
    BY <1>1, <1>5, <2>1 DEF Fitting
  <2> HIDE DEF part
  <2> QED
    BY <1>1, <2>2, <2>3
<1> QED
  BY <1>3, <1>4, <1>5

\* The parts found in the first characters end where the next one begins.
Between(pattern, parts, k) ==
    k < Len(pattern) /\ pattern[k + 1] = "*" => parts = <<>> \/ Last(parts) # "*"

LEMMA LastOfAppended ==
    ASSUME NEW D, NEW parts \in Seq(D), NEW part \in D
    PROVE  /\ Append(parts, part) \in Seq(D) /\ Append(parts, part) # <<>>
           /\ Last(Append(parts, part)) = part
           /\ Front(Append(parts, part)) = parts
<1> DEFINE longer == Append(parts, part)
           n == Len(parts)
<1>1. /\ n \in Nat /\ longer \in Seq(D) /\ Len(longer) = n + 1
      /\ longer[n + 1] = part /\ \A i \in 1..n : longer[i] = parts[i]
  BY LenProperties, AppendProperties
<1> HIDE DEF longer
<1>2. longer # <<>>
  BY <1>1, EmptySeq
<1>3. /\ Front(longer) \in Seq(D) /\ Len(Front(longer)) = n
      /\ \A i \in 1..n : Front(longer)[i] = longer[i]
  BY <1>1, <1>2, FrontOfList
<1>4. Front(longer) = parts
  BY <1>1, <1>3, SeqEqual
<1> QED
  BY <1>1, <1>2, <1>4 DEF Last, longer

LEMMA PartFollows ==
    ASSUME NEW C, "**" \notin C, NEW pattern \in Seq(C), NEW k \in 0..(Len(pattern) - 1),
           NEW f, PartsUpTo(f, C, pattern), Between(pattern, f[k], k),
           NEW after, after = PlaceAfter(pattern, k + 1) - 1
    PROVE  /\ after \in (k + 1)..Len(pattern)
           /\ f[after] = Append(f[k], PartAt(pattern, k + 1))
           /\ Between(pattern, f[after], after)
           /\ PartAt(pattern, k + 1) \in C \cup {"**"}
<1> DEFINE n == Len(pattern)
           D == C \cup {"**"}
<1>1. /\ n \in Nat /\ k \in Nat /\ k < n /\ k + 1 \in 1..n
      /\ \A i \in 1..n : pattern[i] \in C
      /\ pattern[k + 1] # "**" /\ pattern[k + 1] \in D
  BY LenProperties, ElementOfSeq
<1>2. f[k] \in Seq(D)
  BY <1>1 DEF PartsUpTo
<1>3. \A i \in 0..(n - 1) : f[i + 1] = WithChar(f[i], pattern[i + 1])
  BY DEF PartsUpTo
<1>4. f[k + 1] = Append(f[k], pattern[k + 1])
  BY <1>1, <1>3 DEF WithChar, Between
<1>5. CASE ~IsDouble(pattern, k + 1)
  <2>1. after = k + 1 /\ PartAt(pattern, k + 1) = pattern[k + 1]
    BY <1>1, <1>5 DEF PlaceAfter, PartAt
  <2>2. Last(f[k + 1]) = pattern[k + 1]
    BY <1>1, <1>2, <1>4, LastOfAppended
  <2>3. k + 1 < n /\ pattern[(k + 1) + 1] = "*" => pattern[k + 1] # "*"
    BY <1>5 DEF IsDouble
  <2>4. Between(pattern, f[k + 1], k + 1)
    BY <2>2, <2>3 DEF Between
  <2>5. k + 1 \in (k + 1)..n
    BY <1>1
  <2> QED
    BY <1>1, <1>4, <2>1, <2>4, <2>5
<1>6. CASE IsDouble(pattern, k + 1)
  <2>1. after = k + 2 /\ PartAt(pattern, k + 1) = "**"
    BY <1>1, <1>6 DEF PlaceAfter, PartAt
  <2>2. pattern[k + 1] = "*" /\ k + 1 < n /\ pattern[(k + 1) + 1] = "*"
    BY <1>6 DEF IsDouble
  <2>3. (k + 1) + 1 = k + 2 /\ k + 1 \in 0..(n - 1) /\ k + 2 \in (k + 1)..n
    BY <1>1, <2>2
  <2>4. f[(k + 1) + 1] = WithChar(f[k + 1], pattern[(k + 1) + 1])
    BY <1>3, <2>3
  <2>5. f[k + 1] # <<>> /\ Last(f[k + 1]) = pattern[k + 1] /\ Front(f[k + 1]) = f[k]
    BY <1>1, <1>2, <1>4, LastOfAppended
  <2>6. f[k + 2] = Append(f[k], "**")
    BY <2>2, <2>3, <2>4, <2>5 DEF WithChar
  <2>7. "**" \in D
    OBVIOUS
  <2>8. Last(f[k + 2]) = "**"
    BY <1>2, <2>6, <2>7, LastOfAppended
  <2>9. Between(pattern, f[k + 2], k + 2)
    BY <2>8 DEF Between
  <2> QED
    BY <2>1, <2>3, <2>6, <2>7, <2>9
<1> QED
  BY <1>5, <1>6

LEMMA MatchesAsDenoted ==
    ASSUME NEW C, "**" \notin C, NEW value \in Seq(C), NEW pattern \in Seq(C)
    PROVE  MatchesFrom(value, pattern) <=> Denotes(pattern, value)
<1> DEFINE n == Len(pattern)
           m == Len(value)
           D == C \cup {"**"}
<1>1. PICK from : /\ IsMatch(from, value, pattern)
                  /\ MatchesFrom(value, pattern) <=> 1 \in from[1]
  BY Matching
<1>2. PICK f : PartsUpTo(f, C, pattern)
  BY PartsInSteps
<1>3. n \in Nat /\ m \in Nat
  BY LenProperties
<1> DEFINE Live(k) == \E v \in Ways(value, f[k]) : v + 1 \in from[k + 1]
           S == {j \in 0..n : \A k \in (n - j)..n :
                                 Between(pattern, f[k], k) => (Live(k) <=> Live(n))}
<1>4. ASSUME NEW k \in 0..n PROVE Ways(value, f[k]) \in SUBSET (0..m)
  <2>1. f[k] \in Seq(D) /\ Len(f[k]) \in Nat
    BY <1>2, LenProperties DEF PartsUpTo
  <2>2. PICK parts \in Seq(D) : parts = f[k]
    BY <2>1
  <2>3. PICK g \in [0..Len(parts) -> SUBSET (0..m)] : g[Len(parts)] = Ways(value, parts)
    BY WaysInSteps
  <2> QED
    BY <2>1, <2>2, <2>3
<1>5. ASSUME NEW k \in 0..(n - 1), Between(pattern, f[k], k)
      PROVE  \E next \in (k + 1)..n :
                Between(pattern, f[next], next) /\ (Live(k) <=> Live(next))
  <2> DEFINE next == PlaceAfter(pattern, k + 1) - 1
  <2>1. /\ next \in (k + 1)..n /\ f[next] = Append(f[k], PartAt(pattern, k + 1))
        /\ Between(pattern, f[next], next)
        /\ PartAt(pattern, k + 1) \in D
    <3>1. k \in 0..(Len(pattern) - 1) /\ next = PlaceAfter(pattern, k + 1) - 1
      OBVIOUS
    <3> HIDE DEF next
    <3> QED
      BY <1>2, <1>5, <3>1, PartFollows
  <2>2. /\ k \in 0..n /\ k + 1 \in 1..n /\ k + 1 \in 1..(n + 1) /\ k + 1 # n + 1
        /\ next + 1 \in 1..(n + 1) /\ PlaceAfter(pattern, k + 1) = next + 1
    BY <1>3, <2>1, PlaceAfterIsLater
  <2>3. Ways(value, f[next]) = Onward(value, PartAt(pattern, k + 1), Ways(value, f[k]))
    BY <1>2, <2>1, <2>2, WaysFurther DEF PartsUpTo
  <2>4. /\ from[k + 1] = Fitting(value, pattern, k + 1, from[next + 1])
        /\ from[next + 1] \in SUBSET (1..(m + 1))
    BY <1>1, <2>2 DEF IsMatch
  <2>5. Ways(value, f[k]) \in SUBSET (0..m)
    BY <1>4, <2>2
  <2>6. (\E v \in Ways(value, f[k]) :
              v + 1 \in Fitting(value, pattern, k + 1, from[next + 1]))
        <=> (\E w \in Onward(value, PartAt(pattern, k + 1), Ways(value, f[k])) :
                w + 1 \in from[next + 1])
    <3> HIDE DEF next
    <3> QED
      BY <2>2, <2>4, <2>5, FittingIsReach
  <2>7. Live(k) <=> Live(next)
    BY <2>3, <2>4, <2>6
  <2> HIDE DEF Live, next
  <2> QED
    BY <2>1, <2>7
<1>6. 0 \in S
  BY <1>3
<1>7. ASSUME NEW j \in 0..(n - 1), j \in S PROVE j + 1 \in S
  <2>1. /\ j + 1 \in 0..n /\ n - (j + 1) \in 0..(n - 1)
        /\ \A k \in (n - (j + 1))..n : k = n - (j + 1) \/ k \in (n - j)..n
        /\ \A k \in ((n - (j + 1)) + 1)..n : k \in (n - j)..n
    BY <1>3
  <2>2. \A k \in (n - j)..n : Between(pattern, f[k], k) => (Live(k) <=> Live(n))
    BY <1>7
  <2>3. ASSUME NEW k \in (n - (j + 1))..n, Between(pattern, f[k], k)
        PROVE  Live(k) <=> Live(n)
    <3>1. CASE k \in (n - j)..n
      BY <2>2, <2>3, <3>1
    <3>2. CASE k = n - (j + 1)
      <4> HIDE DEF Live
      <4>1. PICK next \in (k + 1)..n :
                    Between(pattern, f[next], next) /\ (Live(k) <=> Live(next))
        <5>1. k \in 0..(n - 1)
          BY <2>1, <3>2
        <5> QED
          BY <1>5, <2>3, <5>1
      <4>2. next \in (n - j)..n
        BY <2>1, <3>2
      <4> QED
        BY <2>2, <4>1, <4>2
    <3> QED
      BY <2>1, <3>1, <3>2
  <2> HIDE DEF Live
  <2> QED
    BY <2>1, <2>3
<1> HIDE DEF S
<1>8. \A j \in 0..n : j \in S
  BY <1>3, <1>6, <1>7, UpTo
<1>9. Live(0) <=> Live(n)
  <2>1. n \in S /\ 0 \in (n - n)..n
    BY <1>3, <1>8
  <2>2. Between(pattern, f[0], 0)
    BY <1>2 DEF Between, PartsUpTo
  <2> HIDE DEF Live
  <2> QED
    BY <2>1, <2>2 DEF S
<1>10. Live(0) <=> 1 \in from[1]
  <2>1. Ways(value, f[0]) = {0}
    BY <1>2, WaysOfNone DEF PartsUpTo
  <2> QED
    BY <2>1
<1>11. Live(n) <=> m \in Ways(value, Parts(pattern))
  <2>1. from[n + 1] = {m + 1} /\ n \in 0..n
    BY <1>1, <1>3 DEF IsMatch
  <2>2. Ways(value, f[n]) \in SUBSET (0..m) /\ f[n] = Parts(pattern)
    BY <1>2, <1>4, <2>1 DEF PartsUpTo
  <2> QED
    BY <1>3, <2>1, <2>2
<1> QED
  BY <1>1, <1>9, <1>10, <1>11 DEF Denotes

-----------------------------------------------------------------------------
(* A pattern that starts with **/                                          *)

\* What holds at the end, and before each place after which it holds
LEMMA FromTheEnd ==
    ASSUME NEW C, NEW pattern \in Seq(C), NEW S, Len(pattern) + 1 \in S,
           \A p \in 1..Len(pattern) : PlaceAfter(pattern, p) \in S => p \in S
    PROVE  \A p \in 1..(Len(pattern) + 1) : p \in S
<1> DEFINE n == Len(pattern)
           T == {p \in 1..n : p \notin S}
<1>1. n \in Nat
  BY LenProperties
<1>2. SUFFICES ASSUME T # {} PROVE FALSE
  BY <1>1
<1>3. PICK p \in T : \A q \in T : p >= q
  BY <1>1, <1>2, Greatest
<1>4. p \in 1..n /\ p \notin S /\ PlaceAfter(pattern, p) \in (p + 1)..(n + 1)
  BY PlaceAfterIsLater
<1>5. PlaceAfter(pattern, p) \in S
  <2>1. CASE PlaceAfter(pattern, p) = n + 1
    BY <2>1
  <2>2. CASE PlaceAfter(pattern, p) # n + 1
    <3>1. PlaceAfter(pattern, p) \in 1..n /\ ~(p >= PlaceAfter(pattern, p))
      BY <1>1, <1>4, <2>2
    <3> QED
      BY <1>3, <3>1
  <2> QED
    BY <2>1, <2>2
<1> QED
  BY <1>4, <1>5

\* What is matched from a place is matched from the next one if the path
\* begins with a separator more.
OneMore(some, more, m) == \A v \in 1..(m + 1) : v \in some <=> v + 1 \in more

LEMMA Rooted ==
    ASSUME NEW C, "/" \in C, NEW path \in Seq(C), NEW rooted, rooted = <<"/">> \o path
    PROVE  /\ rooted \in Seq(C) /\ Len(rooted) = Len(path) + 1 /\ Len(path) \in Nat
           /\ rooted[1] = "/" /\ \A i \in 1..Len(path) : rooted[i + 1] = path[i]
<1>1. <<"/">> \in Seq(C) /\ Len(<<"/">>) = 1 /\ <<"/">>[1] = "/"
  OBVIOUS
<1>2. /\ rooted \in Seq(C) /\ Len(rooted) = 1 + Len(path) /\ Len(path) \in Nat
      /\ \A i \in 1..(1 + Len(path)) :
             rooted[i] = IF i <= 1 THEN <<"/">>[i] ELSE path[i - 1]
  BY <1>1, ConcatProperties, LenProperties
<1>3. rooted[1] = "/"
  BY <1>1, <1>2
<1>4. ASSUME NEW i \in 1..Len(path) PROVE rooted[i + 1] = path[i]
  BY <1>2
<1> QED
  BY <1>2, <1>3, <1>4

LEMMA FittingOneMore ==
    ASSUME NEW C, "/" \in C, NEW path \in Seq(C), NEW pattern \in Seq(C),
           NEW p \in 1..Len(pattern),
           NEW some \in SUBSET (1..(Len(path) + 1)),
           NEW more \in SUBSET (1..(Len(path) + 2)), OneMore(some, more, Len(path))
    PROVE  OneMore(Fitting(path, pattern, p, some),
                   Fitting(<<"/">> \o path, pattern, p, more), Len(path))
<1> DEFINE m == Len(path)
           rooted == <<"/">> \o path
<1>1. /\ m \in Nat /\ Len(rooted) = m + 1
      /\ \A i \in 1..m : rooted[i + 1] = path[i]
  BY Rooted
<1> HIDE DEF rooted
<1>2. SUFFICES ASSUME NEW v \in 1..(m + 1)
               PROVE  v \in Fitting(path, pattern, p, some)
                      <=> v + 1 \in Fitting(rooted, pattern, p, more)
  BY DEF OneMore, rooted
<1>3. CASE pattern[p] = "*"
  <2> DEFINE Fits(next) == /\ v <= next
                           /\ IsDouble(pattern, p) \/ \A i \in v..(next - 1) : path[i] # "/"
             FitsMore(next) == /\ v + 1 <= next
                               /\ \/ IsDouble(pattern, p)
                                  \/ \A i \in (v + 1)..(next - 1) : rooted[i] # "/"
  <2>1. v \in Fitting(path, pattern, p, some) <=> \E next \in some : Fits(next)
    BY <1>1, <1>3 DEF Fitting
  <2>2. v + 1 \in Fitting(rooted, pattern, p, more) <=> \E next \in more : FitsMore(next)
    BY <1>1, <1>3 DEF Fitting
  <2>3. ASSUME NEW next \in 1..(m + 1) PROVE Fits(next) <=> FitsMore(next + 1)
    <3>1. v <= next <=> v + 1 <= next + 1
      BY <1>1
    <3>2. ASSUME \A i \in v..(next - 1) : path[i] # "/", NEW i \in (v + 1)..((next + 1) - 1)
          PROVE  rooted[i] # "/"
      <4>1. i - 1 \in v..(next - 1) /\ i - 1 \in 1..m /\ (i - 1) + 1 = i
        BY <1>1
      <4>2. rooted[(i - 1) + 1] = path[i - 1]
        BY <1>1, <4>1
      <4> QED
        BY <3>2, <4>1, <4>2
    <3>3. ASSUME \A i \in (v + 1)..((next + 1) - 1) : rooted[i] # "/", NEW i \in v..(next - 1)
          PROVE  path[i] # "/"
      <4>1. i + 1 \in (v + 1)..((next + 1) - 1) /\ i \in 1..m
        BY <1>1
      <4> QED
        BY <1>1, <3>3, <4>1
    <3> QED
      BY <3>1, <3>2, <3>3
  <2>4. ASSUME NEW next \in more, FitsMore(next)
        PROVE  next - 1 \in some /\ Fits(next - 1)
    <3>1. next - 1 \in 1..(m + 1) /\ (next - 1) + 1 = next
      BY <1>1, <2>4
    <3>2. next - 1 \in some
      BY <3>1 DEF OneMore
    <3> HIDE DEF Fits, FitsMore
    <3> QED
      BY <2>3, <2>4, <3>1, <3>2
  <2>5. ASSUME NEW next \in some, Fits(next)
        PROVE  next + 1 \in more /\ FitsMore(next + 1)
    <3>1. next \in 1..(m + 1) /\ next + 1 \in more
      BY <1>1 DEF OneMore
    <3> HIDE DEF Fits, FitsMore
    <3> QED
      BY <2>3, <2>5, <3>1
  <2> HIDE DEF Fits, FitsMore
  <2> QED
    BY <2>1, <2>2, <2>4, <2>5
<1>4. CASE pattern[p] # "*"
  <2>1. v \in Fitting(path, pattern, p, some)
        <=> /\ v \in 1..m /\ v + 1 \in some
            /\ IF pattern[p] = "?" THEN path[v] # "/" ELSE pattern[p] = path[v]
    BY <1>1, <1>4 DEF Fitting
  <2>2. v + 1 \in Fitting(rooted, pattern, p, more)
        <=> /\ v + 1 \in 1..(m + 1) /\ (v + 1) + 1 \in more
            /\ IF pattern[p] = "?" THEN rooted[v + 1] # "/" ELSE pattern[p] = rooted[v + 1]
    BY <1>1, <1>4 DEF Fitting
  <2>3. v \in 1..m <=> v + 1 \in 1..(m + 1)
    BY <1>1
  <2>4. ASSUME v \in 1..m PROVE v + 1 \in some <=> (v + 1) + 1 \in more
    BY <1>1, <2>4 DEF OneMore
  <2>5. ASSUME v \in 1..m PROVE rooted[v + 1] = path[v]
    BY <1>1, <2>5
  <2> QED
    BY <2>1, <2>2, <2>3, <2>4, <2>5
<1> QED
  BY <1>3, <1>4

LEMMA MatchOneMore ==
    ASSUME NEW C, "/" \in C, NEW path \in Seq(C), NEW pattern \in Seq(C),
           NEW from, IsMatch(from, path, pattern),
           NEW far, IsMatch(far, <<"/">> \o path, pattern)
    PROVE  \A p \in 1..(Len(pattern) + 1) : OneMore(from[p], far[p], Len(path))
<1> DEFINE n == Len(pattern)
           m == Len(path)
           rooted == <<"/">> \o path
           S == {p \in 1..(n + 1) : OneMore(from[p], far[p], m)}
<1>1. m \in Nat /\ n \in Nat /\ Len(rooted) = m + 1
  BY Rooted, LenProperties
<1> HIDE DEF rooted
<1>2. n + 1 \in S
  <2>1. n + 1 \in 1..(n + 1)
    BY <1>1
  <2>2. from[n + 1] = {m + 1} /\ far[n + 1] = {Len(rooted) + 1}
    BY <2>1 DEF IsMatch, rooted
  <2>3. OneMore(from[n + 1], far[n + 1], m)
    BY <1>1, <2>2 DEF OneMore
  <2> QED
    BY <2>1, <2>3
<1>3. ASSUME NEW p \in 1..n, PlaceAfter(pattern, p) \in S PROVE p \in S
  <2> DEFINE q == PlaceAfter(pattern, p)
  <2>1. p \in 1..(n + 1) /\ p # n + 1 /\ q \in 1..(n + 1) /\ OneMore(from[q], far[q], m)
    BY <1>1, <1>3
  <2>2. /\ from[p] = Fitting(path, pattern, p, from[q])
        /\ from[q] \in SUBSET (1..(m + 1))
    BY <2>1 DEF IsMatch
  <2>3. /\ far[p] = Fitting(rooted, pattern, p, far[q])
        /\ far[q] \in SUBSET (1..(m + 1 + 1))
    BY <1>1, <2>1 DEF IsMatch, rooted
  <2>4. m + 1 + 1 = m + 2
    BY <1>1
  <2> HIDE DEF q
  <2>5. OneMore(from[p], far[p], m)
    BY <2>1, <2>2, <2>3, <2>4, FittingOneMore DEF rooted
  <2> QED
    BY <2>1, <2>5
<1> HIDE DEF S
<1>4. \A p \in 1..(n + 1) : p \in S
  BY <1>2, <1>3, FromTheEnd
<1> QED
  BY <1>4 DEF S

LEMMA RestOfPattern ==
    ASSUME NEW C, NEW pattern \in Seq(C), 3 <= Len(pattern),
           NEW rest, rest = SubSeq(pattern, 4, Len(pattern))
    PROVE  /\ rest \in Seq(C) /\ Len(rest) = Len(pattern) - 3 /\ Len(pattern) \in Nat
           /\ \A i \in 1..(Len(pattern) - 3) : rest[i] = pattern[i + 3]
<1> DEFINE n == Len(pattern)
<1>1. n \in Nat /\ \A i \in 4..n : pattern[i] \in C
  BY LenProperties, ElementOfSeq
<1>2. /\ rest \in Seq(C)
      /\ Len(rest) = IF 4 <= n THEN n - 4 + 1 ELSE 0
      /\ \A i \in 1..(n - 4 + 1) : rest[i] = pattern[4 + i - 1]
  BY <1>1, SubSeqProperties
<1>3. Len(rest) = n - 3
  <2>1. n \in Nat /\ 3 <= n /\ Len(rest) = IF 4 <= n THEN n - 4 + 1 ELSE 0
    BY <1>1, <1>2
  <2> HIDE DEF n
  <2> QED
    BY <2>1
<1>4. ASSUME NEW i \in 1..(n - 3) PROVE rest[i] = pattern[i + 3]
  <2>1. i \in 1..(n - 4 + 1) /\ 4 + i - 1 = i + 3
    BY <1>1
  <2> QED
    BY <1>2, <2>1
<1> QED
  BY <1>1, <1>2, <1>3, <1>4

LEMMA MatchOfRest ==
    ASSUME NEW C, NEW path \in Seq(C), NEW pattern \in Seq(C), 3 <= Len(pattern),
           NEW from, IsMatch(from, path, pattern),
           NEW back, IsMatch(back, path, SubSeq(pattern, 4, Len(pattern)))
    PROVE  back[1] = from[4]
<1> DEFINE n == Len(pattern)
           rest == SubSeq(pattern, 4, n)
           S == {q \in 1..((n - 3) + 1) : back[q] = from[q + 3]}
<1>1. /\ rest \in Seq(C) /\ Len(rest) = n - 3 /\ n \in Nat /\ n >= 3
      /\ \A i \in 1..(n - 3) : rest[i] = pattern[i + 3]
  BY RestOfPattern
<1> HIDE DEF rest
<1>2. IsMatch(back, path, rest)
  BY DEF rest
<1>3. (n - 3) + 1 \in S
  <2>1. (n - 3) + 1 \in 1..((n - 3) + 1) /\ ((n - 3) + 1) + 3 = n + 1 /\ n + 1 \in 1..(n + 1)
    BY <1>1
  <2>2. back[(n - 3) + 1] = {Len(path) + 1} /\ from[n + 1] = {Len(path) + 1}
    BY <1>1, <1>2, <2>1 DEF IsMatch
  <2> QED
    BY <2>1, <2>2
<1>4. ASSUME NEW q \in 1..(n - 3), PlaceAfter(rest, q) \in S PROVE q \in S
  <2>1. /\ q + 3 \in 1..n /\ rest[q] = pattern[q + 3]
        /\ q < n - 3 <=> q + 3 < n
        /\ q < n - 3 => rest[q + 1] = pattern[q + 4]
        /\ q \in 1..((n - 3) + 1) /\ q # (n - 3) + 1
        /\ q + 3 \in 1..(n + 1) /\ q + 3 # n + 1
    BY <1>1
  <2>2. IsDouble(rest, q) <=> IsDouble(pattern, q + 3)
    BY <1>1, <2>1 DEF IsDouble
  <2>3. PlaceAfter(pattern, q + 3) = PlaceAfter(rest, q) + 3
    BY <1>1, <2>2 DEF PlaceAfter
  <2>4. back[q] = Fitting(path, rest, q, back[PlaceAfter(rest, q)])
    BY <1>1, <1>2, <2>1 DEF IsMatch
  <2>5. from[q + 3] = Fitting(path, pattern, q + 3, from[PlaceAfter(pattern, q + 3)])
    BY <2>1 DEF IsMatch
  <2>6. back[PlaceAfter(rest, q)] = from[PlaceAfter(rest, q) + 3]
    BY <1>4
  <2>7. \A places : Fitting(path, rest, q, places) = Fitting(path, pattern, q + 3, places)
    BY <2>1, <2>2 DEF Fitting
  <2> QED
    BY <2>1, <2>3, <2>4, <2>5, <2>6, <2>7
<1> HIDE DEF S
<1>5. \A q \in 1..((n - 3) + 1) : q \in S
  BY <1>1, <1>3, <1>4, FromTheEnd
<1>6. 1 \in S
  BY <1>1, <1>5
<1> QED
  BY <1>6 DEF S

LEMMA AnyDirectories ==
    ASSUME NEW pattern, Len(pattern) \in Nat, IsPrefix(<<"*", "*", "/">>, pattern)
    PROVE  /\ 3 <= Len(pattern)
           /\ pattern[1] = "*" /\ pattern[2] = "*" /\ pattern[3] = "/"
<1> DEFINE any == <<"*", "*", "/">>
<1>1. Len(any) = 3 /\ any[1] = "*" /\ any[2] = "*" /\ any[3] = "/"
  OBVIOUS
<1>2. 3 <= Len(pattern) /\ SubSeq(any, 1, 3) = SubSeq(pattern, 1, 3)
  BY <1>1 DEF IsPrefix
<1>3. \A i \in 1..3 : SubSeq(any, 1, 3)[i] = any[i]
  BY <1>1
<1>4. \A i \in 1..3 : SubSeq(pattern, 1, 3)[i] = pattern[i]
  BY <1>2
<1> QED
  BY <1>1, <1>2, <1>3, <1>4

LEMMA MatchesAsApplies ==
    ASSUME NEW C, "**" \notin C, "/" \in C, NEW path \in Seq(C), NEW pattern \in Seq(C)
    PROVE  RuleApplies(pattern, path)
           <=> \/ MatchesFrom(path, pattern)
               \/ /\ IsPrefix(<<"*", "*", "/">>, pattern)
                  /\ MatchesFrom(path, SubSeq(pattern, 4, Len(pattern)))
<1> DEFINE n == Len(pattern)
           m == Len(path)
           rooted == <<"/">> \o path
           rest == SubSeq(pattern, 4, n)
<1>1. CASE ~IsPrefix(<<"*", "*", "/">>, pattern)
  BY <1>1, MatchesAsDenoted DEF RuleApplies
<1>2. CASE IsPrefix(<<"*", "*", "/">>, pattern)
  <2>1. /\ n \in Nat /\ 3 <= n
        /\ pattern[1] = "*" /\ pattern[2] = "*" /\ pattern[3] = "/"
    BY <1>2, AnyDirectories, LenProperties
  <2>2. /\ rooted \in Seq(C) /\ Len(rooted) = m + 1 /\ m \in Nat /\ rooted[1] = "/"
        /\ \A i \in 1..m : rooted[i + 1] = path[i]
    BY Rooted
  <2>3. rest \in Seq(C)
    BY <2>1, RestOfPattern
  <2>4. RuleApplies(pattern, path) <=> MatchesFrom(rooted, pattern)
    BY <1>2, <2>2, MatchesAsDenoted DEF RuleApplies
  <2>5. PICK from : IsMatch(from, path, pattern) /\ (MatchesFrom(path, pattern) <=> 1 \in from[1])
    BY Matching
  <2>6. PICK far : IsMatch(far, rooted, pattern) /\ (MatchesFrom(rooted, pattern) <=> 1 \in far[1])
    BY <2>2, Matching
  <2>7. PICK back : IsMatch(back, path, rest) /\ (MatchesFrom(path, rest) <=> 1 \in back[1])
    BY <2>3, Matching
  <2>8. back[1] = from[4]
    BY <2>1, <2>5, <2>7, MatchOfRest
  <2>9. \A p \in 1..(n + 1) : OneMore(from[p], far[p], m)
    BY <2>5, <2>6, MatchOneMore
  <2>10. /\ IsDouble(pattern, 1) /\ PlaceAfter(pattern, 1) = 3
         /\ ~IsDouble(pattern, 3) /\ PlaceAfter(pattern, 3) = 4
         /\ {1, 3, 4} \subseteq 1..(n + 1) /\ 1 # n + 1 /\ 3 # n + 1
    BY <2>1 DEF IsDouble, PlaceAfter
  <2> HIDE DEF rooted, rest
  <2>11. /\ from[1] = Fitting(path, pattern, 1, from[3])
         /\ from[3] \in SUBSET (1..(m + 1)) /\ from[4] \in SUBSET (1..(m + 1))
    BY <2>5, <2>10 DEF IsMatch
  <2>12. /\ far[1] = Fitting(rooted, pattern, 1, far[3])
         /\ far[3] = Fitting(rooted, pattern, 3, far[4])
         /\ far[3] \in SUBSET (1..((m + 1) + 1))
    BY <2>2, <2>6, <2>10 DEF IsMatch
  <2>13. 1 \in from[1] <=> from[3] # {}
    <3>1. 1 \in from[1] <=> \E next \in from[3] : 1 <= next
      BY <2>1, <2>2, <2>10, <2>11 DEF Fitting
    <3> QED
      BY <2>11, <3>1
  <2>14. 1 \in far[1] <=> far[3] # {}
    <3>1. 1 \in far[1] <=> \E next \in far[3] : 1 <= next
      BY <2>1, <2>2, <2>10, <2>12 DEF Fitting
    <3> QED
      BY <2>12, <3>1
  <2>15. 1 \in far[3] <=> 2 \in far[4]
    BY <2>1, <2>2, <2>12 DEF Fitting
  <2>16. 2 \in far[4] <=> 1 \in from[4]
    BY <2>2, <2>9, <2>10 DEF OneMore
  <2>17. ASSUME NEW v \in 1..(m + 1) PROVE v \in from[3] <=> v + 1 \in far[3]
    BY <2>9, <2>10 DEF OneMore
  <2>18. far[3] # {} <=> 1 \in far[3] \/ from[3] # {}
    <3>1. ASSUME NEW v \in far[3], v # 1 PROVE v - 1 \in from[3]
      <4>1. v - 1 \in 1..(m + 1) /\ (v - 1) + 1 = v
        BY <2>2, <2>12, <3>1
      <4> QED
        BY <2>17, <3>1, <4>1
    <3>2. ASSUME NEW v \in from[3] PROVE v + 1 \in far[3]
      BY <2>11, <2>17
    <3> QED
      BY <3>1, <3>2
  <2> QED
    BY <1>2, <2>4, <2>5, <2>6, <2>7, <2>8, <2>13, <2>14, <2>15, <2>16, <2>18 DEF rest
<1> QED
  BY <1>1, <1>2

LEMMA NormalizedText ==
    ASSUME NEW C, "/" \in C, NEW text \in Seq(C)
    PROVE  /\ Normalized(text) \in Seq(C) /\ Len(Normalized(text)) = Len(text)
           /\ \A i \in 1..Len(text) :
                  Normalized(text)[i] = IF text[i] = "\\" THEN "/" ELSE text[i]
<1>1. Len(text) \in Nat /\ DOMAIN text = 1..Len(text) /\ \A i \in 1..Len(text) : text[i] \in C
  BY LenProperties, ElementOfSeq
<1>2. Normalized(text) \in [1..Len(text) -> C]
  BY <1>1 DEF Normalized
<1>3. Normalized(text) \in Seq(C)
  BY <1>1, <1>2, SeqDef
<1>4. DOMAIN Normalized(text) = 1..Len(text)
  BY <1>2
<1>5. Len(Normalized(text)) = Len(text)
  BY <1>1, <1>3, <1>4, LenProperties
<1>6. \A i \in 1..Len(text) : Normalized(text)[i] = IF text[i] = "\\" THEN "/" ELSE text[i]
  BY <1>1 DEF Normalized
<1> QED
  BY <1>3, <1>5, <1>6

LEMMA WildcardMatchAsMeant ==
    ASSUME NEW C, "**" \notin C, "/" \in C, NEW path \in Seq(C), NEW pattern \in Seq(C)
    PROVE  WildcardMatch(path, pattern) <=> RuleApplies(Normalized(pattern), Normalized(path))
<1>1. /\ Normalized(path) \in Seq(C) /\ Normalized(pattern) \in Seq(C)
      /\ Len(Normalized(pattern)) = Len(pattern)
  BY NormalizedText
<1> QED
  BY <1>1, MatchesAsApplies DEF WildcardMatch

-----------------------------------------------------------------------------
(* The rule in a line, and the last one that applies.                      *)

LEMMA TrimmedText ==
    ASSUME NEW C, NEW line \in Seq(C)
    PROVE  Trimmed(line) \in Seq(C)
<1> DEFINE n == Len(line)
           solid == {i \in DOMAIN line : line[i] \notin Blanks}
           first == CHOOSE i \in solid : \A j \in solid : i <= j
           last == CHOOSE i \in solid : \A j \in solid : i >= j
<1>1. n \in Nat /\ DOMAIN line = 1..n /\ \A i \in 1..n : line[i] \in C
  BY LenProperties, ElementOfSeq
<1>2. CASE solid = {}
  BY <1>2, EmptySeq DEF Trimmed
<1>3. CASE solid # {}
  <2>1. solid \subseteq 1..n /\ solid \subseteq Nat
    BY <1>1
  <2> HIDE DEF solid
  <2>2. first \in solid
    <3>1. \E i \in solid : \A j \in solid : i <= j
      BY <1>3, <2>1, Least
    <3> QED
      BY <3>1
  <2>3. last \in solid
    <3>1. \E i \in solid : \A j \in solid : i >= j
      BY <1>1, <1>3, <2>1, Greatest
    <3> QED
      BY <3>1
  <2>4. Trimmed(line) = SubSeq(line, first, last)
    BY <1>3 DEF Trimmed, solid
  <2> HIDE DEF first, last
  <2>5. first \in 1..n /\ last \in 1..n /\ \A i \in first..last : line[i] \in C
    BY <1>1, <2>1, <2>2, <2>3
  <2>6. SubSeq(line, first, last) \in Seq(C)
    BY <2>5, SubSeqProperties
  <2> QED
    BY <2>4, <2>6
<1> QED
  BY <1>2, <1>3

RuleIn(line) == Normalized(Trimmed(line))

Negated(line) == RuleIn(line)[1] = "!"

Applying(line, path) ==
    /\ RuleIn(line) \notin {<<>>, <<"!">>}
    /\ RuleIn(line)[1] # "#"
    /\ RuleApplies(IF Negated(line) THEN Tail(RuleIn(line)) ELSE RuleIn(line),
                   Normalized(path))

LEMMA NormalizedTail ==
    ASSUME NEW C, "/" \in C, NEW text \in Seq(C), text # <<>>
    PROVE  /\ Tail(text) \in Seq(C) /\ Normalized(Tail(text)) = Tail(Normalized(text))
           /\ Tail(text) = <<>> <=> Len(text) = 1
           /\ Len(text) \in Nat \ {0}
<1> DEFINE tail == Tail(text)
           norm == Normalized(text)
<1>1. /\ tail \in Seq(C) /\ Len(tail) = Len(text) - 1 /\ Len(text) \in Nat \ {0}
      /\ \A i \in 1..Len(tail) : tail[i] = text[i + 1]
  BY HeadTailProperties, LenProperties, EmptySeq
<1>2. /\ norm \in Seq(C) /\ Len(norm) = Len(text)
      /\ \A i \in 1..Len(text) : norm[i] = IF text[i] = "\\" THEN "/" ELSE text[i]
  BY NormalizedText
<1> HIDE DEF norm
<1>3. norm # <<>>
  BY <1>1, <1>2, EmptySeq
<1>4. /\ Tail(norm) \in Seq(C) /\ Len(Tail(norm)) = Len(norm) - 1
      /\ \A i \in 1..Len(Tail(norm)) : Tail(norm)[i] = norm[i + 1]
  BY <1>2, <1>3, HeadTailProperties
<1> HIDE DEF tail
<1>5. /\ Normalized(tail) \in Seq(C) /\ Len(Normalized(tail)) = Len(tail)
      /\ \A i \in 1..Len(tail) :
             Normalized(tail)[i] = IF tail[i] = "\\" THEN "/" ELSE tail[i]
  BY <1>1, NormalizedText
<1>6. ASSUME NEW i \in 1..Len(tail) PROVE Normalized(tail)[i] = Tail(norm)[i]
  <2>1. i + 1 \in 1..Len(text) /\ i \in 1..Len(Tail(norm))
    BY <1>1, <1>2, <1>4
  <2> QED
    BY <1>1, <1>2, <1>4, <1>5, <2>1
<1>7. Normalized(tail) = Tail(norm)
  BY <1>1, <1>2, <1>4, <1>5, <1>6, SeqEqual
<1>8. tail = <<>> <=> Len(text) = 1
  BY <1>1, EmptySeq
<1> QED
  BY <1>1, <1>7, <1>8 DEF tail, norm

LEMMA RulingAsMeant ==
    ASSUME NEW C, "**" \notin C, "/" \in C, NEW line \in Seq(C), NEW path \in Seq(C)
    PROVE  Ruling(line, path) = IF ~Applying(line, path) THEN "nothing"
                                ELSE IF Negated(line) THEN "include" ELSE "exclude"
<1> DEFINE rule == Trimmed(line)
           negated == rule # <<>> /\ rule[1] = "!"
           pattern == IF negated THEN Tail(rule) ELSE rule
           says == IF \/ rule = <<>> \/ rule[1] = "#"
                      \/ pattern = <<>> \/ ~WildcardMatch(path, pattern)
                   THEN "nothing"
                   ELSE IF negated THEN "include" ELSE "exclude"
<1>1. Ruling(line, path) = says
  BY DEF Ruling
<1>2. /\ rule \in Seq(C) /\ Len(rule) \in Nat
      /\ RuleIn(line) \in Seq(C) /\ Len(RuleIn(line)) = Len(rule)
      /\ \A i \in 1..Len(rule) :
             RuleIn(line)[i] = IF rule[i] = "\\" THEN "/" ELSE rule[i]
  BY TrimmedText, NormalizedText, LenProperties DEF RuleIn
<1> HIDE DEF rule
<1>3. CASE rule = <<>>
  <2>1. RuleIn(line) = <<>>
    BY <1>2, <1>3, EmptySeq
  <2> QED
    BY <1>1, <1>3, <2>1 DEF Applying
<1>4. CASE rule # <<>>
  <2>1. Len(rule) \in Nat \ {0} /\ 1 \in 1..Len(rule)
    BY <1>2, <1>4, EmptySeq
  <2>2. /\ RuleIn(line) # <<>>
        /\ negated <=> Negated(line)
        /\ rule[1] = "#" <=> RuleIn(line)[1] = "#"
    BY <1>2, <1>4, <2>1, EmptySeq DEF Negated
  <2>3. /\ pattern \in Seq(C)
        /\ Normalized(pattern) = IF Negated(line) THEN Tail(RuleIn(line)) ELSE RuleIn(line)
        /\ pattern = <<>> <=> negated /\ Len(rule) = 1
    BY <1>2, <1>4, <2>2, NormalizedTail DEF RuleIn, rule
  <2>4. RuleIn(line) = <<"!">> <=> negated /\ Len(rule) = 1
    <3>1. ASSUME RuleIn(line) = <<"!">> PROVE negated /\ Len(rule) = 1
      <4>1. Len(<<"!">>) = 1 /\ <<"!">>[1] = "!"
        OBVIOUS
      <4> QED
        BY <1>2, <2>2, <3>1, <4>1 DEF Negated
    <3>2. ASSUME negated, Len(rule) = 1 PROVE RuleIn(line) = <<"!">>
      <4>1. <<"!">> \in Seq({"!"} \cup C) /\ Len(<<"!">>) = 1 /\ <<"!">>[1] = "!"
        OBVIOUS
      <4>2. \A i \in 1..1 : RuleIn(line)[i] = <<"!">>[i]
        BY <2>2, <3>2, <4>1 DEF Negated
      <4> QED
        BY <1>2, <3>2, <4>1, <4>2, SeqEqual
    <3> QED
      BY <3>1, <3>2
  <2> HIDE DEF negated, pattern
  <2>5. WildcardMatch(path, pattern) <=> RuleApplies(Normalized(pattern), Normalized(path))
    BY <2>3, WildcardMatchAsMeant
  <2>6. Applying(line, path) <=>
            ~(rule[1] = "#" \/ pattern = <<>> \/ ~WildcardMatch(path, pattern))
    BY <2>2, <2>3, <2>4, <2>5 DEF Applying
  <2> QED
    BY <1>1, <1>4, <2>2, <2>6
<1> QED
  BY <1>3, <1>4

LEMMA LeftOutByTheLast ==
    ASSUME NEW lines, NEW path
    PROVE  LET applying == {i \in DOMAIN lines : Applying(lines[i], path)}
           IN  LeftOut(lines, path) <=>
                  \E i \in applying : ~Negated(lines[i]) /\ \A j \in applying : j <= i
BY DEF LeftOut, Applying, Negated, RuleIn

\* Whether the last of the first k rules that applies excludes
ExcludedBy(lines, path, k) ==
    \E i \in 1..k :
        /\ Applying(lines[i], path) /\ ~Negated(lines[i])
        /\ \A j \in 1..k : Applying(lines[j], path) => j <= i

LEMMA ExcludedByNext ==
    ASSUME NEW lines, NEW path, NEW k \in Nat
    PROVE  ExcludedBy(lines, path, k + 1) <=>
              IF Applying(lines[k + 1], path) THEN ~Negated(lines[k + 1])
              ELSE ExcludedBy(lines, path, k)
<1>1. \A i \in 1..(k + 1) : i = k + 1 \/ i \in 1..k
  OBVIOUS
<1>2. k + 1 \in 1..(k + 1) /\ \A i \in 1..k : i \in 1..(k + 1) /\ ~(k + 1 <= i)
  OBVIOUS
<1>3. \A i \in 1..(k + 1) : i <= k + 1
  OBVIOUS
<1>4. CASE Applying(lines[k + 1], path)
  <2>1. ASSUME ~Negated(lines[k + 1]) PROVE ExcludedBy(lines, path, k + 1)
    BY <1>2, <1>3, <1>4, <2>1 DEF ExcludedBy
  <2>2. ASSUME ExcludedBy(lines, path, k + 1) PROVE ~Negated(lines[k + 1])
    <3>1. PICK i \in 1..(k + 1) :
                  /\ ~Negated(lines[i])
                  /\ \A j \in 1..(k + 1) : Applying(lines[j], path) => j <= i
      BY <2>2 DEF ExcludedBy
    <3>2. k + 1 <= i
      BY <1>2, <1>4, <3>1
    <3>3. i = k + 1
      BY <1>1, <1>2, <3>2
    <3> QED
      BY <3>1, <3>3
  <2> QED
    BY <1>4, <2>1, <2>2
<1>5. CASE ~Applying(lines[k + 1], path)
  BY <1>1, <1>2, <1>5 DEF ExcludedBy
<1> QED
  BY <1>4, <1>5

Rulings == {"nothing", "include", "exclude"}

Decided(ruling, line, path) ==
    IF Ruling(line, path) = "nothing" THEN ruling ELSE Ruling(line, path)

LEMMA SkipUnitAsMeant ==
    ASSUME NEW C, "**" \notin C, "/" \in C, NEW lines \in Seq(Seq(C)),
           NEW path \in Seq(C), path # <<>>
    PROVE  SkipUnit(lines, path) <=> LeftOut(lines, path)
<1> DEFINE n == Len(lines)
           G == [x \in Rulings \X (1..n) |-> Decided(x[1], lines[x[2]], path)]
           Table(t) == [s \in SUBSET (DOMAIN lines) |->
                          IF s = {} THEN "nothing"
                          ELSE Decided(t[s \ {Max(s)}], lines[Max(s)], path)]
           iter == CHOOSE t : t = Table(t)
<1>1. /\ n \in Nat /\ DOMAIN lines = 1..n
      /\ \A i \in 1..n : lines[i] \in Seq(C)
      /\ "nothing" \in Rulings
  BY LenProperties, ElementOfSeq DEF Rulings
<1>2. ASSUME NEW ruling \in Rulings, NEW line PROVE Decided(ruling, line, path) \in Rulings
  BY DEF Decided, Ruling, Rulings
<1>3. G \in [Rulings \X (1..n) -> Rulings]
  BY <1>2
<1>4. PICK g : IsTable(g, n, Rulings, "nothing", G)
  BY <1>1, <1>3, FoldTable
<1>5. g = Table(g)
  <2>1. ASSUME NEW s \in SUBSET (1..n), s # {}
        PROVE  G[<<g[s \ {Max(s)}], Max(s)>>] = Decided(g[s \ {Max(s)}], lines[Max(s)], path)
    <3>1. Max(s) \in 1..n /\ g[s \ {Max(s)}] \in Rulings
      BY <1>1, <1>4, <2>1, LastPlace DEF IsTable
    <3> QED
      BY <3>1
  <2> HIDE DEF G
  <2> QED
    BY <1>1, <1>4, <2>1 DEF IsTable
<1>6. iter = Table(iter)
  BY <1>5
<1>7. SkipUnit(lines, path) <=> iter[DOMAIN lines] = "exclude"
  BY DEF SkipUnit, FoldLeft, MapThenFoldSet, Decided
<1> HIDE DEF iter
<1> DEFINE f == [k \in 0..n |-> iter[1..k]]
<1>8. \A s \in SUBSET (1..n) :
         iter[s] = IF s = {} THEN "nothing"
                   ELSE Decided(iter[s \ {Max(s)}], lines[Max(s)], path)
  BY <1>1, <1>6
<1>9. f[0] = "nothing"
  <2>1. 1..0 = {} /\ {} \in SUBSET (1..n) /\ 0 \in 0..n
    BY <1>1
  <2> QED
    BY <1>8, <2>1
<1>10. ASSUME NEW k \in 0..(n - 1) PROVE f[k + 1] = Decided(f[k], lines[k + 1], path)
  <2>1. k \in 0..n /\ k + 1 \in 0..n
    BY <1>1
  <2>2. /\ 1..(k + 1) \in SUBSET (1..n) /\ 1..(k + 1) # {}
        /\ Max(1..(k + 1)) = k + 1 /\ (1..(k + 1)) \ {k + 1} = 1..k
    BY <1>1, FirstPlaces
  <2> QED
    BY <1>1, <1>8, <2>1, <2>2
<1>11. f[n] = iter[DOMAIN lines]
  BY <1>1
<1> HIDE DEF f
<1> DEFINE S == {k \in 0..n : f[k] = "exclude" <=> ExcludedBy(lines, path, k)}
<1>12. 0 \in S
  <2>1. 0 \in 0..n /\ f[0] # "exclude" /\ ~ExcludedBy(lines, path, 0)
    BY <1>1, <1>9 DEF ExcludedBy
  <2> QED
    BY <2>1
<1>13. ASSUME NEW k \in 0..(n - 1), k \in S PROVE k + 1 \in S
  <2>1. /\ k \in Nat /\ k + 1 \in 0..n /\ lines[k + 1] \in Seq(C)
        /\ f[k] = "exclude" <=> ExcludedBy(lines, path, k)
    BY <1>1, <1>13
  <2>2. Ruling(lines[k + 1], path) =
            IF ~Applying(lines[k + 1], path) THEN "nothing"
            ELSE IF Negated(lines[k + 1]) THEN "include" ELSE "exclude"
    BY <2>1, RulingAsMeant
  <2>3. f[k + 1] = "exclude" <=> ExcludedBy(lines, path, k + 1)
    BY <1>10, <2>1, <2>2, ExcludedByNext DEF Decided
  <2> QED
    BY <2>1, <2>3
<1> HIDE DEF S
<1>14. \A k \in 0..n : k \in S
  BY <1>1, <1>12, <1>13, UpTo
<1>15. f[n] = "exclude" <=> ExcludedBy(lines, path, n)
  <2>1. n \in S
    BY <1>1, <1>14
  <2> QED
    BY <2>1 DEF S
<1>16. LeftOut(lines, path) <=> ExcludedBy(lines, path, n)
  BY <1>1, LeftOutByTheLast DEF ExcludedBy
<1> QED
  BY <1>7, <1>11, <1>15, <1>16

-----------------------------------------------------------------------------
(* The units that are walked.                                              *)

LEMMA InBigger ==
    ASSUME NEW C, NEW s, IsList(s), Range(s) \subseteq C
    PROVE  s \in Seq(C)
BY SeqMonotonic DEF IsList

LEMMA SourcePathText ==
    ASSUME NEW C, {"?", "/"} \subseteq C, NEW u,
           u.name \in Seq(C), u.directory \in Seq(C)
    PROVE  SourcePath(u) \in Seq(C) /\ SourcePath(u) # <<>>
<1> DEFINE name == IF u.name = <<>> THEN <<"?">> ELSE u.name
           whole == IF u.directory = <<>> THEN name ELSE u.directory \o <<"/">> \o name
<1>1. name \in Seq(C) /\ Len(name) \in Nat /\ Len(name) # 0
  <2>1. <<"?">> \in Seq(C) /\ Len(<<"?">>) = 1
    OBVIOUS
  <2> QED
    BY <2>1, LenProperties, EmptySeq
<1> HIDE DEF name
<1>2. /\ <<"/">> \in Seq(C) /\ Len(<<"/">>) = 1
      /\ u.directory \in Seq(C) /\ Len(u.directory) \in Nat
  BY LenProperties
<1>3. u.directory \o <<"/">> \in Seq(C) /\ Len(u.directory \o <<"/">>) = Len(u.directory) + 1
  BY <1>2, ConcatProperties
<1>4. /\ (u.directory \o <<"/">>) \o name \in Seq(C)
      /\ Len((u.directory \o <<"/">>) \o name) = Len(u.directory) + 1 + Len(name)
  BY <1>1, <1>3, ConcatProperties
<1>5. whole \in Seq(C) /\ Len(whole) # 0
  BY <1>1, <1>2, <1>4
<1>6. SourcePath(u) = Normalized(whole)
  BY DEF SourcePath, name
<1> HIDE DEF whole
<1>7. SourcePath(u) \in Seq(C) /\ Len(SourcePath(u)) # 0
  BY <1>5, <1>6, NormalizedText
<1> QED
  BY <1>7, EmptySeq

\* The code decides about a unit what the rules mean.
LEMMA UnitDecided ==
    ASSUME NEW load \in Loads, NEW i \in DOMAIN load.file.units
    PROVE  SkipUnit(load.policy.rules, SourcePath(load.file.units[i]))
           <=> LeftOut(load.policy.rules, SourcePath(load.file.units[i]))
<1> DEFINE u == load.file.units[i]
           lines == load.policy.rules
           C == {"?", "/"} \cup Range(u.name) \cup Range(u.directory)
                    \cup UNION {Range(line) : line \in Range(lines)}
<1>1. /\ IsText(u.name) /\ IsText(u.directory)
      /\ IsList(lines) /\ \A line \in Range(lines) : IsText(line)
  BY LoadsAssumption DEF IsFile
<1> HIDE DEF u, lines
<1>2. "**" \notin C /\ {"?", "/"} \subseteq C
  BY <1>1 DEF IsText
<1>3. /\ Range(u.name) \subseteq C /\ Range(u.directory) \subseteq C
      /\ \A line \in Range(lines) : Range(line) \subseteq C
  OBVIOUS
<1> HIDE DEF C
<1>4. u.name \in Seq(C) /\ u.directory \in Seq(C)
  BY <1>1, <1>3, InBigger DEF IsText
<1>5. Range(lines) \subseteq Seq(C)
  <2> SUFFICES ASSUME NEW line \in Range(lines) PROVE line \in Seq(C)
    OBVIOUS
  <2> QED
    BY <1>1, <1>3, InBigger DEF IsText
<1>6. lines \in Seq(Seq(C))
  BY <1>1, <1>5, InBigger
<1>7. SourcePath(u) \in Seq(C) /\ SourcePath(u) # <<>>
  BY <1>2, <1>4, SourcePathText
<1>8. "/" \in C
  BY <1>2
<1>9. SkipUnit(lines, SourcePath(u)) <=> LeftOut(lines, SourcePath(u))
  BY <1>2, <1>6, <1>7, <1>8, SkipUnitAsMeant
<1> QED
  BY <1>9 DEF u, lines

UnitsInv ==
    /\ \E load \in Loads : file = load.file /\ policy = load.policy
    /\ unit \in 0..Len(file.units)
    /\ UnitsFollowRules

UnitsStay == file' = file /\ policy' = policy /\ unit' = unit /\ kept' = kept

LEMMA StepsOfTheUnits ==
    ASSUME ReaderNext
    PROVE  NextUnit \/ UnitsStay
<1> USE DEF UnitsStay
<1>2. CASE WalkDie BY <1>2 DEF WalkDie, unchangedWalk
<1>3. CASE LeaveScope BY <1>3 DEF LeaveScope, unchangedWalk
<1>4. CASE EnsureType BY <1>4 DEF EnsureType, unchangedWalk
<1>5. CASE TypeEnsured BY <1>5 DEF TypeEnsured, unchangedWalk
<1>6. CASE RecordType BY <1>6 DEF RecordType, unchangedWalk
<1>7. CASE NextChild BY <1>7 DEF NextChild, unchangedWalk
<1>8. CASE RecordedType BY <1>8 DEF RecordedType, unchangedWalk
<1>9. CASE PlaceMember BY <1>9 DEF PlaceMember, unchangedWalk
<1>10. CASE MaterializeType BY <1>10 DEF MaterializeType, unchangedWalk
<1>11. CASE FollowReferences BY <1>11 DEF FollowReferences, unchangedWalk
<1>12. CASE RecordUnitType BY <1>12 DEF RecordUnitType, unchangedWalk
<1>13. CASE BeginVariable BY <1>13 DEF BeginVariable, unchangedWalk
<1>14. CASE LocateVariable BY <1>14 DEF LocateVariable, unchangedWalk
<1>15. CASE InheritName BY <1>15 DEF InheritName, unchangedWalk
<1>16. CASE InheritLocation BY <1>16 DEF InheritLocation, unchangedWalk
<1>17. CASE StoreVariable BY <1>17 DEF StoreVariable, unchangedWalk
<1>18. CASE StartExpression BY <1>18 DEF StartExpression, readerVars
<1>19. CASE StepExpression BY <1>19 DEF StepExpression, readerVars
<1>20. CASE EndWalk BY <1>20 DEF EndWalk
<1>21. CASE ApplySymbols BY <1>21 DEF ApplySymbols, Pass
<1>22. CASE Deduplicate BY <1>22 DEF Deduplicate, Pass
<1>23. CASE PruneLocals BY <1>23 DEF PruneLocals, Pass
<1>24. CASE PrunePlaceholders BY <1>24 DEF PrunePlaceholders, Pass
<1> QED
  BY <1>2, <1>3, <1>4, <1>5, <1>6, <1>7, <1>8, <1>9, <1>10, <1>11, <1>12, <1>13, <1>14,
     <1>15, <1>16, <1>17, <1>18, <1>19, <1>20, <1>21, <1>22, <1>23, <1>24 DEF ReaderNext

LEMMA UnitsInit == ReaderInit => UnitsInv
<1> SUFFICES ASSUME ReaderInit PROVE UnitsInv
  OBVIOUS
<1>1. PICK load \in Loads : file = load.file /\ policy = load.policy
  BY DEF ReaderInit
<1>2. Len(file.units) \in Nat
  BY <1>1, LoadsAssumption, LenProperties DEF IsFile, IsList
<1>3. unit = 0 /\ kept = {}
  BY DEF ReaderInit
<1> QED
  BY <1>1, <1>2, <1>3 DEF UnitsInv, UnitsFollowRules

LEMMA UnitsNext ==
    ASSUME UnitsInv, [ReaderNext]_<<readerVars, expressionVars>>
    PROVE  UnitsInv'
<1>1. CASE UnitsStay
  BY <1>1 DEF UnitsStay, UnitsInv, UnitsFollowRules
<1>2. CASE UNCHANGED <<readerVars, expressionVars>>
  BY <1>1, <1>2 DEF readerVars, UnitsStay
<1>3. CASE NextUnit
  <2> DEFINE Out(i) == LeftOut(policy.rules, SourcePath(file.units[i]))
  <2>1. PICK load \in Loads : file = load.file /\ policy = load.policy
    BY DEF UnitsInv
  <2>2. /\ unit < Len(file.units) /\ unit' = unit + 1 /\ file' = file /\ policy' = policy
        /\ kept' = IF SkipUnit(policy.rules, SourcePath(file.units[unit + 1]))
                   THEN kept ELSE kept \cup {unit + 1}
    BY <1>3 DEF NextUnit
  <2>3. /\ unit \in Nat /\ Len(file.units) \in Nat
        /\ DOMAIN file.units = 1..Len(file.units)
    BY <2>1, LoadsAssumption, LenProperties DEF IsFile, IsList, UnitsInv
  <2>4. SkipUnit(policy.rules, SourcePath(file.units[unit + 1])) <=> Out(unit + 1)
    <3>1. unit + 1 \in DOMAIN load.file.units
      BY <2>1, <2>2, <2>3
    <3> QED
      BY <2>1, <3>1, UnitDecided
  <2>5. kept = {i \in 1..unit : ~Out(i)}
    BY DEF UnitsInv, UnitsFollowRules
  <2> HIDE DEF Out
  <2>6. kept' = {i \in 1..(unit + 1) : ~Out(i)}
    <3>1. 1..(unit + 1) = (1..unit) \cup {unit + 1}
      BY <2>3
    <3> QED
      BY <2>2, <2>4, <2>5, <3>1
  <2>7. UnitsFollowRules'
    BY <2>2, <2>6 DEF UnitsFollowRules, Out
  <2>8. unit' \in 0..Len(file'.units)
    BY <2>2, <2>3
  <2> QED
    BY <2>1, <2>2, <2>7, <2>8 DEF UnitsInv
<1> QED
  BY <1>1, <1>2, <1>3, StepsOfTheUnits

\* The units that were walked so far are those that the rules leave in.
THEOREM UnitsInvariant == ReaderSpec => []UnitsInv
BY UnitsInit, UnitsNext, PTL DEF ReaderSpec

\* should_skip_compile_unit, with the way wildcard_match_impl tries to match,
\* leaves out just the units that the rules mean, for all rules and all paths.
THEOREM UnitsAlwaysFollowRules == ReaderSpec => []UnitsFollowRules
BY UnitsInvariant, PTL DEF UnitsInv

-----------------------------------------------------------------------------
(* The address that a location says.                                       *)

\* The operation that bytes begin with
CodeOf(b) == IF b # <<>> /\ b[1] \in DOMAIN Opcodes THEN Opcodes[b[1]].atom ELSE "none"

SaysIndex(b) ==
    /\ CodeOf(b) \in IndexedAddress /\ IsLeb(Tail(b)) /\ Len(Tail(b)) <= Groups
    /\ LebValue(Tail(b)) \in DOMAIN file.addresses

SaysAddress(b) == CodeOf(b) = "addr" /\ Len(b) = 1 + AddressSize

LEMMA OwnAddressIs ==
    ASSUME NEW d, NEW location, location = Die(d).location
    PROVE  /\ location.form = "address" => OwnAddress(d) = location.value
           /\ location.form \notin {"address", "expression"} => OwnAddress(d) = Absent
           /\ location.form = "expression" /\ SaysAddress(location.bytes) =>
                  OwnAddress(d) = FixedValue(Tail(location.bytes))
           /\ location.form = "expression" /\ SaysIndex(location.bytes) =>
                  OwnAddress(d) = file.addresses[LebValue(Tail(location.bytes))]
           /\ location.form = "expression" /\ ~SaysAddress(location.bytes)
                  /\ ~SaysIndex(location.bytes) => OwnAddress(d) = Absent
<1>1. CASE location.form = "address"
  <2>1. OwnAddress(d) = location.value
    BY <1>1 DEF OwnAddress, IndexedAddress
  <2> QED
    BY <1>1, <2>1
<1>2. CASE location.form \notin {"address", "expression"}
  BY <1>2 DEF OwnAddress, IndexedAddress
<1>3. CASE location.form = "expression"
  BY <1>3 DEF OwnAddress, IndexedAddress, CodeOf, SaysAddress, SaysIndex
<1> QED
  BY <1>1, <1>2, <1>3

\* The numbers that say where an address is.
LEMMA WidthOfAddress ==
    /\ "addr" \in DOMAIN UnsignedWidth /\ UnsignedWidth["addr"] = AddressSize
    /\ IndexedAddress \subseteq UlebOperand
    /\ "addr" \notin IndexedAddress /\ "none" \notin IndexedAddress
BY DEF UnsignedWidth, IndexedAddress, UlebOperand

\* An expression of more than an address says none: there are more bytes than
\* those of one operation.
LEMMA MoreThanAnAddress ==
    ASSUME DecodingInv, operations # <<>>, operations[1].next <= Len(bytes)
    PROVE  ~SaysAddress(bytes) /\ ~SaysIndex(bytes)
<1> DEFINE op == operations[1]
           digits == SubSeq(bytes, 2, op.next - 1)
<1>1. 1 \in 1..Len(operations) /\ Len(bytes) \in Nat /\ bytes \in Seq(Bytes)
  BY DEF DecodingInv
<1>2. IsEncoded(bytes, op) /\ op.from = 1
  BY <1>1 DEF DecodingInv
<1>3. bytes # <<>> /\ op.next \in 2..(Len(bytes) + 1) /\ op.atom = CodeOf(bytes)
  BY <1>1, <1>2 DEF IsEncoded, CodeOf
<1>4. ~SaysAddress(bytes)
  <2> SUFFICES ASSUME SaysAddress(bytes) PROVE FALSE
    OBVIOUS
  <2>1. op.atom = "addr" /\ Len(bytes) = 1 + AddressSize
    BY <1>3 DEF SaysAddress
  <2>2. op.next = op.from + 1 + UnsignedWidth["addr"]
    BY <1>2, <2>1, WidthOfAddress DEF IsEncoded
  <2>3. AddressSize \in Nat
    BY ExpressionAssumption
  <2> HIDE DEF op
  <2> QED
    BY <1>2, <2>1, <2>2, <2>3, WidthOfAddress DEF op
<1>5. ~SaysIndex(bytes)
  <2> SUFFICES ASSUME SaysIndex(bytes) PROVE FALSE
    OBVIOUS
  <2>1. op.atom \in UlebOperand /\ IsLeb(Tail(bytes))
    BY <1>3, WidthOfAddress DEF SaysIndex
  <2>2. IsLeb(digits)
    BY <1>2, <2>1 DEF IsEncoded
  <2> HIDE DEF op
  <2>3. /\ Len(digits) = op.next - 2 /\ DOMAIN digits = 1..(op.next - 2)
        /\ \A i \in 1..(op.next - 2) : digits[i] = bytes[i + 1]
    BY <1>1, <1>3
  <2>4. /\ Len(Tail(bytes)) = Len(bytes) - 1 /\ DOMAIN Tail(bytes) = 1..(Len(bytes) - 1)
        /\ \A i \in 1..(Len(bytes) - 1) : Tail(bytes)[i] = bytes[i + 1]
    BY <1>1, <1>3
  <2>5. op.next - 2 \in Nat \ {0}
    <3>1. digits # <<>>
      BY <2>2 DEF IsLeb
    <3>2. op.next # 2
      BY <1>1, <3>1
    <3> QED
      BY <1>1, <1>3, <3>2
  <2> DEFINE k == op.next - 2
  <2>6. k \in DOMAIN digits /\ k \in DOMAIN Tail(bytes) /\ digits[k] = Tail(bytes)[k]
    BY <1>1, <1>3, <2>3, <2>4, <2>5 DEF op
  <2>7. ~(k < Len(digits)) /\ k < Len(Tail(bytes))
    BY <1>1, <1>3, <2>3, <2>4, <2>5 DEF op
  <2> HIDE DEF k, digits
  <2>8. Follows(digits[k]) <=> k < Len(digits)
    BY <2>2, <2>6 DEF IsLeb
  <2>9. Follows(Tail(bytes)[k]) <=> k < Len(Tail(bytes))
    BY <2>1, <2>6 DEF IsLeb
  <2> QED
    BY <2>6, <2>7, <2>8, <2>9
<1> QED
  BY <1>4, <1>5

\* Nor does one that breaks.
LEMMA BrokenSaysNone ==
    ASSUME IsFile(file), DecodingInv, expression = "broken"
    PROVE  ~SaysAddress(bytes) /\ ~SaysIndex(bytes)
<1>1. /\ Cursor <= Len(bytes) /\ Len(bytes) \in Nat /\ bytes \in Seq(Bytes)
      /\ Len(operations) \in Nat /\ (operations = <<>> <=> Len(operations) = 0)
  BY DEF DecodingInv
<1>2. CASE operations = <<>>
  <2> DEFINE d == SubSeq(bytes, 2, Len(bytes))
             digits == {SubSeq(bytes, Cursor + 1, end) : end \in (Cursor + 1)..Len(bytes)}
  <2>1. Cursor = 1 /\ Len(bytes) >= 1
    BY <1>1, <1>2 DEF Cursor
  <2>2. d = Tail(bytes) /\ Len(d) = Len(bytes) - 1
    <3>1. PICK b, n : b = bytes /\ n = Len(b)
      OBVIOUS
    <3>2. b \in Seq(Bytes) /\ n \in Nat /\ n >= 1
      BY <1>1, <2>1, <3>1
    <3>3. SubSeq(b, 2, n) = Tail(b)
      BY <3>1, <3>2
    <3>4. Len(SubSeq(b, 2, n)) = n - 1
      BY <3>1, <3>2
    <3> QED
      BY <3>1, <3>3, <3>4
  <2>3. ASSUME Len(bytes) >= 2 PROVE d \in digits
    <3>1. Len(bytes) \in (Cursor + 1)..Len(bytes) /\ d = SubSeq(bytes, Cursor + 1, Len(bytes))
      BY <1>1, <2>1, <2>3
    <3> QED
      BY <3>1
  <2>4. bytes[1] \in DOMAIN Opcodes =>
            /\ CodeOf(bytes) = Opcodes[bytes[1]].atom
            /\ CodeOf(bytes) \in UlebOperand =>
                   ~\E x \in digits : IsLeb(x) /\ Len(x) <= Groups /\ LebValue(x) \in Unsigned
            /\ \A x \in digits :
                   CodeOf(bytes) \in DOMAIN UnsignedWidth /\ Len(x) = UnsignedWidth[CodeOf(bytes)]
                       => ByteWeight[Len(x)] > 2 * HalfRange
    BY <1>1, <2>1 DEF DecodingInv, BreaksForAReason, CodeOf
  <2> HIDE DEF d, digits
  <2>5. ~SaysAddress(bytes)
    <3> SUFFICES ASSUME SaysAddress(bytes) PROVE FALSE
      OBVIOUS
    <3>1. CodeOf(bytes) = "addr" /\ Len(bytes) = 1 + AddressSize /\ bytes[1] \in DOMAIN Opcodes
      BY DEF SaysAddress, CodeOf
    <3>2. AddressSize \in Nat \ {0} /\ ByteWeight[AddressSize] <= 2 * HalfRange
      BY ExpressionAssumption
    <3>3. Len(d) = AddressSize /\ d \in digits
      BY <1>1, <2>2, <2>3, <3>1, <3>2
    <3>4. ByteWeight[AddressSize] > 2 * HalfRange
      BY <2>4, <3>1, <3>3, WidthOfAddress
    <3>5. ByteWeight[AddressSize] \in Nat /\ 2 * HalfRange \in Nat
      <4>1. ByteRange \in Nat /\ HalfRange \in Nat
        BY Sizes
      <4> QED
        BY <3>2, <4>1, ByteWeights, WeightStep
    <3> DEFINE w == ByteWeight[AddressSize]
               most == 2 * HalfRange
    <3> HIDE DEF w, most
    <3>6. w <= most /\ w > most /\ w \in Nat /\ most \in Nat
      BY <3>2, <3>4, <3>5 DEF w, most
    <3> QED
      BY <3>6
  <2>6. ~SaysIndex(bytes)
    <3> SUFFICES ASSUME SaysIndex(bytes) PROVE FALSE
      OBVIOUS
    <3>1. /\ CodeOf(bytes) \in UlebOperand /\ bytes[1] \in DOMAIN Opcodes
          /\ IsLeb(d) /\ Len(d) <= Groups /\ LebValue(d) \in DOMAIN file.addresses
      BY <2>2, WidthOfAddress DEF SaysIndex, CodeOf
    <3>2. LebValue(d) \in Unsigned
      BY <3>1 DEF IsFile
    <3>3. d # <<>>
      BY <3>1 DEF IsLeb
    <3>4. Len(bytes) >= 2
      <4>1. Len(bytes) # 1
        BY <1>1, <2>2, <3>3 DEF d
      <4>2. PICK n : n = Len(bytes)
        OBVIOUS
      <4>3. n \in Nat /\ n >= 1 /\ n # 1
        BY <1>1, <2>1, <4>1, <4>2
      <4>4. n >= 2
        BY <4>3
      <4> QED
        BY <4>2, <4>4
    <3> QED
      BY <2>3, <2>4, <3>1, <3>2, <3>4
  <2> QED
    BY <2>5, <2>6
<1>3. CASE operations # <<>>
  <2>1. operations[1].next <= Len(bytes)
    <3>1. Cursor = operations[Len(operations)].next
      BY <1>1, <1>3, CursorIs
    <3>2. CASE Len(operations) = 1
      BY <1>1, <3>1, <3>2
    <3>3. CASE Len(operations) # 1
      <4>1. 2 \in 1..Len(operations)
        <5>1. PICK n : n = Len(operations)
          OBVIOUS
        <5>2. n \in Nat /\ n # 0 /\ n # 1
          BY <1>1, <1>3, <3>3, <5>1
        <5>3. 2 \in 1..n
          BY <5>2
        <5> QED
          BY <5>1, <5>3
      <4>2. IsEncoded(bytes, operations[2]) /\ operations[2].from = operations[1].next
        BY <4>1 DEF DecodingInv
      <4>3. operations[2].from \in 1..Len(bytes)
        BY <4>2 DEF IsEncoded
      <4> QED
        BY <1>1, <4>2, <4>3
    <3> QED
      BY <3>2, <3>3
  <2> QED
    BY <1>3, <2>1, MoreThanAnAddress
<1> QED
  BY <1>2, <1>3

\* What one that is decoded says
LEMMA DecodedSays ==
    ASSUME IsFile(file), DecodingInv, expression = "decoded"
    PROVE  /\ SaysAddress(bytes) <=> Len(operations) = 1 /\ operations[1].atom = "addr"
           /\ SaysIndex(bytes) <=>
                  /\ Len(operations) = 1 /\ operations[1].atom \in IndexedAddress
                  /\ operations[1].operand1 \in DOMAIN file.addresses
           /\ SaysAddress(bytes) => operations[1].operand1 = FixedValue(Tail(bytes))
           /\ SaysIndex(bytes) => operations[1].operand1 = LebValue(Tail(bytes))
<1>1. /\ Cursor = Len(bytes) + 1 /\ Len(bytes) \in Nat /\ bytes \in Seq(Bytes)
      /\ Len(operations) \in Nat /\ (operations = <<>> <=> Len(operations) = 0)
  BY DEF DecodingInv
<1>2. CASE Len(operations) = 0
  <2>1. bytes = <<>>
    <3>1. Len(bytes) = 0
      BY <1>1, <1>2 DEF Cursor
    <3> QED
      BY <1>1, <3>1
  <2>2. CodeOf(bytes) = "none"
    BY <2>1 DEF CodeOf
  <2> QED
    BY <1>2, <2>2, WidthOfAddress DEF SaysAddress, SaysIndex
<1>3. CASE Len(operations) = 1
  <2> DEFINE op == operations[1]
  <2>1. 1 \in 1..Len(operations) /\ operations # <<>>
    BY <1>1, <1>3
  <2>2. IsEncoded(bytes, op) /\ op.from = 1 /\ op.next = Len(bytes) + 1
    BY <1>1, <1>3, <2>1, CursorIs DEF DecodingInv
  <2>3. bytes # <<>> /\ Len(bytes) >= 1 /\ op.atom = CodeOf(bytes)
    <3>1. 1 \in 1..Len(bytes) /\ bytes[1] \in DOMAIN Opcodes
          /\ op.atom = Opcodes[bytes[1]].atom
      BY <2>2 DEF IsEncoded
    <3> QED
      BY <1>1, <3>1 DEF CodeOf
  <2>4. SubSeq(bytes, op.from + 1, op.next - 1) = Tail(bytes)
    <3>1. PICK b, n : b = bytes /\ n = Len(b)
      OBVIOUS
    <3>2. b \in Seq(Bytes) /\ n \in Nat /\ n >= 1
      BY <1>1, <2>3, <3>1
    <3>3. SubSeq(b, 2, n) = Tail(b)
      BY <3>1, <3>2
    <3>4. op.from + 1 = 2 /\ op.next - 1 = n
      BY <2>2, <3>1, <3>2
    <3> QED
      BY <3>1, <3>3, <3>4
  <2> DEFINE rest == Tail(bytes)
  <2>5. /\ op.atom \in UlebOperand =>
               op.operand1 = LebValue(rest) /\ IsLeb(rest) /\ Len(rest) <= Groups
        /\ op.atom = "addr" =>
               op.operand1 = FixedValue(rest) /\ op.next = op.from + 1 + AddressSize
    BY <2>2, <2>4, WidthOfAddress DEF IsEncoded
  <2> HIDE DEF op, rest
  <2>6. op.atom = "addr" => Len(bytes) = 1 + AddressSize
    <3>1. AddressSize \in Nat
      BY ExpressionAssumption
    <3> QED
      BY <1>1, <2>2, <2>5, <3>1
  <2>7. op.atom \in IndexedAddress => op.atom \in UlebOperand
    BY WidthOfAddress
  <2>8. SaysAddress(bytes) <=> op.atom = "addr"
    BY <2>3, <2>6 DEF SaysAddress
  <2>9. SaysIndex(bytes) <=>
            op.atom \in IndexedAddress /\ op.operand1 \in DOMAIN file.addresses
    BY <2>3, <2>5, <2>7 DEF SaysIndex, rest
  <2>10. SaysIndex(bytes) => op.operand1 = LebValue(rest)
    BY <2>5, <2>7, <2>9
  <2>11. SaysAddress(bytes) => op.operand1 = FixedValue(rest)
    BY <2>5, <2>8
  <2> QED
    BY <1>3, <2>8, <2>9, <2>10, <2>11 DEF op, rest
<1>4. CASE Len(operations) > 1
  <2>1. 2 \in 1..Len(operations)
    <3>1. PICK n : n = Len(operations)
      OBVIOUS
    <3>2. n \in Nat /\ n > 1
      BY <1>1, <1>4, <3>1
    <3>3. 2 \in 1..n
      BY <3>2
    <3> QED
      BY <3>1, <3>3
  <2>2. IsEncoded(bytes, operations[2]) /\ operations[2].from = operations[1].next
    BY <2>1 DEF DecodingInv
  <2>3. operations[1].next \in 1..Len(bytes)
    BY <2>2 DEF IsEncoded
  <2>4. operations[1].next <= Len(bytes)
    BY <1>1, <2>3
  <2>5. ~SaysAddress(bytes) /\ ~SaysIndex(bytes)
    BY <1>1, <1>4, <2>4, MoreThanAnAddress
  <2>6. Len(operations) # 1
    <3>1. PICK n : n = Len(operations)
      OBVIOUS
    <3>2. n \in Nat /\ n > 1
      BY <1>1, <1>4, <3>1
    <3>3. n # 1
      BY <3>2
    <3> QED
      BY <3>1, <3>3
  <2> QED
    BY <2>5, <2>6, Zenon
<1>5. Len(operations) = 0 \/ Len(operations) = 1 \/ Len(operations) > 1
  <2>1. PICK n : n = Len(operations)
    OBVIOUS
  <2>2. n \in Nat
    BY <1>1, <2>1
  <2>3. n = 0 \/ n = 1 \/ n > 1
    BY <2>2
  <2> QED
    BY <2>1, <2>3
<1> QED
  BY <1>2, <1>3, <1>4, <1>5, Zenon

\* What is read of a location, when it is an expression
IsReadFor(t) ==
    /\ t.do \in {"place", "locate", "relocate"}
    /\ Die(t.die).location.form = "expression" /\ bytes = Die(t.die).location.bytes

Availabilities == {"StaticAddressKnown", "RuntimeOnly", "Unavailable"}

\* classify_location says the address of the DIE, and that of a variable that
\* has one is known.
LEMMA PlaceIsOwn ==
    ASSUME IsFile(file), DecodingInv, NEW d,
           NEW location, location = Die(d).location, Read(location),
           location.form = "expression" => bytes = location.bytes,
           NEW place, place = Classified(location, OperationsOf(location))
    PROVE  /\ place.address = OwnAddress(d)
           /\ place.availability \in Availabilities
           /\ place.address # Absent =>
                  place.text # "missing" /\ place.availability = "StaticAddressKnown"
<1> DEFINE ops == OperationsOf(location)
           direct == DirectAddress(location, ops)
           single == location.form = "expression" /\ Len(ops) = 1 /\ ops[1].atom \in {"addr"}
           address == IF direct # Absent THEN direct
                      ELSE IF single THEN ops[1].operand1 ELSE Absent
<1>1. /\ place.address = address
      /\ place.availability \in Availabilities
      /\ address # Absent =>
             place.text # "missing" /\ place.availability = "StaticAddressKnown"
  BY DEF Classified, Availabilities
<1>2. address = OwnAddress(d)
  <2>1. CASE location.form = "address"
    BY <2>1, OwnAddressIs DEF DirectAddress
  <2>2. CASE location.form \notin {"address", "expression"}
    BY <2>2, OwnAddressIs DEF DirectAddress
  <2>3. CASE location.form = "expression" /\ expression = "broken"
    <3>1. ops = <<>>
      BY <2>3 DEF OperationsOf
    <3>2. address = Absent
      BY <2>3, <3>1 DEF DirectAddress
    <3> QED
      BY <2>3, <3>2, BrokenSaysNone, OwnAddressIs
  <2>4. CASE location.form = "expression" /\ expression = "decoded"
    <3>1. ops = operations
      BY <2>4 DEF OperationsOf
    <3>2. direct = IF Len(operations) = 1 /\ operations[1].atom \in IndexedAddress
                      /\ operations[1].operand1 \in DOMAIN file.addresses
                   THEN file.addresses[operations[1].operand1] ELSE Absent
      BY <2>4, <3>1 DEF DirectAddress
    <3>3. single <=> Len(operations) = 1 /\ operations[1].atom \in {"addr"}
      BY <2>4, <3>1
    <3> HIDE DEF ops, direct, single
    <3>4. CASE SaysAddress(bytes)
      <4>1. ~SaysIndex(bytes)
        BY <3>4, WidthOfAddress DEF SaysAddress, SaysIndex
      <4>2. direct = Absent /\ single /\ operations[1].operand1 = FixedValue(Tail(bytes))
        BY <2>4, <3>2, <3>3, <3>4, <4>1, DecodedSays
      <4> QED
        BY <2>4, <3>1, <3>4, <4>2, OwnAddressIs
    <3>5. CASE SaysIndex(bytes)
      <4>1. direct = file.addresses[LebValue(Tail(bytes))]
        BY <2>4, <3>2, <3>5, DecodedSays
      <4>2. ~single
        BY <2>4, <3>3, <3>5, WidthOfAddress, DecodedSays
      <4> QED
        BY <2>4, <3>5, <4>1, <4>2, OwnAddressIs
    <3>6. CASE ~SaysAddress(bytes) /\ ~SaysIndex(bytes)
      <4>1. direct = Absent /\ ~single
        BY <2>4, <3>2, <3>3, <3>6, DecodedSays
      <4> QED
        BY <2>4, <3>6, <4>1, OwnAddressIs
    <3> QED
      BY <3>4, <3>5, <3>6
  <2> QED
    BY <2>1, <2>2, <2>3, <2>4 DEF Read
<1> QED
  BY <1>1, <1>2

-----------------------------------------------------------------------------
(* The invariant of the addresses.                                         *)

Fields == {"die", "unit", "name", "scope", "type", "linkage", "address", "constant",
           "text", "availability", "tls", "storage", "member", "kind"}

\* What a variable's own location says is kept, but for a constant, what is
\* local to a thread and a parameter; it is never looked for elsewhere.
KeepsOwn(v) ==
    \/ OwnAddress(v.die) = Absent \/ v.tls \/ v.constant
    \/ Die(v.die).tag = "formal_parameter"
    \/ /\ v.address = OwnAddress(v.die) /\ v.text # "missing"
       /\ v.availability = "StaticAddressKnown"

IsSourced(v) ==
    /\ DOMAIN v = Fields /\ v.die \in DOMAIN file.dies /\ v.availability \in Availabilities
    /\ v.address # Absent => \E r \in Sources(v.die) : v.address = OwnAddress(r)
    /\ KeepsOwn(v)

IsStored(v) ==
    /\ IsSourced(v)
    /\ v.kind \in StaticKinds \cup {"Local", "Parameter"}
    /\ v.kind = "Parameter" <=> Die(v.die).tag = "formal_parameter"

\* The variable that a task brings on its way
Brings(t) ==
    /\ t.do = "locate" => DOMAIN t.variable = Fields /\ t.variable.die = t.die
    /\ t.do \in {"inherit", "relocate"} =>
           /\ IsSourced(t.variable)
           /\ Range(t.references) \subseteq Range(References(t.variable.die))
    /\ t.do = "relocate" => t.die \in Range(References(t.variable.die))

TasksBring == stage = "units" => \A t \in Tasks : Brings(t)

\* The variables of the walk
OfTheWalk == IF stage = "units" THEN variables ELSE found

VariablesAreStored == \A v \in Range(OfTheWalk) : IsStored(v)

\* What is read is the location of the current task.
ReadingIsCurrent ==
    expression # "none" => stage = "units" /\ agenda # <<>> /\ IsReadFor(Task)

SourceInv == TasksBring /\ VariablesAreStored /\ ReadingIsCurrent

\* As long as the file is the same
LEMMA SameFileSources ==
    ASSUME file' = file
    PROVE  /\ \A v : IsSourced(v)' <=> IsSourced(v)
           /\ \A v : IsStored(v)' <=> IsStored(v)
           /\ \A t : Brings(t)' <=> Brings(t)
<1>1. \A d : OwnAddress(d)' = OwnAddress(d)
  BY DEF OwnAddress, Die
<1>2. \A d : Die(d)' = Die(d)
  BY DEF Die
<1>3. \A d : References(d)' = References(d)
  BY DEF References, Die
<1>4. \A d : Sources(d)' = Sources(d)
  BY <1>3 DEF Sources
<1>5. \A v : KeepsOwn(v)' <=> KeepsOwn(v)
  BY <1>1, <1>2 DEF KeepsOwn
<1>6. \A v : IsSourced(v)' <=> IsSourced(v)
  BY <1>1, <1>4, <1>5 DEF IsSourced
<1>7. \A v : IsStored(v)' <=> IsStored(v)
  BY <1>2, <1>6 DEF IsStored
<1>8. \A t : Brings(t)' <=> Brings(t)
  BY <1>3, <1>6 DEF Brings
<1> QED
  BY <1>6, <1>7, <1>8

\* What does not concern the address changes nothing.
LEMMA SourcedLike ==
    ASSUME NEW v, IsSourced(v), NEW w, DOMAIN w = DOMAIN v, w.die = v.die,
           w.address = v.address, w.text = v.text, w.availability = v.availability,
           w.constant = v.constant, w.tls = v.tls
    PROVE  IsSourced(w)
BY DEF IsSourced, KeepsOwn

\* A constant value
LEMMA SourcedConstant ==
    ASSUME NEW v, IsSourced(v)
    PROVE  IsSourced(WithConstant(v))
<1> DEFINE w == WithConstant(v)
<1>1. /\ DOMAIN w = Fields /\ w.die = v.die /\ w.address = v.address /\ w.constant
      /\ w.availability = "StaticAddressKnown"
  BY DEF WithConstant, IsSourced, Fields
<1> HIDE DEF w
<1>2. IsSourced(w)
  BY <1>1 DEF IsSourced, KeepsOwn, Availabilities
<1> QED
  BY <1>2 DEF w

\* A step of a variable whose next task brings it
LEMMA BringingStays ==
    ASSUME WalkInv, TasksBring, NEW tasks, IsList(tasks), Continue(tasks),
           stage = "units", agenda # <<>>, UNCHANGED <<file, stage, unit>>,
           \A t \in Range(tasks) : Brings(t)
    PROVE  TasksBring'
<1>1. StepOf(tasks)
  BY DEF StepOf
<1>2. \A t \in Tasks' : Brings(t)
  BY <1>1, TasksOfStep DEF TasksBring
<1> QED
  BY <1>2, SameFileSources DEF TasksBring

\* So do those of the other steps.
LEMMA AsideBrings ==
    ASSUME NEW t, Aside(t)
    PROVE  Brings(t)
BY DEF Aside, Brings, Variables

LEMMA WalkingBrings ==
    ASSUME WalkInv, LocationsHaveDies, TasksBring, WalksOn
    PROVE  TasksBring'
<1>1. OnlyAside /\ stage = "units" /\ file' = file
  BY WalkingAside
<1>2. \A t \in Tasks' : Brings(t)
  BY <1>1, AsideBrings DEF OnlyAside, TasksBring
<1> QED
  BY <1>1, <1>2, SameFileSources DEF TasksBring

LEMMA BeginVariableBrings ==
    ASSUME WalkInv, LocationsHaveDies, TasksBring, BeginVariable
    PROVE  TasksBring'
<1>1. /\ stage = "units" /\ agenda # <<>> /\ UNCHANGED <<file, stage, unit>>
  BY DEF BeginVariable, Doing, Task, unchangedWalk
<1>2. PICK reference, v :
          /\ DOMAIN v = Fields /\ v.die = Task.die
          /\ \/ Continue(<<>>)
             \/ Continue(Refer(reference) \o
                           <<[do |-> "locate", die |-> Task.die, variable |-> v]>>)
  <2> DEFINE d == Task.die
             v == [die       |-> d,
                   unit      |-> file.units[unit].name,
                   name      |-> NameOr(d, Nameless),
                   scope     |-> [i \in DOMAIN scopes |-> scopes[i].name],
                   type      |-> TypeId(Die(d).type),
                   linkage   |-> Die(d).linkage,
                   address   |-> Absent,
                   constant  |-> FALSE,
                   text      |-> "missing",
                   availability |-> "Unavailable",
                   tls       |-> FALSE,
                   storage   |-> FALSE,
                   member    |-> scopes # <<>> /\ Last(scopes).tag \in ClassTags,
                   kind      |-> "Local"]
  <2>1. DOMAIN v = Fields /\ v.die = d
    BY DEF Fields
  <2>2. \/ Continue(<<>>)
        \/ Continue(Refer(Die(d).type) \o <<[do |-> "locate", die |-> d, variable |-> v]>>)
    BY DEF BeginVariable
  <2> HIDE DEF v
  <2> QED
    BY <2>1, <2>2
<1>3. PICK t : t = [do |-> "locate", die |-> Task.die, variable |-> v]
  OBVIOUS
<1>4. Brings(t)
  BY <1>2, <1>3 DEF Brings
<1>5. /\ IsList(Refer(reference))
      /\ \A q \in Range(Refer(reference)) : Brings(q)
  BY <1>1, ReferredAside, AsideBrings DEF AllAside
<1>6. /\ IsList(Refer(reference) \o <<t>>)
      /\ \A q \in Range(Refer(reference) \o <<t>>) : Brings(q)
  <2>1. Range(Refer(reference) \o <<t>>) = Range(Refer(reference)) \cup {t}
        /\ IsList(Refer(reference) \o <<t>>)
    BY <1>5, OneList, Concatenated
  <2> QED
    BY <1>4, <1>5, <2>1
<1>7. CASE Continue(<<>>)
  BY <1>1, <1>7, NoList, BringingStays
<1>8. CASE Continue(Refer(reference) \o <<t>>)
  BY <1>1, <1>6, <1>8, BringingStays
<1> QED
  BY <1>2, <1>3, <1>7, <1>8

\* The first location that is looked at is that of the variable itself.
LEMMA LocateVariableBrings ==
    ASSUME WalkInv, LocationsHaveDies, DecodingInv, SourceInv, LocateVariable
    PROVE  TasksBring'
<1> DEFINE d        == Task.die
           location == Die(d).location
           ops      == OperationsOf(location)
           place    == Classified(location, ops)
           located  == [Task.variable EXCEPT
                           !.address = place.address, !.text = place.text,
                           !.availability = place.availability,
                           !.tls = "form_tls_address" \in Atoms(ops)]
           valued   == IF Die(d).constant THEN WithConstant(located) ELSE located
           stored   == [valued EXCEPT !.storage =
                           \/ valued.constant
                           \/ Atoms(ops) \cap ({"addr"} \cup IndexedAddress) # {}]
           local    == IF stored.tls
                       THEN [stored EXCEPT !.availability = "RuntimeOnly",
                                           !.address = Absent,
                                           !.text = "thread_local"]
                       ELSE stored
           variable == IF Die(d).tag = "formal_parameter"
                       THEN [local EXCEPT !.availability = "RuntimeOnly",
                                          !.storage = FALSE]
                       ELSE local
<1>1. /\ stage = "units" /\ agenda # <<>> /\ UNCHANGED <<file, stage, unit>>
      /\ Task.do = "locate" /\ Read(location)
      /\ Continue(<<Inherit(variable, References(d))>>)
  BY DEF LocateVariable, Doing, Task, unchangedWalk
<1>2. Task \in Tasks
  <2>1. IsList(agenda)
    BY <1>1 DEF WalkInv, WalkUnits, Lists
  <2> QED
    BY <1>1, <2>1, FirstAndRest DEF Tasks, Task
<1>3. DOMAIN Task.variable = Fields /\ Task.variable.die = d
  BY <1>1, <1>2 DEF SourceInv, TasksBring, Brings
<1>4. d \in DOMAIN file.dies /\ IsFile(file)
  BY <1>1, CurrentDie DEF HasDie
<1>5. location.form = "expression" => bytes = location.bytes
  BY <1>1 DEF Read, SourceInv, ReadingIsCurrent, IsReadFor
<1>6. /\ place.address = OwnAddress(d) /\ place.availability \in Availabilities
      /\ place.address # Absent =>
             place.text # "missing" /\ place.availability = "StaticAddressKnown"
  BY <1>1, <1>4, <1>5, PlaceIsOwn
<1> HIDE DEF place, ops, location
<1>7. /\ DOMAIN located = Fields /\ located.die = d /\ located.address = place.address
      /\ located.text = place.text /\ located.availability = place.availability
  <2>1. PICK v, a, b, c, e : v = Task.variable /\ a = place.address /\ b = place.text
                          /\ c = place.availability /\ e = ("form_tls_address" \in Atoms(ops))
    OBVIOUS
  <2>2. located = [v EXCEPT !.address = a, !.text = b, !.availability = c, !.tls = e]
    BY <2>1
  <2> HIDE DEF located
  <2>3. DOMAIN v = Fields /\ v.die = d
    BY <1>3, <2>1
  <2>4. /\ DOMAIN located = Fields /\ located.die = d /\ located.address = a
        /\ located.text = b /\ located.availability = c
    BY <2>2, <2>3 DEF Fields
  <2> QED
    BY <2>1, <2>4
<1> HIDE DEF located
<1>8. IsSourced(located)
  BY <1>4, <1>6, <1>7 DEF IsSourced, KeepsOwn, Sources
<1>9. IsSourced(valued) /\ valued.die = d
  <2>1. WithConstant(located).die = d
    BY <1>7 DEF WithConstant, Fields
  <2> QED
    BY <1>7, <1>8, <2>1, SourcedConstant
<1> HIDE DEF valued
<1>10. IsSourced(stored) /\ stored.die = d
  <2>1. DOMAIN valued = Fields
    BY <1>9 DEF IsSourced
  <2>2. /\ DOMAIN stored = DOMAIN valued /\ stored.die = valued.die
        /\ stored.address = valued.address /\ stored.text = valued.text
        /\ stored.availability = valued.availability /\ stored.constant = valued.constant
        /\ stored.tls = valued.tls
    BY <2>1 DEF Fields
  <2> HIDE DEF stored
  <2> QED
    BY <1>9, <2>2, SourcedLike
<1> HIDE DEF stored
<1>11. IsSourced(local) /\ local.die = d
  <2>1. CASE ~stored.tls
    BY <1>10, <2>1
  <2>2. CASE stored.tls
    <3>1. DOMAIN stored = Fields
      BY <1>10 DEF IsSourced
    <3>2. /\ DOMAIN local = Fields /\ local.die = d /\ local.address = Absent
          /\ local.availability = "RuntimeOnly" /\ local.tls
      BY <1>10, <2>2, <3>1 DEF Fields
    <3> HIDE DEF local
    <3> QED
      BY <1>4, <3>2 DEF IsSourced, KeepsOwn, Availabilities
  <2> QED
    BY <2>1, <2>2
<1> HIDE DEF local
<1>12. IsSourced(variable) /\ variable.die = d
  <2>1. CASE Die(d).tag # "formal_parameter"
    BY <1>11, <2>1
  <2>2. CASE Die(d).tag = "formal_parameter"
    <3>1. DOMAIN local = Fields
      BY <1>11 DEF IsSourced
    <3>2. /\ DOMAIN variable = Fields /\ variable.die = d
          /\ variable.address = local.address /\ variable.availability = "RuntimeOnly"
      BY <1>11, <2>2, <3>1 DEF Fields
    <3>3. local.address # Absent => \E r \in Sources(d) : local.address = OwnAddress(r)
      BY <1>11 DEF IsSourced
    <3> HIDE DEF variable
    <3> QED
      BY <1>4, <2>2, <3>2, <3>3 DEF IsSourced, KeepsOwn, Availabilities
  <2> QED
    BY <2>1, <2>2
<1> HIDE DEF variable
<1>13. Brings(Inherit(variable, References(d)))
  BY <1>12 DEF Brings, Inherit
<1>14. /\ IsList(<<Inherit(variable, References(d))>>)
       /\ \A t \in Range(<<Inherit(variable, References(d))>>) : Brings(t)
  BY <1>13, OneList
<1> QED
  BY <1>1, <1>14, BringingStays DEF SourceInv

\* Where a name is inherited, nothing is said of the address.
LEMMA InheritNameBrings ==
    ASSUME WalkInv, LocationsHaveDies, TasksBring, InheritName
    PROVE  TasksBring'
<1> DEFINE r       == Head(Task.references)
           rest    == Tail(Task.references)
           v       == Task.variable
           outer   == IF r \in DOMAIN variableScope /\ v.scope = <<>>
                      THEN variableScope[r] ELSE v.scope
           refines == /\ r \in DOMAIN classScope
                      /\ \/ outer = <<>>
                         \/ Len(outer) < Len(classScope[r]) /\ IsPrefix(outer, classScope[r])
           named   == [v EXCEPT
                          !.scope  = IF refines THEN classScope[r] ELSE outer,
                          !.member = IF r \in DOMAIN staticMember
                                     THEN staticMember[r] ELSE @,
                          !.name   = IF @ = Nameless THEN NameOr(r, Nameless) ELSE @]
           typed   == [named EXCEPT !.type = TypeId(Die(r).type)]
           Relocate(w) == [do |-> "relocate", variable |-> w, die |-> r, references |-> rest]
<1>1. /\ stage = "units" /\ agenda # <<>> /\ UNCHANGED <<file, stage, unit>>
      /\ Task.do = "inherit" /\ Task.references # <<>>
      /\ \/ Continue(<<Relocate(named)>>)
         \/ Continue(Refer(Die(r).type) \o <<Relocate(typed)>>)
  BY DEF InheritName, Doing, Task, unchangedWalk
<1>2. Task \in Tasks
  <2>1. IsList(agenda)
    BY <1>1 DEF WalkInv, WalkUnits, Lists
  <2> QED
    BY <1>1, <2>1, FirstAndRest DEF Tasks, Task
<1>3. IsSourced(v) /\ Range(Task.references) \subseteq Range(References(v.die))
  BY <1>1, <1>2 DEF TasksBring, Brings
<1>4. {r} \cup Range(rest) \subseteq Range(Task.references)
  <2>1. Task.references \in Seq(DOMAIN file.dies)
    BY <1>1, CurrentDie DEF HasDie
  <2>2. IsList(Task.references)
    BY <2>1, ListOf
  <2> QED
    BY <1>1, <2>2, FirstAndRest
<1> HIDE DEF r, rest, v, outer, refines
<1>5. IsSourced(named) /\ named.die = v.die
  <2>1. DOMAIN v = Fields
    BY <1>3 DEF IsSourced
  <2>2. /\ DOMAIN named = DOMAIN v /\ named.die = v.die
        /\ named.address = v.address /\ named.text = v.text
        /\ named.availability = v.availability /\ named.constant = v.constant
        /\ named.tls = v.tls
    BY <2>1 DEF Fields
  <2> HIDE DEF named
  <2> QED
    BY <1>3, <2>2, SourcedLike
<1> HIDE DEF named
<1>6. IsSourced(typed) /\ typed.die = v.die
  <2>1. DOMAIN named = Fields
    BY <1>5 DEF IsSourced
  <2>2. /\ DOMAIN typed = DOMAIN named /\ typed.die = named.die
        /\ typed.address = named.address /\ typed.text = named.text
        /\ typed.availability = named.availability /\ typed.constant = named.constant
        /\ typed.tls = named.tls
    BY <2>1 DEF Fields
  <2> HIDE DEF typed
  <2> QED
    BY <1>5, <2>2, SourcedLike
<1> HIDE DEF typed
<1>7. Brings(Relocate(named)) /\ Brings(Relocate(typed))
  BY <1>3, <1>4, <1>5, <1>6 DEF Brings
<1> HIDE DEF Relocate
<1>8. /\ IsList(Refer(Die(r).type))
      /\ \A q \in Range(Refer(Die(r).type)) : Brings(q)
  BY <1>1, ReferredAside, AsideBrings DEF AllAside
<1>9. CASE Continue(<<Relocate(named)>>)
  <2>1. /\ IsList(<<Relocate(named)>>)
        /\ \A t \in Range(<<Relocate(named)>>) : Brings(t)
    BY <1>7, OneList
  <2> QED
    BY <1>1, <1>9, <2>1, BringingStays
<1>10. CASE Continue(Refer(Die(r).type) \o <<Relocate(typed)>>)
  <2> DEFINE tasks == Refer(Die(r).type) \o <<Relocate(typed)>>
  <2>1. Range(tasks) = Range(Refer(Die(r).type)) \cup {Relocate(typed)} /\ IsList(tasks)
    BY <1>8, OneList, Concatenated
  <2>2. \A t \in Range(tasks) : Brings(t)
    BY <1>7, <1>8, <2>1
  <2> QED
    BY <1>1, <1>10, <2>1, <2>2, BringingStays
<1> QED
  BY <1>1, <1>9, <1>10

\* A location is looked at for the variable only where its own says nothing,
\* and it is that of a DIE it refers to.
LEMMA InheritLocationBrings ==
    ASSUME WalkInv, LocationsHaveDies, DecodingInv, SourceInv, InheritLocation
    PROVE  TasksBring'
<1> DEFINE r        == Task.die
           v        == Task.variable
           linked   == [v EXCEPT !.linkage = IF @ = "" THEN Die(r).linkage ELSE @]
           valued   == IF Die(r).constant /\ ~linked.constant
                       THEN WithConstant(linked) ELSE linked
           location == Die(r).location
           place    == Classified(location, OperationsOf(location))
           says     == place.availability # "Unavailable" \/ place.text # "missing"
           moved    == [valued EXCEPT !.address = place.address, !.text = place.text,
                                      !.availability = place.availability]
           variable == IF Relocates(valued) /\ location.form # Nowhere /\ says
                       THEN moved ELSE valued
<1>1. /\ stage = "units" /\ agenda # <<>> /\ UNCHANGED <<file, stage, unit>>
      /\ Task.do = "relocate" /\ (Relocates(valued) => Read(location))
      /\ Continue(<<Inherit(variable, Task.references)>>)
  BY DEF InheritLocation, Doing, Task, unchangedWalk
<1>2. Task \in Tasks
  <2>1. IsList(agenda)
    BY <1>1 DEF WalkInv, WalkUnits, Lists
  <2> QED
    BY <1>1, <2>1, FirstAndRest DEF Tasks, Task
<1>3. /\ IsSourced(v) /\ Range(Task.references) \subseteq Range(References(v.die))
      /\ r \in Range(References(v.die))
  BY <1>1, <1>2 DEF SourceInv, TasksBring, Brings
<1>4. r \in DOMAIN file.dies /\ IsFile(file)
  BY <1>1, CurrentDie DEF HasDie
<1>5. Relocates(valued) => /\ place.address = OwnAddress(r)
                           /\ place.availability \in Availabilities
  <2>1. ASSUME Relocates(valued)
        PROVE  Read(location) /\ (location.form = "expression" => bytes = location.bytes)
    BY <1>1, <2>1 DEF Read, SourceInv, ReadingIsCurrent, IsReadFor
  <2> QED
    BY <1>4, <2>1, PlaceIsOwn
<1> HIDE DEF place, location, says, r, v
<1>6. IsSourced(linked) /\ linked.die = v.die
  <2>1. DOMAIN v = Fields
    BY <1>3 DEF IsSourced
  <2>2. /\ DOMAIN linked = DOMAIN v /\ linked.die = v.die
        /\ linked.address = v.address /\ linked.text = v.text
        /\ linked.availability = v.availability /\ linked.constant = v.constant
        /\ linked.tls = v.tls
    BY <2>1 DEF Fields
  <2> HIDE DEF linked
  <2> QED
    BY <1>3, <2>2, SourcedLike
<1> HIDE DEF linked
<1>7. IsSourced(valued) /\ valued.die = v.die
  <2>1. WithConstant(linked).die = linked.die
    <3>1. DOMAIN linked = Fields
      BY <1>6 DEF IsSourced
    <3> QED
      BY <3>1 DEF WithConstant, Fields
  <2> QED
    BY <1>6, <2>1, SourcedConstant
<1> HIDE DEF valued
<1>8. ASSUME Relocates(valued) PROVE IsSourced(moved) /\ moved.die = v.die
  <2>1. DOMAIN valued = Fields /\ valued.die \in DOMAIN file.dies /\ KeepsOwn(valued)
    BY <1>7 DEF IsSourced
  <2>2. PICK a, b, c : a = place.address /\ b = place.text /\ c = place.availability
    OBVIOUS
  <2>3. moved = [valued EXCEPT !.address = a, !.text = b, !.availability = c]
    BY <2>2
  <2> HIDE DEF moved
  <2>4. /\ DOMAIN moved = Fields /\ moved.die = valued.die /\ moved.address = a
        /\ moved.text = b /\ moved.availability = c
        /\ moved.tls = valued.tls /\ moved.constant = valued.constant
    BY <2>1, <2>3 DEF Fields
  <2>5. \/ OwnAddress(valued.die) = Absent \/ valued.tls \/ valued.constant
        \/ Die(valued.die).tag = "formal_parameter"
    <3>1. valued.text = "missing" \/ valued.availability = "Unavailable"
      BY <1>8 DEF Relocates
    <3> QED
      BY <2>1, <3>1 DEF KeepsOwn
  <2>6. KeepsOwn(moved)
    BY <2>4, <2>5 DEF KeepsOwn
  <2>7. r \in Sources(valued.die)
    BY <1>3, <1>7 DEF Sources
  <2>8. a = OwnAddress(r) /\ c \in Availabilities
    BY <1>5, <1>8, <2>2
  <2> QED
    BY <1>7, <2>1, <2>4, <2>6, <2>7, <2>8 DEF IsSourced
<1> HIDE DEF moved
<1>9. IsSourced(variable) /\ variable.die = v.die
  BY <1>7, <1>8
<1> HIDE DEF variable
<1>10. Brings(Inherit(variable, Task.references))
  BY <1>3, <1>9 DEF Brings, Inherit
<1>11. /\ IsList(<<Inherit(variable, Task.references)>>)
       /\ \A t \in Range(<<Inherit(variable, Task.references)>>) : Brings(t)
  BY <1>10, OneList
<1> QED
  BY <1>1, <1>11, BringingStays DEF SourceInv

LEMMA TasksBringSteps ==
    ASSUME WalkInv, LocationsHaveDies, DecodingInv, SourceInv,
           [ReaderNext]_<<readerVars, expressionVars>>
    PROVE  TasksBring'
<1>0. TasksBring
  BY DEF SourceInv
<1>1. CASE WalksOn
  BY <1>0, <1>1, WalkingBrings
<1>2. CASE BeginVariable
  BY <1>0, <1>2, BeginVariableBrings
<1>3. CASE LocateVariable
  BY <1>3, LocateVariableBrings
<1>4. CASE InheritName
  BY <1>0, <1>4, InheritNameBrings
<1>5. CASE InheritLocation
  BY <1>5, InheritLocationBrings
<1>6. CASE UNCHANGED readerVars
  <2>1. file' = file /\ stage' = stage /\ Tasks' = Tasks
    BY <1>6 DEF readerVars, Tasks
  <2> QED
    BY <1>0, <2>1, SameFileSources DEF TasksBring
<1>7. CASE EndWalk \/ ApplySymbols \/ Deduplicate \/ PruneLocals \/ PrunePlaceholders
  <2>1. stage' # "units"
    BY <1>7 DEF EndWalk, ApplySymbols, Deduplicate, PruneLocals, PrunePlaceholders, Pass
  <2> QED
    BY <2>1 DEF TasksBring
<1> QED
  BY <1>1, <1>2, <1>3, <1>4, <1>5, <1>6, <1>7
  DEF ReaderNext, WalksOn, StartExpression, StepExpression

\* A variable is a parameter if its DIE is one.
LEMMA KindIsStatic ==
    ASSUME NEW v, NEW tags, NEW external
    PROVE  KindOf(v, tags, external) \in StaticKinds \cup {"Local"}
BY DEF KindOf, StaticKinds

LEMMA StoreVariableStores ==
    ASSUME WalkInv, LocationsHaveDies, SourceInv, StoreVariable
    PROVE  \/ variables' = variables
           \/ \E v : IsStored(v) /\ variables' = Append(variables, v)
<1> DEFINE d      == Task.variable.die
           here   == [i \in DOMAIN scopes |-> scopes[i].name]
           moved  == Task.variable.scope # here
           tags   == IF moved THEN <<>> ELSE [i \in DOMAIN scopes |-> scopes[i].tag]
           member == \/ Task.variable.member
                     \/ /\ moved /\ Task.variable.scope # <<>> /\ scopes # <<>>
                        /\ Last(scopes).tag \in ClassTags
           sorted == [Task.variable EXCEPT !.member = member]
           kind   == IF Die(d).tag = "formal_parameter" THEN "Parameter"
                     ELSE KindOf(sorted, tags, Die(d).external)
           v      == [sorted EXCEPT !.kind = kind]
<1>1. /\ stage = "units" /\ agenda # <<>> /\ Task.do = "inherit"
      /\ variables' = variables \/ variables' = Append(variables, v)
  BY DEF StoreVariable, Doing, Task
<1>2. Task \in Tasks
  <2>1. IsList(agenda)
    BY <1>1 DEF WalkInv, WalkUnits, Lists
  <2> QED
    BY <1>1, <2>1, FirstAndRest DEF Tasks, Task
<1>3. IsSourced(Task.variable)
  BY <1>1, <1>2 DEF SourceInv, TasksBring, Brings
<1> HIDE DEF here, moved, tags, member
<1>4. IsSourced(sorted) /\ sorted.die = d
  <2>1. DOMAIN Task.variable = Fields
    BY <1>3 DEF IsSourced
  <2>2. PICK x : x = Task.variable
    OBVIOUS
  <2>3. sorted = [x EXCEPT !.member = member] /\ DOMAIN x = Fields
    BY <2>1, <2>2
  <2> HIDE DEF sorted
  <2>4. /\ DOMAIN sorted = DOMAIN x /\ sorted.die = x.die
        /\ sorted.address = x.address /\ sorted.text = x.text
        /\ sorted.availability = x.availability /\ sorted.constant = x.constant
        /\ sorted.tls = x.tls
    BY <2>3 DEF Fields
  <2> QED
    BY <1>3, <2>2, <2>4, SourcedLike
<1> HIDE DEF sorted
<1>5. /\ kind \in StaticKinds \cup {"Local", "Parameter"}
      /\ kind = "Parameter" <=> Die(d).tag = "formal_parameter"
  BY KindIsStatic DEF StaticKinds
<1> HIDE DEF kind
<1>6. IsSourced(v) /\ v.die = d /\ v.kind = kind
  <2>1. DOMAIN sorted = Fields
    BY <1>4 DEF IsSourced
  <2>2. /\ DOMAIN v = DOMAIN sorted /\ v.die = sorted.die
        /\ v.address = sorted.address /\ v.text = sorted.text
        /\ v.availability = sorted.availability /\ v.constant = sorted.constant
        /\ v.tls = sorted.tls /\ v.kind = kind
    BY <2>1 DEF Fields
  <2> HIDE DEF v
  <2> QED
    BY <1>4, <2>2, SourcedLike
<1> HIDE DEF v, d
<1>7. IsStored(v)
  BY <1>5, <1>6 DEF IsStored
<1> QED
  BY <1>1, <1>7

LEMMA VariablesStoredSteps ==
    ASSUME WalkInv, LocationsHaveDies, SourceInv, IsList(variables),
           [ReaderNext]_<<readerVars, expressionVars>>
    PROVE  VariablesAreStored'
<1>1. \A v \in Range(OfTheWalk) : IsStored(v)
  BY DEF SourceInv, VariablesAreStored
<1>2. file' = file
  BY DEF ReaderNext, NextUnit, WalkDie, LeaveScope, EnsureType, TypeEnsured, RecordedType,
         MaterializeType, RecordUnitType, RecordType, NextChild, PlaceMember,
         FollowReferences, StoreVariable, BeginVariable, LocateVariable, InheritName,
         InheritLocation, StartExpression, StepExpression, EndWalk, ApplySymbols,
         Deduplicate, PruneLocals, PrunePlaceholders, Pass, unchangedWalk, readerVars
<1>3. \A v : IsStored(v)' <=> IsStored(v)
  BY <1>2, SameFileSources
<1>4. CASE StoreVariable
  <2>1. stage = "units" /\ stage' = "units"
    BY <1>4 DEF StoreVariable, Doing, unchangedWalk
  <2>2. \/ variables' = variables
        \/ \E v : IsStored(v) /\ variables' = Append(variables, v)
    BY <1>4, StoreVariableStores
  <2>3. \A v \in Range(variables') : IsStored(v)
    <3>1. \A v \in Range(variables) : IsStored(v)
      BY <1>1, <2>1 DEF OfTheWalk
    <3>2. CASE variables' = variables
      BY <3>1, <3>2
    <3>3. CASE \E v : IsStored(v) /\ variables' = Append(variables, v)
      <4>1. PICK v : IsStored(v) /\ variables' = Append(variables, v)
        BY <3>3
      <4>2. Range(variables') = Range(variables) \cup {v}
        BY <4>1, Appended
      <4> QED
        BY <3>1, <4>1, <4>2
    <3> QED
      BY <2>2, <3>2, <3>3
  <2> QED
    BY <1>3, <2>1, <2>3 DEF VariablesAreStored, OfTheWalk
<1>5. CASE EndWalk
  <2>1. /\ stage = "units" /\ stage' # "units" /\ found' = variables
    BY <1>5 DEF EndWalk
  <2> QED
    BY <1>1, <1>3, <2>1 DEF VariablesAreStored, OfTheWalk
<1>6. CASE ApplySymbols \/ Deduplicate \/ PruneLocals \/ PrunePlaceholders
  <2>1. /\ stage # "units" /\ stage' # "units" /\ found' = found
    BY <1>6 DEF ApplySymbols, Deduplicate, PruneLocals, PrunePlaceholders, Pass
  <2> QED
    BY <1>1, <1>3, <2>1 DEF VariablesAreStored, OfTheWalk
<1>7. CASE UNCHANGED readerVars
  <2>1. OfTheWalk' = OfTheWalk
    BY <1>7 DEF OfTheWalk, readerVars
  <2> QED
    BY <1>1, <1>3, <2>1 DEF VariablesAreStored
<1>8. ASSUME \/ NextUnit \/ WalkDie \/ LeaveScope \/ EnsureType \/ TypeEnsured
             \/ RecordedType \/ MaterializeType \/ RecordUnitType \/ RecordType
             \/ NextChild \/ PlaceMember \/ FollowReferences
             \/ BeginVariable \/ LocateVariable \/ InheritName \/ InheritLocation
      PROVE  VariablesAreStored'
  <2>1. stage' = stage /\ variables' = variables /\ found' = found
    BY <1>8 DEF NextUnit, WalkDie, LeaveScope, EnsureType, TypeEnsured, RecordedType,
                MaterializeType, RecordUnitType, RecordType, NextChild, PlaceMember,
                FollowReferences, BeginVariable, LocateVariable, InheritName,
                InheritLocation, unchangedWalk
  <2>2. OfTheWalk' = OfTheWalk
    BY <2>1 DEF OfTheWalk
  <2> QED
    BY <1>1, <1>3, <2>2 DEF VariablesAreStored
<1> QED
  BY <1>4, <1>5, <1>6, <1>7, <1>8 DEF ReaderNext, StartExpression, StepExpression

LEMMA ReadingStaysCurrent ==
    ASSUME WalkInv, SourceInv, [ReaderNext]_<<readerVars, expressionVars>>
    PROVE  ReadingIsCurrent'
<1>1. ReadingIsCurrent
  BY DEF SourceInv
<1>2. CASE StartExpression
  <2>1. /\ stage = "units" /\ agenda # <<>> /\ UNCHANGED readerVars
        /\ Task.do \in {"place", "locate", "relocate"}
        /\ Die(Task.die).location.form = "expression"
        /\ bytes' = Die(Task.die).location.bytes
    BY <1>2 DEF StartExpression, Begin, Doing, Task
  <2> QED
    BY <2>1 DEF ReadingIsCurrent, IsReadFor, readerVars, Task, Die
<1>3. CASE StepExpression
  <2>1. /\ stage = "units" /\ agenda # <<>> /\ UNCHANGED readerVars
        /\ bytes' = bytes /\ expression # "none"
    BY <1>3 DEF StepExpression, ExpressionStep, DecodeOperation, DecodeFails, DecodeEnds,
                Evaluate, EvaluateOperation, RefuseOperation, EvaluationEnds
  <2> QED
    BY <1>1, <2>1 DEF ReadingIsCurrent, IsReadFor, readerVars, Task, Die
<1>4. CASE PlaceMember \/ LocateVariable \/ InheritLocation
  <2>1. expression' = "none"
    BY <1>4 DEF PlaceMember, LocateVariable, InheritLocation, Close
  <2> QED
    BY <2>1 DEF ReadingIsCurrent
<1>5. CASE UNCHANGED <<readerVars, expressionVars>>
  BY <1>1, <1>5 DEF ReadingIsCurrent, IsReadFor, readerVars, expressionVars, Task, Die
<1>6. ASSUME NextUnit \/ EndWalk \/ ApplySymbols \/ Deduplicate \/ PruneLocals
             \/ PrunePlaceholders
      PROVE  ReadingIsCurrent'
  <2>1. expression' = expression /\ (stage # "units" \/ agenda = <<>>)
    BY <1>6 DEF NextUnit, EndWalk, ApplySymbols, Deduplicate, PruneLocals,
                PrunePlaceholders, Pass, expressionVars
  <2> QED
    BY <1>1, <2>1 DEF ReadingIsCurrent
<1>7. ASSUME \/ WalkDie \/ LeaveScope \/ EnsureType \/ TypeEnsured
             \/ RecordedType \/ MaterializeType \/ RecordUnitType \/ RecordType
             \/ NextChild \/ FollowReferences \/ StoreVariable
             \/ BeginVariable \/ InheritName
      PROVE  ReadingIsCurrent'
  <2>1. expression' = expression
    BY <1>7 DEF WalkDie, LeaveScope, EnsureType, TypeEnsured,
                RecordedType, MaterializeType, RecordUnitType, RecordType, NextChild,
                FollowReferences, StoreVariable, BeginVariable, InheritName, expressionVars
  <2>2. Task.do \notin {"place", "locate", "relocate"}
    BY <1>7 DEF WalkDie, LeaveScope, EnsureType, TypeEnsured,
                RecordedType, MaterializeType, RecordUnitType, RecordType, NextChild,
                FollowReferences, StoreVariable, BeginVariable, InheritName, Doing, Task
  <2> QED
    BY <1>1, <2>1, <2>2 DEF ReadingIsCurrent, IsReadFor
<1> QED
  BY <1>2, <1>3, <1>4, <1>5, <1>6, <1>7 DEF ReaderNext

-----------------------------------------------------------------------------
(* Where the addresses come from.                                          *)

\* What apply_symbol_addresses makes of a variable
LEMMA SymbolGives ==
    ASSUME IsFile(file), NEW v, DOMAIN v = Fields, NEW w, w = WithSymbol(v)
    PROVE  \/ w = v
           \/ /\ w.die = v.die /\ w.tls /\ w.address = Absent /\ w.kind = "ThreadLocal"
              /\ w.availability = "RuntimeOnly"
           \/ /\ ~Exact(v)
              /\ w.die = v.die /\ w.tls = v.tls /\ w.constant = v.constant /\ w.kind = v.kind
              /\ w.availability = "StaticAddressKnown" /\ SymbolNames(w) = SymbolNames(v)
              /\ \E i \in DOMAIN file.symbols :
                     /\ Usable(file.symbols[i]) /\ file.symbols[i].kind # "tls"
                     /\ file.symbols[i].value = w.address
                     /\ file.symbols[i].name \in Range(SymbolNames(w))
<1> DEFINE names == SymbolNames(v)
           known == {i \in DOMAIN names : Symbols(names[i]) # {}}
           name  == names[Min(known)]
           s     == SymbolOf(name)
<1>1. CASE Exact(v) \/ known = {}
  <2>1. WithSymbol(v) = v
    BY <1>1, Zenon DEF WithSymbol
  <2> QED
    BY <2>1
<1>2. CASE ~Exact(v) /\ known # {}
  <2>1. known \subseteq Nat
    <3>1. DOMAIN names \subseteq Nat
      <4>1. PICK p, q : names = p \o q
        BY DEF SymbolNames
      <4>2. \A x, y : DOMAIN (x \o y) \subseteq Nat
        OBVIOUS
      <4> QED
        BY <4>1, <4>2
    <3> QED
      BY <3>1
  <2>2. Min(known) \in known
    <3> HIDE DEF known
    <3>1. \E x \in known : \A y \in known : x <= y
      BY <1>2, <2>1, Least
    <3> QED
      BY <3>1 DEF Min
  <2>3. Symbols(name) # {} /\ name \in Range(names)
    BY <2>2 DEF Range
  <2> HIDE DEF name, known
  <2>4. PICK i \in Symbols(name) : s = file.symbols[i]
    <3>1. PICK T, n : T = Symbols(name) /\ n = Len(file.symbols)
      OBVIOUS
    <3>2. n \in Nat /\ DOMAIN file.symbols = 1..n
      BY <3>1, ListFacts DEF IsFile
    <3>3. T \subseteq 1..n /\ T # {}
      BY <2>3, <3>1, <3>2 DEF Symbols
    <3>4. \E k \in T : \A m \in T : k >= m
      BY <3>2, <3>3, Greatest
    <3>5. \E k \in T : \A m \in T : m <= k
      BY <3>2, <3>3, <3>4
    <3> QED
      BY <3>1, <3>5 DEF SymbolOf
  <2>5. /\ i \in DOMAIN file.symbols /\ Usable(file.symbols[i])
        /\ file.symbols[i].name = name
    BY <2>4 DEF Symbols
  <2>6. CASE s.kind = "tls"
    <3>1. w = [v EXCEPT !.tls = TRUE, !.kind = "ThreadLocal", !.address = Absent,
                        !.text = "symbol", !.availability = "RuntimeOnly"]
      BY <1>2, <2>6 DEF WithSymbol, name, known
    <3> QED
      BY <3>1 DEF Fields
  <2>7. CASE s.kind # "tls"
    <3>1. w = [v EXCEPT !.address = s.value, !.text = "symbol",
                        !.availability = "StaticAddressKnown"]
      BY <1>2, <2>7 DEF WithSymbol, name, known
    <3> HIDE DEF s, names
    <3>2. /\ w.die = v.die /\ w.tls = v.tls /\ w.constant = v.constant /\ w.kind = v.kind
          /\ w.availability = "StaticAddressKnown" /\ w.address = s.value
          /\ w.linkage = v.linkage /\ w.scope = v.scope /\ w.name = v.name
      BY <3>1 DEF Fields
    <3>3. SymbolNames(w) = SymbolNames(v)
      BY <3>2 DEF SymbolNames
    <3> QED
      BY <1>2, <2>3, <2>4, <2>5, <2>7, <3>2, <3>3 DEF names
  <2> QED
    BY <2>6, <2>7
<1> QED
  BY <1>1, <1>2

\* What is true of the addresses of a variable of the walk
LEMMA StoredHasSource ==
    ASSUME NEW v, IsStored(v), v.address # Absent
    PROVE  LET own == OwnAddress(v.die)
           IN  \/ v.address = own
               \/ /\ own = Absent \/ v.tls \/ v.constant \/ v.kind = "Parameter"
                  /\ \E r \in Sources(v.die) : v.address = OwnAddress(r)
BY DEF IsStored, IsSourced, KeepsOwn

\* After the walk there are only variables of it, with symbols or without.
LEMMA AfterTheWalk ==
    ASSUME PassesInv, NEW w \in Range(variables)
    PROVE  \/ w \in Range(OfTheWalk)
           \/ file.elf /\ \E v \in Range(OfTheWalk) : w = WithSymbol(v)
<1>1. CASE stage \in {"units", "symbols"}
  BY <1>1 DEF PassesInv, OfTheWalk
<1>2. CASE stage \notin {"units", "symbols"}
  <2>1. w \in KnownBefore
    BY <1>2 DEF PassesInv, AfterUnique, AfterLocals, AfterPlaceholders
  <2>2. OfTheWalk = found
    BY <1>2 DEF OfTheWalk
  <2> QED
    BY <2>1, <2>2 DEF KnownBefore
<1> QED
  BY <1>1, <1>2

LEMMA SourcesAreKnown ==
    ASSUME IsFile(file), PassesInv, SourceInv
    PROVE  AddressesHaveASource
<1> SUFFICES ASSUME NEW w \in Range(variables), w.address # Absent
             PROVE  LET own == OwnAddress(w.die)
                    IN  \/ w.address = own
                        \/ /\ own = Absent \/ w.tls \/ w.constant \/ w.kind = "Parameter"
                           /\ \/ \E r \in Sources(w.die) : w.address = OwnAddress(r)
                              \/ \E i \in DOMAIN file.symbols :
                                     /\ file.elf /\ Usable(file.symbols[i])
                                     /\ file.symbols[i].kind # "tls"
                                     /\ file.symbols[i].value = w.address
                                     /\ file.symbols[i].name \in Range(SymbolNames(w))
  BY DEF AddressesHaveASource
<1>1. \A v \in Range(OfTheWalk) : IsStored(v)
  BY DEF SourceInv, VariablesAreStored
<1>2. CASE w \in Range(OfTheWalk)
  BY <1>1, <1>2, StoredHasSource
<1>3. CASE file.elf /\ \E v \in Range(OfTheWalk) : w = WithSymbol(v)
  <2>1. PICK v \in Range(OfTheWalk) : w = WithSymbol(v)
    BY <1>3
  <2>2. IsStored(v) /\ DOMAIN v = Fields
    BY <1>1 DEF IsStored, IsSourced
  <2>3. CASE w = v
    BY <2>2, <2>3, StoredHasSource
  <2>4. CASE w # v
    <3>1. /\ ~Exact(v)
          /\ w.die = v.die /\ w.tls = v.tls /\ w.constant = v.constant /\ w.kind = v.kind
          /\ \E i \in DOMAIN file.symbols :
                 /\ Usable(file.symbols[i]) /\ file.symbols[i].kind # "tls"
                 /\ file.symbols[i].value = w.address
                 /\ file.symbols[i].name \in Range(SymbolNames(w))
      BY <2>1, <2>2, <2>4, SymbolGives
    <3>2. OwnAddress(v.die) = Absent \/ v.tls \/ v.constant \/ v.kind = "Parameter"
      BY <2>2, <3>1 DEF IsStored, IsSourced, KeepsOwn, Exact
    <3> QED
      BY <1>3, <3>1, <3>2
  <2> QED
    BY <2>3, <2>4
<1> QED
  BY <1>2, <1>3, AfterTheWalk

-----------------------------------------------------------------------------
(* The invariant holds.                                                    *)

LEMMA SourceInit == ReaderInit => SourceInv
<1> SUFFICES ASSUME ReaderInit PROVE SourceInv
  OBVIOUS
<1>1. /\ stage = "units" /\ agenda = <<>> /\ variables = <<>>
      /\ expression = "none"
  BY DEF ReaderInit, ExpressionInit
<1>2. TasksBring
  BY <1>1 DEF TasksBring, Tasks, Range
<1>3. VariablesAreStored
  BY <1>1 DEF VariablesAreStored, OfTheWalk, Range
<1> QED
  BY <1>1, <1>2, <1>3 DEF SourceInv, ReadingIsCurrent

LEMMA SourceNext ==
    ReadingInv /\ PassesInv /\ SourceInv /\ [ReaderNext]_<<readerVars, expressionVars>>
        => SourceInv'
<1> SUFFICES ASSUME ReadingInv, PassesInv, SourceInv,
                    [ReaderNext]_<<readerVars, expressionVars>>
             PROVE  SourceInv'
  OBVIOUS
<1>1. WalkInv /\ LocationsHaveDies /\ DecodingInv /\ IsList(variables)
  BY DEF ReadingInv, PassesInv
<1> QED
  BY <1>1, TasksBringSteps, VariablesStoredSteps, ReadingStaysCurrent DEF SourceInv

LEMMA SourceInvariant == ReaderSpec => []SourceInv
BY SourceInit, SourceNext, ReaderReadingInv, PassesInvariant, PTL DEF ReaderSpec

\* The address of a variable is what its own location says or, where that says
\* none (or the variable is a constant, local to a thread or a parameter), that
\* of an entry it refers to or of a symbol of its name: for every file and every
\* order in which its entries are read (decode_location, inherit_die_attrs,
\* apply_symbol_addresses).
THEOREM AddressesAlwaysHaveASource == ReaderSpec => []AddressesHaveASource
<1>1. ReadingInv /\ PassesInv /\ SourceInv => AddressesHaveASource
  BY SourcesAreKnown DEF ReadingInv, WalkInv
<1> QED
  BY <1>1, ReaderReadingInv, PassesInvariant, SourceInvariant, PTL

-----------------------------------------------------------------------------
(* Types.                                                                  *)

\* Types with these ids have been met.
KnownIds ==
    {DieId(d) : d \in DOMAIN file.dies} \cup {KeyId(key) : key \in signed}
        \cup {types[i].id : i \in DOMAIN types}

\* When the walk is over nothing of it is left.
WalkIsOver ==
    stage # "units" =>
        /\ agenda = <<>> /\ signed \subseteq DOMAIN UnitTypes
        /\ recorded \cup loading \subseteq KnownIds

ScopesHaveDies == DOMAIN classScope \cup DOMAIN variableScope \subseteq DOMAIN file.dies

LEMMA WalkKnowsIds ==
    ASSUME WalkInv, stage = "units"
    PROVE  signed \subseteq DOMAIN UnitTypes /\ recorded \cup loading \subseteq KnownIds
<1>1. LoadingEnds /\ TasksAreSound /\ RecordedHaveNodes /\ SignedHaveNodes
  BY DEF WalkInv, WalkUnits, NodesOfTypes
<1>2. signed \subseteq DOMAIN UnitTypes
  BY <1>1 DEF SignedHaveNodes
<1>3. ASSUME NEW id \in recorded PROVE id \in KnownIds
  <2>1. CASE id \in Ids
    BY <2>1 DEF Ids, KnownIds
  <2>2. CASE \E t \in Tasks : t.do \in Recording /\ t.node.id = id
    <3>1. PICK t \in Tasks : t.do \in Recording /\ t.node.id = id
      BY <2>2
    <3>2. t.of \in DOMAIN file.dies /\ t.node.id = DieId(t.of)
      BY <1>1, <3>1, RecordingTask DEF TasksAreSound
    <3> QED
      BY <3>1, <3>2 DEF KnownIds
  <2>3. CASE \E d \in DOMAIN file.dies : id = DieId(d)
    BY <2>3 DEF KnownIds
  <2> QED
    BY <1>1, <2>1, <2>2, <2>3 DEF RecordedHaveNodes
<1>4. ASSUME NEW id \in loading PROVE id \in KnownIds
  <2>1. CASE \E d \in DOMAIN file.dies : id = DieId(d)
    BY <2>1 DEF KnownIds
  <2>2. CASE \E key : id = KeyId(key) /\ RecordUnit(key) \in Tasks
    <3>1. PICK key : id = KeyId(key) /\ RecordUnit(key) \in Tasks
      BY <2>2
    <3>2. RecordUnit(key).do = "unit type" /\ RecordUnit(key).key = key
      BY DEF RecordUnit
    <3>3. key \in signed
      BY <1>1, <3>1, <3>2 DEF TasksAreSound, IsTask
    <3> QED
      BY <3>1, <3>3 DEF KnownIds
  <2> QED
    BY <1>1, <2>1, <2>2 DEF LoadingEnds, LoadingEnd
<1> QED
  BY <1>2, <1>3, <1>4

LEMMA WalkOverNext ==
    ASSUME WalkInv, WalkIsOver, [ReaderNext]_<<readerVars, expressionVars>>
    PROVE  WalkIsOver'
<1>1. CASE EndWalk
  <2>1. /\ stage = "units"
        /\ UNCHANGED <<file, agenda, signed, recorded, loading, types>>
        /\ agenda = <<>>
    BY <1>1 DEF EndWalk
  <2>2. UnitTypes' = UnitTypes /\ KnownIds' = KnownIds
    BY <2>1 DEF UnitTypes, KnownIds
  <2> QED
    BY <2>1, <2>2, WalkKnowsIds DEF WalkIsOver
<1>2. ASSUME \/ ApplySymbols \/ Deduplicate \/ PruneLocals \/ PrunePlaceholders
             \/ UNCHANGED <<readerVars, expressionVars>>
      PROVE  WalkIsOver'
  <2>1. /\ UNCHANGED <<file, agenda, signed, recorded, loading, types>>
        /\ stage # "units" \/ stage' = stage
    BY <1>2 DEF ApplySymbols, Deduplicate, PruneLocals, PrunePlaceholders, Pass, readerVars
  <2>2. UnitTypes' = UnitTypes /\ KnownIds' = KnownIds
    BY <2>1 DEF UnitTypes, KnownIds
  <2> QED
    BY <2>1, <2>2 DEF WalkIsOver
<1>3. CASE WalkGrows
  BY <1>3 DEF WalkGrows, WalkIsOver
<1> QED
  BY <1>1, <1>2, <1>3, StepsOfTheList

LEMMA ScopesNext ==
    ASSUME WalkInv, LocationsHaveDies, SourceInv, ScopesHaveDies,
           [ReaderNext]_<<readerVars, expressionVars>>
    PROVE  ScopesHaveDies'
<1>1. CASE NextUnit
  <2>1. file' = file /\ variableScope' = variableScope
    BY <1>1 DEF NextUnit
  <2>2. \/ classScope' = classScope
        \/ \E root : classScope' = Merge(classScope, DeclaredMembers(root))
    BY <1>1 DEF NextUnit
  <2>3. \A root : DOMAIN DeclaredMembers(root) \subseteq DOMAIN file.dies
    BY DEF DeclaredMembers
  <2>4. \A map, over : DOMAIN Merge(map, over) = DOMAIN map \cup DOMAIN over
    BY DEF Merge
  <2> QED
    BY <2>1, <2>2, <2>3, <2>4 DEF ScopesHaveDies
<1>2. ASSUME NEW map, NEW put, NEW key, \E value : put = Put(map, key, value)
      PROVE  DOMAIN put = DOMAIN map \cup {key}
  BY <1>2 DEF Put
<1>3. ASSUME agenda # <<>>, stage = "units" PROVE Task \in Tasks
  <2>1. IsList(agenda)
    BY <1>3 DEF WalkInv, WalkUnits, Lists
  <2> QED
    BY <1>3, <2>1, FirstAndRest DEF Tasks, Task
<1>4. CASE LocateVariable
  <2>1. /\ stage = "units" /\ agenda # <<>> /\ Task.do = "locate"
        /\ UNCHANGED <<file, classScope>>
        /\ \E scope : variableScope' = Put(variableScope, Task.die, scope)
    BY <1>4 DEF LocateVariable, Doing, Task, unchangedWalk
  <2>2. Task.die \in DOMAIN file.dies
    BY <1>3, <2>1 DEF LocationsHaveDies, HasDie
  <2>3. DOMAIN variableScope' = DOMAIN variableScope \cup {Task.die}
    BY <1>2, <2>1
  <2> QED
    BY <2>1, <2>2, <2>3 DEF ScopesHaveDies
<1>5. CASE StoreVariable
  <2> DEFINE d == Task.variable.die
  <2>1. /\ stage = "units" /\ agenda # <<>> /\ Task.do = "inherit"
        /\ file' = file
        /\ classScope' = classScope \/ \E scope : classScope' = Put(classScope, d, scope)
        /\ \/ variableScope' = variableScope
           \/ \E scope : variableScope' = Put(variableScope, d, scope)
    BY <1>5 DEF StoreVariable, Doing, Task, unchangedWalk
  <2>2. d \in DOMAIN file.dies
    BY <1>3, <2>1 DEF SourceInv, TasksBring, Brings, IsSourced
  <2> HIDE DEF d
  <2>3. classScope' = classScope \/ DOMAIN classScope' = DOMAIN classScope \cup {d}
    BY <1>2, <2>1
  <2>4. \/ variableScope' = variableScope
        \/ DOMAIN variableScope' = DOMAIN variableScope \cup {d}
    BY <1>2, <2>1
  <2> QED
    BY <2>1, <2>2, <2>3, <2>4 DEF ScopesHaveDies
<1>6. CASE UNCHANGED <<readerVars, expressionVars>>
  BY <1>6 DEF readerVars, ScopesHaveDies
<1>7. ASSUME \/ WalkDie \/ LeaveScope \/ EnsureType \/ TypeEnsured
             \/ RecordedType \/ MaterializeType \/ RecordUnitType \/ RecordType
             \/ NextChild \/ PlaceMember \/ FollowReferences
             \/ BeginVariable \/ InheritName \/ InheritLocation
             \/ StartExpression \/ StepExpression \/ EndWalk
             \/ ApplySymbols \/ Deduplicate \/ PruneLocals \/ PrunePlaceholders
      PROVE  ScopesHaveDies'
  <2>1. UNCHANGED <<file, classScope, variableScope>>
    BY <1>7 DEF WalkDie, LeaveScope, EnsureType, TypeEnsured, RecordedType,
                MaterializeType, RecordUnitType, RecordType, NextChild, PlaceMember,
                FollowReferences, BeginVariable, InheritName, InheritLocation,
                StartExpression, StepExpression, EndWalk, ApplySymbols, Deduplicate,
                PruneLocals, PrunePlaceholders, Pass, readerVars, unchangedWalk,
                unchangedMaps
  <2> QED
    BY <2>1 DEF ScopesHaveDies
<1> QED
  BY <1>1, <1>4, <1>5, <1>6, <1>7 DEF ReaderNext

\* An address that a location says is a word.
LEMMA OwnAddressIsWord ==
    ASSUME IsFile(file), NEW d \in DOMAIN file.dies
    PROVE  OwnAddress(d) \in Unsigned \cup {Absent}
<1> DEFINE location == Die(d).location
           rest == Tail(location.bytes)
<1>1. CASE location.form = "expression" /\ SaysAddress(location.bytes)
  <2>1. /\ location.bytes \in Seq(Bytes) /\ location.bytes # <<>>
        /\ Len(location.bytes) = 1 + AddressSize
    BY <1>1 DEF IsFile, Die, SaysAddress, CodeOf
  <2>2. PICK b : b = location.bytes
    OBVIOUS
  <2>3. Tail(b) \in Seq(Bytes) /\ Len(Tail(b)) = AddressSize
    BY <2>1, <2>2, ExpressionAssumption
  <2>4. Tail(b) \in Seq(Nat) /\ \A i \in 1..Len(Tail(b)) : Tail(b)[i] < ByteRange
    <3>1. ByteRange \in Nat /\ \A x \in Bytes : x \in Nat /\ x < ByteRange
      BY Sizes DEF Bytes
    <3>2. \A s \in Seq(Bytes) : s \in Seq(Nat) /\ \A i \in 1..Len(s) : s[i] < ByteRange
      BY <3>1
    <3> QED
      BY <2>3, <3>2
  <2>5. FixedValue(Tail(b)) \in Nat /\ FixedValue(Tail(b)) < ByteWeight[AddressSize]
    <3>1. ByteRange \in Nat \ {0}
      BY Sizes
    <3> QED
      BY <2>3, <2>4, <3>1, ByteWeights, NumberBelow DEF FixedValue
  <2>6. FixedValue(Tail(b)) \in Unsigned
    <3>1. PICK v, w : v = FixedValue(Tail(b)) /\ w = ByteWeight[AddressSize]
      OBVIOUS
    <3>2. w \in Nat /\ w <= 2 * HalfRange
      <4>1. ByteWeight[AddressSize] \in Nat
        <5>1. ByteRange \in Nat /\ AddressSize \in Nat
          BY Sizes, ExpressionAssumption
        <5> QED
          BY <5>1, ByteWeights, WeightStep
      <4> QED
        BY <3>1, <4>1, ExpressionAssumption
    <3> QED
      BY <2>5, <3>1, <3>2, Sizes DEF Unsigned, MaxAddress
  <2> QED
    BY <1>1, <2>2, <2>6, OwnAddressIs
<1>2. CASE location.form = "expression" /\ SaysIndex(location.bytes)
  BY <1>2, OwnAddressIs DEF IsFile, SaysIndex
<1>3. CASE location.form = "address"
  BY <1>3, OwnAddressIs DEF IsFile, Die
<1> QED
  BY <1>1, <1>2, <1>3, OwnAddressIs

VariableOK(v) ==
    /\ v.die \in DOMAIN file.dies
    /\ v.address \in Unsigned \cup {Absent}
    /\ v.availability \in {"StaticAddressKnown", "RuntimeOnly", "Unavailable"}
    /\ v.kind \in StaticKinds \cup {"Local", "Parameter"}

LEMMA VariablesAreOK ==
    ASSUME IsFile(file), PassesInv, SourceInv, NEW w \in Range(variables)
    PROVE  VariableOK(w)
<1>1. ASSUME NEW v \in Range(OfTheWalk)
      PROVE  DOMAIN v = Fields /\ VariableOK(v)
  <2>1. IsStored(v) /\ IsSourced(v)
    BY DEF SourceInv, VariablesAreStored, IsStored
  <2>2. Sources(v.die) \subseteq DOMAIN file.dies
    <3>1. References(v.die) \in Seq(DOMAIN file.dies)
      BY <2>1, ReferencesAreDies DEF IsSourced
    <3>2. Range(References(v.die)) \subseteq DOMAIN file.dies
      BY <3>1, ListOf
    <3> QED
      BY <2>1, <3>2 DEF Sources, IsSourced
  <2>3. v.address \in Unsigned \cup {Absent}
    BY <2>1, <2>2, OwnAddressIsWord DEF IsSourced
  <2> QED
    BY <2>1, <2>3 DEF IsStored, IsSourced, VariableOK, Availabilities
<1>2. CASE w \in Range(OfTheWalk)
  BY <1>1, <1>2
<1>3. CASE \E v \in Range(OfTheWalk) : w = WithSymbol(v)
  <2>1. PICK v \in Range(OfTheWalk) : w = WithSymbol(v)
    BY <1>3
  <2>2. DOMAIN v = Fields /\ VariableOK(v)
    BY <1>1
  <2>3. \A i \in DOMAIN file.symbols : file.symbols[i].value \in Unsigned
    BY DEF IsFile
  <2> QED
    BY <2>1, <2>2, <2>3, SymbolGives DEF VariableOK, StaticKinds
<1> QED
  BY <1>2, <1>3, AfterTheWalk

TypesInv == WalkIsOver /\ ScopesHaveDies

LEMMA TypesInvariant == ReaderSpec => []TypesInv
<1>1. ReaderInit => TypesInv
  BY DEF ReaderInit, TypesInv, WalkIsOver, ScopesHaveDies
<1>2. ReadingInv /\ SourceInv /\ TypesInv /\ [ReaderNext]_<<readerVars, expressionVars>>
          => TypesInv'
  BY WalkOverNext, ScopesNext DEF ReadingInv, TypesInv
<1> QED
  BY <1>1, <1>2, ReaderReadingInv, SourceInvariant, PTL DEF ReaderSpec

\* Every variable of the reader is of its type: what is recorded or being
\* loaded is an id of a DIE, of a type unit that was begun or of a node, scopes
\* are those of DIEs, and what record_variable and apply_symbol_addresses make
\* of a variable has words for addresses.
THEOREM ReaderTypeCorrect == ReaderSpec => []ReaderTypeOK
<1>1. ReadingInv /\ EvaluatorTypes /\ PassesInv /\ UnitsInv /\ SourceInv /\ TypesInv
          => ReaderTypeOK
  <2> SUFFICES ASSUME ReadingInv, EvaluatorTypes, PassesInv, UnitsInv, SourceInv, TypesInv
               PROVE  ReaderTypeOK
    OBVIOUS
  <2>1. ExpressionTypeOK
    BY TypesOfExpressions DEF ReadingInv
  <2>2. /\ stage \in {"units", "symbols", "unique", "locals", "placeholders", "done"}
        /\ unit \in 0..Len(file.units) /\ kept \subseteq 1..unit
    BY DEF PassesInv, UnitsInv, UnitsFollowRules
  <2>3. /\ stage # "units" => agenda = <<>>
        /\ signed \subseteq DOMAIN UnitTypes /\ recorded \cup loading \subseteq KnownIds
    BY WalkKnowsIds DEF TypesInv, WalkIsOver, ReadingInv
  <2>4. \A v \in Range(variables) : VariableOK(v)
    BY VariablesAreOK DEF ReadingInv, WalkInv
  <2> QED
    BY <2>1, <2>2, <2>3, <2>4
    DEF ReaderTypeOK, KnownIds, TypesInv, ScopesHaveDies, VariableOK
<1> QED
  BY <1>1, ReaderReadingInv, ReaderEvaluatorTypes, PassesInvariant, UnitsInvariant,
     SourceInvariant, TypesInvariant, PTL

-----------------------------------------------------------------------------
(* The walk meets everything.                                              *)

\* What is left of a list behind a place
Rest(s, m) == [i \in 1..(Len(s) - m) |-> s[m + i]]

\* The names of the scopes that are open when the turn of a task comes
NamesIn(tasks, open, m) ==
    [i \in 1..Cardinality(Leaves(Rest(tasks, m))) |-> open[i].name]
NamesOf(open) == [i \in DOMAIN open |-> open[i].name]

LEMMA RestIs ==
    ASSUME NEW s, IsList(s), NEW m \in 0..Len(s)
    PROVE  /\ IsList(Rest(s, m)) /\ Len(Rest(s, m)) = Len(s) - m
           /\ DOMAIN Rest(s, m) = 1..(Len(s) - m)
           /\ \A i \in 1..(Len(s) - m) : Rest(s, m)[i] = s[m + i]
<1>1. s \in Seq(Range(s)) /\ Len(s) \in Nat /\ DOMAIN s = 1..Len(s)
  BY ListFacts
<1>2. PICK n, S : n = Len(s) - m /\ S = Range(s)
  OBVIOUS
<1>3. n \in Nat /\ \A i \in 1..n : m + i \in DOMAIN s /\ s[m + i] \in S
  BY <1>1, <1>2
<1>4. Rest(s, m) = [i \in 1..n |-> s[m + i]]
  BY <1>2 DEF Rest
<1>5. Rest(s, m) \in Seq(S) /\ Len(Rest(s, m)) = n
  BY <1>3, <1>4
<1> QED
  BY <1>2, <1>4, <1>5, ListOf

LEMMA RestOfBoth ==
    ASSUME NEW s, IsList(s), NEW t, IsList(t), NEW m \in 0..Len(t)
    PROVE  Rest(s \o t, Len(s) + m) = Rest(t, m)
<1>1. /\ Len(s) \in Nat /\ Len(t) \in Nat /\ DOMAIN t = 1..Len(t)
      /\ Len(s \o t) = Len(s) + Len(t)
      /\ \A i \in DOMAIN t : (s \o t)[Len(s) + i] = t[i]
  <2>1. Len(s) \in Nat /\ Len(t) \in Nat /\ DOMAIN t = 1..Len(t)
    BY ListFacts
  <2>2. /\ Len(s \o t) = Len(s) + Len(t)
        /\ \A i \in DOMAIN t : (s \o t)[Len(s) + i] = t[i]
    BY Concatenated
  <2> QED
    BY <2>1, <2>2
<1>2. PICK u, k, n : u = s \o t /\ k = Len(s) /\ n = Len(t)
  OBVIOUS
<1>3. /\ k \in Nat /\ n \in Nat /\ m \in 0..n /\ Len(u) = k + n
      /\ \A i \in 1..n : u[k + i] = t[i]
  BY <1>1, <1>2
<1>4. Len(u) - (k + m) = n - m
  BY <1>3
<1>5. \A i \in 1..(n - m) : u[(k + m) + i] = t[m + i]
  <2> SUFFICES ASSUME NEW i \in 1..(n - m) PROVE u[(k + m) + i] = t[m + i]
    OBVIOUS
  <2>1. m + i \in 1..n /\ (k + m) + i = k + (m + i)
    BY <1>3
  <2> QED
    BY <1>3, <2>1
<1> QED
  BY <1>2, <1>4, <1>5 DEF Rest

LEMMA RestOfTail ==
    ASSUME NEW s, IsList(s), s # <<>>, NEW m \in 1..Len(s)
    PROVE  Rest(s, m) = Rest(Tail(s), m - 1)
<1>1. /\ IsList(Tail(s)) /\ s = <<Head(s)>> \o Tail(s) /\ Len(Tail(s)) = Len(s) - 1
      /\ Len(s) \in Nat
  BY FirstAndRest, ListFacts
<1>2. IsList(<<Head(s)>>) /\ Len(<<Head(s)>>) = 1
  BY OneList
<1>3. m - 1 \in 0..Len(Tail(s)) /\ 1 + (m - 1) = m
  BY <1>1
<1>4. Rest(<<Head(s)>> \o Tail(s), Len(<<Head(s)>>) + (m - 1)) = Rest(Tail(s), m - 1)
  BY <1>1, <1>2, <1>3, RestOfBoth
<1> QED
  BY <1>1, <1>2, <1>3, <1>4

\* A list is what it begins with and the rest.
LEMMA LeavesOfRest ==
    ASSUME NEW s, IsList(s), NEW m \in 0..Len(s)
    PROVE  /\ Cardinality(Leaves(Rest(s, m))) \in 0..Cardinality(Leaves(s))
           /\ (\A j \in 1..m : s[j].do # "leave") =>
                  Cardinality(Leaves(Rest(s, m))) = Cardinality(Leaves(s))
<1>1. s \in Seq(Range(s)) /\ Len(s) \in Nat /\ DOMAIN s = 1..Len(s)
  BY ListFacts
<1>2. PICK first : first = [i \in 1..m |-> s[i]]
  OBVIOUS
<1>3. PICK S : S = Range(s)
  OBVIOUS
<1>4. /\ first \in Seq(S) /\ Len(first) = m /\ DOMAIN first = 1..m
      /\ \A i \in 1..m : first[i] = s[i]
  <2>1. m \in Nat /\ \A i \in 1..m : s[i] \in S
    BY <1>1, <1>3
  <2> QED
    BY <1>2, <2>1
<1>5. IsList(first)
  BY <1>4, ListOf
<1>6. PICK rest : rest = Rest(s, m)
  OBVIOUS
<1>7. /\ IsList(rest) /\ Len(rest) = Len(s) - m
      /\ \A i \in 1..(Len(s) - m) : rest[i] = s[m + i]
  BY <1>6, RestIs
<1>8. s = first \o rest
  <2>1. /\ IsList(first \o rest) /\ Len(first \o rest) = Len(first) + Len(rest)
        /\ \A i \in DOMAIN first : (first \o rest)[i] = first[i]
        /\ \A i \in DOMAIN rest : (first \o rest)[Len(first) + i] = rest[i]
    <3>1. IsList(first) /\ IsList(rest)
      BY <1>5, <1>7
    <3>2. /\ Len(first) \in Nat /\ Len(rest) \in Nat
          /\ DOMAIN first = 1..Len(first) /\ DOMAIN rest = 1..Len(rest)
      BY <3>1, ListFacts
    <3> QED
      BY <3>1, <3>2, Concatenated
  <2>2. DOMAIN rest = 1..(Len(s) - m)
    BY <1>7, ListFacts
  <2>3. PICK u, n : u = first \o rest /\ n = Len(s)
    OBVIOUS
  <2>4. /\ IsList(u) /\ Len(u) = n
        /\ \A i \in 1..m : u[i] = s[i]
        /\ \A i \in 1..(n - m) : u[m + i] = s[m + i]
    <3>1. m + (n - m) = n
      BY <1>1, <2>3
    <3> QED
      BY <1>4, <1>7, <2>1, <2>2, <2>3, <3>1
  <2>5. \A i \in 1..n : u[i] = s[i]
    <3> SUFFICES ASSUME NEW i \in 1..n, i > m PROVE u[i] = s[i]
      BY <1>1, <2>3, <2>4
    <3>1. i - m \in 1..(n - m) /\ m + (i - m) = i
      BY <1>1, <2>3
    <3> QED
      BY <2>4, <3>1
  <2>6. u \in Seq(Range(u)) /\ DOMAIN u = 1..n
    BY <2>4, ListFacts
  <2> QED
    <3>1. PICK list, U : list = s /\ U = Range(u)
      OBVIOUS
    <3>2. list \in Seq(S) /\ u \in Seq(U) /\ Len(list) = n /\ Len(u) = n
      BY <1>1, <1>3, <2>3, <2>4, <2>6, <3>1
    <3>3. \A i \in 1..n : list[i] = u[i]
      BY <2>5, <3>1
    <3>4. list = u
      BY <3>2, <3>3, SeqEqual
    <3> QED
      BY <2>3, <3>1, <3>4
<1>9. Cardinality(Leaves(s)) = Cardinality(Leaves(first)) + Cardinality(Leaves(rest))
  <2>1. Cardinality(Leaves(first \o rest)) =
            Cardinality(Leaves(first)) + Cardinality(Leaves(rest))
    BY <1>5, <1>7, LeavesOfBoth
  <2> QED
    BY <1>8, <2>1
<1>10. Cardinality(Leaves(first)) \in Nat /\ Cardinality(Leaves(rest)) \in Nat
  BY <1>5, <1>7, LeavesFinite
<1>11. ASSUME \A j \in 1..m : s[j].do # "leave" PROVE Cardinality(Leaves(first)) = 0
  <2>1. \A t \in Range(first) : t.do # "leave"
    BY <1>4, <1>11 DEF Range
  <2> QED
    BY <1>5, <2>1, NoLeaves
<1> QED
  BY <1>6, <1>9, <1>10, <1>11

\* Where no scope is closed before, all are open.
LEMMA AllOpen ==
    ASSUME NEW tasks, IsList(tasks), NEW open, IsList(open),
           Cardinality(Leaves(tasks)) = Len(open),
           NEW m \in 0..Len(tasks), \A j \in 1..m : tasks[j].do # "leave"
    PROVE  NamesIn(tasks, open, m) = NamesOf(open)
<1>1. DOMAIN open = 1..Len(open)
  BY ListFacts
<1>2. Cardinality(Leaves(Rest(tasks, m))) = Len(open)
  BY LeavesOfRest
<1> QED
  BY <1>1, <1>2 DEF NamesIn, NamesOf

\* The tasks behind the current one keep their places, and the names of the
\* scopes that are open then.
LEMMA PlacesStay ==
    ASSUME WalkInv, NEW tasks, StepOf(tasks),
           \A i \in 1..Cardinality(Leaves(Tail(agenda))) : scopes'[i].name = scopes[i].name,
           NEW m \in DOMAIN agenda, m # 1
    PROVE  \E n \in DOMAIN agenda' :
               /\ agenda'[n] = agenda[m]
               /\ NamesIn(agenda', scopes', n) = NamesIn(agenda, scopes, m)
<1>1. /\ IsList(agenda) /\ agenda # <<>> /\ IsList(tasks) /\ agenda' = tasks \o Tail(agenda)
  BY TasksOfStep DEF WalkUnits, Lists, StepOf, Continue
<1>2. /\ IsList(Tail(agenda)) /\ Len(Tail(agenda)) = Len(agenda) - 1
      /\ \A i \in DOMAIN Tail(agenda) : Tail(agenda)[i] = agenda[i + 1]
      /\ DOMAIN agenda = 1..Len(agenda) /\ Len(agenda) \in Nat
      /\ DOMAIN Tail(agenda) = 1..Len(Tail(agenda))
  BY <1>1, FirstAndRest, ListFacts
<1>3. PICK rest, k, n : rest = Tail(agenda) /\ k = Len(tasks) /\ n = m - 1
  OBVIOUS
<1>4. /\ m \in 1..Len(agenda) /\ n \in 1..Len(rest) /\ n + 1 = m /\ k \in Nat
      /\ rest[n] = agenda[m] /\ n \in 0..Len(rest)
  BY <1>1, <1>2, <1>3, ListFacts
<1>5. k + n \in DOMAIN agenda' /\ agenda'[k + n] = rest[n]
  <2>1. /\ IsList(tasks \o rest) /\ Len(tasks \o rest) = k + Len(rest)
        /\ \A i \in DOMAIN rest : (tasks \o rest)[k + i] = rest[i]
    BY <1>1, <1>2, <1>3, Concatenated
  <2>2. DOMAIN (tasks \o rest) = 1..(k + Len(rest))
    BY <2>1, ListFacts
  <2>3. k + n \in 1..(k + Len(rest)) /\ n \in DOMAIN rest
    BY <1>2, <1>3, <1>4
  <2> QED
    BY <1>1, <1>3, <2>1, <2>2, <2>3
<1>6. Rest(agenda', k + n) = Rest(agenda, m)
  <2>1. Rest(agenda, m) = Rest(rest, n)
    BY <1>1, <1>3, <1>4, RestOfTail
  <2>2. Rest(tasks \o rest, k + n) = Rest(rest, n)
    BY <1>1, <1>2, <1>3, <1>4, RestOfBoth
  <2> QED
    BY <1>1, <1>3, <2>1, <2>2
<1>7. Cardinality(Leaves(Rest(agenda, m))) \in 0..Cardinality(Leaves(rest))
  <2>1. Rest(agenda, m) = Rest(rest, n)
    BY <1>1, <1>3, <1>4, RestOfTail
  <2> QED
    BY <1>2, <1>3, <1>4, <2>1, LeavesOfRest
<1>8. NamesIn(agenda', scopes', k + n) = NamesIn(agenda, scopes, m)
  <2>1. PICK open : open = Cardinality(Leaves(Rest(agenda, m)))
    OBVIOUS
  <2>2. Cardinality(Leaves(rest)) \in Nat
    BY <1>2, <1>3, LeavesFinite
  <2>3. open \in Nat /\ \A i \in 1..open : scopes'[i].name = scopes[i].name
    BY <1>3, <1>7, <2>1, <2>2
  <2>4. /\ NamesIn(agenda, scopes, m) = [i \in 1..open |-> scopes[i].name]
        /\ NamesIn(agenda', scopes', k + n) = [i \in 1..open |-> scopes'[i].name]
    BY <1>6, <2>1 DEF NamesIn
  <2> QED
    BY <2>3, <2>4
<1> QED
  BY <1>4, <1>5, <1>8
-----------------------------------------------------------------------------
(* The trees of the DIEs.                                                  *)

\* The number of a DIE in a tree grows on the way down.
IsRanked(rank, n) ==
    /\ n \in Nat /\ rank \in [DOMAIN file.dies -> 0..n]
    /\ \A d \in DOMAIN file.dies :
           /\ rank[d] = 0 <=> ContainersOf(file, d) = {}
           /\ rank[d] # 0 => /\ ContainerOf(file, d) \in ContainersOf(file, d)
                             /\ ContainerOf(file, d) \in DOMAIN file.dies
                             /\ rank[ContainerOf(file, d)] < rank[d]

LEMMA TreesAreRanked ==
    ASSUME IsFile(file)
    PROVE  \E rank, n : IsRanked(rank, n)
<1> DEFINE S  == DOMAIN file.dies
           up == [d \in S |-> ContainersOf(file, d)]
<1>1. PICK depth :
          /\ IsFiniteSet(S)
          /\ \A d \in S : /\ depth[d] \in 0..Cardinality(S)
                          /\ \A p \in up[d] : depth[p] < depth[d]
  BY DEF IsFile, IsForest
<1>2. PICK n : n = Cardinality(S)
  OBVIOUS
<1>3. n \in Nat
  BY <1>1, <1>2, FS_CardinalityType
<1>4. PICK rank : rank = [d \in S |-> IF ContainersOf(file, d) = {} THEN 0 ELSE depth[d]]
  OBVIOUS
<1>5. rank \in [S -> 0..n]
  BY <1>1, <1>2, <1>3, <1>4
<1>6. ASSUME NEW d \in S, ContainersOf(file, d) # {}
      PROVE  /\ ContainerOf(file, d) \in ContainersOf(file, d)
             /\ ContainerOf(file, d) \in S /\ rank[d] # 0
             /\ rank[ContainerOf(file, d)] < rank[d]
  <2>1. PICK p : p = ContainerOf(file, d)
    OBVIOUS
  <2>2. p \in ContainersOf(file, d) /\ p \in S
    BY <1>6, <2>1 DEF ContainerOf, ContainersOf
  <2>3. depth[p] < depth[d] /\ depth[p] \in 0..n /\ depth[d] \in 0..n
    BY <1>1, <1>2, <2>2
  <2>4. rank[p] \in {0, depth[p]} /\ rank[d] = depth[d]
    BY <1>4, <1>6, <2>2
  <2> QED
    BY <1>3, <2>1, <2>2, <2>3, <2>4
<1>7. \A d \in S : ContainersOf(file, d) = {} => rank[d] = 0
  BY <1>4
<1>8. IsRanked(rank, n)
  BY <1>3, <1>5, <1>6, <1>7 DEF IsRanked
<1> QED
  BY <1>8

\* What is true of a DIE where it is true of the one it lies in is true of all.
LEMMA DownTheTree ==
    ASSUME IsFile(file), NEW T,
           \A d \in DOMAIN file.dies :
               ContainersOf(file, d) = {} \/ ContainerOf(file, d) \in T => d \in T
    PROVE  DOMAIN file.dies \subseteq T
<1>1. PICK rank, n : IsRanked(rank, n)
  BY TreesAreRanked
<1> DEFINE S == DOMAIN file.dies
           Q == {k \in 0..n : \A d \in S : rank[d] <= k => d \in T}
<1>2. /\ n \in Nat /\ rank \in [S -> 0..n]
      /\ \A d \in S : /\ rank[d] = 0 => ContainersOf(file, d) = {}
                      /\ rank[d] # 0 => /\ ContainerOf(file, d) \in S
                                        /\ rank[ContainerOf(file, d)] < rank[d]
  BY <1>1 DEF IsRanked
<1>3. 0 \in Q
  <2>1. \A d \in S : rank[d] <= 0 => rank[d] = 0
    BY <1>2
  <2> QED
    BY <1>2, <2>1
<1>4. ASSUME NEW k \in 0..(n - 1), k \in Q PROVE k + 1 \in Q
  <2>1. k + 1 \in 0..n
    BY <1>2
  <2>2. ASSUME NEW d \in S, rank[d] <= k + 1 PROVE d \in T
    <3>1. CASE rank[d] = 0
      BY <1>2, <3>1
    <3>2. CASE rank[d] # 0
      <4>1. PICK p : p = ContainerOf(file, d)
        OBVIOUS
      <4>2. p \in S /\ rank[p] < rank[d] /\ rank[p] \in 0..n /\ rank[d] \in 0..n
        BY <1>2, <3>2, <4>1
      <4>3. rank[p] <= k
        BY <1>2, <2>2, <4>2
      <4>4. p \in T
        BY <1>4, <4>2, <4>3
      <4> QED
        BY <4>1, <4>4
    <3> QED
      BY <3>1, <3>2
  <2> QED
    BY <2>1, <2>2
<1> HIDE DEF Q
<1>5. \A k \in 0..n : k \in Q
  BY <1>2, <1>3, <1>4, UpTo
<1>6. n \in Q
  BY <1>2, <1>5
<1> QED
  BY <1>2, <1>6 DEF Q

\* A table down the trees
IsTreeTable(g, S, A, base, G) ==
    /\ g \in [S -> A]
    /\ \A d \in S :
           g[d] = IF ContainersOf(file, d) = {} THEN base
                  ELSE G[<<d, g[ContainerOf(file, d)]>>]

LEMMA TreeTable ==
    ASSUME IsFile(file), NEW S, S = DOMAIN file.dies,
           NEW A, NEW base \in A, NEW G, G \in [S \X A -> A]
    PROVE  \E g : IsTreeTable(g, S, A, base, G)
<1>1. PICK rank, n : IsRanked(rank, n)
  BY TreesAreRanked
<1>2. PICK next : next = [d \in S |-> IF rank[d] = 0 THEN d ELSE ContainerOf(file, d)]
  OBVIOUS
<1>3. /\ n \in Nat /\ rank \in [S -> 0..n] /\ next \in [S -> S]
      /\ \A q \in S : rank[q] # 0 => rank[next[q]] < rank[q]
      /\ \A d \in S : rank[d] = 0 <=> ContainersOf(file, d) = {}
      /\ \A d \in S : rank[d] # 0 => next[d] = ContainerOf(file, d)
  BY <1>1, <1>2 DEF IsRanked
<1>4. PICK g : IsRankTable(g, S, rank, next, A, base, G)
  BY <1>3, RankTable
<1>5. IsTreeTable(g, S, A, base, G)
  BY <1>3, <1>4 DEF IsRankTable, IsTreeTable
<1> QED
  BY <1>5

\* What is around a DIE: what is around the one it lies in, and that one
LEMMA AroundIs ==
    ASSUME IsFile(file)
    PROVE  \A d \in DOMAIN file.dies :
               /\ IsList(Around(d)) /\ Range(Around(d)) \subseteq DOMAIN file.dies
               /\ Around(d) = IF ContainersOf(file, d) = {} THEN <<>>
                              ELSE Append(Around(ContainerOf(file, d)), ContainerOf(file, d))
<1> DEFINE Table(g) == g = [x \in DOMAIN file.dies |->
                                IF ContainersOf(file, x) = {} THEN <<>>
                                ELSE Append(g[ContainerOf(file, x)], ContainerOf(file, x))]
           up == CHOOSE g : Table(g)
<1>1. \A d : Around(d) = up[d]
  BY DEF Around
<1>2. Table(up)
  <2>1. PICK S, A : S = DOMAIN file.dies /\ A = Seq(S)
    OBVIOUS
  <2> DEFINE G == [q \in S \X A |-> IF ContainersOf(file, q[1]) = {} THEN <<>>
                                    ELSE Append(q[2], ContainerOf(file, q[1]))]
  <2>2. <<>> \in A
    BY <2>1
  <2>3. \A x \in S : ContainersOf(file, x) # {} => ContainerOf(file, x) \in S
    BY <2>1 DEF ContainersOf, ContainerOf
  <2>4. G \in [S \X A -> A]
    <3>1. ASSUME NEW x \in S, NEW a \in A, ContainersOf(file, x) # {}
          PROVE  Append(a, ContainerOf(file, x)) \in A
      BY <2>1, <2>3, <3>1
    <3> QED
      BY <2>2, <3>1
  <2>5. \A x \in S, a \in A : G[<<x, a>>] = IF ContainersOf(file, x) = {} THEN <<>>
                                           ELSE Append(a, ContainerOf(file, x))
    OBVIOUS
  <2> HIDE DEF G
  <2>6. PICK g \in [S -> A] : \A d \in S :
            g[d] = IF ContainersOf(file, d) = {} THEN <<>>
                   ELSE G[<<d, g[ContainerOf(file, d)]>>]
    <3>1. S = DOMAIN file.dies
      BY <2>1
    <3>2. PICK g : IsTreeTable(g, S, A, <<>>, G)
      BY <3>1, <2>2, <2>4, TreeTable
    <3> QED
      BY <3>2 DEF IsTreeTable
  <2>7. \A x \in S : g[x] = IF ContainersOf(file, x) = {} THEN <<>>
                            ELSE Append(g[ContainerOf(file, x)], ContainerOf(file, x))
    BY <2>3, <2>5, <2>6
  <2>8. g = [x \in S |-> g[x]]
    BY <2>6
  <2>9. Table(g)
    BY <2>1, <2>7, <2>8
  <2> HIDE DEF Table
  <2> QED
    BY <2>9
<1> HIDE DEF up
<1> DEFINE S == DOMAIN file.dies
<1>3. \A d \in S : Around(d) = IF ContainersOf(file, d) = {} THEN <<>>
                   ELSE Append(Around(ContainerOf(file, d)), ContainerOf(file, d))
  BY <1>1, <1>2
<1> DEFINE T == {d \in S : IsList(Around(d)) /\ Range(Around(d)) \subseteq S}
<1>4. ASSUME NEW d \in S, ContainersOf(file, d) = {} \/ ContainerOf(file, d) \in T
      PROVE  d \in T
  <2>1. CASE ContainersOf(file, d) = {}
    <3>1. Around(d) = <<>>
      BY <1>3, <2>1
    <3> QED
      BY <3>1, NoList
  <2>2. CASE ContainersOf(file, d) # {}
    <3>1. PICK p : p = ContainerOf(file, d)
      OBVIOUS
    <3>2. p \in T /\ Around(d) = Append(Around(p), p)
      BY <1>3, <1>4, <2>2, <3>1
    <3>3. IsList(Around(d)) /\ Range(Around(d)) = Range(Around(p)) \cup {p}
      <4>1. PICK s : s = Around(p)
        OBVIOUS
      <4>2. IsList(s) /\ Around(d) = Append(s, p)
        BY <3>2, <4>1
      <4>3. IsList(Append(s, p)) /\ Range(Append(s, p)) = Range(s) \cup {p}
        BY <4>2, Appended
      <4> QED
        BY <4>1, <4>2, <4>3
    <3> QED
      BY <3>2, <3>3
  <2> QED
    BY <2>1, <2>2
<1> HIDE DEF T
<1>5. S \subseteq T
  BY <1>4, DownTheTree
<1> QED
  BY <1>3, <1>5 DEF T

\* The names around a DIE are those around the one it lies in and, where that
\* is a scope, its own.
LEMMA ScopeIs ==
    ASSUME IsFile(file)
    PROVE  \A d \in DOMAIN file.dies :
               Scope(d) = LET p == ContainerOf(file, d)
                          IN  IF ContainersOf(file, d) = {} THEN <<>>
                              ELSE IF Die(p).tag \in ScopeTags
                              THEN Append(Scope(p), ScopeName(p)) ELSE Scope(p)
<1> DEFINE Table(g) == g = [x \in DOMAIN file.dies |->
                                LET p == ContainerOf(file, x)
                                IN  IF ContainersOf(file, x) = {} THEN <<>>
                                    ELSE IF Die(p).tag \in ScopeTags
                                    THEN Append(g[p], ScopeName(p)) ELSE g[p]]
           names == CHOOSE g : Table(g)
<1>1. \A d : Scope(d) = names[d]
  BY DEF Scope
<1>2. Table(names)
  <2>1. PICK S, A : S = DOMAIN file.dies /\ A = Seq({ScopeName(p) : p \in S})
    OBVIOUS
  <2> DEFINE G == [q \in S \X A |->
                      IF Die(ContainerOf(file, q[1])).tag \in ScopeTags /\ ContainersOf(file, q[1]) # {}
                      THEN Append(q[2], ScopeName(ContainerOf(file, q[1]))) ELSE q[2]]
  <2>2. <<>> \in A
    BY <2>1
  <2>3. \A x \in S : ContainersOf(file, x) # {} => ContainerOf(file, x) \in S
    BY <2>1 DEF ContainersOf, ContainerOf
  <2>4. G \in [S \X A -> A]
    BY <2>1, <2>2, <2>3
  <2>5. \A x \in S, a \in A :
            G[<<x, a>>] = IF Die(ContainerOf(file, x)).tag \in ScopeTags /\ ContainersOf(file, x) # {}
                          THEN Append(a, ScopeName(ContainerOf(file, x))) ELSE a
    OBVIOUS
  <2> HIDE DEF G
  <2>6. PICK g \in [S -> A] : \A d \in S :
            g[d] = IF ContainersOf(file, d) = {} THEN <<>>
                   ELSE G[<<d, g[ContainerOf(file, d)]>>]
    <3>1. S = DOMAIN file.dies
      BY <2>1
    <3>2. PICK g : IsTreeTable(g, S, A, <<>>, G)
      BY <3>1, <2>2, <2>4, TreeTable
    <3> QED
      BY <3>2 DEF IsTreeTable
  <2>7. ASSUME NEW x \in S
        PROVE  g[x] = LET p == ContainerOf(file, x)
                      IN  IF ContainersOf(file, x) = {} THEN <<>>
                          ELSE IF Die(p).tag \in ScopeTags
                          THEN Append(g[p], ScopeName(p)) ELSE g[p]
    <3>1. PICK p : p = ContainerOf(file, x)
      OBVIOUS
    <3>2. CASE ContainersOf(file, x) # {}
      <4>1. p \in S /\ g[p] \in A
        BY <2>3, <2>6, <3>1, <3>2
      <4>2. g[x] = G[<<x, g[p]>>]
        BY <2>6, <3>1, <3>2
      <4>3. G[<<x, g[p]>>] = IF Die(p).tag \in ScopeTags THEN Append(g[p], ScopeName(p)) ELSE g[p]
        BY <2>5, <3>1, <3>2, <4>1
      <4> QED
        BY <3>1, <3>2, <4>2, <4>3
    <3>3. CASE ContainersOf(file, x) = {}
      BY <2>6, <3>3
    <3> QED
      BY <3>2, <3>3
  <2>8. g = [x \in S |-> g[x]]
    BY <2>6
  <2>9. Table(g)
    BY <2>1, <2>7, <2>8, Zenon
  <2> HIDE DEF Table
  <2> QED
    BY <2>9
<1> HIDE DEF names
<1> QED
  BY <1>1, <1>2

\* The DIEs that lead to a DIE, itself included
Towards(d) == {d} \cup Range(Around(d))

\* From one that leads to it there is a way on.
LEMMA WayDown ==
    ASSUME IsFile(file)
    PROVE  \A d \in DOMAIN file.dies : \A p \in Range(Around(d)) :
               \E c \in Towards(d) :
                   /\ c \in DOMAIN file.dies /\ ContainersOf(file, c) # {}
                   /\ ContainerOf(file, c) = p
<1> DEFINE On(d, p) == \E c \in Towards(d) :
                           /\ c \in DOMAIN file.dies /\ ContainersOf(file, c) # {}
                           /\ ContainerOf(file, c) = p
           T == {d \in DOMAIN file.dies : \A p \in Range(Around(d)) : On(d, p)}
<1>1. ASSUME NEW d \in DOMAIN file.dies,
             ContainersOf(file, d) = {} \/ ContainerOf(file, d) \in T,
             NEW p \in Range(Around(d))
      PROVE  On(d, p)
  <2>1. ContainersOf(file, d) # {}
    <3>1. ASSUME ContainersOf(file, d) = {} PROVE FALSE
      <4>1. Around(d) = <<>>
        BY <3>1, AroundIs
      <4> QED
        BY <1>1, <4>1, NoList
    <3> QED
      BY <3>1
  <2>2. PICK q : q = ContainerOf(file, d)
    OBVIOUS
  <2>3. q \in T /\ q \in DOMAIN file.dies
    BY <1>1, <2>1, <2>2
  <2>4. Range(Around(d)) = Range(Around(q)) \cup {q}
    <3>1. IsList(Around(q)) /\ Around(d) = Append(Around(q), q)
      BY <2>1, <2>2, <2>3, AroundIs
    <3> QED
      BY <3>1, Appended
  <2>5. CASE p = q
    BY <2>1, <2>2, <2>5 DEF Towards
  <2>6. CASE p \in Range(Around(q))
    <3>1. Towards(q) \subseteq Towards(d)
      BY <2>4 DEF Towards
    <3>2. On(q, p)
      BY <2>3, <2>6
    <3> QED
      BY <3>1, <3>2
  <2> QED
    BY <1>1, <2>4, <2>5, <2>6
<1> HIDE DEF On
<1>2. DOMAIN file.dies \subseteq T
  <2>1. \A d \in DOMAIN file.dies :
            ContainersOf(file, d) = {} \/ ContainerOf(file, d) \in T => d \in T
    BY <1>1
  <2> HIDE DEF T
  <2> QED
    BY <2>1, DownTheTree
<1> QED
  BY <1>2 DEF On

-----------------------------------------------------------------------------
(* What the walk over a DIE begins.                                        *)

Examine(d) == [do |-> "variable", die |-> d]

\* A task of a list whose turn comes before a scope is closed
ComesFirst(t, tasks) ==
    \E n \in DOMAIN tasks : tasks[n] = t /\ \A j \in 1..n : tasks[j].do # "leave"

LEMMA FirstOnes ==
    ASSUME NEW s, IsList(s), \A t \in Range(s) : t.do # "leave", NEW last, IsList(last)
    PROVE  \A t \in Range(s) : ComesFirst(t, s \o last)
<1> SUFFICES ASSUME NEW t \in Range(s) PROVE ComesFirst(t, s \o last)
  OBVIOUS
<1>1. /\ DOMAIN s = 1..Len(s) /\ Len(s) \in Nat /\ \A i \in DOMAIN s : s[i] \in Range(s)
      /\ DOMAIN last = 1..Len(last) /\ Len(last) \in Nat
  BY ListFacts
<1>2. /\ IsList(s \o last) /\ Len(s \o last) = Len(s) + Len(last)
      /\ \A i \in DOMAIN s : (s \o last)[i] = s[i]
  BY <1>1, Concatenated
<1>3. DOMAIN (s \o last) = 1..(Len(s) + Len(last))
  BY <1>2, ListFacts
<1>4. PICK both : both = s \o last
  OBVIOUS
<1>5. PICK n \in DOMAIN s : s[n] = t
  BY DEF Range
<1>6. n \in DOMAIN both /\ both[n] = t
  BY <1>1, <1>2, <1>3, <1>4, <1>5
<1>7. \A j \in 1..n : both[j].do # "leave"
  <2> SUFFICES ASSUME NEW j \in 1..n PROVE both[j].do # "leave"
    OBVIOUS
  <2>1. j \in DOMAIN s
    BY <1>1
  <2> QED
    BY <1>1, <1>2, <1>4, <2>1
<1> QED
  BY <1>4, <1>6, <1>7 DEF ComesFirst

\* What lies in the DIE, and what it is
BeginsBelow(d, tasks) ==
    /\ Die(d).tag \in TypeTags => ComesFirst(Record(d), tasks)
    /\ Die(d).tag = "variable" => ComesFirst(Examine(d), tasks)
    /\ \A c \in Range(Die(d).children) : ComesFirst(Walk(c), tasks)

\* The scopes that are open under it
OpenUnder(d) ==
    IF Die(d).tag \in ScopeTags \ IgnoredTags
    THEN Append(scopes, [name |-> ScopeName(d), tag |-> Die(d).tag]) ELSE scopes

LEMMA WalkBegins ==
    ASSUME WalkInv, LocationsHaveDies, WalkDie
    PROVE  \E d \in DOMAIN file.dies : \E tasks :
               /\ Task = Walk(d) /\ StepOf(tasks)
               /\ Die(d).tag \notin IgnoredTags => BeginsBelow(d, tasks)
               /\ scopes' = OpenUnder(d)
               /\ UNCHANGED <<kept, recorded, variables, found>>
<1> DEFINE d        == Task.die
           tag      == Die(d).tag
           children == Die(d).children
           first    == IF tag \in TypeTags THEN <<Record(d)>>
                       ELSE IF tag \in VariableTags
                       THEN <<[do |-> "variable", die |-> d]>> ELSE <<>>
           walks    == [i \in DOMAIN children |-> Walk(children[i])]
           last     == IF tag \in ScopeTags THEN <<Leave>> ELSE <<>>
<1>1. /\ stage = "units" /\ agenda # <<>> /\ Task.do = "walk"
      /\ UNCHANGED <<file, stage, unit, kept, recorded, variables, found>>
      /\ tag \in IgnoredTags => Continue(<<>>)
      /\ tag \notin IgnoredTags => Continue(first \o walks \o last)
      /\ scopes' = OpenUnder(d)
  BY DEF WalkDie, Doing, Task, unchangedWalk, OpenUnder
<1>2. /\ d \in DOMAIN file.dies /\ children \in Seq(DOMAIN file.dies) /\ Task = Walk(d)
  BY <1>1, CurrentDie DEF IsTask, IsFile, Die
<1>3. CASE tag \in IgnoredTags
  <2>1. StepOf(<<>>)
    BY <1>1, <1>3, NoList DEF StepOf
  <2> HIDE DEF d
  <2> QED
    BY <1>1, <1>2, <1>3, <2>1
<1>4. CASE tag \notin IgnoredTags
  <2>1. /\ IsList(first) /\ \A t \in Range(first) : t.do # "leave"
        /\ tag \in TypeTags => Record(d) \in Range(first)
        /\ tag = "variable" => Examine(d) \in Range(first)
    <3>1. Record(d).do # "leave" /\ Examine(d).do # "leave"
      BY DEF Record, Examine
    <3>2. /\ tag \in TypeTags => first = <<Record(d)>>
          /\ tag = "variable" => first = <<Examine(d)>>
          /\ first \in {<<Record(d)>>, <<Examine(d)>>, <<>>}
      BY DEF Examine, TypeTags, ClassTags, VariableTags
    <3> HIDE DEF first, d, tag
    <3> QED
      BY <3>1, <3>2, OneList, NoList
  <2>2. /\ IsList(walks) /\ \A t \in Range(walks) : t.do # "leave"
        /\ \A c \in Range(children) : Walk(c) \in Range(walks)
    <3>1. IsList(children)
      BY <1>2, ListOf
    <3>2. IsList(walks)
      BY <3>1, SamePlaces
    <3>3. \A t \in Range(walks) : t.do # "leave"
      BY Shapes DEF Range
    <3>4. \A c \in Range(children) : Walk(c) \in Range(walks)
      BY DEF Range
    <3> QED
      BY <3>2, <3>3, <3>4
  <2>3. IsList(last)
    BY OneList, NoList
  <2> HIDE DEF first, walks, last
  <2>4. /\ IsList(first \o walks) /\ Range(first \o walks) = Range(first) \cup Range(walks)
    BY <2>1, <2>2, Concatenated
  <2>5. PICK s : s = first \o walks
    OBVIOUS
  <2>6. /\ IsList(s) /\ IsList(s \o last)
        /\ \A t \in Range(first) \cup Range(walks) : ComesFirst(t, s \o last)
    <3>1. \A t \in Range(s) : t.do # "leave"
      BY <2>1, <2>2, <2>4, <2>5
    <3>2. IsList(s) /\ Range(s) = Range(first) \cup Range(walks)
      BY <2>4, <2>5
    <3> QED
      BY <2>3, <3>1, <3>2, Concatenated, FirstOnes
  <2>7. PICK tasks : tasks = s \o last
    OBVIOUS
  <2>8. StepOf(tasks)
    BY <1>1, <1>4, <2>5, <2>6, <2>7 DEF StepOf
  <2>9. BeginsBelow(d, tasks)
    BY <2>1, <2>2, <2>6, <2>7 DEF BeginsBelow
  <2> HIDE DEF d
  <2> QED
    BY <1>1, <1>2, <2>8, <2>9
<1> QED
  BY <1>3, <1>4

\* It comes first behind the step as well.
LEMMA FirstOfStep ==
    ASSUME WalkInv, NEW tasks, StepOf(tasks), NEW t, ComesFirst(t, tasks)
    PROVE  ComesFirst(t, agenda') /\ t \in Tasks'
<1>1. /\ IsList(agenda) /\ agenda # <<>> /\ IsList(tasks) /\ agenda' = tasks \o Tail(agenda)
  BY TasksOfStep DEF WalkUnits, Lists, StepOf, Continue
<1>2. IsList(Tail(agenda))
  BY <1>1, FirstAndRest
<1>3. PICK rest, all : rest = Tail(agenda) /\ all = agenda'
  OBVIOUS
<1>4. /\ DOMAIN tasks = 1..Len(tasks) /\ Len(tasks) \in Nat
      /\ DOMAIN rest = 1..Len(rest) /\ Len(rest) \in Nat
  BY <1>1, <1>2, <1>3, ListFacts
<1>5. /\ IsList(tasks \o rest) /\ Len(tasks \o rest) = Len(tasks) + Len(rest)
      /\ \A i \in DOMAIN tasks : (tasks \o rest)[i] = tasks[i]
  BY <1>1, <1>2, <1>3, <1>4, Concatenated
<1>6. /\ all = tasks \o rest /\ DOMAIN all = 1..(Len(tasks) + Len(rest))
      /\ \A i \in DOMAIN tasks : all[i] = tasks[i]
  <2>1. DOMAIN (tasks \o rest) = 1..(Len(tasks) + Len(rest))
    BY <1>5, ListFacts
  <2> QED
    BY <1>1, <1>3, <1>5, <2>1
<1>7. PICK n \in DOMAIN tasks : tasks[n] = t /\ \A j \in 1..n : tasks[j].do # "leave"
  BY DEF ComesFirst
<1>8. n \in DOMAIN all /\ all[n] = t
  BY <1>4, <1>6, <1>7
<1>9. ASSUME NEW j \in 1..n PROVE all[j].do # "leave"
  <2>1. j \in DOMAIN tasks
    BY <1>4
  <2> QED
    BY <1>6, <1>7, <2>1
<1>10. ComesFirst(t, all)
  BY <1>8, <1>9 DEF ComesFirst
<1>11. t \in Range(all)
  BY <1>8 DEF Range
<1> QED
  BY <1>3, <1>10, <1>11 DEF Tasks

-----------------------------------------------------------------------------
(* The types are recorded.                                                 *)

\* A DIE of a unit that the walk does not leave out
Seen(d, i) ==
    /\ Under(d, file.units[i].root)
    /\ \A p \in Range(Around(d)) : Die(p).tag \notin IgnoredTags

\* The walk comes to the type.
TypeComes(d) == Record(d) \in Tasks \/ \E p \in Towards(d) : Walk(p) \in Tasks

TypesMet ==
    stage = "units" =>
        \A d \in DOMAIN file.dies, i \in kept :
            Die(d).tag \in TypeTags /\ Seen(d, i) => DieId(d) \in recorded \/ TypeComes(d)

LEMMA SameTrees ==
    ASSUME file' = file
    PROVE  /\ \A d : Around(d)' = Around(d) /\ Towards(d)' = Towards(d)
           /\ \A d : Scope(d)' = Scope(d)
           /\ \A d, i : Seen(d, i)' <=> Seen(d, i)
<1>1. \A d : Around(d)' = Around(d)
  BY DEF Around, ContainersOf, ContainerOf
<1>2. \A d : Towards(d)' = Towards(d)
  BY <1>1 DEF Towards
<1>3. \A d : Scope(d)' = Scope(d)
  BY DEF Scope, ContainersOf, ContainerOf, ScopeName, NameOr, Die
<1>4. \A d, i : Seen(d, i)' <=> Seen(d, i)
  BY <1>1 DEF Seen, Under, Die
<1> QED
  BY <1>1, <1>2, <1>3, <1>4

\* The ways the walk goes
LEMMA WayOn ==
    ASSUME IsFile(file), NEW d \in DOMAIN file.dies, NEW p \in Towards(d), p # d
    PROVE  /\ p \in Range(Around(d))
           /\ \E c \in Towards(d) : /\ c \in DOMAIN file.dies /\ ContainersOf(file, c) # {}
                                    /\ ContainerOf(file, c) = p
                                    /\ c \in Range(Die(p).children)
<1>1. p \in Range(Around(d))
  BY DEF Towards
<1>2. PICK c \in Towards(d) : /\ c \in DOMAIN file.dies /\ ContainersOf(file, c) # {}
                              /\ ContainerOf(file, c) = p
  BY <1>1, WayDown
<1>3. c \in Range(Die(p).children)
  BY <1>2 DEF ContainersOf, ContainerOf, Die
<1> QED
  BY <1>1, <1>2, <1>3

\* What comes still comes, if it is not the current task.
LEMMA TypeStaysDue ==
    ASSUME WalkInv, NEW tasks, StepOf(tasks), NEW d, TypeComes(d),
           Task # Record(d), \A p \in Towards(d) : Task # Walk(p)
    PROVE  TypeComes(d)'
<1>1. /\ Tasks' = Range(tasks) \cup Range(Tail(agenda))
      /\ Tasks = {Task} \cup Range(Tail(agenda))
  BY TasksOfStep
<1>2. file' = file
  BY DEF StepOf
<1>3. Record(d)' = Record(d) /\ (\A p : Walk(p)' = Walk(p)) /\ Towards(d)' = Towards(d)
  BY <1>2, SameTrees DEF Record, Walk
<1> QED
  BY <1>1, <1>3 DEF TypeComes

\* Which tasks are which
LEMMA TasksOfDies ==
    /\ \A d, e : /\ Walk(d) = Walk(e) => d = e
                 /\ Examine(d) = Examine(e) => d = e
                 /\ Walk(d) # Record(e) /\ Walk(d) # Examine(e) /\ Record(d) # Examine(e)
    /\ \A t : /\ t.do # "walk" => \A d : t # Walk(d)
              /\ t.do # "type" => \A d : t # Record(d)
              /\ t.do # "variable" => \A d : t # Examine(d)
<1>1. \A d, e : /\ Walk(d) = Walk(e) => d = e
                /\ Examine(d) = Examine(e) => d = e
                /\ Walk(d) # Record(e) /\ Walk(d) # Examine(e) /\ Record(d) # Examine(e)
  BY DEF Walk, Record, Examine
<1>2. \A t : t.do # "variable" => \A d : t # Examine(d)
  BY DEF Examine
<1>3. \A t : /\ t.do # "walk" => \A d : t # Walk(d)
             /\ t.do # "type" => \A d : t # Record(d)
  BY OtherTasks, Zenon
<1> QED
  BY <1>1, <1>2, <1>3

\* A step of the walk ends the current task.
LEMMA VariablesGoOn ==
    ASSUME WalkInv, LocationsHaveDies,
           BeginVariable \/ LocateVariable \/ InheritName \/ InheritLocation
    PROVE  /\ \E tasks : StepOf(tasks)
           /\ UNCHANGED <<kept, scopes, recorded, variables, found>>
<1>1. /\ stage = "units" /\ agenda # <<>> /\ UNCHANGED <<file, stage, unit>>
      /\ UNCHANGED <<kept, scopes, recorded, variables, found>>
  BY DEF BeginVariable, LocateVariable, InheritName, InheritLocation, Doing, Task,
         unchangedWalk
<1>2. \E reference, t : \/ Continue(<<>>) \/ Continue(<<t>>)
                        \/ Continue(Refer(reference) \o <<t>>)
  <2>1. CASE BeginVariable
    BY <2>1 DEF BeginVariable
  <2>2. CASE LocateVariable
    <3>1. \E v : Continue(<<Inherit(v, References(Task.die))>>)
      BY <2>2 DEF LocateVariable
    <3> QED
      BY <3>1
  <2>3. CASE InheritLocation
    <3>1. \E v : Continue(<<Inherit(v, Task.references)>>)
      BY <2>3 DEF InheritLocation
    <3> QED
      BY <3>1
  <2>4. CASE InheritName
    <3> DEFINE r == Head(Task.references)
               rest == Tail(Task.references)
               Relocate(v) == [do |-> "relocate", variable |-> v, die |-> r,
                               references |-> rest]
    <3>1. \E v : Continue(<<Relocate(v)>>) \/ Continue(Refer(Die(r).type) \o <<Relocate(v)>>)
      BY <2>4 DEF InheritName
    <3> HIDE DEF Relocate
    <3> QED
      BY <3>1
  <2> QED
    BY <2>1, <2>2, <2>3, <2>4
<1>3. PICK reference, t : \/ Continue(<<>>) \/ Continue(<<t>>)
                          \/ Continue(Refer(reference) \o <<t>>)
  BY <1>2
<1>4. IsList(Refer(reference) \o <<t>>)
  BY <1>1, ReferredAside, OneList, Concatenated DEF AllAside
<1>5. StepOf(<<>>) \/ StepOf(<<t>>) \/ StepOf(Refer(reference) \o <<t>>)
  BY <1>1, <1>3, <1>4, NoList, OneList DEF StepOf
<1> QED
  BY <1>1, <1>5

\* The steps that neither open nor close a scope, nor begin a type or store a
\* variable
Quiet ==
    \/ EnsureType \/ TypeEnsured \/ RecordedType \/ MaterializeType \/ RecordUnitType
    \/ NextChild \/ PlaceMember \/ FollowReferences

LEMMA QuietSteps ==
    ASSUME WalkInv, LocationsHaveDies, Quiet
    PROVE  /\ \E tasks : StepOf(tasks)
           /\ UNCHANGED <<kept, scopes, variables, found>> /\ recorded \subseteq recorded'
           /\ Task.do \notin {"walk", "leave", "type", "variable"} \cup Variables
<1>1. agenda # <<>>
  BY DEF Quiet, EnsureType, TypeEnsured, RecordedType, MaterializeType, RecordUnitType,
         NextChild, PlaceMember, FollowReferences, Doing
<1>2. UNCHANGED <<kept, scopes, variables, found>>
  BY DEF Quiet, EnsureType, TypeEnsured, RecordedType, MaterializeType, RecordUnitType,
         NextChild, PlaceMember, FollowReferences, unchangedWalk
<1>3. recorded \subseteq recorded'
  BY DEF Quiet, EnsureType, TypeEnsured, RecordedType, MaterializeType, RecordUnitType,
         NextChild, PlaceMember, FollowReferences
<1>4. Task.do \notin {"walk", "leave", "type", "variable"} \cup Variables
  BY DEF Quiet, EnsureType, TypeEnsured, RecordedType, MaterializeType, RecordUnitType,
         NextChild, PlaceMember, FollowReferences, Doing, Task, Variables
<1>5. OnlyAside
  BY WalkingAside DEF Quiet, WalksOn
<1> QED
  BY <1>1, <1>2, <1>3, <1>4, <1>5 DEF OnlyAside

LEMMA LeaveAndStore ==
    ASSUME WalkInv, LocationsHaveDies, LeaveScope \/ StoreVariable
    PROVE  /\ StepOf(<<>>) /\ UNCHANGED <<kept, recorded, found>>
           /\ LeaveScope => Task.do = "leave" /\ scopes' = Front(scopes)
                                              /\ UNCHANGED variables
           /\ StoreVariable => Task.do = "inherit" /\ UNCHANGED scopes
<1>1. /\ stage = "units" /\ agenda # <<>> /\ UNCHANGED <<file, stage, unit>> /\ Continue(<<>>)
      /\ UNCHANGED <<kept, recorded, found>>
  BY DEF LeaveScope, StoreVariable, Doing, unchangedWalk
<1>2. LeaveScope => Task.do = "leave" /\ scopes' = Front(scopes) /\ UNCHANGED variables
  BY DEF LeaveScope, Doing, Task
<1>3. StoreVariable => Task.do = "inherit" /\ UNCHANGED scopes
  BY DEF StoreVariable, Doing, Task
<1> QED
  BY <1>1, <1>2, <1>3, NoList DEF StepOf

LEMMA RecordTypeGoesOn ==
    ASSUME WalkInv, LocationsHaveDies, RecordType
    PROVE  /\ \E tasks : StepOf(tasks)
           /\ UNCHANGED <<kept, scopes, variables, found>>
           /\ Task.do = "type" /\ recorded' = recorded \cup {DieId(Task.die)}
<1>1. /\ agenda # <<>> /\ Task.do = "type"
      /\ UNCHANGED <<kept, scopes, variables, found>>
      /\ recorded' = recorded \cup {DieId(Task.die)}
  BY DEF RecordType, Doing, Task, unchangedWalk
<1>2. OnlyAside
  BY WalkingAside DEF WalksOn
<1> QED
  BY <1>1, <1>2 DEF OnlyAside

\* The steps, one by one
LEMMA TypesStayMet ==
    ASSUME WalkInv, TypesMet, NEW tasks, StepOf(tasks), UNCHANGED kept,
           recorded \subseteq recorded',
           \A d \in DOMAIN file.dies :
               Task = Record(d) => DieId(d) \in recorded' \/ TypeComes(d)',
           \A d \in DOMAIN file.dies, i \in kept : \A p \in Towards(d) :
               Die(d).tag \in TypeTags /\ Seen(d, i) /\ Task = Walk(p) =>
                   DieId(d) \in recorded' \/ TypeComes(d)'
    PROVE  TypesMet'
<1> SUFFICES ASSUME NEW d \in DOMAIN file.dies, NEW i \in kept,
                    Die(d).tag \in TypeTags, Seen(d, i)
             PROVE  DieId(d) \in recorded' \/ TypeComes(d)'
  <2>1. file' = file
    BY DEF StepOf
  <2>2. (\A d : Die(d)' = Die(d) /\ DieId(d)' = DieId(d)) /\ \A d, i : Seen(d, i)' <=> Seen(d, i)
    BY <2>1, SameTrees DEF Die, DieId
  <2> QED
    BY <2>1, <2>2 DEF TypesMet
<1>1. DieId(d) \in recorded \/ TypeComes(d)
  BY DEF TypesMet, StepOf
<1>2. CASE TypeComes(d) /\ Task # Record(d) /\ \A p \in Towards(d) : Task # Walk(p)
  BY <1>2, TypeStaysDue
<1> QED
  BY <1>1, <1>2

LEMMA WalkMeetsTypes ==
    ASSUME WalkInv, LocationsHaveDies, TypesMet, WalkDie
    PROVE  TypesMet'
<1>1. PICK p, tasks :
          /\ p \in DOMAIN file.dies
          /\ Task = Walk(p) /\ StepOf(tasks)
          /\ Die(p).tag \notin IgnoredTags => BeginsBelow(p, tasks)
          /\ UNCHANGED <<kept, recorded>>
  BY WalkBegins
<1>2. IsFile(file) /\ file' = file
  BY <1>1 DEF WalkInv, StepOf
<1>3. ASSUME NEW d \in DOMAIN file.dies, NEW i \in kept, NEW q \in Towards(d),
             Die(d).tag \in TypeTags, Seen(d, i), Task = Walk(q)
      PROVE  TypeComes(d)'
  <2>1. q = p
    BY <1>1, <1>3, TasksOfDies
  <2>2. CASE p = d
    <3>1. Die(p).tag \notin IgnoredTags
      BY <1>3, <2>2 DEF TypeTags, ClassTags, IgnoredTags
    <3>2. Record(d) \in Tasks'
      BY <1>1, <1>3, <2>2, <3>1, FirstOfStep DEF BeginsBelow
    <3> QED
      BY <3>2 DEF TypeComes, Record
  <2>3. CASE p # d
    <3>1. PICK c \in Towards(d) : c \in Range(Die(p).children)
      BY <1>2, <2>1, <2>3, WayOn
    <3>2. Die(p).tag \notin IgnoredTags
      BY <1>2, <1>3, <2>1, <2>3, WayOn DEF Seen
    <3>3. Walk(c) \in Tasks'
      BY <1>1, <3>1, <3>2, FirstOfStep DEF BeginsBelow
    <3>4. c \in Towards(d)' /\ Walk(c)' = Walk(c)
      BY <1>2, SameTrees DEF Walk
    <3> QED
      BY <3>3, <3>4 DEF TypeComes
  <2> QED
    BY <2>2, <2>3
<1>4. \A d : Task # Record(d)
  BY <1>1, TasksOfDies
<1> QED
  BY <1>1, <1>3, <1>4, TypesStayMet

LEMMA OthersMeetTypes ==
    ASSUME WalkInv, LocationsHaveDies, TypesMet,
           \/ Quiet \/ LeaveScope \/ StoreVariable
           \/ BeginVariable \/ LocateVariable \/ InheritName \/ InheritLocation
    PROVE  TypesMet'
<1>1. Task.do \notin {"walk", "type"}
  <2>1. BeginVariable \/ LocateVariable \/ InheritName \/ InheritLocation =>
            Task.do \in {"variable", "locate", "inherit", "relocate"}
    BY DEF BeginVariable, LocateVariable, InheritName, InheritLocation, Doing, Task
  <2> QED
    BY <2>1, QuietSteps, LeaveAndStore
<1>2. \A d : Task # Record(d) /\ Task # Walk(d)
  BY <1>1, TasksOfDies
<1>3. PICK tasks : StepOf(tasks) /\ UNCHANGED kept /\ recorded \subseteq recorded'
  BY QuietSteps, LeaveAndStore, VariablesGoOn
<1> QED
  BY <1>2, <1>3, TypesStayMet

LEMMA RecordMeetsTypes ==
    ASSUME WalkInv, LocationsHaveDies, TypesMet, RecordType
    PROVE  TypesMet'
<1>1. PICK tasks : StepOf(tasks)
  BY RecordTypeGoesOn
<1>2. Task.do = "type" /\ UNCHANGED kept /\ recorded' = recorded \cup {DieId(Task.die)}
  BY RecordTypeGoesOn
<1>3. \A d : Task # Walk(d)
  BY <1>2, Shapes
<1>4. \A d : Task = Record(d) => DieId(d) \in recorded'
  <2>1. \A d : Record(d).die = d
    BY Shapes
  <2> QED
    BY <1>2, <2>1
<1> QED
  BY <1>1, <1>2, <1>3, <1>4, TypesStayMet

LEMMA UnitMeetsTypes ==
    ASSUME WalkInv, TypesMet, NextUnit
    PROVE  TypesMet'
<1>1. /\ stage = "units" /\ agenda = <<>> /\ file' = file /\ recorded' = recorded
      /\ \/ kept' = kept
         \/ /\ kept' = kept \cup {unit + 1}
            /\ agenda' = <<Walk(file.units[unit + 1].root)>>
  BY DEF NextUnit
<1>2. Tasks = {}
  BY <1>1, NoList DEF Tasks
<1> SUFFICES ASSUME NEW d \in DOMAIN file.dies, NEW i \in kept',
                    Die(d).tag \in TypeTags, Seen(d, i)
             PROVE  DieId(d) \in recorded' \/ TypeComes(d)'
  <2>1. (\A d : Die(d)' = Die(d) /\ DieId(d)' = DieId(d)) /\ \A d, i : Seen(d, i)' <=> Seen(d, i)
    BY <1>1, SameTrees DEF Die, DieId
  <2> QED
    BY <1>1, <2>1 DEF TypesMet
<1>3. CASE i \in kept
  <2>1. ~TypeComes(d)
    BY <1>2 DEF TypeComes
  <2> QED
    BY <1>1, <1>3, <2>1 DEF TypesMet
<1>4. CASE i \notin kept
  <2>1. i = unit + 1 /\ agenda' = <<Walk(file.units[i].root)>>
    BY <1>1, <1>4
  <2>2. PICK root : root = file.units[i].root
    OBVIOUS
  <2>3. Tasks' = {Walk(root)}
    BY <2>1, <2>2, OneList DEF Tasks
  <2>4. root \in Towards(d)
    BY <2>2 DEF Seen, Under, Towards
  <2>5. root \in Towards(d)' /\ Walk(root)' = Walk(root)
    BY <1>1, <2>4, SameTrees DEF Walk
  <2> QED
    BY <2>3, <2>5 DEF TypeComes
<1> QED
  BY <1>3, <1>4

LEMMA TypesMetSteps ==
    ASSUME WalkInv, LocationsHaveDies, TypesMet, [ReaderNext]_<<readerVars, expressionVars>>
    PROVE  TypesMet'
<1>1. CASE UNCHANGED readerVars
  <2>1. /\ UNCHANGED <<file, stage, kept, agenda, recorded>>
    BY <1>1 DEF readerVars
  <2>2. \A d : TypeComes(d)' <=> TypeComes(d)
    BY <2>1, SameTrees DEF TypeComes, Tasks, Record, Walk
  <2> QED
    BY <2>1, <2>2, SameTrees DEF TypesMet, Die, DieId
<1>2. CASE EndWalk \/ ApplySymbols \/ Deduplicate \/ PruneLocals \/ PrunePlaceholders
  <2>1. stage' # "units"
    BY <1>2 DEF EndWalk, ApplySymbols, Deduplicate, PruneLocals, PrunePlaceholders, Pass
  <2> QED
    BY <2>1 DEF TypesMet
<1> QED
  BY <1>1, <1>2, WalkMeetsTypes, OthersMeetTypes, RecordMeetsTypes, UnitMeetsTypes
  DEF ReaderNext, Quiet, StartExpression, StepExpression

\* No type of the units that are walked is missed: between two units every
\* DIE of a type is recorded, whether walk_die_tree came to it or record_type
\* met it first, from a member, a pointer or a variable elsewhere.
THEOREM TypesAlwaysRecorded == ReaderSpec => []TypesAreRecorded
<1>1. ReaderInit => TypesMet
  BY DEF ReaderInit, TypesMet
<1>2. ReadingInv /\ TypesMet /\ [ReaderNext]_<<readerVars, expressionVars>> => TypesMet'
  BY TypesMetSteps DEF ReadingInv
<1>3. TypesMet => TypesAreRecorded
  <2> SUFFICES ASSUME TypesMet, stage = "units", agenda = <<>>,
                      NEW d \in Looked(TypeTags)
               PROVE  DieId(d) \in recorded
    BY DEF TypesAreRecorded
  <2>1. PICK i \in kept : /\ d \in DOMAIN file.dies /\ Die(d).tag \in TypeTags
                          /\ Seen(d, i)
    BY DEF Looked, Seen
  <2>2. Tasks = {}
    BY NoList DEF Tasks
  <2> QED
    BY <2>1, <2>2 DEF TypesMet, TypeComes
<1> QED
  BY <1>1, <1>2, <1>3, ReaderReadingInv, PTL DEF ReaderSpec

-----------------------------------------------------------------------------
(* The variables are listed.                                               *)

\* A variable that says itself where it is
SaysWhere(d) ==
    /\ Die(d).tag = "variable" /\ Die(d).location.form = "expression"
    /\ OwnAddress(d) # Absent
    /\ References(d) = <<>> /\ ~Die(d).declaration /\ Die(d).name # ""

\* It has the name and the scope of its DIE, in this unit
Named(v, d, i) ==
    /\ v.die = d /\ v.name = Die(d).name
    /\ v.unit = file.units[i].name /\ v.scope = Scope(d)

\* What its own location says is known of it
HasOwn(v, d) ==
    /\ v.address = OwnAddress(d) /\ v.availability = "StaticAddressKnown"
    /\ (v.constant <=> Die(d).constant) /\ ~v.tls /\ v.storage

Locate(d, v) == [do |-> "locate", die |-> d, variable |-> v]

\* A task that will store it, if these names are open then
Carries(t, names, d) ==
    \/ \E p \in Towards(d) : t = Walk(p) /\ names = Scope(p)
    \/ t = Examine(d) /\ names = Scope(d)
    \/ t = Locate(d, t.variable) /\ Named(t.variable, d, unit) /\ ~t.variable.constant
    \/ t = Inherit(t.variable, <<>>) /\ Named(t.variable, d, unit) /\ HasOwn(t.variable, d)

\* One of the tasks that are left will store it, under its scope
VariableComes(d) ==
    \E m \in DOMAIN agenda : Carries(agenda[m], NamesIn(agenda, scopes, m), d)

\* The walk has stored it
IsListed(d, i) ==
    \E v \in Range(OfTheWalk) : Named(v, d, i) /\ HasOwn(v, d) /\ v.kind \in StaticKinds

\* Every such variable that the walk has come to is stored or still to come
VariablesMet ==
    \A d \in DOMAIN file.dies, i \in kept :
        SaysWhere(d) /\ Seen(d, i) =>
            IsListed(d, i) \/ (stage = "units" /\ i = unit /\ VariableComes(d))

LEMMA SameVariables ==
    ASSUME file' = file
    PROVE  /\ \A d : SaysWhere(d)' <=> SaysWhere(d)
           /\ \A v, d, i : Named(v, d, i)' <=> Named(v, d, i)
           /\ \A v, d : HasOwn(v, d)' <=> HasOwn(v, d)
           /\ unit' = unit =>
                  \A t, names, d : Carries(t, names, d)' <=> Carries(t, names, d)
<1>1. \A d : OwnAddress(d)' = OwnAddress(d)
  BY DEF OwnAddress, Die
<1>2. \A d : Die(d)' = Die(d)
  BY DEF Die
<1>3. \A d : SaysWhere(d)' <=> SaysWhere(d)
  BY <1>1, <1>2 DEF SaysWhere, References
<1>4. \A v, d, i : Named(v, d, i)' <=> Named(v, d, i)
  BY <1>2, SameTrees DEF Named
<1>5. \A v, d : HasOwn(v, d)' <=> HasOwn(v, d)
  BY <1>1, <1>2 DEF HasOwn
<1>6. ASSUME unit' = unit
      PROVE  \A t, names, d : Carries(t, names, d)' <=> Carries(t, names, d)
  <2>1. \A v, d : Named(v, d, unit)' <=> Named(v, d, unit)
    BY <1>2, <1>6, SameTrees DEF Named
  <2>2. \A d, v : Locate(d, v)' = Locate(d, v)
    BY DEF Locate
  <2> QED
    BY <1>5, <2>1, SameTrees DEF Carries, Walk, Examine, Locate, Inherit
<1> QED
  BY <1>3, <1>4, <1>5, <1>6

\* The names that are open for the current task, and for what comes first
LEMMA NamesNow ==
    ASSUME WalkInv, stage = "units", agenda # <<>>, Task.do # "leave"
    PROVE  NamesIn(agenda, scopes, 1) = NamesOf(scopes)
<1>1. IsList(agenda) /\ IsList(scopes) /\ Cardinality(Leaves(agenda)) = Len(scopes)
  BY DEF WalkInv, WalkUnits, Lists, ScopesClose
<1>2. agenda[1] = Task /\ 1 \in 0..Len(agenda)
  BY <1>1, FirstAndRest, ListFacts DEF Task
<1>3. \A j \in 1..1 : agenda[j].do # "leave"
  BY <1>2
<1>4. PICK all, open : all = agenda /\ open = scopes
  OBVIOUS
<1> QED
  BY <1>1, <1>2, <1>3, <1>4, AllOpen

LEMMA NamesFirst ==
    ASSUME WalkInv', stage' = "units", NEW t, ComesFirst(t, agenda')
    PROVE  \E n \in DOMAIN agenda' :
               agenda'[n] = t /\ NamesIn(agenda', scopes', n) = NamesOf(scopes')
<1>1. PICK all, open : all = agenda' /\ open = scopes'
  OBVIOUS
<1>2. IsList(all) /\ IsList(open) /\ Cardinality(Leaves(all)) = Len(open)
  BY <1>1 DEF WalkInv, WalkUnits, Lists, ScopesClose, IsList, Leaves
<1>3. PICK n \in DOMAIN all : all[n] = t /\ \A j \in 1..n : all[j].do # "leave"
  BY <1>1 DEF ComesFirst
<1>4. n \in 0..Len(all)
  BY <1>2, ListFacts
<1>5. NamesIn(all, open, n) = NamesOf(open)
  BY <1>2, <1>3, <1>4, AllOpen
<1> QED
  BY <1>1, <1>3, <1>5

LEMMA NamesOfMore ==
    ASSUME NEW open, IsList(open), NEW e
    PROVE  NamesOf(Append(open, e)) = Append(NamesOf(open), e.name)
<1>1. DOMAIN open = 1..Len(open) /\ Len(open) \in Nat
  BY ListFacts
<1>2. PICK names, n : names = NamesOf(open) /\ n = Len(open)
  OBVIOUS
<1>3. /\ IsList(names) /\ DOMAIN names = 1..n /\ \A i \in 1..n : names[i] = open[i].name
  <2>1. /\ DOMAIN names = DOMAIN open /\ names = [i \in DOMAIN open |-> names[i]]
        /\ \A i \in DOMAIN open : names[i] = open[i].name
    BY <1>2 DEF NamesOf
  <2>2. IsList(names)
    BY <2>1, SamePlaces
  <2> QED
    BY <1>1, <1>2, <2>1, <2>2
<1>4. Len(names) = n
  <2>1. DOMAIN names = 1..Len(names) /\ Len(names) \in Nat
    BY <1>3, ListFacts
  <2> QED
    BY <1>1, <1>2, <1>3, <2>1
<1>5. PICK more, wider : more = Append(names, e.name) /\ wider = Append(open, e)
  OBVIOUS
<1>6. /\ IsList(more) /\ Len(more) = n + 1 /\ more[n + 1] = e.name
      /\ \A i \in 1..n : more[i] = names[i]
  <2>1. PICK x : x = e.name
    OBVIOUS
  <2>2. /\ IsList(Append(names, x)) /\ Len(Append(names, x)) = Len(names) + 1
        /\ Append(names, x)[Len(names) + 1] = x
        /\ \A i \in DOMAIN names : Append(names, x)[i] = names[i]
    <3>1. IsAppended(Append(names, x), names, x)
      BY <1>3, AppendIs
    <3> QED BY <3>1 DEF IsAppended
  <2> QED
    BY <1>3, <1>4, <1>5, <2>1, <2>2
<1>7. /\ IsList(wider) /\ Len(wider) = n + 1 /\ wider[n + 1] = e
      /\ \A i \in 1..n : wider[i] = open[i]
  <2>1. /\ IsList(Append(open, e)) /\ Len(Append(open, e)) = Len(open) + 1
        /\ Append(open, e)[Len(open) + 1] = e
        /\ \A i \in DOMAIN open : Append(open, e)[i] = open[i]
    <3>1. IsAppended(Append(open, e), open, e)
      BY AppendIs
    <3> QED BY <3>1 DEF IsAppended
  <2> QED
    BY <1>1, <1>2, <1>5, <2>1
<1>8. DOMAIN more = 1..(n + 1) /\ DOMAIN wider = 1..(n + 1)
  BY <1>6, <1>7, ListFacts
<1>9. more = [i \in 1..(n + 1) |-> more[i]]
  <2>1. more \in Seq(Range(more))
    BY <1>6, ListFacts
  <2> QED
    BY <1>8, <2>1
<1>10. \A i \in 1..(n + 1) : more[i] = wider[i].name
  <2> SUFFICES ASSUME NEW i \in 1..(n + 1) PROVE more[i] = wider[i].name
    OBVIOUS
  <2>1. i \in 1..n \/ i = n + 1
    BY <1>1, <1>2
  <2> QED
    BY <1>3, <1>6, <1>7, <2>1
<1>11. NamesOf(wider) = [i \in 1..(n + 1) |-> wider[i].name]
  BY <1>8 DEF NamesOf
<1>12. NamesOf(wider) = more
  BY <1>9, <1>10, <1>11
<1> QED
  BY <1>2, <1>5, <1>12

\* The scopes that stay open keep their names.
NamesStay ==
    \A i \in 1..Cardinality(Leaves(Tail(agenda))) : scopes'[i].name = scopes[i].name

\* What comes still comes, if it is not the current task.
LEMMA VariableStaysDue ==
    ASSUME WalkInv, NEW tasks, StepOf(tasks), NamesStay, NEW d, VariableComes(d),
           ~Carries(Task, NamesIn(agenda, scopes, 1), d)
    PROVE  VariableComes(d)'
<1>1. PICK m \in DOMAIN agenda : Carries(agenda[m], NamesIn(agenda, scopes, m), d)
  BY DEF VariableComes
<1>2. agenda[1] = Task
  <2>1. IsList(agenda) /\ agenda # <<>>
    BY DEF WalkInv, WalkUnits, Lists, StepOf
  <2> QED
    BY <2>1, FirstAndRest DEF Task
<1>3. m # 1
  BY <1>1, <1>2
<1>4. PICK n \in DOMAIN agenda' :
          /\ agenda'[n] = agenda[m]
          /\ NamesIn(agenda', scopes', n) = NamesIn(agenda, scopes, m)
  BY <1>3, PlacesStay DEF NamesStay
<1>5. PICK t, names : t = agenda[m] /\ names = NamesIn(agenda, scopes, m)
  OBVIOUS
<1>6. Carries(t, names, d)'
  BY <1>1, <1>5, SameVariables DEF StepOf
<1>7. Carries(agenda[n], NamesIn(agenda, scopes, n), d)'
  BY <1>4, <1>5, <1>6
<1> QED
  BY <1>7 DEF VariableComes

LEMMA VariablesStayMet ==
    ASSUME WalkInv, VariablesMet, NEW tasks, StepOf(tasks), NamesStay, UNCHANGED kept,
           Range(variables) \subseteq Range(variables'),
           \A d \in DOMAIN file.dies, i \in kept :
               /\ SaysWhere(d) /\ Seen(d, i) /\ i = unit
               /\ Carries(Task, NamesIn(agenda, scopes, 1), d)
               => IsListed(d, i)' \/ VariableComes(d)'
    PROVE  VariablesMet'
<1>1. file' = file /\ stage = "units" /\ stage' = "units" /\ unit' = unit
  BY DEF StepOf
<1> SUFFICES ASSUME NEW d \in DOMAIN file.dies, NEW i \in kept, SaysWhere(d), Seen(d, i)
             PROVE  IsListed(d, i)' \/ (i = unit /\ VariableComes(d)')
  BY <1>1, SameVariables, SameTrees DEF VariablesMet
<1>2. CASE IsListed(d, i)
  <2>1. Range(OfTheWalk) \subseteq Range(OfTheWalk')
    BY <1>1 DEF OfTheWalk
  <2>2. PICK v \in Range(OfTheWalk) : Named(v, d, i) /\ HasOwn(v, d) /\ v.kind \in StaticKinds
    BY <1>2 DEF IsListed
  <2>3. Named(v, d, i)' /\ HasOwn(v, d)'
    BY <1>1, <2>2, SameVariables
  <2>4. v \in Range(OfTheWalk')
    BY <2>1
  <2> QED
    BY <2>2, <2>3, <2>4 DEF IsListed, Range
<1>3. CASE i = unit /\ VariableComes(d)
  BY <1>3, VariableStaysDue
<1> QED
  BY <1>1, <1>2, <1>3 DEF VariablesMet

\* The scopes that are closed behind the first task
LEMMA LeavesBehind ==
    ASSUME NEW s, IsList(s), s # <<>>
    PROVE  /\ Cardinality(Leaves(s)) =
                  (IF Head(s).do = "leave" THEN 1 ELSE 0) + Cardinality(Leaves(Tail(s)))
           /\ Cardinality(Leaves(Tail(s))) \in Nat
<1>1. /\ IsList(Tail(s)) /\ s = <<Head(s)>> \o Tail(s) /\ IsList(<<Head(s)>>)
  BY FirstAndRest, OneList
<1>2. Cardinality(Leaves(<<Head(s)>> \o Tail(s))) =
          Cardinality(Leaves(<<Head(s)>>)) + Cardinality(Leaves(Tail(s)))
  BY <1>1, LeavesOfBoth
<1>3. Cardinality(Leaves(<<Head(s)>>)) = IF Head(s).do = "leave" THEN 1 ELSE 0
  BY LeavesOfOne
<1>4. Cardinality(Leaves(Tail(s))) \in Nat
  BY <1>1, LeavesFinite
<1>5. Cardinality(Leaves(s)) = Cardinality(Leaves(<<Head(s)>>)) + Cardinality(Leaves(Tail(s)))
  BY <1>1, <1>2
<1> QED
  BY <1>3, <1>4, <1>5

\* A scope keeps its name until it is closed.
LEMMA SameScopes == ASSUME UNCHANGED scopes PROVE NamesStay
BY DEF NamesStay

LEMMA WalkKeepsNames ==
    ASSUME WalkInv, stage = "units", agenda # <<>>, Task.do # "leave", NEW d,
           scopes' = OpenUnder(d)
    PROVE  NamesStay
<1>1. /\ IsList(agenda) /\ IsList(scopes) /\ Cardinality(Leaves(agenda)) = Len(scopes)
  BY DEF WalkInv, WalkUnits, Lists, ScopesClose
<1>2. Cardinality(Leaves(Tail(agenda))) = Len(scopes)
  <2>1. PICK c, n : c = Cardinality(Leaves(Tail(agenda))) /\ n = Len(scopes)
    OBVIOUS
  <2>2. c \in Nat /\ n = 0 + c
    BY <1>1, <2>1, LeavesBehind DEF Task
  <2> QED
    BY <2>1, <2>2
<1>3. PICK e : scopes' = scopes \/ scopes' = Append(scopes, e)
  BY DEF OpenUnder
<1>4. \A i \in 1..Len(scopes) : Append(scopes, e)[i] = scopes[i]
  BY <1>1, Appended, ListFacts
<1> QED
  BY <1>2, <1>3, <1>4 DEF NamesStay

LEMMA LeaveKeepsNames ==
    ASSUME WalkInv, stage = "units", agenda # <<>>, Task.do = "leave",
           scopes' = Front(scopes)
    PROVE  NamesStay
<1>1. /\ IsList(agenda) /\ IsList(scopes) /\ Cardinality(Leaves(agenda)) = Len(scopes)
  BY DEF WalkInv, WalkUnits, Lists, ScopesClose
<1>2. Cardinality(Leaves(Tail(agenda))) = Len(scopes) - 1 /\ Len(scopes) \in Nat
      /\ Cardinality(Leaves(Tail(agenda))) \in Nat
  <2>1. PICK c, n : c = Cardinality(Leaves(Tail(agenda))) /\ n = Len(scopes)
    OBVIOUS
  <2>2. c \in Nat /\ n = 1 + c
    BY <1>1, <2>1, LeavesBehind DEF Task
  <2> QED
    BY <2>1, <2>2
<1>3. PICK n, open, S : n = Len(scopes) - 1 /\ open = scopes /\ S = Range(scopes)
  OBVIOUS
<1>4. n \in Nat /\ open \in Seq(S) /\ Len(open) = n + 1
  BY <1>1, <1>2, <1>3, ListFacts
<1>5. \A i \in 1..n : SubSeq(open, 1, n)[i] = open[i]
  BY <1>4
<1>6. scopes' = SubSeq(open, 1, n)
  BY <1>3 DEF Front
<1> QED
  BY <1>2, <1>3, <1>5, <1>6 DEF NamesStay

\* What will store a variable, wherever it stands in the agenda
LEMMA ComesAnyhow ==
    ASSUME NEW t \in Tasks', NEW d, \A names : Carries(t, names, d)'
    PROVE  VariableComes(d)'
BY DEF VariableComes, Tasks, Range

LEMMA ComesWith ==
    ASSUME WalkInv', stage' = "units", NEW t, ComesFirst(t, agenda'), NEW d,
           \A names : names = NamesOf(scopes') => Carries(t, names, d)'
    PROVE  VariableComes(d)'
<1>1. PICK n \in DOMAIN agenda' :
          agenda'[n] = t /\ NamesIn(agenda', scopes', n) = NamesOf(scopes')
  BY NamesFirst
<1>2. PICK names : names = NamesOf(scopes')
  OBVIOUS
<1>3. Carries(t, names, d)'
  BY <1>2
<1>4. Carries(agenda[n], NamesIn(agenda, scopes, n), d)'
  BY <1>1, <1>2, <1>3
<1> QED
  BY <1>4 DEF VariableComes

\* The tasks that carry a variable
LEMMA TasksOfVariables ==
    ASSUME NEW t, NEW names, NEW d, Carries(t, names, d)
    PROVE  /\ t.do \in {"walk", "variable", "locate", "inherit"}
           /\ t.do = "walk" => \E p \in Towards(d) : t = Walk(p) /\ names = Scope(p)
           /\ t.do = "variable" => t = Examine(d) /\ names = Scope(d)
           /\ t.do = "locate" => /\ t = Locate(d, t.variable) /\ Named(t.variable, d, unit)
                                 /\ ~t.variable.constant
           /\ t.do = "inherit" => /\ t = Inherit(t.variable, <<>>)
                                  /\ Named(t.variable, d, unit) /\ HasOwn(t.variable, d)
<1>1. ASSUME NEW p, t = Walk(p) PROVE t.do = "walk"
  BY <1>1 DEF Walk
<1>2. t = Examine(d) => t.do = "variable"
  BY DEF Examine
<1>3. ASSUME NEW v, t = Locate(d, v) PROVE t.do = "locate"
  BY <1>3 DEF Locate
<1>4. ASSUME NEW v, t = Inherit(v, <<>>) PROVE t.do = "inherit"
  BY <1>4 DEF Inherit
<1> QED
  BY <1>1, <1>2, <1>3, <1>4 DEF Carries

LEMMA WalkMeetsVariables ==
    ASSUME WalkInv, WalkInv', LocationsHaveDies, VariablesMet, WalkDie
    PROVE  VariablesMet'
<1>1. PICK p, tasks :
          /\ p \in DOMAIN file.dies
          /\ Task = Walk(p) /\ StepOf(tasks)
          /\ Die(p).tag \notin IgnoredTags => BeginsBelow(p, tasks)
          /\ scopes' = OpenUnder(p) /\ UNCHANGED <<kept, variables>>
  BY WalkBegins
<1>2. /\ IsFile(file) /\ file' = file /\ stage = "units" /\ stage' = "units"
      /\ agenda # <<>> /\ unit' = unit /\ Task.do = "walk"
  BY <1>1, Shapes DEF WalkInv, StepOf
<1>3. NamesIn(agenda, scopes, 1) = NamesOf(scopes) /\ NamesStay
  BY <1>1, <1>2, NamesNow, WalkKeepsNames
<1>4. ASSUME NEW d \in DOMAIN file.dies, NEW i \in kept, SaysWhere(d), Seen(d, i),
             Carries(Task, NamesOf(scopes), d)
      PROVE  VariableComes(d)'
  <2>1. p \in Towards(d) /\ NamesOf(scopes) = Scope(p)
    BY <1>1, <1>2, <1>4, TasksOfVariables, TasksOfDies
  <2>2. CASE p = d
    <3>1. Die(d).tag = "variable" /\ Die(p).tag \notin IgnoredTags
      BY <1>4, <2>2 DEF SaysWhere, IgnoredTags
    <3>2. scopes' = scopes
      BY <1>1, <2>2, <3>1 DEF OpenUnder, ScopeTags, SubprogramTags
    <3>3. ComesFirst(Examine(d), agenda')
      BY <1>1, <2>2, <3>1, FirstOfStep DEF BeginsBelow
    <3>4. ASSUME NEW names, names = NamesOf(scopes')
          PROVE  Carries(Examine(d), names, d)'
      <4>1. Carries(Examine(d), names, d)
        BY <2>1, <2>2, <3>2, <3>4 DEF Carries
      <4>2. PICK t : t = Examine(d) /\ t = Examine(d)'
        BY DEF Examine
      <4>3. Carries(t, names, d)'
        BY <1>2, <4>1, <4>2, SameVariables
      <4> QED
        BY <4>2, <4>3
    <3> QED
      BY <1>2, <3>3, <3>4, ComesWith
  <2>3. CASE p # d
    <3>1. PICK c \in Towards(d) :
              /\ c \in DOMAIN file.dies /\ ContainersOf(file, c) # {}
              /\ ContainerOf(file, c) = p /\ c \in Range(Die(p).children)
      BY <1>2, <2>1, <2>3, WayOn
    <3>2. Die(p).tag \notin IgnoredTags
      BY <1>2, <1>4, <2>1, <2>3, WayOn DEF Seen
    <3>3. ComesFirst(Walk(c), agenda')
      BY <1>1, <3>1, <3>2, FirstOfStep DEF BeginsBelow
    <3>4. NamesOf(scopes') = Scope(c)
      <4>1. Scope(c) = IF Die(p).tag \in ScopeTags THEN Append(Scope(p), ScopeName(p))
                       ELSE Scope(p)
        BY <1>2, <3>1, ScopeIs
      <4>2. IsList(scopes)
        BY <1>2 DEF WalkInv, WalkUnits, Lists
      <4>3. CASE Die(p).tag \in ScopeTags
        <5>1. PICK e : e = [name |-> ScopeName(p), tag |-> Die(p).tag]
          OBVIOUS
        <5>2. scopes' = Append(scopes, e) /\ e.name = ScopeName(p)
          BY <1>1, <3>2, <4>3, <5>1 DEF OpenUnder
        <5>3. NamesOf(Append(scopes, e)) = Append(NamesOf(scopes), e.name)
          BY <4>2, NamesOfMore
        <5> QED
          BY <2>1, <4>1, <4>3, <5>2, <5>3
      <4>4. CASE Die(p).tag \notin ScopeTags
        BY <1>1, <2>1, <4>1, <4>4 DEF OpenUnder
      <4> QED
        BY <4>3, <4>4
    <3>5. ASSUME NEW names, names = NamesOf(scopes')
          PROVE  Carries(Walk(c), names, d)'
      <4>1. Carries(Walk(c), names, d)
        BY <3>1, <3>4, <3>5 DEF Carries
      <4>2. PICK t : t = Walk(c) /\ t = Walk(c)'
        BY DEF Walk
      <4>3. Carries(t, names, d)'
        BY <1>2, <4>1, <4>2, SameVariables
      <4> QED
        BY <4>2, <4>3
    <3> QED
      BY <1>2, <3>3, <3>5, ComesWith
  <2> QED
    BY <2>2, <2>3
<1> QED
  BY <1>1, <1>3, <1>4, VariablesStayMet

\* A step of a variable that says itself where it is
LEMMA BeginMeetsVariables ==
    ASSUME WalkInv, LocationsHaveDies, VariablesMet, BeginVariable
    PROVE  VariablesMet'
<1>1. PICK tasks : StepOf(tasks)
  BY VariablesGoOn
<1>2. UNCHANGED <<kept, scopes, variables>>
  BY VariablesGoOn
<1>3. /\ stage = "units" /\ agenda # <<>> /\ UNCHANGED <<file, stage, unit>>
      /\ Task.do = "variable"
  BY DEF BeginVariable, Doing, Task, unchangedWalk
<1>4. NamesIn(agenda, scopes, 1) = NamesOf(scopes) /\ NamesStay
  BY <1>2, <1>3, NamesNow, SameScopes
<1>5. ASSUME NEW d \in DOMAIN file.dies, SaysWhere(d), Carries(Task, NamesOf(scopes), d)
      PROVE  VariableComes(d)'
  <2>1. Task = Examine(d) /\ NamesOf(scopes) = Scope(d)
    BY <1>3, <1>5, TasksOfVariables
  <2>2. Task.die = d
    BY <2>1 DEF Examine
  <2>3. PICK v : /\ Continue(Refer(Die(d).type) \o <<Locate(d, v)>>)
                 /\ v.die = d /\ v.name = Die(d).name
                 /\ v.unit = file.units[unit].name /\ v.scope = NamesOf(scopes)
                 /\ ~v.constant
    <3> DEFINE v == [die       |-> d,
                     unit      |-> file.units[unit].name,
                     name      |-> NameOr(d, Nameless),
                     scope     |-> [i \in DOMAIN scopes |-> scopes[i].name],
                     type      |-> TypeId(Die(d).type),
                     linkage   |-> Die(d).linkage,
                     address   |-> Absent,
                     constant  |-> FALSE,
                     text      |-> "missing",
                     availability |-> "Unavailable",
                     tls       |-> FALSE,
                     storage   |-> FALSE,
                     member    |-> scopes # <<>> /\ Last(scopes).tag \in ClassTags,
                     kind      |-> "Local"]
    <3>1. Die(d).tag # "formal_parameter" /\ Die(d).name # ""
      BY <1>5 DEF SaysWhere
    <3>2. Continue(Refer(Die(d).type) \o <<[do |-> "locate", die |-> d, variable |-> v]>>)
      BY <2>2, <3>1 DEF BeginVariable
    <3>3. /\ v.die = d /\ v.name = NameOr(d, Nameless)
          /\ v.unit = file.units[unit].name /\ v.scope = NamesOf(scopes) /\ ~v.constant
      BY DEF NamesOf
    <3> HIDE DEF v
    <3>4. v.name = Die(d).name
      BY <3>1, <3>3 DEF NameOr
    <3>5. Locate(d, v) = [do |-> "locate", die |-> d, variable |-> v]
      BY DEF Locate
    <3> QED
      BY <3>2, <3>3, <3>4, <3>5
  <2>4. PICK t : t = Locate(d, v)
    OBVIOUS
  <2>5. t \in Tasks'
    <3>1. IsList(Refer(Die(d).type))
      BY <1>3, ReferredAside DEF AllAside
    <3>2. /\ IsList(Refer(Die(d).type) \o <<t>>) /\ t \in Range(Refer(Die(d).type) \o <<t>>)
      BY <3>1, OneList, Concatenated
    <3>3. StepOf(Refer(Die(d).type) \o <<t>>)
      BY <1>3, <2>3, <2>4, <3>2 DEF StepOf
    <3> QED
      BY <3>2, <3>3, TasksOfStep
  <2>6. ASSUME NEW names PROVE Carries(t, names, d)'
    <3>1. Named(v, d, unit)
      BY <2>1, <2>3 DEF Named
    <3>2. t.variable = v
      BY <2>4 DEF Locate
    <3>3. Carries(t, names, d)
      BY <2>3, <2>4, <3>1, <3>2 DEF Carries
    <3> QED
      BY <1>3, <3>3, SameVariables
  <2> QED
    BY <2>5, <2>6, ComesAnyhow
<1> QED
  BY <1>1, <1>2, <1>4, <1>5, VariablesStayMet

\* What is read of such a location
LEMMA SaysWhereItIs ==
    ASSUME IsFile(file), DecodingInv, NEW d, OwnAddress(d) # Absent,
           NEW location, location = Die(d).location, location.form = "expression",
           Read(location), bytes = location.bytes,
           NEW ops, ops = OperationsOf(location)
    PROVE  /\ Len(ops) = 1 /\ ops[1].atom \in {"addr"} \cup IndexedAddress
           /\ Atoms(ops) \cap ({"addr"} \cup IndexedAddress) # {}
           /\ "form_tls_address" \notin Atoms(ops)
<1>1. SaysAddress(bytes) \/ SaysIndex(bytes)
  BY OwnAddressIs
<1>2. expression = "decoded"
  BY <1>1, BrokenSaysNone DEF Read
<1>3. ops = operations
  BY <1>2 DEF OperationsOf
<1>4. Len(ops) = 1 /\ ops[1].atom \in {"addr"} \cup IndexedAddress
  BY <1>1, <1>2, <1>3, DecodedSays
<1>5. Atoms(ops) = {ops[1].atom}
  <2>1. operations \in Seq(OperationRecords)
    BY DEF DecodingInv
  <2>2. DOMAIN ops = {1}
    BY <1>3, <1>4, <2>1
  <2> QED
    BY <2>2 DEF Atoms
<1> QED
  BY <1>4, <1>5 DEF IndexedAddress

LEMMA LocateMeetsVariables ==
    ASSUME WalkInv, LocationsHaveDies, DecodingInv, SourceInv, VariablesMet, LocateVariable
    PROVE  VariablesMet'
<1>1. UNCHANGED <<kept, scopes, variables>>
  BY VariablesGoOn
<1>2. /\ stage = "units" /\ agenda # <<>> /\ UNCHANGED <<file, stage, unit>>
      /\ Task.do = "locate" /\ Read(Die(Task.die).location)
  BY DEF LocateVariable, Doing, Task, unchangedWalk
<1>3. NamesStay /\ Task \in Tasks
  <2>1. IsList(agenda)
    BY <1>2 DEF WalkInv, WalkUnits, Lists
  <2> QED
    BY <1>1, <1>2, <2>1, SameScopes, FirstAndRest DEF Tasks, Task
<1>4. ASSUME NEW d \in DOMAIN file.dies, SaysWhere(d),
             Carries(Task, NamesIn(agenda, scopes, 1), d)
      PROVE  VariableComes(d)'
  <2> DEFINE location == Die(d).location
             ops      == OperationsOf(location)
             place    == Classified(location, ops)
             located  == [Task.variable EXCEPT
                             !.address = place.address, !.text = place.text,
                             !.availability = place.availability,
                             !.tls = "form_tls_address" \in Atoms(ops)]
             valued   == IF Die(d).constant THEN WithConstant(located) ELSE located
             stored   == [valued EXCEPT !.storage =
                             \/ valued.constant
                             \/ Atoms(ops) \cap ({"addr"} \cup IndexedAddress) # {}]
             local    == IF stored.tls
                         THEN [stored EXCEPT !.availability = "RuntimeOnly",
                                             !.address = Absent,
                                             !.text = "thread_local"]
                         ELSE stored
             variable == IF Die(d).tag = "formal_parameter"
                         THEN [local EXCEPT !.availability = "RuntimeOnly",
                                            !.storage = FALSE]
                         ELSE local
  <2>1. /\ Task = Locate(d, Task.variable) /\ Named(Task.variable, d, unit)
        /\ ~Task.variable.constant
    BY <1>2, <1>4, TasksOfVariables
  <2>2. Task.die = d
    <3>1. PICK v : Task = Locate(d, v)
      BY <2>1
    <3> QED
      BY <3>1 DEF Locate
  <2>3. Continue(<<Inherit(variable, References(d))>>)
    BY <2>2 DEF LocateVariable
  <2>4. /\ IsFile(file) /\ Read(location) /\ location.form = "expression"
        /\ bytes = location.bytes /\ OwnAddress(d) # Absent /\ References(d) = <<>>
        /\ Die(d).tag = "variable"
    BY <1>2, <1>4, <2>2 DEF SaysWhere, WalkInv, Read, SourceInv, ReadingIsCurrent, IsReadFor
  <2>5. /\ Atoms(ops) \cap ({"addr"} \cup IndexedAddress) # {}
        /\ "form_tls_address" \notin Atoms(ops)
    BY <2>4, SaysWhereItIs
  <2>6. /\ place.address = OwnAddress(d) /\ place.availability = "StaticAddressKnown"
    BY <2>4, PlaceIsOwn
  <2>7. DOMAIN Task.variable = Fields
    BY <1>2, <1>3 DEF SourceInv, TasksBring, Brings
  <2> HIDE DEF place, location, ops
  <2>8. /\ DOMAIN located = Fields /\ located.address = place.address
        /\ located.availability = place.availability /\ ~located.tls /\ ~located.constant
        /\ located.die = Task.variable.die /\ located.name = Task.variable.name
        /\ located.unit = Task.variable.unit /\ located.scope = Task.variable.scope
    <3>1. PICK v, a, b, c, e : v = Task.variable /\ a = place.address /\ b = place.text
                          /\ c = place.availability /\ e = ("form_tls_address" \in Atoms(ops))
      OBVIOUS
    <3>2. located = [v EXCEPT !.address = a, !.text = b, !.availability = c, !.tls = e]
      BY <3>1
    <3> HIDE DEF located
    <3>3. DOMAIN v = Fields /\ ~v.constant /\ ~e
      BY <2>1, <2>5, <2>7, <3>1
    <3>4. /\ DOMAIN located = Fields /\ located.address = a /\ located.availability = c
          /\ located.tls = e /\ located.constant = v.constant
          /\ located.die = v.die /\ located.name = v.name
          /\ located.unit = v.unit /\ located.scope = v.scope
      BY <3>2, <3>3 DEF Fields
    <3> QED
      BY <3>1, <3>3, <3>4
  <2> HIDE DEF located
  <2>9. /\ DOMAIN valued = Fields /\ valued.address = OwnAddress(d)
        /\ valued.availability = "StaticAddressKnown" /\ ~valued.tls
        /\ (valued.constant <=> Die(d).constant) /\ Named(valued, d, unit)
    <3>1. /\ located.die = d /\ located.name = Die(d).name
          /\ located.unit = file.units[unit].name /\ located.scope = Scope(d)
      BY <2>1, <2>8 DEF Named
    <3>2. CASE Die(d).constant
      <4>1. PICK w : w = WithConstant(located)
        OBVIOUS
      <4>2. /\ DOMAIN w = Fields /\ w.address = located.address /\ w.constant
            /\ w.availability = "StaticAddressKnown" /\ w.tls = located.tls
            /\ w.die = located.die /\ w.name = located.name
            /\ w.unit = located.unit /\ w.scope = located.scope
        BY <2>8, <4>1 DEF WithConstant, Fields
      <4>3. Named(w, d, unit)
        BY <3>1, <4>2 DEF Named
      <4> QED
        BY <2>6, <2>8, <3>2, <4>1, <4>2, <4>3
    <3>3. CASE ~Die(d).constant
      <4>1. Named(located, d, unit)
        BY <3>1 DEF Named
      <4> QED
        BY <2>6, <2>8, <3>3, <4>1
    <3> QED
      BY <3>2, <3>3
  <2> HIDE DEF valued
  <2>10. HasOwn(stored, d) /\ Named(stored, d, unit)
    <3>1. PICK s : s = (\/ valued.constant
                        \/ Atoms(ops) \cap ({"addr"} \cup IndexedAddress) # {})
      OBVIOUS
    <3>2. stored = [valued EXCEPT !.storage = s] /\ s
      BY <2>5, <3>1
    <3> HIDE DEF stored
    <3>3. /\ stored.storage = s /\ stored.address = valued.address
          /\ stored.availability = valued.availability /\ stored.tls = valued.tls
          /\ stored.constant = valued.constant
          /\ stored.die = valued.die /\ stored.name = valued.name
          /\ stored.unit = valued.unit /\ stored.scope = valued.scope
      BY <2>9, <3>2 DEF Fields
    <3> QED
      BY <2>9, <3>2, <3>3 DEF HasOwn, Named
  <2> HIDE DEF stored
  <2>11. variable = stored
    BY <2>4, <2>10 DEF HasOwn
  <2>12. PICK t : t = Inherit(stored, <<>>)
    OBVIOUS
  <2>13. Continue(<<t>>)
    BY <2>3, <2>4, <2>11, <2>12
  <2>14. t \in Tasks'
    <3>1. StepOf(<<t>>) /\ t \in Range(<<t>>)
      BY <1>2, <2>13, OneList DEF StepOf
    <3> QED
      BY <3>1, TasksOfStep
  <2>15. ASSUME NEW names PROVE Carries(t, names, d)'
    <3>1. t.variable = stored
      BY <2>12 DEF Inherit
    <3>2. Carries(t, names, d)
      BY <2>10, <2>12, <3>1 DEF Carries
    <3> QED
      BY <1>2, <3>2, SameVariables
  <2> QED
    BY <2>14, <2>15, ComesAnyhow
<1>5. PICK tasks : StepOf(tasks)
  BY VariablesGoOn
<1> QED
  BY <1>1, <1>3, <1>4, <1>5, VariablesStayMet

\* What lies in static storage is of a static kind.
LEMMA StoredIsStatic ==
    ASSUME NEW v, v.storage, NEW tags, NEW external
    PROVE  KindOf(v, tags, external) \in StaticKinds
BY DEF KindOf, StaticKinds

LEMMA StoreMeetsVariables ==
    ASSUME WalkInv, LocationsHaveDies, SourceInv, IsList(variables), VariablesMet,
           StoreVariable
    PROVE  VariablesMet'
<1>1. /\ stage = "units" /\ agenda # <<>> /\ UNCHANGED <<file, stage, unit>>
      /\ Task.do = "inherit"
      /\ variables' = variables \/ \E v : variables' = Append(variables, v)
  BY DEF StoreVariable, Doing, Task, unchangedWalk
<1>2. StepOf(<<>>) /\ UNCHANGED <<kept, scopes>>
  BY LeaveAndStore
<1>3. NamesStay /\ Task \in Tasks
  <2>1. IsList(agenda)
    BY <1>1 DEF WalkInv, WalkUnits, Lists
  <2> QED
    BY <1>1, <1>2, <2>1, SameScopes, FirstAndRest DEF Tasks, Task
<1>4. Range(variables) \subseteq Range(variables')
  <2>1. CASE variables' = variables
    BY <2>1
  <2>2. ASSUME NEW v, variables' = Append(variables, v)
        PROVE  Range(variables') = Range(variables) \cup {v}
    BY <2>2, Appended
  <2> QED
    BY <1>1, <2>1, <2>2
<1>5. ASSUME NEW d \in DOMAIN file.dies, SaysWhere(d),
             Carries(Task, NamesIn(agenda, scopes, 1), d)
      PROVE  IsListed(d, unit)'
  <2> DEFINE x      == Task.variable
             here   == [i \in DOMAIN scopes |-> scopes[i].name]
             moved  == x.scope # here
             tags   == IF moved THEN <<>> ELSE [i \in DOMAIN scopes |-> scopes[i].tag]
             member == \/ x.member
                       \/ /\ moved /\ x.scope # <<>> /\ scopes # <<>>
                          /\ Last(scopes).tag \in ClassTags
             sorted == [x EXCEPT !.member = member]
             kind   == IF Die(x.die).tag = "formal_parameter" THEN "Parameter"
                       ELSE KindOf(sorted, tags, Die(x.die).external)
             v      == [sorted EXCEPT !.kind = kind]
             declared == Die(x.die).declaration /\ v.address = Absent /\ v.text = "missing"
  <2>1. /\ Task = Inherit(x, <<>>) /\ Named(x, d, unit) /\ HasOwn(x, d)
    BY <1>1, <1>5, TasksOfVariables
  <2>2. Task.references = <<>> /\ x.die = d
    <3>1. PICK w : Task = Inherit(w, <<>>)
      BY <2>1
    <3> QED
      BY <2>1, <3>1 DEF Inherit, Named
  <2>3. \/ declared \/ UnresolvedReference(v, x.die) \/ LeftOutByPolicy(v)
        \/ variables' = Append(variables, v)
    BY DEF StoreVariable
  <2>4. DOMAIN x = Fields
    BY <1>1, <1>3 DEF SourceInv, TasksBring, Brings, IsSourced
  <2>5. Die(d).tag = "variable" /\ ~Die(d).declaration /\ References(d) = <<>>
    BY <1>5 DEF SaysWhere
  <2> HIDE DEF tags, member
  <2>6. /\ DOMAIN sorted = Fields /\ sorted.storage
        /\ Named(sorted, d, unit) /\ HasOwn(sorted, d)
    <3>1. PICK y, m : y = x /\ m = member
      OBVIOUS
    <3>2. sorted = [y EXCEPT !.member = m] /\ DOMAIN y = Fields
      BY <2>4, <3>1
    <3> HIDE DEF sorted
    <3>3. /\ DOMAIN sorted = Fields /\ sorted.storage = y.storage
          /\ sorted.address = y.address
          /\ sorted.availability = y.availability /\ sorted.tls = y.tls
          /\ sorted.constant = y.constant
          /\ sorted.die = y.die /\ sorted.name = y.name
          /\ sorted.unit = y.unit /\ sorted.scope = y.scope
      BY <3>2 DEF Fields
    <3> QED
      BY <2>1, <3>1, <3>3 DEF HasOwn, Named
  <2> HIDE DEF sorted
  <2>7. kind \in StaticKinds
    BY <2>2, <2>5, <2>6, StoredIsStatic
  <2> HIDE DEF kind
  <2>8. v.kind = kind /\ Named(v, d, unit) /\ HasOwn(v, d)
    <3>1. PICK y, k : y = sorted /\ k = kind
      OBVIOUS
    <3>2. v = [y EXCEPT !.kind = k] /\ DOMAIN y = Fields
      BY <2>6, <3>1
    <3> HIDE DEF v
    <3>3. /\ v.kind = k /\ v.storage = y.storage
          /\ v.address = y.address
          /\ v.availability = y.availability /\ v.tls = y.tls
          /\ v.constant = y.constant
          /\ v.die = y.die /\ v.name = y.name
          /\ v.unit = y.unit /\ v.scope = y.scope
      BY <3>2 DEF Fields
    <3> QED
      BY <2>6, <3>1, <3>3 DEF HasOwn, Named
  <2> HIDE DEF v
  <2>9. ~UnresolvedReference(v, x.die) /\ ~LeftOutByPolicy(v)
    BY <2>2, <2>5, <2>7, <2>8 DEF UnresolvedReference, LeftOutByPolicy, HasOwn
  <2>10. variables' = Append(variables, v)
    BY <2>2, <2>3, <2>5, <2>9
  <2>11. PICK w : w = v
    OBVIOUS
  <2>12. w \in Range(OfTheWalk)'
    <3>1. variables' = Append(variables, w)
      BY <2>10, <2>11
    <3>2. Range(variables') = Range(variables) \cup {w}
      BY <3>1, Appended
    <3> QED
      BY <1>1, <3>2 DEF OfTheWalk, Range
  <2>13. Named(w, d, unit)' /\ HasOwn(w, d)' /\ w.kind \in StaticKinds
    <3>1. Named(w, d, unit) /\ HasOwn(w, d) /\ w.kind \in StaticKinds
      BY <2>7, <2>8, <2>11
    <3>2. file' = file /\ unit' = unit
      BY <1>1
    <3>3. PICK i : i = unit
      OBVIOUS
    <3>4. Named(w, d, i)' /\ HasOwn(w, d)'
      BY <3>1, <3>2, <3>3, SameVariables
    <3>5. Named(w, d, unit)'
      BY <3>2, <3>3, <3>4 DEF Named
    <3> QED
      BY <3>1, <3>4, <3>5
  <2> QED
    BY <2>12, <2>13 DEF IsListed
<1>6. ASSUME NEW d \in DOMAIN file.dies, NEW i \in kept, SaysWhere(d), i = unit,
             Carries(Task, NamesIn(agenda, scopes, 1), d)
      PROVE  IsListed(d, i)'
  <2>1. IsListed(d, unit)'
    BY <1>5, <1>6
  <2>2. i = unit'
    BY <1>1, <1>6
  <2> QED
    BY <2>1, <2>2 DEF IsListed, Named
<1> QED
  BY <1>2, <1>3, <1>4, <1>6, VariablesStayMet

\* The other steps of the walk
LEMMA OthersMeetVariables ==
    ASSUME WalkInv, LocationsHaveDies, VariablesMet,
           Quiet \/ LeaveScope \/ RecordType \/ InheritName \/ InheritLocation
    PROVE  VariablesMet'
<1>1. PICK tasks : StepOf(tasks)
  BY QuietSteps, LeaveAndStore, RecordTypeGoesOn, VariablesGoOn
<1>2. UNCHANGED <<kept, variables>>
  BY QuietSteps, LeaveAndStore, RecordTypeGoesOn, VariablesGoOn
<1>3. NamesStay
  <2>1. CASE LeaveScope
    BY <1>1, <2>1, LeaveAndStore, LeaveKeepsNames DEF StepOf
  <2>2. CASE Quiet \/ RecordType \/ InheritName \/ InheritLocation
    BY <2>2, QuietSteps, RecordTypeGoesOn, VariablesGoOn, SameScopes
  <2> QED
    BY <2>1, <2>2
<1>4. \A d, names : ~Carries(Task, names, d)
  <2>1. CASE InheritName
    <3>1. Task.do = "inherit" /\ Task.references # <<>>
      BY <2>1 DEF InheritName, Doing, Task
    <3>2. \A v : Inherit(v, <<>>).references = <<>>
      BY DEF Inherit
    <3>3. ASSUME NEW d, NEW names, Carries(Task, names, d) PROVE FALSE
      <4>1. \E v : Task = Inherit(v, <<>>)
        BY <3>1, <3>3, TasksOfVariables
      <4> QED
        BY <3>1, <3>2, <4>1
    <3> QED
      BY <3>3
  <2>2. CASE Quiet \/ LeaveScope \/ RecordType \/ InheritLocation
    <3>1. Task.do \notin {"walk", "variable", "locate", "inherit"}
      <4>1. InheritLocation => Task.do = "relocate"
        BY DEF InheritLocation, Doing, Task
      <4> QED
        BY <2>2, <4>1, QuietSteps, LeaveAndStore, RecordTypeGoesOn DEF Variables
    <3> QED
      BY <3>1, TasksOfVariables
  <2> QED
    BY <2>1, <2>2
<1> QED
  BY <1>1, <1>2, <1>3, <1>4, VariablesStayMet

\* The next unit begins with its root, under no scope.
LEMMA UnitMeetsVariables ==
    ASSUME WalkInv, WalkInv', VariablesMet, NextUnit, unit \in Nat
    PROVE  VariablesMet'
<1>1. /\ stage = "units" /\ stage' = "units" /\ agenda = <<>> /\ file' = file
      /\ unit' = unit + 1 /\ unit < Len(file.units)
      /\ scopes' = scopes /\ variables' = variables /\ found' = found
      /\ \/ kept' = kept
         \/ /\ kept' = kept \cup {unit + 1}
            /\ agenda' = <<Walk(file.units[unit + 1].root)>>
  BY DEF NextUnit
<1>2. \A d : ~VariableComes(d)
  <2>1. DOMAIN agenda = {}
    BY <1>1
  <2> QED
    BY <2>1 DEF VariableComes
<1>3. OfTheWalk' = OfTheWalk
  BY <1>1 DEF OfTheWalk
<1> SUFFICES ASSUME NEW d \in DOMAIN file.dies, NEW i \in kept',
                    SaysWhere(d), Seen(d, i)
             PROVE  IsListed(d, i)' \/ (i = unit' /\ VariableComes(d)')
  BY <1>1, SameVariables, SameTrees DEF VariablesMet
<1>4. CASE i \in kept
  <2>1. IsListed(d, i)
    BY <1>2, <1>4 DEF VariablesMet
  <2>2. PICK v \in Range(OfTheWalk) : Named(v, d, i) /\ HasOwn(v, d) /\ v.kind \in StaticKinds
    BY <2>1 DEF IsListed
  <2>3. Named(v, d, i)' /\ HasOwn(v, d)'
    BY <1>1, <2>2, SameVariables
  <2>4. v \in Range(OfTheWalk)'
    BY <1>3, <2>2 DEF Range
  <2> QED
    BY <2>2, <2>3, <2>4 DEF IsListed
<1>5. CASE i \notin kept
  <2>1. i = unit + 1 /\ agenda' = <<Walk(file.units[i].root)>>
    BY <1>1, <1>5
  <2>2. PICK root : root = file.units[i].root
    OBVIOUS
  <2>3. root \in DOMAIN file.dies /\ ContainersOf(file, root) = {}
    <3>1. IsFile(file)
      BY DEF WalkInv
    <3>2. i \in DOMAIN file.units
      <4>1. DOMAIN file.units = 1..Len(file.units) /\ Len(file.units) \in Nat
        BY <3>1, ListFacts DEF IsFile
      <4>2. PICK n : n = Len(file.units)
        OBVIOUS
      <4>3. i \in 1..n
        BY <1>1, <2>1, <4>1, <4>2
      <4> QED
        BY <4>1, <4>2, <4>3
    <3> QED
      BY <2>2, <3>1, <3>2 DEF IsFile
  <2>4. Scope(root) = <<>>
    BY <2>3, ScopeIs DEF WalkInv
  <2>5. root \in Towards(d)
    BY <2>2 DEF Seen, Under, Towards
  <2>6. NamesOf(scopes') = <<>>
    <3>1. PICK s, a : s = scopes' /\ a = agenda'
      OBVIOUS
    <3>2. IsList(s) /\ Cardinality(Leaves(a)) = Len(s)
      BY <1>1, <3>1 DEF WalkInv, WalkUnits, Lists, ScopesClose, IsList, Leaves
    <3>3. Cardinality(Leaves(a)) = 0
      <4>1. PICK t : t = Walk(root)
        OBVIOUS
      <4>2. a = <<t>> /\ t.do # "leave"
        BY <2>1, <2>2, <3>1, <4>1, Shapes
      <4> QED
        BY <4>2, LeavesOfOne
    <3>4. DOMAIN s = {}
      <4>1. DOMAIN s = 1..Len(s) /\ Len(s) = 0
        BY <3>2, <3>3, ListFacts
      <4> QED
        BY <4>1
    <3>5. NamesOf(s) = [j \in {} |-> s[j].name]
      BY <3>4 DEF NamesOf
    <3>6. NamesOf(s) = <<>>
      BY <3>5
    <3> QED
      BY <3>1, <3>6
  <2>7. ComesFirst(Walk(root), agenda')
    <3>1. PICK t : t = Walk(root)
      OBVIOUS
    <3>2. agenda' = <<t>> /\ t.do # "leave"
      BY <2>1, <2>2, <3>1, Shapes
    <3>3. 1 \in DOMAIN <<t>> /\ <<t>>[1] = t /\ \A j \in 1..1 : <<t>>[j].do # "leave"
      BY <3>2
    <3> QED
      BY <3>1, <3>2, <3>3 DEF ComesFirst
  <2>8. ASSUME NEW names, names = NamesOf(scopes')
        PROVE  Carries(Walk(root), names, d)'
    <3>1. root \in Towards(d)' /\ Scope(root)' = <<>>
      BY <1>1, <2>4, <2>5, SameTrees
    <3> QED
      BY <2>6, <2>8, <3>1 DEF Carries
  <2>9. VariableComes(d)'
    BY <1>1, <2>7, <2>8, ComesWith
  <2> QED
    BY <1>1, <2>1, <2>9
<1> QED
  BY <1>4, <1>5

\* Where the walk is over or its variables are the same
LEMMA SameMet ==
    ASSUME VariablesMet, file' = file, kept' = kept, OfTheWalk' = OfTheWalk,
           \A d \in DOMAIN file.dies, i \in kept :
               SaysWhere(d) /\ Seen(d, i) =>
                   IsListed(d, i) \/ (stage' = "units" /\ i = unit' /\ VariableComes(d)')
    PROVE  VariablesMet'
<1>1. ASSUME NEW d, NEW i, IsListed(d, i)
      PROVE  IsListed(d, i)'
  <2>1. PICK v \in Range(OfTheWalk) : Named(v, d, i) /\ HasOwn(v, d) /\ v.kind \in StaticKinds
    BY <1>1 DEF IsListed
  <2>2. Named(v, d, i)' /\ HasOwn(v, d)'
    BY <2>1, SameVariables
  <2>3. v \in Range(OfTheWalk)'
    BY <2>1 DEF Range
  <2> QED
    BY <2>1, <2>2, <2>3 DEF IsListed
<1> QED
  BY <1>1, SameVariables, SameTrees DEF VariablesMet

LEMMA VariablesMetSteps ==
    ASSUME ReadingInv, SourceInv, IsList(variables), unit \in Nat, VariablesMet,
           [ReaderNext]_<<readerVars, expressionVars>>
    PROVE  VariablesMet'
<1>1. WalkInv /\ WalkInv' /\ LocationsHaveDies /\ DecodingInv
  BY WalkSteps DEF ReadingInv
<1>2. CASE UNCHANGED readerVars
  <2>1. UNCHANGED <<file, stage, unit, kept, agenda, scopes>> /\ OfTheWalk' = OfTheWalk
    BY <1>2 DEF readerVars, OfTheWalk
  <2>2. ASSUME NEW d, VariableComes(d)
        PROVE  VariableComes(d)'
    <3>1. PICK m \in DOMAIN agenda : Carries(agenda[m], NamesIn(agenda, scopes, m), d)
      BY <2>2 DEF VariableComes
    <3>2. PICK t, names : t = agenda[m] /\ names = NamesIn(agenda, scopes, m)
      OBVIOUS
    <3>3. Carries(t, names, d)'
      BY <2>1, <3>1, <3>2, SameVariables
    <3>4. t = agenda'[m] /\ names = NamesIn(agenda', scopes', m)
      BY <2>1, <3>2
    <3>5. Carries(agenda[m], NamesIn(agenda, scopes, m), d)'
      BY <3>3, <3>4
    <3>6. m \in DOMAIN agenda'
      BY <2>1
    <3> QED
      BY <3>5, <3>6 DEF VariableComes
  <2> QED
    BY <2>1, <2>2, SameMet DEF VariablesMet
<1>3. CASE EndWalk
  <2>1. /\ stage = "units" /\ stage' # "units" /\ agenda = <<>> /\ found' = variables
        /\ UNCHANGED <<file, kept>>
    BY <1>3 DEF EndWalk
  <2>2. OfTheWalk' = OfTheWalk
    BY <2>1 DEF OfTheWalk
  <2>3. \A d : ~VariableComes(d)
    BY <2>1 DEF VariableComes
  <2> QED
    BY <2>1, <2>2, <2>3, SameMet DEF VariablesMet
<1>4. CASE ApplySymbols \/ Deduplicate \/ PruneLocals \/ PrunePlaceholders
  <2>1. /\ stage # "units" /\ stage' # "units" /\ UNCHANGED <<file, kept, found>>
    BY <1>4 DEF ApplySymbols, Deduplicate, PruneLocals, PrunePlaceholders, Pass
  <2>2. OfTheWalk' = OfTheWalk
    BY <2>1 DEF OfTheWalk
  <2> QED
    BY <2>1, <2>2, SameMet DEF VariablesMet
<1> QED
  BY <1>1, <1>2, <1>3, <1>4, WalkMeetsVariables, BeginMeetsVariables, LocateMeetsVariables,
     StoreMeetsVariables, OthersMeetVariables, UnitMeetsVariables
  DEF ReaderNext, Quiet, StartExpression, StepExpression

\* What is exact is known before the passes as it was found.
LEMMA KnownAsFound ==
    ASSUME NEW v \in Range(found), Exact(v)
    PROVE  v \in KnownBefore
<1>1. WithSymbol(v) = v
  BY DEF WithSymbol
<1>2. (IF file.elf THEN WithSymbol(v) ELSE v) = v
  BY <1>1
<1> QED
  BY <1>2 DEF KnownBefore

LEMMA MetAreKept ==
    ASSUME VariablesMet, PlaceholdersGiveWay
    PROVE  StaticsAreKept
<1> SUFFICES ASSUME stage = "done", NEW d \in Statics, NEW i \in kept,
                    Under(d, file.units[i].root)
             PROVE  \E v \in Range(found) :
                        /\ v.die = d /\ v.name = Die(d).name
                        /\ v.unit = file.units[i].name /\ v.scope = Scope(d)
                        /\ v.address = OwnAddress(d) /\ v.kind \in StaticKinds
                        /\ Die(d).constant \/ \E w \in Range(variables) :
                               Same(v, w) /\ w.availability = "StaticAddressKnown"
  BY DEF StaticsAreKept
<1>1. d \in DOMAIN file.dies /\ SaysWhere(d) /\ Seen(d, i)
  BY DEF Statics, Looked, SaysWhere, Seen
<1>2. PICK v \in Range(found) : Named(v, d, i) /\ HasOwn(v, d) /\ v.kind \in StaticKinds
  BY <1>1 DEF VariablesMet, IsListed, OfTheWalk
<1>3. ASSUME ~Die(d).constant
      PROVE  \E w \in Range(variables) :
                 Same(v, w) /\ w.availability = "StaticAddressKnown"
  <2>1. Exact(v)
    BY <1>1, <1>2, <1>3 DEF Exact, HasOwn, SaysWhere
  <2>2. v \in KnownBefore /\ v.availability = "StaticAddressKnown"
    BY <2>1, KnownAsFound DEF Exact
  <2> QED
    BY <2>2 DEF PlaceholdersGiveWay
<1> QED
  BY <1>2, <1>3 DEF Named, HasOwn

\* No variable that says itself where it is gets lost: walk_die_tree comes to
\* it under the names of its scopes, record_variable takes its address from
\* its own location and no policy leaves it out, and the passes over the list
\* keep one of its name that has a static address.
THEOREM StaticsAlwaysKept == ReaderSpec => []StaticsAreKept
<1>1. ReaderInit => VariablesMet
  BY DEF ReaderInit, VariablesMet
<1>2. /\ ReadingInv /\ PassesInv /\ SourceInv /\ UnitsInv /\ VariablesMet
      /\ [ReaderNext]_<<readerVars, expressionVars>>
      => VariablesMet'
  <2>1. PassesInv => IsList(variables)
    BY DEF PassesInv
  <2>2. UnitsInv => unit \in Nat
    BY DEF UnitsInv
  <2> QED
    BY <2>1, <2>2, VariablesMetSteps
<1>3. VariablesMet /\ PlaceholdersGiveWay => StaticsAreKept
  BY MetAreKept
<1> QED
  BY <1>1, <1>2, <1>3, ReaderReadingInv, PassesInvariant, SourceInvariant, UnitsInvariant,
     PlaceholdersAlwaysGiveWay, PTL DEF ReaderSpec

\* Neither a type nor a variable with a static address of its own is missed,
\* for every file, every policy and every set of rules for units.
THEOREM NothingIsEverMissed == ReaderSpec => []NothingIsMissed
<1>1. TypesAreRecorded /\ StaticsAreKept => NothingIsMissed
  BY DEF NothingIsMissed
<1> QED
  BY <1>1, TypesAlwaysRecorded, StaticsAlwaysKept, PTL
=============================================================================

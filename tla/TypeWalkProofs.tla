--------------------------- MODULE TypeWalkProofs ---------------------------
(***************************************************************************)
(* What the walk over the DIEs leaves behind at the end of every unit, for *)
(* every file: no scope, no type that was begun and not recorded, no id    *)
(* that is given out for a type without a node, however the types refer to *)
(* each other (TypesAreClosed).                                            *)
(*                                                                         *)
(* In the middle of a unit an id may be ahead of its node.  It is Due: the *)
(* type is recorded, or a task that will see to it is on the agenda.       *)
(***************************************************************************)
EXTENDS DwarfReader, ListProofs, FiniteSetTheorems, FunctionTheorems

Tasks == Range(agenda)
Ids   == {types[i].id : i \in DOMAIN types}

-----------------------------------------------------------------------------
(* The invariant.                                                          *)

\* A task that will record the type of a DIE, if it is one.  Ensure does not
\* count where the type is being loaded: it would do nothing.
Walked(d)   == Walk(d) \in Tasks \/ Record(d) \in Tasks
UnderWay(d) == Ensure(d) \in Tasks \/ Walked(d)

\* The type with this key in a type unit was begun, or will be.
Begun(key) == key \in signed \/ Materialize(key) \in Tasks

\* What the type with this key refers to, and the types nested in it
Referred(key)    == Range(ReferredKeys(UnitTypes[key]))
AllReferred(key) ==
    Referred(key) \cup UNION {Referred(n) : n \in Range(UnitTypes[key].nested)}

\* Its turn comes when the references of another type are followed.
Promised(key) ==
    \E other \in DOMAIN UnitTypes : Follow(other) \in Tasks /\ key \in AllReferred(other)

\* It comes with the DIE that stands for it.
Represented(key) ==
    \E d \in DOMAIN file.dies :
        StandsForUnit(d) /\ Die(d).signature = key /\ UnderWay(d)

DueKey(key) ==
    \/ key \notin DOMAIN UnitTypes
    \/ Begun(key) \/ Promised(key) \/ Represented(key)

DueDie(d) ==
    /\ d \in DOMAIN file.dies /\ ~StandsForUnit(d)
    /\ Die(d).tag \in TypeTags => DieId(d) \in recorded \/ UnderWay(d)

Due(id) ==
    \/ id = Unknown
    \/ \E d \in DOMAIN file.dies : id = DieId(d) /\ DueDie(d)
    \/ \E key : id = KeyId(key) /\ DueKey(key)

NodeDue(node) ==
    /\ node.target = NoType \/ Due(node.target)
    /\ \A i \in DOMAIN node.members : Due(node.members[i].type)
    /\ \A i \in DOMAIN node.bases : Due(node.bases[i].type)

\* The tasks in which the node of a type is on its way
Recording == {"children", "place"}
Variables == {"locate", "inherit", "relocate"}

IsTask(t) ==
    /\ t.do = "walk"       => t.die \in DOMAIN file.dies /\ t = Walk(t.die)
    /\ t.do = "ensure"     => t.die \in DOMAIN file.dies /\ t = Ensure(t.die)
    /\ t.do = "ensured"    => t.die \in DOMAIN file.dies /\ t = Ensured(t.die)
    /\ t.do = "type"       => t.die \in DOMAIN file.dies /\ t = Record(t.die)
    /\ t.do = "signature"  => t = Materialize(t.key)
    /\ t.do = "references" => t.key \in DOMAIN UnitTypes /\ t = Follow(t.key)
    /\ t.do = "unit type"  => t.key \in signed /\ t = RecordUnit(t.key)
    /\ t.do \in Recording  =>
           /\ t.rest \in Seq(DOMAIN file.dies)
           /\ t.of \in DOMAIN file.dies /\ ~StandsForUnit(t.of)
           /\ t.node = [id |-> DieId(t.of), target |-> t.node.target,
                        members |-> t.node.members, bases |-> t.node.bases]
           /\ IsList(t.node.members) /\ IsList(t.node.bases)
           /\ DieId(t.of) \in recorded
           /\ NodeDue(t.node)
    /\ t.do = "place"      => Due(TypeId(Die(t.die).type))
    /\ t.do \in Variables  => "type" \in DOMAIN t.variable /\ Due(t.variable.type)

Lists ==
    /\ IsList(agenda) /\ IsList(scopes) /\ IsList(types) /\ IsList(variables)
    /\ unit \in Nat

\* Scopes are open that tasks will close.
Leaves(tasks) == {i \in DOMAIN tasks : tasks[i].do = "leave"}
ScopesClose == Cardinality(Leaves(agenda)) = Len(scopes)

\* A type is being loaded until a task takes it off.
LoadingEnd(id) ==
    \/ \E d \in DOMAIN file.dies :
           /\ id = DieId(d) /\ Ensured(d) \in Tasks
           /\ Die(d).tag \in TypeTags => DieId(d) \in recorded \/ Walked(d)
    \/ \E key : id = KeyId(key) /\ RecordUnit(key) \in Tasks

LoadingEnds == \A id \in loading : LoadingEnd(id)

\* The id whose node a task will add
Job(t) ==
    IF t.do \in Recording THEN t.node.id
    ELSE IF t.do = "unit type" THEN KeyId(t.key) ELSE NoType

JobsAreDistinct(tasks) ==
    \A i, j \in DOMAIN tasks :
        Job(tasks[i]) # NoType /\ Job(tasks[i]) = Job(tasks[j]) => i = j

\* Every node has its own id, and no task will add one again.
IdsAreDistinct ==
    /\ \A i, j \in DOMAIN types : types[i].id = types[j].id => i = j
    /\ \A t \in Tasks : Job(t) # NoType => Job(t) \notin Ids

IsNodeId(id, i) ==
    \/ \E d \in DOMAIN file.dies : id = DieId(d) /\ ~StandsForUnit(d)
    \/ \E key \in signed : id = KeyId(key)
    \/ \E key \in signed : id = NestedId(key, i)

NodesAreRecorded ==
    \A i \in DOMAIN types :
        types[i].id \in recorded /\ IsNodeId(types[i].id, i) /\ NodeDue(types[i])

\* What is recorded has a node, will have one or stands for one.
RecordedHaveNodes ==
    \A id \in recorded :
        \/ id \in Ids
        \/ \E t \in Tasks : t.do \in Recording /\ t.node.id = id
        \/ \E d \in DOMAIN file.dies :
               id = DieId(d) /\ StandsForUnit(d) /\ Begun(Die(d).signature)

SignedHaveNodes ==
    \A key \in signed :
        /\ key \in DOMAIN UnitTypes
        /\ KeyId(key) \in Ids \/ RecordUnit(key) \in Tasks
        /\ \A other \in AllReferred(key) : DueKey(other)

NodesOfTypes ==
    /\ JobsAreDistinct(agenda) /\ IdsAreDistinct
    /\ NodesAreRecorded /\ RecordedHaveNodes /\ SignedHaveNodes

TasksAreSound == \A t \in Tasks : IsTask(t)

VariablesAreDue == \A i \in DOMAIN variables : Due(variables[i].type)

WalkUnits ==
    /\ Lists /\ ScopesClose /\ LoadingEnds /\ TasksAreSound
    /\ NodesOfTypes /\ VariablesAreDue

WalkInv == IsFile(file) /\ (stage = "units" => WalkUnits)

-----------------------------------------------------------------------------
(* Lists.                                                                  *)

LEMMA ListFacts ==
    ASSUME NEW s, IsList(s)
    PROVE  /\ s \in Seq(Range(s)) /\ Len(s) \in Nat /\ DOMAIN s = 1..Len(s)
           /\ \A i \in DOMAIN s : s[i] \in Range(s)
BY DEF IsList, Range

LEMMA ListOf ==
    ASSUME NEW S, NEW s \in Seq(S)
    PROVE  IsList(s) /\ Range(s) \subseteq S
<1>1. s \in Seq(Range(s))
  BY SeqOfRange DEF Range
<1>2. DOMAIN s = 1..Len(s) /\ \A i \in 1..Len(s) : s[i] \in S
  OBVIOUS
<1> QED BY <1>1, <1>2 DEF IsList, Range

\* What has the places of a list is a list.
LEMMA SamePlaces ==
    ASSUME NEW s, IsList(s), NEW t, t = [i \in DOMAIN s |-> t[i]]
    PROVE  IsList(t)
<1>1. Len(s) \in Nat /\ DOMAIN s = 1..Len(s)
  BY ListFacts
<1>2. t \in Seq(Range(t))
  BY <1>1 DEF Range
<1> QED BY <1>2 DEF IsList

LEMMA Concatenated ==
    ASSUME NEW s, IsList(s), NEW t, IsList(t)
    PROVE  /\ IsList(s \o t)
           /\ Range(s \o t) = Range(s) \cup Range(t)
           /\ Len(s \o t) = Len(s) + Len(t)
           /\ \A i \in DOMAIN s : (s \o t)[i] = s[i]
           /\ \A i \in DOMAIN t : (s \o t)[Len(s) + i] = t[i]
<1>1. s \in Seq(Range(s) \cup Range(t)) /\ t \in Seq(Range(s) \cup Range(t))
  BY ListFacts
<1>2. s \o t \in Seq(Range(s) \cup Range(t))
  BY <1>1
<1>3. IsList(s \o t)
  BY <1>2, ListOf
<1>4. /\ Len(s \o t) = Len(s) + Len(t)
      /\ \A i \in 1..Len(s) + Len(t) :
            (s \o t)[i] = IF i <= Len(s) THEN s[i] ELSE t[i - Len(s)]
  BY <1>1, ConcatProperties
<1>5. /\ Len(s) \in Nat /\ Len(t) \in Nat /\ DOMAIN s = 1..Len(s) /\ DOMAIN t = 1..Len(t)
      /\ DOMAIN (s \o t) = 1..Len(s \o t)
  BY <1>3, ListFacts
<1>6. \A i \in DOMAIN s : i \in DOMAIN (s \o t) /\ (s \o t)[i] = s[i]
  BY <1>4, <1>5
<1>7. \A i \in DOMAIN t : Len(s) + i \in DOMAIN (s \o t) /\ (s \o t)[Len(s) + i] = t[i]
  BY <1>4, <1>5
<1>8. Range(s) \cup Range(t) \subseteq Range(s \o t)
  BY <1>6, <1>7 DEF Range
<1>9. Range(s \o t) \subseteq Range(s) \cup Range(t)
  BY <1>2, ListOf
<1> QED BY <1>3, <1>4, <1>6, <1>7, <1>8, <1>9

LEMMA OneList ==
    ASSUME NEW e
    PROVE  IsList(<<e>>) /\ Range(<<e>>) = {e} /\ Len(<<e>>) = 1 /\ <<e>>[1] = e
<1>1. <<e>> \in Seq({e})
  OBVIOUS
<1>2. IsList(<<e>>)
  BY <1>1, ListOf
<1>3. DOMAIN <<e>> = {1} /\ <<e>>[1] = e
  OBVIOUS
<1> QED BY <1>2, <1>3 DEF Range

LEMMA NoList == IsList(<<>>) /\ Range(<<>>) = {} /\ Len(<<>>) = 0
<1>1. <<>> \in Seq({})
  OBVIOUS
<1>2. DOMAIN <<>> = {}
  OBVIOUS
<1> QED BY <1>1, <1>2, ListOf DEF Range

LEMMA Appended ==
    ASSUME NEW s, IsList(s), NEW e
    PROVE  /\ IsList(Append(s, e)) /\ Append(s, e) = s \o <<e>>
           /\ Range(Append(s, e)) = Range(s) \cup {e}
           /\ Len(Append(s, e)) = Len(s) + 1
           /\ DOMAIN Append(s, e) = DOMAIN s \cup {Len(s) + 1}
           /\ \A i \in DOMAIN s : Append(s, e)[i] = s[i]
           /\ Append(s, e)[Len(s) + 1] = e
<1>1. s \in Seq(Range(s) \cup {e}) /\ Len(s) \in Nat /\ DOMAIN s = 1..Len(s)
  BY ListFacts
<1>2. Append(s, e) = s \o <<e>>
  BY <1>1
<1>3. /\ Len(Append(s, e)) = Len(s) + 1
      /\ \A i \in 1..Len(s) : Append(s, e)[i] = s[i]
      /\ Append(s, e)[Len(s) + 1] = e
      /\ DOMAIN Append(s, e) = 1..(Len(s) + 1)
  BY <1>1
<1>4. 1..(Len(s) + 1) = 1..Len(s) \cup {Len(s) + 1}
  BY <1>1
<1>5. IsList(<<e>>) /\ Range(<<e>>) = {e}
  BY OneList
<1>6. IsList(Append(s, e)) /\ Range(Append(s, e)) = Range(s) \cup {e}
  BY <1>2, <1>5, Concatenated
<1> QED BY <1>1, <1>2, <1>3, <1>4, <1>6

\* A list is another with one more.
IsAppended(t, s, e) ==
    /\ IsList(t) /\ Len(t) = Len(s) + 1
    /\ DOMAIN t = DOMAIN s \cup {Len(s) + 1}
    /\ \A i \in DOMAIN s : t[i] = s[i]
    /\ t[Len(s) + 1] = e

LEMMA AppendIs ==
    ASSUME NEW s, IsList(s), NEW e
    PROVE  IsAppended(Append(s, e), s, e)
<1>1. s \in Seq(Range(s) \cup {e}) /\ Len(s) \in Nat /\ DOMAIN s = 1..Len(s)
  BY ListFacts
<1>2. /\ Len(Append(s, e)) = Len(s) + 1
      /\ \A i \in 1..Len(s) : Append(s, e)[i] = s[i]
      /\ Append(s, e)[Len(s) + 1] = e
  BY <1>1
<1>3. IsList(Append(s, e)) /\ DOMAIN Append(s, e) = DOMAIN s \cup {Len(s) + 1}
  BY Appended
<1> QED
  BY <1>1, <1>2, <1>3 DEF IsAppended

\* A list is its first and the rest.
LEMMA FirstAndRest ==
    ASSUME NEW s, IsList(s), s # <<>>
    PROVE  /\ IsList(Tail(s)) /\ s = <<Head(s)>> \o Tail(s)
           /\ Range(s) = {Head(s)} \cup Range(Tail(s))
           /\ \A i \in DOMAIN Tail(s) : i + 1 \in DOMAIN s /\ Tail(s)[i] = s[i + 1]
           /\ Len(Tail(s)) = Len(s) - 1 /\ Len(s) > 0 /\ Head(s) = s[1]
<1>1. s \in Seq(Range(s)) /\ Len(s) \in Nat /\ DOMAIN s = 1..Len(s)
  BY ListFacts
<1>2. Tail(s) \in Seq(Range(s)) /\ s = <<Head(s)>> \o Tail(s) /\ Head(s) = s[1]
  BY <1>1
<1>3. IsList(Tail(s))
  BY <1>2, ListOf
<1>4. Range(s) = {Head(s)} \cup Range(Tail(s))
  <2>1. IsList(<<Head(s)>>) /\ Range(<<Head(s)>>) = {Head(s)}
    BY OneList
  <2>2. Range(<<Head(s)>> \o Tail(s)) = {Head(s)} \cup Range(Tail(s))
    BY <1>3, <2>1, Concatenated
  <2> QED BY <1>2, <2>2
<1>5. /\ Len(Tail(s)) = Len(s) - 1 /\ Len(s) > 0
      /\ \A i \in 1..(Len(s) - 1) : Tail(s)[i] = s[i + 1]
  BY <1>1
<1>6. DOMAIN Tail(s) = 1..Len(Tail(s))
  BY <1>3, ListFacts
<1> QED BY <1>1, <1>2, <1>3, <1>4, <1>5, <1>6

-----------------------------------------------------------------------------
(* What the reader makes of the section of type units: the types that are  *)
(* described have lists of members, and the types nested in one are        *)
(* described too.                                                          *)

DiesIn(units)   == UNION {Range(typeUnit.dies) : typeUnit \in Range(units)}
PlacesIn(units) ==
    UNION {{typeUnit.base + i : i \in DOMAIN typeUnit.dies} : typeUnit \in Range(units)}
KeysIn(units)   ==
    ({typeUnit.signature : typeUnit \in Range(units)} \cup {die.signature : die \in DiesIn(units)}
         \cup {LocalKey(place) : place \in PlacesIn(units)}) \ {Nowhere}

PartsIn(units) ==
    [name : {die.name : die \in DiesIn(units)}, type : {die.type : die \in DiesIn(units)},
     place : {die.place : die \in DiesIn(units)} \cup {Located(0)}]
TypesIn(units) ==
    [tag : {die.tag : die \in DiesIn(units)}, target : {die.type : die \in DiesIn(units)},
     members : Seq(PartsIn(units)), bases : Seq(PartsIn(units)),
     nested : Seq(KeysIn(units))]
ParentsIn(units) ==
    [role : {"root", "nested", "sibling", "ignored"}, offset : PlacesIn(units),
     die : DiesIn(units), type : TypesIn(units)]

Maps(S, T) == UNION {[D -> T] : D \in SUBSET S}

\* The types nested in one are known.
NestedAreKnown(type, known) == Range(type.nested) \subseteq DOMAIN known

ReadsIn(units) ==
    {read \in [outcome : {"reading", "over", "threw"}, parents : Seq(ParentsIn(units)),
               signatures : Maps(PlacesIn(units), KeysIn(units)),
               types : Maps(KeysIn(units), TypesIn(units))] :
        /\ \A key \in DOMAIN read.types : NestedAreKnown(read.types[key], read.types)
        /\ \A i \in DOMAIN read.parents : NestedAreKnown(read.parents[i].type, read.types)}

LEMMA PutInMap ==
    ASSUME NEW S, NEW T, NEW map \in Maps(S, T), NEW key \in S, NEW value \in T
    PROVE  /\ Put(map, key, value) \in Maps(S, T)
           /\ DOMAIN Put(map, key, value) = DOMAIN map \cup {key}
           /\ \A k \in DOMAIN map \cup {key} :
                  Put(map, key, value)[k] = IF k = key THEN value ELSE map[k]
<1>1. PICK D \in SUBSET S : map \in [D -> T]
  BY DEF Maps
<1>2. Put(map, key, value) \in [D \cup {key} -> T]
  BY <1>1 DEF Put
<1> QED
  BY <1>1, <1>2 DEF Maps, Put

\* One more type that is known
LEMMA KnownWith ==
    ASSUME NEW S, NEW T, NEW known \in Maps(S, T),
           \A key \in DOMAIN known : NestedAreKnown(known[key], known),
           NEW key \in S, NEW type \in T,
           NestedAreKnown(type, known), NEW put, put = Put(known, key, type)
    PROVE  /\ put \in Maps(S, T)
           /\ key \in DOMAIN put /\ DOMAIN known \subseteq DOMAIN put
           /\ \A k \in DOMAIN put : NestedAreKnown(put[k], put)
<1>1. /\ put \in Maps(S, T)
      /\ DOMAIN put = DOMAIN known \cup {key}
      /\ \A k \in DOMAIN known \cup {key} : put[k] = IF k = key THEN type ELSE known[k]
  <2>1. PICK D \in SUBSET S : known \in [D -> T]
    BY DEF Maps
  <2>2. put \in [D \cup {key} -> T]
    BY <2>1 DEF Put
  <2> QED
    BY <2>1, <2>2 DEF Maps, Put
<1>2. ASSUME NEW k \in DOMAIN put PROVE NestedAreKnown(put[k], put)
  <2>1. put[k] = type \/ (k \in DOMAIN known /\ put[k] = known[k])
    BY <1>1
  <2>2. Range(put[k].nested) \subseteq DOMAIN known
    BY <2>1 DEF NestedAreKnown
  <2> QED
    BY <1>1, <2>2 DEF NestedAreKnown
<1> QED
  BY <1>1, <1>2

\* What a step leaves where the types that are known stay known
LEMMA ReadWith ==
    ASSUME NEW units, NEW read \in ReadsIn(units), NEW outcome \in {"reading", "over", "threw"},
           NEW parents \in Seq(ParentsIn(units)),
           NEW signatures \in Maps(PlacesIn(units), KeysIn(units)),
           NEW known \in Maps(KeysIn(units), TypesIn(units)),
           \A key \in DOMAIN known : NestedAreKnown(known[key], known),
           \A i \in DOMAIN parents : NestedAreKnown(parents[i].type, known)
    PROVE  [outcome |-> outcome, parents |-> parents, signatures |-> signatures,
            types |-> known] \in ReadsIn(units)
BY DEF ReadsIn

LEMMA ReadIs ==
    ASSUME NEW units, NEW read \in ReadsIn(units)
    PROVE  /\ read.outcome \in {"reading", "over", "threw"}
           /\ read.parents \in Seq(ParentsIn(units))
           /\ read.signatures \in Maps(PlacesIn(units), KeysIn(units))
           /\ read.types \in Maps(KeysIn(units), TypesIn(units))
           /\ \A key \in DOMAIN read.types : NestedAreKnown(read.types[key], read.types)
           /\ \A i \in DOMAIN read.parents : NestedAreKnown(read.parents[i].type, read.types)
           /\ read = [outcome |-> read.outcome, parents |-> read.parents,
                      signatures |-> read.signatures, types |-> read.types]
BY DEF ReadsIn

\* The lists without their last
LEMMA FrontIs ==
    ASSUME NEW S, NEW s \in Seq(S), s # <<>>
    PROVE  /\ Front(s) \in Seq(S) /\ Len(Front(s)) = Len(s) - 1 /\ Last(s) \in S
           /\ Last(s) = s[Len(s)] /\ Len(s) \in DOMAIN s
           /\ DOMAIN Front(s) = 1..(Len(s) - 1) /\ DOMAIN s = 1..Len(s) /\ Len(s) \in Nat \ {0}
           /\ \A i \in 1..(Len(s) - 1) : Front(s)[i] = s[i]
<1>1. Len(s) \in Nat \ {0} /\ DOMAIN s = 1..Len(s)
  BY LenProperties, EmptySeq
<1>2. PICK n : n = Len(s) - 1
  OBVIOUS
<1>3. n \in 0..Len(s)
  BY <1>1, <1>2
<1>4. /\ SubSeq(s, 1, n) \in Seq(S) /\ Len(SubSeq(s, 1, n)) = n
      /\ \A i \in 1..n : SubSeq(s, 1, n)[i] = s[i]
  BY <1>1, <1>3
<1>5. DOMAIN SubSeq(s, 1, n) = 1..n
  BY <1>4, LenProperties
<1>6. s[Len(s)] \in S
  BY <1>1
<1> QED
  BY <1>1, <1>2, <1>4, <1>5, <1>6 DEF Front, Last

LEMMA LocalKeys ==
    ASSUME NEW units, IsSection(units), NEW place \in PlacesIn(units)
    PROVE  LocalKey(place) \in KeysIn(units)
BY DEF IsSection, PlacesIn, KeysIn

LEMMA EndChildrenReads ==
    ASSUME NEW units, IsSection(units), NEW typeUnit \in Range(units),
           NEW read \in ReadsIn(units), read.parents # <<>>
    PROVE  /\ EndChildren(read, typeUnit) \in ReadsIn(units)
           /\ Len(EndChildren(read, typeUnit).parents) = Len(read.parents) - 1
<1> DEFINE parent == Last(read.parents)
           front  == Front(read.parents)
           local  == LocalKey(parent.offset)
           outer  == Len(front)
           rest   == [read EXCEPT !.parents = front]
           result == EndChildren(read, typeUnit)
<1>1. /\ front \in Seq(ParentsIn(units)) /\ Len(front) = Len(read.parents) - 1
      /\ parent \in ParentsIn(units) /\ NestedAreKnown(parent.type, read.types)
      /\ \A i \in DOMAIN front : NestedAreKnown(front[i].type, read.types)
      /\ Len(front) \in Nat
  <2>1. /\ read.parents \in Seq(ParentsIn(units))
        /\ \A i \in DOMAIN read.parents : NestedAreKnown(read.parents[i].type, read.types)
    BY ReadIs
  <2>2. /\ front \in Seq(ParentsIn(units)) /\ Len(front) = Len(read.parents) - 1
        /\ parent \in ParentsIn(units)
        /\ parent = read.parents[Len(read.parents)]
        /\ Len(read.parents) \in DOMAIN read.parents /\ Len(read.parents) \in Nat \ {0}
        /\ DOMAIN front = 1..(Len(read.parents) - 1)
        /\ DOMAIN read.parents = 1..Len(read.parents)
        /\ \A i \in 1..(Len(read.parents) - 1) : front[i] = read.parents[i]
    BY <2>1, FrontIs
  <2> HIDE DEF parent, front
  <2>3. PICK n \in Nat \ {0} : n = Len(read.parents)
    BY <2>2
  <2>4. NestedAreKnown(parent.type, read.types)
    BY <2>1, <2>2
  <2>5. ASSUME NEW i \in DOMAIN front
        PROVE  NestedAreKnown(front[i].type, read.types)
    <3>1. i \in DOMAIN read.parents /\ front[i] = read.parents[i]
      BY <2>2, <2>3
    <3> QED
      BY <2>1, <3>1
  <2>6. Len(front) \in Nat
    BY <2>2, <2>3
  <2> QED
    BY <2>2, <2>4, <2>5, <2>6
<1>2. /\ parent.role \in {"root", "nested", "sibling", "ignored"}
      /\ parent.offset \in PlacesIn(units) /\ parent.die \in DiesIn(units)
      /\ parent.type \in TypesIn(units)
  BY <1>1 DEF ParentsIn
<1>3. local \in KeysIn(units)
  BY <1>2, LocalKeys
<1>4. rest = [outcome |-> read.outcome, parents |-> front, signatures |-> read.signatures,
              types |-> read.types]
  BY ReadIs
<1>5. /\ read.outcome \in {"reading", "over", "threw"}
      /\ read.signatures \in Maps(PlacesIn(units), KeysIn(units))
      /\ read.types \in Maps(KeysIn(units), TypesIn(units))
      /\ \A key \in DOMAIN read.types : NestedAreKnown(read.types[key], read.types)
  BY ReadIs
<1> HIDE DEF front, parent, local
\* One more type, with the list of parents as it is
<1>6. ASSUME NEW key \in KeysIn(units), NEW known, known = Put(read.types, key, parent.type),
             NEW signatures \in Maps(PlacesIn(units), KeysIn(units))
      PROVE  [outcome |-> read.outcome, parents |-> front, signatures |-> signatures,
              types |-> known] \in ReadsIn(units)
  <2>1. /\ known \in Maps(KeysIn(units), TypesIn(units))
        /\ DOMAIN read.types \subseteq DOMAIN known
        /\ \A k \in DOMAIN known : NestedAreKnown(known[k], known)
    BY <1>1, <1>2, <1>5, <1>6, KnownWith
  <2>2. \A i \in DOMAIN front : NestedAreKnown(front[i].type, known)
    BY <1>1, <2>1 DEF NestedAreKnown
  <2> QED
    BY <1>1, <1>5, <1>6, <2>1, <2>2, ReadWith
<1>7. ASSUME NEW key \in KeysIn(units), NEW known, known = Put(read.types, key, parent.type)
      PROVE  WithType(rest, parent.offset, key, parent.type)
                 = [outcome |-> read.outcome, parents |-> front,
                    signatures |-> Put(read.signatures, parent.offset, key), types |-> known]
  <2>1. PICK signatures : signatures = Put(read.signatures, parent.offset, key)
    OBVIOUS
  <2>2. rest.types = read.types /\ rest.signatures = read.signatures
    BY <1>4
  <2>3. WithType(rest, parent.offset, key, parent.type)
            = [rest EXCEPT !.signatures = signatures, !.types = known]
    BY <1>7, <2>1, <2>2 DEF WithType
  <2> HIDE DEF rest
  <2> QED
    BY <1>4, <2>1, <2>3
<1>8. ASSUME NEW key \in KeysIn(units)
      PROVE  Put(read.signatures, parent.offset, key) \in Maps(PlacesIn(units), KeysIn(units))
  BY <1>2, <1>5, PutInMap
<1>9. ASSUME NEW key \in KeysIn(units), result = WithType(rest, parent.offset, key, parent.type)
      PROVE  result \in ReadsIn(units) /\ Len(result.parents) = Len(read.parents) - 1
  <2>1. PICK known : known = Put(read.types, key, parent.type)
    OBVIOUS
  <2>2. PICK signatures : signatures = Put(read.signatures, parent.offset, key)
    OBVIOUS
  <2>3. result = [outcome |-> read.outcome, parents |-> front, signatures |-> signatures,
                  types |-> known]
    BY <1>7, <1>9, <2>1, <2>2
  <2>4. result \in ReadsIn(units)
    BY <1>6, <1>8, <2>1, <2>2, <2>3
  <2> QED
    BY <1>1, <2>3, <2>4
<1>10. CASE parent.role = "root"
  <2>1. result = [rest EXCEPT !.types = Put(@, typeUnit.signature, parent.type)]
    BY <1>10 DEF EndChildren, parent, front
  <2>2. typeUnit.signature \in KeysIn(units)
    BY DEF IsSection, KeysIn
  <2>3. PICK known : known = Put(read.types, typeUnit.signature, parent.type)
    OBVIOUS
  <2>4. result = [outcome |-> read.outcome, parents |-> front,
                  signatures |-> read.signatures, types |-> known]
    BY <1>4, <2>1, <2>3
  <2>5. result \in ReadsIn(units)
    BY <1>5, <1>6, <2>2, <2>3, <2>4
  <2> QED
    BY <1>1, <2>4, <2>5
<1>11. CASE parent.role = "nested"
  <2> DEFINE stored == WithType(rest, parent.offset, local, parent.type)
  <2>1. result = IF parent.die.tag \in NestedTags
                 THEN [stored EXCEPT !.parents[outer].type.nested = Append(@, local)]
                 ELSE stored
    BY <1>4, <1>11 DEF EndChildren, parent, front, local
  <2>2. CASE parent.die.tag \notin NestedTags
    BY <1>3, <1>9, <2>1, <2>2
  <2>3. CASE parent.die.tag \in NestedTags
    <3>1. PICK known : known = Put(read.types, local, parent.type)
      OBVIOUS
    <3>2. PICK signatures : signatures = Put(read.signatures, parent.offset, local)
      OBVIOUS
    <3> DEFINE list == [front EXCEPT ![outer].type.nested = Append(@, local)]
    <3>3. stored = [outcome |-> read.outcome, parents |-> front, signatures |-> signatures,
                  types |-> known]
      BY <1>3, <1>7, <3>1, <3>2
    <3>4. result = [outcome |-> read.outcome, parents |-> list, signatures |-> signatures,
                    types |-> known]
      <4>1. result = [stored EXCEPT !.parents[outer].type.nested = Append(@, local)]
        BY <2>1, <2>3
      <4> HIDE DEF stored, result
      <4> QED
        BY <3>3, <4>1
    <3>5. /\ known \in Maps(KeysIn(units), TypesIn(units))
          /\ local \in DOMAIN known /\ DOMAIN read.types \subseteq DOMAIN known
          /\ \A k \in DOMAIN known : NestedAreKnown(known[k], known)
      BY <1>1, <1>2, <1>3, <1>5, <3>1, KnownWith
    <3>6. signatures \in Maps(PlacesIn(units), KeysIn(units))
      BY <1>3, <1>8, <3>2
    <3>7. ASSUME NEW p \in ParentsIn(units), NestedAreKnown(p.type, known),
                 NEW q, q = [p EXCEPT !.type.nested = Append(@, local)]
          PROVE  q \in ParentsIn(units) /\ NestedAreKnown(q.type, known)
      <4>1. /\ p.type \in TypesIn(units) /\ p.type.nested \in Seq(KeysIn(units))
        BY DEF ParentsIn, TypesIn
      <4>2. PICK nested : nested = Append(p.type.nested, local)
        OBVIOUS
      <4>3. nested \in Seq(KeysIn(units)) /\ Range(nested) = Range(p.type.nested) \cup {local}
        BY <1>3, <4>1, <4>2, AppendProperties DEF Range
      <4>4. PICK t : t = [p.type EXCEPT !.nested = nested]
        OBVIOUS
      <4>5. t \in TypesIn(units) /\ t.nested = nested
        BY <4>1, <4>3, <4>4 DEF TypesIn
      <4>6. q = [p EXCEPT !.type = t]
        BY <3>7, <4>2, <4>4
      <4>7. q \in ParentsIn(units) /\ q.type = t
        BY <4>5, <4>6 DEF ParentsIn
      <4> QED
        BY <3>5, <3>7, <4>3, <4>5, <4>7 DEF NestedAreKnown
    <3>8. \A i \in DOMAIN front :
              /\ front[i] \in ParentsIn(units) /\ NestedAreKnown(front[i].type, known)
      BY <1>1, <3>5 DEF NestedAreKnown
    <3>9. /\ DOMAIN list = DOMAIN front
          /\ \A i \in DOMAIN front :
                 /\ list[i] \in ParentsIn(units) /\ NestedAreKnown(list[i].type, known)
      <4>1. \A i \in DOMAIN front :
                list[i] = IF i = outer THEN [front[i] EXCEPT !.type.nested = Append(@, local)]
                          ELSE front[i]
        OBVIOUS
      <4>2. DOMAIN list = DOMAIN front
        OBVIOUS
      <4> HIDE DEF list
      <4> QED
        BY <3>7, <3>8, <4>1, <4>2
    <3>10. list \in Seq(ParentsIn(units)) /\ Len(list) = Len(front)
      <4>1. DOMAIN front = 1..Len(front) /\ Len(front) \in Nat /\ outer = Len(front)
        BY <1>1, LenProperties
      <4>2. CASE outer = 0
        <5>1. list = front
          BY <1>1, <4>1, <4>2
        <5> QED
          BY <1>1, <5>1
      <4>3. CASE outer # 0
        <5>1. PICK q : q = [front[outer] EXCEPT !.type.nested = Append(@, local)]
          OBVIOUS
        <5>2. list = [front EXCEPT ![outer] = q]
          BY <5>1
        <5>3. outer \in 1..Len(front)
          BY <4>1, <4>3
        <5>4. q \in ParentsIn(units)
          BY <3>7, <3>8, <4>1, <5>1, <5>3
        <5> HIDE DEF list
        <5> QED
          BY <1>1, <5>2, <5>3, <5>4, ExceptSeq
      <4> QED
        BY <4>2, <4>3
    <3> HIDE DEF list
    <3>11. result \in ReadsIn(units)
      BY <1>5, <3>4, <3>5, <3>6, <3>9, <3>10, ReadWith
    <3> QED
      BY <1>1, <3>4, <3>10, <3>11
  <2> QED
    BY <2>2, <2>3
<1>12. CASE parent.role = "sibling"
  <2>1. result = IF parent.die.signature = Nowhere
                 THEN WithType(rest, parent.offset, local, parent.type)
                 ELSE IF parent.die.declaration THEN rest
                 ELSE WithType(rest, parent.offset, parent.die.signature, parent.type)
    BY <1>12 DEF EndChildren, parent, front, local
  <2>2. CASE parent.die.signature = Nowhere
    BY <1>3, <1>9, <2>1, <2>2
  <2>3. CASE parent.die.signature # Nowhere
    <3>1. parent.die.signature \in KeysIn(units)
      BY <1>2, <2>3 DEF KeysIn
    <3>2. CASE parent.die.declaration
      <4>1. result = rest
        BY <2>1, <2>3, <3>2
      <4>2. rest \in ReadsIn(units)
        BY <1>1, <1>4, <1>5, ReadWith
      <4> QED
        BY <1>1, <1>4, <4>1, <4>2
    <3>3. CASE ~parent.die.declaration
      BY <1>9, <2>1, <2>3, <3>1, <3>3
    <3> QED
      BY <3>2, <3>3
  <2> QED
    BY <2>2, <2>3
<1>13. CASE parent.role = "ignored"
  <2>1. result = rest
    BY <1>13 DEF EndChildren, parent, front
  <2>2. rest \in ReadsIn(units)
    BY <1>1, <1>4, <1>5, ReadWith
  <2> QED
    BY <1>1, <1>4, <2>1, <2>2
<1> QED
  BY <1>2, <1>10, <1>11, <1>12, <1>13

LEMMA NewParent ==
    ASSUME NEW units, NEW role \in {"root", "nested", "sibling", "ignored"},
           NEW place \in PlacesIn(units), NEW die \in DiesIn(units), NEW known
    PROVE  /\ Parent(role, place, die) \in ParentsIn(units)
           /\ NestedAreKnown(Parent(role, place, die).type, known)
<1>1. Descriptor(die) \in TypesIn(units)
  BY EmptySeq DEF Descriptor, TypesIn
<1>2. Parent(role, place, die) \in ParentsIn(units)
  BY <1>1 DEF Parent, ParentsIn
<1>3. Parent(role, place, die).type.nested = <<>>
  BY DEF Parent, Descriptor
<1>4. Range(<<>>) = {}
  BY DEF Range
<1> QED
  BY <1>2, <1>3, <1>4 DEF NestedAreKnown

LEMMA PushReads ==
    ASSUME NEW units, NEW read \in ReadsIn(units), NEW q \in ParentsIn(units),
           NestedAreKnown(q.type, read.types),
           NEW new, new = [read EXCEPT !.parents = Append(@, q)]
    PROVE  new \in ReadsIn(units) /\ new.parents # <<>>
           /\ new.outcome = read.outcome
<1>1. PICK parents : parents = Append(read.parents, q)
  OBVIOUS
<1>2. /\ parents \in Seq(ParentsIn(units)) /\ parents # <<>>
      /\ \A i \in DOMAIN parents : NestedAreKnown(parents[i].type, read.types)
  <2>1. /\ read.parents \in Seq(ParentsIn(units))
        /\ \A i \in DOMAIN read.parents : NestedAreKnown(read.parents[i].type, read.types)
    BY ReadIs
  <2>2. /\ parents \in Seq(ParentsIn(units)) /\ Len(parents) = Len(read.parents) + 1
        /\ DOMAIN read.parents = 1..Len(read.parents) /\ Len(read.parents) \in Nat
        /\ DOMAIN parents = 1..Len(parents)
        /\ \A i \in 1..Len(read.parents) : parents[i] = read.parents[i]
        /\ parents[Len(read.parents) + 1] = q
    BY <1>1, <2>1, AppendProperties, LenProperties
  <2>3. parents # <<>>
    BY <2>2, EmptySeq
  <2>4. ASSUME NEW i \in DOMAIN parents PROVE NestedAreKnown(parents[i].type, read.types)
    <3>1. i \in DOMAIN read.parents \/ i = Len(read.parents) + 1
      BY <2>2
    <3> QED
      BY <2>1, <2>2, <3>1
  <2> QED
    BY <2>2, <2>3, <2>4
<1>3. new = [outcome |-> read.outcome, parents |-> parents, signatures |-> read.signatures,
             types |-> read.types]
  <2>1. new = [read EXCEPT !.parents = parents]
    BY <1>1
  <2> QED
    BY <2>1, ReadIs
<1>4. new \in ReadsIn(units)
  BY <1>2, <1>3, ReadIs, ReadWith
<1> QED
  BY <1>2, <1>3, <1>4

\* The innermost parent with another type that nests the same
LEMMA InnerReads ==
    ASSUME NEW units, NEW read \in ReadsIn(units), read.parents # <<>>,
           NEW t \in TypesIn(units), t.nested = read.parents[Len(read.parents)].type.nested,
           NEW new, new = [read EXCEPT !.parents[Len(read.parents)].type = t]
    PROVE  new \in ReadsIn(units)
<1> DEFINE inner == Len(read.parents)
           q     == [read.parents[inner] EXCEPT !.type = t]
<1>1. /\ read.parents \in Seq(ParentsIn(units))
      /\ \A i \in DOMAIN read.parents : NestedAreKnown(read.parents[i].type, read.types)
  BY ReadIs
<1>2. inner \in 1..Len(read.parents) /\ DOMAIN read.parents = 1..Len(read.parents)
  BY <1>1, FrontIs
<1>3. q \in ParentsIn(units) /\ q.type = t
  <2>1. read.parents[inner] \in ParentsIn(units)
    BY <1>1, <1>2
  <2> QED
    BY <2>1 DEF ParentsIn
<1>4. NestedAreKnown(q.type, read.types)
  BY <1>1, <1>2, <1>3 DEF NestedAreKnown
<1>5. PICK parents : parents = [read.parents EXCEPT ![inner] = q]
  OBVIOUS
<1>6. new = [read EXCEPT !.parents = parents]
  BY <1>5
<1> HIDE DEF q
<1>7. /\ parents \in Seq(ParentsIn(units)) /\ Len(parents) = Len(read.parents)
      /\ \A j \in 1..Len(read.parents) :
             parents[j] = IF j = inner THEN q ELSE read.parents[j]
  BY <1>1, <1>2, <1>3, <1>5, ExceptSeq
<1>8. \A i \in DOMAIN parents : NestedAreKnown(parents[i].type, read.types)
  <2>1. DOMAIN parents = 1..Len(read.parents)
    BY <1>7, LenProperties
  <2> HIDE DEF inner
  <2> QED
    BY <1>1, <1>2, <1>4, <1>7, <2>1
<1>9. new = [outcome |-> read.outcome, parents |-> parents, signatures |-> read.signatures,
             types |-> read.types]
  BY <1>6, ReadIs
<1>10. /\ read.outcome \in {"reading", "over", "threw"}
       /\ read.signatures \in Maps(PlacesIn(units), KeysIn(units))
       /\ read.types \in Maps(KeysIn(units), TypesIn(units))
       /\ \A key \in DOMAIN read.types : NestedAreKnown(read.types[key], read.types)
  BY ReadIs
<1>11. [outcome |-> read.outcome, parents |-> parents, signatures |-> read.signatures,
        types |-> read.types] \in ReadsIn(units)
  BY <1>7, <1>8, <1>10, ReadWith
<1> QED
  BY <1>9, <1>11

\* A signature more
LEMMA SignedReads ==
    ASSUME NEW units, NEW read \in ReadsIn(units), NEW place \in PlacesIn(units),
           NEW key \in KeysIn(units),
           NEW new, new = [read EXCEPT !.signatures = Put(@, place, key)]
    PROVE  new \in ReadsIn(units) /\ new.parents = read.parents /\ new.types = read.types
           /\ new.outcome = read.outcome
<1>1. PICK signatures : signatures = Put(read.signatures, place, key)
  OBVIOUS
<1>2. signatures \in Maps(PlacesIn(units), KeysIn(units))
  BY <1>1, ReadIs, PutInMap
<1>3. new = [outcome |-> read.outcome, parents |-> read.parents, signatures |-> signatures,
             types |-> read.types]
  BY <1>1, ReadIs
<1>4. new \in ReadsIn(units)
  BY <1>2, <1>3, ReadIs, ReadWith
<1> QED
  BY <1>3, <1>4

LEMMA BeginsReads ==
    ASSUME NEW units, IsSection(units), NEW typeUnit \in Range(units),
           NEW read \in ReadsIn(units), NEW role \in {"root", "nested", "sibling", "ignored"},
           NEW place \in PlacesIn(units), NEW die \in DiesIn(units)
    PROVE  Begins(read, typeUnit, role, place, die) \in ReadsIn(units)
<1> DEFINE signs  == die.signature # Nowhere /\ (role = "sibling" \/ die.tag # "array_type")
           told == IF signs
                     THEN [read EXCEPT !.signatures = Put(@, place, die.signature)]
                     ELSE read
           begun  == [told EXCEPT !.parents = Append(@, Parent(role, place, die))]
<1>1. told \in ReadsIn(units)
  <2>1. CASE signs
    <3>1. die.signature \in KeysIn(units)
      BY <2>1 DEF KeysIn
    <3> QED
      BY <2>1, <3>1, SignedReads
  <2> QED
    BY <2>1
<1> HIDE DEF told, signs
<1>2. /\ Parent(role, place, die) \in ParentsIn(units)
      /\ NestedAreKnown(Parent(role, place, die).type, told.types)
  BY NewParent
<1>3. PICK q : q = Parent(role, place, die)
  OBVIOUS
<1>4. begun \in ReadsIn(units) /\ begun.parents # <<>>
  BY <1>1, <1>2, <1>3, PushReads
<1>5. EndChildren(begun, typeUnit) \in ReadsIn(units)
  BY <1>4, EndChildrenReads
<1>6. Begins(read, typeUnit, role, place, die)
          = IF die.children THEN begun ELSE EndChildren(begun, typeUnit)
  BY DEF Begins, told, signs
<1> HIDE DEF begun
<1> QED
  BY <1>4, <1>5, <1>6

LEMMA BeginRootReads ==
    ASSUME NEW units, IsSection(units), NEW typeUnit \in Range(units),
           NEW read \in ReadsIn(units), NEW place \in PlacesIn(units),
           NEW die \in DiesIn(units)
    PROVE  BeginRoot(read, typeUnit, place, die) \in ReadsIn(units)
<1> DEFINE known == [read EXCEPT !.signatures = Put(@, place, typeUnit.signature)]
           begun == [known EXCEPT !.parents = <<Parent("root", place, die)>>]
<1>1. typeUnit.signature \in KeysIn(units)
  BY DEF IsSection, KeysIn
<1>2. known \in ReadsIn(units)
  BY <1>1, SignedReads
<1> HIDE DEF known
<1>3. PICK q : q = Parent("root", place, die)
  OBVIOUS
<1>4. q \in ParentsIn(units) /\ NestedAreKnown(q.type, known.types)
  BY <1>3, NewParent
<1>5. /\ <<q>> \in Seq(ParentsIn(units)) /\ <<q>> # <<>>
      /\ \A i \in DOMAIN <<q>> : NestedAreKnown(<<q>>[i].type, known.types)
  BY <1>4
<1>6. begun = [outcome |-> known.outcome, parents |-> <<q>>,
               signatures |-> known.signatures, types |-> known.types]
  BY <1>2, <1>3, ReadIs
<1>7. begun \in ReadsIn(units) /\ begun.parents # <<>>
  <2>1. PICK parents : parents = <<q>>
    OBVIOUS
  <2> HIDE DEF begun
  <2>2. begun \in ReadsIn(units)
    BY <1>2, <1>5, <1>6, <2>1, ReadIs, ReadWith
  <2> QED
    BY <1>6, <2>2
<1>8. EndChildren(begun, typeUnit) \in ReadsIn(units)
  BY <1>7, EndChildrenReads
<1>9. BeginRoot(read, typeUnit, place, die)
          = IF die.children /\ die.tag \in ParentTags THEN begun
            ELSE EndChildren(begun, typeUnit)
  BY DEF BeginRoot, known
<1> HIDE DEF begun
<1> QED
  BY <1>7, <1>8, <1>9

LEMMA ReadChildReads ==
    ASSUME NEW units, IsSection(units), NEW typeUnit \in Range(units),
           NEW read \in ReadsIn(units), read.parents # <<>>,
           NEW place \in PlacesIn(units), NEW die \in DiesIn(units)
    PROVE  ReadChild(read, typeUnit, place, die) \in ReadsIn(units)
<1> DEFINE inner == Len(read.parents)
           type  == read.parents[inner].type
           lies  == IF ~die.place.located /\ type.members = <<>> THEN Located(0)
                    ELSE die.place
           part  == [name |-> die.name, type |-> die.type, place |-> lies]
           result == ReadChild(read, typeUnit, place, die)
<1>1. part \in PartsIn(units)
  BY DEF PartsIn
<1>2. type \in TypesIn(units)
  <2>1. read.parents \in Seq(ParentsIn(units))
    BY ReadIs
  <2>2. read.parents[inner] \in ParentsIn(units)
    BY <2>1, FrontIs
  <2> QED
    BY <2>2 DEF ParentsIn
<1>3. type.members \in Seq(PartsIn(units)) /\ type.bases \in Seq(PartsIn(units))
  BY <1>2 DEF TypesIn
<1> HIDE DEF part, lies
<1>4. CASE die.tag = "member"
  <2>1. result = IF die.declaration THEN read
                 ELSE [read EXCEPT !.parents[inner].type.members = Append(@, part)]
    BY <1>4 DEF ReadChild, part, lies, NestedTags
  <2>2. PICK members : members = Append(type.members, part)
    OBVIOUS
  <2>3. members \in Seq(PartsIn(units))
    BY <1>1, <1>3, <2>2, AppendProperties
  <2>4. PICK t : t = [type EXCEPT !.members = members]
    OBVIOUS
  <2>5. t \in TypesIn(units) /\ t.nested = type.nested
    BY <1>2, <2>3, <2>4 DEF TypesIn
  <2>6. result = IF die.declaration THEN read
                 ELSE [read EXCEPT !.parents[inner].type = t]
    BY <2>1, <2>2, <2>4
  <2> HIDE DEF result
  <2>9. result \in ReadsIn(units)
    BY <2>5, <2>6, InnerReads
  <2> QED
    BY <2>9 DEF result
<1>5. CASE die.tag = "inheritance"
  <2>1. result = IF die.place.located /\ die.place.offset >= 0
                 THEN [read EXCEPT !.parents[inner].type.bases = Append(@, part)]
                 ELSE read
    BY <1>5 DEF ReadChild, part, lies, NestedTags
  <2>2. PICK bases : bases = Append(type.bases, part)
    OBVIOUS
  <2>3. bases \in Seq(PartsIn(units))
    BY <1>1, <1>3, <2>2, AppendProperties
  <2>4. PICK t : t = [type EXCEPT !.bases = bases]
    OBVIOUS
  <2>5. t \in TypesIn(units) /\ t.nested = type.nested
    BY <1>2, <2>3, <2>4 DEF TypesIn
  <2>6. result = IF die.place.located /\ die.place.offset >= 0
                 THEN [read EXCEPT !.parents[inner].type = t]
                 ELSE read
    BY <2>1, <2>2, <2>4
  <2> HIDE DEF result
  <2>9. result \in ReadsIn(units)
    BY <2>5, <2>6, InnerReads
  <2> QED
    BY <2>9 DEF result
<1>6. CASE die.tag \in NestedTags \cup {"array_type"}
  <2>1. result = Begins(read, typeUnit,
                        IF die.tag \in NestedTags /\ die.declaration THEN "ignored"
                        ELSE "nested",
                        place, die)
    BY <1>6 DEF ReadChild, NestedTags
  <2>2. PICK role \in {"ignored", "nested"} : result = Begins(read, typeUnit, role, place, die)
    BY <2>1
  <2> HIDE DEF result
  <2>9. result \in ReadsIn(units)
    BY <2>2, BeginsReads
  <2> QED
    BY <2>9 DEF result
<1>7. CASE die.tag \notin NestedTags \cup {"array_type", "member", "inheritance"}
  <2>1. \/ result = read
        \/ result = [read EXCEPT !.parents = Append(@, Parent("ignored", place, die))]
    BY <1>7 DEF ReadChild
  <2>2. PICK q : q = Parent("ignored", place, die)
    OBVIOUS
  <2>3. q \in ParentsIn(units) /\ NestedAreKnown(q.type, read.types)
    BY <2>2, NewParent
  <2> HIDE DEF result
  <2>9. result \in ReadsIn(units)
    BY <2>1, <2>2, <2>3, PushReads
  <2> QED
    BY <2>9 DEF result
<1> QED
  BY <1>4, <1>5, <1>6, <1>7

LEMMA ReadEntryReads ==
    ASSUME NEW units, IsSection(units), NEW typeUnit \in Range(units),
           NEW read \in ReadsIn(units), NEW i \in DOMAIN typeUnit.dies
    PROVE  ReadEntry(read, typeUnit, i) \in ReadsIn(units)
<1>1. typeUnit.dies[i] \in DiesIn(units) /\ typeUnit.base + i \in PlacesIn(units)
  BY DEF DiesIn, PlacesIn, Range
<1>2. PICK die \in DiesIn(units) : die = typeUnit.dies[i]
  BY <1>1
<1>3. PICK place \in PlacesIn(units) : place = typeUnit.base + i
  BY <1>1
<1>4. ReadEntry(read, typeUnit, i) \in
          {read, [read EXCEPT !.outcome = "threw"], [read EXCEPT !.outcome = "over"]}
             \cup (IF read.parents = <<>> THEN {}
                   ELSE {EndChildren(read, typeUnit), ReadChild(read, typeUnit, place, die)})
             \cup {BeginRoot(read, typeUnit, place, die),
                   Begins(read, typeUnit, "sibling", place, die)}
  BY <1>2, <1>3 DEF ReadEntry
<1>5. ASSUME NEW outcome \in {"threw", "over"}
      PROVE  [read EXCEPT !.outcome = outcome] \in ReadsIn(units)
  <2>1. [read EXCEPT !.outcome = outcome]
            = [outcome |-> outcome, parents |-> read.parents,
               signatures |-> read.signatures, types |-> read.types]
    BY ReadIs
  <2>2. /\ read.parents \in Seq(ParentsIn(units))
        /\ read.signatures \in Maps(PlacesIn(units), KeysIn(units))
        /\ read.types \in Maps(KeysIn(units), TypesIn(units))
        /\ \A key \in DOMAIN read.types : NestedAreKnown(read.types[key], read.types)
        /\ \A k \in DOMAIN read.parents : NestedAreKnown(read.parents[k].type, read.types)
    BY ReadIs
  <2> QED
    BY <2>1, <2>2, ReadWith
<1>6. read.parents # <<>> => /\ EndChildren(read, typeUnit) \in ReadsIn(units)
                             /\ ReadChild(read, typeUnit, place, die) \in ReadsIn(units)
  BY EndChildrenReads, ReadChildReads
<1>7. /\ BeginRoot(read, typeUnit, place, die) \in ReadsIn(units)
      /\ Begins(read, typeUnit, "sibling", place, die) \in ReadsIn(units)
  BY BeginRootReads, BeginsReads
<1> QED
  BY <1>4, <1>5, <1>6, <1>7

LEMMA NothingReads ==
    ASSUME NEW units
    PROVE  NothingRead \in ReadsIn(units)
<1>1. <<>> \in Seq(ParentsIn(units)) /\ DOMAIN <<>> = {}
  BY EmptySeq
<1>2. ASSUME NEW S, NEW T PROVE <<>> \in Maps(S, T)
  <2>1. <<>> \in [{} -> T]
    OBVIOUS
  <2> QED
    BY <2>1 DEF Maps
<1>3. /\ <<>> \in Maps(PlacesIn(units), KeysIn(units))
      /\ <<>> \in Maps(KeysIn(units), TypesIn(units))
  BY <1>2
<1>4. /\ \A key \in DOMAIN <<>> : NestedAreKnown(<<>>[key], <<>>)
      /\ \A i \in DOMAIN <<>> : NestedAreKnown(<<>>[i].type, <<>>)
  BY <1>1
<1> QED
  BY <1>1, <1>3, <1>4 DEF NothingRead, ReadsIn

\* The entries of a unit are read one by one.
LEMMA EntriesAreRead ==
    ASSUME NEW units, IsSection(units), NEW typeUnit \in Range(units)
    PROVE  \E f \in [0..Len(typeUnit.dies) -> ReadsIn(units)] :
               /\ f[0] = NothingRead
               /\ \A k \in 0..(Len(typeUnit.dies) - 1) : f[k + 1] = ReadEntry(f[k], typeUnit, k + 1)
               /\ ReadUnit(typeUnit) = EndUnit(f[Len(typeUnit.dies)], typeUnit)
<1> DEFINE dies == typeUnit.dies
           n == Len(dies)
           A == ReadsIn(units)
           places == [i \in DOMAIN dies |-> i]
           G == [x \in A \X (1..n) |-> ReadEntry(x[1], typeUnit, x[2])]
           Table(t) == [s \in SUBSET (DOMAIN places) |->
                          IF s = {} THEN NothingRead
                          ELSE ReadEntry(t[s \ {Max(s)}], typeUnit, places[Max(s)])]
           iter == CHOOSE t : t = Table(t)
<1>1. /\ n \in Nat /\ DOMAIN dies = 1..n /\ DOMAIN places = 1..n
      /\ \A i \in 1..n : places[i] = i
      /\ NothingRead \in A
  BY LenProperties, NothingReads DEF IsList, IsSection
<1>2. G \in [A \X (1..n) -> A]
  BY <1>1, ReadEntryReads
<1>3. PICK g : IsTable(g, n, A, NothingRead, G)
  BY <1>1, <1>2, FoldTable
<1>4. g = Table(g)
  <2>1. ASSUME NEW s \in SUBSET (1..n), s # {}
        PROVE  G[<<g[s \ {Max(s)}], Max(s)>>] = ReadEntry(g[s \ {Max(s)}], typeUnit, places[Max(s)])
    <3>1. Max(s) \in 1..n /\ g[s \ {Max(s)}] \in A
      BY <1>1, <1>3, <2>1, LastPlace DEF IsTable
    <3> HIDE DEF A
    <3> QED
      BY <1>1, <3>1
  <2> HIDE DEF G
  <2> QED
    BY <1>1, <1>3, <2>1 DEF IsTable
<1>5. iter = Table(iter)
  BY <1>4
<1>6. ReadUnit(typeUnit) = EndUnit(iter[DOMAIN places], typeUnit)
  BY DEF ReadUnit, FoldLeftDomain, FoldLeft, MapThenFoldSet
<1> HIDE DEF iter
<1> DEFINE f == [k \in 0..n |-> iter[1..k]]
<1>7. \A s \in SUBSET (1..n) :
         iter[s] = IF s = {} THEN NothingRead
                   ELSE ReadEntry(iter[s \ {Max(s)}], typeUnit, places[Max(s)])
  BY <1>1, <1>5
<1>8. f[0] = NothingRead
  <2>1. 1..0 = {} /\ {} \in SUBSET (1..n) /\ 0 \in 0..n
    BY <1>1
  <2> QED
    BY <1>7, <2>1
<1>9. ASSUME NEW k \in 0..(n - 1) PROVE f[k + 1] = ReadEntry(f[k], typeUnit, k + 1)
  <2>1. k \in 0..n /\ k + 1 \in 0..n /\ k + 1 \in 1..n
    BY <1>1
  <2>2. /\ 1..(k + 1) \in SUBSET (1..n) /\ 1..(k + 1) # {}
        /\ Max(1..(k + 1)) = k + 1 /\ (1..(k + 1)) \ {k + 1} = 1..k
    BY <1>1, FirstPlaces
  <2> QED
    BY <1>1, <1>7, <2>1, <2>2
<1>10. ReadUnit(typeUnit) = EndUnit(f[n], typeUnit) /\ f = [k \in 0..n |-> f[k]]
  BY <1>1, <1>6
<1> HIDE DEF f
<1>11. \A k \in 0..n : f[k] \in A
  <2> DEFINE S == {k \in 0..n : f[k] \in A}
  <2>1. 0 \in S
    BY <1>1, <1>8
  <2>2. ASSUME NEW k \in 0..(n - 1), k \in S PROVE k + 1 \in S
    <3>1. k + 1 \in 0..n /\ k + 1 \in DOMAIN typeUnit.dies
      BY <1>1
    <3>2. ReadEntry(f[k], typeUnit, k + 1) \in A
      BY <2>2, <3>1, ReadEntryReads
    <3> QED
      BY <1>9, <3>1, <3>2
  <2> HIDE DEF S
  <2>3. \A k \in 0..n : k \in S
    BY <1>1, <2>1, <2>2, UpTo
  <2> QED
    BY <2>3 DEF S
<1> QED
  BY <1>8, <1>9, <1>10, <1>11

\* The lists that are open at the end of a unit end one by one.
LEMMA UnitEnds ==
    ASSUME NEW units, IsSection(units), NEW typeUnit \in Range(units),
           NEW entries \in ReadsIn(units)
    PROVE  EndUnit(entries, typeUnit) \in ReadsIn(units)
<1> DEFINE parents == entries.parents
           n == Len(parents)
           A == ReadsIn(units)
           G == [x \in A \X (1..n) |-> IF x[1].parents = <<>> THEN x[1]
                                       ELSE EndChildren(x[1], typeUnit)]
           Table(t) == [s \in SUBSET (DOMAIN parents) |->
                          IF s = {} THEN entries ELSE EndChildren(t[s \ {Max(s)}], typeUnit)]
           iter == CHOOSE t : t = Table(t)
<1>1. n \in Nat /\ DOMAIN parents = 1..n /\ entries \in A
  BY LenProperties, ReadIs
<1>2. G \in [A \X (1..n) -> A]
  BY EndChildrenReads
<1>3. PICK g : IsTable(g, n, A, entries, G)
  BY <1>1, <1>2, FoldTable
<1>4. /\ g \in [SUBSET (1..n) -> A] /\ g[{}] = entries
      /\ \A s \in SUBSET (1..n) : s # {} =>
             LET before == g[s \ {Max(s)}]
             IN  /\ Max(s) \in 1..n /\ before \in A
                 /\ g[s] = IF before.parents = <<>> THEN before ELSE EndChildren(before, typeUnit)
  <2>1. g \in [SUBSET (1..n) -> A] /\ g[{}] = entries
    BY <1>3 DEF IsTable
  <2>2. ASSUME NEW s \in SUBSET (1..n), s # {}
        PROVE  LET before == g[s \ {Max(s)}]
               IN  /\ Max(s) \in 1..n /\ before \in A
                   /\ g[s] = IF before.parents = <<>> THEN before
                             ELSE EndChildren(before, typeUnit)
    <3>1. Max(s) \in 1..n
      BY <1>1, <2>2, LastPlace
    <3>2. PICK before \in A : before = g[s \ {Max(s)}]
      BY <2>1
    <3>3. g[s] = G[<<before, Max(s)>>]
      BY <1>3, <2>2, <3>2 DEF IsTable
    <3>4. <<before, Max(s)>> \in A \X (1..n)
      BY <3>1, <3>2
    <3> HIDE DEF A
    <3> QED
      BY <3>1, <3>2, <3>3, <3>4
  <2> QED
    BY <2>1, <2>2
\* As many are open as have not ended.
<1>5. \A k \in 0..n : \A s \in SUBSET (1..k) : Len(g[s].parents) >= n - k
  <2> DEFINE S == {k \in 0..n : \A s \in SUBSET (1..k) : Len(g[s].parents) >= n - k}
  <2>1. 0 \in S
    <3>1. \A s \in SUBSET (1..0) : s = {}
      OBVIOUS
    <3>2. Len(g[{}].parents) = n
      BY <1>4
    <3>3. n >= n - 0 /\ 0 \in 0..n
      BY <1>1
    <3> HIDE DEF n
    <3> QED
      BY <3>1, <3>2, <3>3
  <2>2. ASSUME NEW k \in 0..(n - 1), k \in S PROVE k + 1 \in S
    <3>1. /\ k \in Nat /\ k + 1 \in 0..n /\ k \in 0..n
          /\ \A s \in SUBSET (1..k) : Len(g[s].parents) >= n - k
      BY <1>1, <2>2
    <3>2. ASSUME NEW s \in SUBSET (1..(k + 1)) PROVE Len(g[s].parents) >= n - (k + 1)
      <4>1. CASE s = {}
        BY <1>1, <1>4, <3>1, <4>1
      <4>2. CASE s # {}
        <5>1. s \in SUBSET (1..n)
          BY <1>1, <3>1
        <5>2. PICK before \in A : before = g[s \ {Max(s)}]
          BY <1>4, <4>2, <5>1
        <5>3. s \ {Max(s)} \in SUBSET (1..k)
          <6>1. Max(s) \in s /\ \A m \in s : m <= Max(s)
            BY <1>1, <4>2, <5>1, LastPlace
          <6>2. PICK last \in s : last = Max(s)
            BY <6>1
          <6>3. ASSUME NEW m \in s, m # last PROVE m \in 1..k
            <7>1. m \in 1..(k + 1) /\ last \in 1..(k + 1) /\ m <= last
              BY <6>1, <6>2
            <7> QED
              BY <3>1, <6>3, <7>1
          <6> QED
            BY <6>2, <6>3
        <5>4. Len(before.parents) >= n - k
          BY <3>1, <5>2, <5>3
        <5>5. before.parents \in Seq(ParentsIn(units))
          BY <5>2, ReadIs
        <5>6. Len(before.parents) \in Nat /\ before.parents # <<>>
          BY <1>1, <3>1, <5>4, <5>5, LenProperties, EmptySeq
        <5>7. Len(g[s].parents) = Len(before.parents) - 1
          BY <1>4, <4>2, <5>1, <5>2, <5>6, EndChildrenReads
        <5> QED
          BY <1>1, <3>1, <5>4, <5>6, <5>7
      <4> QED
        BY <4>1, <4>2
    <3> QED
      BY <3>1, <3>2
  <2> HIDE DEF S
  <2>3. \A k \in 0..n : k \in S
    BY <1>1, <2>1, <2>2, UpTo
  <2> QED
    BY <2>3 DEF S
<1>6. g = Table(g)
  <2>1. ASSUME NEW s \in SUBSET (1..n), s # {}
        PROVE  g[s] = EndChildren(g[s \ {Max(s)}], typeUnit)
    <3>1. PICK before \in A : before = g[s \ {Max(s)}]
      BY <1>4, <2>1
    <3>2. Max(s) \in s /\ \A m \in s : m <= Max(s)
      BY <1>1, <2>1, LastPlace
    <3>3. PICK k \in 0..(n - 1) : Max(s) = k + 1
      <4>1. PICK last \in 1..n : last = Max(s)
        BY <3>2
      <4>2. last - 1 \in 0..(n - 1) /\ last = (last - 1) + 1
        BY <1>1
      <4> HIDE DEF n
      <4> QED
        BY <4>1, <4>2
    <3>4. s \ {Max(s)} \in SUBSET (1..k) /\ k \in 0..n
      <4>1. ASSUME NEW m \in s, m # k + 1 PROVE m \in 1..k
        <5>1. m \in 1..n /\ m <= k + 1 /\ k \in Nat
          BY <1>1, <3>2, <3>3
        <5> QED
          BY <4>1, <5>1
      <4> QED
        BY <1>1, <3>3, <4>1
    <3>5. Len(before.parents) >= n - k
      BY <1>5, <3>1, <3>4
    <3>6. before.parents # <<>>
      BY <1>1, <3>5, EmptySeq
    <3> QED
      BY <1>4, <2>1, <3>1, <3>6
  <2> QED
    BY <1>1, <1>4, <2>1
<1>7. iter = Table(iter)
  BY <1>6
<1>8. EndUnit(entries, typeUnit) = iter[DOMAIN parents]
  BY DEF EndUnit, FoldLeft, MapThenFoldSet
<1> HIDE DEF iter
<1>9. \A s \in SUBSET (1..n) :
         iter[s] = IF s = {} THEN entries ELSE EndChildren(iter[s \ {Max(s)}], typeUnit)
  BY <1>1, <1>7
<1>10. \A k \in 0..n : iter[1..k] \in A /\ Len(iter[1..k].parents) = n - k
  <2> DEFINE S == {k \in 0..n : iter[1..k] \in A /\ Len(iter[1..k].parents) = n - k}
  <2>1. 0 \in S
    <3>1. 1..0 = {} /\ {} \in SUBSET (1..n) /\ 0 \in 0..n /\ n = n - 0
      BY <1>1
    <3>2. iter[1..0] = entries
      BY <1>9, <3>1
    <3>3. Len(iter[1..0].parents) = n
      BY <3>2
    <3> HIDE DEF n
    <3> QED
      BY <1>1, <3>1, <3>2, <3>3
  <2>2. ASSUME NEW k \in 0..(n - 1), k \in S PROVE k + 1 \in S
    <3>1. k + 1 \in 0..n /\ k \in 0..n
      BY <1>1
    <3>2. /\ 1..(k + 1) \in SUBSET (1..n) /\ 1..(k + 1) # {}
          /\ Max(1..(k + 1)) = k + 1 /\ (1..(k + 1)) \ {k + 1} = 1..k
      BY <1>1, FirstPlaces
    <3>3. PICK before \in A : before = iter[1..k]
      BY <2>2
    <3>4. Len(before.parents) = n - k
      BY <2>2, <3>3
    <3>5. before.parents # <<>>
      BY <1>1, <3>4, EmptySeq
    <3>6. iter[1..(k + 1)] = EndChildren(before, typeUnit)
      BY <1>9, <3>2, <3>3
    <3>7. /\ EndChildren(before, typeUnit) \in A
          /\ Len(EndChildren(before, typeUnit).parents) = Len(before.parents) - 1
      BY <3>3, <3>5, EndChildrenReads
    <3>8. n - k - 1 = n - (k + 1)
      BY <1>1
    <3> QED
      BY <3>1, <3>4, <3>6, <3>7, <3>8
  <2> HIDE DEF S
  <2>3. \A k \in 0..n : k \in S
    BY <1>1, <2>1, <2>2, UpTo
  <2> QED
    BY <2>3 DEF S
<1>11. n \in 0..n
  BY <1>1
<1> QED
  BY <1>1, <1>8, <1>10, <1>11

LEMMA UnitIsRead ==
    ASSUME NEW units, IsSection(units), NEW typeUnit \in Range(units)
    PROVE  ReadUnit(typeUnit) \in ReadsIn(units)
<1>1. PICK f \in [0..Len(typeUnit.dies) -> ReadsIn(units)] :
          ReadUnit(typeUnit) = EndUnit(f[Len(typeUnit.dies)], typeUnit)
  BY EntriesAreRead
<1>2. Len(typeUnit.dies) \in 0..Len(typeUnit.dies)
  BY LenProperties DEF IsSection, IsList
<1> QED
  BY <1>1, <1>2, UnitEnds

StoresIn(units) ==
    {store \in [signatures : Maps(PlacesIn(units), KeysIn(units)),
                types : Maps(KeysIn(units), TypesIn(units)), over : BOOLEAN] :
        \A key \in DOMAIN store.types : NestedAreKnown(store.types[key], store.types)}

LEMMA MergeInMap ==
    ASSUME NEW S, NEW T, NEW map \in Maps(S, T), NEW over \in Maps(S, T),
           NEW merged, merged = Merge(map, over)
    PROVE  merged \in Maps(S, T)
<1>1. PICK D \in SUBSET S, E \in SUBSET S : map \in [D -> T] /\ over \in [E -> T]
  BY DEF Maps
<1>2. merged \in [D \cup E -> T]
  BY <1>1 DEF Merge
<1> QED
  BY <1>1, <1>2 DEF Maps

LEMMA WithUnitStores ==
    ASSUME NEW units, NEW store \in StoresIn(units), NEW typeUnit,
           NEW read \in ReadsIn(units)
    PROVE  WithUnit(store, typeUnit, read) \in StoresIn(units)
<1>1. /\ store.signatures \in Maps(PlacesIn(units), KeysIn(units))
      /\ store.types \in Maps(KeysIn(units), TypesIn(units))
      /\ store.over \in BOOLEAN
      /\ \A key \in DOMAIN store.types : NestedAreKnown(store.types[key], store.types)
      /\ store = [signatures |-> store.signatures, types |-> store.types,
                  over |-> store.over]
  BY DEF StoresIn
<1>2. [store EXCEPT !.over = TRUE] \in StoresIn(units)
  BY <1>1 DEF StoresIn
<1>3. WithTypes(store, read) \in StoresIn(units)
  <2>1. PICK signatures : signatures = Merge(read.signatures, store.signatures)
    OBVIOUS
  <2>2. PICK known : known = Merge(store.types, read.types)
    OBVIOUS
  <2>3. /\ read.signatures \in Maps(PlacesIn(units), KeysIn(units))
        /\ read.types \in Maps(KeysIn(units), TypesIn(units))
        /\ \A key \in DOMAIN read.types : NestedAreKnown(read.types[key], read.types)
    BY ReadIs
  <2>4. signatures \in Maps(PlacesIn(units), KeysIn(units))
    BY <1>1, <2>1, <2>3, MergeInMap
  <2>5. /\ known \in Maps(KeysIn(units), TypesIn(units))
        /\ DOMAIN known = DOMAIN store.types \cup DOMAIN read.types
        /\ \A k \in DOMAIN known :
               \/ k \in DOMAIN store.types /\ known[k] = store.types[k]
               \/ k \in DOMAIN read.types /\ known[k] = read.types[k]
    <3>1. PICK D \in SUBSET KeysIn(units), E \in SUBSET KeysIn(units) :
              store.types \in [D -> TypesIn(units)] /\ read.types \in [E -> TypesIn(units)]
      BY <1>1, <2>3 DEF Maps
    <3>2. known \in [D \cup E -> TypesIn(units)]
      BY <2>2, <3>1 DEF Merge
    <3> QED
      BY <2>2, <3>1, <3>2 DEF Maps, Merge
  <2>6. \A k \in DOMAIN known : NestedAreKnown(known[k], known)
    <3>1. ASSUME NEW k \in DOMAIN known PROVE NestedAreKnown(known[k], known)
      <4>1. CASE k \in DOMAIN store.types /\ known[k] = store.types[k]
        BY <1>1, <2>5, <4>1 DEF NestedAreKnown
      <4>2. CASE k \in DOMAIN read.types /\ known[k] = read.types[k]
        BY <2>3, <2>5, <4>2 DEF NestedAreKnown
      <4> QED
        BY <2>5, <4>1, <4>2
    <3> QED
      BY <3>1
  <2>7. WithTypes(store, read) = [store EXCEPT !.signatures = signatures, !.types = known]
    BY <2>1, <2>2 DEF WithTypes
  <2>8. WithTypes(store, read)
            = [signatures |-> signatures, types |-> known, over |-> store.over]
    BY <1>1, <2>7
  <2> QED
    BY <1>1, <2>4, <2>5, <2>6, <2>8 DEF StoresIn
<1> QED
  BY <1>2, <1>3 DEF WithUnit

LEMMA UnitsAreStored ==
    ASSUME NEW units, IsSection(units)
    PROVE  ReadUnits(units) \in StoresIn(units)
<1> DEFINE n == Len(units)
           A == StoresIn(units)
           none == [signatures |-> <<>>, types |-> <<>>, over |-> FALSE]
           G == [x \in A \X (1..n) |-> WithUnit(x[1], units[x[2]], ReadUnit(units[x[2]]))]
           Table(t) == [s \in SUBSET (DOMAIN units) |->
                          IF s = {} THEN none
                          ELSE WithUnit(t[s \ {Max(s)}], units[Max(s)],
                                        ReadUnit(units[Max(s)]))]
           iter == CHOOSE t : t = Table(t)
<1>1. /\ n \in Nat /\ DOMAIN units = 1..n
      /\ \A i \in 1..n : units[i] \in Range(units)
  BY LenProperties, ElementOfSeq DEF IsList, IsSection
<1>2. none \in A
  <2>1. /\ NothingRead.signatures = <<>> /\ NothingRead.types = <<>>
    BY DEF NothingRead
  <2>2. /\ <<>> \in Maps(PlacesIn(units), KeysIn(units))
        /\ <<>> \in Maps(KeysIn(units), TypesIn(units))
    BY <2>1, NothingReads, ReadIs
  <2> QED
    BY <2>2, EmptySeq DEF StoresIn
<1>3. \A i \in 1..n : ReadUnit(units[i]) \in ReadsIn(units)
  BY <1>1, UnitIsRead
<1> HIDE DEF none
<1>4. ASSUME NEW store \in A, NEW i \in 1..n
      PROVE  WithUnit(store, units[i], ReadUnit(units[i])) \in A
  BY <1>3, WithUnitStores
<1>5. G \in [A \X (1..n) -> A]
  BY <1>4
<1>6. PICK g : IsTable(g, n, A, none, G)
  BY <1>1, <1>2, <1>5, FoldTable
<1>7. g = Table(g)
  <2>1. ASSUME NEW s \in SUBSET (1..n), s # {}
        PROVE  G[<<g[s \ {Max(s)}], Max(s)>>]
                   = WithUnit(g[s \ {Max(s)}], units[Max(s)], ReadUnit(units[Max(s)]))
    <3>1. Max(s) \in 1..n /\ g[s \ {Max(s)}] \in A
      BY <1>1, <1>6, <2>1, LastPlace DEF IsTable
    <3> HIDE DEF A
    <3> QED
      BY <3>1
  <2> HIDE DEF G
  <2> QED
    BY <1>1, <1>6, <2>1 DEF IsTable
<1>8. iter = Table(iter)
  BY <1>7
<1>9. ReadUnits(units) = iter[DOMAIN units]
  BY DEF ReadUnits, FoldLeft, MapThenFoldSet, none
<1> HIDE DEF iter
<1>10. \A s \in SUBSET (1..n) :
         iter[s] = IF s = {} THEN none
                   ELSE WithUnit(iter[s \ {Max(s)}], units[Max(s)], ReadUnit(units[Max(s)]))
  BY <1>1, <1>8
<1> DEFINE S == {k \in 0..n : iter[1..k] \in A}
<1>11. 0 \in S
  <2>1. 1..0 = {} /\ {} \in SUBSET (1..n) /\ 0 \in 0..n
    BY <1>1
  <2> QED
    BY <1>2, <1>10, <2>1
<1>12. ASSUME NEW k \in 0..(n - 1), k \in S PROVE k + 1 \in S
  <2>1. k + 1 \in 0..n /\ k + 1 \in 1..n
    BY <1>1
  <2>2. /\ 1..(k + 1) \in SUBSET (1..n) /\ 1..(k + 1) # {}
        /\ Max(1..(k + 1)) = k + 1 /\ (1..(k + 1)) \ {k + 1} = 1..k
    BY <1>1, FirstPlaces
  <2>3. iter[1..(k + 1)] = WithUnit(iter[1..k], units[k + 1], ReadUnit(units[k + 1]))
    BY <1>10, <2>2
  <2> QED
    BY <1>4, <1>12, <2>1, <2>3
<1> HIDE DEF S
<1>13. \A k \in 0..n : k \in S
  BY <1>1, <1>11, <1>12, UpTo
<1>14. n \in S
  BY <1>1, <1>13
<1> QED
  BY <1>1, <1>9, <1>14 DEF S

\* What materialize_manual_descriptor finds: lists, and only known that are
\* described nested in them
LEMMA DescribedLists ==
    ASSUME NEW units, IsSection(units)
    PROVE  /\ Nowhere \notin DOMAIN DescribedTypes(units)
           /\ \A key \in DOMAIN DescribedTypes(units) :
                  /\ IsList(DescribedTypes(units)[key].members)
                  /\ IsList(DescribedTypes(units)[key].bases)
                  /\ DescribedTypes(units)[key].nested \in Seq(DOMAIN DescribedTypes(units))
<1>1. PICK store \in StoresIn(units) : store = ReadUnits(units)
  BY UnitsAreStored
<1>2. /\ store.types \in Maps(KeysIn(units), TypesIn(units))
      /\ \A key \in DOMAIN store.types : NestedAreKnown(store.types[key], store.types)
  BY DEF StoresIn
<1>3. PICK D \in SUBSET KeysIn(units) : store.types \in [D -> TypesIn(units)]
  BY <1>2 DEF Maps
<1>4. PICK described : described = DescribedTypes(units)
  OBVIOUS
<1>5. /\ DOMAIN described = D
      /\ \A key \in D : described[key] = Described(store.types[key], store.signatures)
  BY <1>1, <1>3, <1>4 DEF DescribedTypes, DescribedIn
<1>6. Nowhere \notin D
  BY DEF KeysIn
<1>7. ASSUME NEW key \in D
      PROVE  /\ IsList(described[key].members) /\ IsList(described[key].bases)
             /\ described[key].nested \in Seq(D)
  <2>1. PICK type \in TypesIn(units) : type = store.types[key]
    BY <1>3
  <2>2. /\ type.members \in Seq(PartsIn(units)) /\ type.bases \in Seq(PartsIn(units))
        /\ type.nested \in Seq(KeysIn(units)) /\ Range(type.nested) \subseteq D
    BY <1>2, <1>3, <2>1 DEF TypesIn, NestedAreKnown
  <2>3. PICK signatures : signatures = store.signatures
    OBVIOUS
  <2> DEFINE Resolve(parts) == [i \in DOMAIN parts |->
                                 [parts[i] EXCEPT !.type = Resolved(@, signatures)]]
  <2>4. PICK members : members = Resolve(type.members)
    OBVIOUS
  <2>5. PICK bases : bases = Resolve(type.bases)
    OBVIOUS
  <2>6. described[key] = [type EXCEPT !.target = Resolved(@, signatures),
                                      !.members = members, !.bases = bases]
    <3>1. described[key] = Described(type, signatures)
      BY <1>5, <2>1, <2>3
    <3>2. Described(type, signatures) =
              [type EXCEPT !.target = Resolved(@, signatures),
                           !.members = Resolve(type.members), !.bases = Resolve(type.bases)]
      BY DEF Described
    <3> HIDE DEF Resolve
    <3> QED
      BY <2>4, <2>5, <3>1, <3>2
  <2>7. /\ described[key].members = members /\ described[key].bases = bases
        /\ described[key].nested = type.nested
    BY <2>6 DEF TypesIn
  <2>8. ASSUME NEW parts \in Seq(PartsIn(units)), NEW list, list = Resolve(parts)
        PROVE  IsList(list)
    <3>1. DOMAIN parts = 1..Len(parts) /\ Len(parts) \in Nat
      BY LenProperties
    <3>2. DOMAIN list = 1..Len(parts) /\ list = [i \in 1..Len(parts) |-> list[i]]
      BY <2>8, <3>1
    <3> HIDE DEF Resolve
    <3>3. PICK n \in Nat : n = Len(parts)
      BY <3>1
    <3>4. list \in [1..n -> Range(list)]
      BY <3>2, <3>3 DEF Range
    <3> QED
      BY <3>4, SeqDef DEF IsList
  <2> HIDE DEF Resolve
  <2>9. IsList(members) /\ IsList(bases)
    BY <2>2, <2>4, <2>5, <2>8
  <2>10. type.nested \in Seq(D)
    <3>1. PICK n \in Nat : n = Len(type.nested)
      BY <2>2, LenProperties
    <3>2. type.nested \in [1..n -> D]
      BY <2>2, <3>1, LenProperties DEF Range
    <3> QED
      BY <3>2, SeqDef
  <2> QED
    BY <2>7, <2>9, <2>10
<1> QED
  BY <1>4, <1>5, <1>6, <1>7

LEMMA UnitTypesAre ==
    ASSUME IsFile(file)
    PROVE  /\ Nowhere \notin DOMAIN UnitTypes
           /\ \A key \in DOMAIN UnitTypes :
                  /\ IsList(UnitTypes[key].members) /\ IsList(UnitTypes[key].bases)
                  /\ UnitTypes[key].nested \in Seq(DOMAIN UnitTypes)
<1>1. IsSection(file.typeUnits)
  BY DEF IsFile
<1> QED
  BY <1>1, DescribedLists DEF UnitTypes

-----------------------------------------------------------------------------
(* The agenda.                                                             *)

LEMMA LeavesFinite ==
    ASSUME NEW s, IsList(s)
    PROVE  IsFiniteSet(Leaves(s)) /\ Cardinality(Leaves(s)) \in Nat
<1>1. Len(s) \in Nat /\ Leaves(s) \subseteq 1..Len(s)
  BY ListFacts DEF Leaves
<1>2. IsFiniteSet(1..Len(s))
  BY <1>1, FS_Interval
<1>3. IsFiniteSet(Leaves(s))
  BY <1>1, <1>2, FS_Subset
<1> QED BY <1>3, FS_CardinalityType

\* How many scopes two lists of tasks close
LEMMA LeavesOfBoth ==
    ASSUME NEW s, IsList(s), NEW t, IsList(t)
    PROVE  Cardinality(Leaves(s \o t)) = Cardinality(Leaves(s)) + Cardinality(Leaves(t))
<1>1. /\ Len(s) \in Nat /\ Len(t) \in Nat
      /\ DOMAIN s = 1..Len(s) /\ DOMAIN t = 1..Len(t)
  BY ListFacts
<1>2. IsList(s \o t) /\ Len(s \o t) = Len(s) + Len(t)
  BY Concatenated
<1>3. /\ DOMAIN (s \o t) = 1..(Len(s) + Len(t))
      /\ \A i \in DOMAIN s : (s \o t)[i] = s[i]
      /\ \A i \in DOMAIN t : (s \o t)[Len(s) + i] = t[i]
  <2>1. DOMAIN (s \o t) = 1..(Len(s) + Len(t))
    BY <1>2, ListFacts
  <2>2. /\ \A i \in DOMAIN s : (s \o t)[i] = s[i]
        /\ \A i \in DOMAIN t : (s \o t)[Len(s) + i] = t[i]
    BY <1>1, Concatenated
  <2> QED BY <2>1, <2>2
<1> DEFINE moved == {Len(s) + i : i \in Leaves(t)}
<1>4. Leaves(s \o t) \subseteq Leaves(s) \cup moved
  <2> SUFFICES ASSUME NEW i \in Leaves(s \o t), i \notin Leaves(s) PROVE i \in moved
    OBVIOUS
  <2>1. i \in 1..(Len(s) + Len(t)) /\ (s \o t)[i].do = "leave"
    BY <1>3 DEF Leaves
  <2>2. i \notin 1..Len(s)
    BY <1>1, <1>3, <2>1 DEF Leaves
  <2>3. i - Len(s) \in 1..Len(t) /\ i = Len(s) + (i - Len(s))
    BY <1>1, <2>1, <2>2
  <2>4. t[i - Len(s)].do = "leave"
    BY <1>1, <1>3, <2>1, <2>3
  <2> QED BY <1>1, <2>3, <2>4 DEF Leaves
<1>5. Leaves(s) \cup moved \subseteq Leaves(s \o t)
  BY <1>1, <1>3 DEF Leaves
<1>6. Leaves(s) \cap moved = {}
  BY <1>1 DEF Leaves
<1>7. Cardinality(moved) = Cardinality(Leaves(t)) /\ IsFiniteSet(moved)
  <2>1. IsFiniteSet(Leaves(t)) /\ Leaves(t) \subseteq Nat
    BY <1>1, LeavesFinite DEF Leaves
  <2> DEFINE f == [i \in Leaves(t) |-> Len(s) + i]
  <2>2. f \in Bijection(Leaves(t), moved)
    <3>1. f \in [Leaves(t) -> moved]
      OBVIOUS
    <3>2. \A i, j \in Leaves(t) : f[i] = f[j] => i = j
      BY <1>1, <2>1
    <3>3. \A m \in moved : \E i \in Leaves(t) : f[i] = m
      OBVIOUS
    <3> QED BY <3>1, <3>2, <3>3, Fun_IsBij
  <2> HIDE DEF f, moved
  <2>3. ExistsBijection(Leaves(t), moved)
    BY <2>2 DEF ExistsBijection
  <2> QED BY <2>1, <2>3, FS_Bijection
<1>8. IsFiniteSet(Leaves(s))
  BY LeavesFinite
<1> HIDE DEF moved
<1>9. Leaves(s \o t) = Leaves(s) \cup moved
  BY <1>4, <1>5
<1>10. Cardinality(Leaves(s) \cap moved) = 0
  BY <1>6, FS_EmptySet
<1>11. Cardinality(Leaves(s)) \in Nat /\ Cardinality(Leaves(t)) \in Nat
  BY LeavesFinite
<1>12. Cardinality(Leaves(s) \cup moved) =
            Cardinality(Leaves(s)) + Cardinality(moved) - Cardinality(Leaves(s) \cap moved)
  BY <1>7, <1>8, FS_Union
<1> QED BY <1>7, <1>9, <1>10, <1>11, <1>12

\* One task closes a scope or none.
LEMMA LeavesOfOne ==
    ASSUME NEW t
    PROVE  Cardinality(Leaves(<<t>>)) = IF t.do = "leave" THEN 1 ELSE 0
<1>1. DOMAIN <<t>> = {1} /\ <<t>>[1] = t
  OBVIOUS
<1>2. Leaves(<<t>>) = IF t.do = "leave" THEN {1} ELSE {}
  BY <1>1 DEF Leaves
<1> QED BY <1>2, FS_Singleton, FS_EmptySet

\* No task of a list closes a scope.
LEMMA NoLeaves ==
    ASSUME NEW s, IsList(s), \A t \in Range(s) : t.do # "leave"
    PROVE  Cardinality(Leaves(s)) = 0
<1>1. Leaves(s) = {}
  BY ListFacts DEF Leaves
<1> QED BY <1>1, FS_EmptySet

\* What a step of the walk that ends a task leaves: of the agenda, ...
LEMMA AgendaStep ==
    ASSUME IsList(agenda), agenda # <<>>, NEW tasks, IsList(tasks), Continue(tasks)
    PROVE  /\ IsList(agenda)' /\ Tasks' = Range(tasks) \cup Range(Tail(agenda))
           /\ Tasks = {Task} \cup Range(Tail(agenda))
<1>1. IsList(Tail(agenda)) /\ Range(agenda) = {Head(agenda)} \cup Range(Tail(agenda))
  BY FirstAndRest
<1>2. /\ IsList(tasks \o Tail(agenda))
      /\ Range(tasks \o Tail(agenda)) = Range(tasks) \cup Range(Tail(agenda))
  BY <1>1, Concatenated
<1> QED BY <1>1, <1>2 DEF Continue, Tasks, Task, IsList

\* ... of the scopes that are to be closed, ...
LEMMA LeavesStep ==
    ASSUME IsList(agenda), agenda # <<>>, NEW tasks, IsList(tasks), Continue(tasks)
    PROVE  Cardinality(Leaves(agenda))' =
               Cardinality(Leaves(agenda)) + Cardinality(Leaves(tasks))
                   - (IF Task.do = "leave" THEN 1 ELSE 0)
<1>1. IsList(Tail(agenda)) /\ agenda = <<Head(agenda)>> \o Tail(agenda)
  BY FirstAndRest
<1>2. IsList(<<Head(agenda)>>)
  BY OneList
<1>3. Cardinality(Leaves(agenda)) =
          Cardinality(Leaves(<<Head(agenda)>>)) + Cardinality(Leaves(Tail(agenda)))
  <2>1. Cardinality(Leaves(<<Head(agenda)>> \o Tail(agenda))) =
            Cardinality(Leaves(<<Head(agenda)>>)) + Cardinality(Leaves(Tail(agenda)))
    BY <1>1, <1>2, LeavesOfBoth
  <2> QED BY <1>1, <2>1
<1>4. Cardinality(Leaves(tasks \o Tail(agenda))) =
          Cardinality(Leaves(tasks)) + Cardinality(Leaves(Tail(agenda)))
  BY <1>1, LeavesOfBoth
<1>5. Cardinality(Leaves(<<Head(agenda)>>)) = IF Head(agenda).do = "leave" THEN 1 ELSE 0
  BY LeavesOfOne
<1>6. /\ Cardinality(Leaves(tasks)) \in Nat /\ Cardinality(Leaves(agenda)) \in Nat
      /\ Cardinality(Leaves(Tail(agenda))) \in Nat
  BY <1>1, LeavesFinite
<1>7. Cardinality(Leaves(agenda))' = Cardinality(Leaves(tasks \o Tail(agenda)))
  BY DEF Continue, Leaves
<1>8. Task = Head(agenda)
  BY DEF Task
<1> QED BY <1>3, <1>4, <1>5, <1>6, <1>7, <1>8

\* ... and of the nodes that are to be added.
LEMMA JobsOfBoth ==
    ASSUME NEW s, IsList(s), NEW t, IsList(t), JobsAreDistinct(s), JobsAreDistinct(t),
           \A p \in Range(s), q \in Range(t) : Job(p) # NoType => Job(p) # Job(q)
    PROVE  JobsAreDistinct(s \o t)
<1> SUFFICES ASSUME NEW i \in DOMAIN (s \o t), NEW j \in DOMAIN (s \o t),
                    Job((s \o t)[i]) # NoType, Job((s \o t)[i]) = Job((s \o t)[j])
             PROVE  i = j
  BY DEF JobsAreDistinct
<1>1. /\ Len(s) \in Nat /\ Len(t) \in Nat
      /\ DOMAIN s = 1..Len(s) /\ DOMAIN t = 1..Len(t)
      /\ \A n \in DOMAIN s : s[n] \in Range(s)
      /\ \A n \in DOMAIN t : t[n] \in Range(t)
  BY ListFacts
<1>2. /\ \A n \in DOMAIN s : (s \o t)[n] = s[n]
      /\ \A n \in DOMAIN t : (s \o t)[Len(s) + n] = t[n]
      /\ DOMAIN (s \o t) = 1..(Len(s) + Len(t))
  <2>1. /\ \A n \in DOMAIN s : (s \o t)[n] = s[n]
        /\ \A n \in DOMAIN t : (s \o t)[Len(s) + n] = t[n]
        /\ IsList(s \o t) /\ Len(s \o t) = Len(s) + Len(t)
    BY Concatenated
  <2>2. DOMAIN (s \o t) = 1..Len(s \o t)
    BY <2>1, ListFacts
  <2> QED BY <2>1, <2>2
<1>3. \A n \in DOMAIN (s \o t) :
          \/ n \in DOMAIN s /\ (s \o t)[n] = s[n]
          \/ \E m \in DOMAIN t : n = Len(s) + m /\ (s \o t)[n] = t[m]
  <2> SUFFICES ASSUME NEW n \in 1..(Len(s) + Len(t)), n \notin 1..Len(s)
               PROVE  \E m \in DOMAIN t : n = Len(s) + m
    BY <1>1, <1>2
  <2>1. n - Len(s) \in 1..Len(t) /\ n = Len(s) + (n - Len(s))
    BY <1>1
  <2> QED BY <1>1, <2>1
<1> QED BY <1>1, <1>3 DEF JobsAreDistinct

LEMMA JobsOfRest ==
    ASSUME IsList(agenda), agenda # <<>>, JobsAreDistinct(agenda)
    PROVE  /\ JobsAreDistinct(Tail(agenda))
           /\ \A t \in Range(Tail(agenda)) : Job(Task) # NoType => Job(t) # Job(Task)
<1>1. /\ \A i \in DOMAIN Tail(agenda) :
            i + 1 \in DOMAIN agenda /\ Tail(agenda)[i] = agenda[i + 1]
      /\ Len(agenda) > 0 /\ Task = agenda[1] /\ IsList(Tail(agenda))
  BY FirstAndRest DEF Task
<1>2. /\ DOMAIN Tail(agenda) = 1..Len(Tail(agenda)) /\ Len(Tail(agenda)) \in Nat
      /\ 1 \in DOMAIN agenda
  BY <1>1, ListFacts
<1>3. ASSUME NEW i \in DOMAIN Tail(agenda), NEW j \in DOMAIN Tail(agenda),
             Job(Tail(agenda)[i]) # NoType, Job(Tail(agenda)[i]) = Job(Tail(agenda)[j])
      PROVE  i = j
  <2>1. i + 1 = j + 1
    BY <1>1, <1>3 DEF JobsAreDistinct
  <2> QED BY <1>2, <2>1
<1>4. ASSUME NEW i \in DOMAIN Tail(agenda), Job(Task) # NoType
      PROVE  Job(Tail(agenda)[i]) # Job(Task)
  <2>1. i + 1 # 1
    BY <1>2
  <2> QED BY <1>1, <1>2, <1>4, <2>1 DEF JobsAreDistinct
<1> QED BY <1>3, <1>4 DEF JobsAreDistinct, Range

-----------------------------------------------------------------------------
(* What is due stays due.                                                  *)

\* A step of the walk that ends the current task and begins others
StepOf(tasks) ==
    /\ stage = "units" /\ agenda # <<>> /\ IsList(tasks) /\ Continue(tasks)
    /\ UNCHANGED <<file, stage, unit>>

\* What the current task was to see to is done, or others will.
TaskDone ==
    /\ recorded \subseteq recorded' /\ signed \subseteq signed'
    /\ \A d \in DOMAIN file.dies :
           Task \in {Ensure(d), Walk(d), Record(d)} /\ Die(d).tag \in TypeTags =>
               DieId(d) \in recorded' \/ Walked(d)'
    /\ \A key \in DOMAIN UnitTypes : Task = Materialize(key) => Begun(key)'
    /\ \A other \in DOMAIN UnitTypes : Task = Follow(other) =>
           \A key \in AllReferred(other) \cap DOMAIN UnitTypes : Begun(key)' \/ Promised(key)'
    /\ \A d \in DOMAIN file.dies : DieId(d) \in recorded' \ recorded /\ StandsForUnit(d) =>
           Begun(Die(d).signature)'

Progress ==
    /\ recorded \subseteq recorded' /\ signed \subseteq signed'
    /\ \A d \in DOMAIN file.dies :
           Die(d).tag \in TypeTags =>
               /\ Walked(d) => DieId(d) \in recorded' \/ Walked(d)'
               /\ UnderWay(d) => DieId(d) \in recorded' \/ UnderWay(d)'
    /\ \A key \in DOMAIN UnitTypes : Begun(key) => Begun(key)'
    /\ \A key \in DOMAIN UnitTypes : Promised(key) => Begun(key)' \/ Promised(key)'
    /\ \A d \in DOMAIN file.dies : DieId(d) \in recorded' /\ StandsForUnit(d) =>
           Begun(Die(d).signature)'

LEMMA SameFile ==
    ASSUME file' = file
    PROVE  /\ UnitTypes' = UnitTypes
           /\ \A d : Die(d)' = Die(d)
           /\ \A d : StandsForUnit(d)' <=> StandsForUnit(d)
           /\ \A key : AllReferred(key)' = AllReferred(key)
           /\ \A reference : TypeId(reference)' = TypeId(reference)
<1>1. UnitTypes' = UnitTypes
  BY DEF UnitTypes
<1>2. \A d : Die(d)' = Die(d)
  BY DEF Die
<1>3. \A d : StandsForUnit(d)' <=> StandsForUnit(d)
  BY <1>1, <1>2 DEF StandsForUnit
<1>4. \A key : AllReferred(key)' = AllReferred(key)
  BY <1>1 DEF AllReferred, Referred
<1>5. \A reference : TypeId(reference)' = TypeId(reference)
  BY <1>1, <1>2, <1>3 DEF TypeId
<1> QED BY <1>1, <1>2, <1>3, <1>4, <1>5

\* The ids of DIEs and keys, and that there is none
LEMMA TypeIds ==
    /\ \A d, e : DieId(d) = DieId(e) => d = e
    /\ \A k, l : KeyId(k) = KeyId(l) => k = l
    /\ \A d, k : DieId(d) # KeyId(k)
    /\ \A d, k, i : DieId(d) # NestedId(k, i) /\ KeyId(d) # NestedId(k, i)
    /\ \A d : DieId(d) # Unknown /\ KeyId(d) # Unknown
    /\ \A d : DieId(d) # NoType /\ KeyId(d) # NoType
    /\ \A d, i : NestedId(d, i) # NoType
    /\ \A k, l, i, j : NestedId(k, i) = NestedId(l, j) => i = j
    /\ Unknown # NoType
BY DEF DieId, KeyId, NestedId, Unknown, NoType

\* The task has the node of a DIE of its own.
LEMMA RecordingTask ==
    ASSUME NEW t, IsTask(t), t.do \in Recording
    PROVE  /\ t.of \in DOMAIN file.dies /\ ~StandsForUnit(t.of) /\ t.node.id = DieId(t.of)
           /\ DieId(t.of) \in recorded /\ NodeDue(t.node)
           /\ Job(t) = DieId(t.of)
<1>1. /\ t.of \in DOMAIN file.dies /\ ~StandsForUnit(t.of)
      /\ DieId(t.of) \in recorded /\ NodeDue(t.node)
      /\ t.node = [id |-> DieId(t.of), target |-> t.node.target,
                    members |-> t.node.members, bases |-> t.node.bases]
  BY DEF IsTask
<1>2. t.node.id = DieId(t.of)
  BY <1>1
<1> QED BY <1>1, <1>2 DEF Job

\* What is recorded and stands for the type of a type unit has begun it.
LEMMA StandInsBegin ==
    ASSUME WalkInv, stage = "units",
           NEW d \in DOMAIN file.dies, DieId(d) \in recorded, StandsForUnit(d)
    PROVE  Begun(Die(d).signature)
<1>1. RecordedHaveNodes /\ NodesAreRecorded /\ \A t \in Tasks : IsTask(t)
  BY DEF WalkInv, WalkUnits, NodesOfTypes, TasksAreSound
<1>2. DieId(d) \notin Ids
  BY <1>1, TypeIds DEF NodesAreRecorded, IsNodeId, Ids
<1>3. ASSUME NEW t \in Tasks, t.do \in Recording PROVE t.node.id # DieId(d)
  BY <1>1, <1>3, TypeIds, RecordingTask
<1>4. \E e \in DOMAIN file.dies : DieId(d) = DieId(e) /\ Begun(Die(e).signature)
  BY <1>1, <1>2, <1>3 DEF RecordedHaveNodes
<1> QED BY <1>4, TypeIds

\* If what has begun stays begun, that of what stands for it does.
LEMMA StandInsStay ==
    ASSUME WalkInv, stage = "units", file' = file,
           \A key \in DOMAIN UnitTypes : Begun(key) => Begun(key)',
           NEW d \in DOMAIN file.dies, DieId(d) \in recorded, StandsForUnit(d)
    PROVE  Begun(Die(d).signature)'
<1>1. PICK key \in DOMAIN UnitTypes : key = Die(d).signature
  BY DEF StandsForUnit
<1>2. Begun(key)'
  BY <1>1, StandInsBegin
<1>3. Die(d).signature' = key
  BY <1>1, SameFile
<1> QED BY <1>2, <1>3

LEMMA AllProgresses ==
    ASSUME WalkInv, NEW tasks, StepOf(tasks), TaskDone
    PROVE  Progress
<1>1. /\ Tasks' = Range(tasks) \cup Range(Tail(agenda))
      /\ Tasks = {Task} \cup Range(Tail(agenda))
  BY AgendaStep DEF WalkInv, WalkUnits, Lists, StepOf
<1>2. /\ UnitTypes' = UnitTypes /\ \A d : Die(d)' = Die(d)
      /\ \A key : AllReferred(key)' = AllReferred(key)
  BY SameFile DEF StepOf
<1>3. recorded \subseteq recorded' /\ signed \subseteq signed'
  BY DEF TaskDone
<1>4. ASSUME NEW d \in DOMAIN file.dies, Die(d).tag \in TypeTags
      PROVE  /\ Walked(d) => DieId(d) \in recorded' \/ Walked(d)'
             /\ UnderWay(d) => DieId(d) \in recorded' \/ UnderWay(d)'
  BY <1>1, <1>4 DEF TaskDone, UnderWay, Walked
<1>5. ASSUME NEW key \in DOMAIN UnitTypes, Begun(key)
      PROVE  Begun(key)'
  BY <1>1, <1>3, <1>5 DEF TaskDone, Begun
<1>6. ASSUME NEW key \in DOMAIN UnitTypes, Promised(key)
      PROVE  Begun(key)' \/ Promised(key)'
  <2>1. PICK other \in DOMAIN UnitTypes : Follow(other) \in Tasks /\ key \in AllReferred(other)
    BY <1>6 DEF Promised
  <2>2. CASE Task = Follow(other)
    BY <2>1, <2>2 DEF TaskDone
  <2>3. CASE Follow(other) \in Tasks'
    BY <1>2, <2>1, <2>3 DEF Promised
  <2> QED BY <1>1, <2>1, <2>2, <2>3
<1>7. ASSUME NEW d \in DOMAIN file.dies, DieId(d) \in recorded', StandsForUnit(d)
      PROVE  Begun(Die(d).signature)'
  <2>1. CASE DieId(d) \in recorded
    BY <1>5, <1>7, <2>1, StandInsStay DEF StepOf
  <2> QED BY <1>7, <2>1 DEF TaskDone
<1> QED BY <1>3, <1>4, <1>5, <1>6, <1>7 DEF Progress

LEMMA KeyStaysDue ==
    ASSUME file' = file, Progress, NEW key, DueKey(key)
    PROVE  DueKey(key)'
<1>1. /\ UnitTypes' = UnitTypes
      /\ \A d : Die(d)' = Die(d) /\ (StandsForUnit(d)' <=> StandsForUnit(d))
  BY SameFile
<1>2. CASE key \notin DOMAIN UnitTypes
  BY <1>1, <1>2 DEF DueKey
<1>3. CASE key \in DOMAIN UnitTypes /\ (Begun(key) \/ Promised(key))
  BY <1>1, <1>3 DEF DueKey, Progress
<1>4. CASE Represented(key)
  <2>1. PICK d \in DOMAIN file.dies :
            StandsForUnit(d) /\ Die(d).signature = key /\ UnderWay(d)
    BY <1>4 DEF Represented
  <2>2. DieId(d) \in recorded' \/ UnderWay(d)'
    <3>1. Die(d).tag \in TypeTags
      BY <2>1 DEF StandsForUnit
    <3> QED BY <2>1, <3>1 DEF Progress
  <2>3. CASE DieId(d) \in recorded'
    <3>1. Begun(Die(d).signature)'
      BY <2>1, <2>3 DEF Progress
    <3>2. Die(d).signature' = key
      BY <1>1, <2>1
    <3> QED BY <3>1, <3>2 DEF DueKey
  <2>4. CASE UnderWay(d)'
    BY <1>1, <2>1, <2>4 DEF Represented, DueKey
  <2> QED BY <2>2, <2>3, <2>4
<1> QED BY <1>2, <1>3, <1>4 DEF DueKey

LEMMA DueStays ==
    ASSUME file' = file, Progress, NEW id, Due(id)
    PROVE  Due(id)'
<1>1. \A d : Die(d)' = Die(d) /\ (StandsForUnit(d)' <=> StandsForUnit(d))
  BY SameFile
<1>2. ASSUME NEW d \in DOMAIN file.dies, DueDie(d) PROVE DueDie(d)'
  BY <1>1, <1>2 DEF DueDie, Progress
<1> QED BY <1>2, KeyStaysDue DEF Due

LEMMA NodeDueStays ==
    ASSUME file' = file, Progress, NEW node, NodeDue(node)
    PROVE  NodeDue(node)'
BY DueStays DEF NodeDue

LEMMA TaskStays ==
    ASSUME file' = file, Progress, NEW t, IsTask(t)
    PROVE  IsTask(t)'
<1>1. /\ UnitTypes' = UnitTypes
      /\ \A d : Die(d)' = Die(d) /\ (StandsForUnit(d)' <=> StandsForUnit(d))
      /\ \A reference : TypeId(reference)' = TypeId(reference)
  BY SameFile
<1>2. recorded \subseteq recorded' /\ signed \subseteq signed'
  BY DEF Progress
<1>3. t.do \in Recording => NodeDue(t.node)'
  BY NodeDueStays DEF IsTask
<1>4. t.do = "place" => Due(TypeId(Die(t.die).type))'
  <2>1. t.do = "place" => Due(TypeId(Die(t.die).type))
    BY DEF IsTask
  <2>2. PICK id : id = TypeId(Die(t.die).type)
    OBVIOUS
  <2>3. Due(id) => Due(id)'
    BY DueStays
  <2>4. TypeId(Die(t.die).type)' = id
    BY <1>1, <2>2
  <2> QED BY <2>1, <2>2, <2>3, <2>4
<1>5. t.do \in Variables => Due(t.variable.type)'
  BY DueStays DEF IsTask
<1> QED BY <1>1, <1>2, <1>3, <1>4, <1>5 DEF IsTask

\* The type of a reference that is referred to is due.
LEMMA Referring ==
    ASSUME IsFile(file), file' = file, NEW reference, NEW id, id = TypeId(reference),
           \A t \in Range(Refer(reference)) : t \in Tasks'
    PROVE  Due(id)'
<1>1. /\ UnitTypes' = UnitTypes
      /\ \A d : Die(d)' = Die(d) /\ (StandsForUnit(d)' <=> StandsForUnit(d))
  BY SameFile
<1>2. CASE reference = Nowhere
  <2>1. id = Unknown
    BY <1>2, UnitTypesAre DEF IsFile, TypeId
  <2> QED BY <2>1 DEF Due
<1>3. CASE reference # Nowhere /\ reference \in DOMAIN file.dies
  <2>1. Ensure(reference) \in Tasks'
    BY <1>3, OneList DEF Refer
  <2>2. UnderWay(reference)'
    BY <2>1 DEF UnderWay
  <2>3. CASE StandsForUnit(reference)
    <3>1. id = KeyId(Die(reference).signature)
      BY <1>3, <2>3 DEF TypeId
    <3>2. PICK key : key = Die(reference).signature
      OBVIOUS
    <3>3. DueKey(key)'
      BY <1>1, <1>3, <2>2, <2>3, <3>2 DEF DueKey, Represented
    <3> QED BY <3>1, <3>2, <3>3 DEF Due
  <2>4. CASE ~StandsForUnit(reference)
    <3>1. id = DieId(reference)
      BY <1>3, <2>4 DEF TypeId
    <3>2. DueDie(reference)'
      BY <1>1, <1>3, <2>2, <2>4 DEF DueDie
    <3> QED BY <1>1, <1>3, <3>1, <3>2 DEF Due
  <2> QED BY <2>3, <2>4
<1>4. CASE reference # Nowhere /\ reference \notin DOMAIN file.dies
  <2>1. Materialize(reference) \in Tasks'
    BY <1>4, OneList DEF Refer
  <2>2. DueKey(reference)'
    BY <2>1 DEF DueKey, Begun
  <2>3. id \in {KeyId(reference), Unknown}
    BY <1>4 DEF TypeId
  <2> QED BY <2>2, <2>3 DEF Due
<1> QED BY <1>2, <1>3, <1>4

-----------------------------------------------------------------------------
(* The parts of the invariant behind a step.                               *)

\* The tasks before the step and behind it
LEMMA TasksOfStep ==
    ASSUME WalkInv, NEW tasks, StepOf(tasks)
    PROVE  /\ Tasks' = Range(tasks) \cup Range(Tail(agenda))
           /\ Tasks = {Task} \cup Range(Tail(agenda))
           /\ IsList(agenda)' /\ IsTask(Task) /\ WalkUnits
<1>1. IsList(agenda) /\ agenda # <<>> /\ IsList(tasks) /\ Continue(tasks)
  BY DEF WalkInv, WalkUnits, Lists, StepOf
<1>2. /\ Tasks' = Range(tasks) \cup Range(Tail(agenda))
      /\ Tasks = {Task} \cup Range(Tail(agenda))
      /\ IsList(agenda)'
  BY <1>1, AgendaStep
<1>3. IsTask(Task) /\ WalkUnits
  BY <1>2 DEF WalkInv, WalkUnits, TasksAreSound, StepOf
<1> QED BY <1>2, <1>3

LEMMA TasksStay ==
    ASSUME WalkInv, NEW tasks, StepOf(tasks), Progress, \A t \in Range(tasks) : IsTask(t)'
    PROVE  TasksAreSound'
<1>1. \A t \in Range(Tail(agenda)) : IsTask(t)
  BY TasksOfStep DEF WalkUnits, TasksAreSound
<1>2. \A t \in Range(Tail(agenda)) : IsTask(t)'
  BY <1>1, TaskStays DEF StepOf
<1> QED BY <1>2, TasksOfStep DEF TasksAreSound

LEMMA LoadingStays ==
    ASSUME WalkInv, NEW tasks, StepOf(tasks), Progress,
           \A d : Task = Ensured(d) => DieId(d) \notin loading',
           \A key : Task = RecordUnit(key) => KeyId(key) \notin loading',
           \A id \in loading' \ loading : LoadingEnd(id)'
    PROVE  LoadingEnds'
<1>1. ASSUME NEW id \in loading, id \in loading' PROVE LoadingEnd(id)'
  <2>1. LoadingEnd(id)
    BY TasksOfStep DEF WalkUnits, LoadingEnds
  <2>2. ASSUME NEW d \in DOMAIN file.dies, id = DieId(d), Ensured(d) \in Tasks,
               Die(d).tag \in TypeTags => DieId(d) \in recorded \/ Walked(d)
        PROVE  LoadingEnd(id)'
    <3>1. Ensured(d) \in Tasks'
      BY <1>1, <2>2, TasksOfStep
    <3>2. Die(d).tag \in TypeTags => DieId(d) \in recorded' \/ Walked(d)'
      BY <2>2 DEF Progress
    <3>3. Die(d)' = Die(d) /\ file' = file /\ id = DieId(d)'
      BY <2>2, SameFile DEF StepOf, DieId
    <3> QED BY <3>1, <3>2, <3>3 DEF LoadingEnd
  <2>3. ASSUME NEW key, id = KeyId(key), RecordUnit(key) \in Tasks
        PROVE  LoadingEnd(id)'
    BY <1>1, <2>3, TasksOfStep DEF LoadingEnd
  <2> QED BY <2>1, <2>2, <2>3 DEF LoadingEnd
<1> QED BY <1>1 DEF LoadingEnds

LEMMA ScopesStay ==
    ASSUME WalkInv, NEW tasks, StepOf(tasks), UNCHANGED scopes, Task.do # "leave",
           \A t \in Range(tasks) : t.do # "leave"
    PROVE  ScopesClose'
<1>1. Cardinality(Leaves(tasks)) = 0
  BY NoLeaves DEF StepOf
<1>2. Cardinality(Leaves(agenda)) = Len(scopes) /\ IsList(agenda)
  BY TasksOfStep DEF WalkUnits, ScopesClose, Lists
<1>3. Cardinality(Leaves(agenda)) \in Nat
  BY <1>2, LeavesFinite
<1>4. Cardinality(Leaves(agenda))' = Cardinality(Leaves(agenda))
  BY <1>1, <1>2, <1>3, LeavesStep DEF StepOf
<1> QED BY <1>2, <1>4 DEF ScopesClose

LEMMA VariablesStay ==
    ASSUME WalkInv, NEW tasks, StepOf(tasks), Progress, UNCHANGED variables
    PROVE  VariablesAreDue'
BY TasksOfStep, DueStays DEF WalkUnits, VariablesAreDue, StepOf

LEMMA JobsStay ==
    ASSUME WalkInv, NEW tasks, StepOf(tasks), JobsAreDistinct(tasks),
           \A t \in Range(tasks) :
               \/ Job(t) \in {NoType, Job(Task)}
               \/ \A q \in Tasks : Job(q) # Job(t)
    PROVE  JobsAreDistinct(agenda)'
<1>1. /\ IsList(agenda) /\ agenda # <<>> /\ JobsAreDistinct(agenda) /\ IsList(tasks)
      /\ Tasks = {Task} \cup Range(Tail(agenda))
  BY TasksOfStep DEF WalkUnits, Lists, NodesOfTypes, StepOf
<1>2. /\ JobsAreDistinct(Tail(agenda)) /\ IsList(Tail(agenda))
      /\ \A t \in Range(Tail(agenda)) : Job(Task) # NoType => Job(t) # Job(Task)
  BY <1>1, JobsOfRest, FirstAndRest
<1>3. \A p \in Range(tasks), q \in Range(Tail(agenda)) : Job(p) # NoType => Job(p) # Job(q)
  BY <1>1, <1>2
<1>4. JobsAreDistinct(tasks \o Tail(agenda))
  BY <1>1, <1>2, <1>3, JobsOfBoth
<1>5. agenda' = tasks \o Tail(agenda)
  BY DEF StepOf, Continue
<1> QED BY <1>4, <1>5 DEF JobsAreDistinct

\* The nodes are kept where none is lost, and new ones are what they are to be.
LEMMA NodesGrow ==
    ASSUME WalkUnits, file' = file, Progress, JobsAreDistinct(agenda)', IdsAreDistinct',
           \A i \in DOMAIN types : i \in DOMAIN types' /\ types'[i] = types[i],
           \A i : i \in DOMAIN types' /\ i \notin DOMAIN types =>
               (types[i].id \in recorded /\ IsNodeId(types[i].id, i) /\ NodeDue(types[i]))',
           \A t \in Tasks : t.do \in Recording =>
               \/ t.node.id \in Ids'
               \/ \E q \in Tasks' : q.do \in Recording /\ q.node.id = t.node.id,
           \A key : RecordUnit(key) \in Tasks =>
               RecordUnit(key) \in Tasks' \/ KeyId(key) \in Ids',
           \A id \in recorded' \ recorded :
               \/ id \in Ids'
               \/ \E t \in Tasks' : t.do \in Recording /\ t.node.id = id
               \/ \E d \in DOMAIN file.dies : id = DieId(d) /\ StandsForUnit(d),
           \A key \in signed' \ signed :
               /\ key \in DOMAIN UnitTypes /\ RecordUnit(key) \in Tasks'
               /\ \A other \in AllReferred(key) : DueKey(other)'
    PROVE  NodesOfTypes'
<1>1. NodesOfTypes /\ Lists
  BY DEF WalkUnits
<1>2. /\ UnitTypes' = UnitTypes /\ \A key : AllReferred(key)' = AllReferred(key)
      /\ \A d : Die(d)' = Die(d) /\ (StandsForUnit(d)' <=> StandsForUnit(d))
  BY SameFile
<1>3. Ids \subseteq Ids'
  BY DEF Ids
<1>4. recorded \subseteq recorded' /\ signed \subseteq signed'
  BY DEF Progress
<1>5. NodesAreRecorded'
  <2> SUFFICES ASSUME NEW i \in DOMAIN types
               PROVE  (types[i].id \in recorded /\ IsNodeId(types[i].id, i) /\ NodeDue(types[i]))'
    BY DEF NodesAreRecorded
  <2>1. types[i].id \in recorded /\ IsNodeId(types[i].id, i) /\ NodeDue(types[i])
    BY <1>1 DEF NodesOfTypes, NodesAreRecorded
  <2>2. PICK node : node = types[i]
    OBVIOUS
  <2>3. IsNodeId(node.id, i)'
    BY <1>2, <1>4, <2>1, <2>2 DEF IsNodeId, DieId, KeyId, NestedId
  <2>4. NodeDue(node)'
    BY <2>1, <2>2, NodeDueStays
  <2>5. types'[i] = node /\ node.id \in recorded'
    BY <1>4, <2>1, <2>2
  <2> QED BY <2>3, <2>4, <2>5
<1>6. RecordedHaveNodes'
  <2> SUFFICES ASSUME NEW id \in recorded', id \notin Ids',
                      ~\E t \in Tasks' : t.do \in Recording /\ t.node.id = id
               PROVE  (\E d \in DOMAIN file.dies :
                          id = DieId(d) /\ StandsForUnit(d) /\ Begun(Die(d).signature))'
    BY DEF RecordedHaveNodes
  <2>1. ~\E t \in Tasks : t.do \in Recording /\ t.node.id = id
    OBVIOUS
  <2>2. \E d \in DOMAIN file.dies : id = DieId(d) /\ StandsForUnit(d)
    BY <1>1, <1>3, <2>1 DEF NodesOfTypes, RecordedHaveNodes
  <2>3. PICK d \in DOMAIN file.dies : id = DieId(d) /\ StandsForUnit(d)
    BY <2>2
  <2>4. Begun(Die(d).signature)' /\ StandsForUnit(d)'
    BY <1>2, <2>3 DEF Progress
  <2> QED BY <2>3, <2>4 DEF DieId
<1>7. SignedHaveNodes'
  <2> SUFFICES ASSUME NEW key \in signed'
               PROVE  (/\ key \in DOMAIN UnitTypes
                       /\ KeyId(key) \in Ids \/ RecordUnit(key) \in Tasks
                       /\ \A other \in AllReferred(key) : DueKey(other))'
    BY DEF SignedHaveNodes
  <2>1. CASE key \in signed
    <3>1. /\ key \in DOMAIN UnitTypes
          /\ KeyId(key) \in Ids \/ RecordUnit(key) \in Tasks
          /\ \A other \in AllReferred(key) : DueKey(other)
      BY <1>1, <2>1 DEF NodesOfTypes, SignedHaveNodes
    <3>2. KeyId(key) \in Ids' \/ RecordUnit(key) \in Tasks'
      BY <1>3, <3>1
    <3>3. (\A other \in AllReferred(key) : DueKey(other))'
      BY <1>2, <3>1, KeyStaysDue
    <3> QED BY <1>2, <3>1, <3>2, <3>3
  <2>2. CASE key \notin signed
    <3>1. (\A other \in AllReferred(key) : DueKey(other))'
      BY <1>2, <2>2
    <3> QED BY <1>2, <2>2, <3>1
  <2> QED BY <2>1, <2>2
<1> QED BY <1>5, <1>6, <1>7 DEF NodesOfTypes

\* A step that records nothing and begins no type of a type unit keeps the
\* nodes, if the one of its task goes on.
LEMMA NodesStay ==
    ASSUME WalkUnits, file' = file, Progress, UNCHANGED <<recorded, signed, types>>,
           JobsAreDistinct(agenda)',
           \A t \in Tasks' : Job(t) = NoType \/ \E q \in Tasks : Job(q) = Job(t),
           \A t \in Tasks : t.do \in Recording =>
               \E q \in Tasks' : q.do \in Recording /\ q.node.id = t.node.id,
           \A key : RecordUnit(key) \in Tasks => RecordUnit(key) \in Tasks'
    PROVE  NodesOfTypes'
<1>1. IdsAreDistinct
  BY DEF WalkUnits, NodesOfTypes
<1>2. Ids' = Ids
  BY DEF Ids
<1>3. \A t \in Tasks' : Job(t) # NoType => Job(t) \notin Ids
  BY <1>1 DEF IdsAreDistinct
<1>4. IdsAreDistinct'
  BY <1>1, <1>2, <1>3 DEF IdsAreDistinct
<1> QED BY <1>4, NodesGrow

-----------------------------------------------------------------------------
(* The tasks.                                                              *)

LEMMA Shapes ==
    /\ \A d : /\ Walk(d).do = "walk" /\ Walk(d).die = d
             /\ Ensure(d).do = "ensure" /\ Ensure(d).die = d
             /\ Ensured(d).do = "ensured" /\ Ensured(d).die = d
             /\ Record(d).do = "type" /\ Record(d).die = d
    /\ \A key : /\ Materialize(key).do = "signature" /\ Materialize(key).key = key
               /\ Follow(key).do = "references" /\ Follow(key).key = key
               /\ RecordUnit(key).do = "unit type" /\ RecordUnit(key).key = key
    /\ Leave.do = "leave"
BY DEF Walk, Ensure, Ensured, Record, Materialize, Follow, RecordUnit, Leave

\* Tasks without a node and without a scope
Plain == {"walk", "ensure", "type", "signature", "references", "variable", "locate",
          "inherit", "relocate", "ensured"}

LEMMA PlainHasNoJob ==
    ASSUME NEW t, t.do \in Plain \cup {"leave"}
    PROVE  /\ Job(t) = NoType /\ t.do \notin Recording /\ t.do # "unit type"
           /\ t.do \in Plain => t.do # "leave"
BY DEF Plain, Job, Recording

LEMMA OtherTasks ==
    ASSUME NEW t
    PROVE  /\ t.do # "walk" => \A d : t # Walk(d)
           /\ t.do # "ensure" => \A d : t # Ensure(d)
           /\ t.do # "ensured" => \A d : t # Ensured(d)
           /\ t.do # "type" => \A d : t # Record(d)
           /\ t.do # "signature" => \A key : t # Materialize(key)
           /\ t.do # "references" => \A key : t # Follow(key)
           /\ t.do # "unit type" => \A key : t # RecordUnit(key)
<1>1. t.do # "walk" => \A d : t # Walk(d)
  BY DEF Walk
<1>2. t.do # "ensure" => \A d : t # Ensure(d)
  BY DEF Ensure
<1>3. t.do # "ensured" => \A d : t # Ensured(d)
  BY DEF Ensured
<1>4. t.do # "type" => \A d : t # Record(d)
  BY DEF Record
<1>5. t.do # "signature" => \A key : t # Materialize(key)
  BY DEF Materialize
<1>6. t.do # "references" => \A key : t # Follow(key)
  BY DEF Follow
<1>7. ASSUME t.do # "unit type", NEW key PROVE t # RecordUnit(key)
  <2>1. RecordUnit(key).do = "unit type"
    BY Shapes
  <2> QED BY <1>7, <2>1
<1> QED BY <1>1, <1>2, <1>3, <1>4, <1>5, <1>6, <1>7

\* A task that sees to no type is done at once.
LEMMA NothingToSee ==
    ASSUME UNCHANGED <<recorded, signed>>,
           Task.do \notin {"walk", "ensure", "type", "signature", "references"}
    PROVE  TaskDone
BY OtherTasks DEF TaskDone

LEMMA NoJobs ==
    ASSUME NEW tasks, IsList(tasks), \A t \in Range(tasks) : Job(t) = NoType
    PROVE  JobsAreDistinct(tasks)
BY ListFacts DEF JobsAreDistinct

\* The tasks that a step may add
LEMMA DieTasks ==
    ASSUME NEW d, d \in DOMAIN file.dies, file' = file
    PROVE  /\ IsTask(Walk(d))' /\ IsTask(Ensure(d))' /\ IsTask(Ensured(d))'
           /\ IsTask(Record(d))'
<1>1. IsTask(Walk(d))'
  BY DEF IsTask, Walk, Recording, Variables
<1>2. IsTask(Ensure(d))'
  BY DEF IsTask, Ensure, Recording, Variables
<1>3. IsTask(Ensured(d))'
  BY DEF IsTask, Ensured, Recording, Variables
<1>4. IsTask(Record(d))'
  BY DEF IsTask, Record, Recording, Variables
<1> QED BY <1>1, <1>2, <1>3, <1>4

LEMMA KeyTasks ==
    ASSUME NEW key, file' = file
    PROVE  /\ IsTask(Materialize(key))' /\ IsTask(Leave)'
           /\ key \in DOMAIN UnitTypes => IsTask(Follow(key))'
           /\ key \in signed' => IsTask(RecordUnit(key))'
<1>1. UnitTypes' = UnitTypes
  BY SameFile
<1>2. IsTask(Materialize(key))'
  BY DEF IsTask, Materialize, Recording, Variables
<1>3. IsTask(Leave)'
  BY DEF IsTask, Leave, Recording, Variables
<1>4. ASSUME key \in DOMAIN UnitTypes PROVE IsTask(Follow(key))'
  BY <1>1, <1>4 DEF IsTask, Follow, Recording, Variables
<1>5. ASSUME key \in signed' PROVE IsTask(RecordUnit(key))'
  BY <1>5 DEF IsTask, RecordUnit, Recording, Variables
<1> QED BY <1>2, <1>3, <1>4, <1>5

LEMMA ReferTasks ==
    ASSUME NEW reference, file' = file
    PROVE  /\ IsList(Refer(reference))
           /\ \A t \in Range(Refer(reference)) : t.do \in {"ensure", "signature"} /\ IsTask(t)'
<1>1. CASE reference = Nowhere
  BY <1>1, NoList DEF Refer
<1>2. CASE reference # Nowhere /\ reference \in DOMAIN file.dies
  <2>1. Refer(reference) = <<Ensure(reference)>>
    BY <1>2 DEF Refer
  <2>2. IsList(Refer(reference)) /\ Range(Refer(reference)) = {Ensure(reference)}
    BY <2>1, OneList
  <2>3. Ensure(reference).do = "ensure" /\ IsTask(Ensure(reference))'
    BY <1>2, Shapes, DieTasks
  <2>4. \A t \in Range(Refer(reference)) : t = Ensure(reference)
    BY <2>2
  <2> QED BY <2>2, <2>3, <2>4
<1>3. CASE reference # Nowhere /\ reference \notin DOMAIN file.dies
  <2>1. Refer(reference) = <<Materialize(reference)>>
    BY <1>3 DEF Refer
  <2>2. IsList(Refer(reference)) /\ Range(Refer(reference)) = {Materialize(reference)}
    BY <2>1, OneList
  <2>3. Materialize(reference).do = "signature" /\ IsTask(Materialize(reference))'
    BY Shapes, KeyTasks
  <2>4. \A t \in Range(Refer(reference)) : t = Materialize(reference)
    BY <2>2
  <2> QED BY <2>2, <2>3, <2>4
<1> QED BY <1>1, <1>2, <1>3

\* A task without a node only begins others without one.
LEMMA StepWithoutNode ==
    ASSUME WalkInv, NEW tasks, StepOf(tasks), Progress,
           Task.do \in Plain \cup {"leave"},
           \A t \in Range(tasks) : t.do \in Plain \cup {"leave"} /\ IsTask(t)',
           UNCHANGED <<recorded, signed, types>>,
           IsList(scopes)', IsList(variables)',
           ScopesClose', LoadingEnds', VariablesAreDue'
    PROVE  WalkInv'
<1>1. /\ WalkUnits /\ Tasks' = Range(tasks) \cup Range(Tail(agenda))
      /\ Tasks = {Task} \cup Range(Tail(agenda))
  BY TasksOfStep
<1>2. \A t \in Range(tasks) : Job(t) = NoType
  BY PlainHasNoJob
<1>3. JobsAreDistinct(agenda)'
  <2>1. JobsAreDistinct(tasks)
    BY <1>2, NoJobs DEF StepOf
  <2> QED BY <1>2, <2>1, JobsStay
<1>4. Task.do \notin Recording \cup {"unit type"}
  BY PlainHasNoJob
<1>5. \A key : RecordUnit(key) \in Tasks => RecordUnit(key) \in Tasks'
  BY <1>1, <1>4, OtherTasks
<1>6. NodesOfTypes'
  BY <1>1, <1>2, <1>3, <1>4, <1>5, NodesStay DEF StepOf
<1>7. TasksAreSound'
  BY TasksStay
<1>8. Lists'
  BY <1>1, TasksOfStep DEF WalkUnits, Lists, StepOf, IsList
<1> QED BY <1>6, <1>7, <1>8 DEF WalkInv, WalkUnits, StepOf

\* Nor does it open or close a scope.
LEMMA PlainStep ==
    ASSUME WalkInv, NEW tasks, StepOf(tasks), TaskDone, Task.do \in Plain \ {"ensured"},
           \A t \in Range(tasks) : t.do \in Plain /\ (Progress => IsTask(t)'),
           UNCHANGED <<scopes, recorded, loading, signed, types>>,
           IsList(variables)', Progress => VariablesAreDue'
    PROVE  WalkInv'
<1>1. Progress
  BY AllProgresses
<1>2. \A t \in Range(tasks) : t.do # "leave"
  BY PlainHasNoJob
<1>3. Task.do \notin {"leave", "unit type", "ensured"}
  BY PlainHasNoJob
<1>4. ScopesClose'
  BY <1>2, <1>3, ScopesStay
<1>5. LoadingEnds'
  <2>1. (\A d : Task # Ensured(d)) /\ (\A key : Task # RecordUnit(key))
    BY <1>3, OtherTasks
  <2> QED BY <1>1, <2>1, LoadingStays
<1>6. IsList(scopes)'
  BY TasksOfStep DEF WalkUnits, Lists, IsList
<1> QED BY <1>1, <1>4, <1>5, <1>6, StepWithoutNode

\* A step that opens and closes no scope and finds no variable
LEMMA TypeStep ==
    ASSUME WalkInv, NEW tasks, StepOf(tasks), Progress, Task.do # "leave",
           \A t \in Range(tasks) : t.do # "leave" /\ IsTask(t)',
           UNCHANGED <<scopes, variables>>,
           IsList(types)', NodesOfTypes', LoadingEnds'
    PROVE  WalkInv'
<1>1. WalkUnits /\ IsList(agenda)'
  BY TasksOfStep
<1>2. ScopesClose' /\ TasksAreSound' /\ VariablesAreDue'
  BY ScopesStay, TasksStay, VariablesStay
<1>3. Lists'
  BY <1>1 DEF WalkUnits, Lists, StepOf, IsList
<1> QED BY <1>2, <1>3 DEF WalkInv, WalkUnits, StepOf

-----------------------------------------------------------------------------
(* The steps that are about variables.                                     *)

\* One that leaves all but variables alone
LEMMA VariableStep ==
    ASSUME WalkInv, NEW tasks, StepOf(tasks), Task.do \in Variables \cup {"variable"},
           \A t \in Range(tasks) : t.do \in Plain /\ (Progress => IsTask(t)'),
           UNCHANGED <<scopes, recorded, loading, signed, types>>,
           IsList(variables)', Progress => VariablesAreDue'
    PROVE  WalkInv'
<1>1. /\ Task.do \in Plain \ {"ensured"}
      /\ Task.do \notin {"walk", "ensure", "type", "signature", "references"}
  BY DEF Plain, Variables
<1>2. TaskDone
  BY <1>1, NothingToSee
<1> QED BY <1>1, <1>2, PlainStep

\* The task of a variable whose type is due
LEMMA VariableTask ==
    ASSUME NEW t, t.do \in Variables, "type" \in DOMAIN t.variable, Due(t.variable.type)'
    PROVE  IsTask(t)' /\ t.do \in Plain
BY DEF IsTask, Variables, Recording, Plain

\* The tasks of a reference and one behind it
LEMMA ReferThen ==
    ASSUME NEW reference, NEW t, file' = file
    PROVE  /\ IsList(Refer(reference) \o <<t>>)
           /\ Range(Refer(reference) \o <<t>>) = Range(Refer(reference)) \cup {t}
           /\ \A q \in Range(Refer(reference)) : q.do \in Plain /\ IsTask(q)'
<1>1. /\ IsList(Refer(reference))
      /\ \A q \in Range(Refer(reference)) : q.do \in {"ensure", "signature"} /\ IsTask(q)'
  BY ReferTasks
<1>2. IsList(<<t>>) /\ Range(<<t>>) = {t}
  BY OneList
<1> QED BY <1>1, <1>2, Concatenated DEF Plain

\* A task of a variable that follows those of the reference to its type
LEMMA VariableRefers ==
    ASSUME WalkInv, Task.do \in Variables \cup {"variable"},
           NEW reference, NEW t, StepOf(Refer(reference) \o <<t>>),
           t.do \in Variables, "type" \in DOMAIN t.variable,
           t.variable.type = TypeId(reference),
           UNCHANGED <<scopes, recorded, loading, signed, types, variables>>
    PROVE  WalkInv'
<1> DEFINE tasks == Refer(reference) \o <<t>>
<1>1. file' = file
  BY DEF StepOf
<1>2. /\ IsList(tasks) /\ Range(tasks) = Range(Refer(reference)) \cup {t}
      /\ \A q \in Range(Refer(reference)) : q.do \in Plain /\ IsTask(q)'
  BY <1>1, ReferThen
<1>3. StepOf(tasks)
  OBVIOUS
<1> HIDE DEF tasks
<1>4. \A q \in Range(Refer(reference)) : q \in Tasks'
  BY <1>2, <1>3, TasksOfStep
<1>5. Due(t.variable.type)'
  BY <1>1, <1>4, Referring DEF WalkInv
<1>6. IsTask(t)' /\ t.do \in Plain
  BY <1>5, VariableTask
<1>7. IsList(variables)' /\ (Progress => VariablesAreDue')
  BY <1>3, TasksOfStep, VariablesStay DEF WalkUnits, Lists, IsList
<1> QED BY <1>2, <1>3, <1>6, <1>7, VariableStep

\* A task of the same variable, with the same type
LEMMA VariableGoesOn ==
    ASSUME WalkInv, Task.do \in Variables, NEW t, StepOf(<<t>>),
           t.do \in Variables, "type" \in DOMAIN t.variable,
           t.variable.type = Task.variable.type,
           UNCHANGED <<scopes, recorded, loading, signed, types, variables>>
    PROVE  WalkInv'
<1>1. IsTask(Task)
  BY TasksOfStep
<1>2. Due(t.variable.type)
  BY <1>1 DEF IsTask
<1>3. Progress => Due(t.variable.type)'
  BY <1>2, DueStays DEF StepOf
<1>4. t.do \in Plain /\ (Progress => IsTask(t)')
  BY <1>3, VariableTask DEF Variables, Plain
<1>5. \A q \in Range(<<t>>) : q = t
  BY OneList
<1>6. IsList(variables)' /\ (Progress => VariablesAreDue')
  BY TasksOfStep, VariablesStay DEF WalkUnits, Lists, IsList
<1> QED BY <1>4, <1>5, <1>6, VariableStep

\* The task of a variable that is left out or stored
LEMMA VariableEnds ==
    ASSUME WalkInv, Task.do \in Variables \cup {"variable"}, StepOf(<<>>),
           UNCHANGED <<scopes, recorded, loading, signed, types>>,
           IsList(variables)', Progress => VariablesAreDue'
    PROVE  WalkInv'
BY NoList, VariableStep

LEMMA BeginVariableStep == ASSUME WalkInv, BeginVariable PROVE WalkInv'
<1> DEFINE d == Task.die
           v == [die       |-> d,
                 unit      |-> file.units[unit].name,
                 name      |-> NameOr(d, Nameless),
                 scope     |-> [i \in DOMAIN scopes |-> scopes[i].name],
                 type      |-> TypeId(Die(d).type),
                 linkage   |-> Die(d).linkage,
                 address   |-> Absent,
                 constant  |-> FALSE,
                 text      |-> "missing",
                 availability |-> "Unavailable",
                 tls       |-> FALSE,
                 storage   |-> FALSE,
                 member    |-> scopes # <<>> /\ Last(scopes).tag \in ClassTags,
                 kind      |-> "Local"]
           locate == [do |-> "locate", die |-> d, variable |-> v]
<1>1. /\ stage = "units" /\ agenda # <<>> /\ Task.do = "variable"
      /\ UNCHANGED <<file, stage, unit, scopes, recorded, loading, signed, types, variables>>
  BY DEF BeginVariable, Doing, Task, unchangedWalk
<1>2. PICK reference : reference = Die(d).type
  OBVIOUS
<1>3. Continue(<<>>) \/ Continue(Refer(reference) \o <<locate>>)
  BY <1>2 DEF BeginVariable
<1>4. v.type = TypeId(reference) /\ "type" \in DOMAIN v
  BY <1>2
<1> HIDE DEF v
<1>5. locate.do = "locate" /\ locate.variable = v
  OBVIOUS
<1> HIDE DEF locate
<1>6. CASE Continue(<<>>)
  <2>1. StepOf(<<>>)
    BY <1>1, <1>6, NoList DEF StepOf
  <2>2. IsList(variables)' /\ (Progress => VariablesAreDue')
    BY <1>1, <2>1, TasksOfStep, VariablesStay DEF WalkUnits, Lists, IsList
  <2> QED BY <1>1, <2>1, <2>2, VariableEnds
<1>7. CASE Continue(Refer(reference) \o <<locate>>)
  <2>1. StepOf(Refer(reference) \o <<locate>>)
    BY <1>1, <1>7, ReferThen DEF StepOf
  <2> QED BY <1>1, <1>4, <1>5, <2>1, VariableRefers DEF Variables
<1> QED BY <1>3, <1>6, <1>7

LEMMA LocateVariableStep == ASSUME WalkInv, LocateVariable PROVE WalkInv'
<1> DEFINE d        == Task.die
           ops      == OperationsOf(Die(d).location)
           place    == Classified(Die(d).location, ops)
           located  == [Task.variable EXCEPT
                           !.address = place.address, !.text = place.text,
                           !.availability = place.availability,
                           !.tls = "form_tls_address" \in Atoms(ops)]
           valued   == IF Die(d).constant THEN WithConstant(located) ELSE located
           stored   == [valued EXCEPT !.storage =
                           \/ valued.constant
                           \/ Atoms(ops) \cap ({"addr"} \cup IndexedAddress) # {}]
           local    == IF stored.tls
                       THEN [stored EXCEPT !.availability = "RuntimeOnly",
                                           !.address = Absent,
                                           !.text = "thread_local"]
                       ELSE stored
           variable == IF Die(d).tag = "formal_parameter"
                       THEN [local EXCEPT !.availability = "RuntimeOnly",
                                          !.storage = FALSE]
                       ELSE local
           Typed(v) == "type" \in DOMAIN v /\ v.type = Task.variable.type
<1>1. /\ stage = "units" /\ agenda # <<>> /\ Task.do = "locate"
      /\ UNCHANGED <<file, stage, unit, scopes, recorded, loading, signed, types, variables>>
      /\ Continue(<<Inherit(variable, References(d))>>)
  BY DEF LocateVariable, Doing, Task, unchangedWalk
<1>2. WalkUnits
  BY <1>1 DEF WalkInv
<1>3. IsTask(Task)
  BY <1>1, <1>2, FirstAndRest DEF WalkUnits, TasksAreSound, Tasks, Lists, Task
<1>4. Typed(Task.variable) /\ Due(Task.variable.type)
  BY <1>1, <1>3 DEF IsTask, Variables
<1>5. Typed(located)
  BY <1>4
<1> HIDE DEF located
<1>6. Typed(valued)
  BY <1>5 DEF WithConstant
<1> HIDE DEF valued
<1>7. Typed(stored)
  BY <1>6
<1> HIDE DEF stored
<1>8. Typed(local)
  BY <1>7
<1> HIDE DEF local
<1>9. Typed(variable)
  BY <1>8
<1> HIDE DEF variable
<1>10. PICK t : t = Inherit(variable, References(d))
  OBVIOUS
<1>11. t.do = "inherit" /\ t.variable = variable
  BY <1>10 DEF Inherit
<1>12. StepOf(<<t>>)
  BY <1>1, <1>10, OneList DEF StepOf
<1> QED BY <1>1, <1>9, <1>11, <1>12, VariableGoesOn DEF Variables

LEMMA InheritNameStep == ASSUME WalkInv, InheritName PROVE WalkInv'
<1> DEFINE r       == Head(Task.references)
           v       == Task.variable
           outer   == IF r \in DOMAIN variableScope /\ v.scope = <<>>
                      THEN variableScope[r] ELSE v.scope
           refines == /\ r \in DOMAIN classScope
                      /\ \/ outer = <<>>
                         \/ Len(outer) < Len(classScope[r]) /\ IsPrefix(outer, classScope[r])
           named   == [v EXCEPT
                          !.scope  = IF refines THEN classScope[r] ELSE outer,
                          !.member = IF r \in DOMAIN staticMember
                                     THEN staticMember[r] ELSE @,
                          !.name   = IF @ = Nameless THEN NameOr(r, Nameless) ELSE @]
           typed   == [named EXCEPT !.type = TypeId(Die(r).type)]
           Relocate(w) == [do |-> "relocate", variable |-> w, die |-> r,
                           references |-> Tail(Task.references)]
<1>1. /\ stage = "units" /\ agenda # <<>> /\ Task.do = "inherit"
      /\ UNCHANGED <<file, stage, unit, scopes, recorded, loading, signed, types, variables>>
  BY DEF InheritName, Doing, Task, unchangedWalk
<1>2. \/ Continue(Refer(Die(r).type) \o <<Relocate(typed)>>)
      \/ Continue(<<Relocate(named)>>)
  BY DEF InheritName
<1>3. IsTask(Task)
  BY <1>1, FirstAndRest DEF WalkInv, WalkUnits, TasksAreSound, Tasks, Lists, Task
<1>4. "type" \in DOMAIN v
  BY <1>1, <1>3 DEF IsTask, Variables
<1>5. "type" \in DOMAIN named /\ named.type = v.type
  BY <1>4
<1> HIDE DEF named
<1>6. PICK reference : reference = Die(r).type
  OBVIOUS
<1>7. "type" \in DOMAIN typed /\ typed.type = TypeId(reference)
  BY <1>5, <1>6
<1> HIDE DEF typed
<1>8. ASSUME NEW w PROVE Relocate(w).do = "relocate" /\ Relocate(w).variable = w
  OBVIOUS
<1> HIDE DEF Relocate
<1>9. CASE Continue(Refer(Die(r).type) \o <<Relocate(typed)>>)
  <2>1. PICK t : t = Relocate(typed)
    OBVIOUS
  <2>2. StepOf(Refer(reference) \o <<t>>)
    BY <1>1, <1>6, <1>9, <2>1, ReferThen DEF StepOf
  <2> QED BY <1>1, <1>7, <1>8, <2>1, <2>2, VariableRefers DEF Variables
<1>10. CASE Continue(<<Relocate(named)>>)
  <2>1. PICK t : t = Relocate(named)
    OBVIOUS
  <2>2. StepOf(<<t>>)
    BY <1>1, <1>10, <2>1, OneList DEF StepOf
  <2> QED BY <1>1, <1>5, <1>8, <2>1, <2>2, VariableGoesOn DEF Variables
<1> QED BY <1>2, <1>9, <1>10

LEMMA InheritLocationStep == ASSUME WalkInv, InheritLocation PROVE WalkInv'
<1> DEFINE r        == Task.die
           linked   == [Task.variable EXCEPT
                           !.linkage = IF @ = "" THEN Die(r).linkage ELSE @]
           valued   == IF Die(r).constant /\ ~linked.constant
                       THEN WithConstant(linked) ELSE linked
           location == Die(r).location
           place    == Classified(location, OperationsOf(location))
           says     == place.availability # "Unavailable" \/ place.text # "missing"
           variable == IF Relocates(valued) /\ location.form # Nowhere /\ says
                       THEN [valued EXCEPT !.address = place.address,
                                           !.text = place.text,
                                           !.availability = place.availability]
                       ELSE valued
           Typed(v) == "type" \in DOMAIN v /\ v.type = Task.variable.type
<1>1. /\ stage = "units" /\ agenda # <<>> /\ Task.do = "relocate"
      /\ UNCHANGED <<file, stage, unit, scopes, recorded, loading, signed, types, variables>>
      /\ Continue(<<Inherit(variable, Task.references)>>)
  BY DEF InheritLocation, Doing, Task, unchangedWalk
<1>2. IsTask(Task)
  BY <1>1, FirstAndRest DEF WalkInv, WalkUnits, TasksAreSound, Tasks, Lists, Task
<1>3. Typed(Task.variable)
  BY <1>1, <1>2 DEF IsTask, Variables
<1>4. Typed(linked)
  BY <1>3
<1> HIDE DEF linked
<1>5. Typed(valued)
  BY <1>4 DEF WithConstant
<1> HIDE DEF valued
<1>6. Typed(variable)
  BY <1>5
<1> HIDE DEF variable
<1>7. PICK t : t = Inherit(variable, Task.references)
  OBVIOUS
<1>8. t.do = "inherit" /\ t.variable = variable
  BY <1>7 DEF Inherit
<1>9. StepOf(<<t>>)
  BY <1>1, <1>7, OneList DEF StepOf
<1> QED BY <1>1, <1>6, <1>8, <1>9, VariableGoesOn DEF Variables

LEMMA StoreVariableStep == ASSUME WalkInv, StoreVariable PROVE WalkInv'
<1> DEFINE d      == Task.variable.die
           here   == [i \in DOMAIN scopes |-> scopes[i].name]
           moved  == Task.variable.scope # here
           tags   == IF moved THEN <<>> ELSE [i \in DOMAIN scopes |-> scopes[i].tag]
           member == \/ Task.variable.member
                     \/ /\ moved /\ Task.variable.scope # <<>> /\ scopes # <<>>
                        /\ Last(scopes).tag \in ClassTags
           sorted == [Task.variable EXCEPT !.member = member]
           v      == [sorted EXCEPT !.kind =
                         IF Die(d).tag = "formal_parameter" THEN "Parameter"
                         ELSE KindOf(sorted, tags, Die(d).external)]
<1>1. /\ stage = "units" /\ agenda # <<>> /\ Task.do = "inherit"
      /\ UNCHANGED <<file, stage, unit, scopes, recorded, loading, signed, types>>
      /\ Continue(<<>>)
  BY DEF StoreVariable, Doing, Task, unchangedWalk
<1>2. variables' = variables \/ variables' = Append(variables, v)
  BY DEF StoreVariable
<1>3. StepOf(<<>>)
  BY <1>1, NoList DEF StepOf
<1>4. IsTask(Task) /\ IsList(variables) /\ VariablesAreDue
  BY <1>3, TasksOfStep DEF WalkUnits, Lists
<1>5. "type" \in DOMAIN Task.variable /\ Due(Task.variable.type)
  BY <1>1, <1>4 DEF IsTask, Variables
<1>6. "type" \in DOMAIN sorted /\ sorted.type = Task.variable.type
  BY <1>5
<1> HIDE DEF sorted
<1>7. v.type = Task.variable.type
  BY <1>6
<1> HIDE DEF v
<1>8. CASE variables' = variables
  <2>1. IsList(variables)' /\ (Progress => VariablesAreDue')
    BY <1>3, <1>4, <1>8, VariablesStay DEF IsList
  <2> QED BY <1>1, <1>3, <2>1, VariableEnds DEF Variables
<1>9. CASE variables' = Append(variables, v)
  <2>1. PICK w : w = v
    OBVIOUS
  <2>2. /\ IsList(Append(variables, w))
        /\ DOMAIN Append(variables, w) = DOMAIN variables \cup {Len(variables) + 1}
        /\ \A i \in DOMAIN variables : Append(variables, w)[i] = variables[i]
        /\ Append(variables, w)[Len(variables) + 1] = w
    <3>1. IsAppended(Append(variables, w), variables, w)
      BY <1>4, AppendIs
    <3> QED BY <3>1 DEF IsAppended
  <2>3. ASSUME Progress, NEW i \in DOMAIN variables' PROVE Due(variables[i].type)'
    <3>1. \A x : Due(x) => Due(x)'
      BY <1>1, <2>3, DueStays
    <3>2. CASE i \in DOMAIN variables
      <4>1. PICK id : id = variables[i].type
        OBVIOUS
      <4>2. Due(id)' /\ variables'[i].type = id
        BY <1>4, <1>9, <2>1, <2>2, <3>1, <3>2, <4>1 DEF VariablesAreDue
      <4> QED BY <4>2
    <3>3. CASE i = Len(variables) + 1
      <4>1. Due(w.type)' /\ variables'[i] = w
        BY <1>5, <1>7, <1>9, <2>1, <2>2, <3>1, <3>3
      <4> QED BY <4>1
    <3> QED BY <1>9, <2>1, <2>2, <2>3, <3>2, <3>3
  <2>4. IsList(variables)' /\ (Progress => VariablesAreDue')
    BY <1>9, <2>1, <2>2, <2>3 DEF VariablesAreDue, IsList
  <2> QED BY <1>1, <1>3, <2>4, VariableEnds DEF Variables
<1> QED BY <1>2, <1>8, <1>9

-----------------------------------------------------------------------------
(* The steps between the units, and those that are about expressions.      *)

LEMMA WalkInitially == ASSUME ReaderInit PROVE WalkInv
<1>1. IsFile(file)
  BY LoadsAssumption DEF ReaderInit
<1>2. /\ unit = 0 /\ recorded = {} /\ loading = {} /\ signed = {}
      /\ agenda = <<>> /\ scopes = <<>> /\ types = <<>> /\ variables = <<>>
  BY DEF ReaderInit
<1>3. IsList(<<>>) /\ Len(<<>>) = 0 /\ DOMAIN <<>> = {} /\ Tasks = {}
  BY <1>2, NoList DEF Tasks
<1>4. Leaves(agenda) = {}
  BY <1>2 DEF Leaves
<1>5. ScopesClose
  BY <1>2, <1>3, <1>4, FS_EmptySet DEF ScopesClose
<1>6. Lists /\ LoadingEnds /\ TasksAreSound /\ VariablesAreDue
  BY <1>2, <1>3 DEF Lists, LoadingEnds, TasksAreSound, VariablesAreDue
<1>7. NodesOfTypes
  BY <1>2, <1>3 DEF NodesOfTypes, JobsAreDistinct, IdsAreDistinct, NodesAreRecorded,
                    RecordedHaveNodes, SignedHaveNodes
<1> QED BY <1>1, <1>5, <1>6, <1>7 DEF WalkInv, WalkUnits

\* Tasks that come in front of all others, or none
LEMMA AgendaGrows ==
    ASSUME WalkInv, stage = "units",
           NEW tasks, IsList(tasks), agenda' = tasks \o agenda,
           \A t \in Range(tasks) : t.do \in Plain /\ IsTask(t)',
           UNCHANGED <<file, stage, scopes, recorded, loading, signed, types, variables>>,
           unit' \in Nat
    PROVE  WalkInv'
<1>1. WalkUnits /\ Lists
  BY DEF WalkInv, WalkUnits
<1>2. IsList(agenda)' /\ Tasks' = Range(tasks) \cup Tasks
  <2>1. IsList(tasks \o agenda) /\ Range(tasks \o agenda) = Range(tasks) \cup Range(agenda)
    BY <1>1, Concatenated DEF Lists
  <2> QED BY <2>1 DEF Tasks, IsList
<1>3. /\ UnitTypes' = UnitTypes /\ \A key : AllReferred(key)' = AllReferred(key)
      /\ \A d : Die(d)' = Die(d) /\ (StandsForUnit(d)' <=> StandsForUnit(d))
  BY SameFile
<1>4. Progress
  <2>1. \A d \in DOMAIN file.dies :
            (Walked(d) => Walked(d)') /\ (UnderWay(d) => UnderWay(d)')
    BY <1>2 DEF Walked, UnderWay
  <2>2. \A key \in DOMAIN UnitTypes : Begun(key) => Begun(key)'
    BY <1>2 DEF Begun
  <2>3. \A key \in DOMAIN UnitTypes : Promised(key) => Promised(key)'
    BY <1>2, <1>3 DEF Promised
  <2>4. ASSUME NEW d \in DOMAIN file.dies, DieId(d) \in recorded', StandsForUnit(d)
        PROVE  Begun(Die(d).signature)'
    BY <2>2, <2>4, StandInsStay
  <2> QED BY <2>1, <2>2, <2>3, <2>4 DEF Progress
<1>5. \A t \in Range(tasks) : Job(t) = NoType /\ t.do # "leave"
  BY PlainHasNoJob
<1>6. NodesOfTypes'
  <2>1. JobsAreDistinct(tasks \o agenda)
    <3>1. JobsAreDistinct(tasks) /\ JobsAreDistinct(agenda)
      BY <1>1, <1>5, NoJobs DEF WalkUnits, NodesOfTypes
    <3> QED BY <1>1, <1>5, <3>1, JobsOfBoth DEF Lists
  <2>2. JobsAreDistinct(agenda)'
    BY <2>1 DEF JobsAreDistinct
  <2> QED BY <1>1, <1>2, <1>4, <1>5, <2>2, NodesStay
<1>7. ScopesClose'
  <2>1. Cardinality(Leaves(tasks)) = 0
    BY <1>5, NoLeaves
  <2>2. Cardinality(Leaves(tasks \o agenda)) =
            Cardinality(Leaves(tasks)) + Cardinality(Leaves(agenda))
    BY <1>1, LeavesOfBoth DEF Lists
  <2>3. Cardinality(Leaves(agenda)) \in Nat /\ Cardinality(Leaves(agenda)) = Len(scopes)
    BY <1>1, LeavesFinite DEF WalkUnits, ScopesClose, Lists
  <2>4. Cardinality(Leaves(agenda))' = Cardinality(Leaves(tasks \o agenda))
    BY DEF Leaves
  <2> QED BY <2>1, <2>2, <2>3, <2>4 DEF ScopesClose
<1>8. TasksAreSound'
  BY <1>1, <1>2, <1>4, TaskStays DEF WalkUnits, TasksAreSound
<1>9. LoadingEnds'
  <2> SUFFICES ASSUME NEW id \in loading PROVE LoadingEnd(id)'
    BY DEF LoadingEnds
  <2>1. LoadingEnd(id)
    BY <1>1 DEF WalkUnits, LoadingEnds
  <2> QED BY <1>2, <1>3, <2>1 DEF LoadingEnd, Walked, DieId
<1>10. VariablesAreDue'
  BY <1>1, <1>4, DueStays DEF WalkUnits, VariablesAreDue
<1>11. Lists'
  BY <1>1, <1>2 DEF Lists, IsList
<1>12. IsFile(file)'
  BY DEF WalkInv
<1> QED BY <1>6, <1>7, <1>8, <1>9, <1>10, <1>11, <1>12 DEF WalkInv, WalkUnits

\* A step that moves none of these
LEMMA IdleStep ==
    ASSUME WalkInv, unit' \in Nat \/ stage # "units",
           UNCHANGED <<file, stage, agenda, scopes, recorded, loading, signed, types, variables>>
    PROVE  WalkInv'
<1>1. CASE stage = "units"
  <2>1. agenda \in Seq(Range(agenda))
    BY <1>1 DEF WalkInv, WalkUnits, Lists, IsList
  <2>2. agenda' = <<>> \o agenda
    BY <2>1
  <2> QED BY <1>1, <2>2, NoList, AgendaGrows
<1>2. CASE stage # "units"
  BY <1>2 DEF WalkInv
<1> QED BY <1>1, <1>2

LEMMA NextUnitStep == ASSUME WalkInv, NextUnit PROVE WalkInv'
<1>1. /\ stage = "units" /\ agenda = <<>> /\ unit < Len(file.units) /\ unit' = unit + 1
      /\ UNCHANGED <<file, stage, scopes, recorded, loading, signed, types, variables>>
      /\ agenda' = agenda \/ agenda' = <<Walk(file.units[unit + 1].root)>>
  BY DEF NextUnit
<1>2. IsFile(file) /\ unit \in Nat
  BY <1>1 DEF WalkInv, WalkUnits, Lists
<1>3. file.units[unit + 1].root \in DOMAIN file.dies
  <2>1. IsList(file.units)
    BY <1>2 DEF IsFile
  <2>2. DOMAIN file.units = 1..Len(file.units) /\ Len(file.units) \in Nat
    BY <2>1, ListFacts
  <2>3. unit + 1 \in DOMAIN file.units
    BY <1>1, <1>2, <2>2
  <2> QED BY <1>2, <2>3 DEF IsFile
<1>4. CASE agenda' = agenda
  BY <1>1, <1>2, <1>4, IdleStep
<1>5. CASE agenda' = <<Walk(file.units[unit + 1].root)>>
  <2>1. PICK d : d = file.units[unit + 1].root
    OBVIOUS
  <2>2. agenda' = <<Walk(d)>> \o agenda
    BY <1>1, <1>5, <2>1
  <2>3. Walk(d).do \in Plain /\ IsTask(Walk(d))'
    BY <1>1, <1>3, <2>1, DieTasks, Shapes DEF Plain
  <2>4. IsList(<<Walk(d)>>) /\ \A t \in Range(<<Walk(d)>>) : t = Walk(d)
    BY OneList
  <2> QED BY <1>1, <1>2, <2>2, <2>3, <2>4, AgendaGrows
<1> QED BY <1>1, <1>4, <1>5

LEMMA ExpressionIdles ==
    ASSUME WalkInv, StartExpression \/ StepExpression
    PROVE  WalkInv'
<1>1. UNCHANGED readerVars
  BY DEF StartExpression, StepExpression
<1>2. unit \in Nat \/ stage # "units"
  BY DEF WalkInv, WalkUnits, Lists
<1> QED BY <1>1, <1>2, IdleStep DEF readerVars

\* The passes over the list no longer walk.
LEMMA PassesIdle ==
    ASSUME WalkInv,
           EndWalk \/ ApplySymbols \/ Deduplicate \/ PruneLocals \/ PrunePlaceholders
    PROVE  WalkInv'
BY DEF WalkInv, EndWalk, ApplySymbols, Deduplicate, PruneLocals, PrunePlaceholders, Pass

-----------------------------------------------------------------------------
(* The steps that walk over DIEs.                                          *)

\* All variables stay, and so does what their types are due to.
LEMMA OthersStay ==
    ASSUME WalkInv, NEW tasks, StepOf(tasks), Progress, UNCHANGED <<variables, loading>>,
           Task.do \notin {"ensured", "unit type"}
    PROVE  IsList(variables)' /\ VariablesAreDue' /\ LoadingEnds'
<1>1. IsList(variables)' /\ VariablesAreDue'
  BY TasksOfStep, VariablesStay DEF WalkUnits, Lists, IsList
<1>2. (\A d : Task # Ensured(d)) /\ (\A key : Task # RecordUnit(key))
  BY OtherTasks
<1> QED BY <1>1, <1>2, LoadingStays

\* What the walk over a DIE begins: what the DIE is, its children, and the
\* end of the scope
LEMMA WalkTasks ==
    ASSUME NEW first, IsList(first), NEW walks, IsList(walks), NEW last, IsList(last),
           \A t \in Range(first) \cup Range(walks) : t.do \in Plain /\ IsTask(t)',
           \A t \in Range(last) : t = Leave, file' = file
    PROVE  /\ IsList(first \o walks \o last)
           /\ Range(first \o walks \o last) = Range(first) \cup Range(walks) \cup Range(last)
           /\ \A t \in Range(first \o walks \o last) :
                  t.do \in Plain \cup {"leave"} /\ IsTask(t)'
           /\ Cardinality(Leaves(first \o walks \o last)) = Cardinality(Leaves(last))
<1>1. IsList(first \o walks) /\ Range(first \o walks) = Range(first) \cup Range(walks)
  BY Concatenated
<1>2. /\ IsList((first \o walks) \o last)
      /\ Range((first \o walks) \o last) = Range(first \o walks) \cup Range(last)
  BY <1>1, Concatenated
<1>3. Cardinality(Leaves(first \o walks)) = 0
  <2>1. \A t \in Range(first \o walks) : t.do # "leave"
    BY <1>1 DEF Plain
  <2> QED BY <1>1, <2>1, NoLeaves
<1>4. Cardinality(Leaves((first \o walks) \o last)) = Cardinality(Leaves(last))
  <2>1. Cardinality(Leaves((first \o walks) \o last)) =
            Cardinality(Leaves(first \o walks)) + Cardinality(Leaves(last))
    BY <1>1, LeavesOfBoth
  <2>2. Cardinality(Leaves(last)) \in Nat
    BY LeavesFinite
  <2> QED BY <1>3, <2>1, <2>2
<1>5. \A t \in Range(last) : t.do \in Plain \cup {"leave"} /\ IsTask(t)'
  BY KeyTasks, Shapes
<1> QED BY <1>1, <1>2, <1>4, <1>5

LEMMA WalkDieStep == ASSUME WalkInv, WalkDie PROVE WalkInv'
<1> DEFINE d        == Task.die
           tag      == Die(d).tag
           children == Die(d).children
           first == IF tag \in TypeTags THEN <<Record(d)>>
                    ELSE IF tag \in VariableTags
                    THEN <<[do |-> "variable", die |-> d]>> ELSE <<>>
           walks == [i \in DOMAIN children |-> Walk(children[i])]
           last  == IF tag \in ScopeTags THEN <<Leave>> ELSE <<>>
<1>1. /\ stage = "units" /\ agenda # <<>> /\ Task.do = "walk"
      /\ UNCHANGED <<file, stage, unit, recorded, loading, signed, types, variables>>
  BY DEF WalkDie, Doing, Task, unchangedWalk
<1>2. /\ IsTask(Task) /\ IsFile(file) /\ IsList(scopes) /\ IsList(agenda)
      /\ Cardinality(Leaves(agenda)) = Len(scopes)
  BY <1>1, FirstAndRest
     DEF WalkInv, WalkUnits, TasksAreSound, ScopesClose, Tasks, Lists, Task
<1>3. d \in DOMAIN file.dies /\ Task = Walk(d)
  BY <1>1, <1>2 DEF IsTask
<1>4. \A e : /\ Task \in {Ensure(e), Walk(e), Record(e)} => e = d
            /\ Task # Materialize(e) /\ Task # Follow(e)
  <2>1. ASSUME NEW e PROVE Task.do # Ensure(e).do /\ Task.do # Record(e).do
    BY <1>1, Shapes
  <2>2. ASSUME NEW e, Task = Walk(e) PROVE e = d
    BY <1>3, <2>2, Shapes
  <2> QED BY <1>1, <2>1, <2>2, OtherTasks
<1>5. CASE tag \in IgnoredTags
  <2>1. Continue(<<>>) /\ scopes' = scopes
    BY <1>5 DEF WalkDie
  <2>2. StepOf(<<>>)
    BY <1>1, <2>1, NoList DEF StepOf
  <2>3. tag \notin TypeTags
    BY <1>5 DEF IgnoredTags, TypeTags, ClassTags
  <2>4. TaskDone
    BY <1>1, <1>4, <2>3 DEF TaskDone
  <2>5. Progress
    BY <2>2, <2>4, AllProgresses
  <2>6. IsList(variables)' /\ VariablesAreDue'
    BY <1>1, <2>2, <2>5, OthersStay
  <2> QED BY <1>1, <2>1, <2>2, <2>4, <2>6, NoList, PlainStep DEF Plain
<1>6. CASE tag \notin IgnoredTags
  <2>1. /\ Continue(first \o walks \o last)
        /\ scopes' = IF tag \in ScopeTags
                     THEN Append(scopes, [name |-> ScopeName(d), tag |-> tag])
                     ELSE scopes
    BY <1>6 DEF WalkDie
  <2>2. children \in Seq(DOMAIN file.dies)
    BY <1>2, <1>3 DEF IsFile, Die
  <2>3. IsList(walks) /\ \A t \in Range(walks) : t.do \in Plain /\ IsTask(t)'
    <3>1. IsList(children) /\ Range(children) \subseteq DOMAIN file.dies
      BY <2>2, ListOf
    <3>2. \A i \in DOMAIN children : children[i] \in DOMAIN file.dies
      BY <3>1 DEF Range
    <3>3. IsList(walks)
      BY <3>1, SamePlaces
    <3>4. ASSUME NEW t \in Range(walks) PROVE t.do \in Plain /\ IsTask(t)'
      <4>1. PICK i \in DOMAIN children : t = Walk(children[i])
        BY DEF Range
      <4>2. PICK e \in DOMAIN file.dies : e = children[i]
        BY <3>2
      <4>3. Walk(e).do \in Plain /\ IsTask(Walk(e))'
        BY <1>1, DieTasks, Shapes DEF Plain
      <4> QED BY <4>1, <4>2, <4>3
    <3> QED BY <3>3, <3>4
  <2>4. IsList(first) /\ \A t \in Range(first) : t.do \in Plain /\ IsTask(t)'
    <3>1. PICK e \in DOMAIN file.dies : e = d
      BY <1>3
    <3>2. Record(e).do \in Plain /\ IsTask(Record(e))'
      BY <1>1, DieTasks, Shapes DEF Plain
    <3>3. PICK t : t = [do |-> "variable", die |-> e]
      OBVIOUS
    <3>4. t.do \in Plain /\ IsTask(t)'
      BY <3>3 DEF IsTask, Plain, Recording, Variables
    <3>5. first \in {<<Record(e)>>, <<t>>, <<>>}
      BY <3>1, <3>3
    <3> HIDE DEF first
    <3> QED BY <3>2, <3>4, <3>5, OneList, NoList
  <2>5. IsList(last) /\ (\A t \in Range(last) : t = Leave)
        /\ Cardinality(Leaves(last)) = IF tag \in ScopeTags THEN 1 ELSE 0
    <3>1. /\ IsList(<<Leave>>) /\ Range(<<Leave>>) = {Leave}
          /\ Cardinality(Leaves(<<Leave>>)) = 1
      BY OneList, LeavesOfOne, Shapes
    <3>2. IsList(<<>>) /\ Range(<<>>) = {} /\ Cardinality(Leaves(<<>>)) = 0
      BY NoList, NoLeaves
    <3> QED BY <3>1, <3>2
  <2>6. tag \in TypeTags => Record(d) \in Range(first)
    <3>1. ASSUME tag \in TypeTags PROVE first = <<Record(d)>>
      BY <3>1
    <3>2. Range(<<Record(d)>>) = {Record(d)}
      BY OneList
    <3> HIDE DEF first
    <3> QED BY <3>1, <3>2
  <2> HIDE DEF first, walks, last
  <2>7. PICK tasks : tasks = first \o walks \o last
    OBVIOUS
  <2>8. /\ IsList(tasks) /\ Range(first) \subseteq Range(tasks)
        /\ \A t \in Range(tasks) : t.do \in Plain \cup {"leave"} /\ IsTask(t)'
        /\ Cardinality(Leaves(tasks)) = Cardinality(Leaves(last))
    BY <1>1, <2>3, <2>4, <2>5, <2>7, WalkTasks
  <2>9. StepOf(tasks)
    BY <1>1, <2>1, <2>7, <2>8 DEF StepOf
  <2>10. TaskDone
    <3>1. PICK e : e = d
      OBVIOUS
    <3>2. Die(e).tag \in TypeTags => Record(e) \in Tasks'
      BY <2>6, <2>8, <2>9, <3>1, TasksOfStep
    <3>3. Die(e).tag \in TypeTags => Walked(e)'
      BY <3>2 DEF Walked
    <3>4. \A x \in DOMAIN file.dies : Task \in {Ensure(x), Walk(x), Record(x)} => x = e
      BY <1>4, <3>1
    <3> QED BY <1>1, <1>4, <3>3, <3>4 DEF TaskDone
  <2>11. Progress
    BY <2>9, <2>10, AllProgresses
  <2>12. IsList(variables)' /\ VariablesAreDue' /\ LoadingEnds'
    BY <1>1, <2>9, <2>11, OthersStay
  <2>13. IsList(scopes)' /\ ScopesClose'
    <3>1. Cardinality(Leaves(agenda))' =
              Cardinality(Leaves(agenda)) + Cardinality(Leaves(tasks)) - 0
      BY <1>1, <1>2, <2>8, <2>9, LeavesStep DEF StepOf
    <3>2. PICK e : e = [name |-> ScopeName(d), tag |-> tag]
      OBVIOUS
    <3>3. IsList(Append(scopes, e)) /\ Len(Append(scopes, e)) = Len(scopes) + 1
      BY <1>2, Appended
    <3>4. Len(scopes) \in Nat
      BY <1>2, ListFacts
    <3>5. IsList(scopes)'
      BY <1>2, <2>1, <3>2, <3>3 DEF IsList
    <3>6. Len(scopes') = IF tag \in ScopeTags THEN Len(scopes) + 1 ELSE Len(scopes)
      BY <2>1, <3>2, <3>3
    <3> QED BY <1>2, <2>5, <2>8, <3>1, <3>4, <3>5, <3>6 DEF ScopesClose
  <2> QED BY <1>1, <2>8, <2>9, <2>11, <2>12, <2>13, StepWithoutNode DEF Plain
<1> QED BY <1>5, <1>6

LEMMA AllButLast ==
    ASSUME NEW s, IsList(s), Len(s) > 0
    PROVE  IsList(Front(s)) /\ Len(Front(s)) = Len(s) - 1
<1>1. PICK S : s \in Seq(S)
  BY ListFacts
<1>2. PICK n : n = Len(s) - 1
  OBVIOUS
<1>3. n \in Nat /\ \A i \in 1..n : s[i] \in S
  BY <1>1, <1>2
<1>4. /\ SubSeq(s, 1, n) \in Seq(S)
      /\ Len(SubSeq(s, 1, n)) = IF 1 <= n THEN n - 1 + 1 ELSE 0
  BY <1>3, SubSeqProperties, Z3
<1>5. Len(SubSeq(s, 1, n)) = n
  BY <1>3, <1>4
<1> QED BY <1>2, <1>4, <1>5, ListOf DEF Front

LEMMA LeaveScopeStep == ASSUME WalkInv, LeaveScope PROVE WalkInv'
<1>1. /\ stage = "units" /\ agenda # <<>> /\ Task.do = "leave" /\ Continue(<<>>)
      /\ UNCHANGED <<file, stage, unit, recorded, loading, signed, types, variables>>
      /\ scopes' = Front(scopes)
  BY DEF LeaveScope, Doing, Task, unchangedWalk
<1>2. StepOf(<<>>)
  BY <1>1, NoList DEF StepOf
<1>3. TaskDone
  BY <1>1, NothingToSee
<1>4. Progress
  BY <1>2, <1>3, AllProgresses
<1>5. IsList(variables)' /\ VariablesAreDue' /\ LoadingEnds'
  BY <1>1, <1>2, <1>4, OthersStay
<1>6. /\ IsList(agenda) /\ IsList(scopes) /\ Cardinality(Leaves(agenda)) = Len(scopes)
      /\ IsList(agenda)'
  BY <1>2, TasksOfStep DEF WalkUnits, Lists, ScopesClose
<1>7. Cardinality(Leaves(agenda))' = Len(scopes) - 1 /\ Len(scopes) \in Nat
  <2>1. Cardinality(Leaves(<<>>)) = 0
    BY NoList, NoLeaves
  <2>2. Len(scopes) \in Nat
    BY <1>6, ListFacts
  <2> QED BY <1>1, <1>6, <2>1, <2>2, NoList, LeavesStep
<1>8. Len(scopes) > 0
  <2>1. PICK list : list = agenda'
    OBVIOUS
  <2>2. Cardinality(Leaves(list)) \in Nat
    BY <1>6, <2>1, LeavesFinite DEF IsList
  <2>3. Cardinality(Leaves(list)) = Len(scopes) - 1
    BY <1>7, <2>1 DEF Leaves
  <2> QED BY <1>7, <2>2, <2>3
<1>9. IsList(scopes)' /\ ScopesClose'
  BY <1>1, <1>6, <1>7, <1>8, AllButLast DEF ScopesClose, IsList
<1> QED BY <1>1, <1>2, <1>4, <1>5, <1>9, NoList, StepWithoutNode

\* A type is walked once: one that is being loaded is walked, or was.
LEMMA EnsureTypeStep == ASSUME WalkInv, EnsureType PROVE WalkInv'
<1>1. /\ stage = "units" /\ agenda # <<>> /\ Task.do = "ensure"
      /\ UNCHANGED <<file, stage, unit, scopes, recorded, signed, types, variables>>
  BY DEF EnsureType, Doing, Task, unchangedWalk
<1>2. /\ IsTask(Task) /\ LoadingEnds /\ IsList(scopes) /\ IsList(variables)
      /\ Tasks = {Task} \cup Range(Tail(agenda))
  BY <1>1, FirstAndRest
     DEF WalkInv, WalkUnits, TasksAreSound, Tasks, Lists, Task
<1>3. PICK d \in DOMAIN file.dies : Task = Ensure(d) /\ Task.die = d
  BY <1>1, <1>2 DEF IsTask
<1>4. \A e : /\ Task \in {Ensure(e), Walk(e), Record(e)} => e = d
            /\ Task # Materialize(e) /\ Task # Follow(e)
            /\ Task # Ensured(e) /\ Task # RecordUnit(e)
  <2>1. ASSUME NEW e PROVE Task.do # Walk(e).do /\ Task.do # Record(e).do
    BY <1>1, Shapes
  <2>2. ASSUME NEW e, Task = Ensure(e) PROVE e = d
    <3>1. Ensure(e).die = e
      BY Shapes
    <3> QED BY <1>3, <2>2, <3>1
  <2> QED BY <1>1, <2>1, <2>2, OtherTasks
<1>5. CASE DieId(d) \in recorded \cup loading
  <2>1. Continue(<<>>) /\ loading' = loading
    BY <1>3, <1>5 DEF EnsureType
  <2>2. StepOf(<<>>)
    BY <1>1, <2>1, NoList DEF StepOf
  <2>3. Die(d).tag \in TypeTags => DieId(d) \in recorded' \/ Walked(d)'
    <3>1. CASE DieId(d) \in recorded
      BY <1>1, <3>1
    <3>2. CASE DieId(d) \in loading
      <4>1. LoadingEnd(DieId(d))
        BY <1>2, <3>2 DEF LoadingEnds
      <4>2. Die(d).tag \in TypeTags => DieId(d) \in recorded \/ Walked(d)
        BY <4>1, TypeIds DEF LoadingEnd
      <4>3. Task # Walk(d) /\ Task # Record(d)
        BY <1>1, Shapes
      <4>4. Walked(d) => Walked(d)'
        BY <1>2, <2>2, <4>3, TasksOfStep DEF Walked
      <4> QED BY <1>1, <4>2, <4>4
    <3> QED BY <1>5, <3>1, <3>2
  <2>4. TaskDone
    BY <1>1, <1>4, <2>3 DEF TaskDone
  <2>5. Progress
    BY <2>2, <2>4, AllProgresses
  <2>6. IsList(variables)' /\ VariablesAreDue'
    BY <1>1, <2>1, <2>2, <2>5, OthersStay
  <2> QED BY <1>1, <2>1, <2>2, <2>4, <2>6, NoList, PlainStep DEF Plain
<1>6. CASE DieId(d) \notin recorded \cup loading
  <2>1. Continue(<<Walk(d), Ensured(d)>>) /\ loading' = loading \cup {DieId(d)}
    BY <1>3, <1>6 DEF EnsureType
  <2>2. PICK tasks : tasks = <<Walk(d), Ensured(d)>>
    OBVIOUS
  <2>3. IsList(tasks) /\ Range(tasks) = {Walk(d), Ensured(d)}
    <3>1. tasks = <<Walk(d)>> \o <<Ensured(d)>>
      BY <2>2
    <3>2. /\ IsList(<<Walk(d)>>) /\ Range(<<Walk(d)>>) = {Walk(d)}
          /\ IsList(<<Ensured(d)>>) /\ Range(<<Ensured(d)>>) = {Ensured(d)}
      BY OneList
    <3>3. /\ IsList(<<Walk(d)>> \o <<Ensured(d)>>)
          /\ Range(<<Walk(d)>> \o <<Ensured(d)>>) = Range(<<Walk(d)>>) \cup Range(<<Ensured(d)>>)
      BY <3>2, Concatenated
    <3> QED BY <3>1, <3>2, <3>3
  <2>4. StepOf(tasks)
    BY <1>1, <2>1, <2>2, <2>3 DEF StepOf
  <2>5. Walk(d) \in Tasks' /\ Ensured(d) \in Tasks'
    BY <2>3, <2>4, TasksOfStep
  <2>6. Walked(d)'
    BY <2>5 DEF Walked
  <2>7. TaskDone
    BY <1>1, <1>4, <2>6 DEF TaskDone
  <2>8. Progress
    BY <2>4, <2>7, AllProgresses
  <2>9. LoadingEnds'
    <3>1. PICK id : id = DieId(d)
      OBVIOUS
    <3>2. LoadingEnd(id)'
      BY <1>1, <2>5, <2>6, <3>1 DEF LoadingEnd, DieId
    <3>3. \A x \in loading' \ loading : LoadingEnd(x)'
      BY <2>1, <3>1, <3>2
    <3> QED BY <1>4, <2>4, <2>8, <3>3, LoadingStays
  <2>10. ScopesClose'
    <3>1. \A t \in Range(tasks) : t.do # "leave"
      BY <2>3, Shapes
    <3> QED BY <1>1, <2>4, <3>1, ScopesStay
  <2>11. \A t \in Range(tasks) : t.do \in Plain \cup {"leave"} /\ IsTask(t)'
    <3>1. Walk(d).do \in Plain /\ Ensured(d).do \in Plain
      BY Shapes DEF Plain
    <3>2. IsTask(Walk(d))' /\ IsTask(Ensured(d))'
      BY <1>1, DieTasks
    <3> QED BY <2>3, <3>1, <3>2
  <2>12. VariablesAreDue' /\ IsList(variables)' /\ IsList(scopes)'
    BY <1>1, <1>2, <2>4, <2>8, VariablesStay DEF IsList
  <2> QED BY <1>1, <2>4, <2>8, <2>9, <2>10, <2>11, <2>12, StepWithoutNode DEF Plain
<1> QED BY <1>5, <1>6

LEMMA TypeEnsuredStep == ASSUME WalkInv, TypeEnsured PROVE WalkInv'
<1>1. /\ stage = "units" /\ agenda # <<>> /\ Task.do = "ensured" /\ Continue(<<>>)
      /\ UNCHANGED <<file, stage, unit, scopes, recorded, signed, types, variables>>
      /\ loading' = loading \ {DieId(Task.die)}
  BY DEF TypeEnsured, Doing, Task, unchangedWalk
<1>2. StepOf(<<>>)
  BY <1>1, NoList DEF StepOf
<1>3. TaskDone
  BY <1>1, NothingToSee
<1>4. Progress
  BY <1>2, <1>3, AllProgresses
<1>5. LoadingEnds'
  <2>1. \A d : Task = Ensured(d) => DieId(d) \notin loading'
    BY <1>1, Shapes
  <2>2. \A key : Task # RecordUnit(key)
    BY <1>1, OtherTasks
  <2> QED BY <1>1, <1>2, <1>4, <2>1, <2>2, LoadingStays
<1>6. ScopesClose'
  BY <1>1, <1>2, NoList, ScopesStay
<1>7. VariablesAreDue' /\ IsList(variables)' /\ IsList(scopes)'
  BY <1>1, <1>2, <1>4, TasksOfStep, VariablesStay DEF WalkUnits, Lists, IsList
<1> QED BY <1>1, <1>2, <1>4, <1>5, <1>6, <1>7, NoList, StepWithoutNode DEF Plain

-----------------------------------------------------------------------------
(* The steps that record the type of a DIE.                                *)

\* The node a task will add is that of a DIE that was recorded or that of a
\* type of a type unit that was begun.
LEMMA JobOfTask ==
    ASSUME NEW t, IsTask(t)
    PROVE  \/ Job(t) = NoType
           \/ t.do \in Recording /\ Job(t) \in recorded /\ \E d : Job(t) = DieId(d)
           \/ \E key \in signed : t = RecordUnit(key) /\ Job(t) = KeyId(key)
<1>1. CASE t.do \in Recording
  BY <1>1, RecordingTask
<1>2. CASE t.do = "unit type"
  <2>1. t.key \in signed /\ t = RecordUnit(t.key)
    BY <1>2 DEF IsTask
  <2>2. Job(t) = KeyId(t.key)
    BY <1>2 DEF Job, Recording
  <2> QED BY <2>1, <2>2
<1>3. CASE t.do \notin Recording /\ t.do # "unit type"
  BY <1>3 DEF Job
<1> QED BY <1>1, <1>2, <1>3

\* The task in which the node of a DIE is on its way
LEMMA NodeTask ==
    ASSUME file' = file, NEW d \in DOMAIN file.dies, ~StandsForUnit(d), DieId(d) \in recorded',
           NEW node, IsList(node.members), IsList(node.bases), NodeDue(node)',
           node = [id |-> DieId(d), target |-> node.target,
                   members |-> node.members, bases |-> node.bases],
           NEW rest \in Seq(DOMAIN file.dies)
    PROVE  /\ IsTask(Children(d, node, rest))'
           /\ \A child : Due(TypeId(Die(child).type))' => IsTask(Place(child, d, node, rest))'
<1>1. StandsForUnit(d)' <=> StandsForUnit(d)
  BY SameFile
<1>2. DieId(d)' = DieId(d)
  BY DEF DieId
<1>3. PICK t : t = Children(d, node, rest)
  OBVIOUS
<1>4. t.do = "children" /\ t.of = d /\ t.node = node /\ t.rest = rest
  BY <1>3 DEF Children
<1>5. IsTask(t)'
  BY <1>1, <1>2, <1>4 DEF IsTask, Recording, Variables, IsList
<1>6. ASSUME NEW child, Due(TypeId(Die(child).type))'
      PROVE  IsTask(Place(child, d, node, rest))'
  <2>1. PICK q : q = Place(child, d, node, rest)
    OBVIOUS
  <2>2. q.do = "place" /\ q.of = d /\ q.node = node /\ q.rest = rest /\ q.die = child
    BY <2>1 DEF Place
  <2>3. IsTask(q)'
    BY <1>1, <1>2, <1>6, <2>2 DEF IsTask, Recording, Variables, IsList
  <2> QED BY <2>1, <2>3
<1> QED BY <1>3, <1>5, <1>6

LEMMA NodeShapes ==
    ASSUME NEW child, NEW d, NEW node, NEW rest
    PROVE  /\ Children(d, node, rest).do \in Recording /\ Children(d, node, rest).node = node
           /\ Place(child, d, node, rest).do \in Recording
           /\ Place(child, d, node, rest).node = node
BY DEF Children, Place, Recording

\* Tasks without a node, then one with a node
LEMMA ThenNode ==
    ASSUME NEW others, IsList(others), \A q \in Range(others) : q.do \in Plain, NEW t,
           t.do \in Recording
    PROVE  /\ IsList(others \o <<t>>) /\ JobsAreDistinct(others \o <<t>>)
           /\ Range(others \o <<t>>) = Range(others) \cup {t}
           /\ \A q \in Range(others \o <<t>>) : q.do # "leave" /\ Job(q) \in {NoType, t.node.id}
<1>1. IsList(<<t>>) /\ Range(<<t>>) = {t}
  BY OneList
<1>2. IsList(others \o <<t>>) /\ Range(others \o <<t>>) = Range(others) \cup {t}
  BY <1>1, Concatenated
<1>3. \A q \in Range(others) : Job(q) = NoType /\ q.do # "leave"
  BY PlainHasNoJob
<1>4. JobsAreDistinct(<<t>>)
  <2>1. DOMAIN <<t>> = {1}
    OBVIOUS
  <2> QED BY <2>1 DEF JobsAreDistinct
<1>5. JobsAreDistinct(others)
  BY <1>3, NoJobs
<1>6. JobsAreDistinct(others \o <<t>>)
  <2>1. \A p \in Range(others), q \in Range(<<t>>) : Job(p) # NoType => Job(p) # Job(q)
    BY <1>3
  <2> QED BY <1>1, <1>4, <1>5, <2>1, JobsOfBoth
<1>7. Job(t) = t.node.id /\ t.do # "leave"
  BY DEF Job, Recording
<1> QED BY <1>2, <1>3, <1>6, <1>7

\* The node of a task goes on.
LEMMA RecordingStep ==
    ASSUME WalkInv, Task.do \in Recording,
           NEW others, IsList(others), \A q \in Range(others) : q.do \in Plain /\ IsTask(q)',
           NEW t, t.do \in Recording, t.node.id = Task.node.id, Progress => IsTask(t)',
           StepOf(others \o <<t>>),
           UNCHANGED <<scopes, recorded, loading, signed, types, variables>>
    PROVE  WalkInv'
<1>1. PICK tasks : tasks = others \o <<t>>
  OBVIOUS
<1>2. /\ IsList(tasks) /\ JobsAreDistinct(tasks) /\ Range(tasks) = Range(others) \cup {t}
      /\ \A q \in Range(tasks) : q.do # "leave" /\ Job(q) \in {NoType, t.node.id}
  BY <1>1, ThenNode
<1>3. StepOf(tasks)
  BY <1>1
<1>4. Task.do \notin {"walk", "ensure", "type", "signature", "references", "leave",
                      "ensured", "unit type"}
  BY DEF Recording
<1>5. TaskDone
  BY <1>4, NothingToSee
<1>6. Progress
  BY <1>3, <1>5, AllProgresses
<1>7. /\ WalkUnits /\ Tasks' = Range(tasks) \cup Range(Tail(agenda))
      /\ Tasks = {Task} \cup Range(Tail(agenda))
  BY <1>3, TasksOfStep
<1>8. Job(Task) = t.node.id
  BY DEF Job
<1>9. JobsAreDistinct(agenda)'
  BY <1>2, <1>3, <1>8, JobsStay
<1>10. NodesOfTypes'
  <2>1. \A q \in Tasks' : Job(q) = NoType \/ \E p \in Tasks : Job(p) = Job(q)
    BY <1>2, <1>7, <1>8
  <2>2. \A q \in Tasks : q.do \in Recording =>
            \E p \in Tasks' : p.do \in Recording /\ p.node.id = q.node.id
    <3>1. t \in Tasks'
      BY <1>2, <1>7
    <3> QED BY <1>7, <3>1
  <2>3. \A key : RecordUnit(key) \in Tasks => RecordUnit(key) \in Tasks'
    BY <1>4, <1>7, OtherTasks
  <2> QED BY <1>6, <1>7, <1>9, <2>1, <2>2, <2>3, NodesStay DEF StepOf
<1>11. LoadingEnds'
  BY <1>3, <1>4, <1>6, OthersStay
<1>12. IsList(types)'
  BY <1>7 DEF WalkUnits, Lists, IsList
<1>13. \A q \in Range(tasks) : q.do # "leave" /\ IsTask(q)'
  BY <1>2, <1>6
<1> QED BY <1>3, <1>4, <1>6, <1>10, <1>11, <1>12, <1>13, TypeStep

\* A type is recorded that was not.
LEMMA NewTypeStep ==
    ASSUME WalkInv, NEW d \in DOMAIN file.dies, Task = Record(d), DieId(d) \notin recorded,
           NEW tasks, StepOf(tasks), recorded' = recorded \cup {DieId(d)},
           UNCHANGED <<scopes, loading, signed, types, variables>>,
           JobsAreDistinct(tasks),
           \A t \in Range(tasks) : t.do # "leave" /\ IsTask(t)' /\ Job(t) \in {NoType, DieId(d)},
           StandsForUnit(d) => Materialize(Die(d).signature) \in Range(tasks),
           ~StandsForUnit(d) =>
               \E t \in Range(tasks) : t.do \in Recording /\ t.node.id = DieId(d)
    PROVE  WalkInv'
<1>1. /\ WalkUnits /\ Tasks' = Range(tasks) \cup Range(Tail(agenda)) /\ file' = file
      /\ Tasks = {Task} \cup Range(Tail(agenda)) /\ \A t \in Tasks : IsTask(t)
  BY TasksOfStep DEF WalkUnits, TasksAreSound, StepOf
<1>2. Task.do = "type" /\ \A e : Task \in {Ensure(e), Walk(e), Record(e)} => e = d
  <2>1. Task.do = "type" /\ Task.die = d
    BY Shapes
  <2>2. ASSUME NEW e, Task = Record(e) PROVE e = d
    <3>1. Record(e).die = e
      BY Shapes
    <3> QED BY <2>1, <2>2, <3>1
  <2> QED BY <2>1, <2>2, OtherTasks
<1>3. TaskDone
  <2>1. ASSUME StandsForUnit(d) PROVE Begun(Die(d).signature)'
    <3>1. PICK key : key = Die(d).signature
      OBVIOUS
    <3>2. Materialize(key) \in Tasks'
      BY <1>1, <2>1, <3>1
    <3>3. Begun(key)' /\ Die(d).signature' = key
      BY <1>1, <3>1, <3>2, SameFile DEF Begun
    <3> QED BY <3>3
  <2>2. ASSUME NEW e \in DOMAIN file.dies, DieId(e) \in recorded' \ recorded PROVE e = d
    BY <2>2, TypeIds
  <2>3. \A e : Task # Materialize(e) /\ Task # Follow(e)
    BY <1>2, OtherTasks
  <2> QED BY <1>2, <2>1, <2>2, <2>3 DEF TaskDone
<1>4. Progress
  BY <1>3, AllProgresses
<1>5. \A q \in Tasks : Job(q) # DieId(d)
  <2> SUFFICES ASSUME NEW q \in Tasks PROVE Job(q) # DieId(d)
    OBVIOUS
  <2> QED BY <1>1, JobOfTask, TypeIds
<1>6. JobsAreDistinct(agenda)'
  BY <1>5, JobsStay
<1>7. Task.do \notin Recording \cup {"leave", "ensured", "unit type"}
  BY <1>2 DEF Recording
<1>8. IdsAreDistinct'
  <2>1. Ids' = Ids
    BY DEF Ids
  <2>2. DieId(d) \notin Ids /\ IdsAreDistinct
    BY <1>1 DEF WalkUnits, NodesOfTypes, NodesAreRecorded, Ids
  <2>3. \A t \in Tasks' : Job(t) # NoType => Job(t) \notin Ids
    BY <1>1, <2>2 DEF IdsAreDistinct
  <2> QED BY <2>1, <2>2, <2>3 DEF IdsAreDistinct
<1>9. NodesOfTypes'
  <2>1. \A t \in Tasks : t.do \in Recording =>
            \E q \in Tasks' : q.do \in Recording /\ q.node.id = t.node.id
    BY <1>1, <1>7
  <2>2. \A key : RecordUnit(key) \in Tasks => RecordUnit(key) \in Tasks'
    BY <1>1, <1>7, OtherTasks
  <2>3. \A id \in recorded' \ recorded :
            \/ \E t \in Tasks' : t.do \in Recording /\ t.node.id = id
            \/ \E e \in DOMAIN file.dies : id = DieId(e) /\ StandsForUnit(e)
    BY <1>1
  <2> QED BY <1>1, <1>4, <1>6, <1>8, <2>1, <2>2, <2>3, NodesGrow
<1>10. LoadingEnds'
  BY <1>4, <1>7, OthersStay
<1>11. IsList(types)'
  BY <1>1 DEF WalkUnits, Lists, IsList
<1> QED BY <1>4, <1>7, <1>9, <1>10, <1>11, TypeStep

LEMMA RecordTypeStep == ASSUME WalkInv, RecordType PROVE WalkInv'
<1>1. /\ stage = "units" /\ agenda # <<>> /\ Task.do = "type"
      /\ UNCHANGED <<file, stage, unit, scopes, loading, signed, types, variables>>
  BY DEF RecordType, Doing, Task, unchangedWalk
<1>2. IsTask(Task) /\ IsFile(file) /\ IsList(variables)
  BY <1>1, FirstAndRest DEF WalkInv, WalkUnits, TasksAreSound, Tasks, Lists, Task
<1>3. PICK d \in DOMAIN file.dies : Task = Record(d) /\ Task.die = d
  BY <1>1, <1>2 DEF IsTask
<1> DEFINE target == IF Die(d).tag \in ReferringTags /\ TypeId(Die(d).type) # Unknown
                     THEN TypeId(Die(d).type) ELSE NoType
<1>4. CASE DieId(d) \in recorded
  <2>1. Continue(<<>>) /\ recorded' = recorded
    BY <1>3, <1>4 DEF RecordType
  <2>2. StepOf(<<>>)
    BY <1>1, <2>1, NoList DEF StepOf
  <2>3. \A e : Task \in {Ensure(e), Walk(e), Record(e)} => e = d
    <3>1. ASSUME NEW e, Task = Record(e) PROVE e = d
      <4>1. Record(e).die = e
        BY Shapes
      <4> QED BY <1>3, <3>1, <4>1
    <3> QED BY <1>1, <3>1, OtherTasks
  <2>4. TaskDone
    <3>1. \A e : Task # Materialize(e) /\ Task # Follow(e)
      BY <1>1, OtherTasks
    <3> QED BY <1>1, <1>4, <2>1, <2>3, <3>1 DEF TaskDone
  <2>5. Progress
    BY <2>2, <2>4, AllProgresses
  <2>6. IsList(variables)' /\ VariablesAreDue'
    BY <1>1, <2>2, <2>5, OthersStay
  <2> QED BY <1>1, <2>1, <2>2, <2>4, <2>6, NoList, PlainStep DEF Plain
<1>5. CASE DieId(d) \notin recorded
  <2>1. PICK unitType : unitType = IF Die(d).signature = Nowhere THEN <<>>
                                   ELSE <<Materialize(Die(d).signature)>>
    OBVIOUS
  <2>2. PICK node : node = [id |-> DieId(d), target |-> target,
                            members |-> <<>>, bases |-> <<>>]
    OBVIOUS
  <2>3. PICK reference : reference = Die(d).type
    OBVIOUS
  <2>4. PICK children : children = Die(d).children
    OBVIOUS
  <2>5. /\ recorded' = recorded \cup {DieId(d)}
        /\ Continue(unitType \o
                      IF StandsForUnit(d) THEN <<>>
                      ELSE Append(Refer(reference), Children(d, node, children)))
    BY <1>3, <1>5, <2>1, <2>2, <2>3, <2>4 DEF RecordType
  <2>6. IsList(unitType) /\ \A t \in Range(unitType) : t.do \in Plain /\ IsTask(t)'
    <3>1. CASE unitType = <<>>
      BY <3>1, NoList
    <3>2. ASSUME NEW key, unitType = <<Materialize(key)>>
          PROVE  IsList(unitType) /\ \A t \in Range(unitType) : t.do \in Plain /\ IsTask(t)'
      <4>1. IsList(unitType) /\ \A t \in Range(unitType) : t = Materialize(key)
        BY <3>2, OneList
      <4>2. Materialize(key).do \in Plain /\ IsTask(Materialize(key))'
        BY <1>1, KeyTasks, Shapes DEF Plain
      <4> QED BY <4>1, <4>2
    <3> QED BY <2>1, <3>1, <3>2
  <2>7. StandsForUnit(d) => Materialize(Die(d).signature) \in Range(unitType)
    <3>1. ASSUME StandsForUnit(d) PROVE unitType = <<Materialize(Die(d).signature)>>
      BY <1>2, <2>1, <3>1, UnitTypesAre DEF StandsForUnit, IsFile
    <3> QED BY <3>1, OneList
  <2>8. CASE StandsForUnit(d)
    <3>1. Continue(unitType)
      <4>1. unitType \in Seq(Range(unitType))
        BY <2>6 DEF IsList
      <4>2. unitType \o <<>> = unitType
        BY <4>1
      <4> QED BY <2>5, <2>8, <4>2
    <3>2. StepOf(unitType)
      BY <1>1, <2>6, <3>1 DEF StepOf
    <3>3. \A t \in Range(unitType) : t.do # "leave" /\ IsTask(t)' /\ Job(t) = NoType
      BY <2>6, PlainHasNoJob
    <3>4. JobsAreDistinct(unitType)
      BY <2>6, <3>3, NoJobs
    <3> QED BY <1>1, <1>3, <1>5, <2>5, <2>7, <2>8, <3>2, <3>3, <3>4, NewTypeStep
  <2>9. CASE ~StandsForUnit(d)
    <3>1. PICK t : t = Children(d, node, children)
      OBVIOUS
    <3>2. /\ IsList(Refer(reference))
          /\ \A q \in Range(Refer(reference)) : q.do \in Plain /\ IsTask(q)'
      BY <1>1, ReferTasks DEF Plain
    <3>3. PICK others : others = unitType \o Refer(reference)
      OBVIOUS
    <3>4. /\ IsList(others) /\ \A q \in Range(others) : q.do \in Plain /\ IsTask(q)'
          /\ Range(Refer(reference)) \subseteq Range(others)
      BY <2>6, <3>2, <3>3, Concatenated
    <3>5. Continue(others \o <<t>>)
      <4>1. Append(Refer(reference), t) = Refer(reference) \o <<t>>
        BY <3>2, Appended
      <4>2. PICK S : unitType \in Seq(S) /\ Refer(reference) \in Seq(S) /\ <<t>> \in Seq(S)
        <5>1. /\ unitType \in Seq(Range(unitType)) /\ <<t>> \in Seq({t})
              /\ Refer(reference) \in Seq(Range(Refer(reference)))
          BY <2>6, <3>2, ListFacts
        <5>2. PICK S : S = Range(unitType) \cup Range(Refer(reference)) \cup {t}
          OBVIOUS
        <5>3. unitType \in Seq(S) /\ Refer(reference) \in Seq(S) /\ <<t>> \in Seq(S)
          BY <5>1, <5>2
        <5> QED BY <5>3
      <4>3. unitType \o (Refer(reference) \o <<t>>) = (unitType \o Refer(reference)) \o <<t>>
        BY <4>2
      <4> QED BY <2>5, <2>9, <3>1, <3>3, <4>1, <4>3
    <3>6. t.do \in Recording /\ t.node = node /\ node.id = DieId(d)
      BY <2>2, <3>1, NodeShapes
    <3>7. /\ IsList(others \o <<t>>) /\ JobsAreDistinct(others \o <<t>>)
          /\ Range(others \o <<t>>) = Range(others) \cup {t}
          /\ \A q \in Range(others \o <<t>>) :
                 q.do # "leave" /\ Job(q) \in {NoType, DieId(d)}
      BY <3>4, <3>6, ThenNode
    <3>8. StepOf(others \o <<t>>)
      BY <1>1, <3>5, <3>7 DEF StepOf
    <3>9. NodeDue(node)'
      <4>1. PICK id : id = TypeId(reference)
        OBVIOUS
      <4>2. \A q \in Range(Refer(reference)) : q \in Tasks'
        BY <3>4, <3>7, <3>8, TasksOfStep
      <4>3. Due(id)'
        BY <1>1, <1>2, <4>1, <4>2, Referring
      <4>4. node.target \in {NoType, id}
        BY <2>2, <2>3, <4>1
      <4>5. DOMAIN node.members = {} /\ DOMAIN node.bases = {}
        BY <2>2
      <4> QED BY <4>3, <4>4, <4>5 DEF NodeDue
    <3>10. IsTask(t)'
      <4>1. children \in Seq(DOMAIN file.dies)
        BY <1>2, <2>4 DEF IsFile, Die
      <4>2. IsList(node.members) /\ IsList(node.bases)
        BY <2>2, NoList
      <4>3. node = [id |-> DieId(d), target |-> node.target,
                    members |-> node.members, bases |-> node.bases]
        BY <2>2
      <4> QED BY <1>1, <2>5, <2>9, <3>1, <3>9, <4>1, <4>2, <4>3, NodeTask
    <3>11. PICK tasks : tasks = others \o <<t>>
      OBVIOUS
    <3>12. /\ StepOf(tasks) /\ JobsAreDistinct(tasks) /\ t \in Range(tasks)
           /\ \A q \in Range(tasks) :
                  q.do # "leave" /\ IsTask(q)' /\ Job(q) \in {NoType, DieId(d)}
      BY <3>4, <3>7, <3>8, <3>10, <3>11
    <3> QED BY <1>1, <1>3, <1>5, <2>5, <2>9, <3>6, <3>12, NewTypeStep
  <2> QED BY <2>8, <2>9
<1> QED BY <1>4, <1>5

\* What the loop over the children of a type knows of its node
LEMMA NodeOfTask ==
    ASSUME WalkInv, stage = "units", agenda # <<>>, Task.do \in Recording
    PROVE  /\ IsFile(file) /\ Task.rest \in Seq(DOMAIN file.dies)
           /\ Task.of \in DOMAIN file.dies /\ ~StandsForUnit(Task.of)
           /\ DieId(Task.of) \in recorded /\ NodeDue(Task.node)
           /\ IsList(Task.node.members) /\ IsList(Task.node.bases)
           /\ Task.node = [id |-> DieId(Task.of), target |-> Task.node.target,
                           members |-> Task.node.members, bases |-> Task.node.bases]
           /\ Task.do = "place" => Due(TypeId(Die(Task.die).type))
BY FirstAndRest DEF WalkInv, WalkUnits, TasksAreSound, Tasks, Lists, Task, IsTask

LEMMA NextChildStep == ASSUME WalkInv, NextChild PROVE WalkInv'
<1>1. /\ stage = "units" /\ agenda # <<>> /\ Task.do = "children" /\ Task.rest # <<>>
      /\ UNCHANGED <<file, stage, unit, scopes, recorded, loading, signed, types, variables>>
  BY DEF NextChild, Doing, Task, unchangedWalk
<1>2. Task.do \in Recording
  BY <1>1 DEF Recording
<1>3. PICK d, node, all : d = Task.of /\ node = Task.node /\ all = Task.rest
  OBVIOUS
<1>4. /\ IsFile(file) /\ all \in Seq(DOMAIN file.dies) /\ all # <<>>
      /\ d \in DOMAIN file.dies /\ ~StandsForUnit(d)
      /\ DieId(d) \in recorded /\ NodeDue(node)
      /\ IsList(node.members) /\ IsList(node.bases)
      /\ node = [id |-> DieId(d), target |-> node.target,
                 members |-> node.members, bases |-> node.bases]
  BY <1>1, <1>2, <1>3, NodeOfTask
<1>5. PICK child \in DOMAIN file.dies, rest \in Seq(DOMAIN file.dies) :
          child = Head(all) /\ rest = Tail(all)
  <2>1. PICK S : S = DOMAIN file.dies
    OBVIOUS
  <2>2. all \in Seq(S) /\ all # <<>>
    BY <1>4, <2>1
  <2>3. Head(all) \in S /\ Tail(all) \in Seq(S)
    BY <2>2
  <2> QED BY <2>1, <2>3
<1>6. PICK reference : reference = Die(child).type
  OBVIOUS
<1>7. \/ Continue(Append(Refer(reference), Place(child, d, node, rest)))
      \/ Continue(Append(<<Record(child)>>, Children(d, node, rest)))
      \/ Continue(Append(<<>>, Children(d, node, rest)))
  BY <1>3, <1>5, <1>6 DEF NextChild
<1>8. Progress => NodeDue(node)' /\ IsTask(Children(d, node, rest))'
  BY <1>1, <1>4, NodeDueStays, NodeTask
<1>9. ASSUME NEW others, IsList(others), \A q \in Range(others) : q.do \in Plain /\ IsTask(q)',
             Continue(Append(others, Children(d, node, rest)))
      PROVE  WalkInv'
  <2>1. PICK t : t = Children(d, node, rest)
    OBVIOUS
  <2>2. t.do \in Recording /\ t.node.id = Task.node.id
    BY <1>3, <2>1, NodeShapes
  <2>3. StepOf(others \o <<t>>)
    <3>1. Append(others, t) = others \o <<t>>
      BY <1>9, Appended
    <3>2. IsList(others \o <<t>>)
      BY <1>9, <2>2, ThenNode
    <3> QED BY <1>1, <1>9, <2>1, <3>1, <3>2 DEF StepOf
  <2> QED BY <1>1, <1>2, <1>8, <1>9, <2>1, <2>2, <2>3, RecordingStep
<1>10. CASE Continue(Append(Refer(reference), Place(child, d, node, rest)))
  <2>1. PICK t : t = Place(child, d, node, rest)
    OBVIOUS
  <2>2. /\ IsList(Refer(reference))
        /\ \A q \in Range(Refer(reference)) : q.do \in Plain /\ IsTask(q)'
    BY <1>1, ReferTasks DEF Plain
  <2>3. t.do \in Recording /\ t.node.id = Task.node.id
    BY <1>3, <2>1, NodeShapes
  <2>4. /\ StepOf(Refer(reference) \o <<t>>)
        /\ Range(Refer(reference) \o <<t>>) = Range(Refer(reference)) \cup {t}
    <3>1. Append(Refer(reference), t) = Refer(reference) \o <<t>>
      BY <2>2, Appended
    <3>2. /\ IsList(Refer(reference) \o <<t>>)
          /\ Range(Refer(reference) \o <<t>>) = Range(Refer(reference)) \cup {t}
      BY <2>2, <2>3, ThenNode
    <3> QED BY <1>1, <1>10, <2>1, <3>1, <3>2 DEF StepOf
  <2>5. Due(TypeId(Die(child).type))'
    <3>1. PICK id : id = TypeId(reference)
      OBVIOUS
    <3>2. \A q \in Range(Refer(reference)) : q \in Tasks'
      BY <2>4, TasksOfStep
    <3>3. Due(id)'
      BY <1>1, <1>4, <3>1, <3>2, Referring
    <3>4. Die(child).type' = reference /\ TypeId(reference)' = id
      BY <1>1, <1>6, <3>1, SameFile
    <3> QED BY <3>3, <3>4
  <2>6. Progress => IsTask(t)'
    BY <1>1, <1>4, <1>8, <2>1, <2>5, NodeTask
  <2> QED BY <1>1, <1>2, <2>2, <2>3, <2>4, <2>6, RecordingStep
<1>11. IsList(<<>>) /\ \A q \in Range(<<>>) : q.do \in Plain /\ IsTask(q)'
  BY NoList
<1>12. IsList(<<Record(child)>>) /\ \A q \in Range(<<Record(child)>>) : q.do \in Plain /\ IsTask(q)'
  <2>1. Record(child).do \in Plain /\ IsTask(Record(child))'
    BY <1>1, DieTasks, Shapes DEF Plain
  <2> QED BY <2>1, OneList
<1> QED BY <1>7, <1>9, <1>10, <1>11, <1>12

\* The node of a type with one more member or base
LEMMA GrownNode ==
    ASSUME NEW node, NEW part, NEW grown, IsList(node.members), IsList(node.bases),
           node = [id |-> node.id, target |-> node.target,
                   members |-> node.members, bases |-> node.bases],
           grown \in {node, [node EXCEPT !.members = Append(@, part)],
                            [node EXCEPT !.bases = Append(@, part)]}
    PROVE  /\ grown = [id |-> node.id, target |-> grown.target,
                       members |-> grown.members, bases |-> grown.bases]
           /\ IsList(grown.members) /\ IsList(grown.bases) /\ grown.id = node.id
           /\ NodeDue(node)' /\ Due(part.type)' => NodeDue(grown)'
<1>1. PICK members, bases : members = node.members /\ bases = node.bases
  OBVIOUS
<1>2. PICK newMembers, newBases :
          /\ grown = [id |-> node.id, target |-> node.target,
                      members |-> newMembers, bases |-> newBases]
          /\ newMembers \in {members, Append(members, part)}
          /\ newBases \in {bases, Append(bases, part)}
  <2>1. CASE grown = node
    BY <1>1, <2>1
  <2>2. CASE grown = [node EXCEPT !.members = Append(@, part)]
    <3>1. grown = [id |-> node.id, target |-> node.target,
                   members |-> Append(members, part), bases |-> bases]
      BY <1>1, <2>2
    <3> QED BY <3>1
  <2>3. CASE grown = [node EXCEPT !.bases = Append(@, part)]
    <3>1. grown = [id |-> node.id, target |-> node.target,
                   members |-> members, bases |-> Append(bases, part)]
      BY <1>1, <2>3
    <3> QED BY <3>1
  <2> QED BY <2>1, <2>2, <2>3
<1>3. ASSUME NEW list, IsList(list), NEW longer \in {list, Append(list, part)},
             Due(part.type)', \A i \in DOMAIN list : Due(list[i].type)'
      PROVE  \A i \in DOMAIN longer : Due(longer[i].type)'
  <2>1. CASE longer = list
    BY <1>3, <2>1
  <2>2. CASE longer = Append(list, part)
    <3>1. /\ DOMAIN longer = DOMAIN list \cup {Len(list) + 1}
          /\ \A i \in DOMAIN list : longer[i] = list[i]
          /\ longer[Len(list) + 1] = part
      BY <1>3, <2>2, Appended
    <3>2. ASSUME NEW i \in DOMAIN longer PROVE Due(longer[i].type)'
      <4>1. CASE i \in DOMAIN list
        BY <1>3, <3>1, <4>1
      <4>2. CASE i = Len(list) + 1
        BY <1>3, <3>1, <4>2
      <4> QED BY <3>1, <4>1, <4>2
    <3> QED BY <3>2
  <2> QED BY <1>3, <2>1, <2>2
<1>4. IsList(newMembers) /\ IsList(newBases)
  <2>1. IsList(members) /\ IsList(bases)
    BY <1>1
  <2>2. IsList(Append(members, part)) /\ IsList(Append(bases, part))
    BY <2>1, Appended
  <2> QED BY <1>2, <2>1, <2>2
<1>5. ASSUME NodeDue(node)', Due(part.type)' PROVE NodeDue(grown)'
  <2>1. /\ \A i \in DOMAIN members : Due(members[i].type)'
        /\ \A i \in DOMAIN bases : Due(bases[i].type)'
        /\ node.target = NoType \/ Due(node.target)'
    BY <1>1, <1>5 DEF NodeDue
  <2>2. \A i \in DOMAIN newMembers : Due(newMembers[i].type)'
    BY <1>1, <1>2, <1>3, <1>5, <2>1
  <2>3. \A i \in DOMAIN newBases : Due(newBases[i].type)'
    BY <1>1, <1>2, <1>3, <1>5, <2>1
  <2>4. grown.members = newMembers /\ grown.bases = newBases /\ grown.target = node.target
    BY <1>2
  <2> QED BY <2>1, <2>2, <2>3, <2>4 DEF NodeDue
<1> QED BY <1>2, <1>4, <1>5

LEMMA PlaceMemberStep == ASSUME WalkInv, PlaceMember PROVE WalkInv'
<1>1. /\ stage = "units" /\ agenda # <<>> /\ Task.do = "place"
      /\ UNCHANGED <<file, stage, unit, scopes, recorded, loading, signed, types, variables>>
  BY DEF PlaceMember, Doing, Task, unchangedWalk
<1>2. Task.do \in Recording
  BY <1>1 DEF Recording
<1>3. PICK d, node, rest, child :
          d = Task.of /\ node = Task.node /\ rest = Task.rest /\ child = Task.die
  OBVIOUS
<1>4. /\ IsFile(file) /\ rest \in Seq(DOMAIN file.dies)
      /\ d \in DOMAIN file.dies /\ ~StandsForUnit(d)
      /\ DieId(d) \in recorded /\ NodeDue(node)
      /\ IsList(node.members) /\ IsList(node.bases)
      /\ node = [id |-> DieId(d), target |-> node.target,
                 members |-> node.members, bases |-> node.bases]
      /\ Due(TypeId(Die(child).type))
  BY <1>1, <1>2, <1>3, NodeOfTask
<1>5. PICK grown : /\ grown \in {WithMember(node, child), WithBase(node, child)}
                   /\ Continue(<<Children(d, grown, rest)>>)
  <2>1. \/ Continue(<<Children(d, WithMember(node, child), rest)>>)
        \/ Continue(<<Children(d, WithBase(node, child), rest)>>)
    BY <1>3 DEF PlaceMember
  <2> QED BY <2>1
<1>6. PICK part :
          /\ part.type = TypeId(Die(child).type)
          /\ grown \in {node, [node EXCEPT !.members = Append(@, part)],
                              [node EXCEPT !.bases = Append(@, part)]}
  <2>1. CASE grown = WithMember(node, child)
    <3>1. PICK part : part = [die |-> child, type |-> TypeId(Die(child).type),
                              place |-> PlaceOf(child, node.members = <<>>)]
      OBVIOUS
    <3>2. grown \in {node, [node EXCEPT !.members = Append(@, part)]}
      BY <2>1, <3>1 DEF WithMember
    <3> QED BY <3>1, <3>2
  <2>2. CASE grown = WithBase(node, child)
    <3>1. PICK part : part = [die |-> child, type |-> TypeId(Die(child).type),
                              place |-> PlaceOf(child, node.bases = <<>>)]
      OBVIOUS
    <3>2. grown \in {node, [node EXCEPT !.bases = Append(@, part)]}
      BY <2>2, <3>1 DEF WithBase
    <3> QED BY <3>1, <3>2
  <2> QED BY <1>5, <2>1, <2>2
<1>7. node.id = DieId(d)
  BY <1>4
<1>8. node = [id |-> node.id, target |-> node.target,
              members |-> node.members, bases |-> node.bases]
  BY <1>4, <1>7
<1>9. /\ grown = [id |-> DieId(d), target |-> grown.target,
                  members |-> grown.members, bases |-> grown.bases]
      /\ IsList(grown.members) /\ IsList(grown.bases) /\ grown.id = node.id
      /\ NodeDue(node)' /\ Due(part.type)' => NodeDue(grown)'
  BY <1>4, <1>6, <1>7, <1>8, GrownNode
<1>10. Progress => NodeDue(node)' /\ Due(part.type)'
  <2>1. Due(part.type)
    BY <1>4, <1>6
  <2> QED BY <1>1, <1>4, <2>1, DueStays, NodeDueStays
<1>11. PICK t : t = Children(d, grown, rest)
  OBVIOUS
<1>12. Progress => IsTask(t)'
  BY <1>1, <1>4, <1>9, <1>10, <1>11, NodeTask
<1>13. t.do \in Recording /\ t.node.id = Task.node.id
  BY <1>3, <1>9, <1>11, NodeShapes
<1>14. IsList(<<>>) /\ \A q \in Range(<<>>) : q.do \in Plain /\ IsTask(q)'
  BY NoList
<1>15. StepOf(<<>> \o <<t>>)
  <2>1. IsList(<<>> \o <<t>>)
    BY <1>13, <1>14, ThenNode
  <2>2. <<>> \o <<t>> = <<t>>
    OBVIOUS
  <2> QED BY <1>1, <1>5, <1>11, <2>1, <2>2 DEF StepOf
<1> QED BY <1>1, <1>2, <1>12, <1>13, <1>14, <1>15, RecordingStep

LEMMA RecordedTypeStep == ASSUME WalkInv, RecordedType PROVE WalkInv'
<1>1. /\ stage = "units" /\ agenda # <<>> /\ Task.do = "children" /\ Continue(<<>>)
      /\ UNCHANGED <<file, stage, unit, scopes, recorded, loading, signed, variables>>
      /\ types' = Append(types, Task.node)
  BY DEF RecordedType, Doing, Task, unchangedWalk
<1>2. Task.do \in Recording
  BY <1>1 DEF Recording
<1>3. PICK d, node : d = Task.of /\ node = Task.node
  OBVIOUS
<1>4. /\ d \in DOMAIN file.dies /\ ~StandsForUnit(d)
      /\ DieId(d) \in recorded /\ NodeDue(node)
      /\ node = [id |-> DieId(d), target |-> node.target,
                 members |-> node.members, bases |-> node.bases]
  BY <1>1, <1>2, <1>3, NodeOfTask
<1>5. StepOf(<<>>)
  BY <1>1, NoList DEF StepOf
<1>6. Progress
  <2>1. TaskDone
    BY <1>1, NothingToSee
  <2> QED BY <1>5, <2>1, AllProgresses
<1>7. /\ WalkUnits /\ IsList(types) /\ IsList(agenda) /\ JobsAreDistinct(agenda)
      /\ IdsAreDistinct /\ IsTask(Task)
      /\ Tasks' = Range(Tail(agenda)) /\ Tasks = {Task} \cup Range(Tail(agenda))
  BY <1>5, NoList, TasksOfStep DEF WalkUnits, Lists, NodesOfTypes
<1>8. /\ IsList(Append(types, node)) /\ DOMAIN Append(types, node) = DOMAIN types \cup {Len(types) + 1}
      /\ \A i \in DOMAIN types : Append(types, node)[i] = types[i]
      /\ Append(types, node)[Len(types) + 1] = node
  <2>1. IsAppended(Append(types, node), types, node)
    BY <1>7, AppendIs
  <2> QED BY <2>1 DEF IsAppended
<1>9. node.id = DieId(d) /\ Job(Task) = DieId(d)
  BY <1>2, <1>3, <1>4, <1>7, RecordingTask
<1>10. Ids' = Ids \cup {DieId(d)}
  BY <1>1, <1>3, <1>8, <1>9 DEF Ids
<1>11. DieId(d) \notin Ids
  BY <1>7, <1>9, TypeIds DEF IdsAreDistinct
<1>12. IdsAreDistinct'
  <2>1. \A t \in Tasks' : Job(t) # NoType => Job(t) \notin Ids'
    <3>1. \A t \in Range(Tail(agenda)) : Job(t) # DieId(d)
      BY <1>1, <1>7, <1>9, JobsOfRest, TypeIds
    <3> QED BY <1>7, <1>10, <3>1 DEF IdsAreDistinct
  <2>2. \A i, j \in DOMAIN types' : types'[i].id = types'[j].id => i = j
    <3>1. \A i \in DOMAIN types : types[i].id # DieId(d)
      BY <1>11 DEF Ids
    <3> QED BY <1>1, <1>3, <1>7, <1>8, <1>9, <3>1 DEF IdsAreDistinct
  <2> QED BY <2>1, <2>2 DEF IdsAreDistinct
<1>13. JobsAreDistinct(agenda)'
  <2>1. JobsAreDistinct(<<>>)
    BY NoList, NoJobs
  <2> QED BY <1>5, <2>1, NoList, JobsStay
<1>14. NodesOfTypes'
  <2>1. ASSUME NEW i, i \in DOMAIN types', i \notin DOMAIN types
        PROVE  (types[i].id \in recorded /\ IsNodeId(types[i].id, i) /\ NodeDue(types[i]))'
    <3>1. types'[i] = node
      BY <1>1, <1>3, <1>8, <2>1
    <3>2. IsNodeId(node.id, i)'
      <4>1. PICK id : id = node.id
        OBVIOUS
      <4>2. id = DieId(d)' /\ d \in DOMAIN file.dies' /\ ~StandsForUnit(d)'
        BY <1>1, <1>4, <1>9, <4>1, SameFile DEF DieId
      <4>3. IsNodeId(id, i)'
        BY <4>2 DEF IsNodeId
      <4> QED BY <4>1, <4>3
    <3>3. NodeDue(node)'
      BY <1>1, <1>4, <1>6, NodeDueStays
    <3>4. node.id \in recorded'
      BY <1>1, <1>4, <1>9
    <3> QED BY <3>1, <3>2, <3>3, <3>4
  <2>2. \A t \in Tasks : t.do \in Recording =>
            \/ t.node.id \in Ids'
            \/ \E q \in Tasks' : q.do \in Recording /\ q.node.id = t.node.id
    BY <1>3, <1>7, <1>9, <1>10
  <2>3. \A key : RecordUnit(key) \in Tasks => RecordUnit(key) \in Tasks'
    BY <1>1, <1>7, OtherTasks
  <2>4. \A i \in DOMAIN types : i \in DOMAIN types' /\ types'[i] = types[i]
    BY <1>1, <1>3, <1>8
  <2> QED BY <1>1, <1>6, <1>7, <1>12, <1>13, <2>1, <2>2, <2>3, <2>4, NodesGrow
<1>15. LoadingEnds'
  BY <1>1, <1>5, <1>6, OthersStay
<1>16. IsList(types)'
  BY <1>1, <1>3, <1>8 DEF IsList
<1> QED BY <1>1, <1>5, <1>6, <1>14, <1>15, <1>16, NoList, TypeStep

-----------------------------------------------------------------------------
(* The steps that record the types of type units.                          *)

\* What a described type refers to, by its parts
LEMMA ReferredParts ==
    ASSUME IsFile(file), NEW key \in DOMAIN UnitTypes
    PROVE  /\ IsList(ReferredKeys(UnitTypes[key]))
           /\ UnitTypes[key].target \in Referred(key)
           /\ \A i \in DOMAIN UnitTypes[key].members :
                  UnitTypes[key].members[i].type \in Referred(key)
           /\ \A i \in DOMAIN UnitTypes[key].bases :
                  UnitTypes[key].bases[i].type \in Referred(key)
<1>1. PICK type : type = UnitTypes[key]
  OBVIOUS
<1>2. IsList(type.members) /\ IsList(type.bases)
  BY <1>1, UnitTypesAre
<1>3. PICK first, members, bases :
          /\ first = <<type.target>>
          /\ members = [i \in DOMAIN type.members |-> type.members[i].type]
          /\ bases = [i \in DOMAIN type.bases |-> type.bases[i].type]
  OBVIOUS
<1>4. IsList(first) /\ Range(first) = {type.target}
  BY <1>3, OneList
<1>5. IsList(members) /\ \A i \in DOMAIN type.members : type.members[i].type \in Range(members)
  <2>1. members = [i \in DOMAIN type.members |-> members[i]]
    BY <1>3
  <2>2. IsList(members)
    BY <1>2, <2>1, SamePlaces
  <2> QED BY <1>3, <2>2 DEF Range
<1>6. IsList(bases) /\ \A i \in DOMAIN type.bases : type.bases[i].type \in Range(bases)
  <2>1. bases = [i \in DOMAIN type.bases |-> bases[i]]
    BY <1>3
  <2>2. IsList(bases)
    BY <1>2, <2>1, SamePlaces
  <2> QED BY <1>3, <2>2 DEF Range
<1>7. ReferredKeys(type) = (first \o members) \o bases
  BY <1>3 DEF ReferredKeys
<1>8. IsList(first \o members) /\ Range(first \o members) = Range(first) \cup Range(members)
  BY <1>4, <1>5, Concatenated
<1>9. /\ IsList((first \o members) \o bases)
      /\ Range((first \o members) \o bases) = Range(first \o members) \cup Range(bases)
  BY <1>6, <1>8, Concatenated
<1>10. Range(ReferredKeys(type)) = {type.target} \cup Range(members) \cup Range(bases)
  BY <1>4, <1>7, <1>8, <1>9
<1>11. Referred(key) = Range(ReferredKeys(type))
  BY <1>1 DEF Referred
<1> QED BY <1>1, <1>5, <1>6, <1>7, <1>9, <1>10, <1>11

LEMMA FollowReferencesStep == ASSUME WalkInv, FollowReferences PROVE WalkInv'
<1>1. /\ stage = "units" /\ agenda # <<>> /\ Task.do = "references"
      /\ UNCHANGED <<file, stage, unit, scopes, recorded, loading, signed, types, variables>>
  BY DEF FollowReferences, Doing, Task, unchangedWalk
<1>2. IsTask(Task) /\ IsFile(file) /\ IsList(variables)
  BY <1>1, FirstAndRest DEF WalkInv, WalkUnits, TasksAreSound, Tasks, Lists, Task
<1>3. PICK key \in DOMAIN UnitTypes : Task = Follow(key) /\ Task.key = key
  BY <1>1, <1>2 DEF IsTask
<1>4. PICK keys, inner : keys = ReferredKeys(UnitTypes[key]) /\ inner = UnitTypes[key].nested
  OBVIOUS
<1>5. PICK begun, followed :
          /\ begun = [i \in DOMAIN keys |-> Materialize(keys[i])]
          /\ followed = [i \in DOMAIN inner |-> Follow(inner[i])]
  OBVIOUS
<1>6. Continue(begun \o followed)
  BY <1>3, <1>4, <1>5 DEF FollowReferences
<1>7. IsList(keys) /\ Range(keys) = Referred(key)
  BY <1>2, <1>4, ReferredParts DEF Referred
<1>8. IsList(inner) /\ Range(inner) \subseteq DOMAIN UnitTypes
  <2>1. PICK S : S = DOMAIN UnitTypes
    OBVIOUS
  <2>2. inner \in Seq(S)
    BY <1>2, <1>4, <2>1, UnitTypesAre
  <2> QED BY <2>1, <2>2, ListOf
<1>9. IsList(begun) /\ Range(begun) = {Materialize(k) : k \in Referred(key)}
  <2>1. begun = [i \in DOMAIN keys |-> begun[i]]
    BY <1>5
  <2>2. IsList(begun)
    BY <1>7, <2>1, SamePlaces
  <2> QED BY <1>5, <1>7, <2>2 DEF Range
<1>10. IsList(followed) /\ Range(followed) = {Follow(n) : n \in Range(inner)}
  <2>1. followed = [i \in DOMAIN inner |-> followed[i]]
    BY <1>5
  <2>2. IsList(followed)
    BY <1>8, <2>1, SamePlaces
  <2> QED BY <1>5, <2>2 DEF Range
<1>11. PICK tasks : tasks = begun \o followed
  OBVIOUS
<1>12. IsList(tasks) /\ Range(tasks) = Range(begun) \cup Range(followed)
  BY <1>9, <1>10, <1>11, Concatenated
<1>13. StepOf(tasks)
  BY <1>1, <1>6, <1>11, <1>12 DEF StepOf
<1>14. \A t \in Range(tasks) : t.do \in Plain /\ IsTask(t)'
  <2>1. ASSUME NEW k PROVE Materialize(k).do \in Plain /\ IsTask(Materialize(k))'
    BY <1>1, KeyTasks, Shapes DEF Plain
  <2>2. ASSUME NEW n \in Range(inner) PROVE Follow(n).do \in Plain /\ IsTask(Follow(n))'
    BY <1>1, <1>8, KeyTasks, Shapes DEF Plain
  <2> QED BY <1>9, <1>10, <1>12, <2>1, <2>2
<1>15. TaskDone
  <2>1. Range(tasks) \subseteq Tasks'
    BY <1>13, TasksOfStep
  <2>2. ASSUME NEW other, Task = Follow(other) PROVE other = key
    <3>1. Follow(other).key = other
      BY Shapes
    <3> QED BY <1>3, <2>2, <3>1
  <2>3. ASSUME NEW k \in AllReferred(key) PROVE Begun(k)' \/ Promised(k)'
    <3>1. CASE k \in Referred(key)
      <4>1. Materialize(k) \in Tasks'
        BY <1>9, <1>12, <2>1, <3>1
      <4> QED BY <4>1 DEF Begun
    <3>2. CASE \E n \in Range(inner) : k \in Referred(n)
      <4>1. PICK n \in Range(inner) : k \in Referred(n)
        BY <3>2
      <4>2. Follow(n) \in Tasks' /\ n \in DOMAIN UnitTypes
        BY <1>8, <1>10, <1>12, <2>1
      <4>3. k \in AllReferred(n)
        BY <4>1 DEF AllReferred
      <4>4. UnitTypes' = UnitTypes /\ AllReferred(n)' = AllReferred(n)
        BY <1>1, SameFile
      <4> QED BY <4>2, <4>3, <4>4 DEF Promised
    <3> QED BY <1>4, <3>1, <3>2 DEF AllReferred
  <2>4. \A e : /\ Task \notin {Ensure(e), Walk(e), Record(e)} /\ Task # Materialize(e)
    BY <1>1, OtherTasks
  <2> QED BY <1>1, <2>2, <2>3, <2>4 DEF TaskDone
<1>16. Progress
  BY <1>13, <1>15, AllProgresses
<1>17. IsList(variables)' /\ VariablesAreDue'
  BY <1>1, <1>13, <1>16, OthersStay
<1> QED BY <1>1, <1>13, <1>14, <1>15, <1>17, PlainStep DEF Plain

\* Each type of a type unit is begun once.
LEMMA MaterializeTypeStep == ASSUME WalkInv, MaterializeType PROVE WalkInv'
<1>1. /\ stage = "units" /\ agenda # <<>> /\ Task.do = "signature"
      /\ UNCHANGED <<file, stage, unit, scopes, recorded, types, variables>>
  BY DEF MaterializeType, Doing, Task, unchangedWalk
<1>2. /\ IsTask(Task) /\ IsFile(file) /\ IsList(variables) /\ WalkUnits
      /\ Tasks = {Task} \cup Range(Tail(agenda)) /\ \A t \in Tasks : IsTask(t)
  BY <1>1, FirstAndRest DEF WalkInv, WalkUnits, TasksAreSound, Tasks, Lists, Task
<1>3. PICK key : Task = Materialize(key) /\ Task.key = key
  BY <1>1, <1>2 DEF IsTask
<1>4. \A e : /\ Task \notin {Ensure(e), Walk(e), Record(e)} /\ Task # Follow(e)
            /\ Task # Ensured(e) /\ Task # RecordUnit(e)
  BY <1>1, OtherTasks
<1>5. ASSUME NEW k, Task = Materialize(k) PROVE k = key
  <2>1. Materialize(k).key = k
    BY Shapes
  <2> QED BY <1>3, <1>5, <2>1
<1>6. CASE key \in signed \/ key \notin DOMAIN UnitTypes
  <2>1. Continue(<<>>) /\ signed' = signed /\ loading' = loading
    BY <1>3, <1>6 DEF MaterializeType
  <2>2. StepOf(<<>>)
    BY <1>1, <2>1, NoList DEF StepOf
  <2>3. key \in DOMAIN UnitTypes => Begun(key)'
    BY <1>6, <2>1 DEF Begun
  <2>4. TaskDone
    BY <1>1, <1>4, <1>5, <2>1, <2>3 DEF TaskDone
  <2>5. Progress
    BY <2>2, <2>4, AllProgresses
  <2>6. IsList(variables)' /\ VariablesAreDue'
    BY <1>1, <2>1, <2>2, <2>5, OthersStay
  <2> QED BY <1>1, <2>1, <2>2, <2>4, <2>6, NoList, PlainStep DEF Plain
<1>7. CASE key \notin signed /\ key \in DOMAIN UnitTypes
  <2>1. /\ Continue(<<Follow(key), RecordUnit(key)>>)
        /\ signed' = signed \cup {key} /\ loading' = loading \cup {KeyId(key)}
    BY <1>3, <1>7 DEF MaterializeType
  <2>2. PICK tasks : tasks = <<Follow(key), RecordUnit(key)>>
    OBVIOUS
  <2>3. IsList(tasks) /\ Range(tasks) = {Follow(key), RecordUnit(key)}
    <3>1. tasks = <<Follow(key)>> \o <<RecordUnit(key)>>
      BY <2>2
    <3>2. /\ IsList(<<Follow(key)>>) /\ Range(<<Follow(key)>>) = {Follow(key)}
          /\ IsList(<<RecordUnit(key)>>) /\ Range(<<RecordUnit(key)>>) = {RecordUnit(key)}
      BY OneList
    <3>3. /\ IsList(<<Follow(key)>> \o <<RecordUnit(key)>>)
          /\ Range(<<Follow(key)>> \o <<RecordUnit(key)>>) =
                 Range(<<Follow(key)>>) \cup Range(<<RecordUnit(key)>>)
      BY <3>2, Concatenated
    <3> QED BY <3>1, <3>2, <3>3
  <2>4. StepOf(tasks)
    BY <1>1, <2>1, <2>2, <2>3 DEF StepOf
  <2>5. /\ Tasks' = Range(tasks) \cup Range(Tail(agenda))
        /\ Follow(key) \in Tasks' /\ RecordUnit(key) \in Tasks'
    BY <2>3, <2>4, TasksOfStep
  <2>6. Begun(key)'
    BY <2>1 DEF Begun
  <2>7. TaskDone
    BY <1>1, <1>4, <1>5, <2>1, <2>6 DEF TaskDone
  <2>8. Progress
    BY <2>4, <2>7, AllProgresses
  <2>9. Job(Follow(key)) = NoType /\ Job(RecordUnit(key)) = KeyId(key)
        /\ Follow(key).do # "leave" /\ RecordUnit(key).do # "leave"
    BY Shapes DEF Job, Recording
  <2>10. \A q \in Tasks : Job(q) # KeyId(key)
    <3> SUFFICES ASSUME NEW q \in Tasks PROVE Job(q) # KeyId(key)
      OBVIOUS
    <3> QED BY <1>2, <1>7, JobOfTask, TypeIds
  <2>11. JobsAreDistinct(agenda)'
    <3>1. JobsAreDistinct(tasks)
      <4>1. DOMAIN tasks = {1, 2} /\ tasks[1] = Follow(key) /\ tasks[2] = RecordUnit(key)
        BY <2>2
      <4> QED BY <2>9, <4>1 DEF JobsAreDistinct
    <3> QED BY <2>3, <2>4, <2>9, <2>10, <3>1, JobsStay
  <2>12. IdsAreDistinct'
    <3>1. Ids' = Ids /\ IdsAreDistinct /\ NodesAreRecorded
      BY <1>1, <1>2 DEF Ids, WalkUnits, NodesOfTypes
    <3>2. KeyId(key) \notin Ids
      BY <1>7, <3>1, TypeIds DEF NodesAreRecorded, IsNodeId, Ids
    <3>3. \A t \in Tasks' : Job(t) # NoType => Job(t) \notin Ids
      BY <1>2, <2>3, <2>5, <2>9, <3>1, <3>2 DEF IdsAreDistinct
    <3> QED BY <1>1, <3>1, <3>3 DEF IdsAreDistinct
  <2>13. NodesOfTypes'
    <3>1. \A t \in Tasks : t.do \in Recording =>
              \E q \in Tasks' : q.do \in Recording /\ q.node.id = t.node.id
      BY <1>1, <1>2, <2>5 DEF Recording
    <3>2. \A k : RecordUnit(k) \in Tasks => RecordUnit(k) \in Tasks'
      BY <1>2, <1>4, <2>5
    <3>3. ASSUME NEW other \in AllReferred(key) PROVE DueKey(other)'
      <4>1. UnitTypes' = UnitTypes /\ AllReferred(key)' = AllReferred(key)
        BY <1>1, SameFile
      <4>2. Promised(other)'
        BY <1>7, <2>5, <3>3, <4>1 DEF Promised
      <4> QED BY <4>2 DEF DueKey
    <3>4. \A k \in signed' \ signed :
              /\ k \in DOMAIN UnitTypes /\ RecordUnit(k) \in Tasks'
              /\ \A other \in AllReferred(k) : DueKey(other)'
      BY <1>7, <2>1, <2>5, <3>3
    <3> QED BY <1>1, <1>2, <2>8, <2>11, <2>12, <3>1, <3>2, <3>4, NodesGrow
  <2>14. LoadingEnds'
    <3>1. PICK id : id = KeyId(key)
      OBVIOUS
    <3>2. LoadingEnd(id)'
      BY <2>5, <3>1 DEF LoadingEnd, KeyId
    <3>3. \A x \in loading' \ loading : LoadingEnd(x)'
      BY <2>1, <3>1, <3>2
    <3> QED BY <1>4, <2>4, <2>8, <3>3, LoadingStays
  <2>15. \A t \in Range(tasks) : t.do # "leave" /\ IsTask(t)'
    <3>1. IsTask(Follow(key))' /\ IsTask(RecordUnit(key))'
      BY <1>1, <1>7, <2>1, KeyTasks
    <3> QED BY <2>3, <2>9, <3>1
  <2>16. IsList(types)'
    BY <1>1, <1>2 DEF WalkUnits, Lists, IsList
  <2> QED BY <1>1, <2>4, <2>8, <2>13, <2>14, <2>15, <2>16, TypeStep
<1> QED BY <1>6, <1>7

\* The ids in the node of a described type are due if what it refers to is.
LEMMA PartsDue ==
    ASSUME IsFile(file), file' = file, NEW key \in DOMAIN UnitTypes,
           \A other \in Referred(key) : DueKey(other)',
           NEW members, members = UnitMembers(UnitTypes[key]),
           NEW bases, bases = UnitBases(UnitTypes[key])
    PROVE  /\ \A i \in DOMAIN members : Due(members[i].type)'
           /\ \A i \in DOMAIN bases : Due(bases[i].type)'
           /\ Due(KeyId(UnitTypes[key].target))'
<1>1. ASSUME NEW other, DueKey(other)', NEW id, id = KeyId(other) PROVE Due(id)'
  BY <1>1 DEF Due, KeyId
<1>2. ASSUME NEW id, id = Unknown PROVE Due(id)'
  BY <1>2 DEF Due, Unknown
<1>3. ASSUME NEW i \in DOMAIN members PROVE Due(members[i].type)'
  <2>1. PICK id : id = members[i].type
    OBVIOUS
  <2>2. /\ i \in DOMAIN UnitTypes[key].members
        /\ id \in {Unknown, KeyId(UnitTypes[key].members[i].type)}
    BY <2>1 DEF UnitMembers
  <2>3. PICK other : other = UnitTypes[key].members[i].type
    OBVIOUS
  <2>4. DueKey(other)'
    BY <2>2, <2>3, ReferredParts
  <2>5. Due(id)'
    BY <1>1, <1>2, <2>2, <2>3, <2>4
  <2> QED BY <2>1, <2>5
<1>4. ASSUME NEW i \in DOMAIN bases PROVE Due(bases[i].type)'
  <2>1. PICK id : id = bases[i].type
    OBVIOUS
  <2>2. i \in DOMAIN UnitTypes[key].bases /\ id = KeyId(UnitTypes[key].bases[i].type)
    BY <2>1 DEF UnitBases
  <2>3. PICK other : other = UnitTypes[key].bases[i].type
    OBVIOUS
  <2>4. DueKey(other)'
    BY <2>2, <2>3, ReferredParts
  <2>5. Due(id)'
    BY <1>1, <2>2, <2>3, <2>4
  <2> QED BY <2>1, <2>5
<1>5. Due(KeyId(UnitTypes[key].target))'
  <2>1. PICK other, id : other = UnitTypes[key].target /\ id = KeyId(other)
    OBVIOUS
  <2>2. DueKey(other)'
    BY <2>1, ReferredParts
  <2>3. Due(id)'
    BY <1>1, <2>1, <2>2
  <2>4. UnitTypes' = UnitTypes
    BY SameFile
  <2>5. KeyId(UnitTypes[key].target)' = id
    BY <2>1, <2>4 DEF KeyId
  <2> QED BY <2>3, <2>5
<1> QED BY <1>3, <1>4, <1>5

\* Where the nodes of the types nested in one lie, and its own
NodesLie(list, nested, node, longer) ==
    /\ IsList(longer)
    /\ DOMAIN longer = 1..(Len(list) + Len(nested) + 1)
    /\ \A i \in DOMAIN list : i \in DOMAIN longer /\ longer[i] = list[i]
    /\ \A j \in DOMAIN nested :
           /\ Len(list) + j \in DOMAIN longer /\ Len(list) + j \notin DOMAIN list
           /\ longer[Len(list) + j] = nested[j]
    /\ Len(list) + Len(nested) + 1 \notin DOMAIN list
    /\ longer[Len(list) + Len(nested) + 1] = node
    /\ \A i \in DOMAIN longer :
           \/ i \in DOMAIN list
           \/ \E j \in DOMAIN nested : i = Len(list) + j
           \/ i = Len(list) + Len(nested) + 1

LEMMA NodesAdded ==
    ASSUME NEW list, IsList(list), NEW nested, IsList(nested), NEW node
    PROVE  NodesLie(list, nested, node, list \o Append(nested, node))
<1> DEFINE longer == list \o Append(nested, node)
<1>1. /\ IsList(Append(nested, node)) /\ Len(Append(nested, node)) = Len(nested) + 1
      /\ DOMAIN Append(nested, node) = DOMAIN nested \cup {Len(nested) + 1}
      /\ \A i \in DOMAIN nested : Append(nested, node)[i] = nested[i]
      /\ Append(nested, node)[Len(nested) + 1] = node
  <2>1. IsAppended(Append(nested, node), nested, node)
    BY AppendIs
  <2> QED BY <2>1 DEF IsAppended
<1>2. PICK added : added = Append(nested, node)
  OBVIOUS
<1>3. /\ IsList(longer) /\ Len(longer) = Len(list) + Len(added)
      /\ \A i \in DOMAIN list : longer[i] = list[i]
      /\ \A i \in DOMAIN added : longer[Len(list) + i] = added[i]
  BY <1>1, <1>2, Concatenated
<1>4. PICK n, m \in Nat : n = Len(list) /\ m = Len(nested)
  BY ListFacts
<1>5. DOMAIN list = 1..n /\ DOMAIN nested = 1..m
  BY <1>4, ListFacts
<1>6. DOMAIN longer = 1..(n + m + 1)
  <2>1. DOMAIN longer = 1..Len(longer)
    BY <1>3, ListFacts
  <2>2. Len(longer) = n + (m + 1)
    BY <1>1, <1>2, <1>3, <1>4
  <2> QED BY <2>1, <2>2
<1>7. ASSUME NEW j \in DOMAIN nested
      PROVE  /\ n + j \in DOMAIN longer /\ n + j \notin DOMAIN list
             /\ longer[n + j] = nested[j]
  <2>1. longer[n + j] = nested[j]
    BY <1>1, <1>2, <1>3, <1>4
  <2> QED BY <1>5, <1>6, <2>1
<1>8. n + m + 1 \notin DOMAIN list /\ longer[n + m + 1] = node
  <2>1. longer[n + (m + 1)] = node
    BY <1>1, <1>2, <1>3, <1>4
  <2>2. n + (m + 1) = n + m + 1
    OBVIOUS
  <2> QED BY <1>5, <2>1, <2>2
<1>9. ASSUME NEW i \in DOMAIN longer, i \notin DOMAIN list, i # n + m + 1
      PROVE  \E j \in DOMAIN nested : i = n + j
  <2>1. i - n \in DOMAIN nested /\ i = n + (i - n)
    BY <1>5, <1>6, <1>9
  <2> QED BY <2>1
<1>10. \A i \in DOMAIN list : i \in DOMAIN longer
  BY <1>5, <1>6
<1> HIDE DEF longer
<1>11. NodesLie(list, nested, node, longer)
  BY <1>3, <1>4, <1>6, <1>7, <1>8, <1>9, <1>10 DEF NodesLie
<1> QED BY <1>11 DEF longer

LEMMA RecordUnitTypeStep == ASSUME WalkInv, RecordUnitType PROVE WalkInv'
<1>1. /\ stage = "units" /\ agenda # <<>> /\ Task.do = "unit type" /\ Continue(<<>>)
      /\ UNCHANGED <<file, stage, unit, scopes, signed, variables>>
  BY DEF RecordUnitType, Doing, Task, unchangedWalk
<1>2. StepOf(<<>>)
  BY <1>1, NoList DEF StepOf
<1>3. /\ IsTask(Task) /\ IsFile(file) /\ WalkUnits /\ IsList(types) /\ IsList(agenda)
      /\ JobsAreDistinct(agenda) /\ IdsAreDistinct /\ NodesAreRecorded /\ SignedHaveNodes
      /\ Tasks' = Range(Tail(agenda)) /\ Tasks = {Task} \cup Range(Tail(agenda))
      /\ \A t \in Tasks : IsTask(t)
  BY <1>1, <1>2, NoList, TasksOfStep
     DEF WalkInv, WalkUnits, Lists, NodesOfTypes, TasksAreSound
<1>4. PICK key \in signed : Task = RecordUnit(key) /\ Task.key = key
  BY <1>1, <1>3 DEF IsTask
<1>5. /\ key \in DOMAIN UnitTypes /\ \A other \in AllReferred(key) : DueKey(other)
      /\ \A k : Task = RecordUnit(k) => k = key
  <2>1. ASSUME NEW k, Task = RecordUnit(k) PROVE k = key
    <3>1. RecordUnit(k).key = k
      BY Shapes
    <3> QED BY <1>4, <2>1, <3>1
  <2> QED BY <1>3, <2>1 DEF SignedHaveNodes
<1>6. PICK type, inner, n : type = UnitTypes[key] /\ inner = type.nested /\ n = Len(types)
  OBVIOUS
<1>7. PICK nested : nested = [i \in DOMAIN inner |->
                                 [id      |-> NestedId(key, n + i),
                                  target  |-> NoType,
                                  members |-> UnitMembers(UnitTypes[inner[i]]),
                                  bases   |-> <<>>]]
  OBVIOUS
<1>8. PICK node : node = [id      |-> KeyId(key),
                          target  |-> IF type.target = Nowhere THEN NoType
                                      ELSE KeyId(type.target),
                          members |-> UnitMembers(type),
                          bases   |-> UnitBases(type)]
  OBVIOUS
<1>9. /\ types' = types \o Append(nested, node)
      /\ recorded' = recorded \cup {nested[i].id : i \in DOMAIN nested} \cup {KeyId(key)}
      /\ loading' = loading \ {KeyId(key)}
  BY <1>4, <1>6, <1>7, <1>8 DEF RecordUnitType
<1>10. IsList(inner) /\ \A i \in DOMAIN inner : inner[i] \in DOMAIN UnitTypes
  <2>1. PICK S : S = DOMAIN UnitTypes
    OBVIOUS
  <2>2. inner \in Seq(S)
    BY <1>3, <1>5, <1>6, <2>1, UnitTypesAre
  <2>3. IsList(inner) /\ Range(inner) \subseteq S
    BY <2>2, ListOf
  <2> QED BY <2>1, <2>3 DEF Range
<1>11. /\ IsList(nested) /\ DOMAIN nested = DOMAIN inner
       /\ \A i \in DOMAIN inner : nested[i].id = NestedId(key, n + i)
  <2>1. nested = [i \in DOMAIN inner |-> nested[i]]
    BY <1>7
  <2> QED BY <1>7, <1>10, <2>1, SamePlaces
<1>12. node.id = KeyId(key)
  BY <1>8
<1>13. PICK last : last = n + Len(nested) + 1
  OBVIOUS
<1>14. /\ IsList(types') /\ last \in DOMAIN types'
       /\ \A i \in DOMAIN types : i \in DOMAIN types' /\ types'[i] = types[i]
       /\ \A j \in DOMAIN nested :
              /\ n + j \in DOMAIN types' /\ n + j \notin DOMAIN types
              /\ types'[n + j] = nested[j]
       /\ last \notin DOMAIN types /\ types'[last] = node
       /\ \A i \in DOMAIN types' :
              \/ i \in DOMAIN types
              \/ \E j \in DOMAIN nested : i = n + j
              \/ i = last
  <2>1. PICK longer : longer = types'
    OBVIOUS
  <2>2. /\ IsList(longer) /\ DOMAIN longer = 1..(n + Len(nested) + 1)
        /\ \A i \in DOMAIN types : i \in DOMAIN longer /\ longer[i] = types[i]
        /\ \A j \in DOMAIN nested :
               /\ n + j \in DOMAIN longer /\ n + j \notin DOMAIN types
               /\ longer[n + j] = nested[j]
        /\ n + Len(nested) + 1 \notin DOMAIN types
        /\ longer[n + Len(nested) + 1] = node
        /\ \A i \in DOMAIN longer :
               \/ i \in DOMAIN types
               \/ \E j \in DOMAIN nested : i = n + j
               \/ i = n + Len(nested) + 1
    <3>1. PICK list : list = types
      OBVIOUS
    <3>2. IsList(list) /\ n = Len(list) /\ longer = list \o Append(nested, node)
      BY <1>3, <1>6, <1>9, <2>1, <3>1
    <3>3. /\ IsList(longer) /\ DOMAIN longer = 1..(Len(list) + Len(nested) + 1)
          /\ \A i \in DOMAIN list : i \in DOMAIN longer /\ longer[i] = list[i]
          /\ \A j \in DOMAIN nested :
                 /\ Len(list) + j \in DOMAIN longer /\ Len(list) + j \notin DOMAIN list
                 /\ longer[Len(list) + j] = nested[j]
          /\ Len(list) + Len(nested) + 1 \notin DOMAIN list
          /\ longer[Len(list) + Len(nested) + 1] = node
          /\ \A i \in DOMAIN longer :
                 \/ i \in DOMAIN list
                 \/ \E j \in DOMAIN nested : i = Len(list) + j
                 \/ i = Len(list) + Len(nested) + 1
      <4>1. NodesLie(list, nested, node, longer)
        BY <1>11, <3>2, NodesAdded
      <4> QED BY <4>1 DEF NodesLie
    <3>4. n = Len(list)
      BY <3>2
    <3> QED BY <3>1, <3>3, <3>4
  <2>3. n \in Nat /\ Len(nested) \in Nat
    BY <1>3, <1>6, <1>11, ListFacts
  <2>4. n + Len(nested) + 1 \in 1..(n + Len(nested) + 1)
    BY <2>3
  <2> QED BY <1>13, <2>1, <2>2, <2>4
<1>15. Ids' = Ids \cup {nested[j].id : j \in DOMAIN nested} \cup {KeyId(key)}
  <2>1. Ids' \subseteq Ids \cup {nested[j].id : j \in DOMAIN nested} \cup {KeyId(key)}
    <3> SUFFICES ASSUME NEW i \in DOMAIN types'
                 PROVE  types'[i].id \in Ids \cup {nested[j].id : j \in DOMAIN nested}
                                             \cup {KeyId(key)}
      BY DEF Ids
    <3> QED BY <1>12, <1>14 DEF Ids
  <2>2. Ids \subseteq Ids'
    BY <1>14 DEF Ids
  <2>3. \A j \in DOMAIN nested : nested[j].id \in Ids'
    BY <1>14 DEF Ids
  <2>4. KeyId(key) \in Ids'
    BY <1>12, <1>14 DEF Ids
  <2> QED BY <2>1, <2>2, <2>3, <2>4
<1>16. TaskDone
  <2>1. \A e : /\ Task \notin {Ensure(e), Walk(e), Record(e)}
              /\ Task # Materialize(e) /\ Task # Follow(e)
    BY <1>1, OtherTasks
  <2>2. \A d : DieId(d) \in recorded' => DieId(d) \in recorded
    BY <1>9, <1>11, TypeIds
  <2> QED BY <1>1, <1>9, <2>1, <2>2 DEF TaskDone
<1>17. Progress
  BY <1>2, <1>16, AllProgresses
<1>18. Job(Task) = KeyId(key)
  BY <1>1, <1>4 DEF Job, Recording
<1>19. KeyId(key) \notin Ids /\ \A t \in Tasks' : Job(t) # KeyId(key)
  <2>1. KeyId(key) # NoType
    BY TypeIds
  <2>2. KeyId(key) \notin Ids
    BY <1>3, <1>18, <2>1 DEF IdsAreDistinct
  <2>3. \A t \in Range(Tail(agenda)) : Job(t) # Job(Task)
    BY <1>1, <1>3, <1>18, <2>1, JobsOfRest
  <2> QED BY <1>3, <1>18, <2>2, <2>3
<1>20. IdsAreDistinct'
  <2>1. ASSUME NEW t \in Tasks', Job(t) # NoType PROVE Job(t) \notin Ids'
    <3>1. Job(t) \notin Ids /\ Job(t) # KeyId(key)
      BY <1>3, <1>19, <2>1 DEF IdsAreDistinct
    <3>2. \A j \in DOMAIN nested : Job(t) # nested[j].id
      BY <1>3, <1>11, <2>1, JobOfTask, TypeIds
    <3> QED BY <1>15, <3>1, <3>2
  <2>2. \A i \in DOMAIN types : \A j \in DOMAIN nested : types[i].id # nested[j].id
    <3> SUFFICES ASSUME NEW i \in DOMAIN types, NEW j \in DOMAIN nested
                 PROVE  types[i].id # NestedId(key, n + j)
      BY <1>11
    <3>1. IsNodeId(types[i].id, i)
      BY <1>3 DEF NodesAreRecorded
    <3>2. i # n + j
      BY <1>14
    <3> QED BY <3>1, <3>2, TypeIds DEF IsNodeId
  <2>3. \A i, j \in DOMAIN nested : nested[i].id = nested[j].id => n + i = n + j
    BY <1>11, TypeIds
  <2>4. \A j \in DOMAIN nested : nested[j].id # KeyId(key)
    BY <1>11, TypeIds
  <2>5. \A i \in DOMAIN types : types[i].id # KeyId(key)
    BY <1>19 DEF Ids
  <2>6. \A i, j \in DOMAIN types' : types'[i].id = types'[j].id => i = j
    <3> SUFFICES ASSUME NEW i \in DOMAIN types', NEW j \in DOMAIN types',
                        types'[i].id = types'[j].id
                 PROVE  i = j
      OBVIOUS
    <3>1. CASE i \in DOMAIN types
      BY <1>3, <1>12, <1>14, <2>2, <2>5, <3>1 DEF IdsAreDistinct
    <3>2. CASE \E a \in DOMAIN nested : i = n + a
      BY <1>12, <1>14, <2>2, <2>3, <2>4, <3>2
    <3>3. CASE i = last
      BY <1>12, <1>14, <2>4, <2>5, <3>3
    <3> QED BY <1>14, <3>1, <3>2, <3>3
  <2> QED BY <2>1, <2>6 DEF IdsAreDistinct
<1>21. JobsAreDistinct(agenda)'
  <2>1. JobsAreDistinct(<<>>)
    BY NoList, NoJobs
  <2> QED BY <1>2, <2>1, NoList, JobsStay
<1>22. \A other \in AllReferred(key) : DueKey(other)'
  BY <1>1, <1>5, <1>17, KeyStaysDue
<1>23. NodeDue(node)'
  <2>1. /\ \A i \in DOMAIN node.members : Due(node.members[i].type)'
        /\ \A i \in DOMAIN node.bases : Due(node.bases[i].type)'
        /\ Due(KeyId(UnitTypes[key].target))'
    <3>1. \A other \in Referred(key) : DueKey(other)'
      BY <1>22 DEF AllReferred
    <3>2. PICK members, bases : /\ members = UnitMembers(UnitTypes[key])
                                /\ bases = UnitBases(UnitTypes[key])
      OBVIOUS
    <3>3. /\ \A i \in DOMAIN members : Due(members[i].type)'
          /\ \A i \in DOMAIN bases : Due(bases[i].type)'
          /\ Due(KeyId(UnitTypes[key].target))'
      BY <1>1, <1>3, <1>5, <3>1, <3>2, PartsDue
    <3>4. node.members = members /\ node.bases = bases
      BY <1>6, <1>8, <3>2
    <3> QED BY <3>3, <3>4
  <2>2. PICK id : id = KeyId(UnitTypes[key].target)
    OBVIOUS
  <2>3. Due(id)'
    <3>1. KeyId(UnitTypes[key].target)' = id
      BY <1>1, <2>2, SameFile DEF KeyId
    <3> QED BY <2>1, <3>1
  <2>4. node.target \in {NoType, id}
    BY <1>6, <1>8, <2>2
  <2> QED BY <2>1, <2>3, <2>4 DEF NodeDue
<1>24. ASSUME NEW j \in DOMAIN nested, NEW one, one = nested[j] PROVE NodeDue(one)'
  <2>1. PICK k \in DOMAIN UnitTypes : k = inner[j]
    BY <1>10, <1>11
  <2>2. \A other \in Referred(k) : DueKey(other)'
    <3>1. k \in Range(UnitTypes[key].nested)
      BY <1>6, <1>11, <2>1 DEF Range
    <3> QED BY <1>22, <3>1 DEF AllReferred
  <2>3. PICK members, bases : members = UnitMembers(UnitTypes[k]) /\ bases = UnitBases(UnitTypes[k])
    OBVIOUS
  <2>4. \A i \in DOMAIN members : Due(members[i].type)'
    BY <1>1, <1>3, <2>2, <2>3, PartsDue
  <2>5. one.target = NoType /\ one.members = members /\ one.bases = <<>>
    BY <1>7, <1>11, <1>24, <2>1, <2>3
  <2>6. DOMAIN <<>> = {}
    OBVIOUS
  <2> QED BY <2>4, <2>5, <2>6 DEF NodeDue
<1>25. NodesOfTypes'
  <2>1. ASSUME NEW i, i \in DOMAIN types', i \notin DOMAIN types
        PROVE  (types[i].id \in recorded /\ IsNodeId(types[i].id, i) /\ NodeDue(types[i]))'
    <3>1. PICK one : one = types'[i]
      OBVIOUS
    <3>2. CASE i = last
      <4>1. one = node
        BY <1>14, <3>1, <3>2
      <4>2. one.id \in recorded' /\ NodeDue(one)'
        BY <1>9, <1>12, <1>23, <4>1
      <4>3. IsNodeId(one.id, i)'
        <5>1. PICK id : id = one.id
          OBVIOUS
        <5>2. id = KeyId(key) /\ key \in signed'
          BY <1>1, <1>12, <4>1, <5>1
        <5>3. IsNodeId(id, i)'
          BY <5>2 DEF IsNodeId, KeyId
        <5> QED BY <5>1, <5>3
      <4> QED BY <3>1, <4>2, <4>3
    <3>3. ASSUME NEW j \in DOMAIN nested, i = n + j
          PROVE  one.id \in recorded' /\ IsNodeId(one.id, i)' /\ NodeDue(one)'
      <4>1. one = nested[j] /\ one.id = NestedId(key, i)
        BY <1>11, <1>14, <3>1, <3>3
      <4>2. one.id \in recorded' /\ NodeDue(one)'
        BY <1>9, <1>24, <4>1
      <4>3. IsNodeId(one.id, i)'
        <5>1. PICK id : id = one.id
          OBVIOUS
        <5>2. id = NestedId(key, i) /\ key \in signed'
          BY <1>1, <4>1, <5>1
        <5>3. IsNodeId(id, i)'
          BY <5>2 DEF IsNodeId, NestedId
        <5> QED BY <5>1, <5>3
      <4> QED BY <4>2, <4>3
    <3> QED BY <1>14, <2>1, <3>1, <3>2, <3>3
  <2>2. \A t \in Tasks : t.do \in Recording =>
            \E q \in Tasks' : q.do \in Recording /\ q.node.id = t.node.id
    BY <1>1, <1>3 DEF Recording
  <2>3. ASSUME NEW k, RecordUnit(k) \in Tasks
        PROVE  RecordUnit(k) \in Tasks' \/ KeyId(k) \in Ids'
    BY <1>3, <1>5, <1>15, <2>3
  <2>4. \A id \in recorded' \ recorded : id \in Ids'
    BY <1>9, <1>15
  <2>5. \A i \in DOMAIN types : i \in DOMAIN types' /\ types'[i] = types[i]
    BY <1>14
  <2> QED BY <1>1, <1>3, <1>17, <1>20, <1>21, <2>1, <2>2, <2>3, <2>4, <2>5, NodesGrow
<1>26. LoadingEnds'
  <2>1. \A k : Task = RecordUnit(k) => KeyId(k) \notin loading'
    BY <1>5, <1>9
  <2>2. \A d : Task # Ensured(d)
    BY <1>1, OtherTasks
  <2> QED BY <1>2, <1>9, <1>17, <2>1, <2>2, LoadingStays
<1>27. IsList(types)'
  BY <1>14 DEF IsList
<1> QED BY <1>1, <1>2, <1>17, <1>25, <1>26, <1>27, NoList, TypeStep

-----------------------------------------------------------------------------
(* The invariant.                                                          *)

LEMMA WalkSteps ==
    ASSUME WalkInv, [ReaderNext]_<<readerVars, expressionVars>>
    PROVE  WalkInv'
<1>1. CASE NextUnit
  BY <1>1, NextUnitStep
<1>2. CASE WalkDie
  BY <1>2, WalkDieStep
<1>3. CASE LeaveScope
  BY <1>3, LeaveScopeStep
<1>4. CASE EnsureType
  BY <1>4, EnsureTypeStep
<1>5. CASE TypeEnsured
  BY <1>5, TypeEnsuredStep
<1>6. CASE RecordType
  BY <1>6, RecordTypeStep
<1>7. CASE NextChild
  BY <1>7, NextChildStep
<1>8. CASE RecordedType
  BY <1>8, RecordedTypeStep
<1>9. CASE PlaceMember
  BY <1>9, PlaceMemberStep
<1>10. CASE MaterializeType
  BY <1>10, MaterializeTypeStep
<1>11. CASE FollowReferences
  BY <1>11, FollowReferencesStep
<1>12. CASE RecordUnitType
  BY <1>12, RecordUnitTypeStep
<1>13. CASE BeginVariable
  BY <1>13, BeginVariableStep
<1>14. CASE LocateVariable
  BY <1>14, LocateVariableStep
<1>15. CASE InheritName
  BY <1>15, InheritNameStep
<1>16. CASE InheritLocation
  BY <1>16, InheritLocationStep
<1>17. CASE StoreVariable
  BY <1>17, StoreVariableStep
<1>18. CASE StartExpression \/ StepExpression
  BY <1>18, ExpressionIdles
<1>19. CASE EndWalk \/ ApplySymbols \/ Deduplicate \/ PruneLocals \/ PrunePlaceholders
  BY <1>19, PassesIdle
<1>20. CASE UNCHANGED <<readerVars, expressionVars>>
  <2>1. unit \in Nat \/ stage # "units"
    BY DEF WalkInv, WalkUnits, Lists
  <2> QED BY <1>20, <2>1, IdleStep DEF readerVars
<1> QED
  BY <1>1, <1>2, <1>3, <1>4, <1>5, <1>6, <1>7, <1>8, <1>9, <1>10, <1>11, <1>12, <1>13,
     <1>14, <1>15, <1>16, <1>17, <1>18, <1>19, <1>20
     DEF ReaderNext

\* Without a task, what is due is known.
LEMMA DueIsKnown ==
    ASSUME WalkUnits, Tasks = {}, NEW id, Due(id)
    PROVE  \/ id \in Ids \cup {Unknown}
           \/ id[1] = "die" /\ Die(id[2]).tag \notin TypeTags
           \/ id[1] = "key" /\ id[2] \notin DOMAIN UnitTypes
<1>1. RecordedHaveNodes /\ SignedHaveNodes
  BY DEF WalkUnits, NodesOfTypes
<1>2. ASSUME NEW d \in DOMAIN file.dies, id = DieId(d), DueDie(d)
      PROVE  \/ id \in Ids
             \/ /\ id[1] = "die"
                /\ Die(id[2]).tag \notin TypeTags
  <2>1. id[1] = "die" /\ id[2] = d
    BY <1>2 DEF DieId
  <2>2. CASE Die(d).tag \in TypeTags
    <3>1. DieId(d) \in recorded /\ ~StandsForUnit(d)
      BY <1>2, <2>2 DEF DueDie, UnderWay, Walked
    <3>2. \A e : DieId(e) = DieId(d) => e = d
      BY TypeIds
    <3> QED BY <1>1, <1>2, <3>1, <3>2 DEF RecordedHaveNodes
  <2> QED BY <2>1, <2>2
<1>3. ASSUME NEW key, id = KeyId(key), DueKey(key)
      PROVE  \/ id \in Ids
             \/ /\ id[1] = "key"
                /\ id[2] \notin DOMAIN UnitTypes
  <2>1. id[1] = "key" /\ id[2] = key
    BY <1>3 DEF KeyId
  <2>2. CASE key \in DOMAIN UnitTypes
    <3>1. key \in signed
      BY <1>3, <2>2 DEF DueKey, Begun, Promised, Represented, UnderWay, Walked
    <3> QED BY <1>1, <1>3, <3>1 DEF SignedHaveNodes
  <2> QED BY <2>1, <2>2
<1> QED BY <1>2, <1>3 DEF Due

LEMMA WalkCloses == ASSUME WalkInv PROVE TypesAreClosed
<1> SUFFICES ASSUME stage = "units", agenda = <<>> PROVE TypesAreClosed
  BY DEF TypesAreClosed
<1>1. WalkUnits /\ Lists /\ NodesAreRecorded /\ RecordedHaveNodes /\ SignedHaveNodes
  BY DEF WalkInv, WalkUnits, NodesOfTypes
<1>2. Tasks = {}
  BY NoList DEF Tasks
<1>3. scopes = <<>>
  <2>1. Len(scopes) = 0
    <3>1. Cardinality(Leaves(<<>>)) = 0
      BY NoList, NoLeaves
    <3> QED BY <1>1, <3>1 DEF WalkUnits, ScopesClose
  <2>2. PICK S : scopes \in Seq(S)
    BY <1>1 DEF Lists, IsList
  <2> QED BY <2>1, <2>2
<1>4. loading = {}
  BY <1>1, <1>2 DEF WalkUnits, LoadingEnds, LoadingEnd
<1>5. Ids \subseteq recorded
  BY <1>1 DEF NodesAreRecorded, Ids
<1>6. Cardinality(Ids) = Len(types)
  <2>1. Len(types) \in Nat /\ DOMAIN types = 1..Len(types)
    BY <1>1, ListFacts DEF Lists
  <2> DEFINE f == [i \in 1..Len(types) |-> types[i].id]
  <2>2. f \in Bijection(1..Len(types), Ids)
    <3>1. f \in [1..Len(types) -> Ids]
      BY <2>1 DEF Ids
    <3>2. \A i, j \in 1..Len(types) : f[i] = f[j] => i = j
      BY <1>1, <2>1 DEF WalkUnits, NodesOfTypes, IdsAreDistinct
    <3>3. \A id \in Ids : \E i \in 1..Len(types) : f[i] = id
      BY <2>1 DEF Ids
    <3> QED BY <3>1, <3>2, <3>3, Fun_IsBij
  <2> HIDE DEF f
  <2>3. ExistsBijection(1..Len(types), Ids)
    BY <2>2 DEF ExistsBijection
  <2> QED BY <2>1, <2>3, FS_CountingElements
<1>7. \A id \in recorded \ Ids : id[1] = "die" /\ StandsForUnit(id[2]) /\ TypeId(id[2]) \in Ids
  <2> SUFFICES ASSUME NEW id \in recorded, id \notin Ids
               PROVE  id[1] = "die" /\ StandsForUnit(id[2]) /\ TypeId(id[2]) \in Ids
    OBVIOUS
  <2>1. PICK d \in DOMAIN file.dies :
            id = DieId(d) /\ StandsForUnit(d) /\ Begun(Die(d).signature)
    BY <1>1, <1>2 DEF RecordedHaveNodes
  <2>2. id[1] = "die" /\ id[2] = d
    BY <2>1 DEF DieId
  <2>3. TypeId(d) = KeyId(Die(d).signature)
    BY <2>1 DEF TypeId
  <2>4. Die(d).signature \in signed
    BY <1>2, <2>1 DEF Begun
  <2>5. KeyId(Die(d).signature) \in Ids
    BY <1>1, <1>2, <2>4 DEF SignedHaveNodes
  <2> QED BY <2>1, <2>2, <2>3, <2>5
<1> DEFINE Known(id) == \/ id \in Ids \cup {Unknown}
                        \/ id[1] = "die" /\ Die(id[2]).tag \notin TypeTags
                        \/ id[1] = "key" /\ id[2] \notin DOMAIN UnitTypes
<1>8. \A id : Due(id) => Known(id)
  BY <1>1, <1>2, DueIsKnown
<1> HIDE DEF Known
<1>9. ASSUME NEW i \in DOMAIN types
      PROVE  /\ types[i].target # NoType => Known(types[i].target)
             /\ \A part \in Range(types[i].members) \cup Range(types[i].bases) :
                    Known(part.type)
  <2>1. NodeDue(types[i])
    BY <1>1 DEF NodesAreRecorded
  <2> QED BY <1>8, <2>1 DEF NodeDue, Range
<1>10. \A v \in Range(variables) : Known(v.type)
  BY <1>1, <1>8 DEF WalkUnits, VariablesAreDue, Range
<1> USE DEF Known
<1>11. Ids = {types[i].id : i \in DOMAIN types}
  BY DEF Ids
<1> HIDE DEF Known
<1> QED BY <1>3, <1>4, <1>5, <1>6, <1>7, <1>9, <1>10 DEF TypesAreClosed, Known, Ids

\* Between two units the walk has closed what it opened, and what it refers
\* to is there.
THEOREM TypesAlwaysClosed == ReaderSpec => []TypesAreClosed
<1>1. ReaderInit => WalkInv
  BY WalkInitially
<1>2. WalkInv /\ [ReaderNext]_<<readerVars, expressionVars>> => WalkInv'
  BY WalkSteps
<1>3. WalkInv => TypesAreClosed
  BY WalkCloses
<1> QED BY <1>1, <1>2, <1>3, PTL DEF ReaderSpec
=============================================================================

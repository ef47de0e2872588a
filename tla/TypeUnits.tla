------------------------------ MODULE TypeUnits ------------------------------
(***************************************************************************)
(* The section .debug_types as the DWARF reader takes it apart itself      *)
(* (manual_type_descriptors), for references by signature that libdwarf    *)
(* does not resolve.                                                       *)
(*                                                                         *)
(* A unit is the sequence of its entries as they lie in the file, which    *)
(* are DIEs and the nulls that end lists of children; "throws" is an entry *)
(* that the cursor cannot read.  The place of an entry in its unit stands  *)
(* for its offset.  A type is known by its key: its signature, or a local  *)
(* one made from its offset in the section.                                *)
(***************************************************************************)
EXTENDS Integers, Sequences, SequencesExt, FiniteSets, TLC

Nowhere == "none"      \* an attribute or a reference that is not there

\* Functions whose values are replaced or added
Put(map, key, value) == [k \in DOMAIN map \cup {key} |->
                            IF k = key THEN value ELSE map[k]]
Merge(map, over) == [k \in DOMAIN map \cup DOMAIN over |->
                        IF k \in DOMAIN over THEN over[k] ELSE map[k]]

\* The location of a member or base, where it can be evaluated
Located(n) == [located |-> TRUE, offset |-> n]
Unlocated  == [located |-> FALSE, offset |-> 0]

LocalKey(offset) == "local@" \o ToString(offset)

NestedTags   == {"class_type", "structure_type", "union_type"}
ParentTags   == NestedTags \cup {"enumeration_type", "array_type"}
TopLevelTags == ParentTags \cup {"base_type", "pointer_type", "typedef", "const_type"}

-----------------------------------------------------------------------------
(* Reading one unit.  The functions of the code call each other; parents   *)
(* is the stack of the DIEs whose children are being read.                 *)

Descriptor(die) ==
    [tag |-> die.tag, target |-> die.type, members |-> <<>>, bases |-> <<>>,
     nested |-> <<>>]

Parent(role, offset, die) ==
    [role |-> role, offset |-> offset, die |-> die, type |-> Descriptor(die)]

\* signatures: signature_by_offset; types: the descriptors by key
NothingRead == [outcome |-> "reading", parents |-> <<>>, signatures |-> <<>>,
                types |-> <<>>]

WithType(read, offset, key, type) ==
    [read EXCEPT !.signatures = Put(@, offset, key), !.types = Put(@, key, type)]

\* The list of children of the innermost parent ends.
EndChildren(read, unit) ==
    LET parent == Last(read.parents)
        rest   == [read EXCEPT !.parents = Front(@)]
        local  == LocalKey(parent.offset)
        outer  == Len(rest.parents)
    IN  CASE parent.role = "root" ->
                 [rest EXCEPT !.types = Put(@, unit.signature, parent.type)]
          [] parent.role = "nested" ->
                 LET kept == WithType(rest, parent.offset, local, parent.type)
                 IN  IF parent.die.tag \in NestedTags
                     THEN [kept EXCEPT !.parents[outer].type.nested = Append(@, local)]
                     ELSE kept
          [] parent.role = "sibling" ->
                 IF parent.die.signature = Nowhere
                 THEN WithType(rest, parent.offset, local, parent.type)
                 ELSE IF parent.die.declaration THEN rest
                 ELSE WithType(rest, parent.offset, parent.die.signature, parent.type)
          [] parent.role = "ignored" -> rest

\* A DIE that may have children of its own
Begins(read, unit, role, offset, die) ==
    LET signed == IF die.signature # Nowhere /\ (role = "sibling" \/ die.tag # "array_type")
                  THEN [read EXCEPT !.signatures = Put(@, offset, die.signature)]
                  ELSE read
        begun  == [signed EXCEPT !.parents = Append(@, Parent(role, offset, die))]
    IN  IF die.children THEN begun ELSE EndChildren(begun, unit)

\* The type of the unit itself
BeginRoot(read, unit, offset, die) ==
    LET known == [read EXCEPT !.signatures = Put(@, offset, unit.signature)]
        begun == [known EXCEPT !.parents = <<Parent("root", offset, die)>>]
    IN  IF die.children /\ die.tag \in ParentTags THEN begun
        ELSE EndChildren(begun, unit)

\* manual_parse_child_dies: one DIE in the list of children of the innermost
\* parent.  The first member lies at the start unless its location is known.
ReadChild(read, unit, offset, die) ==
    LET inner == Len(read.parents)
        type  == read.parents[inner].type
        place == IF ~die.place.located /\ type.members = <<>> THEN Located(0)
                 ELSE die.place
        part  == [name |-> die.name, type |-> die.type, place |-> place]
    IN  CASE die.tag = "member" ->
                 IF die.declaration THEN read
                 ELSE [read EXCEPT !.parents[inner].type.members = Append(@, part)]
          [] die.tag = "inheritance" ->
                 IF die.place.located /\ die.place.offset >= 0
                 THEN [read EXCEPT !.parents[inner].type.bases = Append(@, part)]
                 ELSE read
          [] die.tag \in NestedTags \cup {"array_type"} ->
                 Begins(read, unit,
                        IF die.tag \in NestedTags /\ die.declaration THEN "ignored"
                        ELSE "nested",
                        offset, die)
          [] die.tag \in {"subrange_type", "enumerator"} -> read
          [] OTHER ->
                 IF die.children
                 THEN [read EXCEPT !.parents = Append(@, Parent("ignored", offset, die))]
                 ELSE read

\* One entry of the unit.  A null where no children are read ends the unit,
\* as does the end of the children of a DIE there that is not a type.  An
\* entry with an abbreviation that is not known is like a null.
ReadEntry(read, unit, i) ==
    LET die    == unit.dies[i]
        offset == unit.base + i
    IN  IF read.outcome # "reading" THEN read
        ELSE IF die.tag = "throws" THEN [read EXCEPT !.outcome = "threw"]
        ELSE IF die.tag = "null"
        THEN IF read.parents = <<>> THEN [read EXCEPT !.outcome = "over"]
             ELSE EndChildren(read, unit)
        ELSE IF i = 1 THEN BeginRoot(read, unit, offset, die)
        ELSE IF read.parents # <<>> THEN ReadChild(read, unit, offset, die)
        ELSE IF die.tag \in TopLevelTags THEN Begins(read, unit, "sibling", offset, die)
        ELSE read

\* The end of the unit ends all lists that are open.
EndUnit(entries, unit) ==
    FoldLeft(LAMBDA read, parent : EndChildren(read, unit), entries, entries.parents)

ReadUnit(unit) ==
    EndUnit(FoldLeftDomain(LAMBDA read, i : ReadEntry(read, unit, i), NothingRead,
                           unit.dies),
            unit)

-----------------------------------------------------------------------------
(* The section.                                                            *)

\* parse_manual_type_unit_header, and the abbreviations the unit asks for:
\* what it throws or gives up for
IsReadable(header) ==
    /\ header.whole
    /\ \/ header.version = 4
       \/ header.version = 5 /\ header.kind \in {"type", "split type"}
    /\ header.typeInside
    /\ header.abbreviated

\* What a unit leaves: the keys of the first unit for an offset, and the
\* descriptors of the last one for a key
WithTypes(store, read) ==
    [store EXCEPT !.signatures = Merge(read.signatures, @),
                  !.types      = Merge(@, read.types)]

\* Mutant: a unit keeps what was read before it could not be read further.
WithUnitPartly(store, unit, read) ==
    IF ~IsReadable(unit.header) THEN store ELSE WithTypes(store, read)

\* A unit that cannot be read to its end is left out as a whole, one that
\* does not end in the section is the last.
WithUnit(store, unit, read) ==
    IF unit.header.cutOff THEN [store EXCEPT !.over = TRUE]
    ELSE IF store.over \/ ~IsReadable(unit.header) \/ read.outcome = "threw" THEN store
    ELSE WithTypes(store, read)

\* The loop of manual_type_descriptors
ReadUnits(units) ==
    FoldLeft(LAMBDA store, unit : WithUnit(store, unit, ReadUnit(unit)),
             [signatures |-> <<>>, types |-> <<>>, over |-> FALSE], units)

\* resolve_manual_ref_offset: a reference within a unit; what it does not
\* lead to there is looked for at this offset of the section.
Resolved(reference, signatures) ==
    CASE reference.form = "signature" -> reference.key
      [] reference.form = "local" ->
             IF reference.base + reference.offset \in DOMAIN signatures
             THEN signatures[reference.base + reference.offset]
             ELSE IF reference.offset \in DOMAIN signatures
             THEN signatures[reference.offset] ELSE Nowhere
      [] OTHER -> Nowhere

\* resolve_manual_descriptor_ref_offsets
Described(type, signatures) ==
    LET Parts(parts) == [i \in DOMAIN parts |->
                            [parts[i] EXCEPT !.type = Resolved(@, signatures)]]
    IN  [type EXCEPT !.target = Resolved(@, signatures),
                     !.members = Parts(@), !.bases = Parts(@)]

\* manual_type_descriptors
DescribedIn(store) ==
    [key \in DOMAIN store.types |-> Described(store.types[key], store.signatures)]

DescribedTypes(units) == DescribedIn(ReadUnits(units))

\* The keys that a described type refers to, in the order in which
\* materialize_manual_descriptor_references follows them; a reference that
\* is not there is no key of any type.
ReferredKeys(type) ==
    <<type.target>> \o [i \in DOMAIN type.members |-> type.members[i].type]
                    \o [i \in DOMAIN type.bases |-> type.bases[i].type]

-----------------------------------------------------------------------------
(* What the entries of a unit mean, stated by where they lie and not by    *)
(* reading them in order.  Meant for units in which only types, and what   *)
(* the reader ignores below a type, have children.                         *)

IsNull(unit, i)    == unit.dies[i].tag = "null"
HasChildren(unit, i) == ~IsNull(unit, i) /\ unit.dies[i].children

\* How many lists of children are open behind an entry
Level(unit, i) ==
    Cardinality({j \in 1..i : HasChildren(unit, j)}) - Cardinality({j \in 1..i : IsNull(unit, j)})

\* The DIE in whose list of children an entry lies, or 0
ParentOf(unit, i) ==
    LET around == {j \in 1..(i - 1) :
                      /\ HasChildren(unit, j)
                      /\ \A k \in j..(i - 1) : Level(unit, k) >= Level(unit, j)}
    IN  IF around = {} THEN 0 ELSE CHOOSE j \in around : \A k \in around : k <= j

\* The entries that are types the reader keeps: those before the end of the
\* list that the type of the unit lies in.
IsKept(unit, i) ==
    LET die == unit.dies[i]
    IN  /\ \A j \in 1..i : Level(unit, j) >= 0
        /\ \/ i = 1
           \/ /\ ParentOf(unit, i) = 0 /\ die.tag \in TopLevelTags
              /\ ~(die.declaration /\ die.signature # Nowhere)
           \/ /\ ParentOf(unit, i) # 0
              /\ \/ die.tag = "array_type"
                 \/ die.tag \in NestedTags /\ ~die.declaration

KeyOf(unit, i) ==
    IF i = 1 THEN unit.signature
    ELSE IF ParentOf(unit, i) = 0 /\ unit.dies[i].signature # Nowhere
    THEN unit.dies[i].signature
    ELSE LocalKey(unit.base + i)

\* The members of the type at i, by the places of their DIEs
MembersOf(unit, i) ==
    SelectSeq([j \in DOMAIN unit.dies |-> j],
              LAMBDA j : /\ unit.dies[j].tag = "member" /\ ~unit.dies[j].declaration
                         /\ ParentOf(unit, j) = i)

\* Units that are read to their end
SoundUnits(units) ==
    {units[n] : n \in {m \in DOMAIN units :
        /\ IsReadable(units[m].header)
        /\ \A l \in 1..m : ~units[l].header.cutOff
        /\ \A i \in DOMAIN units[m].dies :
               units[m].dies[i].tag = "throws" =>
                   \E j \in 1..(i - 1) : Level(units[m], j) < 0}}

\* The types that the section describes
DescribedKeys(units) ==
    UNION {{KeyOf(unit, i) : i \in {j \in DOMAIN unit.dies :
                                       ~IsNull(unit, j) /\ IsKept(unit, j)}} :
           unit \in SoundUnits(units)}

\* Whether a key is that of the type that is referred to, as far as it is
\* one that the reader keeps
Means(key, unit, reference) ==
    CASE reference.form = "signature" -> key = reference.key
      [] reference.form = "local" ->
             /\ reference.base = unit.base /\ reference.offset \in DOMAIN unit.dies
             /\ ~IsNull(unit, reference.offset) /\ IsKept(unit, reference.offset)
             => key = KeyOf(unit, reference.offset)
      [] OTHER -> TRUE

\* The type with this key is one of a sound unit, with the members that lie
\* in it, each of the type that is meant.
IsOfUnit(key, members, units) ==
    \E unit \in SoundUnits(units) : \E i \in DOMAIN unit.dies :
        /\ ~IsNull(unit, i) /\ IsKept(unit, i) /\ KeyOf(unit, i) = key
        /\ LET own == MembersOf(unit, i)
           IN  /\ Len(members) = Len(own)
               /\ \A m \in DOMAIN own :
                      LET die == unit.dies[own[m]]
                      IN  /\ members[m].die = die.name
                          /\ die.place.located => members[m].place = die.place
                          /\ Means(members[m].type, unit, die.type)
=============================================================================

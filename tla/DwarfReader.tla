---------------------------- MODULE DwarfReader ----------------------------
(***************************************************************************)
(* DwarfReader::load (src/elf/dwarf_reader.cc): the walk over the DIEs of  *)
(* an object file, which records types and variables, and the passes over  *)
(* the list of variables that follow it.                                   *)
(*                                                                         *)
(* The functions of the walk call each other; agenda holds what is still   *)
(* to be done, the next task first, and a call puts the tasks of its body  *)
(* in front.  A type is walked where it is first referred to, in the       *)
(* middle of what refers to it.  Locations are read by DwarfExpression.    *)
(*                                                                         *)
(* A file is a record of its units, its DIEs by their names (which stand   *)
(* for their offsets), its ELF symbols, the table of addresses that        *)
(* indexed locations refer to and the units of .debug_types.  A reference  *)
(* to a type that is no DIE is a signature that libdwarf cannot resolve.   *)
(***************************************************************************)
EXTENDS DwarfExpression, UnitRules, TypeUnits

CONSTANT Loads   \* calls of load: a file and a LoadPolicy, which says what
                 \* the reader leaves out

IsList(s) == s \in Seq(Range(s))

\* A text is a list of characters; ** is two of them.
IsText(s) == IsList(s) /\ "**" \notin Range(s)

\* Every entry of a type unit has a key.
IsSection(units) ==
    /\ IsList(units)
    /\ \A unit \in Range(units) :
           /\ IsList(unit.dies) /\ unit.signature # Nowhere
           /\ \A i \in DOMAIN unit.dies : LocalKey(unit.base + i) # Nowhere

\* The DIEs that a DIE is a child of: in a tree there is one at most.
ContainersOf(f, d) == {p \in DOMAIN f.dies : d \in Range(f.dies[p].children)}
ContainerOf(f, d)  == CHOOSE p \in ContainersOf(f, d) : TRUE

\* DIEs are trees: no way up from one is longer than there are DIEs.
IsForest(f) ==
    LET up == [d \in DOMAIN f.dies |-> ContainersOf(f, d)]
        depth[d \in DOMAIN f.dies] ==
            IF up[d] = {} THEN 0 ELSE 1 + depth[CHOOSE p \in up[d] : TRUE]
    IN  /\ IsFiniteSet(DOMAIN f.dies)
        /\ \A d \in DOMAIN f.dies :
               /\ depth[d] \in 0..Cardinality(DOMAIN f.dies)
               /\ \A p \in up[d] : depth[p] < depth[d]

\* What a file is made of: its DIEs are trees, with the roots of the units at
\* the top; what a variable is specified by or an instance of is a DIE; a
\* location expression is made of bytes; addresses, their numbers and the
\* values of symbols are unsigned words.  Nowhere is the name of none of them.
IsFile(f) ==
    /\ IsList(f.units)
    /\ IsForest(f)
    /\ \A i \in DOMAIN f.units :
           /\ f.units[i].root \in DOMAIN f.dies /\ ContainersOf(f, f.units[i].root) = {}
           /\ IsText(f.units[i].name) /\ IsText(f.units[i].directory)
    /\ \A d \in DOMAIN f.dies :
           /\ f.dies[d].children \in Seq(DOMAIN f.dies)
           /\ f.dies[d].specification \in DOMAIN f.dies \cup {Nowhere}
           /\ f.dies[d].origin \in DOMAIN f.dies \cup {Nowhere}
           /\ f.dies[d].location.form = "expression" =>
                  f.dies[d].location.bytes \in Seq(Bytes)
           /\ f.dies[d].location.form = "address" => f.dies[d].location.value \in Unsigned
    /\ DOMAIN f.addresses \subseteq Unsigned
    /\ \A i \in DOMAIN f.addresses : f.addresses[i] \in Unsigned
    /\ IsList(f.symbols)
    /\ \A i \in DOMAIN f.symbols : f.symbols[i].value \in Unsigned
    /\ Nowhere \notin DOMAIN f.dies
    /\ IsSection(f.typeUnits)

\* Rules are lines of text.
ASSUME LoadsAssumption ==
    \A load \in Loads :
        /\ IsFile(load.file)
        /\ IsList(load.policy.rules)
        /\ \A line \in Range(load.policy.rules) : IsText(line)

VARIABLES
    file,
    policy,
    stage,          \* the passes of load: "units", "symbols", "unique",
                    \* "locals", "placeholders", "done"
    unit,           \* number of the unit that is walked
    kept,           \* numbers of the units that were not skipped
    agenda,         \* Seq of tasks
    scopes,         \* scope_stack and scope_tag_stack
    recorded,       \* recorded_type_ids
    loading,        \* loading_type_ids
    signed,         \* the signatures in signature_type_ids
    types,          \* Seq of TypeNode
    classScope,     \* class_scope_by_offset
    variableScope,  \* variable_scope_by_offset
    staticMember,   \* variable_static_member_by_offset
    variables,      \* Seq of VariableRecord
    found           \* history: the variables at the end of the walk

readerVars == <<file, policy, stage, unit, kept, agenda, scopes, recorded,
                loading, signed, types, classScope, variableScope, staticMember,
                variables, found>>

Nameless == "<anon>"

\* Type ids: of a DIE, of the type with this key in a type unit, and of the
\* node with this index, whose type is nested in that of a type unit
DieId(d)             == <<"die", d>>
KeyId(key)           == <<"key", key>>
NestedId(key, index) == <<"nested", key, index>>
Unknown              == <<"unknown">>
NoType               == <<>>

Die(d) == file.dies[d]

NameOr(d, fallback) == IF Die(d).name = "" THEN fallback ELSE Die(d).name

-----------------------------------------------------------------------------
(* Tags.                                                                   *)

ClassTags      == {"class_type", "structure_type", "union_type"}
SubprogramTags == {"subprogram", "inlined_subroutine"}
ScopeTags      == SubprogramTags \cup {"namespace", "class_type",
                                       "structure_type", "lexical_block"}
TypeTags       == ClassTags \cup {"base_type", "pointer_type", "typedef",
                                  "array_type", "const_type",
                                  "enumeration_type", "subroutine_type"}
VariableTags   == {"variable", "formal_parameter"}
IgnoredTags    == {"TI_clone", "TI_code_label"}

\* The types whose node keeps what DW_AT_type refers to
ReferringTags == {"pointer_type", "typedef", "array_type", "const_type"}

-----------------------------------------------------------------------------
(* Tasks.                                                                  *)

Doing(what) == stage = "units" /\ agenda # <<>> /\ Head(agenda).do = what
Task        == Head(agenda)

\* The current task is over; these come next.
Continue(tasks) == agenda' = tasks \o Tail(agenda)

Walk(d)    == [do |-> "walk", die |-> d]
Leave      == [do |-> "leave"]
Ensure(d)  == [do |-> "ensure", die |-> d]
Ensured(d) == [do |-> "ensured", die |-> d]
Record(d)  == [do |-> "type", die |-> d]

Materialize(key) == [do |-> "signature", key |-> key]
Follow(key)      == [do |-> "references", key |-> key]
RecordUnit(key)  == [do |-> "unit type", key |-> key]

\* manual_type_descriptors
UnitTypes == DescribedTypes(file.typeUnits)

\* Mutant: an id is given out for a type that is not recorded.
ReferUnseen(reference) == <<>>

\* What referenced_type_id does before it returns: see that the type is
\* recorded.
Refer(reference) ==
    IF reference = Nowhere THEN <<>>
    ELSE IF reference \in DOMAIN file.dies THEN <<Ensure(reference)>>
    ELSE <<Materialize(reference)>>

\* A DIE that only declares a type stands for the one its signature names.
StandsForUnit(d) ==
    /\ Die(d).tag \in TypeTags
    /\ Die(d).signature \in DOMAIN UnitTypes
    /\ Die(d).declaration \/ Die(d).name = ""

\* What it returns, once the type is recorded
TypeId(reference) ==
    IF reference \in DOMAIN file.dies
    THEN IF StandsForUnit(reference) THEN KeyId(Die(reference).signature)
         ELSE DieId(reference)
    ELSE IF reference \in DOMAIN UnitTypes THEN KeyId(reference) ELSE Unknown

unchangedWalk == UNCHANGED <<file, policy, stage, unit, kept, found>>
unchangedMaps == UNCHANGED <<classScope, variableScope, staticMember>>

-----------------------------------------------------------------------------
(* Units.                                                                  *)

SourcePath(u) ==
    LET name == IF u.name = <<>> THEN <<"?">> ELSE u.name
    IN  Normalized(IF u.directory = <<>> THEN name
                   ELSE u.directory \o <<"/">> \o name)

\* The DIEs that contain a DIE, the root of the unit first
Around(d) ==
    LET up[x \in DOMAIN file.dies] ==
            IF ContainersOf(file, x) = {} THEN <<>>
            ELSE Append(up[ContainerOf(file, x)], ContainerOf(file, x))
    IN  up[d]

\* index_class_declaration_scopes: the static members that are declared in
\* classes, under the names of all that is around them.
DeclaredMembers(root) ==
    LET declared == {d \in DOMAIN file.dies :
            LET around == Around(d)
            IN  /\ Die(d).tag = "variable" /\ Die(d).declaration
                /\ Len(around) >= 2 /\ around[1] = root
                /\ Die(Last(around)).tag \in ClassTags
                /\ \A i \in 2..Len(around) :
                       Die(around[i]).tag \in ClassTags \cup {"namespace"}}
    IN  [d \in declared |-> LET around == Tail(Around(d))
                            IN  [i \in DOMAIN around |-> NameOr(around[i], Nameless)]]

NextUnit ==
    /\ stage = "units"
    /\ agenda = <<>>
    /\ unit < Len(file.units)
    /\ unit' = unit + 1
    /\ LET u        == file.units[unit + 1]
           declared == DeclaredMembers(u.root)
       IN  IF SkipUnit(policy.rules, SourcePath(u))
           THEN UNCHANGED <<kept, agenda, classScope, staticMember>>
           ELSE /\ kept' = kept \cup {unit + 1}
                /\ classScope' = Merge(classScope, declared)
                /\ staticMember' = Merge(staticMember, [d \in DOMAIN declared |-> TRUE])
                /\ agenda' = <<Walk(u.root)>>
    /\ UNCHANGED <<file, policy, stage, scopes, recorded, loading, signed, types,
                   variableScope, variables, found, expressionVars>>

-----------------------------------------------------------------------------
(* The walk.                                                               *)

ScopeName(d) ==
    CASE Die(d).tag = "lexical_block" -> "<block>"
      [] Die(d).tag = "inlined_subroutine" /\ Die(d).name = "" ->
             IF Die(d).origin = Nowhere THEN "<inlined>"
             ELSE NameOr(Die(d).origin, "<inlined>")
      [] OTHER -> NameOr(d, Nameless)

\* walk_die_tree and walk_children
WalkDie ==
    /\ Doing("walk")
    /\ LET d        == Task.die
           tag      == Die(d).tag
           children == Die(d).children
       IN  IF tag \in IgnoredTags
           THEN Continue(<<>>) /\ UNCHANGED scopes
           ELSE /\ scopes' = IF tag \in ScopeTags
                             THEN Append(scopes, [name |-> ScopeName(d), tag |-> tag])
                             ELSE scopes
                /\ Continue(
                      (IF tag \in TypeTags THEN <<Record(d)>>
                       ELSE IF tag \in VariableTags
                       THEN <<[do |-> "variable", die |-> d]>> ELSE <<>>)
                      \o [i \in DOMAIN children |-> Walk(children[i])]
                      \o IF tag \in ScopeTags THEN <<Leave>> ELSE <<>>)
    /\ unchangedWalk /\ unchangedMaps
    /\ UNCHANGED <<recorded, loading, signed, types, variables, expressionVars>>

LeaveScope ==
    /\ Doing("leave")
    /\ scopes' = Front(scopes)
    /\ Continue(<<>>)
    /\ unchangedWalk /\ unchangedMaps
    /\ UNCHANGED <<recorded, loading, signed, types, variables, expressionVars>>

\* ensure_type_recorded: the type is walked under the scopes of what refers
\* to it.
EnsureType ==
    /\ Doing("ensure")
    /\ IF DieId(Task.die) \in recorded \cup loading
       THEN Continue(<<>>) /\ UNCHANGED loading
       ELSE /\ loading' = loading \cup {DieId(Task.die)}
            /\ Continue(<<Walk(Task.die), Ensured(Task.die)>>)
    /\ unchangedWalk /\ unchangedMaps
    /\ UNCHANGED <<scopes, recorded, signed, types, variables, expressionVars>>

TypeEnsured ==
    /\ Doing("ensured")
    /\ loading' = loading \ {DieId(Task.die)}
    /\ Continue(<<>>)
    /\ unchangedWalk /\ unchangedMaps
    /\ UNCHANGED <<scopes, recorded, signed, types, variables, expressionVars>>

-----------------------------------------------------------------------------
(* Types.                                                                  *)

\* The loop over the children of a type and the placing of one of them: the
\* type, its node so far and the children that are left
Children(d, node, rest) == [do |-> "children", of |-> d, node |-> node, rest |-> rest]
Place(child, d, node, rest) ==
    [do |-> "place", die |-> child, of |-> d, node |-> node, rest |-> rest]

\* record_type, up to the loop over the children
RecordType ==
    /\ Doing("type")
    /\ LET d      == Task.die
           target == IF Die(d).tag \in ReferringTags /\ TypeId(Die(d).type) # Unknown
                     THEN TypeId(Die(d).type) ELSE NoType
           node   == [id |-> DieId(d), target |-> target, members |-> <<>>, bases |-> <<>>]
           unitType == IF Die(d).signature = Nowhere THEN <<>>
                       ELSE <<Materialize(Die(d).signature)>>
       IN  IF DieId(d) \in recorded
           THEN Continue(<<>>) /\ UNCHANGED recorded
           ELSE /\ recorded' = recorded \cup {DieId(d)}
                /\ Continue(unitType \o
                      IF StandsForUnit(d) THEN <<>>
                      ELSE Append(Refer(Die(d).type), Children(d, node, Die(d).children)))
    /\ unchangedWalk /\ unchangedMaps
    /\ UNCHANGED <<scopes, loading, signed, types, variables, expressionVars>>

\* One round of that loop.  The location of a member or a base is read by
\* the task "place".
NextChild ==
    /\ Doing("children")
    /\ Task.rest # <<>>
    /\ LET child == Head(Task.rest)
           tag   == Die(child).tag
           kind  == Die(Task.of).tag
           rest  == Tail(Task.rest)
       IN  IF \/ tag = "member" /\ kind \in ClassTags
              \/ tag = "inheritance" /\ kind \in ClassTags \ {"union_type"}
           THEN Continue(Append(Refer(Die(child).type),
                                Place(child, Task.of, Task.node, rest)))
           ELSE Continue(Append(IF tag \in ClassTags THEN <<Record(child)>> ELSE <<>>,
                                Children(Task.of, Task.node, rest)))
    /\ unchangedWalk /\ unchangedMaps
    /\ UNCHANGED <<scopes, recorded, loading, signed, types, variables, expressionVars>>

RecordedType ==
    /\ Doing("children")
    /\ Task.rest = <<>>
    /\ types' = Append(types, Task.node)
    /\ Continue(<<>>)
    /\ unchangedWalk /\ unchangedMaps
    /\ UNCHANGED <<scopes, recorded, loading, signed, variables, expressionVars>>

\* data_member_location_offset, as Located(n) or Unlocated
MemberOffset(location) ==
    CASE location.form = "constant" /\ location.value < HalfRange ->
             Located(location.value)
      [] location.form = "expression" /\ expression = "evaluated" ->
             Located(offset)
      [] OTHER -> Unlocated

\* A member or base without a location: the first lies at the start.
PlaceOf(d, isFirst) ==
    IF Die(d).location.form = Nowhere
    THEN IF isFirst THEN Located(0) ELSE Unlocated
    ELSE MemberOffset(Die(d).location)

WithMember(node, d) ==
    LET place == PlaceOf(d, node.members = <<>>)
    IN  IF Die(d).declaration THEN node
        ELSE [node EXCEPT !.members =
                  Append(@, [die |-> d, type |-> TypeId(Die(d).type), place |-> place])]

WithBase(node, d) ==
    LET place == PlaceOf(d, node.bases = <<>>)
    IN  IF place.located /\ place.offset >= 0
        THEN [node EXCEPT !.bases =
                  Append(@, [die |-> d, type |-> TypeId(Die(d).type), place |-> place])]
        ELSE node

Finished(location) ==
    location.form = "expression" => expression \in {"broken", "refused", "evaluated"}

PlaceMember ==
    /\ Doing("place")
    /\ Finished(Die(Task.die).location)
    /\ LET d    == Task.die
           node == IF Die(d).tag = "member" THEN WithMember(Task.node, d)
                   ELSE WithBase(Task.node, d)
       IN  Continue(<<Children(Task.of, node, Task.rest)>>)
    /\ Close
    /\ unchangedWalk /\ unchangedMaps
    /\ UNCHANGED <<scopes, recorded, loading, signed, types, variables>>

-----------------------------------------------------------------------------
(* Types of type units.                                                    *)

\* materialize_manual_signature_type_id: what the type refers to is recorded
\* first, and none is begun twice.
MaterializeType ==
    /\ Doing("signature")
    /\ LET key == Task.key
       IN  IF key \in signed \/ key \notin DOMAIN UnitTypes
           THEN Continue(<<>>) /\ UNCHANGED <<signed, loading>>
           ELSE /\ signed' = signed \cup {key}
                /\ loading' = loading \cup {KeyId(key)}
                /\ Continue(<<Follow(key), RecordUnit(key)>>)
    /\ unchangedWalk /\ unchangedMaps
    /\ UNCHANGED <<scopes, recorded, types, variables, expressionVars>>

\* materialize_manual_descriptor_references
FollowReferences ==
    /\ Doing("references")
    /\ LET type == UnitTypes[Task.key]
           keys == ReferredKeys(type)
       IN  Continue([i \in DOMAIN keys |-> Materialize(keys[i])] \o
                    [i \in DOMAIN type.nested |-> Follow(type.nested[i])])
    /\ unchangedWalk /\ unchangedMaps
    /\ UNCHANGED <<scopes, recorded, loading, signed, types, variables, expressionVars>>

UnitMembers(type) ==
    [i \in DOMAIN type.members |->
        [die   |-> type.members[i].name,
         type  |-> IF type.members[i].type = Nowhere THEN Unknown
                   ELSE KeyId(type.members[i].type),
         place |-> type.members[i].place]]

\* The bases with a type, by their places in what is described
UnitBases(type) ==
    [i \in {j \in DOMAIN type.bases : type.bases[j].type # Nowhere} |->
        [die   |-> type.bases[i].name,
         type  |-> KeyId(type.bases[i].type),
         place |-> type.bases[i].place]]

\* The nodes of the types nested in it, then its own
RecordUnitType ==
    /\ Doing("unit type")
    /\ LET key    == Task.key
           type   == UnitTypes[key]
           nested == [i \in DOMAIN type.nested |->
                         [id      |-> NestedId(key, Len(types) + i),
                          target  |-> NoType,
                          members |-> UnitMembers(UnitTypes[type.nested[i]]),
                          bases   |-> <<>>]]
           node   == [id      |-> KeyId(key),
                      target  |-> IF type.target = Nowhere THEN NoType
                                  ELSE KeyId(type.target),
                      members |-> UnitMembers(type),
                      bases   |-> UnitBases(type)]
       IN  /\ types' = types \o Append(nested, node)
           /\ recorded' = recorded \cup {nested[i].id : i \in DOMAIN nested} \cup {KeyId(key)}
           /\ loading' = loading \ {KeyId(key)}
    /\ Continue(<<>>)
    /\ unchangedWalk /\ unchangedMaps
    /\ UNCHANGED <<scopes, signed, variables, expressionVars>>

-----------------------------------------------------------------------------
(* Variables.                                                              *)

FrameOrRegister == {"fbreg", "breg", "bregx", "reg", "regx", "call_frame_cfa"}
Composite       == {"piece", "bit_piece", "stack_value"}
ValueOperation  == {"implicit_value", "entry_value"}
IndexedAddress  == {"addrx", "GNU_addr_index"}

Atoms(ops) == {ops[i].atom : i \in DOMAIN ops}

\* read_location_description: the operations of an expression, or those of
\* all entries of a location list.  An expression that cannot be decoded
\* has none.
OperationsOf(location) ==
    CASE location.form = "expression" /\ expression = "decoded" -> operations
      [] location.form = "list" -> location.operations
      [] OTHER -> <<>>

\* address_attr and indexed_address_from_die_location
DirectAddress(location, ops) ==
    CASE location.form = "address" -> location.value
      [] /\ location.form = "expression"
         /\ Len(ops) = 1 /\ ops[1].atom \in IndexedAddress
         /\ ops[1].operand1 \in DOMAIN file.addresses ->
             file.addresses[ops[1].operand1]
      [] OTHER -> Absent

\* classify_location: address, availability, and of the description whether
\* it says "missing" or begins with an operation that has no name.
Classified(location, ops) ==
    LET single(atoms) ==
            location.form = "expression" /\ Len(ops) = 1 /\ ops[1].atom \in atoms
        direct  == DirectAddress(location, ops)
        address == IF direct # Absent THEN direct
                   ELSE IF single({"addr"}) THEN ops[1].operand1 ELSE Absent
    IN  [address |-> address,
         text    |-> IF ops = <<>> /\ address = Absent THEN "missing"
                     ELSE IF /\ ops # <<>> /\ ops[1].atom = "vendor"
                             /\ \/ Atoms(ops) \cap ValueOperation = {}
                                \/ Atoms(ops) \cap (FrameOrRegister \cup Composite) # {}
                     THEN "op(" ELSE "location",
         availability |->
             IF address # Absent THEN "StaticAddressKnown"
             ELSE IF Atoms(ops) \cap (FrameOrRegister \cup Composite
                                      \cup ValueOperation) # {}
             THEN "RuntimeOnly" ELSE "Unavailable"]

HasValue(v) == v.constant \/ v.address # Absent

\* What classify_location and DW_AT_const_value leave in the record
WithConstant(v) ==
    [v EXCEPT !.constant = TRUE, !.text = "const", !.availability = "StaticAddressKnown"]

\* record_variable, up to the type
BeginVariable ==
    /\ Doing("variable")
    /\ LET d == Task.die
           v == [die       |-> d,
                 unit      |-> file.units[unit].name,
                 name      |-> NameOr(d, Nameless),
                 scope     |-> [i \in DOMAIN scopes |-> scopes[i].name],
                 type      |-> TypeId(Die(d).type),
                 linkage   |-> Die(d).linkage,
                 address   |-> Absent,
                 constant  |-> FALSE,
                 text      |-> "missing",
                 availability |-> "Unavailable",
                 tls       |-> FALSE,
                 storage   |-> FALSE,
                 member    |-> scopes # <<>> /\ Last(scopes).tag \in ClassTags,
                 kind      |-> "Local"]
       IN  IF Die(d).tag = "formal_parameter" /\ policy.noParameters
           THEN Continue(<<>>)
           ELSE Continue(Refer(Die(d).type) \o
                         <<[do |-> "locate", die |-> d, variable |-> v]>>)
    /\ unchangedWalk /\ unchangedMaps
    /\ UNCHANGED <<scopes, recorded, loading, signed, types, variables, expressionVars>>

\* The references a variable inherits from, in the order of the code
References(d) ==
    LET list(reference) == IF reference = Nowhere THEN <<>> ELSE <<reference>>
    IN  list(Die(d).specification) \o list(Die(d).origin)

Inherit(v, references) == [do |-> "inherit", variable |-> v, references |-> references]

Read(location) == location.form = "expression" => expression \in {"broken", "decoded"}

\* The location, the constant value and the storage
LocateVariable ==
    /\ Doing("locate")
    /\ Read(Die(Task.die).location)
    /\ LET d        == Task.die
           ops      == OperationsOf(Die(d).location)
           place    == Classified(Die(d).location, ops)
           located  == [Task.variable EXCEPT
                           !.address = place.address, !.text = place.text,
                           !.availability = place.availability,
                           !.tls = "form_tls_address" \in Atoms(ops)]
           valued   == IF Die(d).constant THEN WithConstant(located) ELSE located
           stored   == [valued EXCEPT !.storage =
                           \/ valued.constant
                           \/ Atoms(ops) \cap ({"addr"} \cup IndexedAddress) # {}]
           local    == IF stored.tls
                       THEN [stored EXCEPT !.availability = "RuntimeOnly",
                                           !.address = Absent,
                                           !.text = "thread_local"]
                       ELSE stored
           variable == IF Die(d).tag = "formal_parameter"
                       THEN [local EXCEPT !.availability = "RuntimeOnly",
                                          !.storage = FALSE]
                       ELSE local
       IN  /\ Continue(<<Inherit(variable, References(d))>>)
           /\ variableScope' = Put(variableScope, d, variable.scope)
    /\ Close
    /\ unchangedWalk
    /\ UNCHANGED <<scopes, recorded, loading, signed, types, classScope, staticMember,
                   variables>>

\* inherit_variable_metadata_from_reference, up to the type: scope, class
\* and name
InheritName ==
    /\ Doing("inherit")
    /\ Task.references # <<>>
    /\ LET r       == Head(Task.references)
           v       == Task.variable
           outer   == IF r \in DOMAIN variableScope /\ v.scope = <<>>
                      THEN variableScope[r] ELSE v.scope
           refines == /\ r \in DOMAIN classScope
                      /\ \/ outer = <<>>
                         \/ Len(outer) < Len(classScope[r]) /\ IsPrefix(outer, classScope[r])
           named   == [v EXCEPT
                          !.scope  = IF refines THEN classScope[r] ELSE outer,
                          !.member = IF r \in DOMAIN staticMember
                                     THEN staticMember[r] ELSE @,
                          !.name   = IF @ = Nameless THEN NameOr(r, Nameless) ELSE @]
           typed   == [named EXCEPT !.type = TypeId(Die(r).type)]
       IN  Continue(IF v.type = Unknown
                    THEN Refer(Die(r).type) \o
                         <<[do |-> "relocate", variable |-> typed, die |-> r,
                            references |-> Tail(Task.references)]>>
                    ELSE <<[do |-> "relocate", variable |-> named, die |-> r,
                            references |-> Tail(Task.references)]>>)
    /\ unchangedWalk /\ unchangedMaps
    /\ UNCHANGED <<scopes, recorded, loading, signed, types, variables, expressionVars>>

\* The rest of it: linkage name, constant value and location.  A location
\* is only read for a variable that has none.
Relocates(v) ==
    \/ v.text = "missing"
    \/ v.availability = "Unavailable" /\ v.address = Absent

InheritLocation ==
    /\ Doing("relocate")
    /\ LET r        == Task.die
           linked   == [Task.variable EXCEPT
                           !.linkage = IF @ = "" THEN Die(r).linkage ELSE @]
           valued   == IF Die(r).constant /\ ~linked.constant
                       THEN WithConstant(linked) ELSE linked
           location == Die(r).location
           place    == Classified(location, OperationsOf(location))
           says     == place.availability # "Unavailable" \/ place.text # "missing"
       IN  /\ Relocates(valued) => Read(location)
           /\ Continue(<<Inherit(
                  IF Relocates(valued) /\ location.form # Nowhere /\ says
                  THEN [valued EXCEPT !.address = place.address,
                                      !.text = place.text,
                                      !.availability = place.availability]
                  ELSE valued, Task.references)>>)
    /\ Close
    /\ unchangedWalk /\ unchangedMaps
    /\ UNCHANGED <<scopes, recorded, loading, signed, types, variables>>

\* classify_variable_kind
KindOf(v, tags, external) ==
    IF v.tls THEN "ThreadLocal"
    ELSE IF v.member \/ (v.storage /\ tags # <<>> /\ Last(tags) \in ClassTags)
         THEN "StaticMember"
    ELSE IF v.scope = <<>> THEN IF external THEN "Global" ELSE "FileStatic"
    ELSE IF Range(tags) \cap SubprogramTags # {}
         THEN IF v.storage THEN "FunctionStatic" ELSE "Local"
    ELSE IF external THEN "Namespace" ELSE "FileStatic"

StaticKinds == {"Global", "Namespace", "FileStatic", "FunctionStatic",
                "StaticMember", "ThreadLocal"}

\* A location that says nothing
Placeholder(v) == v.availability = "RuntimeOnly" /\ v.text \in {"missing", "op("}

\* A variable that only exists through what it refers to, and has nothing
UnresolvedReference(v, d) ==
    /\ References(d) # <<>>
    /\ v.kind \in {"Local", "Parameter", "StaticMember"}
    /\ ~HasValue(v)
    /\ v.availability = "Unavailable" \/ Placeholder(v)

\* Mutant: what is static in a function is taken for one of its locals.
LeftOutWithLocals(v) ==
    \/ policy.statics /\ v.kind \notin StaticKinds \ {"FunctionStatic"}
    \/ policy.noRuntime /\ v.availability = "RuntimeOnly"

LeftOutByPolicy(v) ==
    \/ policy.statics /\ v.kind \notin StaticKinds
    \/ policy.noRuntime /\ v.availability = "RuntimeOnly"

\* The rest of record_variable
StoreVariable ==
    /\ Doing("inherit")
    /\ Task.references = <<>>
    /\ LET d      == Task.variable.die
           here   == [i \in DOMAIN scopes |-> scopes[i].name]
           moved  == Task.variable.scope # here
           tags   == IF moved THEN <<>> ELSE [i \in DOMAIN scopes |-> scopes[i].tag]
           member == \/ Task.variable.member
                     \/ /\ moved /\ Task.variable.scope # <<>> /\ scopes # <<>>
                        /\ Last(scopes).tag \in ClassTags
           sorted == [Task.variable EXCEPT !.member = member]
           v      == [sorted EXCEPT !.kind =
                         IF Die(d).tag = "formal_parameter" THEN "Parameter"
                         ELSE KindOf(sorted, tags, Die(d).external)]
           declared == Die(d).declaration /\ v.address = Absent /\ v.text = "missing"
       IN  /\ classScope' = IF declared /\ v.scope # <<>>
                            THEN Put(classScope, d, v.scope) ELSE classScope
           /\ IF declared \/ UnresolvedReference(v, d) \/ LeftOutByPolicy(v)
              THEN UNCHANGED <<variableScope, staticMember, variables>>
              ELSE /\ variableScope' = Put(variableScope, d, v.scope)
                   /\ staticMember' = Put(staticMember, d, v.member)
                   /\ variables' = Append(variables, v)
    /\ Continue(<<>>)
    /\ unchangedWalk
    /\ UNCHANGED <<scopes, recorded, loading, signed, types, expressionVars>>

\* The location the current task waits for is an expression.
StartExpression ==
    /\ \/ Doing("place") \/ Doing("locate")
       \/ Doing("relocate") /\ Relocates(Task.variable)
    /\ Die(Task.die).location.form = "expression"
    /\ expression = "none"
    /\ Begin(Die(Task.die).location.bytes)
    /\ UNCHANGED readerVars

\* It is decoded, and that of a member is evaluated.
StepExpression ==
    /\ stage = "units" /\ agenda # <<>>
    /\ Doing("place") \/ expression = "decoding"
    /\ ExpressionStep
    /\ UNCHANGED readerVars

-----------------------------------------------------------------------------
(* The passes over the list.                                               *)

EndWalk ==
    /\ stage = "units" /\ agenda = <<>>
    /\ unit = Len(file.units)
    /\ stage' = IF file.elf THEN "symbols" ELSE "unique"
    /\ found' = variables
    /\ UNCHANGED <<file, policy, unit, kept, agenda, scopes, recorded, loading,
                   signed, types, classScope, variableScope, staticMember, variables,
                   expressionVars>>

Pass(from, to, list) ==
    /\ stage = from
    /\ stage' = to
    /\ variables' = list
    /\ UNCHANGED <<file, policy, unit, kept, agenda, scopes, recorded, loading,
                   signed, types, classScope, variableScope, staticMember, found,
                   expressionVars>>

\* load_symbol_table: the symbols of objects and of thread-local objects that
\* are defined and have a name.  The last one of a name is kept.
Usable(s) == s.kind \in {"object", "tls"} /\ s.defined /\ s.name # <<>>

Symbols(name) ==
    {i \in DOMAIN file.symbols : Usable(file.symbols[i]) /\ file.symbols[i].name = name}

SymbolOf(name) ==
    file.symbols[CHOOSE i \in Symbols(name) : \A j \in Symbols(name) : j <= i]

\* The names under which apply_symbol_addresses looks for a symbol
SymbolNames(v) ==
    (IF v.linkage = "" THEN <<>> ELSE <<<<v.linkage>>>>)
        \o <<Append(v.scope, v.name), <<v.name>>>>

\* AddressKind Absolute: a constant value takes the kind away.
Exact(v) ==
    v.availability = "StaticAddressKnown" /\ v.address # Absent /\ ~v.constant

\* Mutant: a symbol counts for more than the variable's own location.
WithAnySymbol(v) ==
    LET names == SymbolNames(v)
        known == {i \in DOMAIN names : Symbols(names[i]) # {}}
        s     == SymbolOf(names[Min(known)])
    IN  IF known = {} \/ s.kind = "tls" THEN v
        ELSE [v EXCEPT !.address = s.value, !.text = "symbol",
                       !.availability = "StaticAddressKnown"]

WithSymbol(v) ==
    LET names == SymbolNames(v)
        known == {i \in DOMAIN names : Symbols(names[i]) # {}}
        s     == SymbolOf(names[Min(known)])
    IN  IF Exact(v) \/ known = {} THEN v
        ELSE IF s.kind = "tls"
        THEN [v EXCEPT !.tls = TRUE, !.kind = "ThreadLocal", !.address = Absent,
                       !.text = "symbol", !.availability = "RuntimeOnly"]
        ELSE [v EXCEPT !.address = s.value, !.text = "symbol",
                       !.availability = "StaticAddressKnown"]

\* apply_symbol_addresses
ApplySymbols ==
    Pass("symbols", "unique", [i \in DOMAIN variables |-> WithSymbol(variables[i])])

\* variable_identity_name
Identity(v) ==
    IF v.name = Nameless /\ v.linkage # "" THEN <<v.linkage>>
    ELSE Append(v.scope, v.name)

Same(v, w) == v.unit = w.unit /\ Identity(v) = Identity(w)

\* Mutant: the last of the same stays.
DeduplicatedLast(list) ==
    FoldLeft(LAMBDA unique, v :
                 LET same == {i \in DOMAIN unique : Same(unique[i], v)}
                 IN  IF same = {} THEN Append(unique, v)
                     ELSE [i \in DOMAIN unique |-> IF i \in same THEN v ELSE unique[i]],
             <<>>, list)

\* One round of deduplicate_variables: the first of the same stays in its
\* place, unless this one is the first with a static address.
AddUnique(unique, v) ==
    LET same == {i \in DOMAIN unique : Same(unique[i], v)}
    IN  IF same = {} THEN Append(unique, v)
        ELSE [i \in DOMAIN unique |->
                 IF /\ i \in same
                    /\ v.availability = "StaticAddressKnown"
                    /\ unique[i].availability # "StaticAddressKnown"
                 THEN v ELSE unique[i]]

\* deduplicate_variables
Deduplicated(list) == FoldLeft(AddUnique, <<>>, list)

Deduplicate == Pass("unique", "locals", Deduplicated(variables))

\* std::remove_if and erase
Without(list, gone) ==
    FoldLeft(LAMBDA rest, v : IF v \in gone THEN rest ELSE Append(rest, v), <<>>, list)

\* prune_unresolved_abstract_locals
AbstractLocal(v) ==
    v.availability = "Unavailable" /\ ~HasValue(v) /\ v.kind = "Local"

PruneLocals ==
    Pass("locals", "placeholders",
         Without(variables, {v \in Range(variables) : AbstractLocal(v)}))

\* prune_shadowed_unresolved_reference_placeholders: v gives way to w, the
\* same name with a value in a deeper scope.
ProperSuffix(inner, outer) ==
    Len(inner) < Len(outer) /\ IsSuffix(inner, outer)

GivesWay(v, w) ==
    /\ v.kind \in {"Local", "Parameter"} /\ ~HasValue(v) /\ Placeholder(v)
    /\ w.unit = v.unit /\ w.name = v.name /\ w.kind = v.kind
    /\ HasValue(w)
    /\ ProperSuffix(v.scope, w.scope)

\* Whether one gives way is asked while std::remove_if closes the gaps: the
\* list is what is left so far and what is still to come.  (What was moved
\* has no name any more; what goes has no value, nothing gives way to it.)
Unshadowed(list) ==
    FoldLeftDomain(LAMBDA rest, i :
                       IF \E w \in Range(rest) \cup {list[j] : j \in i..Len(list)} :
                              GivesWay(list[i], w)
                       THEN rest ELSE Append(rest, list[i]),
                   <<>>, list)

PrunePlaceholders == Pass("placeholders", "done", Unshadowed(variables))

-----------------------------------------------------------------------------
ReaderInit ==
    /\ \E load \in Loads : file = load.file /\ policy = load.policy
    /\ stage = "units"
    /\ unit = 0
    /\ kept = {}
    /\ agenda = <<>>
    /\ scopes = <<>>
    /\ recorded = {}
    /\ loading = {}
    /\ signed = {}
    /\ types = <<>>
    /\ classScope = <<>>
    /\ variableScope = <<>>
    /\ staticMember = <<>>
    /\ variables = <<>>
    /\ found = <<>>
    /\ ExpressionInit

ReaderNext ==
    \/ NextUnit
    \/ WalkDie
    \/ LeaveScope
    \/ EnsureType
    \/ TypeEnsured
    \/ RecordType
    \/ NextChild
    \/ RecordedType
    \/ PlaceMember
    \/ MaterializeType
    \/ FollowReferences
    \/ RecordUnitType
    \/ BeginVariable
    \/ LocateVariable
    \/ InheritName
    \/ InheritLocation
    \/ StoreVariable
    \/ StartExpression
    \/ StepExpression
    \/ EndWalk
    \/ ApplySymbols
    \/ Deduplicate
    \/ PruneLocals
    \/ PrunePlaceholders

ReaderSpec == ReaderInit /\ [][ReaderNext]_<<readerVars, expressionVars>>
-----------------------------------------------------------------------------
(* Properties.                                                             *)

ReaderTypeOK ==
    /\ ExpressionTypeOK
    /\ stage \in {"units", "symbols", "unique", "locals", "placeholders", "done"}
    /\ unit \in 0..Len(file.units) /\ kept \subseteq 1..unit
    /\ stage # "units" => agenda = <<>>
    /\ DOMAIN classScope \cup DOMAIN variableScope \subseteq DOMAIN file.dies
    /\ signed \subseteq DOMAIN UnitTypes
    /\ recorded \cup loading \subseteq
           {DieId(d) : d \in DOMAIN file.dies} \cup {KeyId(key) : key \in signed}
               \cup {types[i].id : i \in DOMAIN types}
    /\ \A v \in Range(variables) :
           /\ v.die \in DOMAIN file.dies
           /\ v.address \in Unsigned \cup {Absent}
           /\ v.availability \in {"StaticAddressKnown", "RuntimeOnly", "Unavailable"}
           /\ v.kind \in StaticKinds \cup {"Local", "Parameter"}

Under(d, root) == d = root \/ root \in Range(Around(d))

\* The DIEs the reader looks at: of the units it keeps, without what lies
\* under the vendor's tags
Looked(tags) ==
    {d \in DOMAIN file.dies :
        /\ Die(d).tag \in tags
        /\ \E i \in kept : Under(d, file.units[i].root)
        /\ \A p \in Range(Around(d)) : Die(p).tag \notin IgnoredTags}

\* The names of the scopes that a DIE lies in
Scope(d) ==
    LET names[x \in DOMAIN file.dies] ==
            LET p == ContainerOf(file, x)
            IN  IF ContainersOf(file, x) = {} THEN <<>>
                ELSE IF Die(p).tag \in ScopeTags THEN Append(names[p], ScopeName(p))
                ELSE names[p]
    IN  names[d]

\* Between two units the walk has closed what it opened: every scope that a
\* type left behind would be part of the name of all that follows.  Every
\* type that was begun has one node or stands for the one of a type unit, and
\* every type a node, a member, a base or a variable refers to has one,
\* however the types refer to each other and wherever they were met first;
\* but for signatures that no unit of .debug_types describes.
TypesAreClosed ==
    stage = "units" /\ agenda = <<>> =>
        LET ids       == {types[i].id : i \in DOMAIN types}
            Known(id) == \/ id \in ids \cup {Unknown}
                         \/ id[1] = "die" /\ Die(id[2]).tag \notin TypeTags
                         \/ id[1] = "key" /\ id[2] \notin DOMAIN UnitTypes
        IN  /\ scopes = <<>> /\ loading = {} /\ ids \subseteq recorded
            /\ Cardinality(ids) = Len(types)
            /\ \A id \in recorded \ ids :
                   id[1] = "die" /\ StandsForUnit(id[2]) /\ TypeId(id[2]) \in ids
            /\ \A i \in DOMAIN types :
                   /\ types[i].target # NoType => Known(types[i].target)
                   /\ \A part \in Range(types[i].members) \cup Range(types[i].bases) :
                          Known(part.type)
            /\ \A v \in Range(variables) : Known(v.type)

\* No type of the units that are walked is missed, wherever it lies and
\* however much of it was met on the way from elsewhere.
TypesAreRecorded ==
    stage = "units" /\ agenda = <<>> => {DieId(d) : d \in Looked(TypeTags)} \subseteq recorded

\* The types of .debug_types are those of the units that can be read to their
\* end, whatever other units are broken, and each is recorded with the
\* members that lie in it in the file, where they say, each of the type its
\* reference means.
UnitTypesAsWritten ==
    stage = "units" /\ agenda = <<>> =>
        /\ DescribedKeys(file.typeUnits) = DOMAIN UnitTypes
        /\ \A i \in DOMAIN types : types[i].id[1] = "key" =>
              LET members == types[i].members
                  ByKey   == [m \in DOMAIN members |->
                                 [members[m] EXCEPT !.type = Last(@)]]
              IN  IsOfUnit(types[i].id[2], ByKey, file.typeUnits)

\* The address that a variable's own location says exactly, or Absent.
\* Only meant for expressions the reader decodes to one address operation.
OwnAddress(d) ==
    LET location == Die(d).location
        code     == IF location.form = "expression" /\ location.bytes # <<>>
                       /\ location.bytes[1] \in DOMAIN Opcodes
                    THEN Opcodes[location.bytes[1]].atom ELSE "none"
    IN  CASE location.form = "address" -> location.value
          [] code = "addr" /\ Len(location.bytes) = 1 + AddressSize ->
                 FixedValue(Tail(location.bytes))
          [] code \in IndexedAddress
             /\ IsLeb(Tail(location.bytes)) /\ Len(Tail(location.bytes)) <= Groups
             /\ LebValue(Tail(location.bytes)) \in DOMAIN file.addresses ->
                 file.addresses[LebValue(Tail(location.bytes))]
          [] OTHER -> Absent

\* Variables that say themselves where they are.  (An address that is not
\* in an expression does not count as static storage in
\* infer_static_storage.)
Statics ==
    {d \in Looked({"variable"}) :
        /\ Die(d).location.form = "expression" /\ OwnAddress(d) # Absent
        /\ References(d) = <<>> /\ ~Die(d).declaration /\ Die(d).name # ""}

\* A variable with a static address of its own is found, under the unit it
\* lies in, its name and the scopes around it, with this address; and after
\* the passes over the list there is one of its unit and name with a static
\* address, unless it also says a constant value.  (One for all of that name:
\* deduplicate_variables knows units by their names and scopes by theirs, so
\* that statics of two units of one name, which tests/test_main.cc:1983 wants
\* apart, or of two blocks of a function count as the same.)
StaticsAreKept ==
    stage = "done" =>
        \A d \in Statics, i \in kept : Under(d, file.units[i].root) =>
            \E v \in Range(found) :
                /\ v.die = d /\ v.name = Die(d).name
                /\ v.unit = file.units[i].name /\ v.scope = Scope(d)
                /\ v.address = OwnAddress(d) /\ v.kind \in StaticKinds
                /\ Die(d).constant \/ \E w \in Range(variables) :
                       Same(v, w) /\ w.availability = "StaticAddressKnown"

\* Nothing of the units that are walked is missed: no type, and no variable
\* with a static address of its own, whatever the walk met first and from
\* wherever it came.
NothingIsMissed == TypesAreRecorded /\ StaticsAreKept

\* The DIEs whose attributes a variable may take over, itself included
Sources(d) == {d} \cup Range(References(d))

\* No address is made up: it is the one the variable's location says, or
\* that of a DIE it refers to where its own says nothing, or the value of
\* a symbol with one of the variable's names that is not thread-local.  Of
\* a parameter, a constant and what is thread-local only this much holds,
\* even where their own location says an address: their availability or the
\* kind of their address is no longer that of an exact one, and the symbol
\* counts for more, which ExactAddressesStay shows.
AddressesHaveASource ==
    \A v \in Range(variables) : v.address # Absent =>
        LET own == OwnAddress(v.die)
        IN  \/ v.address = own
            \/ /\ own = Absent \/ v.tls \/ v.constant \/ v.kind = "Parameter"
               /\ \/ \E r \in Sources(v.die) : v.address = OwnAddress(r)
                  \/ \E i \in DOMAIN file.symbols :
                         /\ file.elf /\ Usable(file.symbols[i])
                         /\ file.symbols[i].kind # "tls"
                         /\ file.symbols[i].value = v.address
                         /\ file.symbols[i].name \in Range(SymbolNames(v))

\* The address that the walk has found for a variable, in its own location or
\* in that of a DIE it refers to, is the one in the list: "if DWARF has given
\* an exact absolute address, it must not be overridden by the ELF symbol
\* found by name" (dwarf_reader.cc:1284).  A formal parameter counts as
\* RuntimeOnly whatever its location says (record_variable), and the test of
\* apply_symbol_addresses, which asks the availability first, lets a symbol
\* that has its name override it.  (A constant value has no address.)
ExactAddressesStay ==
    \A given \in Range(found), v \in Range(variables) :
        given.die = v.die /\ given.address # Absent /\ ~given.constant =>
            v.address = given.address

\* What was known of the variables before the passes that take some away
KnownBefore == {IF file.elf THEN WithSymbol(v) ELSE v : v \in Range(found)}

\* The passes over the list leave no two of the same, no local without
\* anything and no placeholder of what is there; and they lose nothing
\* else: what has a static address stays, and what is gone had a first of
\* its kind that was one of these.
PlaceholdersGiveWay ==
    stage = "done" =>
        /\ \A i, j \in DOMAIN variables :
               /\ Same(variables[i], variables[j]) => i = j
               /\ ~AbstractLocal(variables[i])
               /\ ~GivesWay(variables[i], variables[j])
        /\ LET known == KnownBefore IN \A v \in known :
               \/ \E w \in Range(variables) :
                      /\ Same(v, w)
                      /\ v.availability = "StaticAddressKnown" =>
                             w.availability = "StaticAddressKnown"
               \/ /\ v.availability # "StaticAddressKnown"
                  /\ \E first \in known :
                         /\ Same(first, v)
                         /\ \/ AbstractLocal(first)
                            \/ \E w \in Range(variables) : GivesWay(first, w)

\* The units that are walked are those that the rules leave in, by what the
\* rules mean.
UnitsFollowRules ==
    kept = {i \in 1..unit : ~LeftOut(policy.rules, SourcePath(file.units[i]))}
=============================================================================

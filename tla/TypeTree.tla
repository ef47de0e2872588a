------------------------------ MODULE TypeTree ------------------------------
(***************************************************************************)
(* The expander (src/analysis/expander.cc): the tree of a variable's       *)
(* members, elements and bases, to a given depth or to the end, and the    *)
(* nodes that are expanded later, one at a time, from what is known of     *)
(* them.                                                                   *)
(*                                                                         *)
(* A path is the sequence of its parts, each with its separator, as in     *)
(* <<"ns", "::v", ".member", "[0]">>.  A node keeps what later steps use:  *)
(* the text of type names, sizes for display and the offset within the     *)
(* parent are left out.                                                    *)
(***************************************************************************)
EXTENDS Arithmetic, Sequences, SequencesExt, TLC

CONSTANT NoType  \* what a reference to a type that was not read refers to

Composite == {"Struct", "Class", "Union"}

Availabilities == {"StaticAddressKnown", "StaticLayoutKnown", "RuntimeOnly",
                   "Unavailable", "OptimizedOut"}

\* An address moved by an offset, if there is an address.
Moved(address, offset) ==
    IF address = Absent THEN Absent ELSE CheckedAddOffset(address, offset)

MovedUp(address, offset) ==
    IF Absent \in {address, offset} THEN Absent
    ELSE CheckedAddUnsigned(address, offset)

-----------------------------------------------------------------------------
(* Types.  A table maps an id to a record with the fields kind, size, elem *)
(* (of arrays), of (what a typedef or qualifier stands for), dimensions,   *)
(* bases and members.                                                      *)

\* compute_array_count: zero when the product does not fit.
ElementCount(type) ==
    IF type.dimensions = <<>> THEN 0
    ELSE FoldLeft(LAMBDA count, dimension :
                      IF CheckedMultiply(count, dimension) = Absent THEN 0
                      ELSE CheckedMultiply(count, dimension),
                  1, type.dimensions)

\* resolve_byte_size
RECURSIVE ByteSize(_, _)
ByteSize(types, id) ==
    IF id \notin DOMAIN types THEN Absent
    ELSE IF types[id].size # Absent THEN types[id].size
    ELSE IF types[id].kind \in {"Typedef", "Qualified"}
         THEN ByteSize(types, types[id].of)
    ELSE Absent

\* The distance of the elements of an array.
Stride(types, type) ==
    LET count == ElementCount(type)
        size  == ByteSize(types, type.elem)
    IN  IF size # Absent THEN size
        ELSE IF type.size # Absent /\ count > 0 THEN type.size \div count
        ELSE 0

-----------------------------------------------------------------------------
(* Children of a node: what each is called, its type, availability and     *)
(* address.                                                                *)

Elements(types, type, availability, address) ==
    IF type.elem \notin DOMAIN types THEN <<>>
    ELSE [i \in 1..ElementCount(type) |->
            [part |-> "[" \o ToString(i - 1) \o "]",
             type |-> type.elem,
             availability |-> availability,
             address |-> MovedUp(address,
                                 CheckedMultiply(Stride(types, type), i - 1))]]

\* All bases have the same name.
Bases(type, address) ==
    [i \in DOMAIN type.bases |->
        [part |-> "::<base>",
         type |-> type.bases[i].type,
         availability |-> "StaticLayoutKnown",
         address |-> MovedUp(address, type.bases[i].offset)]]

\* A member without a location has no address.
Members(type, address) ==
    [i \in DOMAIN type.members |->
        LET member == type.members[i]
        IN  [part |-> "." \o member.name,
             type |-> member.type,
             availability |-> member.availability,
             address |-> IF member.located
                         THEN Moved(address, member.offset)
                         ELSE Absent]]

Parts(types, id, availability, address) ==
    LET type == types[id]
    IN  CASE type.kind = "Array" ->
                Elements(types, type, availability, address)
          [] type.kind \in Composite ->
                Bases(type, address) \o Members(type, address)
          [] OTHER -> <<>>

\* A node that was expanded in lazy mode stays lazy, an array of an unknown
\* type excepted.
StaysLazy(types, id) ==
    \/ types[id].kind \in Composite
    \/ types[id].kind = "Array" /\ types[id].elem \in DOMAIN types

HasChildren(types, id) == types[id].kind \in Composite \cup {"Array"}

-----------------------------------------------------------------------------
(* Expansion.  A policy has a depth, where 0 means no limit, the flag lazy *)
(* and the flags that select variables (LoadPolicy, DumpOptions).          *)

InitialDepth(policy) == IF policy.depth = 0 THEN Absent ELSE policy.depth

NextDepth(remaining) == IF remaining = Absent THEN Absent ELSE remaining - 1

Node(path, id, types, availability, address, lazy, children) ==
    [path |-> path, type |-> id,
     kind |-> IF id \in DOMAIN types THEN types[id].kind ELSE "Unknown",
     availability |-> availability, address |-> address,
     lazy |-> lazy, children |-> children]

\* expand_type
RECURSIVE ExpandType(_, _, _, _, _, _, _)
ExpandType(types, policy, path, id, availability, address, remaining) ==
    IF id \notin DOMAIN types
    THEN Node(path, NoType, types, availability, address, FALSE, <<>>)
    ELSE IF remaining = 0
    THEN Node(path, id, types, availability, address,
              policy.lazy /\ HasChildren(types, id), <<>>)
    ELSE LET parts == Parts(types, id, availability, address)
         IN  Node(path, id, types, availability, address,
                  policy.lazy /\ StaysLazy(types, id),
                  [i \in DOMAIN parts |->
                     ExpandType(types, policy, Append(path, parts[i].part),
                                parts[i].type, parts[i].availability,
                                parts[i].address, NextDepth(remaining))])

\* Mutant: what is expanded later has the depth of the whole tree already
\* behind it.
ExpandedBelowLimit(types, policy, node) ==
    IF policy.depth # 0 /\ Len(node.path) > policy.depth THEN <<>>
    ELSE ExpandType(types, policy, node.path, node.type, node.availability,
                    node.address, InitialDepth(policy)).children

\* expand_children: from any node, the depth starts again.
ExpandChildren(types, policy, node) ==
    ExpandType(types, policy, node.path, node.type, node.availability,
               node.address, InitialDepth(policy)).children

\* expand_variable
ExpandVariable(types, policy, variable) ==
    ExpandType(types, policy, variable.path, variable.type,
               variable.availability, variable.address, InitialDepth(policy))

\* Mutant: a variable with a known address does not look for another one.
AddIfKnown(nodes, node) ==
    IF \/ node.availability = "StaticAddressKnown"
       \/ \A i \in DOMAIN nodes : nodes[i].path # node.path
    THEN Append(nodes, node) ELSE nodes

\* The de-duplication in build: of the variables with one path, the first
\* whose address is known takes the place of the first of them all.
KeepBetter(nodes, node) ==
    IF \A i \in DOMAIN nodes : nodes[i].path # node.path
    THEN Append(nodes, node)
    ELSE [i \in DOMAIN nodes |->
            IF /\ nodes[i].path = node.path
               /\ nodes[i].availability # "StaticAddressKnown"
               /\ node.availability = "StaticAddressKnown"
            THEN node ELSE nodes[i]]

\* should_emit_symbol, without a symbol name
Emitted(variable, policy) ==
    /\ policy.onlyStatic => variable.availability = "StaticAddressKnown"
    /\ \/ policy.runtimeToo
       \/ variable.availability \in {"StaticAddressKnown", "StaticLayoutKnown"}

\* build
Build(types, policy, variables) ==
    FoldLeft(LAMBDA nodes, variable :
                 IF Emitted(variable, policy)
                 THEN KeepBetter(nodes,
                                 ExpandVariable(types, policy, variable))
                 ELSE nodes,
             <<>>, variables)

\* All nodes of a tree as it stands.
RECURSIVE Subtree(_)
Subtree(node) ==
    {node} \cup UNION {Subtree(child) : child \in ToSet(node.children)}

\* The children a view works with: those of the node, or, for a lazy one,
\* new ones.
ChildrenOf(types, policy, node) ==
    IF node.lazy THEN ExpandChildren(types, policy, node) ELSE node.children
=============================================================================

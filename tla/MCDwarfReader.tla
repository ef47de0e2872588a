---------------------------- MODULE MCDwarfReader ----------------------------
(* Small object files for the DWARF reader.  A byte holds 3 bits of a        *)
(* LEB128 number, a word has 10 bits and an address 2 bytes.                 *)
EXTENDS DwarfReader, TLC

MCOpcodes ==
    LET Op(atom, number) == [atom |-> atom, number |-> number]
    IN     0 :> Op("lit", 1)    @@ 1 :> Op("const1u", 0)     @@ 2 :> Op("const2s", 0)
        @@ 3 :> Op("constu", 0) @@ 4 :> Op("consts", 0)      @@ 5 :> Op("plus_uconst", 0)
        @@ 6 :> Op("plus", 0)   @@ 7 :> Op("minus", 0)       @@ 8 :> Op("nop", 0)
        @@ 9 :> Op("addr", 0)   @@ 10 :> Op("addrx", 0)      @@ 11 :> Op("fbreg", 0)
        @@ 12 :> Op("breg", 2)  @@ 13 :> Op("implicit_value", 0)
        @@ 15 :> Op("form_tls_address", 0)

\* Numbers at both ends of a word, in as many groups as a word needs, in
\* more, and cut off
Numbers == {<<0>>, <<7>>, <<8>>, <<15, 15, 7>>, <<15, 15, 15, 0>>, <<15, 15, 15, 1>>,
            <<15, 15, 15, 2>>, <<8, 8, 8, 7>>, <<8, 8, 8, 8, 0>>}
Items == {<<op>> : op \in {0, 6, 7, 8, 14}}
         \cup {<<op>> \o n : op \in {3, 4, 5}, n \in Numbers}
         \cup {<<op>> \o n : op \in {10, 11, 12, 13},
                             n \in {<<1>>, <<8, 8, 8, 7>>, <<15, 4>>, <<8>>}}
         \cup {<<1, 15>>, <<2, 15, 7>>, <<2, 0, 8>>, <<9, 3, 4>>, <<9, 3>>, <<1>>}
MCExpressions == {<<>>} \cup Items \cup {a \o b : a \in Items, b \in Items}

-----------------------------------------------------------------------------
Missing    == [form |-> "none"]
At(n)      == [form |-> "address", value |-> n]
Offset(n)  == [form |-> "constant", value |-> n]
Expr(b)    == [form |-> "expression", bytes |-> b]
Listed(as) == [form |-> "list", operations |->
                  [i \in DOMAIN as |-> [atom |-> as[i], operand1 |-> 5]]]

Node(tag, name, type, children) ==
    [tag |-> tag, name |-> name, type |-> type, children |-> children,
     specification |-> "none", origin |-> "none", location |-> Missing,
     constant |-> FALSE, external |-> FALSE, declaration |-> FALSE, linkage |-> "",
     signature |-> "none"]
Var(name, location) ==
    [Node("variable", name, "int", <<>>) EXCEPT !.location = location]
Unit(name, root) == [name |-> name, directory |-> <<"w">>, root |-> root]

Everything == [rules |-> <<>>, statics |-> FALSE, noParameters |-> FALSE,
               noRuntime |-> FALSE]
OnlyStatics == [Everything EXCEPT !.statics = TRUE, !.noParameters = TRUE]
NoRuntime   == [Everything EXCEPT !.noRuntime = TRUE]

Object(name, value) ==
    [name |-> name, kind |-> "object", defined |-> TRUE, value |-> value]

\* One expression, as the location of a member, of a base and of a variable
ExpressionFiles ==
    {[units |-> <<Unit(<<"a">>, "cu")>>, symbols |-> <<>>, elf |-> FALSE,
      addresses |-> 1 :> 77, typeUnits |-> <<>>,
      dies |-> "cu" :> Node("compile_unit", "", "none", <<x>>)
            @@ "int" :> Node("base_type", "int", "none", <<>>)
            @@ (IF x = "S"
                THEN "S" :> Node("structure_type", "S", "none", <<"b", "m">>)
                  @@ "b" :> [Node("inheritance", "", "int", <<>>) EXCEPT !.location = Expr(b)]
                  @@ "m" :> [Node("member", "m", "int", <<>>) EXCEPT !.location = Expr(b)]
                ELSE "v" :> Var("v", Expr(b)))] :
        x \in {"S", "v"}, b \in MCExpressions}

\* Rules over the paths of units
Paths    == {<<"a">>, <<"a", "/", "b">>, <<"b", "\\", "a">>, <<"a", "/", "a", "/", "b">>}
Patterns == {<<"*">>, <<"*", "*">>, <<"*", "*", "/", "a">>, <<"*", "*", "/", "b">>,
             <<"*", "/", "b">>, <<"w", "/", "*", "*", "b">>, <<"?", "?", "?">>,
             <<"w", "\\", "a", "*">>, <<" ", "*", "*", "/", "a", "/", "*", "*", " ">>,
             <<"#", "*", "*">>, <<>>, <<"*", "*", "*", "/", "b">>}
Lines    == Patterns \cup {<<"!">> \o p : p \in Patterns \ {<<"#", "*", "*">>}}
RuleLoads ==
    {[file |-> [units |-> <<Unit(path, "cu")>>, symbols |-> <<>>, elf |-> FALSE,
                addresses |-> <<>>, typeUnits |-> <<>>,
                dies |-> "cu" :> Node("compile_unit", "", "none", <<>>)],
      policy |-> [Everything EXCEPT !.rules = rules]] :
        path \in Paths, rules \in {<<p, q>> : p, q \in Lines}}

\* A program: a namespace with a class that has a static member, defined
\* outside of it; functions with locals, statics and a copy that was
\* inlined; a second namespace, which may use the class first; and a second
\* unit, which may have the name of the first.
Program(c) ==
    [units |-> <<Unit(<<"a">>, "cu"), Unit(c.second, "cu2")>>,
     elf |-> c.elf, symbols |-> c.symbols, addresses |-> 1 :> 77, typeUnits |-> <<>>,
     dies |->
        "cu"  :> Node("compile_unit", "", "none",
                      (IF c.userFirst THEN <<"o", "ns">> ELSE <<"ns", "o">>)
                      \o <<"k2", "f", "h", "s1", "vt">>)
     @@ "int" :> Node("base_type", "int", "none", <<>>)
     @@ "ns"  :> Node("namespace", "n", "none", <<"S", "P", "U">>)
     @@ "S"   :> Node("structure_type", "S", "none", <<"m", "k", "c">>)
     @@ "m"   :> [Node("member", "m", "P", <<>>) EXCEPT !.location = Offset(4)]
     @@ "k"   :> [Var("k", Missing) EXCEPT !.declaration = TRUE, !.external = TRUE]
     @@ "c"   :> [Var("c", Missing) EXCEPT !.constant = TRUE]
     @@ "P"   :> Node("pointer_type", "", "S", <<>>)
     @@ "U"   :> Node("union_type", "U", "none", <<"um", "uk">>)
     @@ "um"  :> Node("member", "", "Q", <<"int">>)
     @@ "uk"  :> [Var("uk", Missing) EXCEPT !.declaration = TRUE]
     @@ "Q"   :> Node("const_type", "", "P", <<>>)
     @@ "o"   :> Node("namespace", "o", "none", <<"v">>)
     @@ "v"   :> [Var("v", Expr(<<10, 1>>)) EXCEPT !.type = "S", !.external = TRUE]
     @@ "k2"  :> [Var("", c.member) EXCEPT !.type = "none", !.specification = "k",
                                           !.linkage = "_k"]
     @@ "f"   :> Node("subprogram", "f", "none", <<"p", "s", "l", "b", "i">>)
     @@ "p"   :> [Node("formal_parameter", "p", "int", <<>>) EXCEPT !.location = c.local]
     @@ "s"   :> Var("s", Expr(<<9, 3, 4>>))
     @@ "l"   :> Var("l", c.local)
     @@ "b"   :> Node("lexical_block", "", "none", <<"l2", "s2">>)
     @@ "l2"  :> Var("l", Expr(<<11, 7>>))
     @@ "s2"  :> Var("s", Expr(<<9, 5, 0>>))
     @@ "i"   :> [Node("inlined_subroutine", "", "none", <<"ix", "ip">>) EXCEPT !.origin = "h"]
     @@ "ix"  :> [Var("", c.inlined) EXCEPT !.type = "none", !.origin = "x"]
     @@ "ip"  :> [Node("formal_parameter", "", "none", <<>>) EXCEPT
                     !.location = c.inlined, !.origin = "hp"]
     @@ "h"   :> Node("subprogram", "h", "none", <<"hp", "x", "t">>)
     @@ "hp"  :> Node("formal_parameter", "q", "U", <<>>)
     @@ "x"   :> Var("x", c.origin)
     @@ "t"   :> Node("TI_clone", "", "none", <<"tv">>)
     @@ "tv"  :> Var("tv", At(3))
     @@ "s1"  :> Var("u", Expr(<<9, 1, 0>>))
     @@ "vt"  :> Var("t", Expr(<<9, 2, 0, 15>>))
     @@ "cu2" :> Node("compile_unit", "", "none", <<"s3", "l3", "D">>)
     @@ "s3"  :> Var("u", c.member)
     @@ "l3"  :> [Var("l", c.inlined) EXCEPT !.external = TRUE]
     @@ "D"   :> Node("class_type", "D", "none", <<"db", "E">>)
     @@ "db"  :> Node("inheritance", "", "D2", <<>>)
     @@ "D2"  :> Node("class_type", "D2", "none", <<"dp">>)
     @@ "dp"  :> Node("member", "d", "DP", <<>>)
     @@ "DP"  :> Node("pointer_type", "", "D", <<>>)
     @@ "E"   :> Node("structure_type", "", "none", <<"em">>)
     @@ "em"  :> Node("member", "e", "D", <<>>)]

Symbols1 == <<Object(<<"_k">>, 100), Object(<<"k">>, 101), Object(<<"l">>, 102),
              Object(<<"u">>, 103), Object(<<"t">>, 104), Object(<<"n", "S", "k">>, 105)>>
Symbols2 == <<Object(<<"l">>, 110), [Object(<<"l">>, 1) EXCEPT !.kind = "tls"],
              Object(<<"f", "x">>, 111), [Object(<<"c">>, 2) EXCEPT !.kind = "function"],
              [Object(<<"k">>, 0) EXCEPT !.defined = FALSE], Object(<<"s">>, 112),
              Object(<<"q">>, 113)>>

Programs(members, locals, inlined, origins, symbols, seconds) ==
    {Program([member |-> m, local |-> l, inlined |-> i, origin |-> o, symbols |-> s,
              elf |-> s # <<>>, userFirst |-> s = Symbols2, second |-> n]) :
        m \in members, l \in locals, i \in inlined, o \in origins, s \in symbols,
        n \in seconds}

-----------------------------------------------------------------------------
(* Type units, each with its own place in the section and one that may not   *)
(* be readable.                                                              *)
Entry(tag, name, type, children) ==
    [tag |-> tag, name |-> name, type |-> type, children |-> children,
     place |-> Unlocated, declaration |-> FALSE, signature |-> "none"]
Null == Entry("null", "", [form |-> "none"], FALSE)
Bare(tag, children) == Entry(tag, "", [form |-> "none"], children)
Sig(key)     == [form |-> "signature", key |-> key]
Ref(base, i) == [form |-> "local", base |-> base, offset |-> i]

\* A structure that refers to itself through B, with a base, a local array
\* and a nested structure, then other types in the same unit
UnitA(base, deep) ==
    <<Bare("structure_type", TRUE),
        Entry("member", "p", Sig("B"), FALSE),
        [Entry("member", "a", Ref(base, 5), FALSE) EXCEPT !.place = Located(4)],
        [Entry("member", "d", Sig("C"), FALSE) EXCEPT !.declaration = TRUE],
        Entry("array_type", "", Sig("B"), TRUE),
            Bare("subrange_type", FALSE),
        Null,
        Bare("structure_type", TRUE),
            Entry("member", "n", deep, FALSE),
            Bare("typedef", TRUE),
                Bare("union_type", FALSE),
            Null,
        Null,
        [Entry("member", "s", Ref(base, 8), FALSE) EXCEPT !.place = Located(8)],
        [Entry("inheritance", "", Sig("C"), FALSE) EXCEPT !.place = Located(0)],
        [Bare("class_type", TRUE) EXCEPT !.declaration = TRUE],
            Entry("member", "x", Sig("B"), FALSE),
        Null,
      Null,
      Bare("base_type", FALSE),
      Entry("pointer_type", "", Ref(base, 1), FALSE),
      [Bare("structure_type", FALSE) EXCEPT !.declaration = TRUE, !.signature = "B"],
    Null,
    Bare("base_type", FALSE)>>
UnitB(base) == <<Entry("pointer_type", "", Sig("A"), FALSE)>>
UnitC(base) ==
    <<Bare("class_type", TRUE),
        Entry("member", "i", Ref(base, 5), FALSE),
        Entry("member", "q", Sig("B"), FALSE),
      Null,
      Entry("const_type", "", Ref(base, 6), FALSE),
      [Bare("base_type", FALSE) EXCEPT !.signature = "D"]>>

SoundHeader == [cutOff |-> FALSE, whole |-> TRUE, version |-> 4, kind |-> "none",
                typeInside |-> TRUE, abbreviated |-> TRUE]
CutOff      == [SoundHeader EXCEPT !.cutOff = TRUE]
Wrong       == {[SoundHeader EXCEPT !.version = 5, !.kind = "compile"],
                [SoundHeader EXCEPT !.version = 3],
                [SoundHeader EXCEPT !.abbreviated = FALSE]}

\* The header of the bad unit, and the number of its entry that throws
Section(order, bad, deep) ==
    [n \in 1..3 |->
        LET base == 30 * (n - 1)
            dies == CASE order[n] = "A" -> UnitA(base, IF deep.form = "local"
                                                       THEN Ref(base, deep.offset) ELSE deep)
                      [] order[n] = "B" -> UnitB(base)
                      [] OTHER -> UnitC(base)
        IN  [signature |-> order[n], base |-> base,
             header |-> IF order[n] = bad.unit THEN bad.header
                        ELSE IF order[n] = "C"
                        THEN [SoundHeader EXCEPT !.version = 5, !.kind = "type"]
                        ELSE SoundHeader,
             dies |-> IF order[n] = bad.unit /\ bad.throws \in DOMAIN dies
                      THEN [dies EXCEPT ![bad.throws].tag = "throws"] ELSE dies]]

Orders == {<<"A", "B", "C">>, <<"A", "C", "B">>, <<"B", "A", "C">>, <<"B", "C", "A">>,
           <<"C", "A", "B">>, <<"C", "B", "A">>}
Bad(units, headers, entries) ==
    {[unit |-> u, header |-> h, throws |-> n] : u \in units, h \in headers, n \in entries}
Sections == {Section(order, bad, deep) :
                order \in Orders,
                bad  \in Bad({"A"}, {SoundHeader}, {0, 9, 22, 24})
                         \cup Bad({"A", "B", "C"}, {SoundHeader}, {1, 5})
                         \cup Bad({"A", "B", "C"}, Wrong \cup {CutOff}, {0}),
                deep \in {Sig("A"), Sig("X"), Ref(0, 20), Ref(0, 10)}}

\* Variables that use them: by signature, through a declaration, and through
\* a type of its own that also has a signature
TypeUnitFiles ==
    {[units |-> <<Unit(<<"a">>, "cu")>>, symbols |-> <<>>, elf |-> FALSE,
      addresses |-> <<>>, typeUnits |-> section,
      dies |-> "cu" :> Node("compile_unit", "", "none", used)
            @@ "v"  :> [Var("v", Missing) EXCEPT !.type = "A"]
            @@ "w"  :> [Var("w", Missing) EXCEPT !.type = "AD"]
            @@ "AD" :> [Node("structure_type", "A", "none", <<>>) EXCEPT
                           !.declaration = TRUE, !.signature = "A"]
            @@ "S"  :> [Node("structure_type", "S", "none", <<"m", "N">>) EXCEPT
                           !.signature = "C"]
            @@ "m"  :> Node("member", "m", "N", <<>>)
            @@ "N"  :> [Node("class_type", "", "none", <<>>) EXCEPT !.signature = "B"]] :
        section \in Sections, used \in {<<"v", "S">>, <<"S", "w", "AD">>}}

MCLoads ==
    {[file |-> f, policy |-> Everything] : f \in ExpressionFiles \cup TypeUnitFiles}
    \cup RuleLoads
    \cup {[file |-> f, policy |-> p] :
             f \in Programs({Missing, Expr(<<9, 3, 3>>), Expr(<<9, 2, 0, 15>>)},
                            {Missing, Expr(<<11, 7>>), Listed(<<"fbreg", "piece">>)},
                            {Missing, Expr(<<12, 1>>), Listed(<<"vendor", "piece">>), At(8)},
                            {Missing, Expr(<<9, 4>>), Listed(<<"deref">>)},
                            {<<>>, Symbols1, Symbols2}, {<<"a">>, <<"b">>}),
             p \in {Everything, OnlyStatics, NoRuntime}}
=============================================================================

--------------------------- MODULE MCVariableViews ---------------------------
(***************************************************************************)
(* Instance of VariableViews for TLC: two small programs.  The first has a *)
(* class with two bases, an array of structures, a member before the start *)
(* of its object, one without a location, and a variable at the end of the *)
(* address space; the second variables with one path, arrays without a     *)
(* size, of a type that was not read, and with too many elements to count. *)
(***************************************************************************)
EXTENDS VariableViews

Scalar(bytes) == [kind |-> "Base", size |-> bytes, elem |-> "none",
                  of |-> "none", dimensions |-> <<>>, bases |-> <<>>,
                  members |-> <<>>]
Record(bytes, bases, members) ==
    [Scalar(bytes) EXCEPT !.kind = "Class", !.bases = bases,
                          !.members = members]
ArrayOf(elem, dimensions) ==
    [Scalar(Absent) EXCEPT !.kind = "Array", !.elem = elem,
                           !.dimensions = dimensions]
Alias(of) == [Scalar(Absent) EXCEPT !.kind = "Typedef", !.of = of]

Member(name, type, offset) ==
    [name |-> name, type |-> type, offset |-> offset, located |-> TRUE,
     availability |-> "StaticLayoutKnown"]
Base(type, offset) == [type |-> type, offset |-> offset]
Variable(path, type, availability, address) ==
    [path |-> path, type |-> type, availability |-> availability,
     address |-> address]

Classes ==
    [types |->
       ("int" :> Scalar(4)) @@
       ("pair" :> Record(8, <<>>, <<Member("x", "int", 0),
                                    Member("y", "int", 4)>>)) @@
       ("single" :> Record(4, <<>>, <<Member("z", "int", 0)>>)) @@
       ("pairs" :> ArrayOf("pair", <<2>>)) @@
       ("derived" :> Record(28, <<Base("single", 0), Base("pair", 4)>>,
           <<Member("a", "pairs", 12), Member("before", "int", -4),
             [Member("nowhere", "int", 0) EXCEPT !.located = FALSE]>>)),
     variables |->
       <<Variable(<<"ns", "::v">>, "derived", "StaticAddressKnown", 0),
         Variable(<<"end">>, "pair", "StaticAddressKnown", 60)>>]

Arrays ==
    [types |->
       ("int" :> Scalar(4)) @@
       ("number" :> Alias("int")) @@
       ("numbers" :> ArrayOf("number", <<2, 1>>)) @@
       ("huge" :> ArrayOf("int", <<8, 9>>)) @@
       ("opaque" :> ArrayOf("unread", <<2>>)) @@
       ("late" :> [ArrayOf("numbers", <<2>>) EXCEPT !.size = 16]),
     variables |->
       <<Variable(<<"n">>, "numbers", "Unavailable", Absent),
         Variable(<<"n">>, "numbers", "StaticAddressKnown", 16),
         Variable(<<"n">>, "int", "StaticAddressKnown", 24),
         Variable(<<"h">>, "huge", "StaticAddressKnown", 8),
         Variable(<<"o">>, "opaque", "StaticAddressKnown", 8),
         Variable(<<"m">>, "late", "RuntimeOnly", 40)>>]

MCPrograms == {Classes, Arrays}

MCPolicies ==
    [depth : 0..2, lazy : BOOLEAN, onlyStatic : {FALSE}, runtimeToo : {TRUE}]
      \cup {[depth |-> 1, lazy |-> TRUE, onlyStatic |-> TRUE,
             runtimeToo |-> FALSE]}

Eager == [depth |-> 0, lazy |-> FALSE, onlyStatic |-> FALSE,
          runtimeToo |-> TRUE]

AllPaths ==
    {node.path : node \in UNION {UNION {Subtree(root) :
        root \in ToSet(Build(p.types, Eager, p.variables))} :
            p \in MCPrograms}}

Spelling(part) ==
    CASE part = "ns" -> <<"n", "s">>
      [] part = "end" -> <<"e">>
      [] part = "::v" -> <<":", ":", "v">>
      [] part = "::<base>" -> <<":", ":", "<", "b", ">">>
      [] part = "[0]" -> <<"[", "0", "]">>
      [] part = "[1]" -> <<"[", "1", "]">>
      [] part = ".before" -> <<".", "b">>
      [] part = ".nowhere" -> <<".", "w">>
      [] part \in {".a", ".x", ".y", ".z"} ->
             <<".", CASE part = ".a" -> "a" [] part = ".x" -> "x"
                      [] part = ".y" -> "y" [] part = ".z" -> "z">>
      [] OTHER -> <<part>>

MCSpelled ==
    [path \in AllPaths |-> FlattenSeq([i \in DOMAIN path |-> Spelling(path[i])])]

Text(names, including, excluding) ==
    [names |-> names,
     rules |-> [i \in DOMAIN including |-> [exclude |-> FALSE, pattern |-> including[i]]]
               \o [i \in DOMAIN excluding |->
                      [exclude |-> TRUE, pattern |-> excluding[i]]]]

Everything == Text(<<>>, <<>>, <<>>)

\* ns::*, *[*] without **::<b>**, **.x or n without **<b>** but only with
\* a name, all without ns**, ?, the rule **:*x that is not plain, and one in
\* error
MCTexts ==
    {Everything,
     Text(<<>>, <<<<"n", "s", ":", ":", "*">>>>, <<>>),
     Text(<<>>, <<<<"*", "[", "*", "]">>>>,
          <<<<"*", "*", ":", ":", "<", "b", ">", "*", "*">>>>),
     Text(<<<<"s", ":">>>>, <<<<"*", "*", ".", "x">>, <<"n">>>>,
          <<<<"*", "*", "<", "b", ">", "*", "*">>>>),
     Text(<<>>, <<>>, <<<<"n", "s", "*", "*">>>>),
     Text(<<>>, <<<<"?">>>>, <<>>),
     Text(<<>>, <<<<"*", "*", ":", "*", "x">>>>, <<>>),
     Text(<<>>, <<<<"n">>>>, <<<<>>>>)}

MCForms == [text : MCTexts, onlyStatic : BOOLEAN, runtimeToo : BOOLEAN]

\* ns::* again, *.? without **.y, and **]?x** or o with a rule that is
\* dropped, for one of two names
MCQuestionTexts ==
    {Everything,
     Text(<<>>, <<<<"n", "s", ":", ":", "*">>>>, <<>>),
     Text(<<>>, <<<<"*", ".", "?">>>>, <<<<"*", "*", ".", "y">>>>),
     Text(<<<<"a", "[">>, <<"o">>>>,
          <<<<"*", "*", "]", ".", "x", "*", "*">>, <<"o">>>>, <<<<>>>>)}

MCQuestions ==
    [text : MCQuestionTexts, onlyStatic : BOOLEAN, runtimeToo : {FALSE},
     flatten : BOOLEAN, limit : {1, 3}]
      \cup {[text |-> Everything, onlyStatic |-> FALSE, runtimeToo |-> TRUE,
             flatten |-> FALSE, limit |-> limit] : limit \in {0, 3}}
=============================================================================

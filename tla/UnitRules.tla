----------------------------- MODULE UnitRules -----------------------------
(***************************************************************************)
(* Which compile units are left out: the rules in the style of .gitignore  *)
(* that the DWARF reader applies to the path of each unit's source.  A     *)
(* path, a rule and a pattern are sequences of characters.                 *)
(***************************************************************************)
EXTENDS Integers, Sequences, SequencesExt, FiniteSets

Blanks == {" ", "t", "r"}   \* std::isspace: blank, tab, carriage return

\* trim_copy
Trimmed(line) ==
    LET solid == {i \in DOMAIN line : line[i] \notin Blanks}
    IN  IF solid = {} THEN <<>>
        ELSE SubSeq(line, CHOOSE i \in solid : \A j \in solid : i <= j,
                          CHOOSE i \in solid : \A j \in solid : i >= j)

\* normalize_rule_path
Normalized(path) ==
    [i \in DOMAIN path |-> IF path[i] = "\\" THEN "/" ELSE path[i]]

\* Whether ** begins here
IsDouble(pattern, p) ==
    pattern[p] = "*" /\ p < Len(pattern) /\ pattern[p + 1] = "*"

PlaceAfter(pattern, p) == IF IsDouble(pattern, p) THEN p + 2 ELSE p + 1

\* Mutant: one star matches a separator, too.
FittingGreedily(value, pattern, p, rest) ==
    IF pattern[p] = "*" THEN {v \in 1..(Len(value) + 1) : \E next \in rest : v <= next}
    ELSE {v \in 1..Len(value) : v + 1 \in rest /\ pattern[p] \in {value[v], "?"}}

\* The places from which a value is matched by a pattern from p, by the places
\* from which it is by what comes after
Fitting(value, pattern, p, rest) ==
    IF pattern[p] = "*"
    THEN {v \in 1..(Len(value) + 1) :
             \E next \in rest :
                 /\ v <= next
                 /\ IsDouble(pattern, p) \/ \A i \in v..(next - 1) : value[i] # "/"}
    ELSE {v \in 1..Len(value) :
             /\ v + 1 \in rest
             /\ IF pattern[p] = "?" THEN value[v] # "/" ELSE pattern[p] = value[v]}

\* wildcard_match_impl
MatchesFrom(value, pattern) ==
    LET from[p \in 1..(Len(pattern) + 1)] ==
            IF p > Len(pattern) THEN {Len(value) + 1}
            ELSE Fitting(value, pattern, p, from[PlaceAfter(pattern, p)])
    IN  1 \in from[1]

\* wildcard_match: a pattern that starts with **/ matches in the root of the
\* path, too.
WildcardMatch(value, pattern) ==
    \/ MatchesFrom(Normalized(value), Normalized(pattern))
    \/ /\ IsPrefix(<<"*", "*", "/">>, Normalized(pattern))
       /\ MatchesFrom(Normalized(value),
                      SubSeq(Normalized(pattern), 4, Len(pattern)))

\* One round of should_skip_compile_unit's loop: what the rule in a line
\* says of a path, "exclude", "include" or nothing.
Ruling(line, path) ==
    LET rule    == Trimmed(line)
        negated == rule # <<>> /\ rule[1] = "!"
        pattern == IF negated THEN Tail(rule) ELSE rule
    IN  IF \/ rule = <<>> \/ rule[1] = "#"
           \/ pattern = <<>> \/ ~WildcardMatch(path, pattern)
        THEN "nothing"
        ELSE IF negated THEN "include" ELSE "exclude"

\* should_skip_compile_unit: the last rule that matches decides.
SkipUnit(lines, path) ==
    /\ path # <<>>
    /\ FoldLeft(LAMBDA ruling, line :
                    IF Ruling(line, path) = "nothing" THEN ruling
                    ELSE Ruling(line, path),
                "nothing", lines) = "exclude"

-----------------------------------------------------------------------------
(* What the rules mean, stated apart from the way the code matches them:   *)
(* the places in a path that a part of a pattern can lead to.              *)

\* The parts of a pattern: **, *, ? and single characters
WithChar(parts, char) ==
    IF char = "*" /\ parts # <<>> /\ Last(parts) = "*"
    THEN Append(Front(parts), "**") ELSE Append(parts, char)

Parts(pattern) == FoldLeft(WithChar, <<>>, pattern)

Reach(path, part, place) ==
    CASE part = "**" -> place..Len(path)
      [] part = "*"  -> {end \in place..Len(path) :
                             \A i \in (place + 1)..end : path[i] # "/"}
      [] OTHER       -> {place + 1} \cap
                            {i \in DOMAIN path :
                                 IF part = "?" THEN path[i] # "/"
                                 ELSE path[i] = part}

Ways(path, parts) ==
    FoldLeft(LAMBDA places, part : UNION {Reach(path, part, p) : p \in places},
             {0}, parts)

Denotes(pattern, path) == Len(path) \in Ways(path, Parts(pattern))

\* **/ stands for any directories, for none in particular: as if the path
\* began with a separator.
RuleApplies(pattern, path) ==
    IF IsPrefix(<<"*", "*", "/">>, pattern) THEN Denotes(pattern, <<"/">> \o path)
    ELSE Denotes(pattern, path)

\* A unit is left out if the last of the rules that apply to its path
\* excludes.
LeftOut(lines, path) ==
    LET rule(i)    == Normalized(Trimmed(lines[i]))
        negated(i) == rule(i)[1] = "!"
        applying   == {i \in DOMAIN lines :
                           /\ rule(i) \notin {<<>>, <<"!">>}
                           /\ rule(i)[1] # "#"
                           /\ RuleApplies(IF negated(i) THEN Tail(rule(i)) ELSE rule(i),
                                          Normalized(path))}
    IN  \E i \in applying : ~negated(i) /\ \A j \in applying : j <= i
=============================================================================

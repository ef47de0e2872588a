------------------------------ MODULE PathRules ------------------------------
(***************************************************************************)
(* Which paths the texts of a filter accept: the names and path rules of   *)
(* the panel (src/ui/filter_matcher.cc) and those of a static address      *)
(* query (src/analysis/static_address_query.cc), which are two dialects    *)
(* with matchers of their own.                                             *)
(*                                                                         *)
(* A path and a pattern are sequences of characters, in lower case.  A     *)
(* filter is a record of the names it looks for, of which the panel has at *)
(* most one, and of rules: a pattern each, and whether it excludes.        *)
(***************************************************************************)
EXTENDS Integers, Sequences, SequencesExt, Folds
LOCAL INSTANCE UnitRules

-----------------------------------------------------------------------------
(* The panel's matcher: one pass with a mark at the last star, to which it *)
(* comes back.  (The end is tested before a star takes what is left.)      *)

\* Mutant: a star stops at nothing.
ConsumesAll(value, from, to) == TRUE

\* can_single_star_consume
SingleStarConsumes(value, from, to) == \A i \in from..to : value[i] # ":"

NoStar == [pattern |-> 0, value |-> 0, double |-> FALSE]

\* wildcard_match_lowered.  A character that the pattern names is not taken
\* for a star.
RECURSIVE Scan(_, _, _, _, _)
Scan(value, pattern, v, p, star) ==
    LET after == star.pattern + IF star.double THEN 2 ELSE 1
        double == p < Len(pattern) /\ pattern[p + 1] = "*"
    IN  IF v > Len(value)
        THEN \A i \in p..Len(pattern) : pattern[i] = "*"
        ELSE CASE p <= Len(pattern) /\ pattern[p] \in {"?", value[v]} ->
                      Scan(value, pattern, v + 1, p + 1, star)
               [] p <= Len(pattern) /\ pattern[p] = "*" /\ value[v] # "*" ->
                      Scan(value, pattern, v, p + IF double THEN 2 ELSE 1,
                           [pattern |-> p, value |-> v, double |-> double])
               [] OTHER ->
                      /\ star # NoStar
                      /\ star.double \/ SingleStarConsumes(value, star.value, v)
                      /\ Scan(value, pattern, star.value + 1, after,
                              [star EXCEPT !.value = @ + 1])

PanelMatch(value, pattern) == Scan(value, pattern, 1, 1, NoStar)

\* matches_name_query and matches_name_tokens.  The name a node is displayed
\* with is the end of its path.
NameAccepted(names, path) ==
    names = <<>> \/ \E name \in Range(names) :
                        \E i \in 0..(Len(path) - Len(name)) :
                            SubSeq(path, i + 1, i + Len(name)) = name

\* matches_path_rules, in both sources, of the rules that match the path
RulesAccept(rules, matching) ==
    /\ (\E r \in Range(rules) : ~r.exclude) => \E r \in matching : ~r.exclude
    /\ \A r \in matching : ~r.exclude

\* compile_filter_rules: a rule that excludes nothing is an error.
CompileError(filter) == \E r \in Range(filter.rules) : r.pattern = <<>>

PanelAccepts(filter, path) ==
    /\ ~CompileError(filter)
    /\ NameAccepted(filter.names, path)
    /\ RulesAccept(filter.rules,
                   {r \in Range(filter.rules) : PanelMatch(path, r.pattern)})

-----------------------------------------------------------------------------
(* The matcher of a query.                                                 *)

\* glob_match_impl
GlobMatch(text, pattern) ==
    LET match[t \in 1..(Len(text) + 1), p \in 1..(Len(pattern) + 1)] ==
            IF p > Len(pattern) THEN t > Len(text)
            ELSE IF pattern[p] = "*"
            THEN LET recursive == p < Len(pattern) /\ pattern[p + 1] = "*"
                     after     == p + IF recursive THEN 2 ELSE 1
                 IN  IF after > Len(pattern)
                     THEN recursive \/ \A i \in t..Len(text) : text[i] # "."
                     ELSE \E next \in t..(Len(text) + 1) :
                              /\ recursive \/ \A i \in t..(next - 1) : text[i] # "."
                              /\ match[next, after]
            ELSE /\ t <= Len(text)
                 /\ IF pattern[p] = "?" THEN text[t] # "." ELSE pattern[p] = text[t]
                 /\ match[t + 1, p + 1]
    IN  match[1, 1]

\* compile_path_rules drops a rule that excludes nothing.
QueryAccepts(filter, path) ==
    LET rules == SelectSeq(filter.rules, LAMBDA r : r.pattern # <<>>)
    IN  /\ NameAccepted(filter.names, path)
        /\ RulesAccept(rules, {r \in Range(rules) : GlobMatch(path, r.pattern)})

-----------------------------------------------------------------------------
(* What a pattern means, stated apart from the way it is matched: the      *)
(* places in the path that each of its parts can lead to.  A single star   *)
(* stops at a barrier; what ? stands for differs.                          *)

PanelDialect == [barrier |-> ":", notAny |-> {}]
QueryDialect == [barrier |-> ".", notAny |-> {"."}]

Leads(dialect, path, part, place) ==
    CASE part = "**" -> place..Len(path)
      [] part = "*"  -> {end \in place..Len(path) :
                             \A i \in (place + 1)..end : path[i] # dialect.barrier}
      [] part = "?"  -> {i \in {place + 1} \cap DOMAIN path : path[i] \notin dialect.notAny}
      [] OTHER       -> {i \in {place + 1} \cap DOMAIN path : path[i] = part}

Covers(dialect, path, pattern) ==
    Len(path) \in FoldLeft(
        LAMBDA places, part : UNION {Leads(dialect, path, part, p) : p \in places},
        {0}, Parts(pattern))

Wanted(dialect, filter, path) ==
    LET Applying(excluding) == {r \in Range(filter.rules) :
            /\ r.exclude = excluding /\ r.pattern # <<>>
            /\ Covers(dialect, path, r.pattern)}
    IN  /\ NameAccepted(filter.names, path)
        /\ Applying(TRUE) = {}
        /\ Applying(FALSE) # {} \/ \A r \in Range(filter.rules) : r.exclude

\* The panel comes back to the last star only, so it may miss what it should
\* find behind an earlier one that reaches further: * behind ** (and ? for
\* a separator behind *).
IsPlain(pattern) ==
    LET parts == Parts(pattern)
    IN  \A i, j \in DOMAIN parts :
            i < j => /\ parts[i] = "**" => parts[j] # "*"
                     /\ parts[i] = "*"  => parts[j] # "?"
=============================================================================

---------------------------- MODULE VariableViews ----------------------------
(***************************************************************************)
(* What is done with the tree of a model's variables: the GUI draws it,    *)
(* filters it and exports what the filter left; a program that uses the    *)
(* library asks for static addresses, through a session that keeps the     *)
(* answer to its last question.  All of them expand lazy nodes again, each *)
(* in its own way, and should agree on what there is and where it lies.    *)
(*                                                                         *)
(* What the names and path rules of a filter accept (PathRules) depends on *)
(* nothing but a node's path, and is looked up in tables of the paths that *)
(* there may be.                                                           *)
(***************************************************************************)
EXTENDS TypeTree, PathRules, FiniteSets

CONSTANTS
    Programs,  \* what files hold: records of types and variables
    Policies,  \* what the configuration may say
    Spelled,   \* the characters of every path
    Forms,     \* the filters the user may set up
    Questions, \* the options a library user may ask with
    Memory     \* how many nodes a query can hold; beyond, std::bad_alloc

VARIABLES
    client,   \* who uses the model: "gui" or "library"
    program,  \* types and symbols of project_model
    policy,   \* AppState::load_policy
    built,    \* the policy that project_model was expanded under
    roots,    \* project_model->expanded
    form,     \* the form the filter cache was built from
    visible,  \* FilterCache::visible_paths
    session,  \* StaticAddressQuerySession::Impl
    answer,   \* the last question and what query returned or threw
    aborted   \* the options of a query that ended in std::bad_alloc

modelVars == <<client, program, policy, built, roots>>
vars == <<client, program, policy, built, roots, form, visible, session, answer,
          aborted>>

Types == program.types

\* Before a filter is built nothing is visible, as with rules in error.
NoText    == [names |-> <<>>, rules |-> <<[exclude |-> TRUE, pattern |-> <<>>]>>]
NoForm    == [text |-> NoText, onlyStatic |-> FALSE, runtimeToo |-> FALSE]
NoOptions == [text |-> NoText, onlyStatic |-> FALSE, runtimeToo |-> FALSE,
              flatten |-> FALSE, limit |-> 0]

NewSession == [valid |-> FALSE, signature |-> NoOptions, cached |-> <<>>]

-----------------------------------------------------------------------------
(* The filter.                                                             *)

TableOf(texts, Test(_, _)) ==
    [text \in texts |-> {path \in DOMAIN Spelled : Test(text, Spelled[path])}]

FilterTexts == {NoText} \cup {f.text : f \in Forms}
QueryTexts  == {NoText} \cup {options.text : options \in Questions}

\* The tables of what the code accepts
InPanel == TableOf(FilterTexts, PanelAccepts)
InQuery == TableOf(QueryTexts, QueryAccepts)

Checked(node, rules) ==
    /\ rules.onlyStatic => node.availability = "StaticAddressKnown"
    /\ ~rules.runtimeToo =>
         node.availability \notin {"RuntimeOnly", "OptimizedOut"}

\* matches_filter_state
Matches(node, rules) ==
    Checked(node, rules) /\ node.path \in InPanel[rules.text]

\* remember_visible_path_and_ancestors: the path is cut where a part begins,
\* scopes of the variable included.
PathAndAncestors(path) == {SubSeq(path, 1, i) : i \in 1..Len(path)}

\* collect_visible_paths: through what is expanded, and what it would be if
\* it were expanded again.
RECURSIVE VisibleFrom(_, _)
VisibleFrom(node, rules) ==
    LET below == ToSet(node.children)
                   \cup IF node.lazy
                        THEN ToSet(ExpandChildren(Types, policy, node))
                        ELSE {}
    IN  (IF Matches(node, rules) THEN PathAndAncestors(node.path) ELSE {})
          \cup UNION {VisibleFrom(child, rules) : child \in below}

\* render_tree_node, with every row opened that can be.
RECURSIVE RowsFrom(_)
RowsFrom(node) ==
    IF node.path \notin visible THEN {}
    ELSE {node} \cup UNION {RowsFrom(child) : child \in
                              ToSet(ChildrenOf(Types, policy, node))}

Rows == UNION {RowsFrom(root) : root \in ToSet(roots)}

-----------------------------------------------------------------------------
(* Exports.                                                                *)

\* The expander of collect_filtered_roots.
ExportPolicy == [policy EXCEPT !.lazy = FALSE]

\* expand_lazy_descendants
RECURSIVE ExpandDescendants(_)
ExpandDescendants(node) ==
    LET children == ChildrenOf(Types, ExportPolicy, node)
    IN  [node EXCEPT !.lazy = FALSE,
                     !.children = [i \in DOMAIN children |->
                                     ExpandDescendants(children[i])]]

\* Mutant: a matching node stands for itself only.
RECURSIVE ExportMatches(_)
ExportMatches(node) ==
    IF node.path \notin visible THEN {}
    ELSE {node} \cup UNION {ExportMatches(child) : child \in
                              ToSet(ChildrenOf(Types, ExportPolicy, node))}

\* filter_export_node, as the set of the nodes exported: with a matching
\* node all that is below it, and of others what is visible.
RECURSIVE ExportFrom(_)
ExportFrom(node) ==
    IF node.path \notin visible THEN {}
    ELSE IF Matches(node, form) THEN Subtree(ExpandDescendants(node))
    ELSE {node} \cup UNION {ExportFrom(child) : child \in
                              ToSet(ChildrenOf(Types, ExportPolicy, node))}

\* collect_filtered_roots for a cache that is valid.
FilteredExport == UNION {ExportFrom(root) : root \in ToSet(roots)}

\* The record of a node in a light-weight export (collect_expanded_nodes),
\* and what all views may be compared by.
Fact(node) == [path |-> node.path, address |-> node.address]

-----------------------------------------------------------------------------
(* Queries.                                                                *)

\* make_expander: everything at once.
QueryPolicy == [policy EXCEPT !.lazy = FALSE, !.depth = 0]

ExpandsInQuery(node, options) ==
    \/ node.kind = "Array"
    \/ options.flatten /\ node.kind \in Composite

\* Mutant: the limit holds for members as well as for elements.
FirstOfAnyKind(children, node, limit) ==
    SubSeq(children, 1, IF Len(children) < limit THEN Len(children)
                                                 ELSE limit)

FirstElements(children, node, limit) ==
    IF node.kind = "Array" /\ Len(children) > limit
    THEN SubSeq(children, 1, limit) ELSE children

\* flatten_expanded_node: a path that was met before is left out, with all
\* that is below it.
RECURSIVE Flatten(_, _, _)
Flatten(output, node, options) ==
    IF \E i \in DOMAIN output : output[i].path = node.path THEN output
    ELSE IF ~ExpandsInQuery(node, options)
    THEN Append(output, node)
    ELSE FoldLeft(LAMBDA nodes, child : Flatten(nodes, child, options),
                  Append(output, node),
                  FirstElements(ChildrenOf(Types, QueryPolicy, node), node,
                                options.limit))

Flattened(options) ==
    FoldLeft(LAMBDA nodes, root : Flatten(nodes, root, options), <<>>, roots)

\* should_emit_node
Emits(node, options) ==
    /\ node.address # Absent
    /\ options.onlyStatic => node.availability = "StaticAddressKnown"
    /\ ~options.runtimeToo => node.availability # "RuntimeOnly"
    /\ node.availability \notin {"Unavailable", "OptimizedOut"}

\* What the last part of query makes of the flattened nodes.
Results(nodes, options) ==
    LET accepted == SelectSeq(nodes, LAMBDA node :
                        node.path \in InQuery[options.text] /\ Emits(node, options))
    IN  [i \in DOMAIN accepted |-> Fact(accepted[i])]

\* Mutant: the option that came last is not part of the signature.
ComparesAllButFlatten(options) ==
    session.valid
        /\ [session.signature EXCEPT !.flatten = options.flatten] = options

\* QuerySignature::matches
SameQuestion(options) == session.valid /\ session.signature = options

-----------------------------------------------------------------------------
(* Actions.                                                                *)

ViewsInit ==
    /\ client \in {"gui", "library"}
    /\ program \in Programs
    /\ policy \in Policies
    /\ built = policy
    /\ roots = <<>>
    /\ form = NoForm
    /\ visible = {}
    /\ session = NewSession
    /\ answer = [options |-> NoOptions, outcome |-> "none", results |-> <<>>]
    /\ aborted = NoOptions

\* A file is loaded and expanded (ProjectLoader::dump), or a snapshot brings
\* a tree that was expanded under another configuration.  What was made from
\* the previous model is given up.
Load(loaded, filePolicy) ==
    /\ program' = loaded
    /\ built' = filePolicy
    /\ roots' = Build(loaded.types, filePolicy, loaded.variables)
    /\ form' = NoForm
    /\ visible' = {}
    /\ session' = NewSession
    /\ answer' = [options |-> NoOptions, outcome |-> "none", results |-> <<>>]
    /\ aborted' = NoOptions
    /\ UNCHANGED <<client, policy>>

\* build_filter_cache and apply_filter_build_result
Filter(newForm) ==
    /\ client = "gui"
    /\ form' = newForm
    /\ visible' = UNION {VisibleFrom(root, newForm) : root \in ToSet(roots)}
    /\ UNCHANGED <<modelVars, session, answer, aborted>>

Answer(options, outcome, results) ==
    answer' = [options |-> options, outcome |-> outcome, results |-> results]

\* query refuses a limit of zero before it does anything else.
Refuse(options) ==
    /\ options.limit = 0
    /\ Answer(options, "refused", <<>>)
    /\ UNCHANGED <<session, aborted>>

AnswerAgain(options) ==
    /\ options.limit # 0
    /\ SameQuestion(options)
    /\ Answer(options, "returned", session.cached)
    /\ UNCHANGED <<session, aborted>>

AnswerAnew(options) ==
    /\ options.limit # 0
    /\ ~SameQuestion(options)
    /\ LET nodes == Flattened(options) IN
       /\ Len(nodes) <= Memory
       /\ session' = [valid |-> TRUE, signature |-> options,
                      cached |-> Results(nodes, options)]
       /\ Answer(options, "returned", Results(nodes, options))
    /\ aborted' = NoOptions

\* The expansion throws: the signature has been replaced, the results have
\* not.
RunOutOfMemory(options) ==
    /\ options.limit # 0
    /\ ~SameQuestion(options)
    /\ Len(Flattened(options)) > Memory
    /\ session' = [session EXCEPT !.signature = options]
    /\ Answer(options, "threw", <<>>)
    /\ aborted' = options

\* StaticAddressQuerySession::query
Query(options) ==
    /\ client = "library"
    /\ roots # <<>>
    /\ \/ Refuse(options) \/ AnswerAgain(options)
       \/ AnswerAnew(options) \/ RunOutOfMemory(options)
    /\ UNCHANGED <<modelVars, form, visible>>

ViewsNext ==
    \/ \E loaded \in Programs, filePolicy \in Policies :
           Load(loaded, filePolicy)
    \/ \E newForm \in Forms : Filter(newForm)
    \/ \E options \in Questions : Query(options)

ViewsSpec == ViewsInit /\ [][ViewsNext]_vars
-----------------------------------------------------------------------------
(* Properties.                                                             *)

(* What there is: the layout of the variables, level by level, with exact  *)
(* addresses.  A node of the layout knows on top of its fact whether all   *)
(* addresses on the way to it fit into 64 bits (fits), its level, whether  *)
(* a sibling before it or before an ancestor has the same path (shadowed), *)
(* whether an ancestor is composite (inside), and the greatest index on    *)
(* the way.                                                                *)

\* The variable that represents its path.
Represents(i) ==
    LET variables == program.variables
        same == {j \in DOMAIN variables :
                   /\ Emitted(variables[j], built)
                   /\ variables[j].path = variables[i].path}
        known == {j \in same :
                   variables[j].availability = "StaticAddressKnown"}
    IN  /\ i \in same
        /\ \A j \in IF known = {} THEN same ELSE known : i <= j
        /\ known # {} => i \in known

TopLevel ==
    {LET variable == program.variables[i]
     IN  [path |-> variable.path, type |-> variable.type,
          availability |-> variable.availability, exact |-> variable.address,
          fits |-> variable.address # Absent, level |-> 0,
          shadowed |-> FALSE, inside |-> FALSE, index |-> 0] :
        i \in {j \in DOMAIN program.variables : Represents(j)}}

Below(parent, part, type, availability, offset) ==
    [path |-> Append(parent.path, part), type |-> type,
     availability |-> availability, exact |-> parent.exact + offset,
     fits |-> parent.fits /\ parent.exact + offset \in Unsigned,
     level |-> parent.level + 1,
     shadowed |-> parent.shadowed,
     inside |-> parent.inside \/ Types[parent.type].kind \in Composite,
     index |-> parent.index]

NextLevel(parent) ==
    IF parent.type \notin DOMAIN Types THEN {}
    ELSE LET type == Types[parent.type] IN
      CASE type.kind = "Array" /\ type.elem \in DOMAIN Types ->
             {[Below(parent, "[" \o ToString(i) \o "]", type.elem,
                     parent.availability, i * Stride(Types, type))
                 EXCEPT !.index = IF i > @ THEN i ELSE @] :
                i \in 0..(ElementCount(type) - 1)}
        [] type.kind \in Composite ->
             {[Below(parent, "::<base>", type.bases[i].type,
                     "StaticLayoutKnown", type.bases[i].offset)
                 EXCEPT !.shadowed = @ \/ i > 1] : i \in DOMAIN type.bases}
             \cup
             {[Below(parent, "." \o type.members[i].name,
                     type.members[i].type, type.members[i].availability,
                     type.members[i].offset)
                 EXCEPT !.fits = @ /\ type.members[i].located,
                        !.shadowed = @ \/ \E j \in 1..(i - 1) :
                            type.members[j].name = type.members[i].name] :
                i \in DOMAIN type.members}
        [] OTHER -> {}

RECURSIVE WithLevelsBelow(_)
WithLevelsBelow(level) ==
    IF level = {} THEN {}
    ELSE level \cup WithLevelsBelow(UNION {NextLevel(node) : node \in level})

Layout == IF roots = <<>> THEN {} ELSE WithLevelsBelow(TopLevel)

TrueFact(node) ==
    [path |-> node.path,
     address |-> IF node.fits THEN node.exact ELSE Absent]

\* What the texts mean
MeantInPanel == TableOf(FilterTexts, LAMBDA text, path :
                    ~CompileError(text) /\ Wanted(PanelDialect, text, path))
MeantInQuery == TableOf(QueryTexts, LAMBDA text, path : Wanted(QueryDialect, text, path))

\* A node that the form of the panel asks for
IsMeant(node) == Checked(node, form) /\ node.path \in MeantInPanel[form.text]

IsPlainText(text) == \A r \in Range(text.rules) : IsPlain(r.pattern)

Facts(nodes) == {Fact(node) : node \in nodes}

Deep(depth, node) == depth = 0 \/ node.level <= depth

\* How deep a view that expands lazy nodes under policy gets, by eager and by
\* lazy expansion.
ExportDepth == IF built.lazy THEN policy.depth ELSE built.depth
ViewDepth   == IF built.lazy /\ policy.lazy THEN 0 ELSE ExportDepth

\* Every part of the state is of its type; top-level nodes have one path
\* each, and only a tree that was built lazily has lazy nodes.
ViewsTypeOK ==
    /\ client \in {"gui", "library"}
    /\ program \in Programs /\ {policy, built} \subseteq Policies
    /\ form \in Forms \cup {NoForm}
    /\ \A i, j \in DOMAIN roots : roots[i].path = roots[j].path => i = j
    /\ \A node \in UNION {Subtree(root) : root \in ToSet(roots)} :
         /\ node.availability \in Availabilities
         /\ node.address \in Unsigned \cup {Absent}
         /\ node.lazy => built.lazy
    /\ {answer.options, aborted, session.signature}
         \subseteq Questions \cup {NoOptions}
    /\ answer.outcome \in {"none", "returned", "refused", "threw"}

\* Whatever was expanded at once or later, under whichever policy, and
\* whether it is drawn, exported or returned by a query: a node has the
\* address that the layout of the types gives it, and none if an address on
\* the way to it does not exist or does not fit into 64 bits.
ViewsAgreeWithLayout ==
    LET truth == {TrueFact(node) : node \in Layout}
    IN  /\ \A root \in ToSet(roots) : Facts(Subtree(root)) \subseteq truth
        /\ Facts(Rows) \subseteq truth
        /\ Facts(FilteredExport) \subseteq truth
        /\ ToSet(answer.results) \subseteq truth

\* Every node that the filter asks for can be reached in the panel by opening
\* rows: its ancestors are shown, elements and bases among them, and a lazy
\* tree has no end.  (Rules with * behind ** are left out, here and below:
\* the panel's matcher misses paths they mean.)
MatchesAreReachable ==
    LET shown == Facts(Rows)
    IN  IsPlainText(form.text) =>
          \A node \in Layout :
            IsMeant(node) /\ Deep(ViewDepth, node)
              => TrueFact(node) \in shown

\* Neither view shows what was not asked for: a row is a match or leads to
\* one, and a query returns only what its names and rules mean, which are
\* of another dialect than the panel's.
ViewsFollowRules ==
    /\ IsPlainText(form.text) =>
          \A row \in Rows : \E node \in Layout :
              IsMeant(node) /\ IsPrefix(row.path, node.path)
    /\ answer.options # aborted =>
          \A result \in ToSet(answer.results) :
            result.path \in MeantInQuery[answer.options.text]

\* The filtered export holds every match down to the depth it expands to,
\* and what is below a match.
ExportHoldsMatches ==
    LET exported == Facts(FilteredExport)
        matches  == {node \in Layout : IsMeant(node)}
    IN  IsPlainText(form.text) =>
          \A match \in matches, node \in Layout :
            IsPrefix(match.path, node.path) /\ Deep(ExportDepth, node)
              => TrueFact(node) \in exported

\* An answer from the cache is the one that a new session would give, unless
\* memory ran out over just these options and the cache was not filled since.
SessionAnswersFresh ==
    answer.outcome = "returned" /\ answer.options # aborted
        => answer.results = Results(Flattened(answer.options), answer.options)

\* What a query gets to: all of a lazy tree, an eager one as far as it was
\* built, into objects if it is asked to, not beyond the limit, and only the
\* first of several siblings with one path.
Reached(options) ==
    {node \in Layout :
        /\ built.lazy \/ Deep(built.depth, node)
        /\ node.inside => options.flatten
        /\ node.index < options.limit
        /\ ~node.shadowed}

\* A query finds everything that its options ask for, except elements beyond
\* the limit and what shares its path with a sibling before it.
QueryIsComplete ==
    answer.outcome = "returned" /\ answer.options # aborted
        => {TrueFact(node) : node \in
              {reached \in Reached(answer.options) :
                 /\ reached.path \in MeantInQuery[answer.options.text]
                 /\ Emits(TrueFact(reached) @@ reached, answer.options)}}
             \subseteq ToSet(answer.results)

\* "... so that obj.member can be hit by the name of the parent object"
\* (static_address_query.cc:272).  Violated: the default options ask for
\* StaticAddressKnown, and a member is never more than StaticLayoutKnown.
MembersAreHitByParent ==
    answer.outcome = "returned" /\ answer.options # aborted
        => \A object, member \in Reached(answer.options) :
             /\ TrueFact(object) \in ToSet(answer.results)
             /\ IsPrefix(object.path, member.path)
             /\ member.path \in MeantInQuery[answer.options.text]
             /\ member.fits
             => TrueFact(member) \in ToSet(answer.results)
=============================================================================

# ElfStaticView in TLA+

ElfStaticView analyses ELF and TI COFF files and shows the static variables
that their DWARF describes: their types, expanded member by member, and their
addresses. A command line tool prints them; a GUI shows, filters, exports and
imports them. This directory models the program in TLA+, checks the models
with TLC on small instances and proves theorems about them with TLAPS.

The part of the program that is hard to test is the GUI's core: one UI thread,
a run loop that sleeps, and workers whose results come back late, out of order
or never. The analysis of debug information is sequential; what is hard about
it is in the order of its passes, in recursion over types that refer to each
other, and in numbers from a file that may be broken. The configuration file
is shared by processes that know nothing of each other. The models cover all
three.

Contents: [inventory](#inventory), [plan](#plan), [the models](#the-models),
[the runs](#the-runs), [divergences found](#divergences-found),
[the proofs](#the-proofs), [limits](#limits).

## Inventory

All paths are below `src/src/`.

| Component | State it keeps | Operations | What makes it correct |
|---|---|---|---|
| Filter: `ui/filter_matcher.cc`, parts of `ui/application.cc` | `FilterState`: form, debounce time, running builds, cache, errors | edit text or options, start a build, receive its result or error, show the tree | a tree is only shown for the present model and form; "filtering" ends; builds do not pile up |
| Task runner: `ui/ui_task_runner.cc`, `UiTaskState` in `ui/app_state.cc` | slots by key, next id; a displayed state per key | submit, poll; begin, finish, fail | both records describe the same task; a superseded result is not taken for the new one |
| Content: loads, imports, monitor: `ui/application.cc`, `ui/app_state.cc` | loaded model, its path and kind, `BackgroundLoadState`, `OpenedFileMonitorState`, pending paths | open, drop, import; finish and fail; watch, check, reopen | content, path, title and monitor are of one file; superseded work is never shown; "loading" ends; a rebuilt file is opened again |
| JSON preview: `ui/application.cc`, `ui/main_window.cc` | text, error, dirty flag, cache key | toggle, select, start, receive | the visible text is that of the present content and selection |
| Run loop: `ui/application.cc` | `needs_redraw_`, posted events, scale, deadline | poll everything, wait, render one frame | no finished work is left unseen; the order of polls does not matter to what the user ends up with |
| Main window: `ui/main_window.cc` | dialogs, selection | draws and turns clicks into changes of the state | guards of menu entries; changes noticed by the preview |
| Address bias: `analysis/address_bias.cc` | none | parse, apply to absolute and relative addresses | no wrap-around: an exact sum or nothing |
| Version check, configuration: `ui/version_check.cc` | check state, `elf-static-view.yaml` | resolve, compare, parse a response, load, save | versions are ordered by their numbers; what is saved comes back, and a save keeps what its user did not touch |
| Expander: `analysis/expander.cc` | recursion: depth and path | expand a type, expand children on demand | one node per variable; addresses without overflow; lazy and eager agree |
| Address query: `analysis/static_address_query.cc` | a session with the answer to its last question | compile rules, match, flatten, query | a cached answer is the one a fresh session would give; nothing asked for is missing and nothing else is returned |
| Export documents: `analysis/export_document.cc`, `model_json.cc` | cursor of the binary reader | render, parse, build a model from a light-weight export | what is written is read back; no read past the end |
| Project loading: `analysis/project.cc` | none | the readers in order | one file, one model |
| DWARF reader: `elf/dwarf_reader.cc` | type map, variables, scopes, units of `.debug_types` | choose units by rules, walk the DIEs, read type units, apply symbols, de-duplicate, prune | types closed under reference; no static variable lost; each address from a source |
| DWARF expressions: `elf/dwarf_expression.cc` | stack, cursor | decode a location, a member offset | the exact number or none: widths, stack bounds, end of input |
| DWARF wrappers, raw reader: `elf/dwarf_wrappers.cc`, `elf/raw_dwarf_reader.cc` | handles of libdwarf | attribute access, raw dump | resource handling |
| ELF symbols, TI COFF: `elf/elf_symbol_table.cc`, `elf/ti_coff_object.cc` | none | parse tables | bounds of single reads |
| Command line: `entry.cc`; platform: `ui/startup_diagnostics.cc`, `ui/file_dialogs.cc`, `logging/` | none | plumbing | – |

How they interact. `Application::run` is the only loop. A pass calls
`poll_background_tasks`, which collects the background load, starts and
collects filter builds, starts what the user asked for in the last frame, polls
the task runner for every key and checks the monitored file; then the loop
waits if nothing asks for a redraw; then it renders a frame, in which
`MainWindow` writes the user's input into `AppState`. Workers share nothing
with the UI thread but an immutable model and their future. They post no event
when they end: the loop notices them at its next pass, which comes within a
second if a file is monitored, and otherwise when the user does something. GLFW
calls the drop handler from inside the wait. The one place where the UI thread
blocks on a worker is the destructor of a future that is overwritten.

What is hard, then: results out of order and superseded work; state in two
records that must agree; state reset in several places by a new content; a
monitor that sees the file system only in samples; waits without a timeout.
And, below the GUI: a recursive walk that records types where it meets them
first and changes its scopes on the way; several passes over one list of
variables whose order decides what is left; numbers of 64 bits read from bytes;
pattern matchers of three dialects; a file that is read, merged and rewritten
in place.
`PROJECT.json` lists the hazards with their lines and the properties that cover
them.

## Plan

Order: what is concurrent first, then what is algorithmic, then what is
numeric.

Done:

1. `FilterView`, `FilterPipeline`, `TaskRunner`, `ContentLoading`,
   `JsonPreview`, `Application`, with runs, and the proofs about them.
2. `Arithmetic` with its proofs, `TypeTree` (the expander) and
   `VariableViews` (panel, filter, filtered export and address query over the
   tree of the expander).
3. `PathRules`: names and path rules of panel and query, whose texts
   `VariableViews` takes as they are.
4. `DwarfExpression` on top of `Arithmetic`, with its proofs; `UnitRules`;
   `TypeUnits`; and `DwarfReader`, which composes them: the walk, the types,
   the variables and the passes over their list.
5. `ConfigFile`: several processes and a user at `elf-static-view.yaml`, and the
   comparison of versions, with the proofs about the file.
6. That `Application` is a step of each of its components or leaves it alone,
   so that their invariants hold in the run loop; `PreviewIsCurrent` there; and
   that the walk of the reader closes its types (`TypesAreClosed`).
7. Lists: induction and folds as facts about sets (`ListProofs`), and with them
   the passes over the variables (`PlaceholdersGiveWay`), the rules for units
   (`UnitsFollowRules`), the comparison of versions (`NewVersionIsNewer`) and the
   decoding of expressions (`OperandsAreExact`, `BreaksForAReason`).
8. Where addresses come from (`AddressesHaveASource`), from the invariant of the
   decoding and one about the tasks of a variable.

Left:

9. Light-weight imports, with the names `make_unique_lightweight_path` gives.

Abstract specifications: `FilterView` for the panel; for the tree, the layout
of the types with exact addresses (`Layout` in `VariableViews`); for a query
session, a query that always expands afresh (`SessionAnswersFresh`); for an
evaluator, one without limits that runs next to it (`exact` in
`DwarfExpression`); for a pattern, the places each of its parts can lead to
(`Covers` in `PathRules`, `Denotes` in `UnitRules`).

## The models

`FilterView` states what the variable panel promises: a tree of the present
model and form, or progress, or a failure; each load and each edit withdraws
what is shown. `FilterPipeline` is the code: the form, its debounce
(`pending`, `debounced`), `filters.tasks` with the state of every future,
`active_task_id`, the cache and the error. The result of a build is the pair of
model and form it was built from, since `build_filter_cache` is a function of
these; so "the tree of an earlier form" is a value of its own. `PanelView`
translates `render_variables_panel`, and is the refinement mapping.

`TaskRunner` keeps the two records of a task: `slots` (the map in
`UiTaskRunner`, with the state of the future) and `uiTasks` (`UiTaskState`).
`Start` is `submit` with `begin_ui_task`, `Collect` is `poll` with
`finish_ui_task` or `fail_ui_task`. `joining` holds a task whose future was
overwritten: until it ends, the UI thread takes no step.

`ContentLoading` extends it with the background load, the import, the monitor
and the file system. A file is a path and a version; a load or import carries
what it read, so the model can say that content and name belong together. The
kind of a file (`DataFiles`) and what its name suggests (`DataNames`) are
independent, as a renamed data file shows. `background` is
`enable_background_loading`. `LoadFile(path, watch)` takes the monitor as it
is after the caller's own changes; new content replaces it, as
`watch_opened_file` does. Each action is the whole handler: `CollectLoad`
includes `finish_background_load` and `set_loaded_project`. Checks are a
second apart (`kOpenedFileCheckInterval`), so the 300 ms a file has to be
stable have always passed at the next check and are not modelled apart.

`JsonPreview` adds the preview: `Source` is what it has to show, `CacheKey`
what the code compares, `rendering` what the last task captured. A node that
is expanded lazily is not found again by its path (`Resolved`), as in
`selected_node_json`.

`Application` composes all of them under the run loop. `pc` is the place of the
UI thread in a pass, `Phase` the order of the polls; a step jumps over the
polls that have nothing to do (`Reaches`), which is what those polls do.
`FollowContent` ties the parts together: where the content changes, filter and
preview are reset in the same step. `posted` is GLFW's empty event. The
path an export is written to is abstracted to that of the content. Raw DWARF
export and version check are two more keys of the same runner whose results
touch no shared state but their own, and are left out.

`Arithmetic` has the checked operations of the expander and the address bias,
with 2^63 as the constant `HalfRange`. `TypeTree` is the expander on top of
it: `ExpandType` is `expand_type`, `ExpandChildren` the expansion of a lazy
node, `Build` with `KeepBetter` the reduction of the records of one variable to
one node. A path is the sequence of its parts. Types are records in a table; a
reference to an id outside of it is a type that was not read.

`VariableViews` puts the users of that tree next to each other. `Load` gives
the tree of one policy, from the configuration or from a snapshot that was made
under another; `Filter` is a build of the filter cache taken as a whole (its
interleavings are `FilterPipeline`); `Rows` is what can be opened in the panel,
`FilteredExport` what an export of the filter result writes, `Query` one call
of a `StaticAddressQuerySession` with its four outcomes. `client` says whether
GUI or library uses the model, since no program does both. The reference,
`Layout`, is defined apart from the expander: level by level, with exact sums
in place of checked ones, no depth, and for each node what a view may take into
account (its level, whether an earlier sibling has its path). Only the stride
of an array is taken from the code in both.

`PathRules` has the two dialects of a filter's texts. `Scan` is the panel's
`wildcard_match_lowered`, which goes over the text once and comes back to its
last star only; `GlobMatch` is the recursive `glob_match_impl` of the query;
`NameAccepted` and `RulesAccept` are what both make of a name and of including
and excluding rules; a rule that excludes nothing is a `CompileError` in the
panel and dropped in a query. `Covers` says what a pattern means, without
matching: the set of places in the path that its parts can lead to. Text is
in lower case and without comment lines. `VariableViews` spells each path
(`Spelled`) and looks up both in tables, since neither depends on anything but
path and text. The properties of `VariableViews` are stated by the meaning
(`IsMeant`, `MeantInQuery`), not by what the code accepts.

`DwarfExpression` decodes a sequence of bytes, one operation a step, and
evaluates what says where a member lies, one operation a step. `SignBit` is the
highest bit of a group of a LEB128 number (0x40 in DWARF), so that a group has
2 * `SignBit` values and a byte twice as many; `Groups` is how many of them a word
of 2 * `HalfRange` values takes (10). In the run all three are small, so that both
ends of each number are near. `Opcodes` says which byte is which operation.
`exact` is a history variable: the same operations on numbers without limits
and with any multiple of the object's address. `LebValue`, `FixedValue` and the
rest of the section of properties define the numbers apart from the loops that
read them.

`UnitRules` is `should_skip_compile_unit` with its matcher, over the characters
of rules and paths.

`TypeUnits` is the reader's own parser of `.debug_types`: the entries of a unit
one after another, with a stack (`parents`) for the functions that call each
other; then the resolution of local offsets and of signatures. An entry that
throws ends its unit (`ReadUnits`), and nothing of it stays.

`DwarfReader` is `DwarfReader::load`. `agenda` is the stack of calls that are
still to be made, each a task with what it needs: `WalkDie` with `NextChild` and
`LeaveScope` is `walk_die_tree`; `EnsureType` with `RecordType` and
`TypeEnsured` is `ensure_type_recorded`, which walks a type's DIE where a
reference to it is met; `PlaceMember` is the body of the loop over members and
bases; `MaterializeType` is
`materialize_manual_signature_type_id`; `BeginVariable`, `LocateVariable`,
`InheritName`, `InheritLocation` and `StoreVariable` are `parse_variable` with
what it takes over from DIEs it refers to. An expression on the way is decoded
and evaluated by the steps of `DwarfExpression`, which share the state. After
the units come the passes over the list, one action each, in their order:
`ApplySymbols`, `Deduplicate`, `PruneLocals`, `PrunePlaceholders`. DIEs, attributes and symbols are records
in `file`, as libdwarf and the symbol table return them. A type id is a pair that
says where it comes from, a DIE (`DieId`), a key of a type unit (`KeyId`) or a type
nested in one (`NestedId`), since the texts of the code differ exactly there. A
file is `IsFile`: its trees are made of its DIEs.

`ConfigFile` has processes that start, change a setting and save it, end, or are
ended, and a user who edits the file. A save is what it is in the code: the file
is read and merged (`SaveReads`), opened and cut (`SaveOpens`), written
(`SaveWrites`), any of which may fail or break off. Two processes interleave, and
each writes from the beginning of the file whatever is there by then
(`Overwritten`): the end of a longer text stays behind a shorter one, adds keys,
spoils a value or makes the file unreadable (`Mixtures`, `Spoilt`). `Loaded` is
`load_app_config`, key by key in its order, up to the first value whose reader
throws (`Throws`, `LoadStops`). Nine keys stand for all: the address for the version
check (and the repository's, which is read alike), the two of `copy`, the numbers
of `ui`, the flags and the depth of `load_policy`, its rules, the limit of `export`, and
the two of `address_bias`. A value that its reader does not take is `Bad`, a list or
a map `Nested`, and `Flat` a single value where the section of a key should be, into
which no save can write (`SaveThrows`). `stale`, `touched` and `settled` are
history: whether others changed the file since the process read it, what its
user changed, and the last complete save, with whether it wrote `over` the text of
another. `CompareVersions` is
`compare_versions_impl` character by character; a part of a version is a number
below `PartRange` (2^64, 64 in the run), and a larger one wraps around.

Mutants: an operator with a comment that begins with "Mutant" is a plausible
bug of the definition that follows it, and is part of no specification. Each
property of a passing run is violated when one of them takes its place.

## The runs

| Run | Module, configuration | What it shows |
|---|---|---|
| `filter` | `MCFilterPipeline` | safety, refinement of `FilterView`, settling and draining of the builds |
| `filter_failure` | same, `MCFilterFailure.cfg` | violated: a failed build is not shown |
| `content` | `MCContentLoading` | seven properties of loads, imports and monitor |
| `rebuild_signal` | same, `MCRebuildSignal.cfg` | violated: a rebuild during a load is forgotten |
| `application` | `MCApplication` | the preview is current, and everything settles, under the real loop |
| `filtered_export` | same, `MCFilteredExport.cfg` | violated: unfiltered export of a filter result |
| `views` | `MCVariableViews` | panel, filtered export and query agree with the layout and with the meaning of the rules; the session's cache is invisible |
| `query_members` | same, `MCQueryMembers.cfg` | violated: a flattened query returns no member |
| `reader` | `MCDwarfReader` | expressions exact, types closed, whole and none missed, no variable with a static address lost, no address made up, units chosen by the rules |
| `symbol_override` | same, `MCSymbolOverride.cfg` | violated: a symbol replaces the exact address of a parameter |
| `config` | `MCConfigFile` | saves come back and keep what is not theirs; versions are ordered by their numbers |
| `unreadable_address` | same, `MCUnreadableAddress.cfg` | violated: saves next to an address that cannot be read are lost |

Bounds. `filter`: four loads and edits, so that three builds can be in flight
while the form returns to an earlier value; three texts, one of which fails to
compile, two settings of the check boxes. `content`: three opens, so that a
load can be superseded while another is being waited for, and three changes of
files, so that the file can vanish, come back and vanish again; an ELF, a data
file and a renamed data file. `application`: two
acts of the user or the file system, each of any kind, a node of each sort:
enough for every pair of features to meet, for content with the same cache key
to be loaded again, and for a click to fall into a rendering; the single
features are explored further by the other runs.
`views`: two programs with every kind of child the expander makes (elements,
two bases, members, one with a negative offset, one without a location), five
levels deep where the policies stop at none, one or two, lazily or not, and
built under any of them; addresses of six bits (`HalfRange` 32) with variables
at both ends, so that sums and products leave the range; limits of array
elements below, at and above the number there is, and memory for 14 nodes
(`Memory`), which some questions exceed; eight texts of a filter and four of a
query, with each of the two stars, `?`, exclusions, two names, a rule in error
and one that is not plain. The state is what is loaded, one
filter, one session: any sequence of loads, filters and queries (16,254 distinct
states). `reader`: bytes with 3 bits of payload and words of 10 bits, so that
LEB128 numbers of one, of all four and of too many groups end below, at and
above the word's limits; every pair of 54 operations, complete and cut off,
as location of a member, a base and a variable; every pair of 23 rules on four
paths; a program of two units with namespaces, classes, static members, inlined
copies, declarations, blocks, vendor tags and cyclic types, in 432 variants of
its locations and symbols, under three policies; three type units that refer to each
other, in every order, with one that is whole, cut off, of a wrong version or
ends at an entry that cannot be read, four targets of a deep reference, used in
two ways (642,794 distinct states).
`config`: two processes, which are symmetric, nine files to begin with (none, one
that does not parse, all keys and one that is unknown, invalid values of every
kind, nested ones, a section that is none, an address that is nested and one that is
empty), a bias that is a number and one that is not, eight versions, and three
events in all (changes, failures, stops, edits; the saves they lead to are
not counted): one change on each side, whose saves overlap in any way, and one
fault between them (1,937,071 distinct states).
Counters of tasks are bounded by what starts tasks. All runs have
`CHECK_DEADLOCK FALSE`: when the user and the files have used up their bound
the program rests, and the reader has an end. Symmetry is declared in `config`
only, which checks no liveness.

The properties of `views`, `reader` and `config` are invariants; no fairness is
assumed there.

Fairness. A worker ends, since each reads a file or computes a function: weak
fairness per worker. Time passes: weak fairness of the debounce and of the
second between checks. In the component modules the polls of the UI thread are
fair only while content is watched, because only then does the loop wait with
a timeout; the liveness properties are stated for loaded content accordingly.
`Application` justifies that assumption instead of making it: there, only the
UI thread as a whole, timeouts, and workers are fair. Nothing is assumed of the
user or of the file system. A load is not assumed to succeed.

`ContentLoading` and `JsonPreview` allow more orders than the loop does (any
poll at any time at which the thread is free), so their safety properties are
the stronger ones; `Application` shows that what depends on the order is right.

## Divergences found

1. `FailureIsShown`: `main_window.cc:567` shows "筛选失败", but
   `application.cc:726` invalidates the cache with the failure and
   `main_window.cc:562` shows progress for an invalid cache first. After a
   build that throws, the panel says "筛选中..." until the next input.
2. `RebuildSignalIsKept`: `tests/test_main.cc:3710` and `:3715` promise that a
   rebuild seen during a load is kept and consumed after it. The test calls
   `observe_opened_file_presence` alone; in the program the load that ends
   replaces the monitor (`app_state.cc:409`), and the old version stays shown.
3. `FilteredExportIsFiltered`: an export of the "current filter result"
   (`README.md:108`) that meets an invalid cache writes the whole model
   (`application.cc:122`).
4. `MembersAreHitByParent`: `static_address_query.cc:272` and
   `tests/static_address_query_tests.cc:229` promise that the name of an object
   finds its members. The default options ask for `StaticAddressKnown`
   (`static_address_query.cc:222`); members read from DWARF are
   `StaticLayoutKnown` (`dwarf_reader.cc:1935`, `:2323`), so on a loaded file
   they are found and dropped again. The test's members are made by hand with
   the other value.
5. `ExactAddressesStay`: the comment at `dwarf_reader.cc:1284` says that a symbol
   found by name must not override an exact address that DWARF has given. The test
   below it asks for `StaticAddressKnown`, and a formal parameter is `RuntimeOnly`
   whatever its location says: a parameter at the exact address 8 is listed with
   the address of a symbol that has its name, as statically known.
   `AddressesHaveASource`, which does hold, names the exception.
6. `EverySaveComesBack`: the settings of the interface are kept in the file
   (`README.md:12`), and what is written back is restored from it
   (`tests/test_main.cc:3181`). An `updates.check_uri` that is not a scalar ends each
   load before anything is read (`version_check.cc:67`), and a process that has
   no address does not replace it when it saves (`:583`): all it saves is lost at
   the next start. The same property fails where two processes overlap in
   `write_config_root` (`:168` to `:175`): both have cut the file, and the one that
   writes last, from the beginning, leaves the end of the other's longer text
   (`write_back: true` over `write_back: false` is followed by an `e`).
   `SavedSettingsComeBack`, which does hold, excludes these two and no other.

Two more disagree with a comment and have no run of their own. `application.cc:281`
calls its wait "block while idle" (空闲时阻塞等待事件); while no content is watched it
has no timeout (`application.cc:285`) and is reached while the first file is still being
read, whose end wakes nobody; `LoadingEnds` speaks of the time in which content is
watched. `application.cc:103` promises the complete derivable subtree of a match in
an export of the filter result; the expander used (`application.cc:127`) stops
`expand_depth` levels down and leaves nothing to expand later, while the panel opens
the same nodes to any depth and the export of the full model
(`export_document.cc:429`) has no limit. `ExportHoldsMatches` says what the export
contains down to that depth.

Noticed, and not claimed as divergences because nothing in the repository says
otherwise, or because no run could state it as a property of its own:

- Loading. A reload that fails is not tried again; a deletion and re-creation
  between two checks is not seen; an imported file with a name that is not
  `.json` or `.esv` is reopened as an ELF by the monitor; between a load and an
  import the one that ends last wins; the start-up log says that a file was
  loaded when its load has only begun (`application.cc:468`).
- Queries and expansion. A query that runs out of memory leaves the signature of
  its question with the answer of the one before (`static_address_query.cc:325`),
  which `SessionAnswersFresh` excludes by name; bases share one path, so a query
  drops all but the first (`expander.cc:221`, excluded by `shadowed` in
  `QueryIsComplete`); an array whose element size and own size are both unknown
  shows the address of its first element for all of them (`expander.cc:186`);
  where the bias takes an absolute address out of range, the summary shows the
  relative offset instead (`address_bias.cc:128`).
- Patterns. The panel's matcher comes back to its last star only, so `**:*x`
  misses `ns::v::<b>.x` (`filter_matcher.cc:66`); `IsPlain` is the class of
  patterns for which it misses nothing. The same text means different things in
  panel and query: a star and `?` stop at a point in a query, a star at a colon
  and `?` at nothing in the panel.
- Variables. Units with one `DW_AT_name`, sibling blocks and overloads with
  statics of one name are one to `deduplicate_variables`, whose key has the
  unit's name only (`dwarf_reader.cc:1336`), although `tests/test_main.cc:1983`
  and `:1998` keep variables of different units apart; so a local of a sibling
  block that comes first, has no address and takes that of a symbol stays in the place
  of a static variable. `StaticsAreKept` asks for one record for each such name.
  A local or parameter with a location in the frame takes the address of a symbol
  of its name. De-duplication comes before
  pruning, so that an optimized-out local hides a second one with a location and
  both are gone. A function's static whose location is an address rather than an
  expression counts as a local and is dropped by `static_storage_only`. The
  number shown as "过滤后变量" (`main_window.cc:602`) is taken before both
  prunings. A thread-local variable can get the static address of another symbol
  of its name.
- Types. A type that is met first elsewhere is walked under the scopes of
  whoever refers to it (`dwarf_reader.cc:1842`), and its static members are
  recorded there. A reference to the signature of a type unit that failed stays
  open (`TypesAreClosed` allows it); a local reference that is not found in its
  unit is looked up as an offset of the section, where a DIE of another unit may
  lie (`dwarf_reader.cc:1888`). A member whose location cannot be evaluated is at 0
  in a type unit if it is the first, and members of a union without a location
  have an offset only if they are the first.
- Configuration. A bias that is emptied keeps the old value in the file; a
  boolean that does not parse ends the load, and the next save writes defaults
  over the rest; the stream is not checked after a write; a file that does not
  parse makes every save fail, with an entry in the log; after a version check
  the default URI is kept as if it had been configured; a hand edit or a second
  process is overwritten by the next save; a section that is a single value makes
  every save fail (`version_check.cc:590`). A version's pre-release numbers count
  as later numbers.
- `decode_expression_ops` (`dwarf_wrappers.cc:1230`) is called by nothing.

## The proofs

All theorems hold for every value of the constants that satisfies the named
assumptions: any sets of files, texts, keys and processes, any number of edits,
opens and changes, any width of a word, any debug information. The assumptions:

- `FormAssumption`, `RunnerAssumption`, `ContentAssumption`: the first form is a
  form, the keys that admit one task are keys, paths and files fit each other.
- `PreviewAssumption`, `ExportAssumption`: preview, import and export are
  different keys of the runner, and the preview's admits one task
  (`application.cc:605`).
- `RangeAssumption`, `ExpressionAssumption`: a word has at least two values; the
  last group of a number in a word begins at its sign (`Groups` fits `SignBit` and
  `HalfRange`, as 10 groups of 7 bits fit 64 bits); an address has at least a byte and
  fits a word; the opcodes are bytes, and the numbers that stand in them are words.
- `ConfigAssumption`: a hand-written file is a map from keys, or none, or one that
  does not parse. Its keys and values are anything. A version is a text.
- `LoadsAssumption`: `IsFile` of each file that is loaded, and its rules are texts.
  Units have names; the DIEs are trees, as they are nested in the file, with the
  roots of the units at the top; children and the targets of references are DIEs of
  the file; the location of a DIE is a sequence of bytes if it is an expression,
  addresses and the values of symbols are words; the entries of a type unit form a
  list, and none of its signatures and local keys is the word that stands for none.

The provers have no induction over data: no rule for folds and none for recursive
functions. `ListProofs` makes do with what there is. That a set of naturals has a
least member follows from well-foundedness of `<` and gives `NatInd`, induction
as a fact about sets. `FoldTable` says that a fold of a list is the last entry of a
table filled place by place, and `RankTable` and `NatTable` say the same of a
recursive function; an argument about a loop then is an argument about the
entries of its table, with the loop's invariant as a set of places.

`FilterPipelineProofs`. `FilterInv` strengthens the properties by what makes
them inductive: ids come from a counter and identify tasks; while a build is
under way and no edit is pending, the newest task is in the list and was given
the present model and form. The stamp of the cache (`apply_filter_build_result`
writes the present model, whichever model the build used) is right only
because every load sets `pending`, and the proof is where this shows. From it:
`FilterTypeCorrect`, `CacheAlwaysCurrent`, `ProgressAlwaysHasCause`, and
`PipelineImplementsView`, the refinement of `FilterView` step by step.

`ContentLoadingProofs`. The runner comes first: `RunnerInv` has types,
`SlotsMatchStates`, and one slot per key, with one lemma per action, stated without
a specification around it, so that `Application` can use them too. The state of
`ContentLoading` falls into two halves that share no variable: `LoadInv` (content,
load, monitor) and `ImportInv` (the runner). Beyond the checked properties it
needs: what a load or import holds was read from its own path (`LoadsRead`,
`ImportsRead`); the displayed load is the last that was started (`NewestLoad`);
without background loading there is no future. `CollectImport` is the one step that
needs both halves, because the path comes from the display and the bytes from the
slot, and `SlotsMatchStates` says that they are of the same task. From it the
theorems listed in `PROJECT.json`, two of them about steps (`NewestIsShown`,
`ReopenIsAlwaysFree`).

`NumberProofs`, in three parts.

- Arithmetic, from `RangeAssumption` alone: each checked sum, product and bias is
  the exact result or absent, and absent exactly when the exact result does not fit
  (`AddUnsignedIsExact`, `AddOffsetIsExact`, `MultiplyIsExact`, `BiasIsExact`,
  `RelativeBiasIsExact`, `ParsedBiasIsExact`). The two lemmas under them say that a
  number in range is not changed by wrapping, and that the magnitude of a negative
  number is computed without overflow, the least included. These are what
  `ViewsAgreeWithLayout` rests on in each node; TLC checks it for whole trees.
- Decoding. For every size of group and width of word: a number that
  `read_uleb128` or `read_sleb128` returns is the one its bytes encode
  (`UlebIsExact`, `SlebIsExact`, the sign extended or filling the last group), and it
  is refused only if it is cut off, does not fit or has more groups than a word needs
  (`UlebIsComplete`, `SlebIsComplete`); the same for operands of fixed width
  (`UnsignedIsExact`, `SignedIsExact`). The loop's invariant is `ReadUpTo`: after some
  groups it holds their sum by weight (`ValueOf`), or has stopped for a reason that it
  names; that what a round adds does not wrap before the last group is a lemma about
  the weights (`LowerWeights`). `OperandsAlwaysExact` and `BreaksAlwaysForAReason` carry
  this over to whole expressions in the walk of any file: `DecodingInv` says that the
  operations lie one behind the other up to the cursor and each is what its own bytes
  say. That these bytes are a file's, and so are bytes at all, takes
  `LocationsHaveDies` (a task that locates something has a DIE) and with it the
  invariant of the whole walk, since tasks come from references and type ids.
- Evaluation. The evaluator of member locations works with limited words and checks
  before each sum. For every width, every expression and every file its stack holds the
  exact values (`StackAlwaysExact`), the offset it returns is the exact one
  (`OffsetAlwaysExact`), and it gives up only for a reason that could not be avoided
  (`AlwaysRefusesForAReason`). The inductive invariant, `EvaluationInv`, relates the
  stack to the history `exact` of an evaluation without limits; the sums rest on
  `AddOverflowsIsExact` and `SubtractOverflowsIsExact`, and that decoded operands are
  words on the second part.

The theorems are about the whole reader: a lemma shows that each of its actions
touches an expression only as `ExpressionMoves` says. `ReadingInv` puts the
invariants together.

`DwarfReaderProofs`, in five parts.

- The passes. `PassesInv` says of each stage what is true of the list then, compared
  with what the walk had found: after symbols and de-duplication, one record for each
  key and one for every key that was there (`AfterUnique`); after the locals, those
  that have something to be kept for (`AfterLocals`); at the end, no placeholder that
  another record stands for (`AfterPlaceholders`). From it `PlaceholdersAlwaysGiveWay`.
  De-duplication is a fold, whose table keeps apart what was met from what is to come.
  The last pass removes elements with a predicate that looks through the very list that
  is being compacted. The proof is that this does no harm: a placeholder is never what
  speaks for another, so what does so is in front, where it was moved to, or behind,
  where it still is (`SpokenFor`).
- The rules. `UnitsAlwaysFollowRules`: for all rules and paths, the units that are
  walked are those whose last rule that applies includes them, or that no rule takes
  out. The hard part is `MatchesAsDenoted`: `wildcard_match_impl` fills a table from the end of
  the pattern, the meaning (`Denotes`) follows the parts from the start, and the two
  meet at every part: the path matches if and only if some place that is reached
  before a part is one from which the rest matches. At the first part this says what
  the code finds, after the last what the rule means. A leading `**/` is one part of the
  meaning and two of the code, and has a section of its own.
- Where addresses come from. `AddressesAlwaysHaveASource`: whatever a file refers to
  and in whatever order, a variable's address is what its own location says, or, where
  that says none (or the variable is a constant, local to a thread or a parameter),
  what an entry says that it is a specification or an instance of, or the value of a
  symbol of its name. The reader decodes a location into operations and takes an address
  from them; `OwnAddress` reads the bytes. `PlaceIsOwn` shows that both say the same,
  of numbers that are cut off or too long as well. It rests on `UlebIsExact`,
  `UlebIsComplete` and their like, and its use on `ReadingIsCurrent`: what was read is the
  location of the task it is used for, although other tasks are done in between.
  `TasksBring` follows the record of a variable from task to task
  (`locate`, `inherit`, `relocate`), each of which knows only which references are left.
  For this the tasks of types need not be looked at: the lemmas on `Aside` in
  `NumberProofs` say that their steps bring only tasks of their own kind.
  `VariablesAreStored` takes over when the variable is stored, and the passes add
  symbols (`SymbolGives`) and take variables away.
  The attempt showed that `WithSymbol` had been written with a `CASE` whose arms overlap,
  which TLC evaluates in order but TLA+ does not; this one and two like it are now `IF`s.
- Types. `ReaderTypeCorrect` needs all of it: that the ids on record, the scopes
  and the type units being loaded are those of DIEs is said by the invariant of the walk as
  long as that lasts (`WalkKnowsIds`) and by `WalkIsOver` afterwards; that the evaluator's
  values are words by `ReaderEvaluatorTypes`, an induction of its own in `NumberProofs`
  (`AppliedIsExact`: what `apply` pushes); that addresses are words by the second part
  there (`OwnAddressIsWord`).
- Completeness. `NothingIsEverMissed`: every type that lies in a unit that is walked is
  recorded (`TypesAlwaysRecorded`), and every variable that says its own address is
  stored under its unit, its name and the scopes around it, and outlives the passes
  (`StaticsAlwaysKept`). The walk is an agenda of tasks, and from any of them more come
  in front, so the invariants say that what is seen of a unit is done or a task that is
  left leads to it (`TypesMet`, `VariablesMet`): the walk over the DIE or over one that
  it lies in (`Towards`), or a step of `record_variable` with what was found so far. A
  type that is met from elsewhere is recorded early, and the walk that comes to it later
  changes nothing. For the scope of a variable it is not enough that the right
  scopes are open now: the invariant speaks of those that will be open when the turn of
  the task comes, which are the present ones but for those that tasks in front of it
  close (`NamesIn`). `ScopeIs` and `AroundIs` follow the trees of the DIEs by their
  depth; this is where `IsForest` is used. That the passes keep what was stored follows
  from `PlaceholdersAlwaysGiveWay`: a static address is no placeholder and no local
  without anything, and what de-duplication puts in its place has one too.

`ApplicationProofs`. A step of the run loop is a step of the filter or leaves it
alone (`FilterMoves`), so `FilterPipeline` is implemented (`ApplicationFilters`) and
with it `FilterView` (`PanelOfApplication`). For the loading this is not quite so:
the preview and the exports use the same runner, whose steps with other keys are
none of `ContentLoading`. `ContentMoves` gives these as a case of their own, and
the lemmas of the runner show that `ImportInv` survives them; so
`ContentOfApplication`, `NewestInApplication` and `ReopenInApplication` hold in the
loop as well. `PreviewAlwaysCurrent` rests on `PreviewMoves`: no step changes what
the preview shows (`Source`) without setting the dirty flag, and none takes the flag
away but the start of a task that captures the source, and a hidden panel, which
sets it again when it is opened. The key admits one task, so no older result can
come after the newest; a result that is out of date stays only while the flag
promises another. The proof does not use the cache key that the code compares in
addition: the dirty flag is enough.

`ConfigFileProofs`. A process that has read the file to its end knows it
(`KnowsFile`) until somebody else changes it; that is what `SavedSettingsComeBack` and
`UntouchedSettingsStay` rest on, and `ConfigInv` carries it through changes, merges,
interrupted writes and stops of any number of processes. The results of a load are
what the program takes whatever the file says (`LoadedSettings`). The attempt to
prove `SavedSettingsComeBack` for all saves showed an exception that the run had missed with the
hand-written files it had: an `updates.check_uri` that is not a scalar throws
(`version_check.cc:67`) before anything else is read and is not replaced by a save
(`:575`), so that what is saved over it is lost at the next start. The property names
it (`UnreadableAddress`), the files of the run contain it, and `EverySaveComesBack`
is the property without it. The other exception is a save that finds the text of
another in the file it had cut (`settled.over`): whether it does is known at the
moment it writes, and from then on the file is either what was written or has
been changed again, which takes the save out of `settled`; so the proof needs no
history of who opened the file when.
`NewVersionAlwaysNewer` is about the comparison of versions, for any two texts whose
numbers are below `PartRange`. The code reads two texts at once and stops at the first
numbers that differ. `NumbersUpTo` lists the numbers of one text up to a place, and
`OnNumber` says that a cursor stands where the next one begins; it holds of both cursors
with the same count in every round (`CompareAsMeant`). `ReadExactly` says that the digits in
between are read to the number they denote.

`TypeWalkProofs`. `TypesAlwaysClosed`: however the types of a file refer to each other,
after each unit the scopes are closed, nothing is being loaded, each recorded type
has its one node or stands for that of a type unit, and no reference is open but
to signatures that no type unit describes.
Within a unit ids run ahead of nodes, and the invariant has to say by how much. An
id is `Due` if its type is recorded or a task on the agenda will see to it. For a DIE
that is a task to walk, record or ensure it (`UnderWay`); but one that ensures it does
nothing if the type is being loaded, so for a type that is being loaded
(`LoadingEnd`) only the first two count (`Walked`). TLC had accepted an invariant
without that difference: the run has no agenda in which it shows; the proof of
`EnsureType` did not go through. For a key of a type unit it is a task
to materialize it, the references of another type that are still to be followed
(`Promised`), or a DIE that stands for it (`Represented`). That no type gets two nodes
is because the ids of the nodes on their way (`Job`) are all different and none has a
node yet. `RecordedHaveNodes` and `SignedHaveNodes` lead back: without a task, what was
begun has its node. Each action has a lemma; what they share (a task gives way to
others in front of the agenda, ids that were due stay due) is stated once.
The number of open scopes is that of the tasks that close them, a fact about
cardinalities of sets of places (`LeavesOfBoth`).
What the walk needs to know of `.debug_types` is proved as well, about the parser that
reads it: `EntriesAreRead` and `UnitEnds` follow its folds, with the stack of parents and the
types that are known so far. A nested type is stored before its outer one
lists it, on every path through `EndChildren`, and a unit that is dropped takes both with
it; so the types that are described nest only types that are described, whatever bytes
the section is made of (`DescribedLists`).

Only model-checked:

- all liveness (`FilterSettles`, `BuildsDrain`, `LoadingEnds`,
  `MissingFileIsReopened`, `PreviewCatchesUp`), which the prover does not reach;
- everything about trees and the panel's and query's patterns, because `TypeTree`,
  `PathRules` and `VariableViews` use recursive operators, which the provers do not
  take: `ViewsTypeOK`, `ViewsAgreeWithLayout`, `MatchesAreReachable`,
  `ViewsFollowRules`, `ExportHoldsMatches`, `SessionAnswersFresh`, `QueryIsComplete`;
- of `DwarfReader`: `UnitTypesAsWritten`, that the types of `.debug_types` have
  the members that the file gives them. It is about the fold over the entries of
  a type unit with its stack of parents: what it computes is induction over data.

## Limits

Not modelled, and why. The command line and the platform layer keep no state
and only call what is modelled. RAII handles and attribute access over libdwarf,
parsing of ELF and TI COFF headers and tables, JSON rendering and parsing and
the binary container are sequential conversions with one bounds check per read.
Of the type reader, enumerators, dimensions, sizes and bit fields are copied and
left out, as are type units that DWARF 5 keeps in `.debug_info` and the ranges of
units. Raw DWARF export, HTTP, frame limiter, UI scale and shutdown (the
destructors wait for all workers) share no state with what is modelled.

The trees of a light-weight import (flat, without types) are not among the
programs of `MCVariableViews`, and a type that contains itself is not either:
types that DWARF describes contain themselves only through pointers, which the
expander does not follow. In `MCDwarfReader` types do refer to themselves so.

`DwarfReader` takes what libdwarf returns as given: an attribute is there or not,
a reference leads to a DIE. Broken bytes are modelled where the program itself
reads bytes, in expressions and type units. Its expressions are little-endian;
operations without operands that the evaluator refuses are represented by some
of them. Programs are one shape with variants, so properties about combinations
that this shape does not have (templates, Fortran modules) are not checked.

`ConfigFile` writes in one step what a stream writes in blocks, and a write that
breaks off leaves a prefix of the keys or a text that does not parse; keys that
were cut in the middle are not values of their own. Where one text is written
over another, the keys of both are taken to stand in the order of `KeyOrder`, and
any number of the last ones of the other may stay; which it is depends on the
lengths of texts, which the model does not have, so that it allows more mixtures
than there are. A list or map is `Nested` wherever it stands; comments are lost by a save
and not modelled. An editor writes in place: one that puts a new file in the place
of the old one, and the deletion of a file that a process has open, after which
the write goes to a file nobody sees, are left out.

Models say nothing about rendering or about how long anything takes. Files are
read in one step, so a file that is being written while it is read shows up as a
read that fails, not as a mixture. A worker's result is collected whole; data
races are not modelled because the workers share only immutable data with the UI
thread. `PROJECT.json` lists every component with its status.

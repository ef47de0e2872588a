--------------------------- MODULE FilterPipeline ---------------------------
(***************************************************************************)
(* The variable filter of the GUI (src/ui/filter_matcher.cc and the filter *)
(* part of src/ui/application.cc).                                         *)
(*                                                                         *)
(* The user edits a filter form.  An edit is debounced; when the debounce  *)
(* has elapsed the run loop captures the form and shares the loaded model  *)
(* with an asynchronous build.  Builds are never cancelled: a later edit   *)
(* or a later load only makes their results stale, and the run loop has to *)
(* tell a stale result from a current one when it collects them, in        *)
(* whatever order they finish.                                             *)
(*                                                                         *)
(* All actions but FinishBuild and ThrowBuild are steps of the UI thread;  *)
(* those two are the last step of a std::async worker, which shares        *)
(* nothing but an immutable model with the UI thread.                      *)
(*                                                                         *)
(* A form is abstracted to the text that is compiled (name query and path  *)
(* rules) and the flags that are not (the two check boxes).  The result of *)
(* a build is a function of the model and the form it was built from, and  *)
(* is represented by that pair; a text whose rules do not compile is one   *)
(* more text, whose result is an empty tree and an error message.          *)
(***************************************************************************)
EXTENDS Naturals, FiniteSets

CONSTANTS
    Texts,      \* name query and path rules the user may type
    Flags,      \* settings of the two check boxes
    FirstForm,  \* the form at start-up
    MaxInputs   \* bound on loads and edits in a behaviour

Forms == [text : Texts, flags : Flags]

ASSUME FormAssumption == FirstForm \in Forms

VARIABLES
    model,      \* project_model: generation of the loaded model, 0 if none
    form,       \* filters.form
    pending,    \* filters.has_pending_form
    debounced,  \* now - filters.last_input_at >= filter_debounce_ms
    building,   \* filters.building
    activeTask, \* filters.active_task_id
    nextTask,   \* next_filter_task_id_
    compiled,   \* the text filters.rules and compile_error come from
    cache,      \* filters.cache
    buildError, \* filters.build_error is set
    tasks,      \* filters.tasks with the state of their futures
    inputs      \* loads and edits so far

filterVars == <<model, form, pending, debounced, building, activeTask,
                nextTask, compiled, cache, buildError, tasks, inputs>>

NoModel == 0

Built == [model : Nat, form : Forms]

Tasks == [id : Nat, model : Nat, form : Forms,
          state : {"running", "ready", "threw"}]

FilterTypes ==
    /\ model \in Nat
    /\ form \in Forms
    /\ pending \in BOOLEAN
    /\ debounced \in BOOLEAN
    /\ building \in BOOLEAN
    /\ activeTask \in Nat
    /\ nextTask \in Nat
    /\ compiled \in Texts
    /\ cache \in [valid : BOOLEAN, model : Nat, built : Built]
    /\ buildError \in BOOLEAN
    /\ tasks \in SUBSET Tasks
    /\ inputs \in Nat

\* Ids come from a counter: no two tasks share one, none is still to come.
TaskIds ==
    /\ activeTask < nextTask
    /\ \A t \in tasks : t.id < nextTask
    /\ \A t, u \in tasks : t.id = u.id => t = u

\* Every variable has the type of its C++ field, and task ids are drawn from
\* next_filter_task_id_.
FilterTypeOK == FilterTypes /\ TaskIds

FilterInit ==
    /\ model = NoModel
    /\ form = FirstForm
    /\ pending = FALSE
    /\ debounced = TRUE
    /\ building = FALSE
    /\ activeTask = 0
    /\ nextTask = 1
    /\ compiled = FirstForm.text
    /\ cache = [valid |-> FALSE, model |-> NoModel,
                built |-> [model |-> NoModel, form |-> FirstForm]]
    /\ buildError = FALSE
    /\ tasks = {}
    /\ inputs = 0

-----------------------------------------------------------------------------
(* Inputs of the filter.                                                   *)

Input == inputs < MaxInputs /\ inputs' = inputs + 1

\* The part of set_loaded_project and set_loaded_snapshot that the filter
\* sees: a new model object, and a rebuild that need not wait.
ReplaceModel ==
    /\ Input
    /\ model' = model + 1
    /\ cache' = [cache EXCEPT !.valid = FALSE]
    /\ pending' = TRUE
    /\ debounced' = TRUE
    /\ UNCHANGED <<form, building, activeTask, nextTask, compiled,
                   buildError, tasks>>

\* A text field changes: the debounce starts again.
EditText(text) ==
    /\ Input
    /\ text # form.text
    /\ form' = [form EXCEPT !.text = text]
    /\ pending' = TRUE
    /\ debounced' = FALSE
    /\ buildError' = FALSE
    /\ UNCHANGED <<model, building, activeTask, nextTask, compiled, cache,
                   tasks>>

\* A check box changes: no debounce.
EditFlags(flags) ==
    /\ Input
    /\ flags # form.flags
    /\ form' = [form EXCEPT !.flags = flags]
    /\ pending' = TRUE
    /\ debounced' = TRUE
    /\ buildError' = FALSE
    /\ UNCHANGED <<model, building, activeTask, nextTask, compiled, cache,
                   tasks>>

\* Time passes since the last input.
DebounceElapses ==
    /\ ~debounced
    /\ debounced' = TRUE
    /\ UNCHANGED <<model, form, pending, building, activeTask, nextTask,
                   compiled, cache, buildError, tasks, inputs>>

-----------------------------------------------------------------------------
(* The run loop and its workers.                                           *)

\* Mutant: the id counter is not advanced.
StartWithoutNewId ==
    /\ pending /\ debounced
    /\ pending' = FALSE /\ building' = TRUE /\ buildError' = FALSE
    /\ activeTask' = nextTask
    /\ cache' = [cache EXCEPT !.valid = FALSE]
    /\ tasks' = tasks \cup {[id |-> nextTask, model |-> model,
                             form |-> form, state |-> "running"]}
    /\ UNCHANGED <<model, form, debounced, nextTask, compiled, inputs>>

\* Mutant: the active id is read after the counter was advanced.
StartWithLaterId ==
    /\ pending /\ debounced
    /\ pending' = FALSE /\ building' = TRUE /\ buildError' = FALSE
    /\ activeTask' = nextTask + 1 /\ nextTask' = nextTask + 1
    /\ cache' = [cache EXCEPT !.valid = FALSE]
    /\ tasks' = tasks \cup {[id |-> nextTask, model |-> model,
                             form |-> form, state |-> "running"]}
    /\ UNCHANGED <<model, form, debounced, compiled, inputs>>

\* poll_background_tasks finds the debounce elapsed and starts a build of
\* the current form over the current model.
StartFilterBuild ==
    /\ pending
    /\ debounced
    /\ pending' = FALSE
    /\ building' = TRUE
    /\ activeTask' = nextTask
    /\ nextTask' = nextTask + 1
    /\ buildError' = FALSE
    /\ cache' = [cache EXCEPT !.valid = FALSE]
    /\ tasks' = tasks \cup {[id |-> nextTask, model |-> model,
                             form |-> form, state |-> "running"]}
    /\ UNCHANGED <<model, form, debounced, compiled, inputs>>

WorkerStep(task, outcome) ==
    /\ task.state = "running"
    /\ tasks' = (tasks \ {task}) \cup {[task EXCEPT !.state = outcome]}
    /\ UNCHANGED <<model, form, pending, debounced, building, activeTask,
                   nextTask, compiled, cache, buildError, inputs>>

FinishBuild(task) == WorkerStep(task, "ready")
ThrowBuild(task)  == WorkerStep(task, "threw")

\* Mutant: only the id is compared, as if edits started a build at once.
HasActiveId(task) == task.id = activeTask

\* The result of a build is used only if it is the newest one's and nothing
\* was edited or loaded since that one was started.
IsCurrent(task) == task.id = activeTask /\ ~pending

\* apply_filter_build_result: the rules, the error and the cache are those
\* of the build, but the cache is stamped with the model loaded now.
ApplyResult(task) ==
    /\ compiled' = task.form.text
    /\ cache' = [valid |-> TRUE, model |-> model,
                 built |-> [model |-> task.model, form |-> task.form]]
    /\ building' = FALSE
    /\ buildError' = FALSE

\* Mutant: a stale result is skipped and stays in the list.
CollectCurrentOnly(task) ==
    /\ task.state = "ready"
    /\ IsCurrent(task)
    /\ tasks' = tasks \ {task}
    /\ ApplyResult(task)
    /\ UNCHANGED <<model, form, pending, debounced, activeTask, nextTask,
                   inputs>>

ReceiveResult(task) ==
    /\ task.state = "ready"
    /\ tasks' = tasks \ {task}
    /\ IF IsCurrent(task)
         THEN ApplyResult(task)
         ELSE UNCHANGED <<compiled, cache, building, buildError>>
    /\ UNCHANGED <<model, form, pending, debounced, activeTask, nextTask,
                   inputs>>

\* Mutant: the failure is recorded but the build still counts as running.
ErrorKeepsBuilding(task) ==
    /\ task.state = "threw"
    /\ tasks' = tasks \ {task}
    /\ buildError' = (buildError \/ IsCurrent(task))
    /\ UNCHANGED <<model, form, pending, debounced, building, activeTask,
                   nextTask, compiled, cache, inputs>>

ReceiveError(task) ==
    /\ task.state = "threw"
    /\ tasks' = tasks \ {task}
    /\ IF IsCurrent(task)
         THEN /\ building' = FALSE
              /\ buildError' = TRUE
              /\ cache' = [cache EXCEPT !.valid = FALSE]
         ELSE UNCHANGED <<building, buildError, cache>>
    /\ UNCHANGED <<model, form, pending, debounced, activeTask, nextTask,
                   compiled, inputs>>

UserStep ==
    \/ ReplaceModel
    \/ \E text \in Texts : EditText(text)
    \/ \E flags \in Flags : EditFlags(flags)

TaskStep(task) ==
    \/ FinishBuild(task)
    \/ ThrowBuild(task)
    \/ ReceiveResult(task)
    \/ ReceiveError(task)

FilterNext ==
    \/ UserStep
    \/ DebounceElapses
    \/ StartFilterBuild
    \/ \E task \in tasks : TaskStep(task)

FilterSafety == FilterInit /\ [][FilterNext]_filterVars

\* The user owes nothing.  Time passes, a build ends, and while content is
\* loaded the run loop wakes at least once a second to poll (before the
\* first load it may sleep for ever, so nothing is assumed of it then).
FilterFairness ==
    /\ WF_filterVars(DebounceElapses)
    /\ WF_filterVars(model # NoModel /\ StartFilterBuild)
    /\ \A id \in 1..MaxInputs :
        /\ WF_filterVars(\E task \in tasks :
              task.id = id /\ (FinishBuild(task) \/ ThrowBuild(task)))
        /\ WF_filterVars(model # NoModel /\ \E task \in tasks :
              task.id = id /\ (ReceiveResult(task) \/ ReceiveError(task)))

FilterSpec == FilterSafety /\ FilterFairness

-----------------------------------------------------------------------------
(* What the panel shows.                                                   *)

\* Mutant: an edit that waits for its debounce does not count as progress.
ShowBuilding == building \/ ~cache.valid

\* should_show_filter_progress
ShowProgress == building \/ pending \/ ~cache.valid

\* render_variables_panel asks for progress first, then for an error, and
\* draws the tree of the cache only when there is neither.
PanelView ==
    IF ShowProgress THEN [status |-> "updating"]
    ELSE IF buildError THEN [status |-> "failed"]
    ELSE [status |-> "tree", model |-> cache.built.model,
          form |-> cache.built.form]

View == INSTANCE FilterView WITH view <- PanelView

-----------------------------------------------------------------------------
(* Properties.                                                             *)

\* A valid cache was built from the model that is loaded, although
\* apply_filter_build_result stamps it with "the current model" without
\* asking which one the build used; when no edit is pending it was built
\* from the form as it stands; and the compiled rules are those of its form.
CacheIsCurrent ==
    cache.valid =>
        /\ cache.model = model
        /\ cache.built.model = model
        /\ ~pending => cache.built.form = form
        /\ compiled = cache.built.form.text

\* While "filtering..." is shown over loaded content, something is under way
\* that will end it: an edit or a load still to be picked up, or the newest
\* build, running over the current model and form or waiting to be
\* collected.  The one exception is a build that failed.
ProgressHasCause ==
    model # NoModel /\ ShowProgress =>
        \/ pending
        \/ building /\ \E task \in tasks :
              /\ task.id = activeTask
              /\ task.model = model
              /\ task.form = form
        \/ buildError

\* The panel behaves like the abstract view: a tree appears only after
\* progress was shown, for the current model and form, and disappears with
\* the first load or edit.
PanelIsView == View!Spec

\* Once the user pauses, the filter of loaded content settles, for good: on
\* the tree of the current form, or on the record that its build failed.
Settled ==
    /\ ~pending
    /\ ~building
    /\ \/ buildError
       \/ cache.valid /\ cache.built = [model |-> model, form |-> form]

FilterSettles == <>[](model # NoModel => Settled)

\* Superseded builds are not cancelled, but they are all collected in the
\* end: no thread or result is left behind.
BuildsDrain == <>[](model # NoModel => tasks = {})

\* A failed build whose input is still current is reported on the panel, as
\* src/ui/main_window.cc:567-571 sets out to ("filtering failed: ...").
FailureIsShown ==
    model # NoModel /\ buildError /\ ~pending => PanelView.status = "failed"
=============================================================================

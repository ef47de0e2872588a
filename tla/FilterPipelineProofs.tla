------------------------ MODULE FilterPipelineProofs ------------------------
(***************************************************************************)
(* Proofs about FilterPipeline, for every choice of its constants.         *)
(*                                                                         *)
(* CacheIsCurrent is not inductive: whether the result that is applied was *)
(* built from the loaded model depends on what the tasks in flight were    *)
(* started with.  FilterInv adds what makes the test of IsCurrent, a task  *)
(* id and a flag, mean that: ids are never reused, and as long as nothing  *)
(* is pending the newest task has captured the current model and form.     *)
(***************************************************************************)
EXTENDS FilterPipeline, TLAPS

\* What passes the test of IsCurrent was built from what is loaded and
\* edited now, and the panel is still waiting for it.
CurrentTask ==
    \A t \in tasks : IsCurrent(t) =>
        t.model = model /\ t.form = form /\ building

\* The panel waits only for a task that exists, and an invalid cache is
\* explained by the absence of content, a failure, an edit or a build.
WaitsForTask ==
    /\ building /\ ~pending => \E t \in tasks : t.id = activeTask
    /\ cache.valid \/ pending \/ building \/ buildError \/ model = NoModel

FilterInv ==
    /\ FilterTypes
    /\ TaskIds
    /\ CurrentTask
    /\ WaitsForTask
    /\ CacheIsCurrent

-----------------------------------------------------------------------------
(* Type correctness.                                                       *)

LEMMA InitType == FilterInit => FilterTypes
<1> SUFFICES ASSUME FilterInit
             PROVE  FilterTypes
  OBVIOUS
<1>1. FirstForm \in Forms /\ FirstForm.text \in Texts
  BY FormAssumption DEF Forms
<1>2. [model |-> NoModel, form |-> FirstForm] \in Built
  BY <1>1 DEF Built, NoModel
<1>3. cache \in [valid : BOOLEAN, model : Nat, built : Built]
  BY <1>2 DEF FilterInit, NoModel
<1> QED
  BY <1>1, <1>3 DEF FilterInit, FilterTypes, NoModel

\* Invalidating the cache, or filling it with a task's result, keeps its type.
LEMMA CacheType ==
    ASSUME FilterTypes
    PROVE  /\ [cache EXCEPT !.valid = FALSE]
                 \in [valid : BOOLEAN, model : Nat, built : Built]
           /\ \A task \in tasks :
                [valid |-> TRUE, model |-> model,
                 built |-> [model |-> task.model, form |-> task.form]]
                   \in [valid : BOOLEAN, model : Nat, built : Built]
<1>1. [cache EXCEPT !.valid = FALSE]
         \in [valid : BOOLEAN, model : Nat, built : Built]
  BY DEF FilterTypes
<1>2. ASSUME NEW task \in tasks
      PROVE  [model |-> task.model, form |-> task.form] \in Built
  BY DEF FilterTypes, Tasks, Built
<1> QED
  BY <1>1, <1>2 DEF FilterTypes

LEMMA NextType == FilterTypes /\ [FilterNext]_filterVars => FilterTypes'
<1> SUFFICES ASSUME FilterTypes, [FilterNext]_filterVars
             PROVE  FilterTypes'
  OBVIOUS
<1>1. CASE ReplaceModel
  BY <1>1, CacheType DEF ReplaceModel, Input, FilterTypes
<1>2. ASSUME NEW text \in Texts, EditText(text)
      PROVE  FilterTypes'
  <2>1. form' \in Forms
    BY <1>2 DEF EditText, FilterTypes, Forms
  <2>2. inputs' \in Nat
    BY <1>2 DEF EditText, Input, FilterTypes
  <2> QED
    BY <1>2, <2>1, <2>2, Zenon DEF EditText, FilterTypes
<1>3. ASSUME NEW flags \in Flags, EditFlags(flags)
      PROVE  FilterTypes'
  <2>1. form' \in Forms
    BY <1>3 DEF EditFlags, FilterTypes, Forms
  <2>2. inputs' \in Nat
    BY <1>3 DEF EditFlags, Input, FilterTypes
  <2> QED
    BY <1>3, <2>1, <2>2, Zenon DEF EditFlags, FilterTypes
<1>4. CASE DebounceElapses
  BY <1>4 DEF DebounceElapses, FilterTypes
<1>5. CASE StartFilterBuild
  <2>1. [id |-> nextTask, model |-> model, form |-> form,
         state |-> "running"] \in Tasks
    BY DEF FilterTypes, Tasks
  <2>2. tasks' \in SUBSET Tasks
    BY <1>5, <2>1, Zenon DEF StartFilterBuild, FilterTypes
  <2>3. nextTask' \in Nat
    BY <1>5 DEF StartFilterBuild, FilterTypes
  <2> QED
    BY <1>5, <2>2, <2>3, CacheType, Zenon DEF StartFilterBuild, FilterTypes
<1>6. ASSUME NEW task \in tasks, FinishBuild(task) \/ ThrowBuild(task)
      PROVE  FilterTypes'
  <2>1. \A outcome \in {"ready", "threw"} :
           [task EXCEPT !.state = outcome] \in Tasks
    BY DEF FilterTypes, Tasks
  <2> QED
    BY <1>6, <2>1 DEF FinishBuild, ThrowBuild, WorkerStep, FilterTypes
<1>7. ASSUME NEW task \in tasks, ReceiveResult(task)
      PROVE  FilterTypes'
  <2>1. task.form.text \in Texts
    BY DEF FilterTypes, Tasks, Forms
  <2> QED
    BY <1>7, <2>1, CacheType DEF ReceiveResult, ApplyResult, FilterTypes
<1>8. ASSUME NEW task \in tasks, ReceiveError(task)
      PROVE  FilterTypes'
  BY <1>8, CacheType DEF ReceiveError, FilterTypes
<1>9. CASE UNCHANGED filterVars
  BY <1>9 DEF filterVars, FilterTypes
<1> QED
  BY <1>1, <1>2, <1>3, <1>4, <1>5, <1>6, <1>7, <1>8, <1>9
  DEF FilterNext, UserStep, TaskStep

-----------------------------------------------------------------------------
(* The inductive invariant.                                                *)

LEMMA InitInv == FilterInit => FilterInv
BY InitType DEF FilterInit, FilterInv, TaskIds, CurrentTask, WaitsForTask,
                CacheIsCurrent, NoModel

\* A load or an edit makes a form pending, so that no task is current.
LEMMA UserStepInv == FilterInv /\ UserStep => FilterInv'
<1> SUFFICES ASSUME FilterInv, UserStep
             PROVE  FilterInv'
  OBVIOUS
<1>1. FilterTypes'
  BY NextType DEF FilterInv, FilterNext
<1>2. /\ pending' = TRUE
      /\ UNCHANGED <<building, activeTask, nextTask, compiled, tasks>>
      /\ \/ UNCHANGED <<model, cache>>
         \/ cache'.valid = FALSE
  BY DEF UserStep, ReplaceModel, EditText, EditFlags, FilterInv, FilterTypes
<1>3. TaskIds' /\ CurrentTask' /\ WaitsForTask'
  BY <1>2 DEF FilterInv, TaskIds, CurrentTask, WaitsForTask, IsCurrent
<1>4. CacheIsCurrent'
  BY <1>2 DEF FilterInv, CacheIsCurrent
<1> QED
  BY <1>1, <1>3, <1>4 DEF FilterInv

LEMMA StartInv == FilterInv /\ StartFilterBuild => FilterInv'
<1> SUFFICES ASSUME FilterInv, StartFilterBuild
             PROVE  FilterInv'
  OBVIOUS
<1> DEFINE new == [id |-> nextTask, model |-> model, form |-> form,
                   state |-> "running"]
<1>1. FilterTypes'
  BY NextType DEF FilterInv, FilterNext
<1>2. /\ tasks' = tasks \cup {new}
      /\ activeTask' = nextTask
      /\ nextTask' = nextTask + 1
      /\ pending' = FALSE
      /\ building' = TRUE
      /\ cache'.valid = FALSE
      /\ UNCHANGED <<model, form>>
  BY DEF StartFilterBuild, FilterInv, FilterTypes
<1>3. nextTask \in Nat /\ activeTask \in Nat /\ \A t \in tasks : t.id \in Nat
  BY DEF FilterInv, FilterTypes, Tasks
<1>4. \A t \in tasks : t.id < nextTask
  BY DEF FilterInv, TaskIds
<1>5. TaskIds'
  <2>1. activeTask' < nextTask' /\ \A t \in tasks' : t.id < nextTask'
    BY <1>2, <1>3, <1>4
  <2>2. \A t, u \in tasks' : t.id = u.id => t = u
    BY <1>2, <1>3, <1>4 DEF FilterInv, TaskIds
  <2> QED
    BY <2>1, <2>2 DEF TaskIds
<1>6. CurrentTask'
  <2>1. \A t \in tasks : t.id # nextTask
    BY <1>3, <1>4
  <2> QED
    BY <1>2, <2>1 DEF CurrentTask, IsCurrent
<1>7. WaitsForTask'
  <2>1. new \in tasks' /\ new.id = activeTask'
    BY <1>2
  <2> QED
    BY <1>2, <2>1 DEF WaitsForTask
<1>8. CacheIsCurrent'
  BY <1>2 DEF CacheIsCurrent
<1> QED
  BY <1>1, <1>5, <1>6, <1>7, <1>8 DEF FilterInv

LEMMA WorkerInv ==
    ASSUME NEW task \in tasks, FilterInv, FinishBuild(task) \/ ThrowBuild(task)
    PROVE  FilterInv'
<1>1. FilterTypes'
  BY NextType DEF FilterInv, FilterNext, TaskStep
<1>2. PICK outcome \in {"ready", "threw"} : WorkerStep(task, outcome)
  BY DEF FinishBuild, ThrowBuild
<1> DEFINE done == [task EXCEPT !.state = outcome]
<1>3. /\ tasks' = (tasks \ {task}) \cup {done}
      /\ UNCHANGED <<model, form, pending, building, activeTask, nextTask,
                     compiled, cache, buildError>>
  BY <1>2 DEF WorkerStep
<1>4. done.id = task.id /\ done.model = task.model /\ done.form = task.form
  BY DEF FilterInv, FilterTypes, Tasks
<1>5. TaskIds'
  BY <1>3, <1>4 DEF FilterInv, TaskIds
<1>6. CurrentTask'
  BY <1>3, <1>4 DEF FilterInv, CurrentTask, IsCurrent
<1>7. WaitsForTask'
  BY <1>3, <1>4 DEF FilterInv, WaitsForTask
<1>8. CacheIsCurrent'
  BY <1>3 DEF FilterInv, CacheIsCurrent
<1> QED
  BY <1>1, <1>5, <1>6, <1>7, <1>8 DEF FilterInv

\* Removing a task that is not current: another one is being waited for.
LEMMA DiscardInv ==
    ASSUME NEW task \in tasks, FilterInv, ~IsCurrent(task),
           ReceiveResult(task) \/ ReceiveError(task)
    PROVE  FilterInv'
<1>1. FilterTypes'
  BY NextType DEF FilterInv, FilterNext, TaskStep
<1>2. /\ tasks' = tasks \ {task}
      /\ UNCHANGED <<model, form, pending, building, activeTask, nextTask,
                     compiled, cache, buildError>>
  BY DEF ReceiveResult, ReceiveError
<1>3. TaskIds' /\ CurrentTask' /\ CacheIsCurrent'
  BY <1>2 DEF FilterInv, TaskIds, CurrentTask, IsCurrent, CacheIsCurrent
<1>4. WaitsForTask'
  BY <1>2 DEF FilterInv, WaitsForTask, IsCurrent
<1> QED
  BY <1>1, <1>3, <1>4 DEF FilterInv

\* A current task carries the current model and form into the cache.
LEMMA ApplyInv ==
    ASSUME NEW task \in tasks, FilterInv, IsCurrent(task),
           ReceiveResult(task) \/ ReceiveError(task)
    PROVE  FilterInv'
<1>1. FilterTypes'
  BY NextType DEF FilterInv, FilterNext, TaskStep
<1>2. /\ tasks' = tasks \ {task}
      /\ building' = FALSE
      /\ UNCHANGED <<model, form, pending, activeTask, nextTask>>
  BY DEF ReceiveResult, ReceiveError, ApplyResult
<1>3. task.model = model /\ task.form = form
  BY DEF FilterInv, CurrentTask
<1>4. TaskIds'
  BY <1>2 DEF FilterInv, TaskIds
<1>5. CurrentTask'
  \* No other task has the active id.
  BY <1>2 DEF FilterInv, TaskIds, CurrentTask, IsCurrent
<1>6. WaitsForTask' /\ CacheIsCurrent'
  <2>1. CASE ReceiveResult(task)
    BY <2>1, <1>2, <1>3
    DEF ReceiveResult, ApplyResult, WaitsForTask, CacheIsCurrent
  <2>2. CASE ReceiveError(task)
    BY <2>2, <1>2
    DEF ReceiveError, WaitsForTask, CacheIsCurrent, FilterInv, FilterTypes
  <2> QED
    BY <2>1, <2>2
<1> QED
  BY <1>1, <1>4, <1>5, <1>6 DEF FilterInv

LEMMA NextInv == FilterInv /\ [FilterNext]_filterVars => FilterInv'
<1> SUFFICES ASSUME FilterInv, [FilterNext]_filterVars
             PROVE  FilterInv'
  OBVIOUS
<1>1. CASE UserStep
  BY <1>1, UserStepInv
<1>2. CASE StartFilterBuild
  BY <1>2, StartInv
<1>3. ASSUME NEW task \in tasks, TaskStep(task)
      PROVE  FilterInv'
  BY <1>3, WorkerInv, DiscardInv, ApplyInv DEF TaskStep
<1>4. CASE DebounceElapses \/ UNCHANGED filterVars
  <2>1. FilterTypes'
    BY NextType DEF FilterInv
  <2>2. UNCHANGED <<model, form, pending, building, activeTask, nextTask,
                    compiled, cache, buildError, tasks>>
    BY <1>4 DEF DebounceElapses, filterVars
  <2> QED
    BY <2>1, <2>2 DEF FilterInv, TaskIds, CurrentTask, WaitsForTask,
                      CacheIsCurrent, IsCurrent
<1> QED
  BY <1>1, <1>2, <1>3, <1>4 DEF FilterNext

\* FilterInv holds in every behaviour of the pipeline.
THEOREM FilterInvariant == FilterSafety => []FilterInv
BY InitInv, NextInv, PTL DEF FilterSafety

-----------------------------------------------------------------------------
(* What the invariant is for.                                              *)

\* Type correctness, with what makes task ids usable as identities.
THEOREM FilterTypeCorrect == FilterSafety => []FilterTypeOK
<1>1. FilterInv => FilterTypeOK
  BY DEF FilterInv, FilterTypeOK
<1> QED
  BY <1>1, FilterInvariant, PTL

\* A valid cache belongs to the loaded model and, unless an edit is pending,
\* to the form as it stands: no interleaving of edits, loads and build
\* results, however late, makes the tree stale.
THEOREM CacheAlwaysCurrent == FilterSafety => []CacheIsCurrent
<1>1. FilterInv => CacheIsCurrent
  BY DEF FilterInv
<1> QED
  BY <1>1, FilterInvariant, PTL

\* "Filtering..." over loaded content is never shown without a reason that
\* the run loop will act on, or a recorded failure.
THEOREM ProgressAlwaysHasCause == FilterSafety => []ProgressHasCause
<1>1. FilterInv => ProgressHasCause
  BY DEF FilterInv, ProgressHasCause, ShowProgress, WaitsForTask,
         CurrentTask, IsCurrent
<1> QED
  BY <1>1, FilterInvariant, PTL

-----------------------------------------------------------------------------
(* The panel implements the abstract view.                                 *)

USE DEF View!viewVars, View!Updating, View!NoModel, View!Tree

LEMMA InitView == FilterInit => View!Init
BY DEF FilterInit, NoModel, View!Init, PanelView, ShowProgress

\* A load or an edit withdraws what was shown.
LEMMA UserStepView == FilterInv /\ UserStep => View!Next
<1> SUFFICES ASSUME FilterInv, UserStep
             PROVE  View!Next
  OBVIOUS
<1>1. PanelView' = View!Updating
  BY DEF UserStep, ReplaceModel, EditText, EditFlags, PanelView, ShowProgress
<1>2. CASE ReplaceModel
  BY <1>1, <1>2 DEF ReplaceModel, View!Next, View!Load
<1>3. CASE ~ReplaceModel
  <2>1. form' \in Forms
    BY NextType DEF FilterInv, FilterTypes, FilterNext
  <2>2. UNCHANGED model
    BY <1>3 DEF UserStep, EditText, EditFlags
  <2> QED
    BY <1>1, <2>1, <2>2 DEF View!Next, View!Edit
<1> QED
  BY <1>2, <1>3

\* Applying the current task's result publishes the tree.
LEMMA ApplyView ==
    ASSUME NEW task \in tasks, FilterInv, ReceiveResult(task), IsCurrent(task)
    PROVE  View!Publish
<1>1. task.model = model /\ task.form = form /\ building /\ ~pending
  BY DEF FilterInv, CurrentTask, IsCurrent
<1>2. PanelView = View!Updating
  BY <1>1 DEF PanelView, ShowProgress
<1>3. /\ ~building' /\ ~pending' /\ ~buildError'
      /\ cache'.valid /\ cache'.built = [model |-> model, form |-> form]
      /\ UNCHANGED <<model, form>>
  BY <1>1 DEF ReceiveResult, ApplyResult
<1>4. PanelView' = View!Tree(model, form)
  BY <1>3 DEF PanelView, ShowProgress
<1> QED
  BY <1>2, <1>3, <1>4 DEF View!Publish

\* Every other step leaves the panel as it is.
LEMMA OtherStepView ==
    ASSUME FilterInv,
           \/ DebounceElapses
           \/ StartFilterBuild
           \/ UNCHANGED filterVars
           \/ \E task \in tasks :
                \/ FinishBuild(task)
                \/ ThrowBuild(task)
                \/ ReceiveError(task)
                \/ ReceiveResult(task) /\ ~IsCurrent(task)
    PROVE  UNCHANGED View!viewVars
<1>1. CASE StartFilterBuild
  BY <1>1 DEF StartFilterBuild, PanelView, ShowProgress
<1>2. CASE \E task \in tasks : ReceiveError(task)
  <2>1. PICK task \in tasks : ReceiveError(task)
    BY <1>2
  <2>2. CASE IsCurrent(task)
    <3>1. building
      BY <2>2 DEF FilterInv, CurrentTask
    <3>2. ~cache'.valid
      BY <2>1, <2>2 DEF ReceiveError, FilterInv, FilterTypes
    <3> QED
      BY <2>1, <3>1, <3>2 DEF ReceiveError, PanelView, ShowProgress
  <2>3. CASE ~IsCurrent(task)
    BY <2>1, <2>3 DEF ReceiveError, PanelView, ShowProgress
  <2> QED
    BY <2>2, <2>3
<1>3. CASE \/ DebounceElapses
           \/ UNCHANGED filterVars
           \/ \E task \in tasks :
                \/ FinishBuild(task)
                \/ ThrowBuild(task)
                \/ ReceiveResult(task) /\ ~IsCurrent(task)
  BY <1>3 DEF DebounceElapses, filterVars, FinishBuild, ThrowBuild, WorkerStep,
              ReceiveResult, PanelView, ShowProgress
<1> QED
  BY <1>1, <1>2, <1>3

LEMMA NextView ==
    FilterInv /\ [FilterNext]_filterVars => [View!Next]_(View!viewVars)
<1> SUFFICES ASSUME FilterInv, [FilterNext]_filterVars
             PROVE  [View!Next]_(View!viewVars)
  OBVIOUS
<1>1. CASE UserStep
  BY <1>1, UserStepView
<1>2. ASSUME NEW task \in tasks, ReceiveResult(task), IsCurrent(task)
      PROVE  View!Next
  BY <1>2, ApplyView DEF View!Next
<1> QED
  BY <1>1, <1>2, OtherStepView DEF FilterNext, TaskStep

\* The debounced, asynchronous, uncancelled pipeline looks to the user like
\* the abstract view: trees appear only for the current model and form.
THEOREM PipelineImplementsView == FilterSafety => PanelIsView
BY InitView, NextView, FilterInvariant, PTL
DEF FilterSafety, PanelIsView, View!Spec
=============================================================================

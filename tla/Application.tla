----------------------------- MODULE Application -----------------------------
(***************************************************************************)
(* The whole GUI as one event loop: Application::run with                  *)
(* poll_background_tasks and render_frame (src/ui/application.cc), over    *)
(* the filter, the loading of content, the JSON preview and the export.    *)
(*                                                                         *)
(* FilterPipeline, ContentLoading and JsonPreview let the steps of the UI  *)
(* thread happen in any order and assume that each gets its turn.  Here    *)
(* the UI thread has a program counter: a pass of the loop makes its polls *)
(* in the order of the code, sleeps when nothing asks for a redraw, and    *)
(* renders one frame, in which the user may do one thing.  The only        *)
(* fairness left is that the thread keeps running, that waits with a       *)
(* timeout end, and that workers end.                                      *)
(***************************************************************************)
EXTENDS FilterPipeline, JsonPreview

CONSTANTS
    SnapshotExport, \* kTaskSnapshotExport
    MaxUser         \* bound on files opened, clicks and file changes together

ASSUME ExportAssumption ==
    SnapshotExport \in Keys \ {SnapshotImport, JsonTask}

VARIABLES
    pc,            \* what the UI thread does next
    needsRedraw,   \* needs_redraw_
    posted,        \* an empty event was posted and not yet consumed
    titleDirty,    \* window_title_dirty
    pendingExport  \* the source chosen for pending_export_snapshot_path

loopVars == <<pc, needsRedraw, posted, titleDirty>>
appVars == <<filterVars, contentVars, previewVars, loopVars, pendingExport,
             clicks>>

\* What a pass of the loop does, in its order.
Phase == [load |-> 1, debounce |-> 2, receive |-> 3, import |-> 4,
          export |-> 5, preview |-> 6, pollImport |-> 7, pollExport |-> 8,
          pollPreview |-> 9, monitor |-> 10, wait |-> 11, render |-> 12]
Asleep == 13    \* inside glfwWaitEvents

NoExport == "None"

AppInit ==
    /\ FilterInit
    /\ ContentInit
    /\ PreviewInit
    /\ pc = Phase.load
    /\ needsRedraw = TRUE
    /\ posted = TRUE
    /\ titleDirty = FALSE
    /\ pendingExport = NoExport

-----------------------------------------------------------------------------

Ended(key) == {s \in slots : s.key = key /\ s.state # "running"}

HasWork(phase) ==
    CASE phase = "load"        -> \E l \in loads : l.state # "running"
      [] phase = "debounce"    -> pending /\ debounced
      [] phase = "receive"     -> \E t \in tasks : t.state # "running"
      [] phase = "import"      -> pendingImport # NoPath
      [] phase = "export"      -> pendingExport # NoExport
      [] phase = "preview"     -> IF visible
                                    THEN NeedsPreview /\ ~Running(JsonTask)
                                    ELSE dirty
      [] phase = "pollImport"  -> Ended(SnapshotImport) # {}
      [] phase = "pollExport"  -> Ended(SnapshotExport) # {}
      [] phase = "pollPreview" -> Ended(JsonTask) # {}
      [] phase = "monitor"     -> Watching /\ monitor.due
      [] OTHER                 -> TRUE

\* The UI thread comes to a phase, from an earlier one, past phases in which
\* it finds nothing to do, unless it still waits for a superseded task.
Reaches(phase) ==
    /\ ThreadFree
    /\ pc <= Phase[phase]
    /\ HasWork(phase)
    /\ \A p \in DOMAIN Phase :
          pc <= Phase[p] /\ Phase[p] < Phase[phase] => ~HasWork(p)

GoOn(phase) == Reaches(phase) /\ pc' = Phase[phase] + 1

\* request_redraw
RequestRedraw == needsRedraw' = TRUE /\ posted' = TRUE
NoRedraw == UNCHANGED <<needsRedraw, posted>>

\* Mutant: the filter is not told of new content.
FilterNotReset ==
    IF shown' # shown
      THEN /\ Input
           /\ model' = model + 1
           /\ ContentReplaced
           /\ titleDirty' = TRUE
           /\ UNCHANGED <<form, pending, debounced, building, activeTask,
                          nextTask, compiled, cache, buildError, tasks>>
      ELSE UNCHANGED <<filterVars, previewVars, titleDirty>>

\* Mutant: the preview is not told of new content.
PreviewNotTold ==
    IF shown' # shown
      THEN /\ ReplaceModel
           /\ selected' = NoNode
           /\ titleDirty' = TRUE
           /\ UNCHANGED <<sensitive, visible, dirty, builtKey, rendering,
                          text, failed>>
      ELSE UNCHANGED <<filterVars, previewVars, titleDirty>>

\* set_loaded_project and set_loaded_snapshot reset the filter, the preview,
\* the selection and the title together with the content.
FollowContent ==
    IF shown' # shown
      THEN ReplaceModel /\ ContentReplaced /\ titleDirty' = TRUE
      ELSE UNCHANGED <<filterVars, previewVars, titleDirty>>

FilterKept  == UNCHANGED filterVars
ContentKept == UNCHANGED contentOnlyVars
PreviewKept == UNCHANGED previewVars
ExportKept  == UNCHANGED pendingExport
UserKept    == UNCHANGED clicks

-----------------------------------------------------------------------------
(* poll_background_tasks, in its order.                                    *)

PollLoad ==
    /\ GoOn("load")
    /\ \E l \in loads : CollectLoad(l)
    /\ FollowContent
    /\ RequestRedraw
    /\ ExportKept /\ UserKept

PollDebounce ==
    /\ GoOn("debounce")
    /\ StartFilterBuild
    /\ RequestRedraw
    /\ UNCHANGED <<contentVars, titleDirty>>
    /\ PreviewKept /\ ExportKept /\ UserKept

\* The loop over the builds goes on until none is left that has ended.
PollFilters ==
    /\ Reaches("receive")
    /\ pc' = Phase.receive
    /\ \E task \in tasks : ReceiveResult(task) \/ ReceiveError(task)
    /\ RequestRedraw
    /\ UNCHANGED <<contentVars, titleDirty>>
    /\ PreviewKept /\ ExportKept /\ UserKept

PollPendingImport ==
    /\ GoOn("import")
    /\ StartPendingImport
    /\ RequestRedraw
    /\ UNCHANGED titleDirty
    /\ FilterKept /\ PreviewKept /\ ExportKept /\ UserKept

\* collect_filtered_roots: without a valid cache everything is exported.
ExportedTree ==
    IF pendingExport = "FilteredView" /\ cache.valid /\ cache.model = model
      THEN "Filtered" ELSE "Unfiltered"

\* start_snapshot_export
PollPendingExport ==
    /\ GoOn("export")
    /\ Start(SnapshotExport, shown.path)
    /\ pendingExport' = NoExport
    /\ RequestRedraw
    /\ UNCHANGED titleDirty
    /\ FilterKept /\ ContentKept /\ PreviewKept /\ UserKept

PollPreviewStart ==
    /\ GoOn("preview")
    /\ \/ StartPreview /\ RequestRedraw
       \/ SkipHidden /\ NoRedraw
    /\ UNCHANGED titleDirty
    /\ FilterKept /\ ContentKept /\ ExportKept /\ UserKept

PollImport ==
    /\ GoOn("pollImport")
    /\ \E s \in Ended(SnapshotImport) : CollectImport(s)
    /\ FollowContent
    /\ RequestRedraw
    /\ ExportKept /\ UserKept

PollExport ==
    /\ GoOn("pollExport")
    /\ \E s \in Ended(SnapshotExport) : Collect(s, TRUE)
    /\ RequestRedraw
    /\ UNCHANGED titleDirty
    /\ FilterKept /\ ContentKept /\ PreviewKept /\ ExportKept /\ UserKept

PollPreview ==
    /\ GoOn("pollPreview")
    /\ \E s \in Ended(JsonTask) : CollectPreview(s)
    /\ RequestRedraw
    /\ UNCHANGED titleDirty
    /\ FilterKept /\ ContentKept /\ ExportKept /\ UserKept

\* poll_opened_file_recreate asks for a redraw only if it opens the file.
PollMonitor ==
    /\ GoOn("monitor")
    /\ CheckMonitor
    /\ IF nextLoadId' # nextLoadId \/ nextTaskId' # nextTaskId
         THEN RequestRedraw ELSE NoRedraw
    /\ FollowContent
    /\ ExportKept /\ UserKept

-----------------------------------------------------------------------------
(* The rest of Application::run.                                           *)

LoopOnly == FilterKept /\ PreviewKept /\ ExportKept /\ UserKept
            /\ UNCHANGED titleDirty

\* Nothing to wait for: a redraw was asked for.
SkipWait ==
    /\ GoOn("wait")
    /\ needsRedraw
    /\ NoRedraw
    /\ LoopOnly /\ UNCHANGED contentVars

\* The wait returns for an event that was posted before, and then for the
\* sake of one frame.
TakePosted ==
    /\ GoOn("wait")
    /\ ~needsRedraw
    /\ posted
    /\ posted' = FALSE
    /\ needsRedraw' = TRUE
    /\ LoopOnly /\ UNCHANGED contentVars

FallAsleep ==
    /\ Reaches("wait")
    /\ ~needsRedraw
    /\ ~posted
    /\ pc' = Asleep
    /\ NoRedraw
    /\ LoopOnly /\ UNCHANGED contentVars

WakeUp ==
    /\ pc = Asleep
    /\ pc' = Phase.render
    /\ needsRedraw' = TRUE

\* Mutant: the wait has no timeout although a file is watched.
WaitForEver == FALSE /\ UNCHANGED appVars

\* glfwWaitEventsTimeout(1.0): only while a file is watched.  It is a second
\* since the last check of the monitor, and more than the filter debounce.
WaitTimesOut ==
    /\ WakeUp
    /\ Watching
    /\ UNCHANGED posted
    /\ \/ Tick
       \/ monitor.due /\ UNCHANGED contentVars
    /\ LoopOnly

\* The user moves the mouse.
UserEvent ==
    /\ WakeUp
    /\ UNCHANGED posted
    /\ LoopOnly /\ UNCHANGED contentVars

\* The bound on what happens to the program from outside.
UserActs == opens + clicks + changes < MaxUser

\* glfw_drop_callback runs inside the wait.  The start-up file is opened in
\* the same way, just before the loop.
DropWhileWaiting ==
    /\ UserActs
    /\ \/ pc = Asleep
       \/ ~needsRedraw /\ Reaches("wait")
    /\ pc' = Phase.render
    /\ \E path \in Paths : Drop(path)
    /\ RequestRedraw
    /\ FollowContent
    /\ UNCHANGED pendingExport /\ UserKept

Frame(redraw) ==
    /\ Reaches("render")
    /\ pc' = Phase.load
    /\ needsRedraw' = (redraw \/ titleDirty)
    /\ titleDirty' = FALSE

\* A frame in which the user does nothing.
RenderIdle ==
    /\ Frame(FALSE)
    /\ UNCHANGED posted
    /\ UNCHANGED contentVars
    /\ FilterKept /\ PreviewKept /\ ExportKept /\ UserKept

RenderFilterEdit ==
    /\ UserActs
    /\ Click
    /\ Frame(FALSE)
    /\ \/ \E t \in Texts : EditText(t)
       \/ \E f \in Flags : EditFlags(f)
    /\ UNCHANGED <<posted, contentVars>>
    /\ PreviewKept /\ ExportKept

RenderPreviewClick ==
    /\ UserActs
    /\ Click
    /\ Frame(TRUE)
    /\ TogglePreview \/ ToggleSensitive \/ \E n \in Nodes : Select(n)
    /\ UNCHANGED <<posted, contentVars>>
    /\ FilterKept /\ ExportKept

\* The export dialog; it is closed to a user without content.
RenderExportClick ==
    /\ UserActs
    /\ Click
    /\ Frame(FALSE)
    /\ shown # Nothing
    /\ ~Running(SnapshotExport)
    /\ pendingExport' \in {"FullModel", "FilteredView"}
    /\ UNCHANGED <<posted, contentVars>>
    /\ FilterKept /\ PreviewKept

RenderImportClick ==
    /\ UserActs
    /\ Frame(FALSE)
    /\ \E path \in Paths : ImportFromDialog(path)
    /\ UNCHANGED posted
    /\ FilterKept /\ PreviewKept /\ ExportKept /\ UserKept

\* start_elf_load is called within the frame, after MainWindow::render; a
\* load that is not in the background replaces the content at once.
RenderOpenClick ==
    /\ UserActs
    /\ Reaches("render")
    /\ pc' = Phase.load
    /\ \E path \in Paths : OpenElfFromDialog(path)
    /\ IF shown' # shown
         THEN ReplaceModel /\ ContentReplaced
         ELSE FilterKept /\ PreviewKept
    /\ titleDirty' = FALSE
    /\ RequestRedraw
    /\ ExportKept /\ UserKept

Render == \/ RenderIdle
          \/ RenderFilterEdit
          \/ RenderPreviewClick
          \/ RenderExportClick
          \/ RenderImportClick
          \/ RenderOpenClick

UIThread ==
    \/ PollLoad
    \/ PollDebounce
    \/ PollFilters
    \/ PollPendingImport
    \/ PollPendingExport
    \/ PollPreviewStart
    \/ PollImport
    \/ PollExport
    \/ PollPreview
    \/ PollMonitor
    \/ SkipWait
    \/ TakePosted
    \/ FallAsleep
    \/ WaitTimesOut
    \/ Render

-----------------------------------------------------------------------------
(* Workers and time.                                                       *)

Elsewhere == UNCHANGED <<loopVars, pendingExport, clicks>>

FilterWorker(id) ==
    /\ \E task \in tasks : /\ task.id = id
                           /\ FinishBuild(task) \/ ThrowBuild(task)
    /\ UNCHANGED contentVars
    /\ PreviewKept /\ Elsewhere

TimePasses ==
    /\ DebounceElapses
    /\ UNCHANGED contentVars
    /\ PreviewKept /\ Elsewhere

LoadWorkerEnds == LoadWorker /\ FilterKept /\ PreviewKept /\ Elsewhere

SupersededEnds ==
    /\ SupersededLoadEnds \/ SupersededImportEnds
    /\ FilterKept /\ PreviewKept /\ Elsewhere

\* What a task returns is what it was given when it was started.
SlotWorker(s) ==
    \/ ImportReads(s)
    \/ ImportFails(s)
    \/ /\ s.key = SnapshotExport
       /\ Succeed(s, s.detail) \/ FailTask(s)
       /\ ContentKept
    \/ PreviewWorker(s) /\ ContentKept

TaskWorker(key) ==
    /\ \E s \in slots : s.key = key /\ SlotWorker(s)
    /\ FilterKept /\ PreviewKept /\ Elsewhere

FileChanges ==
    /\ UserActs
    /\ \E path \in Paths : Delete(path) \/ Write(path)
    /\ FilterKept /\ PreviewKept /\ Elsewhere

AppNext ==
    \/ UIThread
    \/ UserEvent
    \/ DropWhileWaiting
    \/ \E id \in 1..MaxInputs : FilterWorker(id)
    \/ TimePasses
    \/ LoadWorkerEnds
    \/ SupersededEnds
    \/ \E key \in Keys : TaskWorker(key)
    \/ FileChanges

AppSafety == AppInit /\ [][AppNext]_appVars

AppFairness ==
    /\ WF_appVars(UIThread)
    /\ WF_appVars(TimePasses)
    /\ \A id \in 1..MaxInputs : WF_appVars(FilterWorker(id))
    /\ WF_appVars(LoadWorkerEnds)
    /\ WF_appVars(SupersededEnds)
    /\ \A key \in Keys : WF_appVars(TaskWorker(key))

AppSpec == AppSafety /\ AppFairness

-----------------------------------------------------------------------------
(* Properties; PreviewCatchesUp, FilterSettles and LoadingEnds are checked *)
(* of AppSpec too, whose fairness is that of the one thread that runs them *)
(* all.                                                                    *)

\* README.md:108 offers the "current filter result" as source of an export:
\* an export started with it writes the result of the filter.
FilteredExportIsFiltered ==
    [][PollPendingExport /\ pendingExport = "FilteredView"
        => ExportedTree = "Filtered"]_appVars
=============================================================================

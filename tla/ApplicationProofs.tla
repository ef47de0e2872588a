-------------------------- MODULE ApplicationProofs --------------------------
(***************************************************************************)
(* What was proved of the filter and of the loading holds of the whole     *)
(* program, in which one thread runs them in a fixed order, and the JSON   *)
(* preview, which depends on both and on the task runner, is current.      *)
(*                                                                         *)
(* A step of Application is a step of the filter or leaves it alone        *)
(* (FilterMoves); it is a step of the loading, or one of another task of   *)
(* the runner that the loading shares (ContentMoves); and it changes what  *)
(* the preview shows only together with the flag that says so              *)
(* (PreviewMoves).                                                         *)
(***************************************************************************)
EXTENDS Application, FilterPipelineProofs, ContentLoadingProofs

-----------------------------------------------------------------------------
(* The filter.                                                             *)

LEMMA FollowedByFilter ==
    ASSUME FollowContent PROVE [FilterNext]_filterVars
    BY DEF FollowContent, FilterNext, UserStep

LEMMA FilterMoves == [AppNext]_appVars => [FilterNext]_filterVars
<1> SUFFICES ASSUME [AppNext]_appVars PROVE [FilterNext]_filterVars
    OBVIOUS
<1>1. CASE PollLoad \/ PollImport \/ PollMonitor \/ DropWhileWaiting
    BY <1>1, FollowedByFilter
       DEF PollLoad, PollImport, PollMonitor, DropWhileWaiting
<1>2. CASE PollDebounce
    BY <1>2 DEF PollDebounce, FilterNext
<1>3. CASE PollFilters
    BY <1>3 DEF PollFilters, FilterNext, TaskStep
<1>4. CASE \/ PollPendingImport \/ PollPendingExport \/ PollPreviewStart
           \/ PollExport \/ PollPreview
    BY <1>4 DEF PollPendingImport, PollPendingExport, PollPreviewStart,
                PollExport, PollPreview, FilterKept
<1>5. CASE SkipWait \/ TakePosted \/ FallAsleep \/ WaitTimesOut \/ UserEvent
    BY <1>5 DEF SkipWait, TakePosted, FallAsleep, WaitTimesOut, UserEvent,
                LoopOnly, FilterKept
<1>6. CASE RenderFilterEdit
    BY <1>6 DEF RenderFilterEdit, FilterNext, UserStep
<1>7. CASE RenderOpenClick
    BY <1>7 DEF RenderOpenClick, FilterKept, FilterNext, UserStep
<1>8. CASE RenderIdle \/ RenderPreviewClick \/ RenderExportClick \/ RenderImportClick
    BY <1>8 DEF RenderIdle, RenderPreviewClick, RenderExportClick,
                RenderImportClick, FilterKept
<1>9. CASE \E id \in 1..MaxInputs : FilterWorker(id)
    BY <1>9 DEF FilterWorker, FilterNext, TaskStep
<1>10. CASE TimePasses
    BY <1>10 DEF TimePasses, FilterNext
<1>11. CASE \/ LoadWorkerEnds \/ SupersededEnds \/ FileChanges
            \/ \E key \in Keys : TaskWorker(key)
    BY <1>11 DEF LoadWorkerEnds, SupersededEnds, FileChanges, TaskWorker,
                 FilterKept
<1>12. CASE UNCHANGED appVars
    BY <1>12 DEF appVars, filterVars
<1> QED
    BY <1>1, <1>2, <1>3, <1>4, <1>5, <1>6, <1>7, <1>8, <1>9, <1>10, <1>11,
       <1>12 DEF AppNext, UIThread, Render

\* To the filter, the run loop is one of the orders it allows: polls in any
\* order, loads and edits at any time.
THEOREM ApplicationFilters == AppSafety => FilterSafety
<1>1. AppInit => FilterInit
    BY DEF AppInit
<1> QED BY <1>1, FilterMoves, PTL DEF AppSafety, FilterSafety

\* In the whole program, too, the panel shows a tree only for the model and
\* the form of that moment, whatever is loaded, imported or reopened by the
\* monitor while builds are under way.
THEOREM PanelOfApplication == AppSafety => PanelIsView
    BY ApplicationFilters, PipelineImplementsView

-----------------------------------------------------------------------------
(* The content.                                                            *)

\* What the run loop does with the tasks of the runner that are not imports.
ExportStep ==
    \/ shown # Nothing /\ Start(SnapshotExport, shown.path)
    \/ \E s \in slots :
           /\ s.key = SnapshotExport
           /\ Succeed(s, s.detail) \/ FailTask(s) \/ Collect(s, TRUE)

PreviewTaskStep ==
    StartPreview \/ \E s \in slots : PreviewWorker(s) \/ CollectPreview(s)

OtherTaskStep ==
    ExportStep \/ PreviewTaskStep \/ SkipHidden \/ UNCHANGED runnerVars

\* An export is chosen over content, and content never goes away.
ExportHasContent == pendingExport # NoExport => shown # Nothing

ContentMove ==
    \/ [ContentNext]_contentVars
    \/ OtherTaskStep /\ UNCHANGED contentOnlyVars

LEMMA ContentMoves ==
    ASSUME ExportHasContent, [AppNext]_appVars PROVE ContentMove
<1> USE DEF ContentMove
<1>1. CASE PollLoad \/ PollImport \/ PollPendingImport
    BY <1>1 DEF PollLoad, PollImport, PollPendingImport, ContentNext, Polls,
                Ended
<1>2. CASE PollMonitor \/ WaitTimesOut
    BY <1>2 DEF PollMonitor, WaitTimesOut, ContentNext, Polls
<1>3. CASE \/ PollDebounce \/ PollFilters \/ SkipWait \/ TakePosted
           \/ FallAsleep \/ UserEvent
    BY <1>3 DEF PollDebounce, PollFilters, SkipWait, TakePosted, FallAsleep,
                UserEvent
<1>4. CASE PollPendingExport \/ PollExport
    BY <1>4 DEF PollPendingExport, PollExport, ContentKept, OtherTaskStep,
                ExportStep, Ended, ExportHasContent, Reaches, HasWork, GoOn
<1>5. CASE PollPreviewStart \/ PollPreview
    BY <1>5 DEF PollPreviewStart, PollPreview, ContentKept, OtherTaskStep,
                PreviewTaskStep, Ended
<1>6. CASE DropWhileWaiting \/ RenderImportClick \/ RenderOpenClick
    BY <1>6 DEF DropWhileWaiting, RenderImportClick, RenderOpenClick,
                ContentNext, UserOpensFile
<1>7. CASE \/ RenderIdle \/ RenderFilterEdit \/ RenderPreviewClick
           \/ RenderExportClick
    BY <1>7 DEF RenderIdle, RenderFilterEdit, RenderPreviewClick,
                RenderExportClick
<1>8. CASE TimePasses \/ \E id \in 1..MaxInputs : FilterWorker(id)
    BY <1>8 DEF TimePasses, FilterWorker
<1>9. CASE LoadWorkerEnds \/ SupersededEnds \/ FileChanges
    BY <1>9 DEF LoadWorkerEnds, SupersededEnds, FileChanges, ContentNext
<1>10. ASSUME NEW s \in slots, SlotWorker(s) PROVE ContentMove
    BY <1>10 DEF SlotWorker, ContentNext, ImportWorker, ContentKept,
                 OtherTaskStep, ExportStep, PreviewTaskStep
<1>11. CASE \E key \in Keys : TaskWorker(key)
    BY <1>10, <1>11 DEF TaskWorker
<1>12. CASE UNCHANGED appVars
    BY <1>12 DEF appVars
<1> QED
    BY <1>1, <1>2, <1>3, <1>4, <1>5, <1>6, <1>7, <1>8, <1>9, <1>11, <1>12
    DEF AppNext, UIThread, Render

-----------------------------------------------------------------------------
(* The other tasks of the runner leave imports alone.                      *)

LEMMA OtherTaskRunnerStep ==
    ASSUME ContentInv, OtherTaskStep, UNCHANGED contentOnlyVars
    PROVE  RunnerInv'
<1> USE DEF ContentInv, ImportInv
<1>1. CASE shown # Nothing /\ Start(SnapshotExport, shown.path)
  <2>1. SnapshotExport \in Keys /\ shown.path \in Details
      BY <1>1, ExportAssumption, ContentAssumption
         DEF LoadInv, ContentTypes, Contents
  <2> QED BY <1>1, <2>1, StartStep
<1>2. CASE StartPreview
  <2>1. JsonTask \in Keys /\ PreviewLabel \in Details
      BY PreviewAssumption, RunnerAssumption
  <2> QED BY <1>2, <2>1, StartStep DEF StartPreview
<1>3. ASSUME NEW s \in slots, NEW result, Succeed(s, result) PROVE RunnerInv'
    BY <1>3, SucceedStep
<1>4. ASSUME NEW s \in slots, FailTask(s) PROVE RunnerInv'
    BY <1>4, FailStep
<1>5. ASSUME NEW s \in slots, Collect(s, TRUE) PROVE RunnerInv'
    BY <1>5, CollectStep
<1>6. CASE SkipHidden \/ UNCHANGED runnerVars
    BY <1>6, RunnerStutter DEF SkipHidden
<1> QED
    BY <1>1, <1>2, <1>3, <1>4, <1>5, <1>6
    DEF OtherTaskStep, ExportStep, PreviewTaskStep, PreviewWorker,
        CollectPreview

\* A step of the runner that is about one key.
KeyStep(key) ==
    \/ \E detail : Start(key, detail)
    \/ \E s \in slots :
           /\ s.key = key
           /\ (\E result : Succeed(s, result)) \/ FailTask(s)
              \/ \E usable : Collect(s, usable)
    \/ UNCHANGED <<slots, uiTasks>>

SlotsOf(key) == {s \in slots : s.key = key}

\* It changes neither the slot nor the state of another.
LEMMA OtherKeysKept ==
    ASSUME RunnerInv, NEW key \in Keys, NEW other \in Keys \ {key}, KeyStep(key)
    PROVE  SlotsOf(other)' = SlotsOf(other) /\ uiTasks'[other] = uiTasks[other]
<1> USE DEF RunnerInv, RunnerTypeOK, SlotsOf
<1>1. ASSUME NEW detail, Start(key, detail)
      PROVE  SlotsOf(other)' = SlotsOf(other) /\ uiTasks'[other] = uiTasks[other]
  <2> DEFINE new == [key |-> key, id |-> nextTaskId, detail |-> detail,
                     state |-> "running"]
             state == [status |-> "Running", id |-> nextTaskId, detail |-> detail]
  <2>1. /\ slots' = {s \in slots : s.key # key} \cup {new}
        /\ uiTasks' = [uiTasks EXCEPT ![key] = state]
        /\ new.key = key
      BY <1>1, Zenon DEF Start
  <2> HIDE DEF new, state
  <2> QED BY <2>1
<1>2. ASSUME NEW s \in slots, s.key = key, NEW new, new.key = key,
             slots' = (slots \ {s}) \cup {new}, UNCHANGED uiTasks
      PROVE  SlotsOf(other)' = SlotsOf(other) /\ uiTasks'[other] = uiTasks[other]
    BY <1>2
<1>3. ASSUME NEW s \in slots, s.key = key, NEW result, Succeed(s, result)
      PROVE  SlotsOf(other)' = SlotsOf(other) /\ uiTasks'[other] = uiTasks[other]
  <2> DEFINE new == [key |-> s.key, id |-> s.id, detail |-> s.detail,
                     state |-> "succeeded", result |-> result]
  <2>1. /\ slots' = (slots \ {s}) \cup {new} /\ UNCHANGED uiTasks
        /\ new.key = key
      BY <1>3, Zenon DEF Succeed
  <2> HIDE DEF new
  <2> QED BY <1>2, <1>3, <2>1
<1>4. ASSUME NEW s \in slots, s.key = key, FailTask(s)
      PROVE  SlotsOf(other)' = SlotsOf(other) /\ uiTasks'[other] = uiTasks[other]
  <2> DEFINE new == [s EXCEPT !.state = "failed"]
  <2>1. slots' = (slots \ {s}) \cup {new} /\ UNCHANGED uiTasks
        /\ s.state = "running" /\ IsSlot(s)
      BY <1>4, Zenon DEF FailTask
  <2>2. new.key = key
      BY <1>4, <2>1, FailedSlot
  <2> HIDE DEF new
  <2> QED BY <1>2, <1>4, <2>1, <2>2
<1>5. ASSUME NEW s \in slots, s.key = key, NEW usable, Collect(s, usable)
      PROVE  SlotsOf(other)' = SlotsOf(other) /\ uiTasks'[other] = uiTasks[other]
  <2>1. slots' = slots \ {s}
      BY <1>5 DEF Collect
  <2>2. PICK status :
          uiTasks' = IF uiTasks[key].id = s.id
                     THEN [uiTasks EXCEPT ![key].status = status] ELSE uiTasks
      BY <1>5, Zenon DEF Collect, Report
  <2>3. uiTasks'[other] = uiTasks[other]
      BY <2>2
  <2> QED BY <1>5, <2>1, <2>3
<1>6. CASE UNCHANGED <<slots, uiTasks>>
    BY <1>6
<1> QED BY <1>1, <1>3, <1>4, <1>5, <1>6 DEF KeyStep

LEMMA OtherTaskIsOther ==
    ASSUME OtherTaskStep PROVE KeyStep(SnapshotExport) \/ KeyStep(JsonTask)
<1>1. CASE ExportStep
    BY <1>1 DEF ExportStep, KeyStep
<1>2. CASE PreviewTaskStep
    BY <1>2 DEF PreviewTaskStep, StartPreview, PreviewWorker, CollectPreview,
                KeyStep
<1>3. CASE SkipHidden \/ UNCHANGED runnerVars
    BY <1>3 DEF SkipHidden, runnerVars, KeyStep
<1> QED BY <1>1, <1>2, <1>3 DEF OtherTaskStep

LEMMA OtherTaskContent ==
    ASSUME ContentInv, OtherTaskStep, UNCHANGED contentOnlyVars
    PROVE  ContentInv' /\ NewestShown
<1>1. LoadInv' /\ NewestShown
    BY LoadStutter DEF ContentInv, NewestShown, contentOnlyVars
<1>2. RunnerInv'
    BY OtherTaskRunnerStep
<1>3. SlotsOf(SnapshotImport)' = SlotsOf(SnapshotImport)
  <2>1. /\ SnapshotImport \in Keys \ {SnapshotExport, JsonTask}
        /\ SnapshotExport \in Keys /\ JsonTask \in Keys
      BY ContentAssumption, ExportAssumption, PreviewAssumption,
         RunnerAssumption
  <2> QED BY <2>1, OtherTaskIsOther, OtherKeysKept DEF ContentInv, ImportInv
<1>4. ImportsRead'
    BY <1>3 DEF SlotsOf, ContentInv, ImportInv, ImportsRead
<1> QED BY <1>1, <1>2, <1>4 DEF ContentInv, ImportInv

AppContentInv == ContentInv /\ ExportHasContent

LEMMA AppContentStep ==
    ASSUME AppContentInv, [AppNext]_appVars
    PROVE  AppContentInv' /\ NewestShown
<1>1. ContentMove
    BY ContentMoves DEF AppContentInv
<1>2. ContentInv' /\ NewestShown
    BY <1>1, ContentNextStep, ContentStutter, OtherTaskContent
       DEF ContentMove, AppContentInv
<1>3. UNCHANGED pendingExport \/ pendingExport' = NoExport
      \/ RenderExportClick
    BY DEF AppNext, UIThread, Render, PollLoad, PollDebounce, PollFilters,
           PollPendingImport, PollPendingExport, PollPreviewStart, PollImport,
           PollExport, PollPreview, PollMonitor, SkipWait, TakePosted,
           FallAsleep, WaitTimesOut, UserEvent, DropWhileWaiting, RenderIdle,
           RenderFilterEdit, RenderPreviewClick, RenderImportClick,
           RenderOpenClick, FilterWorker, TimePasses, LoadWorkerEnds,
           SupersededEnds, TaskWorker, FileChanges, Elsewhere, LoopOnly,
           ExportKept, appVars
<1>4. ExportHasContent'
    BY <1>2, <1>3 DEF RenderExportClick, NewestShown, ExportHasContent,
                      AppContentInv, contentVars, contentOnlyVars
<1> QED BY <1>2, <1>4 DEF AppContentInv

LEMMA AppContentInvariant == AppSafety => []AppContentInv
<1>1. AppInit => AppContentInv
    BY ContentInitInv DEF AppInit, AppContentInv, ExportHasContent
<1>2. AppContentInv /\ [AppNext]_appVars => AppContentInv'
    BY AppContentStep
<1> QED BY <1>1, <1>2, PTL DEF AppSafety

\* In the whole program, in which exports and previews share the runner with
\* the imports, the title, the monitor and the bytes shown are of one file,
\* and what is displayed as running is what runs.
THEOREM ContentOfApplication ==
    AppSafety => [](ContentTypeOK /\ ShownIsWhatItSays /\ LoadMatchesFuture
                    /\ SlotsMatchStates)
<1>1. AppContentInv => /\ ContentTypeOK /\ ShownIsWhatItSays
                       /\ LoadMatchesFuture /\ SlotsMatchStates
    BY DEF AppContentInv, ContentInv, LoadInv, ImportInv, RunnerInv,
           ImportsRead, ContentTypeOK
<1> QED BY <1>1, AppContentInvariant, PTL

\* A superseded load or import is never shown, whichever pass of the loop
\* collects it.
THEOREM NewestInApplication == AppSafety => NewestOfItsKind
<1>1. AppContentInv /\ [AppNext]_appVars => [NewestShown]_contentVars
    BY AppContentStep
<1>2. AppSafety => [][NewestShown]_contentVars
    BY <1>1, AppContentInvariant, PTL DEF AppSafety
<1> QED BY <1>2 DEF NewestOfItsKind, NewestShown

\* Nor does a reload by the monitor ever block the thread that draws.
THEOREM ReopenInApplication == AppSafety => ReopenNeverBlocks
<1>1. AppContentInv /\ [AppNext]_appVars
        => [CheckMonitor => ThreadFree']_contentVars
    BY ReopenIsFree DEF AppContentInv
<1>2. AppSafety => [][CheckMonitor => ThreadFree']_contentVars
    BY <1>1, AppContentInvariant, PTL DEF AppSafety
<1> QED BY <1>2 DEF ReopenNeverBlocks

-----------------------------------------------------------------------------
(* The preview.                                                            *)

LEMMA LoadFileIsImport ==
    ASSUME NEW path, NEW watch, LoadFile(path, watch)
    PROVE  KeyStep(SnapshotImport)
    BY DEF LoadFile, StartImport, StartElfLoad, runnerVars, KeyStep

LEMMA ContentIsImport ==
    ASSUME [ContentNext]_contentVars PROVE KeyStep(SnapshotImport)
<1>1. CASE UserOpensFile
  <2>1. PICK path \in Paths :
          Drop(path) \/ OpenElfFromDialog(path) \/ ImportFromDialog(path)
      BY <1>1 DEF UserOpensFile
  <2>2. CASE Drop(path)
      BY <2>2, LoadFileIsImport DEF Drop
  <2> QED BY <2>1, <2>2 DEF OpenElfFromDialog, StartElfLoad,
             ImportFromDialog, runnerVars, KeyStep
<1>2. CASE LoadWorker \/ SupersededLoadEnds \/ SupersededImportEnds \/ Tick
           \/ (\E path \in Paths : Delete(path) \/ Write(path))
           \/ UNCHANGED contentVars
    BY <1>2 DEF LoadWorker, LoadSucceeds, LoadThrows, EndLoad,
                SupersededLoadEnds, SupersededImportEnds, JoinEnds, Tick,
                Delete, Write, ChangeFile, contentVars, runnerVars, KeyStep
<1>3. CASE ImportWorker
    BY <1>3 DEF ImportWorker, ImportReads, ImportFails, KeyStep
<1>4. CASE \/ \E l \in loads : CollectLoad(l)
           \/ StartPendingImport
           \/ \E slot \in slots : CollectImport(slot)
    BY <1>4 DEF CollectLoad, StartPendingImport, StartImport, CollectImport,
                runnerVars, KeyStep
<1>5. CASE CheckMonitor
  <2>1. CASE ObserveAbsence \/ ObservePresence
      BY <2>1 DEF ObserveAbsence, ObservePresence, runnerVars, KeyStep
  <2>2. CASE Reopen
      BY <2>2, LoadFileIsImport DEF Reopen
  <2> QED BY <1>5, <2>1, <2>2 DEF CheckMonitor
<1> QED BY <1>1, <1>2, <1>3, <1>4, <1>5 DEF ContentNext, Polls

PreviewClick == TogglePreview \/ ToggleSensitive \/ \E n \in Nodes : Select(n)

\* What a step means to the preview: what it shows changes only together with
\* the flag that says so.
PreviewMove ==
    \/ /\ UNCHANGED <<previewVars, shown>>
       /\ KeyStep(SnapshotImport) \/ KeyStep(SnapshotExport)
    \/ /\ UNCHANGED <<previewVars, shown>>
       /\ \E s \in slots : PreviewWorker(s)
    \/ ContentReplaced /\ KeyStep(SnapshotImport)
    \/ PreviewClick /\ UNCHANGED <<shown, slots, uiTasks>>
    \/ SkipHidden /\ UNCHANGED shown
    \/ StartPreview /\ UNCHANGED shown
    \/ (\E s \in slots : CollectPreview(s)) /\ UNCHANGED shown

LEMMA ImportMoves ==
    ASSUME [ContentNext]_contentVars,
           \/ FollowContent
           \/ UNCHANGED <<previewVars, shown>>
           \/ ContentReplaced
    PROVE  PreviewMove
    BY ContentIsImport DEF FollowContent, PreviewMove

LEMMA PreviewMoves == ASSUME [AppNext]_appVars PROVE PreviewMove
<1> USE DEF PreviewKept, ContentKept, LoopOnly
<1>1. CASE \/ PollLoad \/ PollImport \/ PollMonitor \/ DropWhileWaiting
  <2>1. FollowContent /\ ContentNext
      BY <1>1 DEF PollLoad, PollImport, PollMonitor, DropWhileWaiting,
                  ContentNext, Polls, UserOpensFile, Ended
  <2> QED BY <2>1, ImportMoves
<1>2. CASE RenderOpenClick
  <2>1. ContentNext
      BY <1>2 DEF RenderOpenClick, ContentNext, UserOpensFile
  <2>2. ContentReplaced \/ UNCHANGED <<previewVars, shown>>
      BY <1>2 DEF RenderOpenClick
  <2> QED BY <2>1, <2>2, ImportMoves
<1>3. CASE \/ PollPendingImport \/ WaitTimesOut \/ RenderImportClick
           \/ LoadWorkerEnds \/ SupersededEnds \/ FileChanges
  <2>1. [ContentNext]_contentVars
      BY <1>3 DEF PollPendingImport, WaitTimesOut, RenderImportClick,
                  LoadWorkerEnds, SupersededEnds, FileChanges, ContentNext,
                  Polls, UserOpensFile
  <2>2. UNCHANGED previewVars
      BY <1>3 DEF PollPendingImport, WaitTimesOut, RenderImportClick,
                  LoadWorkerEnds, SupersededEnds, FileChanges
  <2>3. UNCHANGED shown
    <3>1. CASE PollPendingImport
        BY <3>1 DEF PollPendingImport, StartPendingImport, StartImport
    <3>2. CASE WaitTimesOut
        BY <3>2 DEF WaitTimesOut, Tick, contentVars, contentOnlyVars
    <3>3. CASE RenderImportClick
        BY <3>3 DEF RenderImportClick, ImportFromDialog
    <3>4. CASE LoadWorkerEnds \/ SupersededEnds
        BY <3>4 DEF LoadWorkerEnds, LoadWorker, LoadSucceeds, LoadThrows,
                    EndLoad, WorkerUnchanged, SupersededEnds,
                    SupersededLoadEnds, SupersededImportEnds, contentOnlyVars
    <3>5. CASE FileChanges
        BY <3>5 DEF FileChanges, Delete, Write, ChangeFile
    <3> QED BY <1>3, <3>1, <3>2, <3>3, <3>4, <3>5
  <2> QED BY <2>1, <2>2, <2>3, ImportMoves
<1>4. CASE \/ PollDebounce \/ PollFilters \/ SkipWait \/ TakePosted
           \/ FallAsleep \/ UserEvent \/ RenderIdle \/ RenderFilterEdit
           \/ RenderExportClick \/ TimePasses \/ UNCHANGED appVars
           \/ \E id \in 1..MaxInputs : FilterWorker(id)
  <2>1. UNCHANGED <<previewVars, contentVars>>
      BY <1>4 DEF PollDebounce, PollFilters, SkipWait, TakePosted, FallAsleep,
                  UserEvent, RenderIdle, RenderFilterEdit, RenderExportClick,
                  TimePasses, FilterWorker, appVars
  <2>2. UNCHANGED shown
      BY <2>1 DEF contentVars, contentOnlyVars
  <2> QED BY <2>1, <2>2, ImportMoves
<1>5. CASE PollPendingExport \/ PollExport
  <2>1. /\ UNCHANGED <<previewVars, shown>>
        /\ KeyStep(SnapshotExport)
      BY <1>5 DEF PollPendingExport, PollExport, Ended, contentOnlyVars,
                  KeyStep
  <2> QED BY <2>1 DEF PreviewMove
<1>6. CASE PollPreviewStart \/ PollPreview
    BY <1>6 DEF PollPreviewStart, PollPreview, Ended, contentOnlyVars,
                PreviewMove
<1>7. CASE RenderPreviewClick
    BY <1>7 DEF RenderPreviewClick, contentVars, contentOnlyVars, runnerVars,
                PreviewClick, PreviewMove
<1>8. ASSUME NEW s \in slots, SlotWorker(s), UNCHANGED previewVars
      PROVE  PreviewMove
  <2>1. UNCHANGED shown
      BY <1>8 DEF SlotWorker, ImportReads, ImportFails, contentOnlyVars
  <2> QED BY <1>8, <2>1
          DEF SlotWorker, ImportReads, ImportFails, KeyStep, PreviewMove
<1>9. CASE \E key \in Keys : TaskWorker(key)
    BY <1>8, <1>9 DEF TaskWorker
<1> QED
    BY <1>1, <1>2, <1>3, <1>4, <1>5, <1>6, <1>7, <1>9
    DEF AppNext, UIThread, Render

\* What a preview task returns is what the last one was given: an earlier one
\* is not left, because none is started while one runs.
TaskRendersLast ==
    \A s \in slots : s.key = JsonTask /\ s.state = "succeeded"
                       => s.result = rendering

\* A preview that is visible and not dirty was started from what is there
\* now.  NeedsPreview never has to ask the key: the flag says it all.
BuiltFromSource == visible /\ ~dirty => rendering = Source /\ builtKey = CacheKey

\* And once its task has ended well, its text is what it was given.
TextOfLast ==
    visible /\ ~dirty /\ ~Running(JsonTask) /\ ~failed => text = rendering

PreviewInv == TaskRendersLast /\ BuiltFromSource /\ TextOfLast

\* The task of the preview is kept by the steps of the other tasks.
LEMMA PreviewTaskKept ==
    ASSUME RunnerInv, KeyStep(SnapshotImport) \/ KeyStep(SnapshotExport)
    PROVE  /\ SlotsOf(JsonTask)' = SlotsOf(JsonTask)
           /\ Running(JsonTask)' <=> Running(JsonTask)
<1>1. /\ JsonTask \in Keys \ {SnapshotImport, SnapshotExport}
      /\ SnapshotImport \in Keys /\ SnapshotExport \in Keys
    BY ContentAssumption, ExportAssumption, PreviewAssumption, RunnerAssumption
<1> QED BY <1>1, OtherKeysKept DEF Running

LEMMA ViewKept ==
    ASSUME UNCHANGED <<selected, sensitive, shown>>
    PROVE  Source' = Source /\ CacheKey' = CacheKey
    BY DEF Source, CacheKey, Resolved

LEMMA CollectPreviewStep ==
    ASSUME RunnerInv, PreviewInv, NEW s \in slots, CollectPreview(s),
           UNCHANGED shown
    PROVE  PreviewInv'
<1> USE DEF CollectPreview, PreviewInv
<1>1. JsonTask \in Keys /\ s.key = JsonTask /\ uiTasks[JsonTask].id = s.id
    BY PreviewAssumption, RunnerAssumption DEF RunnerInv, SlotsMatchStates
<1>2. slots' = slots \ {s}
    BY DEF Collect
<1>3. TaskRendersLast'
    BY <1>2 DEF TaskRendersLast
<1>4. BuiltFromSource'
    BY ViewKept DEF BuiltFromSource
<1>5. TextOfLast'
    BY <1>1 DEF TextOfLast, TaskRendersLast
<1> QED BY <1>3, <1>4, <1>5

LEMMA StartPreviewStep ==
    ASSUME RunnerInv, StartPreview, UNCHANGED shown PROVE PreviewInv'
<1> USE DEF StartPreview
<1> DEFINE new == [key |-> JsonTask, id |-> nextTaskId,
                   detail |-> PreviewLabel, state |-> "running"]
           state == [status |-> "Running", id |-> nextTaskId,
                     detail |-> PreviewLabel]
<1>1. /\ slots' = {s \in slots : s.key # JsonTask} \cup {new}
      /\ uiTasks' = [uiTasks EXCEPT ![JsonTask] = state]
    BY Zenon DEF Start
<1>2. new.state = "running" /\ state.status = "Running"
    OBVIOUS
<1> HIDE DEF new, state
<1>3. JsonTask \in Keys /\ uiTasks'[JsonTask] = state
    BY <1>1, PreviewAssumption, RunnerAssumption DEF RunnerInv, RunnerTypeOK
<1>4. TaskRendersLast'
    BY <1>1, <1>2 DEF TaskRendersLast
<1>5. BuiltFromSource'
    BY ViewKept DEF BuiltFromSource
<1>6. TextOfLast'
    BY <1>2, <1>3 DEF TextOfLast, Running
<1> QED BY <1>4, <1>5, <1>6 DEF PreviewInv

LEMMA PreviewWorkerStep ==
    ASSUME RunnerInv, PreviewInv, NEW s \in slots, PreviewWorker(s),
           UNCHANGED <<previewVars, shown>>
    PROVE  PreviewInv'
<1> USE DEF PreviewInv, previewVars
<1>1. UNCHANGED uiTasks
    BY DEF PreviewWorker, Succeed, FailTask
<1>2. TaskRendersLast'
  <2>1. CASE Succeed(s, rendering)
    <3> DEFINE new == [key |-> s.key, id |-> s.id, detail |-> s.detail,
                       state |-> "succeeded", result |-> rendering]
    <3>1. slots' = (slots \ {s}) \cup {new} /\ new.result = rendering
        BY <2>1, Zenon DEF Succeed
    <3> HIDE DEF new
    <3> QED BY <3>1 DEF TaskRendersLast
  <2>2. CASE FailTask(s)
    <3> DEFINE new == [s EXCEPT !.state = "failed"]
    <3>1. slots' = (slots \ {s}) \cup {new} /\ s.state = "running"
          /\ IsSlot(s)
        BY <2>2, Zenon DEF FailTask, RunnerInv, RunnerTypeOK
    <3>2. new.state = "failed"
        BY <3>1, FailedSlot
    <3> HIDE DEF new
    <3> QED BY <3>1, <3>2 DEF TaskRendersLast
  <2> QED BY <2>1, <2>2 DEF PreviewWorker
<1>3. BuiltFromSource'
    BY ViewKept DEF BuiltFromSource
<1>4. TextOfLast'
    BY <1>1 DEF TextOfLast, Running
<1> QED BY <1>2, <1>3, <1>4

LEMMA PreviewStep ==
    ASSUME RunnerInv, PreviewInv, PreviewMove PROVE PreviewInv'
<1> USE DEF PreviewInv
<1>1. CASE /\ UNCHANGED <<previewVars, shown>>
           /\ KeyStep(SnapshotImport) \/ KeyStep(SnapshotExport)
  <2>1. TaskRendersLast'
      BY <1>1, PreviewTaskKept DEF TaskRendersLast, SlotsOf, previewVars
  <2>2. BuiltFromSource'
      BY <1>1, ViewKept DEF BuiltFromSource, previewVars
  <2>3. TextOfLast'
      BY <1>1, PreviewTaskKept DEF TextOfLast, previewVars
  <2> QED BY <2>1, <2>2, <2>3
<1>2. CASE /\ UNCHANGED <<previewVars, shown>>
           /\ \E s \in slots : PreviewWorker(s)
    BY <1>2, PreviewWorkerStep
<1>3. CASE ContentReplaced /\ KeyStep(SnapshotImport)
  <2>1. TaskRendersLast'
      BY <1>3, PreviewTaskKept DEF TaskRendersLast, SlotsOf, ContentReplaced
  <2>2. BuiltFromSource' /\ TextOfLast'
      BY <1>3 DEF ContentReplaced, BuiltFromSource, TextOfLast
  <2> QED BY <2>1, <2>2
<1>4. CASE PreviewClick /\ UNCHANGED <<shown, slots, uiTasks>>
    BY <1>4 DEF PreviewClick, TogglePreview, ToggleSensitive, Select,
                TaskRendersLast, BuiltFromSource, TextOfLast
<1>5. CASE SkipHidden /\ UNCHANGED shown
    BY <1>5 DEF SkipHidden, runnerVars, TaskRendersLast, BuiltFromSource,
                TextOfLast
<1>6. CASE StartPreview /\ UNCHANGED shown
    BY <1>6, StartPreviewStep
<1>7. CASE (\E s \in slots : CollectPreview(s)) /\ UNCHANGED shown
    BY <1>7, CollectPreviewStep
<1> QED BY <1>1, <1>2, <1>3, <1>4, <1>5, <1>6, <1>7 DEF PreviewMove

\* A visible preview that nothing is outstanding for shows the present
\* content and selection, for all files, nodes and clicks: a task that was
\* started for an earlier source is followed by another, because every
\* change of the source comes with the flag, even while the task runs.
THEOREM PreviewAlwaysCurrent == AppSafety => []PreviewIsCurrent
<1>1. AppInit => PreviewInv
    BY DEF AppInit, PreviewInit, ContentInit, RunnerInit, PreviewInv,
           TaskRendersLast, BuiltFromSource, TextOfLast
<1>2. AppContentInv /\ PreviewInv /\ [AppNext]_appVars => PreviewInv'
    BY PreviewMoves, PreviewStep DEF AppContentInv, ContentInv, ImportInv
<1>3. PreviewInv => PreviewIsCurrent
    BY DEF PreviewInv, PreviewIsCurrent, NeedsPreview, BuiltFromSource,
           TextOfLast
<1> QED BY <1>1, <1>2, <1>3, AppContentInvariant, PTL DEF AppSafety
=============================================================================

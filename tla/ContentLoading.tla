--------------------------- MODULE ContentLoading ---------------------------
(***************************************************************************)
(* What content the GUI shows and how it comes to show it: ELF files are   *)
(* analysed by a background load (src/ui/application.cc, BackgroundLoad-   *)
(* State), exported data files are imported through the task runner, and   *)
(* the file behind the content is watched: when it was deleted and written *)
(* again it is opened again (OpenedFileMonitorState, src/ui/app_state.cc). *)
(*                                                                         *)
(* The two channels are independent of each other, the user may open one   *)
(* file while another is still being read, and files change at any time.   *)
(* The environment deletes and writes files; workers read them once, at a  *)
(* moment of their own; all other actions are steps of the UI thread.      *)
(* Only the last of the watched file's many states that lie between two    *)
(* checks is seen.                                                         *)
(***************************************************************************)
EXTENDS TaskRunner

CONSTANTS
    Paths,          \* files the user may open
    DataNames,      \* those whose name ends in .json or .esv
    DataFiles,      \* those that hold exported data; the others are ELFs
    NoPath,
    SnapshotImport, \* kTaskSnapshotImport
    MaxOpens,       \* bound on files opened by the user
    MaxChanges      \* bound on changes to the files

Versions == 1..(MaxChanges + 1)
Reads    == [path : Paths, version : Versions]

ASSUME ContentAssumption ==
    /\ DataNames \subseteq Paths /\ DataFiles \subseteq Paths
    /\ NoPath \notin Paths
    /\ SnapshotImport \in Keys
    /\ Paths \subseteq Details
    /\ MaxChanges \in Nat

VARIABLES
    files,         \* the file system: version of every file, 0 if absent
    background,    \* enable_background_loading, set from config.yaml
    shown,         \* content of the state: its kind and path, the id of the
                   \* load or import and what that one read
    load,          \* background_load: status, task id and path
    loads,         \* background_load.future: none or one
    joiningLoads,  \* superseded loads that the UI thread is waiting for
    nextLoadId,    \* next_load_task_id_
    pendingImport, \* pending_import_snapshot_path
    monitor,       \* opened_file_monitor
    opens, changes

contentOnlyVars == <<files, background, shown, load, loads, joiningLoads,
                     nextLoadId, pendingImport, monitor, opens, changes>>
contentVars == <<contentOnlyVars, runnerVars>>

Absent  == 0
Nothing == [kind |-> "None", path |-> NoPath]
Unwatched == [path |-> NoPath, missing |-> FALSE, pending |-> FALSE,
              due |-> FALSE]

Contents == {Nothing} \cup [kind : {"ElfProject", "Snapshot"}, path : Paths,
                            id : Nat, read : Reads]
Loads == [id : Nat, path : Paths, state : {"running", "threw"}]
    \cup [id : Nat, path : Paths, state : {"ready"}, read : Reads]

LoadStates == [status : {"Idle", "Loading", "Loaded", "Failed"},
               id : Nat, path : Paths \cup {NoPath}]
Monitors   == [path : Paths \cup {NoPath}, missing : BOOLEAN,
               pending : BOOLEAN, due : BOOLEAN]

ContentTypes ==
    /\ files \in [Paths -> {Absent} \cup Versions]
    /\ background \in BOOLEAN
    /\ shown \in Contents
    /\ load \in LoadStates
    /\ loads \in SUBSET Loads /\ joiningLoads \in SUBSET Loads
    /\ \A l, m \in loads : l = m
    /\ nextLoadId \in Nat
    /\ pendingImport \in Paths \cup {NoPath}
    /\ monitor \in Monitors
    /\ opens \in Nat /\ changes \in 0..MaxChanges

\* Every variable has the type of its C++ field; there is at most one load;
\* an import returns what it has read.
ContentTypeOK ==
    /\ RunnerTypeOK
    /\ ContentTypes
    /\ \A s \in slots :
           s.key = SnapshotImport /\ s.state = "succeeded" => s.result \in Reads

ContentInit ==
    /\ RunnerInit
    /\ files = [p \in Paths |-> 1]
    /\ background \in BOOLEAN
    /\ shown = Nothing
    /\ load = [status |-> "Idle", id |-> 0, path |-> NoPath]
    /\ loads = {} /\ joiningLoads = {}
    /\ nextLoadId = 1
    /\ pendingImport = NoPath
    /\ monitor = Unwatched
    /\ opens = 0 /\ changes = 0

ThreadFree == UiFree /\ joiningLoads = {}
Loading    == load.status = "Loading"
Importing  == Running(SnapshotImport)
Watching   == monitor.path # NoPath

ReadOf(path) == [path |-> path, version |-> files[path]]
IsElf(read)  == read.path \notin DataFiles

-----------------------------------------------------------------------------
(* Starting to load.                                                       *)

\* watch_opened_file: called with every new content, checked at once.
Watch(path) == [path |-> path, missing |-> FALSE, pending |-> FALSE,
                due |-> TRUE]

Show(kind, path, id, read) ==
    shown' = [kind |-> kind, path |-> path, id |-> id, read |-> read]

\* Mutant: a list of futures, as the filter has one, instead of one future.
LoadsPileUp(path, watch) ==
    /\ load' = [status |-> "Loading", id |-> nextLoadId, path |-> path]
    /\ loads' = loads \cup {[id |-> nextLoadId, path |-> path,
                             state |-> "running"]}
    /\ monitor' = watch
    /\ UNCHANGED <<joiningLoads, shown>>

\* Mutant: a running load is left alone, after the new one was announced.
RunningLoadIsKept(path, watch) ==
    /\ load' = [status |-> "Loading", id |-> nextLoadId, path |-> path]
    /\ loads' = IF loads # {} THEN loads
                ELSE {[id |-> nextLoadId, path |-> path, state |-> "running"]}
    /\ monitor' = watch
    /\ UNCHANGED <<joiningLoads, shown>>

\* With background loading: the future is overwritten, which waits for the
\* load that it belonged to.
LoadInBackground(path, watch) ==
    /\ load' = [status |-> "Loading", id |-> nextLoadId, path |-> path]
    /\ loads' = {[id |-> nextLoadId, path |-> path, state |-> "running"]}
    /\ joiningLoads' = {l \in loads : l.state = "running"}
    /\ monitor' = watch
    /\ UNCHANGED shown

\* Without it: begin, then finish or fail within the same call.
LoadAtOnce(path, watch) ==
    /\ \/ /\ files[path] # Absent /\ IsElf(ReadOf(path))
          /\ load' = [status |-> "Loaded", id |-> nextLoadId, path |-> path]
          /\ Show("ElfProject", path, nextLoadId, ReadOf(path))
          /\ monitor' = Watch(path)
       \/ /\ load' = [status |-> "Failed", id |-> nextLoadId, path |-> path]
          /\ monitor' = watch
          /\ UNCHANGED shown
    /\ UNCHANGED <<loads, joiningLoads>>

\* start_elf_load; `watch` is the monitor if no new content comes of it.
StartElfLoad(path, watch) ==
    /\ nextLoadId' = nextLoadId + 1
    /\ IF background THEN LoadInBackground(path, watch)
                     ELSE LoadAtOnce(path, watch)
    /\ UNCHANGED runnerVars

\* start_snapshot_import
StartImport(path, watch) ==
    /\ Start(SnapshotImport, path)
    /\ monitor' = watch
    /\ UNCHANGED <<shown, load, loads, joiningLoads, nextLoadId>>

\* load_file_into_state: the name decides.
LoadFile(path, watch) ==
    IF path \in DataNames THEN StartImport(path, watch)
                          ELSE StartElfLoad(path, watch)

\* What was clicked in a frame is picked up by the poll that follows it,
\* before the next event and before the polls for an import and the monitor.
ClickHandled == pendingImport = NoPath

UserOpens == /\ ThreadFree
             /\ ClickHandled
             /\ opens < MaxOpens
             /\ opens' = opens + 1

\* A file is dropped on the window (or given at start-up): no guard at all.
Drop(path) ==
    /\ UserOpens
    /\ LoadFile(path, monitor)
    /\ UNCHANGED <<files, background, pendingImport, changes>>

\* "Open ELF..." is disabled while a load is running.
OpenElfFromDialog(path) ==
    /\ UserOpens
    /\ ~Loading
    /\ StartElfLoad(path, monitor)
    /\ UNCHANGED <<files, background, pendingImport, changes>>

\* "Import data..." is disabled while an import is running; the import is
\* left to the next poll.
ImportFromDialog(path) ==
    /\ UserOpens
    /\ ~Importing
    /\ pendingImport' = path
    /\ UNCHANGED <<files, background, shown, load, loads, joiningLoads,
                   nextLoadId, monitor, changes, runnerVars>>

StartPendingImport ==
    /\ ThreadFree
    /\ pendingImport # NoPath
    /\ StartImport(pendingImport, monitor)
    /\ pendingImport' = NoPath
    /\ UNCHANGED <<files, background, opens, changes>>

-----------------------------------------------------------------------------
(* Workers.                                                                *)

WorkerUnchanged == UNCHANGED <<files, background, shown, load, nextLoadId,
                               pendingImport, monitor, opens, changes>>

EndLoad(l, ended) ==
    /\ l.state = "running"
    /\ loads' = (loads \ {l}) \cup {ended}
    /\ UNCHANGED <<joiningLoads, runnerVars>>
    /\ WorkerUnchanged

\* ProjectLoader::dump succeeds on an ELF (that is there and in order).
LoadSucceeds(l) ==
    /\ files[l.path] # Absent /\ IsElf(ReadOf(l.path))
    /\ EndLoad(l, [id |-> l.id, path |-> l.path, state |-> "ready",
                   read |-> ReadOf(l.path)])

LoadThrows(l) == EndLoad(l, [l EXCEPT !.state = "threw"])

SupersededLoadEnds ==
    /\ joiningLoads # {}
    /\ joiningLoads' = {}
    /\ UNCHANGED <<loads, runnerVars>>
    /\ WorkerUnchanged

\* The import worker only reads the file; the UI thread parses it.
ImportReads(slot) ==
    /\ slot.key = SnapshotImport
    /\ files[slot.detail] # Absent
    /\ Succeed(slot, ReadOf(slot.detail))
    /\ UNCHANGED contentOnlyVars

ImportFails(slot) ==
    /\ slot.key = SnapshotImport
    /\ FailTask(slot)
    /\ UNCHANGED contentOnlyVars

SupersededImportEnds == JoinEnds /\ UNCHANGED contentOnlyVars

-----------------------------------------------------------------------------
(* The run loop collects what has ended.                                   *)

CollectUnchanged ==
    UNCHANGED <<files, background, joiningLoads, nextLoadId, pendingImport,
                opens, changes>>

\* Mutant: a failed load is dropped, its status is not updated.
FailureForgotten(l) ==
    /\ ThreadFree /\ Loading
    /\ l.state # "running"
    /\ loads' = {}
    /\ IF l.state = "ready"
         THEN /\ load' = [load EXCEPT !.status = "Loaded"]
              /\ Show("ElfProject", load.path, l.id, l.read)
              /\ monitor' = Watch(load.path)
         ELSE UNCHANGED <<load, shown, monitor>>
    /\ CollectUnchanged /\ UNCHANGED runnerVars

\* finish_background_load and fail_background_load.  The id they compare is
\* read from the same record, so the comparison cannot fail.
CollectLoad(l) ==
    /\ ThreadFree
    /\ Loading
    /\ l.state # "running"
    /\ loads' = {}
    /\ IF l.state = "ready"
         THEN /\ load' = [load EXCEPT !.status = "Loaded"]
              /\ Show("ElfProject", load.path, l.id, l.read)
              /\ monitor' = Watch(load.path)
         ELSE /\ load' = [load EXCEPT !.status = "Failed"]
              /\ UNCHANGED <<shown, monitor>>
    /\ CollectUnchanged
    /\ UNCHANGED runnerVars

\* The bytes are parsed on the UI thread, which only exported data survives.
\* The path of the new content is the detail of the task on display.
CollectImport(slot) ==
    /\ slot.key = SnapshotImport
    /\ joiningLoads = {}
    /\ ClickHandled
    /\ \E parsed \in BOOLEAN :
        /\ Collect(slot, parsed)
        /\ parsed => slot.state = "succeeded" /\ ~IsElf(slot.result)
        /\ IF parsed
             THEN LET path == uiTasks[SnapshotImport].detail
                  IN  /\ Show("Snapshot", path, slot.id, slot.result)
                      /\ monitor' = Watch(path)
             ELSE UNCHANGED <<shown, monitor>>
    /\ UNCHANGED <<load, loads>>
    /\ CollectUnchanged

-----------------------------------------------------------------------------
(* The watched file.                                                       *)

\* A second has passed since the last check.  Checks are at least 1000 ms
\* apart, so a file that one check sees again has been stable for 300 ms at
\* the next: kOpenedFileRecreateStableDelay never delays a reload.
Tick ==
    /\ Watching
    /\ ~monitor.due
    /\ monitor' = [monitor EXCEPT !.due = TRUE]
    /\ UNCHANGED <<files, background, shown, load, loads, joiningLoads,
                   nextLoadId, pendingImport, opens, changes, runnerVars>>

Checked == [monitor EXCEPT !.due = FALSE]

\* observe_opened_file_presence as called by poll_opened_file_recreate.
ObserveAbsence ==
    /\ files[monitor.path] = Absent
    /\ monitor' = [Checked EXCEPT !.missing = TRUE, !.pending = FALSE]
    /\ UNCHANGED <<shown, load, loads, joiningLoads, nextLoadId, runnerVars>>

ObservePresence ==
    /\ files[monitor.path] # Absent
    /\ ~monitor.missing \/ ~monitor.pending \/ Loading \/ Importing
    /\ monitor' = [Checked EXCEPT !.pending = monitor.missing]
    /\ UNCHANGED <<shown, load, loads, joiningLoads, nextLoadId, runnerVars>>

\* Mutant: the reload does not wait for a running load or import.
ReopenWhileBusy ==
    /\ files[monitor.path] # Absent
    /\ monitor.missing /\ monitor.pending
    /\ LoadFile(monitor.path,
                [Checked EXCEPT !.missing = FALSE, !.pending = FALSE])

\* Mutant: the reload is forgotten instead of started.
ReopenForgotten ==
    /\ files[monitor.path] # Absent
    /\ monitor.missing /\ monitor.pending
    /\ ~Loading /\ ~Importing
    /\ monitor' = [Checked EXCEPT !.pending = FALSE]
    /\ UNCHANGED <<shown, load, loads, joiningLoads, nextLoadId, runnerVars>>

Reopen ==
    /\ files[monitor.path] # Absent
    /\ monitor.missing
    /\ monitor.pending
    /\ ~Loading
    /\ ~Importing
    /\ LoadFile(monitor.path,
                [Checked EXCEPT !.missing = FALSE, !.pending = FALSE])

CheckMonitor ==
    /\ ThreadFree
    /\ ClickHandled
    /\ Watching
    /\ monitor.due
    /\ ObserveAbsence \/ ObservePresence \/ Reopen
    /\ UNCHANGED <<files, background, pendingImport, opens, changes>>

ChangeFile(path, version) ==
    /\ changes < MaxChanges
    /\ changes' = changes + 1
    /\ files' = [files EXCEPT ![path] = version]
    /\ UNCHANGED <<background, shown, load, loads, joiningLoads, nextLoadId,
                   pendingImport, monitor, opens, runnerVars>>

Delete(path) == files[path] # Absent /\ ChangeFile(path, Absent)
Write(path)  == ChangeFile(path, changes + 2)

-----------------------------------------------------------------------------

UserOpensFile == \E path \in Paths : \/ Drop(path)
                                     \/ OpenElfFromDialog(path)
                                     \/ ImportFromDialog(path)

LoadWorker == \E l \in loads : LoadSucceeds(l) \/ LoadThrows(l)

ImportWorker == \E slot \in slots : ImportReads(slot) \/ ImportFails(slot)

Polls == \/ \E l \in loads : CollectLoad(l)
         \/ StartPendingImport
         \/ \E slot \in slots : CollectImport(slot)
         \/ CheckMonitor

ContentNext ==
    \/ UserOpensFile
    \/ LoadWorker
    \/ ImportWorker
    \/ SupersededLoadEnds
    \/ SupersededImportEnds
    \/ Polls
    \/ Tick
    \/ \E path \in Paths : Delete(path) \/ Write(path)

ContentSafety == ContentInit /\ [][ContentNext]_contentVars

\* Reading a file ends.  The run loop makes all its polls once a second
\* while a file is watched; before that it may sleep for ever.
ContentFairness ==
    /\ WF_contentVars(LoadWorker)
    /\ WF_contentVars(ImportWorker)
    /\ WF_contentVars(SupersededLoadEnds)
    /\ WF_contentVars(SupersededImportEnds)
    /\ WF_contentVars(Tick)
    /\ WF_contentVars(Watching /\ \E l \in loads : CollectLoad(l))
    /\ WF_contentVars(Watching /\ StartPendingImport)
    /\ WF_contentVars(Watching /\ \E slot \in slots : CollectImport(slot))
    /\ WF_contentVars(CheckMonitor)

ContentSpec == ContentSafety /\ ContentFairness

-----------------------------------------------------------------------------
(* Properties.                                                             *)

\* The content is what the window title and the monitor say it is: it was
\* read from that very path although path and bytes travel separately (the
\* path of an import is read from the task on display when the bytes come
\* back), its kind is the kind of the file, and that file is the one watched.
ShownIsWhatItSays ==
    /\ shown.path = monitor.path
    /\ shown # Nothing =>
        /\ shown.read.path = shown.path
        /\ shown.kind = "ElfProject" <=> IsElf(shown.read)

\* The displayed load is the one whose future is held: "loading" is shown
\* exactly while there is one, with its path, so that it always ends.
LoadMatchesFuture ==
    /\ Loading <=> loads # {}
    /\ \A l \in loads : l.id = load.id /\ l.path = load.path

\* Content is only ever replaced by that of the newest load or the newest
\* import: a superseded one, which the user no longer asks for, never shows
\* up, and neither a failure nor the deletion of the file takes the content
\* away ("keep showing the last parsed result", app_state.cc:449).
NewestOfItsKind ==
    [][shown' # shown =>
        /\ shown'.kind = "ElfProject" => shown'.id = nextLoadId' - 1
        /\ shown'.kind = "Snapshot" => shown'.id = uiTasks[SnapshotImport].id
        /\ shown' # Nothing]_contentVars

\* The monitor never opens a file over a load or import in progress, which
\* would block the UI thread in the destructor of the overwritten future.
ReopenNeverBlocks ==
    [][CheckMonitor => ThreadFree']_contentVars

\* While content is shown, whatever was asked for comes to an end: no load,
\* import or wait of the UI thread lasts for ever, and none is started again
\* and again.
LoadingEnds ==
    <>[](Watching => /\ ThreadFree /\ ~Loading /\ ~Importing
                     /\ pendingImport = NoPath)

\* A watched file that was seen to disappear and is there again for good is
\* opened again: it does not stay marked as missing.
MissingFileIsReopened ==
    <>[](Watching /\ monitor.missing => files[monitor.path] = Absent)

\* The test of the busy monitor (tests/test_main.cc:3703-3715) promises that
\* a rebuild seen during a load is kept, and consumed once the load is over.
\* The signal goes only when the file has gone again, when it is opened
\* again, or when what is shown is already its newest version.
RebuildSignalIsKept ==
    [][monitor.pending /\ monitor'.path = monitor.path /\ ~monitor'.pending
        => \/ files[monitor.path] = Absent
           \/ nextLoadId' # nextLoadId
           \/ nextTaskId' # nextTaskId
           \/ shown'.read.version = files[monitor.path]]_contentVars
=============================================================================

----------------------------- MODULE JsonPreview -----------------------------
(***************************************************************************)
(* The JSON preview panel (start_json_preview_build and the preview poll   *)
(* of src/ui/application.cc): the JSON of the selected node, or of the     *)
(* whole content when no node is selected, rendered by a task.             *)
(*                                                                         *)
(* The source of the preview is spread over the state (content, selection, *)
(* a check box), changes while a task is rendering an earlier source, and  *)
(* is watched by two mechanisms: a dirty flag, set by some changes, and a  *)
(* cache key, which covers the others.  Its operations are steps of the    *)
(* run loop; Application composes them with the rest.                      *)
(***************************************************************************)
EXTENDS ContentLoading

CONSTANTS
    Nodes,        \* paths of nodes that may be selected
    LazyNodes,    \* those that are expanded for display only, frame by frame
    NoNode,
    JsonTask,     \* kTaskJsonPreview
    PreviewLabel, \* what the preview task is shown with
    MaxClicks     \* bound on what the user clicks

ASSUME PreviewAssumption ==
    /\ LazyNodes \subseteq Nodes
    /\ NoNode \notin Nodes
    /\ JsonTask \in Exclusive \ {SnapshotImport}
    /\ PreviewLabel \in Details

VARIABLES
    selected,   \* selected_node_path
    sensitive,  \* export_sensitive_info
    visible,    \* show_json_preview_panel
    dirty,      \* json_preview_dirty
    builtKey,   \* json_preview_cache_key
    rendering,  \* what the last preview task was given to render
    text,       \* json_preview_text, as the source it was rendered from
    failed,     \* json_preview_error is set
    clicks      \* what the user clicked so far

previewVars == <<selected, sensitive, visible, dirty, builtKey, rendering,
                 text, failed>>

\* selected_node_json: a node that was expanded for display is not part of
\* the model and is not found again by its path.
Resolved == IF selected \in LazyNodes THEN NoNode ELSE selected

\* What the preview has to show; the check box only matters to whole content.
Source ==
    [content |-> shown, node |-> Resolved,
     sensitive |-> IF Resolved = NoNode /\ shown # Nothing THEN sensitive
                                                           ELSE FALSE]

\* compute_json_preview_cache_key: it names the content by kind and path, so
\* it cannot tell a file from its reloaded self.
CacheKey == [node |-> selected, path |-> shown.path, kind |-> shown.kind,
             sensitive |-> sensitive]

NoSource == [content |-> Nothing, node |-> NoNode, sensitive |-> FALSE]
NoKey    == [node |-> NoNode, path |-> NoPath, kind |-> "None",
             sensitive |-> FALSE]

PreviewInit ==
    /\ selected = NoNode
    /\ sensitive = FALSE
    /\ visible = TRUE
    /\ dirty = TRUE
    /\ builtKey = NoKey
    /\ rendering = NoSource
    /\ text = NoSource
    /\ failed = FALSE
    /\ clicks = 0

-----------------------------------------------------------------------------
(* The user.  MainWindow::render compares the state before and after the   *)
(* frame and marks the preview dirty when something it shows has changed.  *)

TogglePreview ==
    /\ visible' = ~visible
    /\ dirty' = TRUE
    /\ UNCHANGED <<selected, sensitive, builtKey, rendering, text, failed>>

Select(node) ==
    /\ shown # Nothing
    /\ node # selected
    /\ selected' = node
    /\ dirty' = TRUE
    /\ UNCHANGED <<sensitive, visible, builtKey, rendering, text, failed>>

ToggleSensitive ==
    /\ sensitive' = ~sensitive
    /\ dirty' = TRUE
    /\ UNCHANGED <<selected, visible, builtKey, rendering, text, failed>>

\* Mutant: the key is trusted to change with the content.
ContentKeepsPreview ==
    /\ selected' = NoNode
    /\ failed' = FALSE
    /\ UNCHANGED <<sensitive, visible, dirty, builtKey, rendering, text>>

\* The part of set_loaded_project and set_loaded_snapshot that the preview
\* sees.
ContentReplaced ==
    /\ selected' = NoNode
    /\ dirty' = TRUE
    /\ failed' = FALSE
    /\ UNCHANGED <<sensitive, visible, builtKey, rendering, text>>

-----------------------------------------------------------------------------
(* The run loop.                                                           *)

NeedsPreview == visible /\ (dirty \/ CacheKey # builtKey)

\* start_json_preview_build while the panel is hidden.
SkipHidden ==
    /\ ~visible
    /\ dirty' = FALSE
    /\ UNCHANGED <<selected, sensitive, visible, builtKey, rendering, text,
                   failed, runnerVars>>

\* start_json_preview_build: the task captures what it is to render.
StartPreview ==
    /\ NeedsPreview
    /\ ~Running(JsonTask)
    /\ Start(JsonTask, PreviewLabel)
    /\ rendering' = Source
    /\ builtKey' = CacheKey
    /\ dirty' = FALSE
    /\ UNCHANGED <<selected, sensitive, visible, text, failed>>

\* The poll for the preview task.
CollectPreview(slot) ==
    /\ slot.key = JsonTask
    /\ Collect(slot, TRUE)
    /\ IF uiTasks[JsonTask].id # slot.id THEN UNCHANGED <<text, failed>>
       ELSE IF slot.state = "succeeded"
            THEN text' = slot.result /\ failed' = FALSE
            ELSE failed' = TRUE /\ UNCHANGED text
    /\ UNCHANGED <<selected, sensitive, visible, dirty, builtKey, rendering>>

\* What the task returns is what it was given when it was started.
PreviewWorker(slot) ==
    /\ slot.key = JsonTask
    /\ Succeed(slot, rendering) \/ FailTask(slot)

Click == clicks < MaxClicks /\ clicks' = clicks + 1

-----------------------------------------------------------------------------
(* Properties.                                                             *)

\* When nothing is outstanding, the text on the panel is that of the present
\* content and selection, not of an earlier one.
PreviewIsCurrent ==
    visible /\ ~NeedsPreview /\ ~Running(JsonTask) /\ ~failed
        => text = Source

\* Once the user pauses, a visible preview catches up with what is shown, or
\* reports that it could not be rendered.
PreviewCatchesUp ==
    <>[](Watching /\ visible => failed \/ text = Source)
=============================================================================

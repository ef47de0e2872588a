----------------------------- MODULE TaskRunner -----------------------------
(***************************************************************************)
(* UiTaskRunner (src/ui/ui_task_runner.cc) and the UiTaskState beside each *)
(* of its keys (src/ui/app_state.cc): import, export, preview and so on    *)
(* run as std::async tasks under a key; the run loop polls a key for its   *)
(* result and shows the task's state to the user.                          *)
(*                                                                         *)
(* The runner and the displayed state are two records of the same task,    *)
(* kept by different code.  Submitting under a key whose task still runs   *)
(* overwrites its slot; the destructor of the overwritten future then      *)
(* blocks the UI thread until the superseded task has ended ("joining").   *)
(*                                                                         *)
(* Start and Collect are steps of the UI thread, the others of workers.    *)
(***************************************************************************)
EXTENDS Naturals, FiniteSets

CONSTANTS
    Keys,       \* kTaskSnapshotImport and the other keys
    Exclusive,  \* keys that are not submitted while their task is running
    Details,    \* what a task is shown with: a path, a URI, a label
    Results,    \* what a successful task returns
    MaxTasks    \* bound on the tasks of a behaviour

ASSUME RunnerAssumption == Exclusive \subseteq Keys

VARIABLES
    nextTaskId, \* next_task_id_
    slots,      \* tasks_, with the state of the futures
    joining,    \* superseded tasks that the UI thread is waiting for
    uiTasks     \* the UiTaskState of every key

runnerVars == <<nextTaskId, slots, joining, uiTasks>>

\* A slot: what a task returns is up to whoever started it.
IsSlot(s) ==
    /\ s.key \in Keys /\ s.id \in Nat /\ s.detail \in Details
    /\ LET slot(state) == [key |-> s.key, id |-> s.id, detail |-> s.detail,
                           state |-> state]
       IN  \/ s \in {slot("running"), slot("failed")}
           \/ s = [key |-> s.key, id |-> s.id, detail |-> s.detail,
                   state |-> "succeeded", result |-> s.result]

UiTaskStates == [status : {"Idle"}, id : {0}]
    \cup [status : {"Running", "Succeeded", "Failed"}, id : Nat,
          detail : Details]

RunnerTypeOK ==
    /\ nextTaskId \in Nat
    /\ \A s \in slots \cup joining : IsSlot(s)
    /\ uiTasks \in [Keys -> UiTaskStates]

RunnerInit ==
    /\ nextTaskId = 1
    /\ slots = {}
    /\ joining = {}
    /\ uiTasks = [key \in Keys |-> [status |-> "Idle", id |-> 0]]

\* The UI thread is not inside the destructor of a future.
UiFree == joining = {}

Running(key) == uiTasks[key].status = "Running"

-----------------------------------------------------------------------------

\* Mutant: emplace instead of assignment, which keeps the older slot.
StartKeepsSlot(key, detail) ==
    /\ UiFree
    /\ key \in Exclusive => ~Running(key)
    /\ nextTaskId' = nextTaskId + 1
    /\ slots' = IF \E s \in slots : s.key = key THEN slots
                ELSE slots \cup {[key |-> key, id |-> nextTaskId,
                                  detail |-> detail, state |-> "running"]}
    /\ joining' = {}
    /\ uiTasks' = [uiTasks EXCEPT ![key] =
                     [status |-> "Running", id |-> nextTaskId,
                      detail |-> detail]]

\* submit followed by begin_ui_task, as in every start_* function.
Start(key, detail) ==
    /\ UiFree
    /\ key \in Exclusive => ~Running(key)
    /\ nextTaskId' = nextTaskId + 1
    /\ slots' = {s \in slots : s.key # key}
                \cup {[key |-> key, id |-> nextTaskId, detail |-> detail,
                       state |-> "running"]}
    /\ joining' = {s \in slots : s.key = key /\ s.state = "running"}
    /\ uiTasks' = [uiTasks EXCEPT ![key] =
                     [status |-> "Running", id |-> nextTaskId,
                      detail |-> detail]]

\* The worker of a slot ends: with a result, or with an error (every
\* exception is turned into one).
Succeed(slot, result) ==
    /\ slot.state = "running"
    /\ slots' = (slots \ {slot})
                \cup {[key |-> slot.key, id |-> slot.id,
                       detail |-> slot.detail, state |-> "succeeded",
                       result |-> result]}
    /\ UNCHANGED <<nextTaskId, joining, uiTasks>>

FailTask(slot) ==
    /\ slot.state = "running"
    /\ slots' = (slots \ {slot}) \cup {[slot EXCEPT !.state = "failed"]}
    /\ UNCHANGED <<nextTaskId, joining, uiTasks>>

\* A superseded worker ends; nobody sees its result.
JoinEnds ==
    /\ joining # {}
    /\ joining' = {}
    /\ UNCHANGED <<nextTaskId, slots, uiTasks>>

\* finish_ui_task and fail_ui_task: only the task that is on display may
\* change its state.
Report(slot, status) ==
    uiTasks' = IF uiTasks[slot.key].id = slot.id
               THEN [uiTasks EXCEPT ![slot.key].status = status]
               ELSE uiTasks

\* The run loop polls a key whose task has ended and erases the slot.
\* `usable` says whether its caller could use a successful result.
Collect(slot, usable) ==
    /\ UiFree
    /\ slot.state # "running"
    /\ slots' = slots \ {slot}
    /\ Report(slot, IF slot.state = "succeeded" /\ usable
                    THEN "Succeeded" ELSE "Failed")
    /\ UNCHANGED <<nextTaskId, joining>>

RunnerNext ==
    \/ /\ nextTaskId <= MaxTasks
       /\ \E key \in Keys, detail \in Details : Start(key, detail)
    \/ \E slot \in slots :
        \/ \E result \in Results : Succeed(slot, result)
        \/ FailTask(slot)
        \/ \E usable \in BOOLEAN : Collect(slot, usable)
    \/ JoinEnds

RunnerSpec == RunnerInit /\ [][RunnerNext]_runnerVars

-----------------------------------------------------------------------------

\* A task is displayed as running exactly as long as the runner holds its
\* slot, and it is the same task on both sides: so every result that is
\* polled is accepted, the detail that is displayed is that of the task the
\* result comes from, and no key is stuck in "running".
SlotsMatchStates ==
    /\ \A key \in Keys : Running(key) <=> \E s \in slots : s.key = key
    /\ \A s \in slots : /\ uiTasks[s.key].id = s.id
                        /\ uiTasks[s.key].detail = s.detail
=============================================================================

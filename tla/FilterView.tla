------------------------------ MODULE FilterView ------------------------------
(***************************************************************************)
(* What the variable panel promises its user.  The panel shows either      *)
(* "filtering in progress", or that filtering failed, or the tree of the   *)
(* variables that the filter form selects from the loaded model.  A tree   *)
(* is only ever shown for the model and the form of that very moment:      *)
(* there is no state in which the tree of an earlier model, or of an       *)
(* earlier form, is on display.  FilterPipeline implements this with       *)
(* debounced asynchronous builds and a cache.                              *)
(***************************************************************************)
EXTENDS Naturals

CONSTANTS
    Forms,      \* the contents the filter form can have
    FirstForm   \* the content it starts with

VARIABLES
    model,      \* generation of the loaded model, 0 before the first load
    form,       \* content of the filter form
    view        \* what the variable panel shows

viewVars == <<model, form, view>>

NoModel  == 0
Updating == [status |-> "updating"]
Failed   == [status |-> "failed"]
Tree(m, f) == [status |-> "tree", model |-> m, form |-> f]

Init ==
    /\ model = NoModel
    /\ form = FirstForm
    /\ view = Updating

\* Another model is loaded: whatever was shown is withdrawn.
Load ==
    /\ model' = model + 1
    /\ view' = Updating
    /\ UNCHANGED form

\* The user edits the form: whatever was shown is withdrawn.
Edit ==
    /\ form' \in Forms
    /\ view' = Updating
    /\ UNCHANGED model

Publish ==
    /\ view = Updating
    /\ view' = Tree(model, form)
    /\ UNCHANGED <<model, form>>

Fail ==
    /\ view = Updating
    /\ view' = Failed
    /\ UNCHANGED <<model, form>>

Next == Load \/ Edit \/ Publish \/ Fail

Spec == Init /\ [][Next]_viewVars
===============================================================================

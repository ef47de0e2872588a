------------------------ MODULE ContentLoadingProofs ------------------------
(***************************************************************************)
(* The task runner and the displayed states agree, for every set of keys:  *)
(* the inductive invariant is RunnerInv, whose steps are lemmas about      *)
(* single actions so that what builds on the runner can use them.          *)
(*                                                                         *)
(* And what is shown is what it says it is, for any files and any number   *)
(* of them.  The state of the loading falls into two parts that share no   *)
(* variable: LoadInv is about contentOnlyVars, ImportInv about the runner. *)
(* A step of one part leaves the invariant of the other alone, except that *)
(* CollectImport takes the new content from a slot of the runner.          *)
(***************************************************************************)
EXTENDS ContentLoading, TLAPS

-----------------------------------------------------------------------------
(* The task runner.                                                        *)

\* A key has at most one slot: tasks_ is a map.
OneSlotPerKey == \A s, t \in slots : s.key = t.key => s = t

RunnerInv == RunnerTypeOK /\ SlotsMatchStates /\ OneSlotPerKey

-----------------------------------------------------------------------------
(* Slots and states as records.                                            *)

LEMMA SlotFields ==
    ASSUME NEW s, IsSlot(s)
    PROVE  /\ s.key \in Keys
           /\ s.id \in Nat
           /\ s.detail \in Details
           /\ s.state \in {"running", "succeeded", "failed"}
    BY DEF IsSlot

LEMMA RunningSlot ==
    ASSUME NEW key \in Keys, NEW id \in Nat, NEW detail \in Details
    PROVE  IsSlot([key |-> key, id |-> id, detail |-> detail,
                   state |-> "running"])
    BY DEF IsSlot

LEMMA SucceededSlot ==
    ASSUME NEW key \in Keys, NEW id \in Nat, NEW detail \in Details,
           NEW result
    PROVE  IsSlot([key |-> key, id |-> id, detail |-> detail,
                   state |-> "succeeded", result |-> result])
    BY DEF IsSlot

LEMMA FailedSlot ==
    ASSUME NEW s, IsSlot(s), s.state = "running"
    PROVE  /\ IsSlot([s EXCEPT !.state = "failed"])
           /\ [s EXCEPT !.state = "failed"].key = s.key
           /\ [s EXCEPT !.state = "failed"].id = s.id
           /\ [s EXCEPT !.state = "failed"].detail = s.detail
           /\ [s EXCEPT !.state = "failed"].state = "failed"
<1> DEFINE made(state) == [key |-> s.key, id |-> s.id, detail |-> s.detail,
                           state |-> state]
<1>1. s = made("running")
    BY DEF IsSlot
<1>2. [s EXCEPT !.state = "failed"] = made("failed")
    BY <1>1
<1>3. IsSlot(made("failed"))
    BY DEF IsSlot
<1> QED BY <1>2, <1>3

LEMMA RunningState ==
    ASSUME NEW id \in Nat, NEW detail \in Details
    PROVE  [status |-> "Running", id |-> id, detail |-> detail]
             \in UiTaskStates
    BY DEF UiTaskStates

LEMMA EndedState ==
    ASSUME NEW u \in UiTaskStates, u.status = "Running",
           NEW status \in {"Succeeded", "Failed"}
    PROVE  /\ [u EXCEPT !.status = status] \in UiTaskStates
           /\ [u EXCEPT !.status = status].status = status
    BY DEF UiTaskStates

-----------------------------------------------------------------------------

LEMMA RunnerInitInv == RunnerInit => RunnerInv
<1> SUFFICES ASSUME RunnerInit PROVE RunnerInv
    OBVIOUS
<1> USE DEF RunnerInit
<1>1. [status |-> "Idle", id |-> 0] \in UiTaskStates
    BY DEF UiTaskStates
<1>2. RunnerTypeOK
    BY <1>1 DEF RunnerTypeOK
<1>3. SlotsMatchStates /\ OneSlotPerKey
    BY DEF SlotsMatchStates, OneSlotPerKey, Running
<1> QED BY <1>2, <1>3 DEF RunnerInv

LEMMA StartStep ==
    ASSUME RunnerInv, NEW key \in Keys, NEW detail \in Details,
           Start(key, detail)
    PROVE  RunnerInv'
<1> DEFINE new == [key |-> key, id |-> nextTaskId, detail |-> detail,
                   state |-> "running"]
           started == [status |-> "Running", id |-> nextTaskId,
                     detail |-> detail]
<1> USE DEF RunnerInv, RunnerTypeOK
<1>1. /\ IsSlot(new)
      /\ started \in UiTaskStates
    BY RunningSlot, RunningState
<1>2. /\ new.key = key /\ new.id = nextTaskId /\ new.detail = detail
      /\ started.status = "Running" /\ started.id = nextTaskId
      /\ started.detail = detail
    OBVIOUS
<1> HIDE DEF new, started
<1>3. /\ nextTaskId' = nextTaskId + 1
      /\ slots' = {s \in slots : s.key # key} \cup {new}
      /\ joining' = {s \in slots : s.key = key /\ s.state = "running"}
      /\ uiTasks' = [uiTasks EXCEPT ![key] = started]
    BY Zenon DEF Start, new, started
<1>4. RunnerTypeOK'
  <2>1. uiTasks' \in [Keys -> UiTaskStates]
      BY <1>1, <1>3
  <2>2. \A s \in slots' \cup joining' : IsSlot(s)'
      BY <1>1, <1>3
  <2> QED BY <2>1, <2>2, <1>3
<1>5. /\ uiTasks'[key] = started
      /\ \A k \in Keys \ {key} : uiTasks'[k] = uiTasks[k]
    BY <1>3
<1>6. \A s \in slots : s.key \in Keys
    BY SlotFields
<1>7. SlotsMatchStates'
  <2>1. ASSUME NEW k \in Keys
        PROVE  Running(k)' <=> \E s \in slots' : s.key = k
    <3>1. CASE k = key
        BY <3>1, <1>2, <1>3, <1>5 DEF Running
    <3>2. CASE k # key
        BY <3>2, <1>2, <1>3, <1>5 DEF Running, SlotsMatchStates
    <3> QED BY <3>1, <3>2
  <2>2. ASSUME NEW s \in slots'
        PROVE  uiTasks'[s.key].id = s.id /\ uiTasks'[s.key].detail = s.detail
    <3>1. CASE s = new
        BY <3>1, <1>2, <1>5
    <3>2. CASE s \in slots /\ s.key # key
        BY <3>2, <1>5, <1>6 DEF SlotsMatchStates
    <3> QED BY <3>1, <3>2, <1>3
  <2> QED BY <2>1, <2>2 DEF SlotsMatchStates
<1>8. OneSlotPerKey'
    BY <1>2, <1>3 DEF OneSlotPerKey
<1> QED BY <1>4, <1>7, <1>8

\* A slot may change into another one for the same task at any time.
LEMMA SlotStep ==
    ASSUME RunnerInv, NEW slot \in slots, NEW new, IsSlot(new),
           new.key = slot.key, new.id = slot.id, new.detail = slot.detail,
           slots' = (slots \ {slot}) \cup {new},
           UNCHANGED <<nextTaskId, joining, uiTasks>>
    PROVE  RunnerInv'
<1> USE DEF RunnerInv
<1>1. RunnerTypeOK'
    BY DEF RunnerTypeOK
<1>2. SlotsMatchStates'
  <2>1. ASSUME NEW k \in Keys
        PROVE  (\E s \in slots' : s.key = k) <=> \E s \in slots : s.key = k
      OBVIOUS
  <2>2. \A k \in Keys : Running(k)' <=> Running(k)
      BY DEF Running
  <2>3. \A s \in slots' : /\ uiTasks'[s.key].id = s.id
                          /\ uiTasks'[s.key].detail = s.detail
      BY DEF SlotsMatchStates
  <2> QED BY <2>1, <2>2, <2>3 DEF SlotsMatchStates
<1>3. OneSlotPerKey'
    BY DEF OneSlotPerKey
<1> QED BY <1>1, <1>2, <1>3

LEMMA SucceedStep ==
    ASSUME RunnerInv, NEW slot \in slots, NEW result,
           Succeed(slot, result)
    PROVE  RunnerInv'
<1> DEFINE new == [key |-> slot.key, id |-> slot.id, detail |-> slot.detail,
                   state |-> "succeeded", result |-> result]
<1>1. IsSlot(slot)
    BY DEF RunnerInv, RunnerTypeOK
<1>2. IsSlot(new)
    BY <1>1, SlotFields, SucceededSlot
<1>3. new.key = slot.key /\ new.id = slot.id /\ new.detail = slot.detail
    OBVIOUS
<1>4. /\ slots' = (slots \ {slot}) \cup {new}
      /\ UNCHANGED <<nextTaskId, joining, uiTasks>>
    BY Zenon DEF Succeed
<1> HIDE DEF new
<1> QED BY <1>2, <1>3, <1>4, SlotStep

LEMMA FailStep ==
    ASSUME RunnerInv, NEW slot \in slots, FailTask(slot)
    PROVE  RunnerInv'
<1> DEFINE new == [slot EXCEPT !.state = "failed"]
<1>1. IsSlot(slot) /\ slot.state = "running"
    BY DEF RunnerInv, RunnerTypeOK, FailTask
<1>2. /\ IsSlot(new)
      /\ new.key = slot.key /\ new.id = slot.id /\ new.detail = slot.detail
    BY <1>1, FailedSlot
<1>3. /\ slots' = (slots \ {slot}) \cup {new}
      /\ UNCHANGED <<nextTaskId, joining, uiTasks>>
    BY Zenon DEF FailTask
<1> HIDE DEF new
<1> QED BY <1>2, <1>3, SlotStep

LEMMA JoinStep == ASSUME RunnerInv, JoinEnds PROVE RunnerInv'
    BY DEF RunnerInv, RunnerTypeOK, SlotsMatchStates, OneSlotPerKey,
           Running, JoinEnds

LEMMA CollectStep ==
    ASSUME RunnerInv, NEW slot \in slots, NEW usable \in BOOLEAN,
           Collect(slot, usable)
    PROVE  RunnerInv'
<1> DEFINE status == IF slot.state = "succeeded" /\ usable
                     THEN "Succeeded" ELSE "Failed"
           key == slot.key
           ended == [uiTasks[key] EXCEPT !.status = status]
<1>1. IsSlot(slot) /\ key \in Keys
    BY SlotFields DEF RunnerInv, RunnerTypeOK
<1>2. /\ uiTasks[key].id = slot.id
      /\ uiTasks[key].status = "Running"
      /\ uiTasks[key] \in UiTaskStates
    BY <1>1 DEF RunnerInv, RunnerTypeOK, SlotsMatchStates, Running
<1>3. status \in {"Succeeded", "Failed"}
    OBVIOUS
<1>4. ended \in UiTaskStates /\ ended.status = status
    BY <1>2, <1>3, EndedState
<1>5. /\ slots' = slots \ {slot}
      /\ UNCHANGED <<nextTaskId, joining>>
    BY DEF Collect
<1>6. uiTasks' = [uiTasks EXCEPT ![key] = ended]
    BY <1>2 DEF Collect, Report
<1> HIDE DEF status, key, ended
<1>7. /\ uiTasks'[key] = ended
      /\ \A k \in Keys \ {key} : uiTasks'[k] = uiTasks[k]
    BY <1>1, <1>6 DEF RunnerInv, RunnerTypeOK
<1>8. RunnerTypeOK'
  <2>1. uiTasks' \in [Keys -> UiTaskStates]
      BY <1>4, <1>6 DEF RunnerInv, RunnerTypeOK
  <2> QED BY <2>1, <1>5 DEF RunnerInv, RunnerTypeOK
<1>9. \A s \in slots' : s \in slots /\ s.key # key /\ s.key \in Keys
    BY <1>5, SlotFields DEF RunnerInv, RunnerTypeOK, OneSlotPerKey, key
<1>10. SlotsMatchStates'
  <2>1. ASSUME NEW k \in Keys
        PROVE  Running(k)' <=> \E s \in slots' : s.key = k
    <3>1. CASE k = key
        BY <3>1, <1>3, <1>4, <1>7, <1>9 DEF Running
    <3>2. CASE k # key
      <4>1. (\E s \in slots' : s.key = k) <=> \E s \in slots : s.key = k
          BY <3>2, <1>5 DEF key
      <4>2. Running(k)' <=> Running(k)
          BY <3>2, <1>7 DEF Running
      <4> QED BY <4>1, <4>2 DEF RunnerInv, SlotsMatchStates
    <3> QED BY <3>1, <3>2
  <2>2. \A s \in slots' : /\ uiTasks'[s.key].id = s.id
                          /\ uiTasks'[s.key].detail = s.detail
      BY <1>7, <1>9 DEF RunnerInv, SlotsMatchStates
  <2> QED BY <2>1, <2>2 DEF SlotsMatchStates
<1>11. OneSlotPerKey'
    BY <1>5 DEF RunnerInv, OneSlotPerKey
<1> QED BY <1>8, <1>10, <1>11 DEF RunnerInv

LEMMA RunnerStutter ==
    ASSUME RunnerInv, UNCHANGED runnerVars PROVE RunnerInv'
    BY DEF RunnerInv, RunnerTypeOK, SlotsMatchStates, OneSlotPerKey,
           Running, runnerVars

-----------------------------------------------------------------------------

\* The runner's slots and the states shown to the user describe the same
\* tasks at all times, whatever is submitted under whatever key: submit and
\* poll (ui_task_runner.cc) and begin_, finish_ and fail_ui_task
\* (app_state.cc) never disagree.
THEOREM RunnerInvariant == RunnerSpec => []RunnerInv
<1>1. RunnerInit => RunnerInv
    BY RunnerInitInv
<1>2. RunnerInv /\ [RunnerNext]_runnerVars => RunnerInv'
  <2> SUFFICES ASSUME RunnerInv, [RunnerNext]_runnerVars PROVE RunnerInv'
      OBVIOUS
  <2>1. CASE \E key \in Keys, detail \in Details : Start(key, detail)
      BY <2>1, StartStep
  <2>2. CASE \E slot \in slots : \E result \in Results :
               Succeed(slot, result)
      BY <2>2, SucceedStep
  <2>3. CASE \E slot \in slots : FailTask(slot)
      BY <2>3, FailStep
  <2>4. CASE \E slot \in slots : \E usable \in BOOLEAN :
               Collect(slot, usable)
      BY <2>4, CollectStep
  <2>5. CASE JoinEnds
      BY <2>5, JoinStep
  <2>6. CASE UNCHANGED runnerVars
      BY <2>6, RunnerStutter
  <2> QED BY <2>1, <2>2, <2>3, <2>4, <2>5, <2>6 DEF RunnerNext
<1> QED BY <1>1, <1>2, PTL DEF RunnerSpec

\* A task is shown as running exactly as long as the runner holds it.
THEOREM RunnerAgrees == RunnerSpec => []SlotsMatchStates
    BY RunnerInvariant, PTL DEF RunnerInv

-----------------------------------------------------------------------------
(* The loading of files.                                                   *)

\* The bytes a load or an import holds are those of its path.
LoadsRead == \A l \in loads : l.state = "ready" =>
                /\ l.read \in Reads
                /\ l.read.path = l.path
                /\ IsElf(l.read)

ImportsRead == \A s \in slots : s.key = SnapshotImport =>
                  /\ s.detail \in Paths
                  /\ s.state = "succeeded" => /\ s.result \in Reads
                                              /\ s.result.path = s.detail

\* The displayed load is the last one that was started.
NewestLoad == load.id + 1 = nextLoadId

\* Without background loading there is no future.
FutureInBackground == loads # {} => background

LoadInv == /\ ContentTypes
           /\ FutureInBackground
           /\ LoadMatchesFuture
           /\ ShownIsWhatItSays
           /\ LoadsRead
           /\ NewestLoad

ImportInv == RunnerInv /\ ImportsRead

ContentInv == LoadInv /\ ImportInv

-----------------------------------------------------------------------------
(* The records.                                                            *)

LEMMA LoadFields ==
    ASSUME NEW l \in Loads
    PROVE  /\ l.id \in Nat
           /\ l.path \in Paths
           /\ l.state \in {"running", "ready", "threw"}
    BY DEF Loads

LEMMA RunningLoad ==
    ASSUME NEW id \in Nat, NEW path \in Paths
    PROVE  [id |-> id, path |-> path, state |-> "running"] \in Loads
    BY DEF Loads

LEMMA ReadyLoad ==
    ASSUME NEW id \in Nat, NEW path \in Paths, NEW read \in Reads
    PROVE  [id |-> id, path |-> path, state |-> "ready", read |-> read]
             \in Loads
    BY DEF Loads

LEMMA ThrownLoad ==
    ASSUME NEW l \in Loads, l.state = "running"
    PROVE  /\ [l EXCEPT !.state = "threw"] \in Loads
           /\ [l EXCEPT !.state = "threw"].id = l.id
           /\ [l EXCEPT !.state = "threw"].path = l.path
           /\ [l EXCEPT !.state = "threw"].state = "threw"
    BY DEF Loads

LEMMA LoadStateFields ==
    ASSUME NEW d \in LoadStates
    PROVE  d.id \in Nat /\ d.path \in Paths \cup {NoPath}
    BY DEF LoadStates

LEMMA NewLoadState ==
    ASSUME NEW status \in {"Loading", "Loaded", "Failed"}, NEW id \in Nat,
           NEW path \in Paths
    PROVE  [status |-> status, id |-> id, path |-> path] \in LoadStates
    BY DEF LoadStates

LEMMA EndedLoadState ==
    ASSUME NEW d \in LoadStates, NEW status \in {"Loaded", "Failed"}
    PROVE  /\ [d EXCEPT !.status = status] \in LoadStates
           /\ [d EXCEPT !.status = status].status = status
           /\ [d EXCEPT !.status = status].id = d.id
    BY DEF LoadStates

LEMMA NewContent ==
    ASSUME NEW kind \in {"ElfProject", "Snapshot"}, NEW path \in Paths,
           NEW id \in Nat, NEW read \in Reads
    PROVE  [kind |-> kind, path |-> path, id |-> id, read |-> read]
             \in Contents
    BY DEF Contents

LEMMA WatchType ==
    ASSUME NEW path \in Paths
    PROVE  Watch(path) \in Monitors /\ Watch(path).path = path
    BY DEF Watch, Monitors

LEMMA CheckedType ==
    ASSUME NEW m \in Monitors, NEW missing \in BOOLEAN,
           NEW pend \in BOOLEAN
    PROVE  LET c == [m EXCEPT !.due = FALSE] IN
           /\ c \in Monitors /\ c.path = m.path
           /\ [c EXCEPT !.missing = missing, !.pending = pend] \in Monitors
           /\ [c EXCEPT !.missing = missing, !.pending = pend].path = m.path
           /\ [c EXCEPT !.pending = pend] \in Monitors
           /\ [c EXCEPT !.pending = pend].path = m.path
    BY DEF Monitors

LEMMA DueType ==
    ASSUME NEW m \in Monitors
    PROVE  /\ [m EXCEPT !.due = TRUE] \in Monitors
           /\ [m EXCEPT !.due = TRUE].path = m.path
    BY DEF Monitors

LEMMA ReadOfType ==
    ASSUME ContentTypes, NEW path \in Paths, files[path] # Absent
    PROVE  ReadOf(path) \in Reads /\ ReadOf(path).path = path
    BY DEF ContentTypes, ReadOf, Reads

-----------------------------------------------------------------------------

LEMMA ContentInitInv == ContentInit => ContentInv
<1> SUFFICES ASSUME ContentInit PROVE ContentInv
    OBVIOUS
<1> USE DEF ContentInit
<1>1. RunnerInv
    BY RunnerInitInv
<1>2. ImportsRead
    BY DEF ImportsRead, RunnerInit
<1>3. ContentTypes
  <2>1. load \in LoadStates
      BY DEF LoadStates
  <2>2. monitor \in Monitors
      BY DEF Monitors, Unwatched
  <2>3. shown \in Contents
      BY DEF Contents
  <2>4. files \in [Paths -> {Absent} \cup Versions]
      BY ContentAssumption DEF Versions
  <2> QED BY <2>1, <2>2, <2>3, <2>4, ContentAssumption DEF ContentTypes
<1>4. LoadMatchesFuture /\ LoadsRead /\ NewestLoad /\ FutureInBackground
    BY DEF LoadMatchesFuture, LoadsRead, NewestLoad, Loading,
           FutureInBackground
<1>5. ShownIsWhatItSays
    BY DEF ShownIsWhatItSays, Nothing, Unwatched
<1> QED BY <1>1, <1>2, <1>3, <1>4, <1>5
       DEF ContentInv, LoadInv, ImportInv

LEMMA LoadStutter ==
    ASSUME LoadInv, UNCHANGED contentOnlyVars PROVE LoadInv'
    BY DEF LoadInv, contentOnlyVars, ContentTypes, LoadMatchesFuture,
           ShownIsWhatItSays, LoadsRead, NewestLoad, FutureInBackground,
           Loading

LEMMA ImportStutter ==
    ASSUME ImportInv, UNCHANGED runnerVars PROVE ImportInv'
<1>1. RunnerInv'
    BY RunnerStutter DEF ImportInv
<1>2. ImportsRead'
    BY DEF ImportInv, ImportsRead, runnerVars
<1> QED BY <1>1, <1>2 DEF ImportInv

\* A step that neither shows anything nor touches the loads.
LEMMA MonitorStep ==
    ASSUME LoadInv, monitor' \in Monitors, monitor'.path = monitor.path,
           UNCHANGED <<files, background, shown, load, loads, joiningLoads,
                       nextLoadId, changes>>,
           pendingImport' \in Paths \cup {NoPath}, opens' \in Nat
    PROVE  LoadInv'
    BY DEF LoadInv, ContentTypes, LoadMatchesFuture, ShownIsWhatItSays,
           LoadsRead, NewestLoad, FutureInBackground, Loading

\* New content of a file that is read from it, together with its monitor.
LEMMA ShownStep ==
    ASSUME NEW kind \in {"ElfProject", "Snapshot"}, NEW path \in Paths,
           NEW id \in Nat, NEW read \in Reads, read.path = path,
           kind = "ElfProject" <=> IsElf(read),
           shown' = [kind |-> kind, path |-> path, id |-> id, read |-> read],
           monitor' = Watch(path)
    PROVE  /\ shown' \in Contents
           /\ ShownIsWhatItSays'
           /\ monitor' \in Monitors
<1>1. shown' \in Contents
    BY NewContent
<1>2. /\ shown'.path = path /\ shown'.kind = kind /\ shown'.read = read
    OBVIOUS
<1>3. monitor'.path = path /\ monitor' \in Monitors
    BY WatchType
<1>4. ShownIsWhatItSays'
    BY <1>2, <1>3 DEF ShownIsWhatItSays, IsElf
<1> QED BY <1>1, <1>3, <1>4

\* start_elf_load, from wherever it is called.
LEMMA StartElfLoadStep ==
    ASSUME LoadInv, NEW path \in Paths, NEW watch \in Monitors,
           watch.path = monitor.path, StartElfLoad(path, watch),
           UNCHANGED <<files, background, changes>>,
           pendingImport' \in Paths \cup {NoPath}, opens' \in Nat
    PROVE  LoadInv' /\ UNCHANGED runnerVars
<1> USE DEF LoadInv
<1>1. nextLoadId \in Nat /\ nextLoadId' = nextLoadId + 1
    BY DEF StartElfLoad, ContentTypes
<1>2. UNCHANGED runnerVars
    BY DEF StartElfLoad
<1>3. CASE background
  <2> DEFINE began == [status |-> "Loading", id |-> nextLoadId,
                       path |-> path]
             future == [id |-> nextLoadId, path |-> path,
                        state |-> "running"]
  <2>1. /\ load' = began
        /\ loads' = {future}
        /\ joiningLoads' = {l \in loads : l.state = "running"}
        /\ monitor' = watch
        /\ UNCHANGED shown
      BY <1>3, Zenon DEF StartElfLoad, LoadInBackground
  <2>2. began \in LoadStates /\ future \in Loads
      BY <1>1, NewLoadState, RunningLoad
  <2>3. /\ began.status = "Loading" /\ began.id = nextLoadId
        /\ began.path = path
        /\ future.id = nextLoadId /\ future.path = path
        /\ future.state = "running"
      OBVIOUS
  <2> HIDE DEF began, future
  <2>4. ContentTypes'
      BY <1>1, <2>1, <2>2 DEF ContentTypes
  <2>5. LoadMatchesFuture'
      BY <2>1, <2>3 DEF LoadMatchesFuture, Loading
  <2>6. ShownIsWhatItSays'
      BY <2>1 DEF ShownIsWhatItSays
  <2>7. LoadsRead' /\ NewestLoad' /\ FutureInBackground'
      BY <1>1, <1>3, <2>1, <2>3 DEF LoadsRead, NewestLoad, FutureInBackground
  <2> QED BY <1>2, <2>4, <2>5, <2>6, <2>7
<1>4. CASE ~background
  <2>1. LoadAtOnce(path, watch)
      BY <1>4 DEF StartElfLoad
  <2>2. UNCHANGED <<loads, joiningLoads>>
      BY <2>1 DEF LoadAtOnce
  <2>3. loads = {}
      BY <1>4 DEF FutureInBackground
  <2>4. ASSUME load'.status # "Loading", load' \in LoadStates,
               load'.id = nextLoadId,
               shown' \in Contents, monitor' \in Monitors, ShownIsWhatItSays'
        PROVE  LoadInv'
    <3>1. ContentTypes'
        BY <1>1, <2>2, <2>4 DEF ContentTypes
    <3>2. LoadMatchesFuture' /\ LoadsRead' /\ FutureInBackground'
        BY <2>2, <2>3, <2>4
           DEF LoadMatchesFuture, LoadsRead, FutureInBackground, Loading
    <3>3. NewestLoad'
        BY <1>1, <2>4 DEF NewestLoad
    <3> QED BY <2>4, <3>1, <3>2, <3>3
  <2>5. CASE /\ files[path] # Absent /\ IsElf(ReadOf(path))
             /\ load' = [status |-> "Loaded", id |-> nextLoadId,
                         path |-> path]
             /\ Show("ElfProject", path, nextLoadId, ReadOf(path))
             /\ monitor' = Watch(path)
    <3>1. ReadOf(path) \in Reads /\ ReadOf(path).path = path
        BY <2>5, ReadOfType
    <3>2. /\ load' \in LoadStates
          /\ load'.status # "Loading" /\ load'.id = nextLoadId
        BY <1>1, <2>5, NewLoadState
    <3>3. shown' \in Contents /\ ShownIsWhatItSays' /\ monitor' \in Monitors
        BY <1>1, <2>5, <3>1, ShownStep DEF Show
    <3> QED BY <1>2, <2>4, <3>2, <3>3
  <2>6. CASE /\ load' = [status |-> "Failed", id |-> nextLoadId,
                         path |-> path]
             /\ monitor' = watch
             /\ UNCHANGED shown
    <3>1. /\ load' \in LoadStates
          /\ load'.status # "Loading" /\ load'.id = nextLoadId
        BY <1>1, <2>6, NewLoadState
    <3>2. shown' \in Contents /\ ShownIsWhatItSays' /\ monitor' \in Monitors
        BY <2>6 DEF ContentTypes, ShownIsWhatItSays
    <3> QED BY <1>2, <2>4, <3>1, <3>2
  <2> QED BY <2>1, <2>5, <2>6 DEF LoadAtOnce
<1> QED BY <1>3, <1>4 DEF ContentTypes

\* What NewestOfItsKind says of a step.
NewestShown ==
    shown' # shown =>
        /\ shown'.kind = "ElfProject" => shown'.id = nextLoadId' - 1
        /\ shown'.kind = "Snapshot" => shown'.id = uiTasks[SnapshotImport].id
        /\ shown' # Nothing

LEMMA StartElfLoadShows ==
    ASSUME LoadInv, NEW path \in Paths, NEW watch, StartElfLoad(path, watch)
    PROVE  NewestShown
<1>1. nextLoadId \in Nat /\ nextLoadId' = nextLoadId + 1
    BY DEF StartElfLoad, LoadInv, ContentTypes
<1>2. \/ UNCHANGED shown
      \/ shown' = [kind |-> "ElfProject", path |-> path,
                   id |-> nextLoadId, read |-> ReadOf(path)]
    BY Zenon DEF StartElfLoad, LoadInBackground, LoadAtOnce, Show
<1> QED BY <1>1, <1>2 DEF NewestShown, Nothing

\* start_snapshot_import, from wherever it is called.
LEMMA StartImportStep ==
    ASSUME ContentInv, NEW path \in Paths, NEW watch \in Monitors,
           watch.path = monitor.path, StartImport(path, watch),
           UNCHANGED <<files, background, changes>>,
           pendingImport' \in Paths \cup {NoPath}, opens' \in Nat
    PROVE  ContentInv' /\ NewestShown
<1>1. Start(SnapshotImport, path)
    BY DEF StartImport
<1>2. LoadInv'
    BY MonitorStep DEF ContentInv, StartImport
<1>3. RunnerInv'
  <2>1. SnapshotImport \in Keys /\ path \in Details
      BY ContentAssumption
  <2> QED BY <1>1, <2>1, StartStep DEF ContentInv, ImportInv
<1>4. ImportsRead'
  <2> DEFINE new == [key |-> SnapshotImport, id |-> nextTaskId,
                     detail |-> path, state |-> "running"]
  <2>1. slots' = {s \in slots : s.key # SnapshotImport} \cup {new}
      BY <1>1 DEF Start
  <2>2. new.detail = path /\ new.state = "running"
      OBVIOUS
  <2> HIDE DEF new
  <2> QED BY <2>1, <2>2 DEF ImportsRead
<1>5. NewestShown
    BY DEF StartImport, NewestShown
<1> QED BY <1>2, <1>3, <1>4, <1>5 DEF ContentInv, ImportInv

LEMMA StartElfStep ==
    ASSUME ContentInv, NEW path \in Paths, NEW watch \in Monitors,
           watch.path = monitor.path, StartElfLoad(path, watch),
           UNCHANGED <<files, background, changes>>,
           pendingImport' \in Paths \cup {NoPath}, opens' \in Nat
    PROVE  ContentInv' /\ NewestShown
<1>1. LoadInv' /\ UNCHANGED runnerVars
    BY StartElfLoadStep DEF ContentInv
<1>2. NewestShown
    BY StartElfLoadShows DEF ContentInv
<1> QED BY <1>1, <1>2, ImportStutter DEF ContentInv

\* load_file_into_state
LEMMA LoadFileStep ==
    ASSUME ContentInv, NEW path \in Paths, NEW watch \in Monitors,
           watch.path = monitor.path, LoadFile(path, watch),
           UNCHANGED <<files, background, changes>>,
           pendingImport' \in Paths \cup {NoPath}, opens' \in Nat
    PROVE  ContentInv' /\ NewestShown
<1>1. CASE path \in DataNames
    BY <1>1, StartImportStep DEF LoadFile
<1>2. CASE path \notin DataNames
    BY <1>2, StartElfStep DEF LoadFile
<1> QED BY <1>1, <1>2

-----------------------------------------------------------------------------
(* The user, the workers and the files.                                    *)

LEMMA UserOpensStep ==
    ASSUME ContentInv, NEW path \in Paths,
           Drop(path) \/ OpenElfFromDialog(path) \/ ImportFromDialog(path)
    PROVE  ContentInv' /\ NewestShown
<1>1. /\ opens' \in Nat
      /\ monitor \in Monitors
      /\ pendingImport \in Paths \cup {NoPath}
    BY DEF Drop, OpenElfFromDialog, ImportFromDialog, UserOpens,
           ContentInv, LoadInv, ContentTypes
<1>2. CASE Drop(path)
    BY <1>1, <1>2, LoadFileStep DEF Drop
<1>3. CASE OpenElfFromDialog(path)
    BY <1>1, <1>3, StartElfStep DEF OpenElfFromDialog
<1>4. CASE ImportFromDialog(path)
  <2>1. LoadInv'
      BY <1>1, <1>4, MonitorStep DEF ImportFromDialog, ContentInv
  <2>2. ImportInv' /\ NewestShown
      BY <1>4, ImportStutter DEF ImportFromDialog, ContentInv, NewestShown
  <2> QED BY <2>1, <2>2 DEF ContentInv
<1> QED BY <1>2, <1>3, <1>4

\* A load ends, as a record with the same id and path.
LEMMA EndLoadStep ==
    ASSUME ContentInv, NEW l \in loads, NEW ended \in Loads,
           ended.id = l.id, ended.path = l.path,
           ended.state = "ready" => /\ ended.read \in Reads
                                    /\ ended.read.path = l.path
                                    /\ IsElf(ended.read),
           EndLoad(l, ended)
    PROVE  ContentInv' /\ NewestShown
<1> USE DEF EndLoad, WorkerUnchanged
<1>1. loads = {l} /\ loads' = {ended}
    BY DEF ContentInv, LoadInv, ContentTypes
<1>2. ContentTypes'
    BY <1>1 DEF ContentInv, LoadInv, ContentTypes
<1>3. LoadMatchesFuture' /\ NewestLoad' /\ FutureInBackground'
    BY <1>1 DEF ContentInv, LoadInv, LoadMatchesFuture, NewestLoad,
                FutureInBackground, Loading
<1>4. ShownIsWhatItSays' /\ NewestShown
    BY DEF ContentInv, LoadInv, ShownIsWhatItSays, NewestShown
<1>5. LoadsRead'
    BY <1>1 DEF LoadsRead
<1>6. ImportInv'
    BY ImportStutter DEF ContentInv
<1> QED BY <1>2, <1>3, <1>4, <1>5, <1>6 DEF ContentInv, LoadInv

LEMMA LoadWorkerStep ==
    ASSUME ContentInv, NEW l \in loads, LoadSucceeds(l) \/ LoadThrows(l)
    PROVE  ContentInv' /\ NewestShown
<1>1. l \in Loads /\ l.state = "running"
    BY DEF ContentInv, LoadInv, ContentTypes, LoadSucceeds, LoadThrows,
           EndLoad
<1>2. l.id \in Nat /\ l.path \in Paths
    BY <1>1, LoadFields
<1>3. CASE LoadSucceeds(l)
  <2> DEFINE ended == [id |-> l.id, path |-> l.path, state |-> "ready",
                       read |-> ReadOf(l.path)]
  <2>1. ReadOf(l.path) \in Reads /\ ReadOf(l.path).path = l.path
      BY <1>2, <1>3, ReadOfType DEF LoadSucceeds, ContentInv, LoadInv
  <2>2. ended \in Loads
      BY <1>2, <2>1, ReadyLoad
  <2>3. EndLoad(l, ended) /\ IsElf(ReadOf(l.path))
      BY <1>3 DEF LoadSucceeds
  <2>4. /\ ended.id = l.id /\ ended.path = l.path
        /\ ended.read = ReadOf(l.path)
      OBVIOUS
  <2> HIDE DEF ended
  <2> QED BY <2>1, <2>2, <2>3, <2>4, EndLoadStep
<1>4. CASE LoadThrows(l)
  <2> DEFINE ended == [l EXCEPT !.state = "threw"]
  <2>1. /\ ended \in Loads /\ ended.id = l.id /\ ended.path = l.path
        /\ ended.state = "threw"
      BY <1>1, ThrownLoad
  <2>2. EndLoad(l, ended)
      BY <1>4 DEF LoadThrows
  <2> HIDE DEF ended
  <2> QED BY <2>1, <2>2, EndLoadStep
<1> QED BY <1>3, <1>4

LEMMA SupersededLoadStep ==
    ASSUME ContentInv, SupersededLoadEnds PROVE ContentInv' /\ NewestShown
<1> USE DEF SupersededLoadEnds, WorkerUnchanged
<1>1. ContentTypes'
    BY DEF ContentInv, LoadInv, ContentTypes
<1>2. LoadInv'
    BY <1>1 DEF ContentInv, LoadInv, LoadMatchesFuture, NewestLoad,
                FutureInBackground, Loading, ShownIsWhatItSays, LoadsRead
<1>3. ImportInv' /\ NewestShown
    BY ImportStutter DEF ContentInv, NewestShown
<1> QED BY <1>2, <1>3 DEF ContentInv

LEMMA FileStep ==
    ASSUME ContentInv, NEW path \in Paths, Delete(path) \/ Write(path)
    PROVE  ContentInv' /\ NewestShown
<1>1. PICK version \in {Absent} \cup Versions : ChangeFile(path, version)
  <2>1. changes \in 0..MaxChanges /\ MaxChanges \in Nat
      BY ContentAssumption DEF ContentInv, LoadInv, ContentTypes
  <2>2. CASE Delete(path)
      BY <2>2 DEF Delete
  <2>3. CASE Write(path)
    <3>1. ChangeFile(path, changes + 2)
        BY <2>3 DEF Write
    <3>2. changes + 2 \in Versions
        BY <2>1, <3>1 DEF ChangeFile, Versions
    <3> QED BY <3>1, <3>2
  <2> QED BY <2>2, <2>3
<1> USE <1>1 DEF ChangeFile
<1>2. changes' \in 0..MaxChanges
    BY ContentAssumption DEF ContentInv, LoadInv, ContentTypes
<1>3. ContentTypes'
    BY <1>2 DEF ContentInv, LoadInv, ContentTypes
<1>4. LoadInv'
    BY <1>3 DEF ContentInv, LoadInv, LoadMatchesFuture, NewestLoad,
                FutureInBackground, Loading, ShownIsWhatItSays, LoadsRead
<1>5. ImportInv' /\ NewestShown
    BY ImportStutter DEF ContentInv, NewestShown
<1> QED BY <1>4, <1>5 DEF ContentInv

\* A worker reads what it imports.
LEMMA ImportWorkerStep ==
    ASSUME ContentInv, NEW slot \in slots,
           ImportReads(slot) \/ ImportFails(slot)
    PROVE  ContentInv' /\ NewestShown
<1>1. LoadInv' /\ NewestShown
    BY LoadStutter DEF ContentInv, ImportReads, ImportFails, NewestShown,
                       contentOnlyVars
<1>2. IsSlot(slot) /\ slot.key = SnapshotImport /\ slot.detail \in Paths
    BY DEF ContentInv, ImportInv, RunnerInv, RunnerTypeOK, ImportsRead,
           ImportReads, ImportFails
<1>3. CASE ImportReads(slot)
  <2> DEFINE read == ReadOf(slot.detail)
             new == [key |-> slot.key, id |-> slot.id,
                     detail |-> slot.detail, state |-> "succeeded",
                     result |-> read]
  <2>1. read \in Reads /\ read.path = slot.detail
      BY <1>2, <1>3, ReadOfType DEF ImportReads, ContentInv, LoadInv
  <2>2. slots' = (slots \ {slot}) \cup {new} /\ Succeed(slot, read)
      BY <1>3 DEF ImportReads, Succeed
  <2>3. RunnerInv'
      BY <2>1, <2>2, SucceedStep, ContentAssumption
         DEF ContentInv, ImportInv
  <2>4. new.detail = slot.detail /\ new.result = read
      OBVIOUS
  <2> HIDE DEF new, read
  <2>5. ImportsRead'
      BY <1>2, <2>1, <2>2, <2>4 DEF ContentInv, ImportInv, ImportsRead
  <2> QED BY <1>1, <2>3, <2>5 DEF ContentInv, ImportInv
<1>4. CASE ImportFails(slot)
  <2> DEFINE new == [slot EXCEPT !.state = "failed"]
  <2>1. FailTask(slot) /\ slot.state = "running"
      BY <1>4 DEF ImportFails, FailTask
  <2>2. slots' = (slots \ {slot}) \cup {new}
      BY <2>1 DEF FailTask
  <2>3. RunnerInv'
      BY <2>1, FailStep DEF ContentInv, ImportInv
  <2>4. new.detail = slot.detail /\ new.state = "failed"
      BY <1>2, <2>1, FailedSlot
  <2> HIDE DEF new
  <2>5. ImportsRead'
      BY <1>2, <2>2, <2>4 DEF ContentInv, ImportInv, ImportsRead
  <2> QED BY <1>1, <2>3, <2>5 DEF ContentInv, ImportInv
<1> QED BY <1>3, <1>4

LEMMA SupersededImportStep ==
    ASSUME ContentInv, SupersededImportEnds PROVE ContentInv' /\ NewestShown
<1>1. LoadInv' /\ NewestShown
    BY LoadStutter DEF ContentInv, SupersededImportEnds, NewestShown,
                       contentOnlyVars
<1>2. RunnerInv'
    BY JoinStep DEF SupersededImportEnds, ContentInv, ImportInv
<1>3. ImportsRead'
    BY DEF SupersededImportEnds, JoinEnds, ContentInv, ImportInv,
           ImportsRead
<1> QED BY <1>1, <1>2, <1>3 DEF ContentInv, ImportInv

-----------------------------------------------------------------------------
(* The polls.                                                              *)

LEMMA PendingImportStep ==
    ASSUME ContentInv, StartPendingImport PROVE ContentInv' /\ NewestShown
<1>1. /\ pendingImport \in Paths
      /\ monitor \in Monitors
      /\ opens' \in Nat /\ pendingImport' = NoPath
    BY DEF StartPendingImport, ContentInv, LoadInv, ContentTypes
<1> QED BY <1>1, StartImportStep DEF StartPendingImport

LEMMA CollectLoadStep ==
    ASSUME ContentInv, NEW l \in loads, CollectLoad(l)
    PROVE  ContentInv' /\ NewestShown
<1> USE DEF ContentInv, LoadInv
<1>1. /\ loads' = {}
      /\ UNCHANGED <<files, background, joiningLoads, nextLoadId,
                     pendingImport, opens, changes, runnerVars>>
    BY DEF CollectLoad, CollectUnchanged
<1>2. ImportInv'
    BY <1>1, ImportStutter
<1>3. /\ l.id = load.id /\ l.path = load.path
      /\ l \in Loads /\ load \in LoadStates
    BY DEF LoadMatchesFuture, ContentTypes
<1>4. l.id \in Nat /\ load.path \in Paths
    BY <1>3, LoadFields
<1>5. ASSUME load' \in LoadStates, load'.status # "Loading",
             load'.id = load.id, NewestShown,
             shown' \in Contents, monitor' \in Monitors, ShownIsWhatItSays'
      PROVE  ContentInv' /\ NewestShown
  <2>1. ContentTypes'
      BY <1>1, <1>5 DEF ContentTypes
  <2>2. LoadMatchesFuture' /\ LoadsRead' /\ FutureInBackground'
        /\ NewestLoad'
      BY <1>1, <1>5 DEF LoadMatchesFuture, LoadsRead, NewestLoad,
                        FutureInBackground, Loading
  <2> QED BY <1>2, <1>5, <2>1, <2>2
<1>6. CASE l.state = "ready"
  <2>1. /\ load' = [load EXCEPT !.status = "Loaded"]
        /\ Show("ElfProject", load.path, l.id, l.read)
        /\ monitor' = Watch(load.path)
      BY <1>6 DEF CollectLoad
  <2>2. l.read \in Reads /\ l.read.path = load.path /\ IsElf(l.read)
      BY <1>3, <1>6 DEF LoadsRead
  <2>3. /\ load' \in LoadStates
        /\ load'.status # "Loading" /\ load'.id = load.id
      BY <1>3, <2>1, EndedLoadState
  <2>4. shown' \in Contents /\ ShownIsWhatItSays' /\ monitor' \in Monitors
      BY <1>4, <2>1, <2>2, ShownStep DEF Show
  <2>5. NewestShown
    <3>1. shown'.kind = "ElfProject" /\ shown'.id = l.id
          /\ shown' # Nothing
        BY <2>1 DEF Show, Nothing
    <3>2. nextLoadId' \in Nat /\ l.id + 1 = nextLoadId'
        BY <1>1, <1>3 DEF NewestLoad, ContentTypes
    <3> QED BY <1>4, <3>1, <3>2 DEF NewestShown
  <2> QED BY <1>5, <2>3, <2>4, <2>5
<1>7. CASE l.state # "ready"
  <2>1. /\ load' = [load EXCEPT !.status = "Failed"]
        /\ UNCHANGED <<shown, monitor>>
      BY <1>7 DEF CollectLoad
  <2>2. /\ load' \in LoadStates
        /\ load'.status # "Loading" /\ load'.id = load.id
      BY <1>3, <2>1, EndedLoadState
  <2>3. /\ shown' \in Contents /\ ShownIsWhatItSays' /\ monitor' \in Monitors
        /\ NewestShown
      BY <2>1 DEF ContentTypes, ShownIsWhatItSays, NewestShown
  <2> QED BY <1>5, <2>2, <2>3
<1> QED BY <1>6, <1>7

\* The path comes from the task on display, the bytes from the slot.
LEMMA CollectImportStep ==
    ASSUME ContentInv, NEW slot \in slots, CollectImport(slot)
    PROVE  ContentInv' /\ NewestShown
<1> DEFINE task == uiTasks[SnapshotImport]
<1>1. PICK parsed \in BOOLEAN :
        /\ Collect(slot, parsed)
        /\ parsed => slot.state = "succeeded" /\ ~IsElf(slot.result)
        /\ IF parsed
             THEN /\ Show("Snapshot", task.detail, slot.id, slot.result)
                  /\ monitor' = Watch(task.detail)
             ELSE UNCHANGED <<shown, monitor>>
    BY Zenon DEF CollectImport
<1>2. UNCHANGED <<load, loads, files, background, joiningLoads, nextLoadId,
                  pendingImport, opens, changes>>
    BY Zenon DEF CollectImport, CollectUnchanged
<1>3. /\ slot.key = SnapshotImport /\ IsSlot(slot)
      /\ task.id = slot.id /\ task.detail = slot.detail
      /\ slot.detail \in Paths /\ slot.id \in Nat
    BY SlotFields DEF CollectImport, ContentInv, ImportInv, RunnerInv,
                      RunnerTypeOK, SlotsMatchStates, ImportsRead
<1>4. ImportInv'
  <2>1. RunnerInv'
      BY <1>1, CollectStep DEF ContentInv, ImportInv
  <2>2. slots' = slots \ {slot}
      BY <1>1 DEF Collect
  <2> QED BY <2>1, <2>2 DEF ContentInv, ImportInv, ImportsRead
<1>5. uiTasks'[SnapshotImport].id = slot.id
  <2>1. /\ uiTasks \in [Keys -> UiTaskStates]
        /\ SnapshotImport \in Keys
        /\ task.status = "Running"
      BY <1>3, ContentAssumption
         DEF ContentInv, ImportInv, RunnerInv, RunnerTypeOK,
             SlotsMatchStates, Running
  <2>2. PICK status \in {"Succeeded", "Failed"} :
          uiTasks' = [uiTasks EXCEPT ![SnapshotImport].status = status]
      BY <1>1, <1>3 DEF Collect, Report
  <2>3. uiTasks'[SnapshotImport] = [task EXCEPT !.status = status]
      BY <2>1, <2>2
  <2>4. [task EXCEPT !.status = status].id = task.id
      BY <2>1 DEF UiTaskStates
  <2> QED BY <1>3, <2>3, <2>4
<1>6. shown' \in Contents /\ ShownIsWhatItSays' /\ monitor' \in Monitors
  <2>1. CASE parsed
    <3>1. slot.result \in Reads /\ slot.result.path = slot.detail
        BY <1>1, <1>3, <2>1 DEF ContentInv, ImportInv, ImportsRead
    <3> QED BY <1>1, <1>3, <2>1, <3>1, ShownStep DEF Show
  <2>2. CASE ~parsed
      BY <1>1, <2>2
         DEF ContentInv, LoadInv, ContentTypes, ShownIsWhatItSays
  <2> QED BY <2>1, <2>2
<1>7. NewestShown
  <2>1. CASE parsed
    <3>1. shown'.kind = "Snapshot" /\ shown'.id = slot.id
          /\ shown' # Nothing
        BY <1>1, <2>1 DEF Show, Nothing
    <3>2. task.id = slot.id
        BY <1>3
    <3> QED BY <3>1, <3>2 DEF NewestShown
  <2>2. CASE ~parsed
      BY <1>1, <2>2 DEF NewestShown
  <2> QED BY <2>1, <2>2
<1>8. LoadInv'
  <2>1. ContentTypes'
      BY <1>2, <1>6 DEF ContentInv, LoadInv, ContentTypes
  <2>2. LoadMatchesFuture' /\ LoadsRead' /\ NewestLoad'
        /\ FutureInBackground'
      BY <1>2 DEF ContentInv, LoadInv, LoadMatchesFuture, LoadsRead,
                  NewestLoad, FutureInBackground, Loading
  <2> QED BY <1>6, <2>1, <2>2 DEF LoadInv
<1> QED BY <1>4, <1>7, <1>8 DEF ContentInv

-----------------------------------------------------------------------------
(* The monitor.                                                            *)

LEMMA TickStep == ASSUME ContentInv, Tick PROVE ContentInv' /\ NewestShown
<1> USE DEF Tick
<1>1. monitor' \in Monitors /\ monitor'.path = monitor.path
    BY DueType DEF ContentInv, LoadInv, ContentTypes
<1>2. LoadInv'
    BY <1>1, MonitorStep DEF ContentInv, LoadInv, ContentTypes
<1>3. ImportInv' /\ NewestShown
    BY ImportStutter DEF ContentInv, NewestShown
<1> QED BY <1>2, <1>3 DEF ContentInv

LEMMA CheckMonitorStep ==
    ASSUME ContentInv, CheckMonitor PROVE ContentInv' /\ NewestShown
<1>1. /\ monitor \in Monitors
      /\ monitor.path \in Paths /\ monitor.missing \in BOOLEAN
      /\ opens' \in Nat /\ pendingImport' \in Paths \cup {NoPath}
      /\ UNCHANGED <<files, background, pendingImport, opens, changes>>
    BY DEF CheckMonitor, Watching, ContentInv, LoadInv, ContentTypes,
           Monitors
<1>2. ASSUME monitor' \in Monitors, monitor'.path = monitor.path,
             UNCHANGED <<shown, load, loads, joiningLoads, nextLoadId,
                         runnerVars>>
      PROVE  ContentInv' /\ NewestShown
  <2>1. LoadInv'
      BY <1>1, <1>2, MonitorStep DEF ContentInv
  <2> QED BY <1>2, <2>1, ImportStutter DEF ContentInv, NewestShown
<1>3. CASE ObserveAbsence
  <2>1. monitor' \in Monitors /\ monitor'.path = monitor.path
      BY <1>1, <1>3, CheckedType DEF ObserveAbsence, Checked
  <2> QED BY <1>2, <1>3, <2>1 DEF ObserveAbsence
<1>4. CASE ObservePresence
  <2>1. monitor' \in Monitors /\ monitor'.path = monitor.path
      BY <1>1, <1>4, CheckedType DEF ObservePresence, Checked
  <2> QED BY <1>2, <1>4, <2>1 DEF ObservePresence
<1>5. CASE Reopen
  <2> DEFINE watch == [Checked EXCEPT !.missing = FALSE, !.pending = FALSE]
  <2>1. watch \in Monitors /\ watch.path = monitor.path
      BY <1>1, CheckedType DEF Checked
  <2>2. LoadFile(monitor.path, watch)
      BY <1>5 DEF Reopen
  <2> HIDE DEF watch
  <2> QED BY <1>1, <2>1, <2>2, LoadFileStep
<1> QED BY <1>3, <1>4, <1>5 DEF CheckMonitor

-----------------------------------------------------------------------------

LEMMA ContentNextStep ==
    ASSUME ContentInv, ContentNext PROVE ContentInv' /\ NewestShown
<1>1. CASE UserOpensFile
    BY <1>1, UserOpensStep DEF UserOpensFile
<1>2. CASE LoadWorker
    BY <1>2, LoadWorkerStep DEF LoadWorker
<1>3. CASE ImportWorker
    BY <1>3, ImportWorkerStep DEF ImportWorker
<1>4. CASE SupersededLoadEnds
    BY <1>4, SupersededLoadStep
<1>5. CASE SupersededImportEnds
    BY <1>5, SupersededImportStep
<1>6. CASE Polls
  <2>1. CASE \E l \in loads : CollectLoad(l)
      BY <2>1, CollectLoadStep
  <2>2. CASE StartPendingImport
      BY <2>2, PendingImportStep
  <2>3. CASE \E slot \in slots : CollectImport(slot)
      BY <2>3, CollectImportStep
  <2>4. CASE CheckMonitor
      BY <2>4, CheckMonitorStep
  <2> QED BY <1>6, <2>1, <2>2, <2>3, <2>4 DEF Polls
<1>7. CASE Tick
    BY <1>7, TickStep
<1>8. CASE \E path \in Paths : Delete(path) \/ Write(path)
    BY <1>8, FileStep
<1> QED BY <1>1, <1>2, <1>3, <1>4, <1>5, <1>6, <1>7, <1>8 DEF ContentNext

LEMMA ContentStutter ==
    ASSUME ContentInv, UNCHANGED contentVars
    PROVE  ContentInv' /\ NewestShown
    BY LoadStutter, ImportStutter
       DEF ContentInv, NewestShown, contentVars, contentOnlyVars

\* The inductive invariant, for any set of files and any number of opens.
THEOREM ContentInvariant == ContentSafety => []ContentInv
<1>1. ContentInit => ContentInv
    BY ContentInitInv
<1>2. ContentInv /\ [ContentNext]_contentVars => ContentInv'
    BY ContentNextStep, ContentStutter
<1> QED BY <1>1, <1>2, PTL DEF ContentSafety

\* Every variable keeps its type; a load is never lost in a second future.
THEOREM ContentTypeCorrect == ContentSafety => []ContentTypeOK
<1>1. ContentInv => ContentTypeOK
    BY DEF ContentInv, LoadInv, ImportInv, RunnerInv, ImportsRead,
           ContentTypeOK
<1> QED BY <1>1, ContentInvariant, PTL

\* The title, the monitor and the bytes shown are of the same file, for the
\* content set by set_loaded_project as for that of set_loaded_snapshot.
THEOREM ShownIsAlwaysWhatItSays == ContentSafety => []ShownIsWhatItSays
<1>1. ContentInv => ShownIsWhatItSays
    BY DEF ContentInv, LoadInv
<1> QED BY <1>1, ContentInvariant, PTL

\* "Loading" is displayed exactly while background_load holds a future.
THEOREM LoadAlwaysMatchesFuture == ContentSafety => []LoadMatchesFuture
<1>1. ContentInv => LoadMatchesFuture
    BY DEF ContentInv, LoadInv
<1> QED BY <1>1, ContentInvariant, PTL

\* An import is displayed as running exactly while the runner holds it.
THEOREM ImportsAgree == ContentSafety => []SlotsMatchStates
<1>1. ContentInv => SlotsMatchStates
    BY DEF ContentInv, ImportInv, RunnerInv
<1> QED BY <1>1, ContentInvariant, PTL

\* A superseded load or import is never shown.
THEOREM NewestIsShown == ContentSafety => NewestOfItsKind
<1>1. ContentInv /\ [ContentNext]_contentVars => [NewestShown]_contentVars
    BY ContentNextStep, ContentStutter
<1>2. ContentSafety => [][NewestShown]_contentVars
    BY <1>1, ContentInvariant, PTL DEF ContentSafety
<1> QED BY <1>2 DEF NewestOfItsKind, NewestShown

\* poll_opened_file_recreate opens the file only when nothing runs, so that
\* no destructor of a future makes the UI thread wait.
LEMMA ReopenIsFree == ASSUME ContentInv, CheckMonitor PROVE ThreadFree'
<1>1. joining = {} /\ joiningLoads = {}
    BY DEF CheckMonitor, ThreadFree, UiFree
<1>2. CASE ObserveAbsence \/ ObservePresence
    BY <1>1, <1>2 DEF ObserveAbsence, ObservePresence, ThreadFree, UiFree,
                      runnerVars
<1>3. CASE Reopen
  <2>1. loads = {} /\ \A s \in slots : s.key # SnapshotImport
    <3>1. ~Loading /\ ~Running(SnapshotImport)
        BY <1>3 DEF Reopen, Importing
    <3>2. SnapshotImport \in Keys
        BY ContentAssumption
    <3> QED BY <3>1, <3>2
            DEF ContentInv, LoadInv, LoadMatchesFuture, ImportInv,
                RunnerInv, SlotsMatchStates
  <2>2. PICK watch : LoadFile(monitor.path, watch)
      BY <1>3 DEF Reopen
  <2>3. CASE StartImport(monitor.path, watch)
      BY <1>1, <2>1, <2>3 DEF StartImport, Start, ThreadFree, UiFree
  <2>4. CASE StartElfLoad(monitor.path, watch)
    <3>1. joining' = {}
        BY <1>1, <2>4 DEF StartElfLoad, runnerVars
    <3>2. joiningLoads' = {}
        BY <1>1, <2>1, <2>4 DEF StartElfLoad, LoadInBackground, LoadAtOnce
    <3> QED BY <3>1, <3>2 DEF ThreadFree, UiFree
  <2> QED BY <2>2, <2>3, <2>4 DEF LoadFile
<1> QED BY <1>2, <1>3 DEF CheckMonitor

\* A reload by the monitor never blocks the UI thread.
THEOREM ReopenIsAlwaysFree == ContentSafety => ReopenNeverBlocks
<1>1. ContentInv /\ [ContentNext]_contentVars
        => [CheckMonitor => ThreadFree']_contentVars
    BY ReopenIsFree
<1>2. ContentSafety => [][CheckMonitor => ThreadFree']_contentVars
    BY <1>1, ContentInvariant, PTL DEF ContentSafety
<1> QED BY <1>2 DEF ReopenNeverBlocks
=============================================================================

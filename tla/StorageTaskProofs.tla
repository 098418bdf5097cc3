------------------------- MODULE StorageTaskProofs -------------------------
(***************************************************************************)
(* Proofs about StorageTask, for any number of objects, locators, forms and   *)
(* tasks: no two objects share a locator; and, unless a COMMIT is reported    *)
(* failed that was not, content in use survives every failure and restart     *)
(* of the executor, which loses track of no old object.                       *)
(***************************************************************************)
EXTENDS StorageTask, TLAPS

\* No object is stored there.
NotHeld(r) == \A i \in Ids : row[i] # r

\* Ids and locators that are in use were handed out, each once; a locator that
\* was superseded is nobody's any more.
Handed ==
    /\ \A i \in Ids : row[i] # NoRef => i \in spent /\ row[i] \in spent
    /\ superseded \subseteq spent /\ used \subseteq spent
    /\ \A r \in superseded : NotHeld(r)

\* The executor works on a task that is not queued, and on one item of it.
AtWork ==
    /\ exec.step # "idle" => /\ exec.task \in Tasks
                             /\ tasks[exec.task].phase = "apply"
                             /\ tasks[exec.task].status # "queued"
    /\ exec.step \notin {"idle", "next"} => exec.id \in Ids
    /\ exec.step = "next" => exec.id = NoId

\* The object in hand is at the locator that was read; its replacement is
\* nobody's, then the transitional row's; what is deleted is nobody's.
InHand ==
    /\ exec.step \in {"record", "rewrite", "insert", "replace", "drop"} =>
          exec.old \in Refs /\ row[exec.id] = exec.old
    /\ exec.step \in {"next", "record", "rewrite"} => exec.new = NoRef
    /\ exec.step = "insert" => /\ exec.new \in stored \cap spent \cap Refs
                               /\ exec.new \notin superseded /\ NotHeld(exec.new)
    /\ exec.step = "replace" => exec.new \in stored
    /\ exec.step = "replace" \/ (exec.step = "undo" /\ ~LossyCommit) =>
          /\ exec.temp \in Ids \ used /\ exec.temp # exec.id
          /\ exec.new \in Refs /\ row[exec.temp] = exec.new
          /\ exec.old \in Refs /\ row[exec.id] = exec.old
    /\ exec.step \in {"delete_old", "delete_orphan"} =>
          exec.old \in spent \cap Refs /\ NotHeld(exec.old)

\* Items still to be taken, and those of tasks still to be taken up, have no note.
Waiting ==
    /\ \A t \in Tasks : tasks[t].phase = "none" \/ Queued(t) =>
          \A i \in Ids : tasks[t].old[i] = NoRef
    /\ exec.step # "idle" =>
          \A i \in Ids : Item(i) = "pending" /\ i # exec.id => tasks[exec.task].old[i] = NoRef

\* The locator in hand is noted on its item.
InNote ==
    /\ exec.step \in {"record", "drop"} => tasks[exec.task].old[exec.id] = NoRef
    /\ exec.step \in {"rewrite", "insert", "replace", "undo", "delete_old"} =>
          tasks[exec.task].old[exec.id] = exec.old

Safe == ~LossyCommit => ContentAvailable /\ OldRefsTracked

IInv == TypeOK /\ Handed /\ OneOwnerPerRef /\ AtWork /\ InHand /\ Waiting /\ InNote /\ Safe

-----------------------------------------------------------------------------
(* The executor's record and the notes.                                    *)

Steps == {"idle", "next", "record", "rewrite", "insert", "replace",
          "undo", "delete_old", "drop", "delete_orphan", "mark"}

\* A step changes the executor's position, and no more of its record.
Moved(step) ==
    /\ exec' \in Exec /\ exec'.step = step
    /\ exec'.task = exec.task /\ exec'.id = exec.id /\ exec'.temp = exec.temp
    /\ exec'.old = exec.old /\ exec'.new = exec.new

LEMMA Goes == ASSUME TypeOK, NEW step \in Steps, Goto(step) PROVE Moved(step)
<1>1. exec \in Exec
  BY DEF TypeOK
<1>2. QED
  BY <1>1 DEF Goto, Moved, Exec, Steps

LEMMA Ends ==
    ASSUME TypeOK, NEW result \in {"done", "failed"}, Outcome(result) PROVE Moved("mark")
<1>1. exec \in Exec
  BY DEF TypeOK
<1>2. QED
  BY <1>1 DEF Outcome, Moved, Exec

LEMMA ExecFields ==
    ASSUME TypeOK
    PROVE  /\ exec \in Exec /\ exec.step \in Steps /\ exec.task \in 0..MaxTask
           /\ exec.id \in Ids \cup {NoId} /\ exec.temp \in Ids \cup {NoId}
           /\ exec.old \in Refs \cup {NoRef} /\ exec.new \in Refs \cup {NoRef}
           /\ exec.result \in {"done", "failed"}
  BY DEF TypeOK, Exec, Steps

LEMMA IdleTyped ==
    /\ IdleExec \in Exec /\ IdleExec.step = "idle"
    /\ IdleExec.id = NoId /\ IdleExec.new = NoRef
<1>1. 0 \in 0..MaxTask
  BY StorageTaskAssumption
<1>2. QED
  BY <1>1 DEF IdleExec, Exec

LEMMA NextTyped ==
    ASSUME NEW t \in Tasks, NEW e, e = [IdleExec EXCEPT !.step = "next", !.task = t]
    PROVE  e \in Exec /\ e.step = "next" /\ e.task = t /\ e.id = NoId /\ e.new = NoRef
<1>1. t \in 0..MaxTask
  BY StorageTaskAssumption DEF Tasks
<1>2. QED
  BY <1>1, IdleTyped DEF Exec

LEMMA TaskFields ==
    ASSUME TypeOK, NEW t \in Tasks
    PROVE  /\ tasks[t] \in Task
           /\ tasks[t].old \in [Ids -> Refs \cup {NoRef}]
           /\ tasks[t].items \in [Ids -> {"absent", "pending", "done", "failed", "skipped"}]
  BY DEF TypeOK, Task

\* What a note changes.
Notes(r) ==
    /\ tasks' \in [Tasks -> Task]
    /\ \A t \in Tasks : /\ tasks'[t].phase = tasks[t].phase
                        /\ tasks'[t].status = tasks[t].status
                        /\ tasks'[t].items = tasks[t].items
                        /\ \A i \in Ids : tasks'[t].old[i] =
                               IF t = exec.task /\ i = exec.id THEN r ELSE tasks[t].old[i]

LEMMA NoteChanges ==
    ASSUME TypeOK, AtWork, NEW r \in Refs \cup {NoRef}, exec.step \notin {"idle", "next"},
           Note(r)
    PROVE  Notes(r)
<1>1. exec.task \in Tasks /\ exec.id \in Ids
  BY DEF AtWork
<1> DEFINE o == [tasks[exec.task].old EXCEPT ![exec.id] = r]
           x == [tasks[exec.task] EXCEPT !.old = o]
<1>2. o \in [Ids -> Refs \cup {NoRef}]
      /\ \A i \in Ids : o[i] = IF i = exec.id THEN r ELSE tasks[exec.task].old[i]
  BY <1>1, TaskFields
<1>3. tasks' = [tasks EXCEPT ![exec.task] = x]
  BY DEF Note
<1> HIDE DEF o
<1>4. /\ x \in Task /\ x.phase = tasks[exec.task].phase
      /\ x.status = tasks[exec.task].status /\ x.items = tasks[exec.task].items /\ x.old = o
  BY <1>1, <1>2, TaskFields DEF Task
<1> HIDE DEF x
<1>5. tasks' \in [Tasks -> Task]
      /\ \A t \in Tasks : tasks'[t] = IF t = exec.task THEN x ELSE tasks[t]
  BY <1>3, <1>4 DEF TypeOK
<1>6. QED
  BY <1>2, <1>4, <1>5 DEF Notes

LEMMA NoneNoted == ASSUME TypeOK, UNCHANGED tasks PROVE Notes(tasks[exec.task].old[exec.id])
  BY DEF Notes, TypeOK
-----------------------------------------------------------------------------
(* Uploads and owners.                                                     *)

LEMMA UploadStep ==
    ASSUME IInv, NEW i \in Ids, NEW r \in Refs, Upload(i, r)
    PROVE  IInv'
<1>1. /\ i \notin spent /\ r \notin spent /\ spent' = spent \cup {i, r}
      /\ row' = [row EXCEPT ![i] = r] /\ used' = used \cup {i} /\ stored' = stored \cup {r}
      /\ UNCHANGED <<superseded, tasks, exec>>
  BY DEF Upload
<1>2. \A k \in Ids : row'[k] = IF k = i THEN r ELSE row[k]
  BY <1>1 DEF IInv, TypeOK
<1>3. r # NoRef
  BY StorageTaskAssumption
<1>4. TypeOK'
  BY <1>1 DEF IInv, TypeOK
<1>5. Handed'
  BY <1>1, <1>2, <1>3 DEF IInv, Handed, NotHeld
<1>6. OneOwnerPerRef'
  BY <1>1, <1>2, <1>3 DEF IInv, Handed, OneOwnerPerRef, Registered
<1>7. AtWork' /\ Waiting' /\ InNote'
  BY <1>1 DEF IInv, AtWork, Waiting, InNote, Item, Queued
<1>8. InHand'
  BY <1>1, <1>2, StorageTaskAssumption DEF IInv, InHand, AtWork, Handed, NotHeld
<1>9. Safe'
  <2>1. ASSUME ~LossyCommit PROVE ContentAvailable'
    BY <1>1, <1>2, <1>3, <2>1 DEF IInv, Safe, ContentAvailable, Registered, Handed
  <2>2. ASSUME ~LossyCommit PROVE OldRefsTracked'
    BY <1>1, <2>2 DEF IInv, Safe, OldRefsTracked, Handed
  <2>3. QED
    BY <2>1, <2>2 DEF Safe
<1>10. QED
  BY <1>4, <1>5, <1>6, <1>7, <1>8, <1>9 DEF IInv

LEMMA UnreferenceStep ==
    ASSUME IInv, NEW i \in Ids, Unreference(i)
    PROVE  IInv'
<1>1. used' = used \ {i} /\ UNCHANGED <<row, stored, spent, superseded, tasks, exec>>
  BY DEF Unreference
<1>2. TypeOK' /\ OneOwnerPerRef'
  BY <1>1 DEF IInv, TypeOK, OneOwnerPerRef, Registered
<1>3. Handed'
  BY <1>1 DEF IInv, Handed, NotHeld
<1>4. AtWork' /\ Waiting' /\ InNote'
  BY <1>1 DEF IInv, AtWork, Waiting, InNote, Item, Queued
<1>5. InHand'
  BY <1>1 DEF IInv, InHand, NotHeld
<1>6. Safe'
  BY <1>1 DEF IInv, Safe, ContentAvailable, OldRefsTracked, Registered
<1>7. QED
  BY <1>2, <1>3, <1>4, <1>5, <1>6 DEF IInv

-----------------------------------------------------------------------------
(* Tasks.                                                                  *)

\* A task that has no notes changes, while the executor has another.
LEMMA TaskChanges ==
    ASSUME IInv, NEW t \in Tasks, NEW x \in Task, tasks' = [tasks EXCEPT ![t] = x],
           tasks[t].phase = "none" \/ Queued(t),
           \A i \in Ids : x.old[i] = NoRef,
           UNCHANGED <<row, used, stored, spent, superseded, exec>>
    PROVE  IInv'
<1>1. \A s \in Tasks : tasks'[s] = IF s = t THEN x ELSE tasks[s]
  BY DEF IInv, TypeOK
<1>2. exec.step # "idle" => exec.task \in Tasks /\ exec.task # t
  BY DEF IInv, AtWork, Queued
<1>3. \A i \in Ids : tasks[t].old[i] = NoRef
  BY DEF IInv, Waiting
<1>4. TypeOK' /\ OneOwnerPerRef'
  BY DEF IInv, TypeOK, OneOwnerPerRef, Registered
<1>5. Handed'
  BY DEF IInv, Handed, NotHeld
<1>6. AtWork'
  BY <1>1, <1>2 DEF IInv, AtWork
<1>7. InHand'
  BY DEF IInv, InHand, NotHeld
<1>8. Waiting'
  BY <1>1, <1>2 DEF IInv, Waiting, Queued, Item
<1>9. InNote'
  BY <1>1, <1>2 DEF IInv, InNote
<1>10. Safe'
  <2>1. ASSUME ~LossyCommit PROVE ContentAvailable'
    BY <2>1 DEF IInv, Safe, ContentAvailable, Registered
  <2>2. ASSUME ~LossyCommit, NEW r \in superseded' \cap stored'
        PROVE  \/ exec'.step = "delete_old" /\ exec'.old = r
               \/ \E s \in Tasks, i \in Ids : tasks'[s].old[i] = r
    <3>1. \/ exec.step = "delete_old" /\ exec.old = r
          \/ \E s \in Tasks, i \in Ids : tasks[s].old[i] = r
      BY <2>2 DEF IInv, Safe, OldRefsTracked
    <3>2. r # NoRef
      BY <2>2, StorageTaskAssumption DEF IInv, TypeOK
    <3>3. QED
      BY <1>1, <1>3, <3>1, <3>2
  <2>3. QED
    BY <2>1, <2>2 DEF Safe, OldRefsTracked
<1>11. QED
  BY <1>4, <1>5, <1>6, <1>7, <1>8, <1>9, <1>10 DEF IInv

LEMMA CreateStep ==
    ASSUME IInv, NEW t \in Tasks, NEW phase \in {"scan", "apply"},
           NEW kind \in {"migrate", "convert", "purge"}, NEW form \in Forms,
           NEW status \in {"queued", "done"}, NEW hits,
           CreateTask(t, phase, kind, form, status, hits)
    PROVE  IInv'
<1> DEFINE items == [i \in Ids |-> IF i \in hits THEN "pending" ELSE "absent"]
           x == [NoTask EXCEPT !.phase = phase, !.kind = kind, !.form = form,
                               !.status = status, !.items = items]
<1>1. /\ tasks[t].phase = "none" /\ tasks' = [tasks EXCEPT ![t] = x]
      /\ UNCHANGED <<row, used, stored, spent, superseded, exec>>
  BY DEF CreateTask
<1>2. items \in [Ids -> {"absent", "pending", "done", "failed", "skipped"}]
  OBVIOUS
<1> HIDE DEF items
<1>3. NoTask \in Task /\ \A i \in Ids : NoTask.old[i] = NoRef
  BY StorageTaskAssumption DEF NoTask, Task, AnyForm
<1>4. x \in Task /\ x.old = NoTask.old
  BY <1>2, <1>3 DEF Task
<1> HIDE DEF x
<1>5. QED
  BY <1>1, <1>3, <1>4, TaskChanges

LEMMA CancelStep ==
    ASSUME IInv, NEW t \in Tasks, CancelQueuedScopedMigrations(t)
    PROVE  IInv'
<1> DEFINE items == [i \in Ids |-> IF tasks[t].items[i] = "pending" THEN "skipped"
                                   ELSE tasks[t].items[i]]
           x == [tasks[t] EXCEPT !.status = "canceled", !.items = items]
<1>1. /\ Queued(t) /\ tasks' = [tasks EXCEPT ![t] = x]
      /\ UNCHANGED <<row, used, stored, spent, superseded, exec>>
  BY DEF CancelQueuedScopedMigrations, Queued
<1>2. items \in [Ids -> {"absent", "pending", "done", "failed", "skipped"}]
  BY TaskFields DEF IInv
<1> HIDE DEF items
<1>3. x \in Task /\ x.old = tasks[t].old
  BY <1>2, TaskFields DEF IInv, Task
<1> HIDE DEF x
<1>4. \A i \in Ids : x.old[i] = NoRef
  BY <1>1, <1>3 DEF IInv, Waiting
<1>5. QED
  BY <1>1, <1>3, <1>4, TaskChanges

LEMMA AdminStep ==
    ASSUME IInv, NEW t \in Tasks, TaskRequest(t) \/ GroupBinding(t)
    PROVE  IInv'
<1>1. ASSUME NEW form \in Forms, CreateStorageTask(t, form) PROVE IInv'
  BY <1>1, CreateStep DEF CreateStorageTask
<1>2. ASSUME NEW kind \in {"convert", "purge"}, NEW form \in Forms, CreateScanTask(t, kind, form)
      PROVE  IInv'
  BY <1>2, CreateStep DEF CreateScanTask
<1>3. ASSUME NEW s \in Tasks, CreateTaskFromScan(t, s) PROVE IInv'
  <2>1. tasks[s].kind \in {"migrate", "convert", "purge"} /\ tasks[s].form \in Forms
    BY TaskFields DEF IInv, Task
  <2>2. QED
    BY <1>3, <2>1, CreateStep DEF CreateTaskFromScan
<1>4. QED
  BY <1>1, <1>2, <1>3, CancelStep DEF TaskRequest, GroupBinding

-----------------------------------------------------------------------------
(* The executor begins and ends.                                           *)

\* What the tasks have in common before and after a step that notes nothing.
SameNotes ==
    /\ tasks' \in [Tasks -> Task]
    /\ \A t \in Tasks : /\ tasks'[t].phase = tasks[t].phase
                        /\ tasks'[t].status = "queued" => tasks[t].status = "queued"
                        /\ tasks'[t].old = tasks[t].old

\* Nothing but the executor and the state of its task changes.
Aside == UNCHANGED <<row, used, stored, spent, superseded>>

LEMMA AsideKeeps ==
    ASSUME IInv, Aside, exec' \in Exec, tasks' \in [Tasks -> Task]
    PROVE  /\ TypeOK' /\ OneOwnerPerRef' /\ Handed'
           /\ ~LossyCommit => ContentAvailable'
<1>1. TypeOK' /\ OneOwnerPerRef'
  BY DEF Aside, IInv, TypeOK, OneOwnerPerRef, Registered
<1>2. Handed'
  BY DEF Aside, IInv, Handed, NotHeld
<1>3. ~LossyCommit => ContentAvailable'
  BY DEF Aside, IInv, Safe, ContentAvailable, Registered
<1>4. QED
  BY <1>1, <1>2, <1>3

\* What was being deleted is noted on its item, too.
LEMMA NotesTrack ==
    ASSUME IInv, ~LossyCommit, superseded' = superseded, stored' = stored, SameNotes
    PROVE  OldRefsTracked'
<1> SUFFICES ASSUME NEW r \in superseded \cap stored
             PROVE  \E t \in Tasks, i \in Ids : tasks'[t].old[i] = r
  BY DEF OldRefsTracked
<1>1. CASE exec.step = "delete_old" /\ exec.old = r
  <2>1. exec.task \in Tasks /\ exec.id \in Ids /\ tasks[exec.task].old[exec.id] = r
    BY <1>1 DEF IInv, AtWork, InNote
  <2>2. QED
    BY <2>1 DEF SameNotes
<1>2. CASE \E t \in Tasks, i \in Ids : tasks[t].old[i] = r
  BY <1>2 DEF SameNotes
<1>3. QED
  BY <1>1, <1>2 DEF IInv, Safe, OldRefsTracked

\* The executor stops, with its task ended, or found by the next process.
LEMMA Stops ==
    ASSUME IInv, Aside, exec' = IdleExec, SameNotes
    PROVE  IInv'
<1>1. exec'.step = "idle" /\ exec' \in Exec
  BY IdleTyped
<1>2. AtWork' /\ InHand' /\ InNote'
  BY <1>1 DEF AtWork, InHand, InNote
<1>3. Waiting'
  BY <1>1 DEF IInv, Waiting, SameNotes, Queued
<1>4. Safe'
  BY <1>1, AsideKeeps, NotesTrack DEF Safe, SameNotes, Aside
<1>5. QED
  BY <1>1, <1>2, <1>3, <1>4, AsideKeeps DEF IInv, SameNotes

LEMMA EndsTask ==
    ASSUME IInv, NEW status \in {"done", "failed"}, EndTask(status), exec.step # "idle"
    PROVE  exec' = IdleExec /\ SameNotes
<1>1. CASE UNCHANGED tasks
  BY <1>1 DEF EndTask, SameNotes, IInv, TypeOK
<1>2. CASE tasks' = [tasks EXCEPT ![exec.task].status = status]
  <2> DEFINE x == [tasks[exec.task] EXCEPT !.status = status]
  <2>1. exec.task \in Tasks
    BY DEF IInv, AtWork
  <2>2. /\ x \in Task /\ x.status = status /\ x.old = tasks[exec.task].old
        /\ x.phase = tasks[exec.task].phase
    BY <2>1, TaskFields DEF IInv, Task
  <2>3. tasks' = [tasks EXCEPT ![exec.task] = x]
    BY <1>2
  <2> HIDE DEF x
  <2>4. tasks' \in [Tasks -> Task]
        /\ \A t \in Tasks : tasks'[t] = IF t = exec.task THEN x ELSE tasks[t]
    BY <2>2, <2>3 DEF IInv, TypeOK
  <2>5. QED
    BY <2>2, <2>4 DEF EndTask, SameNotes
<1>3. QED
  BY <1>1, <1>2 DEF EndTask

LEMMA RestartStep == ASSUME IInv, Restart PROVE IInv'
<1>1. ASSUME NEW t \in Tasks
      PROVE  /\ tasks'[t] \in Task /\ tasks'[t].phase = tasks[t].phase
             /\ tasks'[t].status = "queued" => tasks[t].status = "queued"
             /\ tasks'[t].old = tasks[t].old
  <2>1. tasks'[t] = tasks[t] \/ tasks'[t] = [tasks[t] EXCEPT !.status = "failed"]
    BY DEF Restart
  <2>2. QED
    BY <2>1, TaskFields DEF IInv, Task
<1>2. tasks' \in [Tasks -> Task]
  BY <1>1 DEF Restart
<1>3. QED
  BY <1>1, <1>2, Stops DEF SameNotes, Restart, Aside

LEMMA ClaimStep ==
    ASSUME IInv, NEW t \in Tasks, ClaimQueuedStorageTask(t)
    PROVE  IInv'
<1> DEFINE x == [tasks[t] EXCEPT !.status = "running"]
           e == [IdleExec EXCEPT !.step = "next", !.task = t]
<1>1. exec.step = "idle" /\ Queued(t) /\ tasks' = [tasks EXCEPT ![t] = x] /\ exec' = e /\ Aside
  BY DEF ClaimQueuedStorageTask, Aside
<1>2. /\ x \in Task /\ x.old = tasks[t].old /\ x.phase = "apply" /\ x.status = "running"
  BY <1>1, TaskFields DEF IInv, Task, Queued
<1>3. e \in Exec /\ e.step = "next" /\ e.task = t /\ e.id = NoId /\ e.new = NoRef
  BY NextTyped
<1> HIDE DEF x, e
<1>4. tasks' \in [Tasks -> Task] /\ \A s \in Tasks : tasks'[s] = IF s = t THEN x ELSE tasks[s]
  BY <1>1, <1>2 DEF IInv, TypeOK
<1>5. SameNotes
  BY <1>1, <1>2, <1>4 DEF SameNotes, Queued
<1>6. AtWork' /\ InHand' /\ InNote'
  BY <1>1, <1>2, <1>3, <1>4 DEF AtWork, InHand, InNote
<1>7. Waiting'
  BY <1>1, <1>2, <1>3, <1>4, <1>5 DEF IInv, Waiting, SameNotes, Queued, Item
<1>8. Safe'
  BY <1>1, <1>3, <1>4, <1>5, AsideKeeps, NotesTrack DEF Safe, Aside
<1>9. QED
  BY <1>1, <1>3, <1>4, <1>6, <1>7, <1>8, AsideKeeps DEF IInv

LEMMA MarkStep == ASSUME IInv, MarkStorageTaskItem PROVE IInv'
<1>1. exec.step = "mark" /\ Aside
  BY DEF MarkStorageTaskItem, Aside
<1>2. CASE EndTask("failed")
  BY <1>1, <1>2, EndsTask, Stops
<1>3. CASE Marked /\ exec' = [IdleExec EXCEPT !.step = "next", !.task = exec.task]
  <2> DEFINE e == [IdleExec EXCEPT !.step = "next", !.task = exec.task]
             items == [tasks[exec.task].items EXCEPT ![exec.id] = exec.result]
             x == [tasks[exec.task] EXCEPT !.items = items]
  <2>1. exec.task \in Tasks /\ exec.id \in Ids /\ exec.result \in {"done", "failed"}
    BY <1>1, ExecFields DEF IInv, AtWork
  <2>2. e \in Exec /\ e.step = "next" /\ e.task = exec.task /\ e.id = NoId /\ e.new = NoRef
    BY <2>1, NextTyped
  <2>3. /\ items \in [Ids -> {"absent", "pending", "done", "failed", "skipped"}]
        /\ \A i \in Ids : items[i] = IF i = exec.id THEN exec.result ELSE tasks[exec.task].items[i]
    BY <2>1, TaskFields DEF IInv
  <2>4. tasks' = [tasks EXCEPT ![exec.task] = x] /\ exec' = e
    BY <1>3 DEF Marked
  <2> HIDE DEF e, items
  <2>5. /\ x \in Task /\ x.old = tasks[exec.task].old /\ x.phase = tasks[exec.task].phase
        /\ x.status = tasks[exec.task].status /\ x.items = items
    BY <2>1, <2>3, TaskFields DEF IInv, Task
  <2> HIDE DEF x
  <2>6. tasks' \in [Tasks -> Task]
        /\ \A t \in Tasks : tasks'[t] = IF t = exec.task THEN x ELSE tasks[t]
    BY <2>4, <2>5 DEF IInv, TypeOK
  <2>7. SameNotes
    BY <2>5, <2>6 DEF SameNotes
  <2>8. AtWork' /\ InHand' /\ InNote'
    BY <1>1, <2>1, <2>2, <2>4, <2>5, <2>6 DEF IInv, AtWork, InHand, InNote
  <2>9. Waiting'
    <3>1. \A t \in Tasks : tasks'[t].phase = "none" \/ Queued(t)' =>
              \A i \in Ids : tasks'[t].old[i] = NoRef
      BY <2>7 DEF IInv, Waiting, SameNotes, Queued
    <3>2. ASSUME NEW i \in Ids, Item(i)' = "pending"
          PROVE  tasks'[exec'.task].old[i] = NoRef
      <4>1. Item(i)' = items[i] /\ tasks'[exec'.task].old[i] = tasks[exec.task].old[i]
        BY <2>1, <2>2, <2>4, <2>5, <2>6 DEF Item
      <4>2. i # exec.id /\ Item(i) = "pending"
        BY <2>1, <2>3, <3>2, <4>1 DEF Item
      <4>3. QED
        BY <1>1, <4>1, <4>2 DEF IInv, Waiting
    <3>3. QED
      BY <3>1, <3>2 DEF Waiting
  <2>10. Safe'
    BY <1>1, <2>2, <2>4, <2>6, <2>7, AsideKeeps, NotesTrack DEF Safe, Aside
  <2>11. QED
    BY <1>1, <2>2, <2>4, <2>6, <2>8, <2>9, <2>10, AsideKeeps DEF IInv
<1>4. QED
  BY <1>2, <1>3 DEF MarkStorageTaskItem

LEMMA FinishStep == ASSUME IInv, FinishStorageTask PROVE IInv'
<1>1. exec.step = "next" /\ Aside /\ (EndTask("done") \/ EndTask("failed"))
  BY DEF FinishStorageTask, Aside
<1>2. QED
  BY <1>1, EndsTask, Stops

\* The item that is taken has no note, so that nothing is deleted.
LEMMA TakeStep ==
    ASSUME IInv, NEW i \in Ids, TakeItem(i)
    PROVE  IInv'
<1> DEFINE noted == {tasks[exec.task].old[i]} \ {NoRef}
<1>1. /\ exec.step = "next" /\ Item(i) = "pending" /\ exec.id = NoId /\ exec.task \in Tasks
      /\ tasks[exec.task].phase = "apply" /\ tasks[exec.task].status # "queued"
  BY DEF TakeItem, IInv, AtWork
<1>2. tasks[exec.task].old[i] = NoRef
  BY <1>1, StorageTaskAssumption DEF IInv, Waiting
<1>3. noted = {}
  BY <1>2
<1>4. tasks' = tasks
  <2> DEFINE o == tasks[exec.task].old
             x == [tasks[exec.task] EXCEPT !.old = [o EXCEPT ![i] = NoRef]]
  <2>1. o \in [Ids -> Refs \cup {NoRef}]
    BY <1>1, TaskFields DEF IInv
  <2>2. [o EXCEPT ![i] = NoRef] = o
    BY <1>2, <2>1
  <2>3. x = tasks[exec.task]
    BY <1>1, <2>2, TaskFields DEF IInv, Task
  <2>4. tasks' = tasks \/ tasks' = [tasks EXCEPT ![exec.task] = x]
    BY DEF TakeItem
  <2> HIDE DEF x
  <2>5. QED
    BY <1>1, <2>3, <2>4 DEF IInv, TypeOK
<1>5. PICK step \in {"mark", "drop", "record"}, result \in {"done", "failed"} :
          /\ exec' = [exec EXCEPT !.id = i, !.old = row[i], !.step = step, !.result = result]
          /\ step # "mark" => ~Settled(i)
          /\ stored' = stored /\ UNCHANGED <<row, used, spent, superseded>>
  BY <1>3 DEF TakeItem
<1>6. /\ exec' \in Exec /\ exec'.id = i /\ exec'.old = row[i] /\ exec'.step = step
      /\ exec'.new = exec.new /\ exec'.task = exec.task
  <2>1. row[i] \in Refs \cup {NoRef}
    BY DEF IInv, TypeOK
  <2>2. QED
    BY <1>5, <2>1, ExecFields DEF Exec, IInv
<1>7. step # "mark" => row[i] \in Refs
  BY <1>5 DEF Settled, Registered, IInv, TypeOK
<1>8. AtWork'
  BY <1>1, <1>4, <1>5, <1>6 DEF AtWork
<1>9. InHand'
  BY <1>1, <1>5, <1>6, <1>7 DEF InHand, IInv
<1>10. InNote'
  BY <1>2, <1>4, <1>5, <1>6 DEF InNote
<1>11. Waiting'
  BY <1>1, <1>4, <1>6, StorageTaskAssumption DEF IInv, Waiting, Item, Queued
<1>12. SameNotes /\ Aside
  BY <1>4, <1>5 DEF SameNotes, Aside, IInv, TypeOK
<1>13. Safe'
  BY <1>5, <1>6, <1>12, AsideKeeps, NotesTrack DEF Safe, SameNotes
<1>14. QED
  BY <1>6, <1>8, <1>9, <1>10, <1>11, <1>12, <1>13, AsideKeeps DEF IInv, SameNotes

-----------------------------------------------------------------------------
(* What the steps of a rewrite have in common.                             *)

AtItem == exec.step \notin {"idle", "next"}

LEMMA WorkGoesOn ==
    ASSUME IInv, AtItem, NEW r, Notes(r), NEW step \in Steps \ {"idle", "next"}, exec' \in Exec,
           exec'.step = step, exec'.task = exec.task, exec'.id = exec.id
    PROVE  AtWork' /\ Waiting'
<1>1. /\ exec.task \in Tasks /\ tasks[exec.task].phase = "apply"
      /\ tasks[exec.task].status # "queued" /\ exec.id \in Ids /\ exec.step # "idle"
  BY DEF IInv, AtWork, AtItem
<1>2. AtWork'
  BY <1>1 DEF AtWork, Notes
<1>3. \A t \in Tasks : tasks'[t].phase = "none" \/ Queued(t)' =>
          \A i \in Ids : tasks'[t].old[i] = NoRef
  BY <1>1 DEF IInv, Waiting, Notes, Queued
<1>4. \A i \in Ids : Item(i)' = "pending" /\ i # exec'.id => tasks'[exec'.task].old[i] = NoRef
  BY <1>1 DEF IInv, Waiting, Notes, Item
<1>5. QED
  BY <1>2, <1>3, <1>4 DEF Waiting

\* The end of an item asks nothing of the objects.
LEMMA NothingInHand == ASSUME exec'.step = "mark" PROVE InHand' /\ InNote'
  BY DEF InHand, InNote

\* Old objects stay tracked when a note is made that is none, or cleared that
\* is of an object in use.
LEMMA Tracks ==
    ASSUME IInv, AtItem, ~LossyCommit, exec.step # "delete_old", NEW r, Notes(r),
           superseded' = superseded, superseded \cap stored' \subseteq stored,
           tasks[exec.task].old[exec.id] \notin superseded \/ r = tasks[exec.task].old[exec.id]
    PROVE  OldRefsTracked'
<1> SUFFICES ASSUME NEW q \in superseded \cap stored'
             PROVE  \E t \in Tasks, i \in Ids : tasks'[t].old[i] = q
  BY DEF OldRefsTracked
<1>1. PICK t \in Tasks, i \in Ids : tasks[t].old[i] = q
  BY DEF IInv, Safe, OldRefsTracked
<1>2. tasks'[t].old[i] = q
  BY <1>1 DEF Notes
<1>3. QED
  BY <1>2

LEMMA Available ==
    ASSUME IInv, ~LossyCommit, NEW x, \A i \in used : row[i] # x,
           row' = row, used' = used, stored \ {x} \subseteq stored'
    PROVE  ContentAvailable'
  BY DEF IInv, Safe, ContentAvailable, Registered

\* The tables of objects are as they were.
LEMMA ObjectsKept ==
    ASSUME IInv, UNCHANGED <<row, used, spent, superseded>>, stored' \subseteq stored,
           exec' \in Exec, tasks' \in [Tasks -> Task]
    PROVE  TypeOK' /\ Handed' /\ OneOwnerPerRef'
<1>1. TypeOK' /\ OneOwnerPerRef'
  BY DEF IInv, TypeOK, OneOwnerPerRef, Registered
<1>2. Handed'
  BY DEF IInv, Handed, NotHeld
<1>3. QED
  BY <1>1, <1>2

-----------------------------------------------------------------------------
(* Rewriting.                                                              *)

LEMMA NoteStep == ASSUME IInv, MarkStorageTaskItemOldRefs PROVE IInv'
<1>1. exec.step = "record" /\ UNCHANGED <<row, used, stored, spent, superseded>> /\ AtItem
  BY DEF MarkStorageTaskItemOldRefs, AtItem
<1>2. /\ exec.old \in Refs /\ row[exec.id] = exec.old /\ exec.new = NoRef
      /\ tasks[exec.task].old[exec.id] = NoRef /\ exec.task \in Tasks /\ exec.id \in Ids
  BY <1>1 DEF IInv, InHand, InNote, AtWork
<1>3. NoRef \notin superseded
  BY StorageTaskAssumption DEF IInv, TypeOK
<1>4. CASE Note(exec.old) /\ Goto("rewrite")
  <2>1. Notes(exec.old) /\ Moved("rewrite")
    BY <1>1, <1>2, <1>4, NoteChanges, Goes DEF IInv, Steps
  <2>2. AtWork' /\ Waiting'
    BY <1>1, <2>1, WorkGoesOn DEF Moved, Steps
  <2>3. InHand' /\ InNote'
    BY <1>1, <1>2, <2>1 DEF InHand, InNote, Moved, Notes
  <2>4. ASSUME ~LossyCommit PROVE OldRefsTracked'
    BY <1>1, <1>2, <1>3, <2>1, <2>4, Tracks
  <2>5. TypeOK' /\ Handed' /\ OneOwnerPerRef' /\ (~LossyCommit => ContentAvailable')
    BY <1>1, <2>1, AsideKeeps DEF Aside, Moved, Notes
  <2>6. QED
    BY <2>2, <2>3, <2>4, <2>5 DEF IInv, Safe
<1>5. CASE Outcome("failed") /\ UNCHANGED tasks
  <2>1. Notes(tasks[exec.task].old[exec.id]) /\ Moved("mark")
    BY <1>5, NoneNoted, Ends DEF IInv
  <2>2. AtWork' /\ Waiting'
    BY <1>1, <2>1, WorkGoesOn DEF Moved, Steps
  <2>3. ASSUME ~LossyCommit PROVE OldRefsTracked'
    BY <1>1, <2>1, <2>3, Tracks
  <2>4. TypeOK' /\ Handed' /\ OneOwnerPerRef' /\ (~LossyCommit => ContentAvailable')
    BY <1>1, <2>1, AsideKeeps DEF Aside, Moved, Notes
  <2>5. InHand' /\ InNote'
    BY <2>1, NothingInHand DEF Moved
  <2>6. QED
    BY <2>2, <2>3, <2>4, <2>5 DEF IInv, Safe
<1>6. QED
  BY <1>4, <1>5 DEF MarkStorageTaskItemOldRefs

LEMMA WriteStep ==
    ASSUME IInv, NEW r \in Refs, WriteReplacement(r)
    PROVE  IInv'
<1> DEFINE e == [exec EXCEPT !.step = "insert", !.new = r]
<1>1. /\ exec.step = "rewrite" /\ r \notin spent /\ spent' = spent \cup {r}
      /\ stored' = stored \cup {r} /\ exec' = e
      /\ UNCHANGED <<row, used, superseded, tasks>> /\ AtItem
  BY DEF WriteReplacement, AtItem
<1>2. /\ e \in Exec /\ e.step = "insert" /\ e.new = r /\ e.task = exec.task
      /\ e.id = exec.id /\ e.old = exec.old
  BY ExecFields DEF IInv, Exec
<1> HIDE DEF e
<1>3. r # NoRef /\ r \notin superseded /\ NotHeld(r)
  BY <1>1, StorageTaskAssumption DEF IInv, Handed, NotHeld
<1>4. TypeOK' /\ OneOwnerPerRef'
  BY <1>1, <1>2 DEF IInv, TypeOK, OneOwnerPerRef, Registered
<1>5. Handed'
  BY <1>1 DEF IInv, Handed, NotHeld
<1>6. Notes(tasks[exec.task].old[exec.id])
  BY <1>1, NoneNoted DEF IInv
<1>7. AtWork' /\ Waiting'
  BY <1>1, <1>2, <1>6, WorkGoesOn DEF Steps
<1>8. InHand'
  BY <1>1, <1>2, <1>3 DEF IInv, InHand, NotHeld
<1>9. InNote'
  BY <1>1, <1>2 DEF IInv, InNote
<1>10. Safe'
  <2>1. ASSUME ~LossyCommit PROVE ContentAvailable'
    BY <1>1, <2>1 DEF IInv, Safe, ContentAvailable, Registered
  <2>2. ASSUME ~LossyCommit PROVE OldRefsTracked'
    BY <1>1, <1>3, <1>6, <2>2, Tracks
  <2>3. QED
    BY <2>1, <2>2 DEF Safe
<1>11. QED
  BY <1>4, <1>5, <1>7, <1>8, <1>9, <1>10 DEF IInv

LEMMA InsertStep ==
    ASSUME IInv, NEW j \in Ids, InsertReplacement(j)
    PROVE  IInv'
<1> DEFINE e == [exec EXCEPT !.step = "replace", !.temp = j]
<1>1. /\ exec.step = "insert" /\ j \notin spent /\ spent' = spent \cup {j}
      /\ row' = [row EXCEPT ![j] = exec.new] /\ exec' = e
      /\ UNCHANGED <<used, stored, superseded, tasks>> /\ AtItem
  BY DEF InsertReplacement, AtItem
<1>2. /\ e \in Exec /\ e.step = "replace" /\ e.new = exec.new /\ e.task = exec.task
      /\ e.id = exec.id /\ e.old = exec.old /\ e.temp = j
  BY ExecFields DEF IInv, Exec
<1> HIDE DEF e
<1>3. /\ exec.new \in stored \cap spent \cap Refs /\ exec.new # NoRef
      /\ exec.new \notin superseded /\ NotHeld(exec.new)
      /\ exec.old \in Refs /\ row[exec.id] = exec.old /\ exec.id \in Ids
  BY <1>1, StorageTaskAssumption DEF IInv, InHand, AtWork
<1>4. j \notin used /\ j # exec.id
  BY <1>1, <1>3, StorageTaskAssumption DEF IInv, Handed
<1>5. \A k \in Ids : row'[k] = IF k = j THEN exec.new ELSE row[k]
  BY <1>1 DEF IInv, TypeOK
<1>6. TypeOK'
  BY <1>1, <1>2, <1>3 DEF IInv, TypeOK
<1>7. Handed'
  BY <1>1, <1>3, <1>5 DEF IInv, Handed, NotHeld
<1>8. OneOwnerPerRef'
  BY <1>3, <1>5 DEF IInv, OneOwnerPerRef, Registered, NotHeld
<1>9. Notes(tasks[exec.task].old[exec.id])
  BY <1>1, NoneNoted DEF IInv
<1>10. AtWork' /\ Waiting'
  BY <1>1, <1>2, <1>9, WorkGoesOn DEF Steps
<1>11. InHand'
  BY <1>1, <1>2, <1>3, <1>4, <1>5 DEF InHand
<1>12. InNote'
  BY <1>1, <1>2 DEF IInv, InNote
<1>13. Safe'
  <2>1. ASSUME ~LossyCommit PROVE ContentAvailable'
    BY <1>1, <1>4, <1>5, <2>1 DEF IInv, TypeOK, Safe, ContentAvailable, Registered
  <2>2. ASSUME ~LossyCommit PROVE OldRefsTracked'
    BY <1>1, <1>9, <2>2, Tracks
  <2>3. QED
    BY <2>1, <2>2 DEF Safe
<1>14. QED
  BY <1>6, <1>7, <1>8, <1>10, <1>11, <1>12, <1>13 DEF IInv

\* An item is given up or done; its note may be cleared.
LEMMA ItemEnds ==
    ASSUME IInv, AtItem, NEW result \in {"done", "failed"}, Outcome(result),
           Note(NoRef) \/ UNCHANGED tasks
    PROVE  /\ exec' \in Exec /\ tasks' \in [Tasks -> Task]
           /\ AtWork' /\ Waiting' /\ InHand' /\ InNote'
           /\ \E r \in {NoRef, tasks[exec.task].old[exec.id]} : Notes(r)
<1>1. Moved("mark")
  BY Ends DEF IInv
<1>2. PICK r \in {NoRef, tasks[exec.task].old[exec.id]} : Notes(r)
  <2>1. CASE Note(NoRef)
    BY <2>1, NoteChanges DEF IInv, AtItem
  <2>2. CASE UNCHANGED tasks
    BY <2>2, NoneNoted DEF IInv
  <2>3. QED
    BY <2>1, <2>2
<1>3. AtWork' /\ Waiting'
  BY <1>1, <1>2, WorkGoesOn DEF Moved, Steps
<1>4. InHand' /\ InNote'
  BY <1>1, NothingInHand DEF Moved
<1>5. QED
  BY <1>1, <1>2, <1>3, <1>4 DEF Moved, Notes

LEMMA RewriteFailsStep == ASSUME IInv, RewriteFails PROVE IInv'
<1>1. /\ exec.step \in {"rewrite", "insert"} /\ AtItem /\ Outcome("failed")
      /\ stored' \subseteq stored /\ stored \ {exec.new} \subseteq stored'
      /\ UNCHANGED <<row, used, spent, superseded>> /\ (Note(NoRef) \/ UNCHANGED tasks)
  BY DEF RewriteFails, AtItem
<1>2. /\ exec.id \in Ids /\ exec.old \in Refs /\ row[exec.id] = exec.old
      /\ tasks[exec.task].old[exec.id] = exec.old
      /\ exec.new = NoRef \/ NotHeld(exec.new)
  BY <1>1 DEF IInv, AtWork, InHand, InNote
<1>3. exec.old \notin superseded
  BY <1>2 DEF IInv, Handed, NotHeld
<1>4. PICK r \in {NoRef, tasks[exec.task].old[exec.id]} : Notes(r)
  BY <1>1, ItemEnds
<1>5. ASSUME ~LossyCommit PROVE ContentAvailable'
  <2>1. \A i \in used : row[i] # exec.new
    BY <1>2, <1>5 DEF IInv, Safe, ContentAvailable, Registered, NotHeld, TypeOK
  <2>2. QED
    BY <1>1, <1>5, <2>1, Available
<1>6. ASSUME ~LossyCommit PROVE OldRefsTracked'
  BY <1>1, <1>2, <1>3, <1>4, <1>6, Tracks
<1>7. /\ exec' \in Exec /\ tasks' \in [Tasks -> Task]
      /\ AtWork' /\ Waiting' /\ InHand' /\ InNote'
  BY <1>1, ItemEnds
<1>8. TypeOK' /\ Handed' /\ OneOwnerPerRef'
  BY <1>1, <1>7, ObjectsKept
<1>9. QED
  BY <1>5, <1>6, <1>7, <1>8 DEF IInv, Safe

LEMMA ReplaceStep == ASSUME IInv, ReplaceObject PROVE IInv'
<1>1. /\ exec.step = "replace" /\ AtItem /\ row' = Replaced
      /\ superseded' = superseded \cup {exec.old}
      /\ UNCHANGED <<used, stored, spent, tasks>>
  BY DEF ReplaceObject, AtItem
<1>2. PICK step \in {"delete_old", "undo"} : Goto(step) /\ (step = "undo" => LossyCommit)
  BY DEF ReplaceObject
<1>3. Moved(step)
  BY <1>2, Goes DEF IInv, Steps
<1>4. /\ exec.id \in Ids /\ exec.temp \in Ids \ used /\ exec.temp # exec.id
      /\ exec.new \in Refs \cap stored /\ row[exec.temp] = exec.new
      /\ exec.old \in Refs /\ row[exec.id] = exec.old
      /\ tasks[exec.task].old[exec.id] = exec.old
  BY <1>1 DEF IInv, AtWork, InHand, InNote
<1>5. \A k \in Ids : row'[k] = IF k = exec.temp THEN NoRef
                               ELSE IF k = exec.id THEN exec.new ELSE row[k]
  BY <1>1, <1>4 DEF Replaced, IInv, TypeOK
<1>6. exec.new # NoRef /\ exec.old # NoRef /\ exec.new # exec.old
  BY <1>4, StorageTaskAssumption DEF IInv, OneOwnerPerRef, Registered
<1>7. exec.new \in spent /\ exec.old \in spent /\ exec.new \notin superseded
  BY <1>4, <1>6 DEF IInv, Handed, NotHeld
<1>8. TypeOK'
  BY <1>1, <1>3, <1>4 DEF Moved, Replaced, IInv, TypeOK
<1>9. NotHeld(exec.old)'
  BY <1>3, <1>4, <1>5, <1>6 DEF Moved, NotHeld, IInv, OneOwnerPerRef, Registered
<1>10. Handed'
  <2>1. \A i \in Ids : row'[i] # NoRef => i \in spent' /\ row'[i] \in spent'
    BY <1>1, <1>4, <1>5, <1>6, <1>7 DEF IInv, Handed
  <2>2. superseded' \subseteq spent' /\ used' \subseteq spent'
    BY <1>1, <1>7 DEF IInv, Handed
  <2>3. ASSUME NEW r \in superseded' PROVE NotHeld(r)'
    <3>1. CASE r = exec.old
      BY <3>1, <1>3, <1>9 DEF Moved, NotHeld
    <3>2. CASE r \in superseded
      <4>1. r # NoRef /\ \A i \in Ids : row[i] # r
        BY <3>2, StorageTaskAssumption DEF IInv, Handed, NotHeld, TypeOK
      <4>2. QED
        BY <3>2, <4>1, <1>5, <1>7 DEF NotHeld
    <3>3. QED
      BY <1>1, <2>3, <3>1, <3>2
  <2>4. QED
    BY <2>1, <2>2, <2>3 DEF Handed, NotHeld
<1>11. OneOwnerPerRef'
  BY <1>4, <1>5, <1>6 DEF IInv, OneOwnerPerRef, Registered
<1>12. Notes(tasks[exec.task].old[exec.id])
  BY <1>1, NoneNoted DEF IInv
<1>13. AtWork' /\ Waiting'
  BY <1>1, <1>3, <1>12, WorkGoesOn DEF Moved, Steps
<1>14. InHand'
  BY <1>1, <1>2, <1>3, <1>4, <1>7, <1>9 DEF Moved, InHand, NotHeld
<1>15. InNote'
  BY <1>1, <1>3, <1>4 DEF Moved, InNote
<1>16. Safe'
  <2>1. ASSUME ~LossyCommit PROVE ContentAvailable'
    BY <1>1, <1>4, <1>5, <1>6, <2>1 DEF IInv, Safe, ContentAvailable, Registered
  <2>2. ASSUME ~LossyCommit, NEW r \in superseded' \cap stored'
        PROVE  \/ exec'.step = "delete_old" /\ exec'.old = r
               \/ \E t \in Tasks, i \in Ids : tasks'[t].old[i] = r
    <3>1. CASE r = exec.old
      BY <1>2, <1>3, <2>2, <3>1 DEF Moved
    <3>2. CASE r \in superseded
      BY <1>1, <2>2, <3>2 DEF IInv, Safe, OldRefsTracked
    <3>3. QED
      BY <1>1, <2>2, <3>1, <3>2
  <2>3. QED
    BY <2>1, <2>2 DEF Safe, OldRefsTracked
<1>17. QED
  BY <1>8, <1>10, <1>11, <1>13, <1>14, <1>15, <1>16 DEF IInv

LEMMA ReplaceFailsStep == ASSUME IInv, ReplaceFails PROVE IInv'
<1>1. exec.step = "replace" /\ AtItem /\ Goto("undo")
      /\ UNCHANGED <<row, used, stored, spent, superseded, tasks>>
  BY DEF ReplaceFails, AtItem
<1>2. Moved("undo")
  BY <1>1, Goes DEF IInv, Steps
<1>3. Notes(tasks[exec.task].old[exec.id])
  BY <1>1, NoneNoted DEF IInv
<1>4. AtWork' /\ Waiting'
  BY <1>1, <1>2, <1>3, WorkGoesOn DEF Moved, Steps
<1>5. InHand'
  BY <1>1, <1>2 DEF IInv, Moved, InHand
<1>6. InNote'
  BY <1>1, <1>2 DEF IInv, Moved, InNote
<1>7. TypeOK' /\ Handed' /\ OneOwnerPerRef' /\ (~LossyCommit => ContentAvailable')
  BY <1>1, <1>2, <1>3, AsideKeeps DEF Aside, Moved, Notes
<1>8. ASSUME ~LossyCommit PROVE OldRefsTracked'
  BY <1>1, <1>3, <1>8, Tracks
<1>9. QED
  BY <1>4, <1>5, <1>6, <1>7, <1>8 DEF IInv, Safe

LEMMA UndoStep == ASSUME IInv, UndoReplacement PROVE IInv'
<1>1. /\ exec.step = "undo" /\ AtItem /\ Outcome("failed")
      /\ row' \in {row, [row EXCEPT ![exec.temp] = NoRef]}
      /\ stored' \subseteq stored /\ stored \ {exec.new} \subseteq stored'
      /\ UNCHANGED <<used, spent, superseded>> /\ (Note(NoRef) \/ UNCHANGED tasks)
  BY DEF UndoReplacement, AtItem
<1>2. ~LossyCommit =>
          /\ exec.id \in Ids /\ exec.temp \in Ids \ used
          /\ exec.new \in Refs /\ row[exec.temp] = exec.new
          /\ exec.old \in Refs /\ row[exec.id] = exec.old
          /\ tasks[exec.task].old[exec.id] = exec.old
  BY <1>1 DEF IInv, AtWork, InHand, InNote
<1>3. /\ row' \in [Ids -> Refs \cup {NoRef}]
      /\ \A k \in Ids : row'[k] = row[k] \/ (k = exec.temp /\ row'[k] = NoRef)
  BY <1>1 DEF IInv, TypeOK
<1>4. PICK r \in {NoRef, tasks[exec.task].old[exec.id]} : Notes(r)
  BY <1>1, ItemEnds
<1>5. /\ exec' \in Exec /\ tasks' \in [Tasks -> Task]
      /\ AtWork' /\ Waiting' /\ InHand' /\ InNote'
  BY <1>1, ItemEnds
<1>6. TypeOK' /\ OneOwnerPerRef'
  BY <1>1, <1>3, <1>5 DEF IInv, TypeOK, OneOwnerPerRef, Registered
<1>7. Handed'
  BY <1>1, <1>3, StorageTaskAssumption DEF IInv, TypeOK, Handed, NotHeld
<1>8. ASSUME ~LossyCommit PROVE ContentAvailable'
  <2>1. ASSUME NEW i \in used
        PROVE  i \in Registered /\ row[i] \in stored /\ row'[i] = row[i] /\ row[i] # exec.new
    <3>1. i \in Registered /\ row[i] \in stored /\ i \in Ids
      BY <1>8 DEF IInv, Safe, ContentAvailable, TypeOK
    <3>2. i # exec.temp
      BY <1>2, <1>8
    <3>3. exec.temp \in Registered
      BY <1>2, <1>8, StorageTaskAssumption DEF Registered
    <3>4. QED
      BY <1>2, <1>3, <1>8, <3>1, <3>2, <3>3 DEF IInv, OneOwnerPerRef
  <2>2. QED
    BY <1>1, <2>1 DEF ContentAvailable, Registered
<1>9. ASSUME ~LossyCommit PROVE OldRefsTracked'
  <2>1. exec.old \notin superseded
    BY <1>2, <1>9 DEF IInv, Handed, NotHeld
  <2>2. QED
    BY <1>1, <1>2, <1>4, <1>9, <2>1, Tracks
<1>10. QED
  BY <1>5, <1>6, <1>7, <1>8, <1>9 DEF IInv, Safe

LEMMA DeleteOldStep == ASSUME IInv, DeleteOldRefs PROVE IInv'
<1>1. /\ exec.step = "delete_old" /\ AtItem /\ stored' \subseteq stored
      /\ stored \ {exec.old} \subseteq stored'
      /\ UNCHANGED <<row, used, spent, superseded>> /\ (Note(NoRef) \/ UNCHANGED tasks)
      /\ stored' = stored \ {exec.old} \/ UNCHANGED <<stored, tasks>>
  BY DEF DeleteOldRefs, AtItem
<1>2. PICK result \in {"done", "failed"} : Outcome(result)
  BY DEF DeleteOldRefs
<1>3. PICK r \in {NoRef, tasks[exec.task].old[exec.id]} : Notes(r)
  BY <1>1, <1>2, ItemEnds
<1>4. /\ exec' \in Exec /\ tasks' \in [Tasks -> Task]
      /\ AtWork' /\ Waiting' /\ InHand' /\ InNote'
  BY <1>1, <1>2, ItemEnds
<1>5. TypeOK' /\ Handed' /\ OneOwnerPerRef'
  BY <1>1, <1>4, ObjectsKept
<1>6. NotHeld(exec.old) /\ tasks[exec.task].old[exec.id] = exec.old
  BY <1>1 DEF IInv, InHand, InNote
<1>7. ASSUME ~LossyCommit PROVE ContentAvailable'
  <2>1. \A i \in used : row[i] # exec.old
    BY <1>6 DEF NotHeld, IInv, TypeOK
  <2>2. QED
    BY <1>1, <1>7, <2>1, Available
<1>8. ASSUME ~LossyCommit PROVE OldRefsTracked'
  <2>1. CASE UNCHANGED <<stored, tasks>>
    BY <1>1, <1>4, <1>8, <2>1, NotesTrack DEF SameNotes
  <2>2. CASE stored' = stored \ {exec.old}
    <3> SUFFICES ASSUME NEW q \in superseded' \cap stored'
                 PROVE  \E t \in Tasks, i \in Ids : tasks'[t].old[i] = q
      BY DEF OldRefsTracked
    <3>1. q # exec.old /\ q \in superseded \cap stored
      BY <1>1, <2>2
    <3>2. PICK t \in Tasks, i \in Ids : tasks[t].old[i] = q
      BY <1>8, <3>1 DEF IInv, Safe, OldRefsTracked
    <3>3. tasks'[t].old[i] = q
      BY <1>3, <1>6, <3>1, <3>2 DEF Notes
    <3>4. QED
      BY <3>3
  <2>3. QED
    BY <1>1, <2>1, <2>2
<1>9. QED
  BY <1>4, <1>5, <1>7, <1>8 DEF IInv, Safe

-----------------------------------------------------------------------------
(* Purging.                                                                *)

LEMMA DropStep == ASSUME IInv, DropObject PROVE IInv'
<1>1. exec.step = "drop" /\ AtItem /\ UNCHANGED <<used, stored, spent, superseded, tasks>>
  BY DEF DropObject, AtItem
<1>2. exec.id \in Ids /\ exec.old \in Refs /\ row[exec.id] = exec.old
  BY <1>1 DEF IInv, AtWork, InHand
<1>3. Notes(tasks[exec.task].old[exec.id])
  BY <1>1, NoneNoted DEF IInv
<1>4. CASE (Outcome("done") \/ Outcome("failed")) /\ UNCHANGED row
  <2>1. /\ exec' \in Exec /\ tasks' \in [Tasks -> Task]
        /\ AtWork' /\ Waiting' /\ InHand' /\ InNote'
    BY <1>1, <1>4, ItemEnds
  <2>2. TypeOK' /\ Handed' /\ OneOwnerPerRef' /\ (~LossyCommit => ContentAvailable')
    BY <1>1, <1>4, <2>1, AsideKeeps DEF Aside
  <2>3. ASSUME ~LossyCommit PROVE OldRefsTracked'
    BY <1>1, <1>3, <2>3, Tracks
  <2>4. QED
    BY <2>1, <2>2, <2>3 DEF IInv, Safe
<1>5. CASE exec.id \notin used /\ row' = [row EXCEPT ![exec.id] = NoRef] /\ Goto("delete_orphan")
  <2>1. Moved("delete_orphan")
    BY <1>5, Goes DEF IInv, Steps
  <2>2. \A k \in Ids : row'[k] = IF k = exec.id THEN NoRef ELSE row[k]
    BY <1>2, <1>5 DEF IInv, TypeOK
  <2>3. TypeOK' /\ OneOwnerPerRef'
    BY <1>1, <1>2, <1>5, <2>1, <2>2 DEF IInv, Moved, TypeOK, OneOwnerPerRef, Registered
  <2>4. Handed'
    BY <1>1, <2>2, StorageTaskAssumption DEF IInv, TypeOK, Handed, NotHeld
  <2>5. AtWork' /\ Waiting'
    BY <1>1, <1>3, <2>1, WorkGoesOn DEF Moved, Steps
  <2>6. exec.old \in spent /\ exec.old # NoRef
    BY <1>2, StorageTaskAssumption DEF IInv, Handed
  <2>7. \A k \in Ids : row'[k] # exec.old
    BY <1>2, <2>2, <2>6 DEF IInv, OneOwnerPerRef, Registered
  <2>8. InHand' /\ InNote'
    BY <1>1, <1>2, <2>1, <2>6, <2>7 DEF Moved, InHand, InNote, NotHeld
  <2>9. ASSUME ~LossyCommit PROVE ContentAvailable'
    BY <1>1, <1>5, <2>2, <2>9 DEF IInv, TypeOK, Safe, ContentAvailable, Registered
  <2>10. ASSUME ~LossyCommit PROVE OldRefsTracked'
    BY <1>1, <1>3, <2>10, Tracks
  <2>11. QED
    BY <2>3, <2>4, <2>5, <2>8, <2>9, <2>10 DEF IInv, Safe
<1>6. QED
  BY <1>4, <1>5 DEF DropObject

LEMMA DeleteOrphanStep == ASSUME IInv, DeleteOrphanRefs PROVE IInv'
<1>1. /\ exec.step = "delete_orphan" /\ AtItem /\ stored' \subseteq stored
      /\ stored \ {exec.old} \subseteq stored'
      /\ UNCHANGED <<row, used, spent, superseded, tasks>>
  BY DEF DeleteOrphanRefs, AtItem
<1>2. PICK result \in {"done", "failed"} : Outcome(result)
  BY DEF DeleteOrphanRefs
<1>3. /\ exec' \in Exec /\ tasks' \in [Tasks -> Task]
      /\ AtWork' /\ Waiting' /\ InHand' /\ InNote'
  BY <1>1, <1>2, ItemEnds
<1>4. TypeOK' /\ Handed' /\ OneOwnerPerRef'
  BY <1>1, <1>3, ObjectsKept
<1>5. ASSUME ~LossyCommit PROVE ContentAvailable'
  <2>1. \A i \in used : row[i] # exec.old
    BY <1>1 DEF NotHeld, IInv, InHand, TypeOK
  <2>2. QED
    BY <1>1, <1>5, <2>1, Available
<1>6. ASSUME ~LossyCommit PROVE OldRefsTracked'
  <2>1. Notes(tasks[exec.task].old[exec.id])
    BY <1>1, NoneNoted DEF IInv
  <2>2. QED
    BY <1>1, <1>6, <2>1, Tracks
<1>7. QED
  BY <1>3, <1>4, <1>5, <1>6 DEF IInv, Safe

-----------------------------------------------------------------------------
(* Theorems.                                                               *)

LEMMA Initially == Init => IInv
<1> SUFFICES ASSUME Init PROVE IInv
  OBVIOUS
<1>1. NoTask \in Task /\ NoTask.phase = "none" /\ \A i \in Ids : NoTask.old[i] = NoRef
  BY StorageTaskAssumption DEF NoTask, Task, AnyForm
<1>2. TypeOK
  BY <1>1, IdleTyped DEF Init, TypeOK
<1>3. Handed /\ OneOwnerPerRef
  BY DEF Init, Handed, OneOwnerPerRef, Registered
<1>4. AtWork /\ InHand /\ InNote
  BY IdleTyped DEF Init, AtWork, InHand, InNote
<1>5. Waiting
  BY <1>1, IdleTyped DEF Init, Waiting
<1>6. Safe
  BY DEF Init, Safe, ContentAvailable, OldRefsTracked
<1>7. QED
  BY <1>2, <1>3, <1>4, <1>5, <1>6 DEF IInv

LEMMA Stutter == ASSUME IInv, UNCHANGED vars PROVE IInv'
<1>1. UNCHANGED <<row, used, stored, spent, superseded, tasks, exec>>
  BY DEF vars
<1>2. TypeOK' /\ OneOwnerPerRef'
  BY <1>1 DEF IInv, TypeOK, OneOwnerPerRef, Registered
<1>3. Handed'
  BY <1>1 DEF IInv, Handed, NotHeld
<1>4. AtWork' /\ Waiting' /\ InNote'
  BY <1>1 DEF IInv, AtWork, Waiting, InNote, Item, Queued
<1>5. InHand'
  BY <1>1 DEF IInv, InHand, NotHeld
<1>6. Safe'
  BY <1>1 DEF IInv, Safe, ContentAvailable, OldRefsTracked, Registered
<1>7. QED
  BY <1>2, <1>3, <1>4, <1>5, <1>6 DEF IInv

LEMMA Inductive == IInv /\ [Next]_vars => IInv'
<1> SUFFICES ASSUME IInv, [Next]_vars PROVE IInv'
  OBVIOUS
<1>1. ASSUME NEW i \in Ids, NEW r \in Refs, Upload(i, r) PROVE IInv'
  BY <1>1, UploadStep
<1>2. ASSUME NEW i \in Ids, Unreference(i) PROVE IInv'
  BY <1>2, UnreferenceStep
<1>3. ASSUME NEW t \in Tasks, TaskRequest(t) \/ GroupBinding(t) PROVE IInv'
  BY <1>3, AdminStep
<1>4. CASE Work
  BY <1>4, ClaimStep, TakeStep, MarkStep, FinishStep, NoteStep, WriteStep, InsertStep,
     RewriteFailsStep, ReplaceStep, ReplaceFailsStep, UndoStep, DeleteOldStep, DropStep,
     DeleteOrphanStep DEF Work
<1>5. CASE Restart
  BY <1>5, RestartStep
<1>6. CASE UNCHANGED vars
  BY <1>6, Stutter
<1>7. QED
  BY <1>1, <1>2, <1>3, <1>4, <1>5, <1>6 DEF Next

LEMMA Invariant == Spec => []IInv
<1>1. QED
  BY Initially, Inductive, PTL DEF Spec

\* Type correctness.
THEOREM TypeCorrect == Spec => []TypeOK
<1>1. IInv => TypeOK
  BY DEF IInv
<1>2. QED
  BY <1>1, Invariant, PTL

\* However rewrites and purges fail or are cut off, and whatever a COMMIT
\* reports: no two registered objects ever have one locator, so that deleting
\* what one of them gave up (RewriteObject, ReplaceObject, DropObject) never
\* reaches the content of another.
THEOREM OneOwner == Spec => []OneOwnerPerRef
<1>1. IInv => OneOwnerPerRef
  BY DEF IInv
<1>2. QED
  BY <1>1, Invariant, PTL

\* Unless a COMMIT of ReplaceObject is reported failed that was not, an object
\* that a row holds is registered and its content is where its row says, in
\* whatever step of a task the executor fails or is killed.
THEOREM ContentSafe == ASSUME LossyCommit = FALSE PROVE Spec => []ContentAvailable
<1>1. IInv => ContentAvailable
  BY DEF IInv, Safe
<1>2. QED
  BY <1>1, Invariant, PTL

\* Under the same proviso, what an object was stored in before it was rewritten
\* is deleted, or about to be, or still noted on an item of a task.
THEOREM OldRefsKept == ASSUME LossyCommit = FALSE PROVE Spec => []OldRefsTracked
<1>1. IInv => OldRefsTracked
  BY DEF IInv, Safe
<1>2. QED
  BY <1>1, Invariant, PTL
=============================================================================

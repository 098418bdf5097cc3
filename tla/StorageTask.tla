----------------------------- MODULE StorageTask -----------------------------
(***************************************************************************)
(* Storage maintenance: tasks queued by administrators (migrate, encrypt,  *)
(* decrypt, rechunk, purge of orphans) and the one executor that works     *)
(* through their items while uploads register objects, owners give them up *)
(* and the process restarts.                                               *)
(*                                                                         *)
(* An object is rewritten in five steps: note the locator it has, write    *)
(* the content again elsewhere, point the metadata there, delete what is   *)
(* at the old locator, clear the note.  A locator stands for the list of   *)
(* parts of one physical object; FormOf is where and how it is written     *)
(* (backend, encryption, part size), what a task's target is compared to.  *)
(***************************************************************************)
EXTENDS Integers, FiniteSets

CONSTANTS
    Ids,         \* storage_blobs.id (random, never reused)
    Refs,        \* locators of physical objects (random, never reused)
    Forms,       \* ways an object can be stored
    FormOf,      \* the form each locator is written in
    NoId, NoRef,
    MaxTask,     \* bound on storage_tasks rows
    LossyCommit  \* whether a COMMIT may succeed and still be reported failed

Tasks == 1..MaxTask

ASSUME StorageTaskAssumption ==
    /\ Forms # {} /\ FormOf \in [Refs -> Forms]
    /\ NoId \notin Ids /\ NoRef \notin Refs
    /\ MaxTask \in Nat
    /\ LossyCommit \in BOOLEAN

VARIABLES
    row,         \* the locator each registered object has, or NoRef
    used,        \* ids with ref_count > 0
    stored,      \* locators whose physical object exists
    spent,       \* ids and locators already handed out
    superseded,  \* history: locators an object had before it was rewritten
    tasks,       \* storage_tasks and storage_task_items
    exec         \* the executor's position in a task

vars == <<row, used, stored, spent, superseded, tasks, exec>>

AnyForm == CHOOSE f \in Forms : TRUE

Task == [phase: {"none", "scan", "apply"}, kind: {"migrate", "convert", "purge"},
         form: Forms,
         status: {"queued", "running", "done", "failed", "canceled"},
         items: [Ids -> {"absent", "pending", "done", "failed", "skipped"}],
         old: [Ids -> Refs \cup {NoRef}]]

Exec == [step: {"idle", "next", "record", "rewrite", "insert", "replace",
                "undo", "delete_old", "drop", "delete_orphan", "mark"},
         task: 0..MaxTask, id: Ids \cup {NoId}, temp: Ids \cup {NoId},
         old: Refs \cup {NoRef}, new: Refs \cup {NoRef},
         result: {"done", "failed"}]

NoTask == [phase |-> "none", kind |-> "migrate", form |-> AnyForm,
           status |-> "queued", items |-> [i \in Ids |-> "absent"],
           old |-> [i \in Ids |-> NoRef]]

IdleExec == [step |-> "idle", task |-> 0, id |-> NoId, temp |-> NoId,
             old |-> NoRef, new |-> NoRef, result |-> "done"]

Init ==
    /\ row = [i \in Ids |-> NoRef]
    /\ used = {}
    /\ stored = {}
    /\ spent = {}
    /\ superseded = {}
    /\ tasks = [t \in Tasks |-> NoTask]
    /\ exec = IdleExec

Registered == {i \in Ids : row[i] # NoRef}

-----------------------------------------------------------------------------
(* The rest of the system, as far as the executor meets it.                *)

\* An upload: content written, object registered and attached.
Upload(i, r) ==
    /\ i \notin spent /\ r \notin spent
    /\ spent' = spent \cup {i, r}
    /\ row' = [row EXCEPT ![i] = r]
    /\ used' = used \cup {i}
    /\ stored' = stored \cup {r}
    /\ UNCHANGED <<superseded, tasks, exec>>

\* The last row that holds an object gives it up.
Unreference(i) ==
    /\ i \in used
    /\ used' = used \ {i}
    /\ UNCHANGED <<row, stored, spent, superseded, tasks, exec>>

-----------------------------------------------------------------------------
(* Tasks are created.                                                      *)

\* The objects a task of this kind would work on now.  (An orphan is listed an
\* hour after its last change, when no upload is about to attach it; the race
\* that this margin leaves open is the subject of module Catalog.)
Hits(kind, form) ==
    {i \in Registered : IF kind = "purge" THEN i \notin used
                        ELSE i \in used /\ FormOf[row[i]] # form}

\* storage_tasks.id is a sequence: a task comes after those already there.
CreateTask(t, phase, kind, form, status, hits) ==
    /\ tasks[t].phase = "none"
    /\ \A s \in Tasks : s < t => tasks[s].phase # "none"
    /\ tasks' = [tasks EXCEPT ![t] = [NoTask EXCEPT
          !.phase = phase, !.kind = kind, !.form = form, !.status = status,
          !.items = [i \in Ids |-> IF i \in hits THEN "pending" ELSE "absent"]]]
    /\ UNCHANGED <<row, used, stored, spent, superseded, exec>>

\* A migration is queued at once ...
CreateStorageTask(t, form) ==
    CreateTask(t, "apply", "migrate", form, "queued", Hits("migrate", form))

\* ... everything else is scanned first, and the list stays as it was found,
CreateScanTask(t, kind, form) ==
    CreateTask(t, "scan", kind, form, "done", Hits(kind, form))

\* however much later, and however often, it is confirmed.
CreateTaskFromScan(t, s) ==
    LET hits == {i \in Ids : tasks[s].items[i] # "absent"}
    IN  /\ tasks[s].phase = "scan" /\ hits # {}
        /\ CreateTask(t, "apply", tasks[s].kind, tasks[s].form, "queued", hits)

\* Mutant of CancelQueuedScopedMigrations: items get the status of their task.
CancelItemsToo(t) ==
    /\ tasks[t].phase = "apply" /\ tasks[t].kind = "migrate"
    /\ tasks[t].status = "queued"
    /\ tasks' = [tasks EXCEPT ![t].status = "canceled",
          ![t].items = [i \in Ids |-> IF @[i] = "pending" THEN "canceled" ELSE @[i]]]
    /\ UNCHANGED <<row, used, stored, spent, superseded, exec>>

\* A group's storage binding changes again before its migration was taken up.
CancelQueuedScopedMigrations(t) ==
    /\ tasks[t].phase = "apply" /\ tasks[t].kind = "migrate"
    /\ tasks[t].status = "queued"
    /\ tasks' = [tasks EXCEPT ![t].status = "canceled",
          ![t].items = [i \in Ids |-> IF @[i] = "pending" THEN "skipped" ELSE @[i]]]
    /\ UNCHANGED <<row, used, stored, spent, superseded, exec>>

-----------------------------------------------------------------------------
(* The executor takes a task, and one item after the other.                *)

Item(i) == tasks[exec.task].items[i]
Queued(t) == tasks[t].phase = "apply" /\ tasks[t].status = "queued"

ClaimQueuedStorageTask(t) ==
    /\ exec.step = "idle"
    /\ Queued(t) /\ \A s \in Tasks : s < t => ~Queued(s)
    /\ tasks' = [tasks EXCEPT ![t].status = "running"]
    /\ exec' = [IdleExec EXCEPT !.step = "next", !.task = t]
    /\ UNCHANGED <<row, used, stored, spent, superseded>>

Goto(step) == exec' = [exec EXCEPT !.step = step]
Outcome(result) == exec' = [exec EXCEPT !.step = "mark", !.result = result]

\* Gone, wanted again, or in its target form already: nothing to do.
Settled(i) ==
    \/ i \notin Registered
    \/ /\ tasks[exec.task].kind = "purge" /\ i \in used
    \/ /\ tasks[exec.task].kind # "purge"
       /\ FormOf[row[i]] = tasks[exec.task].form

\* executeStorageTaskItem up to its switch: a locator noted on the item is
\* deleted first, and whether that succeeds or fails nothing else is done; else
\* the object is read.  An object that cannot be read, for whatever reason,
\* counts as done; one whose locators cannot be read as failed.
TakeItem(i) ==
    LET noted == {tasks[exec.task].old[i]} \ {NoRef}
        Take(step, result) == exec' = [exec EXCEPT !.id = i, !.old = row[i],
                                          !.step = step, !.result = result]
    IN  /\ exec.step = "next" /\ Item(i) = "pending"
        /\ \/ /\ stored' = stored \ noted
              /\ tasks' = [tasks EXCEPT ![exec.task].old[i] = NoRef]
              /\ Take("mark", "done")
           \/ /\ stored' \in {stored, stored \ noted} /\ UNCHANGED tasks
              /\ noted # {} \/ ~Settled(i)
              /\ Take("mark", "failed")
           \/ /\ noted = {} /\ ~Settled(i)
              /\ UNCHANGED <<stored, tasks>>
              /\ Take(IF tasks[exec.task].kind = "purge" THEN "drop" ELSE "record", "done")
        /\ UNCHANGED <<row, used, spent, superseded>>

\* FinishStorageTask, whose own failure nobody looks at: the task then stays
\* 'running' until a restart.
EndTask(status) ==
    /\ exec' = IdleExec
    /\ tasks' = [tasks EXCEPT ![exec.task].status = status] \/ UNCHANGED tasks

Marked == tasks' = [tasks EXCEPT ![exec.task].items[exec.id] = exec.result]

\* Mutant of MarkStorageTaskItem: when it fails the next batch is read.
MarkAndGoOn ==
    /\ exec.step = "mark"
    /\ Marked \/ UNCHANGED tasks
    /\ exec' = [IdleExec EXCEPT !.step = "next", !.task = exec.task]
    /\ UNCHANGED <<row, used, stored, spent, superseded>>

\* When the result of an item cannot be stored the whole task is ended.
MarkStorageTaskItem ==
    /\ exec.step = "mark"
    /\ \/ Marked /\ exec' = [IdleExec EXCEPT !.step = "next", !.task = exec.task]
       \/ EndTask("failed")
    /\ UNCHANGED <<row, used, stored, spent, superseded>>

\* Nothing is pending any more, or what is pending cannot be read.
FinishStorageTask ==
    /\ exec.step = "next"
    /\ \/ (\A i \in Ids : Item(i) # "pending") /\ EndTask("done")
       \/ EndTask("failed")
    /\ UNCHANGED <<row, used, stored, spent, superseded>>

\* The process dies; the next one marks what was running as failed.
Restart ==
    /\ exec.step # "idle" \/ \E t \in Tasks : tasks[t].status = "running"
    /\ exec' = IdleExec
    /\ tasks' = [t \in Tasks |-> IF tasks[t].phase = "apply" /\ tasks[t].status = "running"
                                 THEN [tasks[t] EXCEPT !.status = "failed"]
                                 ELSE tasks[t]]
    /\ UNCHANGED <<row, used, stored, spent, superseded>>

-----------------------------------------------------------------------------
(* rewriteAndReplace, one statement or backend call per action.            *)

Note(r) == tasks' = [tasks EXCEPT ![exec.task].old[exec.id] = r]

\* Mutant of MarkStorageTaskItemOldRefs: the old locator is not noted.
MarkNothing ==
    /\ exec.step = "record"
    /\ Goto("rewrite")
    /\ UNCHANGED <<row, used, stored, spent, superseded, tasks>>

MarkStorageTaskItemOldRefs ==
    /\ exec.step = "record"
    /\ \/ Note(exec.old) /\ Goto("rewrite")
       \/ Outcome("failed") /\ UNCHANGED tasks
    /\ UNCHANGED <<row, used, stored, spent, superseded>>

\* RewriteObject: the content is written to the target ...
WriteReplacement(r) ==
    /\ exec.step = "rewrite"
    /\ exec.old \in stored
    /\ r \notin spent /\ FormOf[r] = tasks[exec.task].form
    /\ spent' = spent \cup {r}
    /\ stored' = stored \cup {r}
    /\ exec' = [exec EXCEPT !.step = "insert", !.new = r]
    /\ UNCHANGED <<row, used, superseded, tasks>>

\* ... and registered under a transitional id, unreferenced.
InsertReplacement(j) ==
    /\ exec.step = "insert"
    /\ j \notin spent
    /\ spent' = spent \cup {j}
    /\ row' = [row EXCEPT ![j] = exec.new]
    /\ exec' = [exec EXCEPT !.step = "replace", !.temp = j]
    /\ UNCHANGED <<used, stored, superseded, tasks>>

\* Either half fails: what was written is deleted again and the note cleared,
\* and both may fail in turn.
RewriteFails ==
    /\ exec.step \in {"rewrite", "insert"}
    /\ stored' \in {stored, stored \ {exec.new}}
    /\ Note(NoRef) \/ UNCHANGED tasks
    /\ Outcome("failed")
    /\ UNCHANGED <<row, used, spent, superseded>>

\* Mutant of Replaced: the transitional row stays.
ReplacedBeside == [row EXCEPT ![exec.id] = exec.new]

\* The object takes over the locator of the transitional row, which goes.
Replaced == [row EXCEPT ![exec.id] = exec.new, ![exec.temp] = NoRef]

\* Mutant of ReplaceObject: the locator to delete is read after the change.
ReplaceObjectThenRead ==
    /\ exec.step = "replace"
    /\ row' = Replaced
    /\ superseded' = superseded \cup {exec.old}
    /\ exec' = [exec EXCEPT !.step = "delete_old", !.old = exec.new]
    /\ UNCHANGED <<used, stored, spent, tasks>>

ReplaceObject ==
    /\ exec.step = "replace"
    /\ row' = Replaced
    /\ superseded' = superseded \cup {exec.old}
    /\ \/ Goto("delete_old")
       \/ LossyCommit /\ Goto("undo")
    /\ UNCHANGED <<used, stored, spent, tasks>>

ReplaceFails ==
    /\ exec.step = "replace"
    /\ Goto("undo")
    /\ UNCHANGED <<row, used, stored, spent, superseded, tasks>>

\* The handler of a failed ReplaceObject: note cleared, transitional row and
\* its content removed, each as far as it succeeds.
UndoReplacement ==
    /\ exec.step = "undo"
    /\ Note(NoRef) \/ UNCHANGED tasks
    /\ row' \in {row, [row EXCEPT ![exec.temp] = NoRef]}
    /\ stored' \in {stored, stored \ {exec.new}}
    /\ Outcome("failed")
    /\ UNCHANGED <<used, spent, superseded>>

\* DeletePhysicalRefs of the old object, then the note is cleared.
DeleteOldRefs ==
    /\ exec.step = "delete_old"
    /\ \/ /\ stored' = stored \ {exec.old}
          /\ Note(NoRef) \/ UNCHANGED tasks
          /\ Outcome("done")
       \/ Outcome("failed") /\ UNCHANGED <<stored, tasks>>
    /\ UNCHANGED <<row, used, spent, superseded>>

-----------------------------------------------------------------------------
(* purge_orphan.                                                           *)

DropObject ==
    /\ exec.step = "drop"
    /\ IF exec.id \in used
       THEN Outcome("done") /\ UNCHANGED row
       ELSE \/ row' = [row EXCEPT ![exec.id] = NoRef] /\ Goto("delete_orphan")
            \/ Outcome("failed") /\ UNCHANGED row
    /\ UNCHANGED <<used, stored, spent, superseded, tasks>>

DeleteOrphanRefs ==
    /\ exec.step = "delete_orphan"
    /\ \/ stored' = stored \ {exec.old} /\ Outcome("done")
       \/ Outcome("failed") /\ UNCHANGED stored
    /\ UNCHANGED <<row, used, spent, superseded, tasks>>

-----------------------------------------------------------------------------
Work ==
    \/ \E t \in Tasks : ClaimQueuedStorageTask(t)
    \/ \E i \in Ids : TakeItem(i)
    \/ MarkStorageTaskItem
    \/ FinishStorageTask
    \/ MarkStorageTaskItemOldRefs
    \/ \E r \in Refs : WriteReplacement(r)
    \/ \E j \in Ids : InsertReplacement(j)
    \/ RewriteFails
    \/ ReplaceObject
    \/ ReplaceFails
    \/ UndoReplacement
    \/ DeleteOldRefs
    \/ DropObject
    \/ DeleteOrphanRefs

\* An administrator asks for a task: a migration, a scan, or what a scan found.
TaskRequest(t) ==
    \/ \E form \in Forms : CreateStorageTask(t, form)
    \/ \E kind \in {"convert", "purge"}, form \in Forms : CreateScanTask(t, kind, form)
    \/ \E s \in Tasks : CreateTaskFromScan(t, s)

\* A group is bound to another backend: its queued migrations are canceled, and
\* then one to the new backend is created, in statements of their own.
GroupBinding(t) ==
    \/ CancelQueuedScopedMigrations(t)
    \/ \E form \in Forms : CreateStorageTask(t, form)

Next ==
    \/ \E i \in Ids, r \in Refs : Upload(i, r)
    \/ \E i \in Ids : Unreference(i)
    \/ \E t \in Tasks : TaskRequest(t) \/ GroupBinding(t)
    \/ Work
    \/ Restart

Spec == Init /\ [][Next]_vars

\* The executor polls every few seconds and never waits for anything else.
FairSpec == Spec /\ WF_vars(Work)

-----------------------------------------------------------------------------
(* Properties.                                                             *)

TypeOK ==
    /\ row \in [Ids -> Refs \cup {NoRef}]
    /\ used \subseteq Ids
    /\ stored \subseteq Refs
    /\ spent \subseteq Ids \cup Refs
    /\ superseded \subseteq Refs
    /\ tasks \in [Tasks -> Task]
    /\ exec \in Exec

\* Whatever step of a rewrite or purge fails or is cut off by a restart, an
\* object in use is registered and its content is at its registered locator.
ContentAvailable == \A i \in used : i \in Registered /\ row[i] \in stored

\* No two registered objects share a locator, or purging the transitional one
\* would delete the content of the other.
OneOwnerPerRef == \A i, j \in Registered : row[i] = row[j] => i = j

\* An old physical object is never left without a record: until it is deleted
\* the executor is about to, or an item of a task still names it.
OldRefsTracked ==
    \A r \in superseded \cap stored :
        \/ exec.step = "delete_old" /\ exec.old = r
        \/ \E t \in Tasks, i \in Ids : tasks[t].old[i] = r

\* A queued task is taken up or cancelled, however the tasks before it end:
\* the executor never goes round one task for ever.
QueueAdvances == \A t \in Tasks : Queued(t) ~> ~Queued(t)

=============================================================================

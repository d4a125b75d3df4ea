---------------------------- MODULE RowSaveQueue ----------------------------
(***************************************************************************)
(* Autosave on the review page of the import wizard: one RowSaveQueue      *)
(* entry per row (features/imports/row-save-queue.ts), the SerialTaskQueue *)
(* its saves share (serial-task-queue.ts), the revisions the page hands    *)
(* over (pages/ImportReviewPage.tsx) and the commit step that replaces the *)
(* page once the batch is READY (pages/ImportWizardPage.tsx), against a    *)
(* server that other browser tabs write to as well.                        *)
(*                                                                         *)
(* The rows are complete and unique, so that the server stores what a      *)
(* patch says; what else it may decide about a row is in ImportLedger.     *)
(***************************************************************************)
EXTENDS Naturals, Sequences

CONSTANTS
  Row,         (* the rows of the batch                                   *)
  Value,       (* what may be chosen for a field                          *)
  Edit,        (* the changes the page's controls make                    *)
  None,        (* null: an empty field, a PENDING disposition             *)
  Unset,       (* undefined: the change does not mention the field        *)
  MaxEdits,    (* bound on what the user does, edits and retries          *)
  MaxForeign   (* bound on the writes of other tabs                       *)

Field == {"category", "subcategory", "disposition"}
Change == [Field -> Value \cup {None, Unset}]
NoChange == [f \in Field |-> Unset]

ASSUME EditAssumption == Edit \subseteq Change \ {NoChange}
ASSUME UnsetAssumption == Unset \notin Value \cup {None}
ASSUME BoundAssumption == MaxEdits \in Nat /\ MaxForeign \in Nat

VARIABLES
  open,           \* the stored batch is not committed
  batchRevision,  \* its ImportBatch.revision
  rowRevision,    \* StagedTransaction.revision of each row
  value,          \* the stored fields of each row
  ref,            \* batchRevisionRef.current
  shown,          \* the revision of each row on the page
  entry,          \* RowSaveQueue.entries
  label,          \* saveStates
  tasks,          \* the saves chained on SerialTaskQueue.tail, first running
  reads,          \* the answers each reload of onConflict has so far
  seen,           \* the wizard's batchSnapshot
  mounted,        \* the review page is displayed
  typed,          \* history: what the user entered last
  disturbed,      \* history: another tab wrote, or a request was lost
  edits,          \* number of user actions so far
  foreign         \* number of writes by other tabs so far

stored == <<open, batchRevision, rowRevision, value>>
history == <<typed, disturbed, edits, foreign>>
vars == <<stored, ref, shown, entry, label, tasks, reads, seen, mounted, history>>

\* An entry that is not in the map is one without changes.
Entry == [revision : Nat, queued : Change, unsaved : Change,
          phase : {"idle", "saving", "reloading"}]
Task == [row : Row, expected : Nat, patch : Change, batch : Nat \cup {None},
         phase : {"waiting", "sent", "saved"}, saved : Nat \cup {None}]
Batch == [revision : Nat, ready : BOOLEAN]
Reload == [rows : [Row -> Nat] \cup {None}, batch : Batch \cup {None}]
Label == {"IDLE", "SAVING", "SAVED", "CONFLICT", "ERROR"}

TypeOK ==
  /\ open \in BOOLEAN
  /\ batchRevision \in Nat
  /\ rowRevision \in [Row -> Nat]
  /\ value \in [Row -> [Field -> Value \cup {None}]]
  /\ ref \in Nat
  /\ shown \in [Row -> Nat]
  /\ entry \in [Row -> Entry]
  /\ label \in [Row -> Label]
  /\ tasks \in Seq(Task)
  /\ tasks # << >> => Head(tasks).phase # "waiting" /\ Head(tasks).batch \in Nat
  /\ reads \in [Row -> Reload]
  /\ seen \in Batch
  /\ mounted \in BOOLEAN
  /\ typed \in [Row -> Change]
  /\ disturbed \in BOOLEAN
  /\ edits \in Nat /\ foreign \in Nat

\* The two requests of a reload have no answer yet.
Unread == [rows |-> None, batch |-> None]

Init ==
  /\ open = TRUE
  /\ batchRevision = 1
  /\ rowRevision = [r \in Row |-> 1]
  /\ value = [r \in Row |-> [f \in Field |-> None]]
  /\ ref = 1
  /\ shown = [r \in Row |-> 1]
  /\ entry = [r \in Row |-> [revision |-> 1, queued |-> NoChange,
                             unsaved |-> NoChange, phase |-> "idle"]]
  /\ label = [r \in Row |-> "IDLE"]
  /\ tasks = << >>
  /\ reads = [r \in Row |-> Unread]
  /\ seen = [revision |-> 1, ready |-> FALSE]
  /\ mounted = TRUE
  /\ typed = [r \in Row |-> NoChange]
  /\ disturbed = FALSE
  /\ edits = 0 /\ foreign = 0

-----------------------------------------------------------------------------

\* mergeStagedChanges: a new category clears the subcategory
Merge(current, next) ==
  [f \in Field |->
     IF next[f] # Unset THEN next[f]
     ELSE IF f = "subcategory" /\ next["category"] # Unset THEN None
     ELSE current[f]]

Stored(fields, patch) ==
  [f \in Field |-> IF patch[f] # Unset THEN patch[f] ELSE fields[f]]

Ready == \A r \in Row : value[r]["disposition"] # None

\* One task of the SerialTaskQueue runs at a time; it reads the batch
\* revision when it starts.
StartedAll(queue, base) ==   \* fault: saves are not chained
  [i \in 1..Len(queue) |->
     IF queue[i].phase = "waiting"
     THEN [queue[i] EXCEPT !.phase = "sent", !.batch = base] ELSE queue[i]]
StartedBlind(queue, base) == queue   \* fault: the revision is never read
Started(queue, base) ==
  IF queue # << >> /\ Head(queue).phase = "waiting"
  THEN <<[Head(queue) EXCEPT !.phase = "sent", !.batch = base]>> \o Tail(queue)
  ELSE queue

\* An iteration of drain: what is queued becomes one save
SaveOf(r, e) == [row |-> r, expected |-> e.revision, patch |-> e.queued,
                 batch |-> None, phase |-> "waiting", saved |-> None]
Draining(e) == [e EXCEPT !.queued = NoChange, !.phase = "saving"]

\* enqueue
Enqueued(r, change) ==
  [entry[r] EXCEPT
     !.revision = IF entry[r].phase = "idle" THEN shown[r] ELSE @,
     !.queued = Merge(@, change),
     !.unsaved = Merge(@, change)]

EditRow(r, change) ==
  /\ mounted
  /\ edits < MaxEdits
  /\ LET e == Enqueued(r, change) IN
       IF entry[r].phase = "idle"
       THEN /\ entry' = [entry EXCEPT ![r] = Draining(e)]
            /\ tasks' = Started(Append(tasks, SaveOf(r, e)), ref)
       ELSE /\ entry' = [entry EXCEPT ![r] = e]
            /\ UNCHANGED tasks
  /\ label' = [label EXCEPT ![r] = "SAVING"]
  /\ typed' = [typed EXCEPT ![r] = Merge(@, change)]
  /\ edits' = edits + 1
  /\ UNCHANGED <<stored, ref, shown, reads, seen, mounted, disturbed, foreign>>

\* The button appears on a row whose save failed.
Retry(r) ==
  /\ mounted
  /\ edits < MaxEdits
  /\ label[r] \in {"ERROR", "CONFLICT"}
  /\ entry[r].phase = "idle"
  /\ entry[r].unsaved # NoChange
  /\ LET e == [entry[r] EXCEPT !.revision = shown[r], !.queued = entry[r].unsaved] IN
       /\ entry' = [entry EXCEPT ![r] = Draining(e)]
       /\ tasks' = Started(Append(tasks, SaveOf(r, e)), ref)
  /\ label' = [label EXCEPT ![r] = "SAVING"]
  /\ edits' = edits + 1
  /\ UNCHANGED <<stored, ref, shown, reads, seen, mounted, typed, disturbed, foreign>>

-----------------------------------------------------------------------------
(* The answers to the first task: PATCH rows, then GET the batch *)

Sent == tasks # << >> /\ Head(tasks).phase = "sent"

Accepted ==
  /\ open
  /\ Head(tasks).batch = batchRevision
  /\ Head(tasks).expected = rowRevision[Head(tasks).row]

\* The server stores the patch with new revisions.
Store ==
  LET task == Head(tasks) IN
    /\ value' = [value EXCEPT ![task.row] = Stored(@, task.patch)]
    /\ rowRevision' = [rowRevision EXCEPT ![task.row] = @ + 1]
    /\ batchRevision' = batchRevision + 1

\* The catch branch of drain: the failed changes go back before newer ones.
RestoredOver(failed, queued) == Merge(queued, failed)   \* fault: swapped order
Restored(failed, queued) == Merge(failed, queued)

\* The save ends with an error, the next task of the queue starts.
TaskFails(phase) ==
  LET task == Head(tasks) IN
    /\ entry' = [entry EXCEPT ![task.row].queued = Restored(task.patch, @),
                              ![task.row].phase = phase]
    /\ tasks' = Started(Tail(tasks), ref)
    /\ label' = IF phase = "idle" THEN [label EXCEPT ![task.row] = "ERROR"]
                ELSE label
    /\ UNCHANGED <<ref, shown, reads, seen, mounted, typed, edits, foreign>>

PatchSaved ==
  /\ Sent /\ Accepted
  /\ Store
  /\ tasks' = [tasks EXCEPT ![1] = [@ EXCEPT !.phase = "saved",
                                             !.saved = rowRevision[Head(tasks).row] + 1]]
  /\ UNCHANGED <<open, ref, shown, entry, label, reads, seen, mounted, history>>

\* 409, also when the batch is committed: onConflict reloads rows and batch
PatchConflicts ==
  /\ Sent /\ ~Accepted
  /\ TaskFails("reloading")
  /\ UNCHANGED <<stored, disturbed>>

\* The request or its answer is lost, after the server stored it or before.
PatchLost ==
  /\ Sent
  /\ \/ Accepted /\ Store /\ UNCHANGED open
     \/ UNCHANGED stored
  /\ TaskFails("idle")
  /\ disturbed' = TRUE

BatchLost ==
  /\ tasks # << >> /\ Head(tasks).phase = "saved"
  /\ TaskFails("idle")
  /\ disturbed' = TRUE
  /\ UNCHANGED stored

\* GET of the batch
StoredBatch == [revision |-> batchRevision, ready |-> open /\ Ready]

\* refreshBatch hands the batch to the wizard, which shows the commit step in
\* place of the page when it is READY; the queue itself goes on.
Refresh(batch) ==
  /\ ref' = batch.revision
  /\ seen' = batch
  /\ mounted' = (mounted /\ ~batch.ready)

\* Changes that were typed again since the save began stay unsaved.
StillUnsaved(unsaved, patch) ==
  [f \in Field |-> IF patch[f] # Unset /\ unsaved[f] = patch[f] THEN Unset
                   ELSE unsaved[f]]

\* Fault: drain saves once and leaves what was queued meanwhile.
BatchArrivesOnce ==
  /\ tasks # << >> /\ Head(tasks).phase = "saved"
  /\ Refresh(StoredBatch)
  /\ LET task == Head(tasks) IN
       /\ shown' = [shown EXCEPT ![task.row] = task.saved]
       /\ entry' = [entry EXCEPT ![task.row].revision = task.saved,
                                 ![task.row].phase = "idle",
                                 ![task.row].unsaved = StillUnsaved(@, task.patch)]
       /\ tasks' = Started(Tail(tasks), ref')
       /\ label' = [label EXCEPT ![task.row] = "SAVED"]
  /\ UNCHANGED <<stored, reads, history>>

BatchArrives ==
  /\ tasks # << >> /\ Head(tasks).phase = "saved"
  /\ Refresh(StoredBatch)
  /\ LET task == Head(tasks)
         r == task.row
         e == [entry[r] EXCEPT !.revision = task.saved,
                               !.unsaved = StillUnsaved(@, task.patch)]
     IN /\ shown' = [shown EXCEPT ![r] = task.saved]
        /\ IF e.queued # NoChange
           THEN /\ entry' = [entry EXCEPT ![r] = Draining(e)]
                /\ tasks' = Started(Append(Tail(tasks), SaveOf(r, e)), ref')
                /\ UNCHANGED label
           ELSE /\ entry' = [entry EXCEPT ![r] = [e EXCEPT !.phase = "idle"]]
                /\ tasks' = Started(Tail(tasks), ref')
                /\ label' = [label EXCEPT ![r] = "SAVED"]
  /\ UNCHANGED <<stored, reads, history>>

\* onConflict: GET of the rows and GET of the batch are sent together, and
\* the server answers them in either order; up to 500 rows come in one page.
ReadRows(r) ==
  /\ entry[r].phase = "reloading"
  /\ reads[r].rows = None
  /\ reads' = [reads EXCEPT ![r].rows = rowRevision]
  /\ UNCHANGED <<stored, ref, shown, entry, label, tasks, seen, mounted, history>>

ReadBatch(r) ==
  /\ entry[r].phase = "reloading"
  /\ reads[r].batch = None
  /\ reads' = [reads EXCEPT ![r].batch = StoredBatch]
  /\ UNCHANGED <<stored, ref, shown, entry, label, tasks, seen, mounted, history>>

\* With both answers all rows of the page are replaced by the stored ones.
ReloadArrives(r) ==
  /\ entry[r].phase = "reloading"
  /\ reads[r].rows # None /\ reads[r].batch # None
  /\ Refresh(reads[r].batch)
  /\ shown' = reads[r].rows
  /\ entry' = [entry EXCEPT ![r] = [@ EXCEPT !.revision = reads[r].rows[r],
                                             !.phase = "idle"]]
  /\ label' = [label EXCEPT ![r] = "CONFLICT"]
  /\ reads' = [reads EXCEPT ![r] = Unread]
  /\ UNCHANGED <<stored, tasks, history>>

\* Fault: onConflict does not catch, drain ends with running still set.
ReloadLostUncaught(r) ==
  /\ entry[r].phase = "reloading"
  /\ entry' = [entry EXCEPT ![r].phase = "saving"]
  /\ disturbed' = TRUE
  /\ UNCHANGED <<stored, ref, shown, label, tasks, reads, seen, mounted, typed, edits, foreign>>

ReloadLost(r) ==
  /\ entry[r].phase = "reloading"
  /\ entry' = [entry EXCEPT ![r].phase = "idle"]
  /\ label' = [label EXCEPT ![r] = "CONFLICT"]
  /\ reads' = [reads EXCEPT ![r] = Unread]
  /\ disturbed' = TRUE
  /\ UNCHANGED <<stored, ref, shown, tasks, seen, mounted, typed, edits, foreign>>

-----------------------------------------------------------------------------
(* The others *)

\* Another tab saves a row.
ForeignSave(r, change) ==
  /\ open
  /\ foreign < MaxForeign
  /\ value' = [value EXCEPT ![r] = Stored(@, change)]
  /\ rowRevision' = [rowRevision EXCEPT ![r] = @ + 1]
  /\ batchRevision' = batchRevision + 1
  /\ foreign' = foreign + 1
  /\ disturbed' = TRUE
  /\ UNCHANGED <<open, ref, shown, entry, label, tasks, reads, seen, mounted, typed, edits>>

\* The wizard's commit step names the revision of its snapshot.
CommitBatch ==
  /\ ~mounted
  /\ seen.ready
  /\ open
  /\ seen.revision = batchRevision
  /\ Ready
  /\ open' = FALSE
  /\ batchRevision' = batchRevision + 1
  /\ UNCHANGED <<rowRevision, value, ref, shown, entry, label, tasks, reads, seen, mounted, history>>

Answer ==
  PatchSaved \/ PatchConflicts \/ PatchLost \/ BatchArrives \/ BatchLost

Next ==
  \/ \E r \in Row, change \in Edit : EditRow(r, change)
  \/ \E r \in Row : Retry(r)
  \/ PatchSaved \/ PatchConflicts \/ PatchLost \/ BatchArrives \/ BatchLost
  \/ \E r \in Row : ReadRows(r) \/ ReadBatch(r) \/ ReloadArrives(r) \/ ReloadLost(r)
  \/ \E r \in Row, change \in Edit : ForeignSave(r, change)
  \/ CommitBatch

\* A request is answered or fails.
Fairness ==
  /\ WF_vars(Answer)
  /\ \A r \in Row : WF_vars(ReadRows(r) \/ ReadBatch(r) \/ ReloadArrives(r) \/ ReloadLost(r))

Spec == Init /\ [][Next]_vars /\ Fairness

-----------------------------------------------------------------------------
(* Properties *)

\* The changes of row r that a save has taken
InFlight(r) ==
  IF \E i \in 1..Len(tasks) : tasks[i].row = r
  THEN tasks[CHOOSE i \in 1..Len(tasks) : tasks[i].row = r].patch
  ELSE NoChange

\* Whatever fails in whatever order, each unsaved change of a row is in its
\* save or queued behind it, with the value entered last.
UnsavedIsPending ==
  \A r \in Row, f \in Field :
    entry[r].unsaved[f] # Unset =>
      /\ entry[r].unsaved[f] = typed[r][f]
      /\ entry[r].unsaved[f] = Merge(InFlight(r), entry[r].queued)[f]

\* A row marked SAVED is stored as the user left it, unless another tab has
\* changed it since.
SavedIsStored ==
  \A r \in Row : label[r] = "SAVED" =>
    /\ entry[r].queued = NoChange
    /\ entry[r].unsaved = NoChange
    /\ foreign = 0 => value[r] = Stored([f \in Field |-> None], typed[r])

\* The page never conflicts with itself: while nobody else writes and no
\* request is lost, no save of a draft is refused, however fast edits follow
\* each other on however many rows.
OwnEditsNeverConflict ==
  ~disturbed /\ open =>
    \A r \in Row : label[r] # "CONFLICT" /\ entry[r].phase # "reloading"

\* A save ends: the row is SAVED, or offers a retry, once the user pauses.
SavesEnd == \A r \in Row : label[r] = "SAVING" ~> label[r] # "SAVING"

\* The commit step of the wizard says that all decisions are resolved, and the
\* review page's own commit button waits for unsaved rows: a commit takes every
\* edit the user made.
CommitTakesEveryEdit ==
  [][open /\ ~open' => \A r \in Row : entry[r].unsaved = NoChange]_vars

=============================================================================

--------------------------- MODULE ImportLifecycle ---------------------------
(***************************************************************************)
(* The life of the import batches of one account: upload and inspection,   *)
(* mapping suggestion and confirmation, two-phase staging, review, commit  *)
(* and deletion, as UniversalImportService (imports/lifecycle.py), the     *)
(* status side of ImportService (imports/service.py) and the handlers of   *)
(* api/imports.py perform them, under the write lock of main.py and with   *)
(* the process crashing at any moment.                                     *)
(*                                                                         *)
(* A request that names another batch revision than the stored one is      *)
(* answered 409 and changes nothing, so every action below is an accepted  *)
(* request.  Staged rows appear as one record: which mapping revision and  *)
(* which inspection produced them, and whether one of them is PENDING; the *)
(* rows themselves are the subject of ImportLedger.                        *)
(***************************************************************************)
EXTENDS Integers, Sequences, FiniteSets

CONSTANTS
  Batch,        (* identities for the batches that may be created          *)
  File,         (* contents of uploaded files (their SHA-256)              *)
  Readable,     (* the files inspect_file can read                         *)
  Structure,    (* inspection outcomes: a choice of sheet and header row   *)
  Plan,         (* mapping plans a user or the model may propose           *)
  Fits,         (* pairs <<plan, structure>> that transform_rows accepts   *)
  Template,     (* active templates: [structure, plan, origin]             *)
  Caller,       (* mapping-suggestion requests that may be in flight       *)
  MaxConcurrent, (* openai_mapping_max_concurrent                          *)
  PerHour,      (* openai_mapping_requests_per_hour                        *)
  None,         (* SQL NULL, or the absence of a request                   *)
  MaxRevision   (* bound on a batch's revision                             *)

Origin == {"PREDEFINED", "LLM_CONFIRMED", "MANUAL"}

ASSUME ReadableAssumption == Readable \subseteq File
ASSUME FitsAssumption == Fits \subseteq Plan \X Structure
ASSUME TemplateAssumption ==
  Template \subseteq [structure : Structure, plan : Plan, origin : Origin]
ASSUME CallerAssumption == IsFiniteSet(Caller)
ASSUME LimitAssumption == MaxConcurrent \in Nat /\ PerHour \in Nat
ASSUME BoundAssumption == MaxRevision \in Nat

VARIABLES
  up,          \* the server process is running
  status,      \* ImportBatch.status, "ABSENT" before the batch exists
  revision,    \* ImportBatch.revision
  file,        \* ImportBatch.file_sha256
  lost,        \* the batches whose retained file has gone from the disk
  structure,   \* ImportBatch.inspection_json / structural_signature
  origin,      \* ImportBatch.current_mapping_origin
  plans,       \* the ImportBatchExecutionPlan rows, by mapping revision
  staged,      \* the batch's StagedTransaction rows, summarised
  attempts,    \* SUCCEEDED ImportMappingSuggestionAttempt rows, in order
  calls,       \* suggestion requests between their read and their record
  slots,       \* InMemoryMappingLimiter._active
  recent,      \* how many of its _request_times are less than an hour old
  job          \* the staging request that holds the write lock

mappingVars == <<structure, origin, plans>>
limiter == <<slots, recent>>
vars == <<up, status, revision, file, lost, structure, origin, plans, staged,
          attempts, calls, slots, recent, job>>

DraftStatus == {"UPLOADED", "AWAITING_MAPPING", "STAGING", "PARSED",
                "NEEDS_REVIEW", "READY"}
Terminal == {"COMMITTED", "FAILED", "DELETED"}
Status == {"ABSENT"} \cup DraftStatus \cup Terminal

\* The structure a snapshot was validated against is history: the code
\* validates the plan against the inspection and stores only the plan.
Snapshot == [plan : Plan, origin : Origin,
             template : Template \cup {None}, structure : Structure]
Attempt == [revision : Nat, plan : Plan, structure : Structure]
Rows == [mapping : Nat, structure : Structure \cup {None},
         pending : BOOLEAN]
Call == [batch : Batch, revision : Nat, structure : Structure,
         answer : {"waiting", "fallback", "suggested"}, plan : Plan \cup {None}]
Job == [batch : Batch, revision : Nat, mapping : Nat]

ASSUME NoneAssumption ==
  /\ None \notin File /\ None \notin Structure /\ None \notin Plan
  /\ None \notin Origin /\ None \notin Template /\ None \notin Rows
  /\ None \notin Call /\ None \notin Job

TypeOK ==
  /\ up \in BOOLEAN
  /\ status \in [Batch -> Status]
  /\ revision \in [Batch -> Nat]
  /\ file \in [Batch -> File \cup {None}]
  /\ lost \subseteq Batch
  /\ structure \in [Batch -> Structure \cup {None}]
  /\ origin \in [Batch -> Origin \cup {None}]
  /\ plans \in [Batch -> Seq(Snapshot)]
  /\ staged \in [Batch -> Rows \cup {None}]
  /\ attempts \in [Batch -> Seq(Attempt)]
  /\ calls \in [Caller -> Call \cup {None}]
  /\ \A c \in Caller : calls[c] # None /\ calls[c].answer = "suggested"
                       => calls[c].plan \in Plan
  /\ slots \in Int
  /\ recent \in Nat
  /\ job \in Job \cup {None}

Init ==
  /\ up = TRUE
  /\ status = [b \in Batch |-> "ABSENT"]
  /\ revision = [b \in Batch |-> 1]
  /\ file = [b \in Batch |-> None]
  /\ lost = {}
  /\ structure = [b \in Batch |-> None]
  /\ origin = [b \in Batch |-> None]
  /\ plans = [b \in Batch |-> << >>]
  /\ staged = [b \in Batch |-> None]
  /\ attempts = [b \in Batch |-> << >>]
  /\ calls = [c \in Caller |-> None]
  /\ slots = 0
  /\ recent = 0
  /\ job = None

-----------------------------------------------------------------------------

\* mapping_revision starts at 0 and grows with each snapshot
MappingRevision(b) == Len(plans[b])

Live(b) == status[b] \notin {"ABSENT", "DELETED"}

\* A request that writes waits for the lock of serialize_sqlite_writes, which
\* only a staging request keeps over more than one step.
MayWriteUnlocked == up   \* fault: staging releases the lock after STAGING
MayWrite == up /\ job = None

\* batch.revision += 1
Bump(b) ==
  /\ revision[b] < MaxRevision
  /\ revision' = [revision EXCEPT ![b] = @ + 1]

\* _mutable, and the STAGING test that follows it in every caller
Mutable(b) ==
  /\ status[b] \in DraftStatus
  /\ status[b] # "STAGING"

\* preview and transform_rows take the plan on this inspection
AcceptsUnchecked(p, s) == TRUE   \* fault: the plan is stored unvalidated
Accepts(p, s) == <<p, s>> \in Fits

\* _refresh_batch_status
RefreshedStatus(pending) == IF pending THEN "NEEDS_REVIEW" ELSE "READY"

-----------------------------------------------------------------------------
(* Upload, manual entry and inspection *)

\* Fault: a deleted or new batch opens a file that another batch holds.
UploadAgain(b, f) ==
  /\ MayWrite
  /\ status[b] = "ABSENT"
  /\ f \in Readable
  /\ file' = [file EXCEPT ![b] = f]
  /\ \E s \in Structure : structure' = [structure EXCEPT ![b] = s]
  /\ status' = [status EXCEPT ![b] = "AWAITING_MAPPING"]
  /\ UNCHANGED <<up, lost, revision, origin, plans, staged, attempts, calls, job, limiter>>

Upload(b, f) ==
  /\ MayWrite
  /\ status[b] = "ABSENT"
  /\ \A d \in Batch : Live(d) => file[d] # f
  /\ file' = [file EXCEPT ![b] = f]
  /\ \/ /\ f \in Readable
        /\ \E s \in Structure : structure' = [structure EXCEPT ![b] = s]
        /\ status' = [status EXCEPT ![b] = "AWAITING_MAPPING"]
     \/ /\ f \notin Readable
        /\ status' = [status EXCEPT ![b] = "FAILED"]
        /\ UNCHANGED structure
  /\ UNCHANGED <<up, lost, revision, origin, plans, staged, attempts, calls, job, limiter>>

\* The file hash of a manual entry is a random one: it meets no other batch.
CreateManual(b, pending) ==
  /\ MayWrite
  /\ status[b] = "ABSENT"
  /\ status' = [status EXCEPT ![b] = RefreshedStatus(pending)]
  /\ staged' = [staged EXCEPT ![b] = [mapping |-> 0, structure |-> None,
                                      pending |-> pending]]
  /\ UNCHANGED <<up, lost, revision, file, mappingVars, attempts, calls, job, limiter>>

\* Fault: the mapping and the rows of the former inspection stay.
UpdateInspectionShallow(b, s) ==
  /\ MayWrite
  /\ Mutable(b)
  /\ structure[b] # None
  /\ structure' = [structure EXCEPT ![b] = s]
  /\ Bump(b)
  /\ UNCHANGED <<up, lost, status, file, origin, plans, staged, attempts, calls, job, limiter>>

\* Fault: the revision is only bumped where a mapping is discarded.
UpdateInspectionUnversioned(b, s) ==
  /\ MayWrite
  /\ Mutable(b)
  /\ structure[b] # None
  /\ structure' = [structure EXCEPT ![b] = s]
  /\ origin' = [origin EXCEPT ![b] = None]
  /\ staged' = [staged EXCEPT ![b] = None]
  /\ status' = [status EXCEPT ![b] = "AWAITING_MAPPING"]
  /\ IF origin[b] # None THEN Bump(b) ELSE UNCHANGED revision
  /\ UNCHANGED <<up, lost, file, plans, attempts, calls, job, limiter>>

UpdateInspection(b, s) ==
  /\ MayWrite
  /\ Mutable(b)
  /\ structure[b] # None /\ b \notin lost
  /\ structure' = [structure EXCEPT ![b] = s]
  /\ origin' = [origin EXCEPT ![b] = None]
  /\ staged' = [staged EXCEPT ![b] = None]
  /\ status' = [status EXCEPT ![b] = "AWAITING_MAPPING"]
  /\ Bump(b)
  /\ UNCHANGED <<up, lost, file, plans, attempts, calls, job, limiter>>

-----------------------------------------------------------------------------
(* Mapping suggestion: read, external call, record.  The request takes the *)
(* write lock only for the last of the three.                              *)

\* InMemoryMappingLimiter.acquire
TakeSlot ==
  /\ slots < MaxConcurrent
  /\ recent < PerHour
  /\ slots' = slots + 1
  /\ recent' = recent + 1

ReleaseSlot == slots' = slots - 1 /\ UNCHANGED recent

\* The model is asked, or the request falls back at once: where the settings
\* do not enable the model, and where a limit is reached.
RequestSuggestion(c, b) ==
  /\ up
  /\ calls[c] = None
  /\ status[b] \in DraftStatus
  /\ structure[b] # None /\ b \notin lost
  /\ \E answer \in {"waiting", "fallback"} :
       /\ calls' = [calls EXCEPT ![c] =
                      [batch |-> b, revision |-> revision[b],
                       structure |-> structure[b], answer |-> answer,
                       plan |-> None]]
       /\ IF answer = "waiting" THEN TakeSlot ELSE UNCHANGED limiter
  /\ UNCHANGED <<up, lost, status, revision, file, mappingVars, staged, attempts, job>>

\* The answer is validated against the inspection stored at that moment.
ReceiveSuggestion(c, p) ==
  /\ up
  /\ calls[c] # None
  /\ calls[c].answer = "waiting"
  /\ calls' = [calls EXCEPT ![c] =
                 IF Accepts(p, structure[@.batch])
                 THEN [@ EXCEPT !.answer = "suggested", !.plan = p]
                 ELSE [@ EXCEPT !.answer = "fallback"]]
  /\ ReleaseSlot
  /\ UNCHANGED <<up, lost, status, revision, file, mappingVars, staged, attempts, job>>

\* Fault: only an answer releases the slot.
SuggestionFailsHolding(c) ==
  /\ up
  /\ calls[c] # None
  /\ calls[c].answer = "waiting"
  /\ calls' = [calls EXCEPT ![c] = [@ EXCEPT !.answer = "fallback"]]
  /\ UNCHANGED <<up, lost, status, revision, file, mappingVars, staged, attempts, limiter, job>>

\* Network, refusal, timeout and schema errors end in a manual fallback.
SuggestionFails(c) ==
  /\ up
  /\ calls[c] # None
  /\ calls[c].answer = "waiting"
  /\ calls' = [calls EXCEPT ![c] = [@ EXCEPT !.answer = "fallback"]]
  /\ ReleaseSlot
  /\ UNCHANGED <<up, lost, status, revision, file, mappingVars, staged, attempts, job>>

\* A request becomes an hour old: the next one that acquires does not count it.
RequestAges ==
  /\ recent > 0
  /\ recent' = recent - 1
  /\ UNCHANGED <<up, lost, status, revision, file, mappingVars, staged, attempts, calls, slots, job>>

Stale(c) == revision[calls[c].batch] # calls[c].revision

\* STALE and failed attempts are kept for audit only: no code reads them.
RecordSuggestion(c) ==
  /\ MayWrite
  /\ calls[c] # None
  /\ calls[c].answer # "waiting"
  /\ calls' = [calls EXCEPT ![c] = None]
  /\ LET b == calls[c].batch IN
     IF /\ status[b] # "DELETED"
        /\ ~Stale(c)
        /\ calls[c].answer = "suggested"
     THEN /\ attempts' = [attempts EXCEPT ![b] =
                Append(@, [revision |-> calls[c].revision,
                           plan |-> calls[c].plan,
                           structure |-> calls[c].structure])]
          /\ Bump(b)
     ELSE UNCHANGED <<attempts, revision>>
  /\ UNCHANGED <<up, lost, status, file, mappingVars, staged, job, limiter>>

\* Fault: the latest suggestion counts whatever happened since.
IsCurrentSuggestionEver(b, p) ==
  /\ attempts[b] # << >>
  /\ attempts[b][Len(attempts[b])].plan = p

\* _is_current_suggestion
IsCurrentSuggestion(b, p) ==
  /\ attempts[b] # << >>
  /\ LET latest == attempts[b][Len(attempts[b])] IN
       /\ latest.revision + 1 = revision[b]
       /\ latest.plan = p

-----------------------------------------------------------------------------
(* Mapping confirmation *)

\* The plan comes from a template, or else its origin depends on whether it
\* is the latest suggestion.  Staged rows stay where they are.
Confirm(b, p, t) ==
  /\ MayWrite
  /\ Mutable(b)
  /\ Accepts(p, structure[b])
  /\ t # None => t.structure = structure[b] /\ t.plan = p
  /\ LET o == IF t # None THEN t.origin
              ELSE IF IsCurrentSuggestion(b, p) THEN "LLM_CONFIRMED"
              ELSE "MANUAL"
     IN /\ plans' = [plans EXCEPT ![b] =
                       Append(@, [plan |-> p, origin |-> o, template |-> t,
                                  structure |-> structure[b]])]
        /\ origin' = [origin EXCEPT ![b] = o]
  /\ status' = [status EXCEPT ![b] = "AWAITING_MAPPING"]
  /\ Bump(b)
  /\ UNCHANGED <<up, lost, file, structure, staged, attempts, calls, job, limiter>>

-----------------------------------------------------------------------------
(* Staging: STAGING is persisted first, the rows replaced in a second      *)
(* transaction; the request keeps the write lock in between.               *)

BeginStage(b) ==
  /\ MayWrite
  /\ Mutable(b)
  /\ origin[b] # None
  /\ revision[b] + 2 <= MaxRevision
  /\ status' = [status EXCEPT ![b] = "STAGING"]
  /\ Bump(b)
  /\ job' = [batch |-> b, revision |-> revision[b] + 1,
             mapping |-> MappingRevision(b)]
  /\ UNCHANGED <<up, lost, file, mappingVars, staged, attempts, calls, limiter>>

FinishStage(pending) ==
  /\ up
  /\ job # None /\ job.batch \notin lost
  /\ LET b == job.batch IN
       /\ status[b] = "STAGING"
       /\ revision[b] = job.revision
       /\ staged' = [staged EXCEPT ![b] =
                       [mapping |-> job.mapping,
                        structure |-> structure[b],
                        pending |-> pending]]
       /\ status' = [status EXCEPT ![b] = RefreshedStatus(pending)]
       /\ Bump(b)
  /\ job' = None
  /\ UNCHANGED <<up, lost, file, mappingVars, attempts, calls, limiter>>

\* The file or the plan fails as a whole, no row is importable, or storing
\* the rows raises: the second transaction is rolled back.
FailStage ==
  /\ up
  /\ job # None /\ job.batch \notin lost
  /\ status' = [status EXCEPT ![job.batch] = "AWAITING_MAPPING"]
  /\ Bump(job.batch)
  /\ job' = None
  /\ UNCHANGED <<up, lost, file, mappingVars, staged, attempts, calls, limiter>>

\* The retained file is missing: the Problem of _source_path is none of the
\* exceptions stage() handles, and the request ends with STAGING stored.
AbandonStage ==
  /\ up
  /\ job # None /\ job.batch \in lost
  /\ job' = None
  /\ UNCHANGED <<up, lost, status, revision, file, mappingVars, staged, attempts, calls, limiter>>

-----------------------------------------------------------------------------
(* Review, commit, deletion *)

\* update_rows: the batch's status is recomputed from its rows, whatever
\* draft status it had.
PatchRows(b, pending) ==
  /\ MayWrite
  /\ status[b] \in DraftStatus
  /\ staged[b] # None
  /\ staged' = [staged EXCEPT ![b] = [@ EXCEPT !.pending = pending]]
  /\ status' = [status EXCEPT ![b] = RefreshedStatus(pending)]
  /\ Bump(b)
  /\ UNCHANGED <<up, lost, file, mappingVars, attempts, calls, job, limiter>>

Commit(b) ==
  /\ MayWrite
  /\ status[b] = "READY"
  /\ staged[b] # None => ~staged[b].pending
  /\ status' = [status EXCEPT ![b] = "COMMITTED"]
  /\ Bump(b)
  /\ UNCHANGED <<up, lost, file, mappingVars, staged, attempts, calls, job, limiter>>

\* The preflight meets a transaction that duplicates an included row: the
\* row is blocked or becomes PENDING, that is committed, and the request
\* answers 409 without a new revision.
CommitFindsDuplicate(b, pending) ==
  /\ MayWrite
  /\ status[b] = "READY"
  /\ staged[b] # None
  /\ ~staged[b].pending
  /\ staged' = [staged EXCEPT ![b] = [@ EXCEPT !.pending = pending]]
  /\ status' = [status EXCEPT ![b] = RefreshedStatus(pending)]
  /\ UNCHANGED <<up, lost, revision, file, mappingVars, attempts, calls, job, limiter>>

DeleteBatch(b) ==
  /\ MayWrite
  /\ status[b] \in DraftStatus
  /\ status' = [status EXCEPT ![b] = "DELETED"]
  /\ Bump(b)
  /\ UNCHANGED <<up, lost, file, mappingVars, staged, attempts, calls, job, limiter>>

\* Fault: the rows are released, the status of their batch is not refreshed.
ReleaseDuplicatesOnly(S, T) ==
  /\ MayWrite
  /\ \A b \in S : staged[b] # None
  /\ T \subseteq S
  /\ staged' = [b \in Batch |->
                  IF b \in T THEN [staged[b] EXCEPT !.pending = TRUE]
                  ELSE staged[b]]
  /\ UNCHANGED <<up, lost, status, revision, file, mappingVars, attempts, calls, job, limiter>>

\* Fault: the status of a batch is recomputed whatever it was.
ReleaseDuplicatesReopening(S, T) ==
  /\ MayWrite
  /\ \A b \in S : staged[b] # None
  /\ T \subseteq S
  /\ staged' = [b \in Batch |->
                  IF b \in T THEN [staged[b] EXCEPT !.pending = TRUE]
                  ELSE staged[b]]
  /\ status' = [b \in Batch |->
                  IF b \in S THEN RefreshedStatus(b \in T \/ staged[b].pending)
                  ELSE status[b]]
  /\ UNCHANGED <<up, lost, revision, file, mappingVars, attempts, calls, job, limiter>>

\* delete_transaction, seen from the batches that hold a row naming the
\* transaction as its duplicate: BLOCKED and PENDING rows become PENDING,
\* other rows keep their disposition, and the status is recomputed without a
\* new revision.
ReleaseDuplicates(S, T) ==
  /\ MayWrite
  /\ \A b \in S : staged[b] # None
  /\ T \subseteq S
  /\ staged' = [b \in Batch |->
                  IF b \in T THEN [staged[b] EXCEPT !.pending = TRUE]
                  ELSE staged[b]]
  /\ status' = [b \in Batch |->
                  IF b \in S /\ status[b] \notin {"COMMITTED", "DELETED"}
                  THEN RefreshedStatus(b \in T \/ staged[b].pending)
                  ELSE status[b]]
  /\ UNCHANGED <<up, lost, revision, file, mappingVars, attempts, calls, job, limiter>>

-----------------------------------------------------------------------------
(* The process and its disk *)

\* The retained file of a draft is removed behind the program's back: reading
\* it again is answered 410 from now on.
Vanish(b) ==
  /\ status[b] \in DraftStatus
  /\ structure[b] # None
  /\ b \notin lost
  /\ lost' = lost \cup {b}
  /\ UNCHANGED <<up, status, revision, file, mappingVars, staged, attempts, calls, limiter, job>>

Crash ==
  /\ up
  /\ up' = FALSE
  /\ job' = None
  /\ calls' = [c \in Caller |-> None]
  /\ slots' = 0
  /\ recent' = 0
  /\ UNCHANGED <<status, revision, file, lost, mappingVars, staged, attempts>>

\* Fault: create_app does not look for interrupted staging.
RestartUnrecovered ==
  /\ ~up
  /\ up' = TRUE
  /\ UNCHANGED <<status, revision, file, lost, mappingVars, staged, attempts, calls, job, limiter>>

\* create_app runs recover_staging before the first request
Restart ==
  /\ ~up
  /\ up' = TRUE
  /\ staged' = [b \in Batch |-> IF status[b] = "STAGING" THEN None
                                ELSE staged[b]]
  /\ status' = [b \in Batch |-> IF status[b] = "STAGING"
                                THEN "AWAITING_MAPPING" ELSE status[b]]
  /\ revision' = [b \in Batch |-> IF status[b] = "STAGING"
                                  THEN revision[b] + 1 ELSE revision[b]]
  /\ UNCHANGED <<file, lost, mappingVars, attempts, calls, job, limiter>>

Next ==
  \/ \E b \in Batch :
       \/ \E f \in File : Upload(b, f)
       \/ \E pending \in BOOLEAN : CreateManual(b, pending)
       \/ \E s \in Structure : UpdateInspection(b, s)
       \/ \E p \in Plan, t \in Template \cup {None} : Confirm(b, p, t)
       \/ BeginStage(b)
       \/ \E pending \in BOOLEAN : PatchRows(b, pending)
       \/ Commit(b)
       \/ \E pending \in BOOLEAN : CommitFindsDuplicate(b, pending)
       \/ DeleteBatch(b)
       \/ Vanish(b)
  \/ \E c \in Caller :
       \/ \E b \in Batch : RequestSuggestion(c, b)
       \/ \E p \in Plan : ReceiveSuggestion(c, p)
       \/ SuggestionFails(c)
       \/ RecordSuggestion(c)
  \/ RequestAges
  \/ \E pending \in BOOLEAN : FinishStage(pending)
  \/ FailStage
  \/ AbandonStage
  \/ \E S \in SUBSET Batch : \E T \in SUBSET S : ReleaseDuplicates(S, T)
  \/ Crash
  \/ Restart

\* A request that started staging runs to its end unless the process dies,
\* and the container is restarted (compose.yaml: restart: unless-stopped).
Fairness ==
  /\ WF_vars(FailStage \/ AbandonStage \/ \E pending \in BOOLEAN : FinishStage(pending))
  /\ WF_vars(Restart)

Spec == Init /\ [][Next]_vars /\ Fairness


-----------------------------------------------------------------------------
(* Properties *)

\* The write lock makes the second staging transaction safe: from the commit
\* of STAGING to the replacement of the rows the batch is untouched, so the
\* "batch changed while rows were being staged" branch of stage() is dead, and
\* a batch whose file is there is STAGING only during its own request or in a
\* dead process.
StagingHoldsTheBatch ==
  /\ job # None =>
       /\ up
       /\ status[job.batch] = "STAGING"
       /\ revision[job.batch] = job.revision
       /\ MappingRevision(job.batch) = job.mapping
  /\ \A b \in Batch :
       status[b] = "STAGING" =>
         ~up \/ b \in lost \/ (job # None /\ job.batch = b)

\* The mapping a batch would be staged with was validated against the
\* inspection the batch has now, however often sheet and header changed.
MappingFitsInspection ==
  \A b \in Batch : origin[b] # None =>
    /\ MappingRevision(b) > 0
    /\ LET current == plans[b][MappingRevision(b)] IN
         /\ current.origin = origin[b]
         /\ current.structure = structure[b]
         /\ <<current.plan, structure[b]>> \in Fits

\* The staged rows of an uploaded file were read under the inspection the
\* batch has now, by a plan confirmed for that inspection.
StagedRowsFitInspection ==
  \A b \in Batch : staged[b] # None /\ structure[b] # None =>
    /\ staged[b].mapping \in 1..MappingRevision(b)
    /\ staged[b].structure = structure[b]
    /\ plans[b][staged[b].mapping].structure = structure[b]

\* A mapping recorded as LLM_CONFIRMED without a template was suggested by the
\* model for the very inspection it was confirmed on: no suggestion survives a
\* reinspection or is attributed to a plan the model did not propose.
LlmOriginIsGenuine ==
  \A b \in Batch : \A i \in 1..Len(plans[b]) :
    plans[b][i].origin = "LLM_CONFIRMED" /\ plans[b][i].template = None =>
      \E k \in 1..Len(attempts[b]) :
        /\ attempts[b][k].plan = plans[b][i].plan
        /\ attempts[b][k].structure = plans[b][i].structure

\* A suggestion request whose revision still matches was computed from the
\* inspection the batch still has, and the batch is still a draft; the latest
\* successful attempt only counts as current while its inspection is.
SuggestionsAreFresh ==
  /\ \A c \in Caller : calls[c] # None =>
       LET b == calls[c].batch IN
         /\ calls[c].revision <= revision[b]
         /\ calls[c].revision = revision[b] =>
              /\ status[b] \in DraftStatus
              /\ calls[c].structure = structure[b]
  /\ \A b \in Batch : attempts[b] # << >> =>
       LET latest == attempts[b][Len(attempts[b])] IN
         /\ latest.revision < revision[b]
         /\ latest.revision + 1 = revision[b] => latest.structure = structure[b]

\* The limiter's slots are those of the requests that wait for the model: one
\* that fails, times out or is answered late gives its slot back, and no more
\* than the configured number is ever out.
Waiting == {c \in Caller : calls[c] # None /\ calls[c].answer = "waiting"}

SlotsAreHeld == slots = Cardinality(Waiting) /\ slots <= MaxConcurrent

\* READY and NEEDS_REVIEW tell whether a row is PENDING, also after another
\* request released a duplicate or a failed commit blocked one.
ReviewStatusIsCurrent ==
  \A b \in Batch :
    /\ status[b] = "READY" => staged[b] # None /\ ~staged[b].pending
    /\ status[b] = "NEEDS_REVIEW" => staged[b] # None /\ staged[b].pending

\* The inspection, the confirmed mappings and the origin of the staged rows
\* only change together with the revision: a request that names the revision
\* it loaded cannot overwrite another request's inspection or mapping.
RevisionCoversMapping ==
  [][\A b \in Batch :
       revision'[b] = revision[b] =>
         /\ plans'[b] = plans[b]
         /\ origin'[b] = origin[b]
         /\ structure'[b] = structure[b] \/ status[b] = "ABSENT"
         /\ (staged'[b] = None) = (staged[b] = None) \/ status[b] = "ABSENT"
         /\ staged[b] # None => staged'[b].mapping = staged[b].mapping
    ]_vars

\* COMMITTED, FAILED and DELETED batches keep status, revision and mapping: in
\* particular a suggestion that returns after the commit cannot move them.
TerminalIsFinal ==
  [][\A b \in Batch : status[b] \in Terminal =>
       /\ status'[b] = status[b]
       /\ revision'[b] = revision[b]
       /\ structure'[b] = structure[b]
       /\ plans'[b] = plans[b]
       /\ attempts'[b] = attempts[b]]_vars

\* Staging ends with its request while the retained file is there, and a restart
\* reopens a batch that a crash or a missing file left STAGING.
StagingEnds ==
  \A b \in Batch :
    /\ status[b] = "STAGING" ~> status[b] # "STAGING" \/ b \in lost
    /\ status[b] = "STAGING" /\ ~up ~> status[b] # "STAGING"

\* The design document says of fatal file errors that they stage nothing and
\* return the batch to AWAITING_MAPPING: staging ends whatever becomes of the
\* file.
FileErrorsEndStaging ==
  \A b \in Batch : status[b] = "STAGING" ~> status[b] # "STAGING"

\* The design document says that a confirmed remapping discards the staged
\* edits and that two mapping revisions never mix: committed rows then come
\* from the mapping the batch records as current.
CommittedRowsMatchMapping ==
  \A b \in Batch :
    status[b] = "COMMITTED" => staged[b].mapping = MappingRevision(b)

-----------------------------------------------------------------------------
(* The inductive invariant: besides the properties above, what a batch that  *)
(* was never opened or never read holds, and that staging works on a         *)
(* confirmed mapping.                                                        *)

UnopenedIsBlank ==
  \A b \in Batch :
    /\ status[b] \in {"ABSENT", "FAILED"} =>
         /\ staged[b] = None
         /\ origin[b] = None
         /\ plans[b] = << >>
         /\ attempts[b] = << >>
         /\ structure[b] = None

JobIsMapped == job # None => origin[job.batch] # None

IInv ==
  /\ TypeOK
  /\ UnopenedIsBlank
  /\ JobIsMapped
  /\ StagingHoldsTheBatch
  /\ MappingFitsInspection
  /\ StagedRowsFitInspection
  /\ LlmOriginIsGenuine
  /\ SuggestionsAreFresh
  /\ ReviewStatusIsCurrent

-----------------------------------------------------------------------------
(* What the batches promise about a file, see ImportContract *)

Holds(b, f) == Live(b) /\ file[b] = f

\* A file that two live batches hold is in no state the contract knows.
SlotOf(f) ==
  IF \E b, d \in Batch : b # d /\ Holds(b, f) /\ Holds(d, f) THEN "shared"
  ELSE IF \E b \in Batch : Holds(b, f) /\ status[b] = "COMMITTED" THEN "committed"
  ELSE IF \E b \in Batch : Holds(b, f) /\ status[b] = "FAILED" THEN "rejected"
  ELSE IF \E b \in Batch : Holds(b, f) THEN "draft"
  ELSE "free"

Contract == INSTANCE ImportContract WITH slot <- [f \in File |-> SlotOf(f)]

\* Every file of the account is at any time free, held by exactly one draft,
\* committed for good or rejected for good.
FileContract == Contract!Spec

=============================================================================

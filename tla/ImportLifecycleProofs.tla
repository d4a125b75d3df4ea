------------------------ MODULE ImportLifecycleProofs ------------------------
(***************************************************************************)
(* Proofs about ImportLifecycle, for every set of batches, files, plans    *)
(* and suggestion requests and every bound on the revision.                *)
(***************************************************************************)
EXTENDS ImportLifecycle, FiniteSetTheorems, TLAPS

LEMMA InitType == Init => TypeOK
  BY DEF Init, TypeOK, Status

LEMMA RequestsType ==
  ASSUME TypeOK, NEW b \in Batch
  PROVE  /\ \A f \in File : Upload(b, f) => TypeOK'
         /\ \A pending \in BOOLEAN : CreateManual(b, pending) => TypeOK'
         /\ \A s \in Structure : UpdateInspection(b, s) => TypeOK'
         /\ BeginStage(b) => TypeOK'
         /\ \A pending \in BOOLEAN : PatchRows(b, pending) => TypeOK'
         /\ Commit(b) => TypeOK'
         /\ \A pending \in BOOLEAN : CommitFindsDuplicate(b, pending) => TypeOK'
         /\ DeleteBatch(b) => TypeOK'
<1> USE DEF TypeOK, Status, DraftStatus, Terminal, RefreshedStatus, mappingVars, limiter
<1>1. ASSUME NEW f \in File, Upload(b, f) PROVE TypeOK'
  <2>1. file' \in [Batch -> File \cup {None}]
    BY <1>1 DEF Upload
  <2>2. /\ structure' \in [Batch -> Structure \cup {None}]
        /\ status' \in [Batch -> Status]
    <3>1. CASE f \in Readable
      <4>1. PICK s \in Structure : structure' = [structure EXCEPT ![b] = s]
        BY <1>1, <3>1 DEF Upload
      <4>2. status' = [status EXCEPT ![b] = "AWAITING_MAPPING"]
        BY <1>1, <3>1 DEF Upload
      <4>3. QED
        BY <4>1, <4>2
    <3>2. CASE f \notin Readable
      BY <1>1, <3>2 DEF Upload
    <3>3. QED
      BY <3>1, <3>2
  <2>3. UNCHANGED <<up, lost, revision, origin, plans, staged, attempts, calls, job, limiter>>
    BY <1>1 DEF Upload
  <2>4. QED
    BY <2>1, <2>2, <2>3
<1>2. ASSUME NEW pending \in BOOLEAN, CreateManual(b, pending) PROVE TypeOK'
  BY <1>2 DEF CreateManual, Rows
<1>3. ASSUME NEW s \in Structure, UpdateInspection(b, s) PROVE TypeOK'
  BY <1>3 DEF UpdateInspection, Bump
<1>4. ASSUME BeginStage(b) PROVE TypeOK'
  BY <1>4 DEF BeginStage, Bump, Job, MappingRevision
<1>5. ASSUME NEW pending \in BOOLEAN, PatchRows(b, pending) PROVE TypeOK'
  <2>1. [staged[b] EXCEPT !.pending = pending] \in Rows
    BY <1>5 DEF PatchRows, Rows
  <2>2. staged' \in [Batch -> Rows \cup {None}]
    BY <1>5, <2>1 DEF PatchRows
  <2>3. QED
    BY <1>5, <2>2 DEF PatchRows, Bump
<1>6. ASSUME Commit(b) PROVE TypeOK'
  BY <1>6 DEF Commit, Bump
<1>7. ASSUME NEW pending \in BOOLEAN, CommitFindsDuplicate(b, pending) PROVE TypeOK'
  <2>1. [staged[b] EXCEPT !.pending = pending] \in Rows
    BY <1>7 DEF CommitFindsDuplicate, Rows
  <2>2. staged' \in [Batch -> Rows \cup {None}]
    BY <1>7, <2>1 DEF CommitFindsDuplicate
  <2>3. QED
    BY <1>7, <2>2 DEF CommitFindsDuplicate
<1>8. ASSUME DeleteBatch(b) PROVE TypeOK'
  BY <1>8 DEF DeleteBatch, Bump
<1>9. QED
  BY <1>1, <1>2, <1>3, <1>4, <1>5, <1>6, <1>7, <1>8

LEMMA ConfirmType ==
  ASSUME TypeOK, NEW b \in Batch, NEW p \in Plan, NEW t \in Template \cup {None},
         Confirm(b, p, t)
  PROVE  TypeOK'
<1> DEFINE o == IF t # None THEN t.origin
                ELSE IF IsCurrentSuggestion(b, p) THEN "LLM_CONFIRMED" ELSE "MANUAL"
           snapshot == [plan |-> p, origin |-> o, template |-> t,
                        structure |-> structure[b]]
<1>1. o \in Origin
  BY TemplateAssumption DEF Origin
<1>2. structure[b] \in Structure
  BY FitsAssumption DEF Confirm, Accepts
<1>3. snapshot \in Snapshot
  BY <1>1, <1>2 DEF Snapshot
<1>4. plans' = [plans EXCEPT ![b] = Append(@, snapshot)] /\ origin' = [origin EXCEPT ![b] = o]
  BY DEF Confirm
<1>5. plans' \in [Batch -> Seq(Snapshot)]
  BY <1>3, <1>4 DEF TypeOK
<1> HIDE DEF o, snapshot
<1>6. origin' \in [Batch -> Origin \cup {None}]
  BY <1>1, <1>4 DEF TypeOK
<1>7. status' = [status EXCEPT ![b] = "AWAITING_MAPPING"]
      /\ revision' = [revision EXCEPT ![b] = @ + 1]
  BY DEF Confirm, Bump
<1>8. "AWAITING_MAPPING" \in Status
  BY DEF Status, DraftStatus
<1>9. status' \in [Batch -> Status] /\ revision' \in [Batch -> Nat]
  BY <1>7, <1>8 DEF TypeOK
<1>10. UNCHANGED <<up, lost, file, structure, staged, attempts, calls, job, slots, recent>>
  BY DEF Confirm, limiter
<1>11. /\ calls' \in [Caller -> Call \cup {None}]
       /\ \A c \in Caller : calls'[c] # None /\ calls'[c].answer = "suggested"
                            => calls'[c].plan \in Plan
  BY <1>10 DEF TypeOK
<1>12. QED
  BY <1>5, <1>6, <1>9, <1>10, <1>11 DEF TypeOK

LEMMA SuggestionType ==
  ASSUME TypeOK, NEW c \in Caller
  PROVE  /\ \A b \in Batch : RequestSuggestion(c, b) => TypeOK'
         /\ \A p \in Plan : ReceiveSuggestion(c, p) => TypeOK'
         /\ SuggestionFails(c) => TypeOK'
         /\ RecordSuggestion(c) => TypeOK'
<1> USE DEF TypeOK, mappingVars, limiter, TakeSlot, ReleaseSlot
<1>1. ASSUME NEW b \in Batch, RequestSuggestion(c, b) PROVE TypeOK'
  BY <1>1 DEF RequestSuggestion, Call
<1>2. ASSUME NEW p \in Plan, ReceiveSuggestion(c, p) PROVE TypeOK'
  <2>1. calls[c] \in Call
    BY <1>2 DEF ReceiveSuggestion
  <2>2. calls'[c] \in Call
    BY <1>2, <2>1 DEF ReceiveSuggestion, Call
  <2>3. calls'[c].answer = "suggested" => calls'[c].plan \in Plan
    BY <1>2, <2>1 DEF ReceiveSuggestion, Call
  <2>4. QED
    BY <1>2, <2>2, <2>3 DEF ReceiveSuggestion
<1>3. ASSUME SuggestionFails(c) PROVE TypeOK'
  <2>1. calls'[c] \in Call /\ calls'[c].answer = "fallback"
    BY <1>3 DEF SuggestionFails, Call
  <2>2. QED
    BY <1>3, <2>1 DEF SuggestionFails
<1>4. ASSUME RecordSuggestion(c) PROVE TypeOK'
  <2>1. calls[c] \in Call /\ calls[c] # None /\ calls'[c] = None
    BY <1>4 DEF RecordSuggestion
  <2> DEFINE d == calls[c].batch
             new == [revision |-> calls[c].revision, plan |-> calls[c].plan,
                     structure |-> calls[c].structure]
  <2>2. CASE status[d] # "DELETED" /\ ~Stale(c) /\ calls[c].answer = "suggested"
    <3>1. new \in Attempt /\ d \in Batch
      BY <2>1, <2>2 DEF Call, Attempt
    <3>2. attempts' = [attempts EXCEPT ![d] = Append(@, new)] /\ Bump(d)
      BY <1>4, <2>2 DEF RecordSuggestion, Bump
    <3> HIDE DEF d, new
    <3>3. Append(attempts[d], new) \in Seq(Attempt)
      BY <3>1
    <3>4. attempts' \in [Batch -> Seq(Attempt)]
      BY <3>2, <3>3
    <3>5. revision' \in [Batch -> Nat]
      BY <3>1, <3>2 DEF Bump
    <3>6. QED
      BY <1>4, <2>1, <3>4, <3>5 DEF RecordSuggestion
  <2>3. CASE ~(status[d] # "DELETED" /\ ~Stale(c) /\ calls[c].answer = "suggested")
    BY <1>4, <2>1, <2>3 DEF RecordSuggestion
  <2>4. QED
    BY <2>2, <2>3
<1>5. QED
  BY <1>1, <1>2, <1>3, <1>4

LEMMA ServerType ==
  ASSUME TypeOK
  PROVE  /\ \A pending \in BOOLEAN : FinishStage(pending) => TypeOK'
         /\ FailStage \/ AbandonStage => TypeOK'
         /\ \A S \in SUBSET Batch : \A T \in SUBSET S : ReleaseDuplicates(S, T) => TypeOK'
         /\ Crash => TypeOK'
         /\ Restart => TypeOK'
         /\ UNCHANGED vars \/ RequestAges \/ (\E b \in Batch : Vanish(b)) => TypeOK'
<1> USE DEF TypeOK, Status, DraftStatus, Terminal, RefreshedStatus, mappingVars, limiter
<1>1. ASSUME NEW pending \in BOOLEAN, FinishStage(pending) PROVE TypeOK'
  BY <1>1 DEF FinishStage, Bump, Rows, Job
<1>2. ASSUME FailStage \/ AbandonStage PROVE TypeOK'
  <2>1. CASE FailStage
    BY <2>1 DEF FailStage, Bump, Job
  <2>2. CASE AbandonStage
    BY <2>2 DEF AbandonStage
  <2>3. QED
    BY <1>2, <2>1, <2>2
<1>3. ASSUME NEW S \in SUBSET Batch, NEW T \in SUBSET S, ReleaseDuplicates(S, T)
      PROVE TypeOK'
  <2>1. ASSUME NEW d \in Batch PROVE staged'[d] \in Rows \cup {None}
    <3>1. CASE d \in T
      <4>1. staged[d] \in Rows /\ staged'[d] = [staged[d] EXCEPT !.pending = TRUE]
        BY <1>3, <3>1 DEF ReleaseDuplicates
      <4>2. QED
        BY <4>1 DEF Rows
    <3>2. CASE d \notin T
      BY <1>3, <3>2 DEF ReleaseDuplicates
    <3>3. QED
      BY <3>1, <3>2
  <2>2. staged' = [d \in Batch |-> staged'[d]]
    BY <1>3 DEF ReleaseDuplicates
  <2>3. staged' \in [Batch -> Rows \cup {None}]
    BY <2>1, <2>2
  <2>4. QED
    BY <1>3, <2>3 DEF ReleaseDuplicates
<1>4. ASSUME Crash PROVE TypeOK'
  <2>1. calls' = [c \in Caller |-> None]
    BY <1>4 DEF Crash
  <2>2. slots' \in Int /\ recent' \in Nat /\ job' = None /\ up' = FALSE
    BY <1>4 DEF Crash
  <2>3. UNCHANGED <<status, revision, file, lost, structure, origin, plans, staged, attempts>>
    BY <1>4 DEF Crash
  <2>4. QED
    BY <2>1, <2>2, <2>3
<1>5. ASSUME Restart PROVE TypeOK'
  BY <1>5 DEF Restart
<1>6. ASSUME UNCHANGED vars \/ RequestAges \/ \E b \in Batch : Vanish(b) PROVE TypeOK'
  BY <1>6 DEF vars, RequestAges, Vanish
<1>7. QED
  BY <1>1, <1>2, <1>3, <1>4, <1>5, <1>6

LEMMA NextType == TypeOK /\ [Next]_vars => TypeOK'
  BY RequestsType, ConfirmType, SuggestionType, ServerType DEF Next

\* Type correctness: every field keeps its domain; in particular a snapshot
\* always has a structure and an attempt a plan.
THEOREM TypeCorrect == Spec => []TypeOK
  BY InitType, NextType, PTL DEF Spec

-----------------------------------------------------------------------------
(* Frames: what an invariant needs to know of a step that does not touch    *)
(* the state it is about.                                                   *)

\* A step that adds neither a snapshot nor an attempt keeps every origin
\* genuine.
LEMMA LlmFrame ==
  ASSUME LlmOriginIsGenuine, UNCHANGED <<plans, attempts>>
  PROVE  LlmOriginIsGenuine'
  BY DEF LlmOriginIsGenuine

\* A step that leaves requests and attempts alone keeps them fresh when every
\* batch it changes gets a new revision.
LEMMA FreshFrame ==
  ASSUME TypeOK, SuggestionsAreFresh, UNCHANGED <<calls, attempts>>,
         revision' \in [Batch -> Nat],
         \A b \in Batch :
           \/ revision'[b] > revision[b]
           \/ /\ revision'[b] = revision[b]
              /\ status[b] \in DraftStatus => status'[b] \in DraftStatus
              /\ structure'[b] = structure[b] \/ status[b] \notin DraftStatus
              /\ structure'[b] = structure[b] \/ attempts[b] = << >>
  PROVE  SuggestionsAreFresh'
<1>1. ASSUME NEW c \in Caller, calls[c] # None
      PROVE  LET b == calls[c].batch IN
               /\ calls[c].revision <= revision'[b]
               /\ calls[c].revision = revision'[b] =>
                    /\ status'[b] \in DraftStatus
                    /\ calls[c].structure = structure'[b]
  <2>1. calls[c].batch \in Batch /\ calls[c].revision \in Nat
    BY <1>1 DEF TypeOK, Call
  <2>2. revision[calls[c].batch] \in Nat /\ revision'[calls[c].batch] \in Nat
    BY <2>1 DEF TypeOK
  <2>3. QED
    BY <1>1, <2>1, <2>2 DEF SuggestionsAreFresh
<1>2. ASSUME NEW b \in Batch, attempts[b] # << >>
      PROVE  LET latest == attempts[b][Len(attempts[b])] IN
               /\ latest.revision < revision'[b]
               /\ latest.revision + 1 = revision'[b] => latest.structure = structure'[b]
  <2>1. attempts[b] \in Seq(Attempt) /\ Len(attempts[b]) \in 1..Len(attempts[b])
    BY <1>2 DEF TypeOK
  <2>2. attempts[b][Len(attempts[b])].revision \in Nat
    <3>1. attempts[b][Len(attempts[b])] \in Attempt
      BY <2>1
    <3>2. QED
      BY <3>1 DEF Attempt
  <2>3. revision[b] \in Nat /\ revision'[b] \in Nat
    BY DEF TypeOK
  <2>4. QED
    BY <1>2, <2>2, <2>3 DEF SuggestionsAreFresh
<1>3. QED
  BY <1>1, <1>2 DEF SuggestionsAreFresh

\* In particular when it changes one batch and its revision.
LEMMA FreshBumped ==
  ASSUME TypeOK, SuggestionsAreFresh, UNCHANGED <<calls, attempts>>, NEW b \in Batch,
         revision' = [revision EXCEPT ![b] = @ + 1],
         \A d \in Batch : d # b => structure'[d] = structure[d] /\ status'[d] = status[d]
  PROVE  SuggestionsAreFresh'
<1>1. revision \in [Batch -> Nat]
  BY DEF TypeOK
<1>2. /\ revision' \in [Batch -> Nat] /\ revision'[b] > revision[b]
      /\ \A d \in Batch : d # b => revision'[d] = revision[d]
  BY <1>1
<1>3. QED
  BY <1>2, FreshFrame

-----------------------------------------------------------------------------
(* Requests on one batch that leave suggestions alone *)

LEMMA RequestsInductive ==
  ASSUME IInv, NEW b \in Batch
  PROVE  /\ \A f \in File : Upload(b, f) => IInv'
         /\ \A pending \in BOOLEAN : CreateManual(b, pending) => IInv'
         /\ \A s \in Structure : UpdateInspection(b, s) => IInv'
         /\ BeginStage(b) => IInv'
         /\ \A pending \in BOOLEAN : PatchRows(b, pending) => IInv'
         /\ Commit(b) => IInv'
         /\ \A pending \in BOOLEAN : CommitFindsDuplicate(b, pending) => IInv'
         /\ DeleteBatch(b) => IInv'
<1>0. TypeOK
  BY DEF IInv
<1> USE NoneAssumption DEF IInv, TypeOK, Status, DraftStatus, Terminal,
        RefreshedStatus, mappingVars, MappingRevision, MayWrite, Rows, Call, Job
<1>1. ASSUME NEW f \in File, Upload(b, f) PROVE IInv'
  <2>1. TypeOK'
    <3> HIDE DEF IInv, TypeOK
    <3>1. QED
      BY <1>0, <1>1, RequestsType
  <2>2. UnopenedIsBlank'
    BY <1>1 DEF Upload, Live, UnopenedIsBlank
  <2>3. JobIsMapped'
    BY <1>1 DEF Upload, Live, JobIsMapped, UnopenedIsBlank
  <2>4. StagingHoldsTheBatch'
    BY <1>1 DEF Upload, Live, StagingHoldsTheBatch, UnopenedIsBlank
  <2>5. MappingFitsInspection'
    BY <1>1 DEF Upload, Live, MappingFitsInspection, UnopenedIsBlank
  <2>6. StagedRowsFitInspection'
    BY <1>1 DEF Upload, Live, StagedRowsFitInspection, UnopenedIsBlank
  <2>7. LlmOriginIsGenuine'
    BY <1>1, LlmFrame DEF Upload
  <2>8. SuggestionsAreFresh'
    <3>1. attempts[b] = << >> /\ status[b] \notin DraftStatus
      BY <1>1 DEF Upload, UnopenedIsBlank
    <3>2. UNCHANGED <<calls, attempts, revision>>
          /\ \A d \in Batch : d # b => structure'[d] = structure[d] /\ status'[d] = status[d]
      BY <1>1 DEF Upload
    <3>3. QED
      BY <2>1, <3>1, <3>2, FreshFrame
  <2>9. ReviewStatusIsCurrent'
    BY <1>1 DEF Upload, Live, ReviewStatusIsCurrent, UnopenedIsBlank
  <2>10. QED
    BY <2>1, <2>2, <2>3, <2>4, <2>5, <2>6, <2>7, <2>8, <2>9
<1>2. ASSUME NEW pending \in BOOLEAN, CreateManual(b, pending) PROVE IInv'
  <2>1. TypeOK'
    <3> HIDE DEF IInv, TypeOK
    <3>1. QED
      BY <1>0, <1>2, RequestsType
  <2>2. UnopenedIsBlank'
    BY <1>2 DEF CreateManual, UnopenedIsBlank
  <2>3. JobIsMapped'
    BY <1>2 DEF CreateManual, JobIsMapped, UnopenedIsBlank
  <2>4. StagingHoldsTheBatch'
    BY <1>2 DEF CreateManual, StagingHoldsTheBatch, UnopenedIsBlank
  <2>5. MappingFitsInspection'
    BY <1>2 DEF CreateManual, MappingFitsInspection, UnopenedIsBlank
  <2>6. StagedRowsFitInspection'
    BY <1>2 DEF CreateManual, StagedRowsFitInspection, UnopenedIsBlank
  <2>7. LlmOriginIsGenuine'
    BY <1>2, LlmFrame DEF CreateManual
  <2>8. SuggestionsAreFresh'
    BY <1>2, <2>1, FreshFrame DEF CreateManual
  <2>9. ReviewStatusIsCurrent'
    BY <1>2 DEF CreateManual, ReviewStatusIsCurrent, UnopenedIsBlank
  <2>10. QED
    BY <2>1, <2>2, <2>3, <2>4, <2>5, <2>6, <2>7, <2>8, <2>9
<1>3. ASSUME NEW s \in Structure, UpdateInspection(b, s) PROVE IInv'
  <2>1. TypeOK'
    <3> HIDE DEF IInv, TypeOK
    <3>1. QED
      BY <1>0, <1>3, RequestsType
  <2>2. UnopenedIsBlank'
    BY <1>3 DEF UpdateInspection, Bump, Mutable, UnopenedIsBlank
  <2>3. JobIsMapped'
    BY <1>3 DEF UpdateInspection, Bump, Mutable, JobIsMapped
  <2>4. StagingHoldsTheBatch'
    BY <1>3 DEF UpdateInspection, Bump, Mutable, StagingHoldsTheBatch
  <2>5. MappingFitsInspection'
    BY <1>3 DEF UpdateInspection, Bump, Mutable, MappingFitsInspection
  <2>6. StagedRowsFitInspection'
    BY <1>3 DEF UpdateInspection, Bump, Mutable, StagedRowsFitInspection
  <2>7. LlmOriginIsGenuine'
    BY <1>3, LlmFrame DEF UpdateInspection
  <2>8. SuggestionsAreFresh'
    <3>1. /\ UNCHANGED <<calls, attempts>> /\ revision' = [revision EXCEPT ![b] = @ + 1]
          /\ \A d \in Batch : d # b => structure'[d] = structure[d] /\ status'[d] = status[d]
      BY <1>3 DEF UpdateInspection, Bump, Mutable, mappingVars
    <3> HIDE DEF TypeOK
    <3>2. QED
      BY <2>1, <3>1, FreshBumped
  <2>9. ReviewStatusIsCurrent'
    BY <1>3 DEF UpdateInspection, Bump, Mutable, ReviewStatusIsCurrent
  <2>10. QED
    BY <2>1, <2>2, <2>3, <2>4, <2>5, <2>6, <2>7, <2>8, <2>9
<1>4. ASSUME BeginStage(b) PROVE IInv'
  <2>1. TypeOK'
    <3> HIDE DEF IInv, TypeOK
    <3>1. QED
      BY <1>0, <1>4, RequestsType
  <2>2. UnopenedIsBlank'
    BY <1>4 DEF BeginStage, Bump, Mutable, UnopenedIsBlank
  <2>3. JobIsMapped'
    BY <1>4 DEF BeginStage, Bump, Mutable, JobIsMapped
  <2>4. StagingHoldsTheBatch'
    BY <1>4 DEF BeginStage, Bump, Mutable, StagingHoldsTheBatch
  <2>5. MappingFitsInspection'
    BY <1>4 DEF BeginStage, Bump, Mutable, MappingFitsInspection
  <2>6. StagedRowsFitInspection'
    BY <1>4 DEF BeginStage, Bump, Mutable, StagedRowsFitInspection
  <2>7. LlmOriginIsGenuine'
    BY <1>4, LlmFrame DEF BeginStage
  <2>8. SuggestionsAreFresh'
    <3>1. /\ UNCHANGED <<calls, attempts>> /\ revision' = [revision EXCEPT ![b] = @ + 1]
          /\ \A d \in Batch : d # b => structure'[d] = structure[d] /\ status'[d] = status[d]
      BY <1>4 DEF BeginStage, Bump, Mutable, mappingVars
    <3> HIDE DEF TypeOK
    <3>2. QED
      BY <2>1, <3>1, FreshBumped
  <2>9. ReviewStatusIsCurrent'
    BY <1>4 DEF BeginStage, Bump, Mutable, ReviewStatusIsCurrent
  <2>10. QED
    BY <2>1, <2>2, <2>3, <2>4, <2>5, <2>6, <2>7, <2>8, <2>9
<1>5. ASSUME NEW pending \in BOOLEAN, PatchRows(b, pending) PROVE IInv'
  <2>1. TypeOK'
    <3> HIDE DEF IInv, TypeOK
    <3>1. QED
      BY <1>0, <1>5, RequestsType
  <2>2. UnopenedIsBlank'
    BY <1>5 DEF PatchRows, Bump, UnopenedIsBlank
  <2>3. JobIsMapped'
    BY <1>5 DEF PatchRows, Bump, JobIsMapped
  <2>4. StagingHoldsTheBatch'
    BY <1>5 DEF PatchRows, Bump, StagingHoldsTheBatch
  <2>5. MappingFitsInspection'
    BY <1>5 DEF PatchRows, Bump, MappingFitsInspection
  <2>6. StagedRowsFitInspection'
    BY <1>5 DEF PatchRows, Bump, StagedRowsFitInspection
  <2>7. LlmOriginIsGenuine'
    <3>1. UNCHANGED <<plans, attempts>>
      BY <1>5 DEF PatchRows, mappingVars
    <3>2. QED
      BY <3>1, LlmFrame
  <2>8. SuggestionsAreFresh'
    <3>1. /\ UNCHANGED <<calls, attempts>> /\ revision' = [revision EXCEPT ![b] = @ + 1]
          /\ \A d \in Batch : d # b => structure'[d] = structure[d] /\ status'[d] = status[d]
      BY <1>5 DEF PatchRows, Bump, mappingVars
    <3> HIDE DEF TypeOK
    <3>2. QED
      BY <2>1, <3>1, FreshBumped
  <2>9. ReviewStatusIsCurrent'
    <3>1. staged[b] \in Rows /\ status'[b] = RefreshedStatus(pending)
          /\ staged'[b] = [staged[b] EXCEPT !.pending = pending]
      BY <1>5 DEF PatchRows
    <3>2. staged'[b] \in Rows /\ staged'[b].pending = pending
      BY <3>1
    <3>3. \A d \in Batch \ {b} : staged'[d] = staged[d] /\ status'[d] = status[d]
      BY <1>5 DEF PatchRows
    <3> HIDE DEF TypeOK, Rows
    <3>4. QED
      BY <1>5, <3>1, <3>2, <3>3, NoneAssumption DEF ReviewStatusIsCurrent
  <2>10. QED
    BY <2>1, <2>2, <2>3, <2>4, <2>5, <2>6, <2>7, <2>8, <2>9
<1>6. ASSUME Commit(b) PROVE IInv'
  <2>1. TypeOK'
    <3> HIDE DEF IInv, TypeOK
    <3>1. QED
      BY <1>0, <1>6, RequestsType
  <2>2. UnopenedIsBlank'
    BY <1>6 DEF Commit, Bump, UnopenedIsBlank
  <2>3. JobIsMapped'
    BY <1>6 DEF Commit, Bump, JobIsMapped
  <2>4. StagingHoldsTheBatch'
    BY <1>6 DEF Commit, Bump, StagingHoldsTheBatch
  <2>5. MappingFitsInspection'
    BY <1>6 DEF Commit, Bump, MappingFitsInspection
  <2>6. StagedRowsFitInspection'
    BY <1>6 DEF Commit, Bump, StagedRowsFitInspection
  <2>7. LlmOriginIsGenuine'
    BY <1>6, LlmFrame DEF Commit
  <2>8. SuggestionsAreFresh'
    <3>1. /\ UNCHANGED <<calls, attempts>> /\ revision' = [revision EXCEPT ![b] = @ + 1]
          /\ \A d \in Batch : d # b => structure'[d] = structure[d] /\ status'[d] = status[d]
      BY <1>6 DEF Commit, Bump, mappingVars
    <3> HIDE DEF TypeOK
    <3>2. QED
      BY <2>1, <3>1, FreshBumped
  <2>9. ReviewStatusIsCurrent'
    BY <1>6 DEF Commit, Bump, ReviewStatusIsCurrent
  <2>10. QED
    BY <2>1, <2>2, <2>3, <2>4, <2>5, <2>6, <2>7, <2>8, <2>9
<1>7. ASSUME NEW pending \in BOOLEAN, CommitFindsDuplicate(b, pending) PROVE IInv'
  <2>1. TypeOK'
    <3> HIDE DEF IInv, TypeOK
    <3>1. QED
      BY <1>0, <1>7, RequestsType
  <2>2. UnopenedIsBlank'
    BY <1>7 DEF CommitFindsDuplicate, UnopenedIsBlank
  <2>3. JobIsMapped'
    BY <1>7 DEF CommitFindsDuplicate, JobIsMapped
  <2>4. StagingHoldsTheBatch'
    BY <1>7 DEF CommitFindsDuplicate, StagingHoldsTheBatch
  <2>5. MappingFitsInspection'
    BY <1>7 DEF CommitFindsDuplicate, MappingFitsInspection
  <2>6. StagedRowsFitInspection'
    BY <1>7 DEF CommitFindsDuplicate, StagedRowsFitInspection
  <2>7. LlmOriginIsGenuine'
    BY <1>7, LlmFrame DEF CommitFindsDuplicate
  <2>8. SuggestionsAreFresh'
    BY <1>7, <2>1, FreshFrame DEF CommitFindsDuplicate
  <2>9. ReviewStatusIsCurrent'
    <3>1. staged[b] \in Rows /\ status'[b] = RefreshedStatus(pending)
          /\ staged'[b] = [staged[b] EXCEPT !.pending = pending]
      BY <1>7 DEF CommitFindsDuplicate
    <3>2. staged'[b] \in Rows /\ staged'[b].pending = pending
      BY <3>1
    <3>3. \A d \in Batch \ {b} : staged'[d] = staged[d] /\ status'[d] = status[d]
      BY <1>7 DEF CommitFindsDuplicate
    <3> HIDE DEF TypeOK, Rows
    <3>4. QED
      BY <1>7, <3>1, <3>2, <3>3, NoneAssumption DEF ReviewStatusIsCurrent
  <2>10. QED
    BY <2>1, <2>2, <2>3, <2>4, <2>5, <2>6, <2>7, <2>8, <2>9
<1>8. ASSUME DeleteBatch(b) PROVE IInv'
  <2>1. TypeOK'
    <3> HIDE DEF IInv, TypeOK
    <3>1. QED
      BY <1>0, <1>8, RequestsType
  <2>2. UnopenedIsBlank'
    BY <1>8 DEF DeleteBatch, Bump, UnopenedIsBlank
  <2>3. JobIsMapped'
    BY <1>8 DEF DeleteBatch, Bump, JobIsMapped
  <2>4. StagingHoldsTheBatch'
    BY <1>8 DEF DeleteBatch, Bump, StagingHoldsTheBatch
  <2>5. MappingFitsInspection'
    BY <1>8 DEF DeleteBatch, Bump, MappingFitsInspection
  <2>6. StagedRowsFitInspection'
    BY <1>8 DEF DeleteBatch, Bump, StagedRowsFitInspection
  <2>7. LlmOriginIsGenuine'
    BY <1>8, LlmFrame DEF DeleteBatch
  <2>8. SuggestionsAreFresh'
    <3>1. /\ UNCHANGED <<calls, attempts>> /\ revision' = [revision EXCEPT ![b] = @ + 1]
          /\ \A d \in Batch : d # b => structure'[d] = structure[d] /\ status'[d] = status[d]
      BY <1>8 DEF DeleteBatch, Bump, mappingVars
    <3> HIDE DEF TypeOK
    <3>2. QED
      BY <2>1, <3>1, FreshBumped
  <2>9. ReviewStatusIsCurrent'
    BY <1>8 DEF DeleteBatch, Bump, ReviewStatusIsCurrent
  <2>10. QED
    BY <2>1, <2>2, <2>3, <2>4, <2>5, <2>6, <2>7, <2>8, <2>9
<1>9. QED
  BY <1>1, <1>2, <1>3, <1>4, <1>5, <1>6, <1>7, <1>8

-----------------------------------------------------------------------------
(* Confirmation: the only step that appends a snapshot *)

LEMMA ConfirmInductive ==
  ASSUME IInv, NEW b \in Batch, NEW p \in Plan, NEW t \in Template \cup {None},
         Confirm(b, p, t)
  PROVE  IInv'
<1> DEFINE o == IF t # None THEN t.origin
                ELSE IF IsCurrentSuggestion(b, p) THEN "LLM_CONFIRMED" ELSE "MANUAL"
           new == [plan |-> p, origin |-> o, template |-> t,
                   structure |-> structure[b]]
<1>1. TypeOK /\ TypeOK'
  BY ConfirmType DEF IInv
<1>2. /\ status[b] \in DraftStatus /\ status[b] # "STAGING"
      /\ MayWrite
      /\ <<p, structure[b]>> \in Fits
  BY DEF Confirm, Mutable, Accepts
<1>3. o \in Origin /\ structure[b] \in Structure
  BY <1>2, TemplateAssumption, FitsAssumption DEF Origin
<1>4. new \in Snapshot
  BY <1>3 DEF Snapshot
<1>5. /\ plans' = [plans EXCEPT ![b] = Append(@, new)]
      /\ origin' = [origin EXCEPT ![b] = o]
      /\ status' = [status EXCEPT ![b] = "AWAITING_MAPPING"]
      /\ revision' = [revision EXCEPT ![b] = @ + 1]
      /\ UNCHANGED <<up, file, lost, structure, staged, attempts, calls, job>>
  BY DEF Confirm, Bump
<1>6. /\ plans[b] \in Seq(Snapshot)
      /\ plans'[b] = Append(plans[b], new)
      /\ \A d \in Batch : d # b => plans'[d] = plans[d]
  BY <1>1, <1>5 DEF TypeOK
<1>7. new.plan = p /\ new.origin = o /\ new.template = t /\ new.structure = structure[b]
  OBVIOUS
<1>8. t = None /\ o = "LLM_CONFIRMED" =>
        /\ attempts[b] # << >>
        /\ attempts[b][Len(attempts[b])].revision + 1 = revision[b]
        /\ attempts[b][Len(attempts[b])].plan = p
  BY DEF IsCurrentSuggestion
<1> HIDE DEF new, o
<1>9. /\ Len(plans'[b]) = Len(plans[b]) + 1
      /\ Len(plans[b]) \in Nat
      /\ plans'[b][Len(plans[b]) + 1] = new
      /\ \A i \in 1..Len(plans[b]) : plans'[b][i] = plans[b][i]
  BY <1>4, <1>6
<1>10. UnopenedIsBlank'
  BY <1>1, <1>2, <1>5, <1>6 DEF IInv, UnopenedIsBlank, TypeOK
<1>11. JobIsMapped'
  BY <1>2, <1>5 DEF MayWrite, JobIsMapped
<1>12. StagingHoldsTheBatch'
  BY <1>1, <1>2, <1>5 DEF IInv, MayWrite, StagingHoldsTheBatch, TypeOK
<1>13. MappingFitsInspection'
  <2> SUFFICES ASSUME NEW d \in Batch, origin'[d] # None
               PROVE  /\ Len(plans'[d]) > 0
                      /\ plans'[d][Len(plans'[d])].origin = origin'[d]
                      /\ plans'[d][Len(plans'[d])].structure = structure'[d]
                      /\ <<plans'[d][Len(plans'[d])].plan, structure'[d]>> \in Fits
    BY DEF MappingFitsInspection, MappingRevision
  <2>1. CASE d = b
    <3>1. plans'[b][Len(plans'[b])] = new /\ Len(plans'[b]) > 0
      BY <1>9
    <3>2. origin'[b] = o /\ structure'[b] = structure[b]
      BY <1>1, <1>5 DEF TypeOK
    <3>3. QED
      BY <2>1, <3>1, <3>2, <1>2, <1>7
  <2>2. CASE d # b
    <3>1. plans'[d] = plans[d] /\ origin'[d] = origin[d] /\ structure'[d] = structure[d]
      BY <2>2, <1>1, <1>5, <1>6 DEF TypeOK
    <3>2. QED
      BY <3>1 DEF IInv, MappingFitsInspection, MappingRevision
  <2>3. QED
    BY <2>1, <2>2
<1>14. StagedRowsFitInspection'
  <2> SUFFICES ASSUME NEW d \in Batch, staged[d] # None, structure[d] # None
               PROVE  /\ staged[d].mapping \in 1..Len(plans'[d])
                      /\ staged[d].structure = structure[d]
                      /\ plans'[d][staged[d].mapping].structure = structure[d]
    BY <1>5 DEF StagedRowsFitInspection, MappingRevision
  <2>1. /\ staged[d].mapping \in 1..Len(plans[d])
        /\ staged[d].structure = structure[d]
        /\ plans[d][staged[d].mapping].structure = structure[d]
    BY DEF IInv, StagedRowsFitInspection, MappingRevision
  <2>2. CASE d = b
    BY <2>1, <2>2, <1>9
  <2>3. CASE d # b
    BY <2>1, <2>3, <1>6
  <2>4. QED
    BY <2>2, <2>3
<1>15. LlmOriginIsGenuine'
  <2> SUFFICES ASSUME NEW d \in Batch, NEW i \in 1..Len(plans'[d]),
                      plans'[d][i].origin = "LLM_CONFIRMED",
                      plans'[d][i].template = None
               PROVE  \E k \in 1..Len(attempts[d]) :
                        /\ attempts[d][k].plan = plans'[d][i].plan
                        /\ attempts[d][k].structure = plans'[d][i].structure
    BY <1>5 DEF LlmOriginIsGenuine
  <2>1. CASE d # b
    <3>1. plans'[d] = plans[d]
      BY <2>1, <1>6
    <3>2. i \in 1..Len(plans[d]) /\ plans[d][i].origin = "LLM_CONFIRMED"
          /\ plans[d][i].template = None
      BY <3>1
    <3>3. \E k \in 1..Len(attempts[d]) :
             /\ attempts[d][k].plan = plans[d][i].plan
             /\ attempts[d][k].structure = plans[d][i].structure
      BY <3>2 DEF IInv, LlmOriginIsGenuine
    <3>4. QED
      BY <3>1, <3>3
  <2>2. CASE d = b /\ i # Len(plans[b]) + 1
    <3>1. i \in 1..Len(plans[b]) /\ plans'[b][i] = plans[b][i]
      BY <2>2, <1>9
    <3>2. plans[b][i].origin = "LLM_CONFIRMED" /\ plans[b][i].template = None
      BY <2>2, <3>1
    <3>3. \E k \in 1..Len(attempts[b]) :
             /\ attempts[b][k].plan = plans[b][i].plan
             /\ attempts[b][k].structure = plans[b][i].structure
      BY <3>1, <3>2 DEF IInv, LlmOriginIsGenuine
    <3>4. QED
      BY <2>2, <3>1, <3>3
  <2>3. CASE d = b /\ i = Len(plans[b]) + 1
    <3>1. plans'[d][i] = new /\ t = None /\ o = "LLM_CONFIRMED"
      BY <2>3, <1>7, <1>9
    <3>2. attempts[b][Len(attempts[b])].plan = p
          /\ attempts[b][Len(attempts[b])].structure = structure[b]
      BY <3>1, <1>8 DEF IInv, SuggestionsAreFresh
    <3>3. Len(attempts[b]) \in 1..Len(attempts[b])
      BY <3>1, <1>8, <1>1 DEF TypeOK
    <3>4. QED
      BY <2>3, <3>1, <3>2, <3>3, <1>7
  <2>4. QED
    BY <2>1, <2>2, <2>3
<1>16. SuggestionsAreFresh'
  <2>1. \A d \in Batch : \/ revision'[d] > revision[d]
                          \/ /\ revision'[d] = revision[d]
                             /\ status'[d] = status[d]
                             /\ structure'[d] = structure[d]
    BY <1>1, <1>5 DEF TypeOK
  <2>2. UNCHANGED <<calls, attempts>> /\ revision' \in [Batch -> Nat]
    BY <1>1, <1>5 DEF TypeOK
  <2>3. QED
    BY <1>1, <2>1, <2>2, FreshFrame DEF IInv
<1>17. ReviewStatusIsCurrent'
  BY <1>1, <1>5 DEF IInv, ReviewStatusIsCurrent, TypeOK
<1>18. QED
  BY <1>1, <1>10, <1>11, <1>12, <1>13, <1>14, <1>15, <1>16, <1>17 DEF IInv

-----------------------------------------------------------------------------
(* Suggestion requests: they move nothing but themselves until recorded,    *)
(* and then only the attempts and the revision of a draft.                  *)

\* What a suggestion step keeps of the batches keeps every invariant that is
\* not about suggestions.
LEMMA BatchFrame ==
  ASSUME IInv, UNCHANGED <<up, status, origin, structure, plans, staged, job>>,
         lost \subseteq lost',
         \A b \in Batch : revision'[b] = revision[b] \/ job = None,
         \A b \in Batch : status[b] \in {"ABSENT", "FAILED"} => attempts'[b] = attempts[b]
  PROVE  /\ UnopenedIsBlank' /\ JobIsMapped' /\ StagingHoldsTheBatch'
         /\ MappingFitsInspection' /\ StagedRowsFitInspection'
         /\ ReviewStatusIsCurrent'
<1>1. UnopenedIsBlank'
  BY DEF IInv, UnopenedIsBlank
<1>2. JobIsMapped'
  BY DEF IInv, JobIsMapped
<1>3. StagingHoldsTheBatch'
  BY NoneAssumption DEF IInv, StagingHoldsTheBatch, MappingRevision, TypeOK, Job
<1>4. MappingFitsInspection'
  BY DEF IInv, MappingFitsInspection, MappingRevision
<1>5. StagedRowsFitInspection'
  BY DEF IInv, StagedRowsFitInspection, MappingRevision
<1>6. ReviewStatusIsCurrent'
  BY DEF IInv, ReviewStatusIsCurrent
<1>7. QED
  BY <1>1, <1>2, <1>3, <1>4, <1>5, <1>6

\* A step of request c that keeps the batch, the revision and the structure it
\* read, or starts from the state of its batch, or ends it, stays fresh.
LEMMA CallFrame ==
  ASSUME IInv, TypeOK', NEW c \in Caller,
         UNCHANGED <<up, lost, status, revision, origin, structure, plans, staged, attempts, job>>,
         \A d \in Caller : d # c => calls'[d] = calls[d],
         calls'[c] # None => LET b == calls'[c].batch IN
           \/ /\ calls[c] # None
              /\ b = calls[c].batch
              /\ calls'[c].revision = calls[c].revision
              /\ calls'[c].structure = calls[c].structure
           \/ /\ b \in Batch
              /\ calls'[c].revision = revision[b]
              /\ calls'[c].structure = structure[b]
              /\ status[b] \in DraftStatus
  PROVE  IInv'
<1>1. SuggestionsAreFresh'
  <2>1. ASSUME NEW d \in Caller, calls'[d] # None
        PROVE  /\ calls'[d].revision <= revision[calls'[d].batch]
               /\ calls'[d].revision = revision[calls'[d].batch] =>
                    /\ status[calls'[d].batch] \in DraftStatus
                    /\ calls'[d].structure = structure[calls'[d].batch]
    <3>1. CASE calls[d] # None /\ calls'[d].batch = calls[d].batch
               /\ calls'[d].revision = calls[d].revision
               /\ calls'[d].structure = calls[d].structure
      BY <3>1 DEF IInv, SuggestionsAreFresh
    <3>2. CASE /\ calls'[d].batch \in Batch
               /\ calls'[d].revision = revision[calls'[d].batch]
               /\ calls'[d].structure = structure[calls'[d].batch]
               /\ status[calls'[d].batch] \in DraftStatus
      BY <3>2 DEF IInv, TypeOK
    <3>3. QED
      BY <2>1, <3>1, <3>2
  <2>2. QED
    BY <2>1 DEF IInv, SuggestionsAreFresh
<1>2. LlmOriginIsGenuine'
  BY LlmFrame DEF IInv
<1>3. QED
  BY <1>1, <1>2, BatchFrame DEF IInv

LEMMA SuggestionInductive ==
  ASSUME IInv, NEW c \in Caller
  PROVE  /\ \A b \in Batch : RequestSuggestion(c, b) => IInv'
         /\ \A p \in Plan : ReceiveSuggestion(c, p) => IInv'
         /\ SuggestionFails(c) => IInv'
         /\ RecordSuggestion(c) => IInv'
<1> USE DEF mappingVars
<1>1. ASSUME NEW b \in Batch, RequestSuggestion(c, b) PROVE IInv'
  <2>1. TypeOK /\ TypeOK'
    BY <1>1, SuggestionType DEF IInv
  <2>2. /\ \E answer \in {"waiting", "fallback"} :
             calls'[c] = [batch |-> b, revision |-> revision[b], structure |-> structure[b],
                          answer |-> answer, plan |-> None]
        /\ \A d \in Caller : d # c => calls'[d] = calls[d]
        /\ status[b] \in DraftStatus
        /\ UNCHANGED <<up, lost, status, revision, origin, structure, plans, staged, attempts, job>>
    BY <1>1, <2>1 DEF RequestSuggestion, TypeOK
  <2>3. QED
    BY <2>1, <2>2, CallFrame
<1>2. ASSUME NEW p \in Plan, ReceiveSuggestion(c, p) PROVE IInv'
  <2>1. TypeOK /\ TypeOK'
    BY <1>2, SuggestionType DEF IInv
  <2>2. calls[c] \in Call /\ calls[c] # None
    BY <1>2, <2>1 DEF TypeOK, ReceiveSuggestion
  <2>3. /\ calls'[c].batch = calls[c].batch
        /\ calls'[c].revision = calls[c].revision
        /\ calls'[c].structure = calls[c].structure
    BY <1>2, <2>1, <2>2 DEF ReceiveSuggestion, TypeOK, Call
  <2>4. /\ \A d \in Caller : d # c => calls'[d] = calls[d]
        /\ UNCHANGED <<up, lost, status, revision, origin, structure, plans, staged, attempts, job>>
    BY <1>2, <2>1 DEF ReceiveSuggestion, TypeOK
  <2>5. QED
    BY <2>1, <2>2, <2>3, <2>4, CallFrame
<1>3. ASSUME SuggestionFails(c) PROVE IInv'
  <2>1. TypeOK /\ TypeOK'
    BY <1>3, SuggestionType DEF IInv
  <2>2. calls[c] \in Call /\ calls[c] # None
    BY <1>3, <2>1 DEF TypeOK, SuggestionFails
  <2>3. /\ calls'[c].batch = calls[c].batch
        /\ calls'[c].revision = calls[c].revision
        /\ calls'[c].structure = calls[c].structure
    BY <1>3, <2>1, <2>2 DEF SuggestionFails, TypeOK, Call
  <2>4. /\ \A d \in Caller : d # c => calls'[d] = calls[d]
        /\ UNCHANGED <<up, lost, status, revision, origin, structure, plans, staged, attempts, job>>
    BY <1>3, <2>1 DEF SuggestionFails, TypeOK
  <2>5. QED
    BY <2>1, <2>2, <2>3, <2>4, CallFrame
<1>4. ASSUME RecordSuggestion(c) PROVE IInv'
  <2> DEFINE b == calls[c].batch
             new == [revision |-> calls[c].revision, plan |-> calls[c].plan,
                     structure |-> calls[c].structure]
  <2>1. TypeOK /\ TypeOK'
    BY <1>4, SuggestionType DEF IInv
  <2>2. /\ calls[c] \in Call /\ calls[c] # None
        /\ calls' = [calls EXCEPT ![c] = None]
        /\ job = None
        /\ UNCHANGED <<up, lost, status, file, origin, structure, plans, staged, job>>
    BY <1>4, <2>1 DEF TypeOK, RecordSuggestion, MayWrite
  <2>3. b \in Batch
    BY <2>2 DEF Call
  <2>4. CASE status[b] # "DELETED" /\ ~Stale(c) /\ calls[c].answer = "suggested"
    <3>1. /\ attempts' = [attempts EXCEPT ![b] = Append(@, new)]
          /\ revision' = [revision EXCEPT ![b] = @ + 1]
      BY <1>4, <2>4 DEF RecordSuggestion, Bump
    <3>2. /\ calls[c].revision = revision[b]
          /\ status[b] \in DraftStatus
          /\ calls[c].structure = structure[b]
      BY <2>2, <2>4 DEF IInv, SuggestionsAreFresh, Stale
    <3>3. new.revision = revision[b] /\ new.structure = structure[b]
      BY <3>2
    <3>4. new \in Attempt
      BY <2>1, <2>2, <2>4 DEF Call, Attempt, TypeOK
    <3> HIDE DEF new
    <3>5. attempts[b] \in Seq(Attempt)
      BY <2>1, <2>3 DEF TypeOK
    <3>6. /\ attempts'[b] = Append(attempts[b], new)
          /\ \A d \in Batch : d # b => attempts'[d] = attempts[d]
      BY <2>1, <2>3, <3>1 DEF TypeOK
    <3>7. /\ Len(attempts[b]) \in Nat
          /\ Len(attempts'[b]) = Len(attempts[b]) + 1
          /\ attempts'[b][Len(attempts[b]) + 1] = new
          /\ \A k \in 1..Len(attempts[b]) : attempts'[b][k] = attempts[b][k]
      BY <3>4, <3>5, <3>6
    <3>8. /\ revision'[b] = revision[b] + 1
          /\ \A d \in Batch : revision[d] \in Nat
          /\ \A d \in Batch : d # b => revision'[d] = revision[d]
      BY <2>1, <2>3, <3>1 DEF TypeOK
    <3> HIDE DEF b
    <3>9. SuggestionsAreFresh'
      <4>1. ASSUME NEW e \in Caller, calls'[e] # None
            PROVE  LET d == calls'[e].batch IN
                     /\ calls'[e].revision <= revision'[d]
                     /\ calls'[e].revision = revision'[d] =>
                          /\ status'[d] \in DraftStatus
                          /\ calls'[e].structure = structure'[d]
        <5>1. calls'[e] = calls[e] /\ calls[e] # None /\ calls[e] \in Call
          BY <4>1, <2>1, <2>2 DEF TypeOK
        <5>2. calls[e].batch \in Batch /\ calls[e].revision \in Nat
          BY <5>1 DEF Call
        <5>3. /\ calls[e].revision <= revision[calls[e].batch]
              /\ calls[e].revision = revision[calls[e].batch] =>
                   /\ status[calls[e].batch] \in DraftStatus
                   /\ calls[e].structure = structure[calls[e].batch]
          BY <5>1 DEF IInv, SuggestionsAreFresh
        <5>4. QED
          BY <5>1, <5>2, <5>3, <2>2, <2>3, <3>8
      <4>2. ASSUME NEW d \in Batch, attempts'[d] # << >>
            PROVE  LET latest == attempts'[d][Len(attempts'[d])] IN
                     /\ latest.revision < revision'[d]
                     /\ latest.revision + 1 = revision'[d] => latest.structure = structure'[d]
        <5>1. CASE d = b
          <6>1. attempts'[d][Len(attempts'[d])] = new
            BY <5>1, <3>7
          <6>2. QED
            BY <5>1, <6>1, <2>2, <2>3, <3>3, <3>8
        <5>2. CASE d # b
          <6>1. attempts'[d] = attempts[d] /\ revision'[d] = revision[d]
                /\ structure'[d] = structure[d]
            BY <5>2, <2>2, <3>6, <3>8
          <6>2. QED
            BY <4>2, <6>1 DEF IInv, SuggestionsAreFresh
        <5>3. QED
          BY <5>1, <5>2
      <4>3. QED
        BY <4>1, <4>2 DEF SuggestionsAreFresh
    <3>10. LlmOriginIsGenuine'
      <4> SUFFICES ASSUME NEW d \in Batch, NEW i \in 1..Len(plans[d]),
                          plans[d][i].origin = "LLM_CONFIRMED",
                          plans[d][i].template = None
                   PROVE  \E k \in 1..Len(attempts'[d]) :
                            /\ attempts'[d][k].plan = plans[d][i].plan
                            /\ attempts'[d][k].structure = plans[d][i].structure
        BY <2>2 DEF LlmOriginIsGenuine
      <4>1. PICK k \in 1..Len(attempts[d]) :
                 /\ attempts[d][k].plan = plans[d][i].plan
                 /\ attempts[d][k].structure = plans[d][i].structure
        BY DEF IInv, LlmOriginIsGenuine
      <4>2. k \in 1..Len(attempts'[d]) /\ attempts'[d][k] = attempts[d][k]
        <5>1. CASE d = b
          BY <5>1, <3>7
        <5>2. CASE d # b
          BY <5>2, <3>6
        <5>3. QED
          BY <5>1, <5>2
      <4>3. QED
        BY <4>1, <4>2
    <3>11. \A d \in Batch : status[d] \in {"ABSENT", "FAILED"} => attempts'[d] = attempts[d]
      BY <3>2, <3>6 DEF DraftStatus
    <3>12. QED
      BY <2>1, <2>2, <3>9, <3>10, <3>11, BatchFrame DEF IInv
  <2>5. CASE ~(status[b] # "DELETED" /\ ~Stale(c) /\ calls[c].answer = "suggested")
    <3>1. UNCHANGED <<attempts, revision>>
      BY <1>4, <2>5 DEF RecordSuggestion
    <3>2. calls'[c] = None /\ \A d \in Caller : d # c => calls'[d] = calls[d]
      BY <2>1, <2>2 DEF TypeOK
    <3>3. QED
      BY <2>1, <2>2, <3>1, <3>2, CallFrame
  <2>6. QED
    BY <2>4, <2>5
<1>5. QED
  BY <1>1, <1>2, <1>3, <1>4

-----------------------------------------------------------------------------
(* Staging, duplicate release and the process *)

LEMMA ServerInductive ==
  ASSUME IInv
  PROVE  /\ \A pending \in BOOLEAN : FinishStage(pending) => IInv'
         /\ FailStage \/ AbandonStage => IInv'
         /\ \A S \in SUBSET Batch : \A T \in SUBSET S : ReleaseDuplicates(S, T) => IInv'
         /\ Crash => IInv'
         /\ Restart => IInv'
         /\ UNCHANGED vars \/ RequestAges \/ (\E b \in Batch : Vanish(b)) => IInv'
<1>0. TypeOK
  BY DEF IInv
<1> USE NoneAssumption DEF IInv, TypeOK, Status, DraftStatus, Terminal,
        RefreshedStatus, mappingVars, MappingRevision, MayWrite, Rows, Job
<1>1. ASSUME NEW pending \in BOOLEAN, FinishStage(pending) PROVE IInv'
  <2>1. TypeOK'
    <3> HIDE DEF IInv, TypeOK
    <3>1. QED
      BY <1>0, <1>1, ServerType
  <2>2. UnopenedIsBlank'
    BY <1>1 DEF FinishStage, Bump, UnopenedIsBlank, StagingHoldsTheBatch
  <2>3. JobIsMapped'
    BY <1>1 DEF FinishStage, Bump, JobIsMapped
  <2>4. StagingHoldsTheBatch'
    BY <1>1 DEF FinishStage, Bump, StagingHoldsTheBatch
  <2>5. MappingFitsInspection'
    BY <1>1 DEF FinishStage, Bump, MappingFitsInspection
  <2>6. StagedRowsFitInspection'
    <3> DEFINE b == job.batch
    <3>1. /\ b \in Batch /\ job # None
          /\ staged' = [staged EXCEPT ![b] = [mapping |-> job.mapping,
                         structure |-> structure[b], pending |-> pending]]
          /\ UNCHANGED <<structure, plans, origin>>
      BY <1>1 DEF FinishStage
    <3>2. /\ origin[b] # None /\ job.mapping = Len(plans[b])
          /\ Len(plans[b]) > 0
          /\ plans[b][Len(plans[b])].structure = structure[b]
      BY <3>1 DEF JobIsMapped, StagingHoldsTheBatch, MappingFitsInspection
    <3>3. Len(plans[b]) \in 1..Len(plans[b])
      <4>1. plans[b] \in Seq(Snapshot)
        BY <3>1
      <4>2. QED
        BY <4>1, <3>2
    <3>4. staged'[b].mapping = Len(plans[b]) /\ staged'[b].structure = structure[b]
      BY <3>1, <3>2
    <3>5. \A d \in Batch : d # b => staged'[d] = staged[d]
      BY <3>1
    <3> HIDE DEF b
    <3>6. QED
      BY <3>1, <3>2, <3>3, <3>4, <3>5 DEF StagedRowsFitInspection
  <2>7. LlmOriginIsGenuine'
    BY <1>1, LlmFrame DEF FinishStage
  <2>8. SuggestionsAreFresh'
    BY <1>1, <2>1, FreshFrame DEF FinishStage, Bump, StagingHoldsTheBatch, UnopenedIsBlank
  <2>9. ReviewStatusIsCurrent'
    BY <1>1 DEF FinishStage, Bump, ReviewStatusIsCurrent, StagingHoldsTheBatch
  <2>10. QED
    BY <2>1, <2>2, <2>3, <2>4, <2>5, <2>6, <2>7, <2>8, <2>9
<1>2. ASSUME FailStage \/ AbandonStage PROVE IInv'
  <2>1. TypeOK'
    <3> HIDE DEF IInv, TypeOK
    <3>1. QED
      BY <1>0, <1>2, ServerType
  <2>2. UnopenedIsBlank'
    BY <1>2 DEF FailStage, AbandonStage, Bump, UnopenedIsBlank, StagingHoldsTheBatch
  <2>3. JobIsMapped'
    BY <1>2 DEF FailStage, AbandonStage, Bump, JobIsMapped
  <2>4. StagingHoldsTheBatch'
    BY <1>2 DEF FailStage, AbandonStage, Bump, StagingHoldsTheBatch
  <2>5. MappingFitsInspection'
    BY <1>2 DEF FailStage, AbandonStage, Bump, MappingFitsInspection
  <2>6. StagedRowsFitInspection'
    <3>1. CASE FailStage
      BY <3>1 DEF FailStage, Bump, StagedRowsFitInspection
    <3>2. CASE AbandonStage
      BY <3>2 DEF AbandonStage, Bump, StagedRowsFitInspection
    <3>3. QED
      BY <1>2, <3>1, <3>2
  <2>7. LlmOriginIsGenuine'
    BY <1>2, LlmFrame DEF FailStage, AbandonStage
  <2>8. SuggestionsAreFresh'
    <3>1. CASE FailStage
      <4>1. job.batch \in Batch /\ UNCHANGED <<structure, calls, attempts>>
            /\ status' = [status EXCEPT ![job.batch] = "AWAITING_MAPPING"]
            /\ revision' = [revision EXCEPT ![job.batch] = @ + 1]
        BY <3>1 DEF FailStage, Bump
      <4>2. revision'[job.batch] > revision[job.batch]
        BY <4>1
      <4>3. \A d \in Batch \ {job.batch} : revision'[d] = revision[d] /\ status'[d] = status[d]
        BY <4>1
      <4>4. revision' \in [Batch -> Nat] /\ SuggestionsAreFresh
        BY <2>1
      <4> HIDE DEF IInv, TypeOK
      <4>5. QED
        BY <1>0, <4>1, <4>2, <4>3, <4>4, FreshFrame
    <3>2. CASE AbandonStage
      <4>1. UNCHANGED <<status, revision, structure, calls, attempts>>
        BY <3>2 DEF AbandonStage
      <4>2. QED
        BY <4>1 DEF SuggestionsAreFresh
    <3>3. QED
      BY <1>2, <3>1, <3>2
  <2>9. ReviewStatusIsCurrent'
    BY <1>2 DEF FailStage, AbandonStage, Bump, ReviewStatusIsCurrent, StagingHoldsTheBatch
  <2>10. QED
    BY <2>1, <2>2, <2>3, <2>4, <2>5, <2>6, <2>7, <2>8, <2>9
<1>3. ASSUME NEW S \in SUBSET Batch, NEW T \in SUBSET S, ReleaseDuplicates(S, T) PROVE IInv'
  <2>1. TypeOK'
    <3> HIDE DEF IInv, TypeOK
    <3>1. QED
      BY <1>0, <1>3, ServerType
  <2>2. UnopenedIsBlank'
    BY <1>3 DEF ReleaseDuplicates, UnopenedIsBlank
  <2>3. JobIsMapped'
    BY <1>3 DEF ReleaseDuplicates, JobIsMapped, UnopenedIsBlank
  <2>4. StagingHoldsTheBatch'
    BY <1>3 DEF ReleaseDuplicates, StagingHoldsTheBatch, UnopenedIsBlank
  <2>5. MappingFitsInspection'
    BY <1>3 DEF ReleaseDuplicates, MappingFitsInspection
  <2>6. StagedRowsFitInspection'
    BY <1>3 DEF ReleaseDuplicates, StagedRowsFitInspection
  <2>7. LlmOriginIsGenuine'
    BY <1>3, LlmFrame DEF ReleaseDuplicates
  <2>8. SuggestionsAreFresh'
    BY <1>3, <2>1, FreshFrame DEF ReleaseDuplicates, StagingHoldsTheBatch, UnopenedIsBlank
  <2>9. ReviewStatusIsCurrent'
    <3>1. ASSUME NEW d \in Batch, d \in T PROVE staged'[d] # None /\ staged'[d].pending
      <4>1. staged[d] \in Rows /\ staged'[d] = [staged[d] EXCEPT !.pending = TRUE]
        BY <1>3, <3>1 DEF ReleaseDuplicates
      <4>2. staged'[d] \in Rows /\ staged'[d].pending
        BY <4>1
      <4>3. QED
        BY <4>2
    <3>2. ASSUME NEW d \in Batch, d \notin T PROVE staged'[d] = staged[d]
      BY <1>3, <3>2 DEF ReleaseDuplicates
    <3>3. ASSUME NEW d \in Batch, d \in S, status[d] \notin {"COMMITTED", "DELETED"}
          PROVE  /\ staged[d] # None
                 /\ status'[d] = RefreshedStatus(d \in T \/ staged[d].pending)
      BY <1>3, <3>3 DEF ReleaseDuplicates
    <3>4. ASSUME NEW d \in Batch, d \notin S \/ status[d] \in {"COMMITTED", "DELETED"}
          PROVE  status'[d] = status[d]
      BY <1>3, <3>4 DEF ReleaseDuplicates
    <3>5. QED
      BY <3>1, <3>2, <3>3, <3>4 DEF ReviewStatusIsCurrent
  <2>10. QED
    BY <2>1, <2>2, <2>3, <2>4, <2>5, <2>6, <2>7, <2>8, <2>9
<1>4. ASSUME Crash PROVE IInv'
  <2>1. TypeOK'
    <3> HIDE DEF IInv, TypeOK
    <3>1. QED
      BY <1>0, <1>4, ServerType
  <2>2. UnopenedIsBlank'
    BY <1>4 DEF Crash, UnopenedIsBlank
  <2>3. JobIsMapped'
    BY <1>4 DEF Crash, JobIsMapped
  <2>4. StagingHoldsTheBatch'
    BY <1>4 DEF Crash, StagingHoldsTheBatch
  <2>5. MappingFitsInspection'
    BY <1>4 DEF Crash, MappingFitsInspection
  <2>6. StagedRowsFitInspection'
    BY <1>4 DEF Crash, StagedRowsFitInspection
  <2>7. LlmOriginIsGenuine'
    BY <1>4, LlmFrame DEF Crash
  <2>8. SuggestionsAreFresh'
    BY <1>4 DEF Crash, SuggestionsAreFresh
  <2>9. ReviewStatusIsCurrent'
    BY <1>4 DEF Crash, ReviewStatusIsCurrent, StagingHoldsTheBatch
  <2>10. QED
    BY <2>1, <2>2, <2>3, <2>4, <2>5, <2>6, <2>7, <2>8, <2>9
<1>5. ASSUME Restart PROVE IInv'
  <2>1. TypeOK'
    <3> HIDE DEF IInv, TypeOK
    <3>1. QED
      BY <1>0, <1>5, ServerType
  <2>2. UnopenedIsBlank'
    BY <1>5 DEF Restart, UnopenedIsBlank
  <2>3. JobIsMapped'
    BY <1>5 DEF Restart, JobIsMapped
  <2>4. StagingHoldsTheBatch'
    BY <1>5 DEF Restart, StagingHoldsTheBatch
  <2>5. MappingFitsInspection'
    BY <1>5 DEF Restart, MappingFitsInspection
  <2>6. StagedRowsFitInspection'
    BY <1>5 DEF Restart, StagedRowsFitInspection
  <2>7. LlmOriginIsGenuine'
    BY <1>5, LlmFrame DEF Restart
  <2>8. SuggestionsAreFresh'
    BY <1>5, <2>1, FreshFrame DEF Restart, StagingHoldsTheBatch, UnopenedIsBlank
  <2>9. ReviewStatusIsCurrent'
    BY <1>5 DEF Restart, ReviewStatusIsCurrent, StagingHoldsTheBatch
  <2>10. QED
    BY <2>1, <2>2, <2>3, <2>4, <2>5, <2>6, <2>7, <2>8, <2>9
<1>6. ASSUME UNCHANGED vars \/ RequestAges \/ \E b \in Batch : Vanish(b) PROVE IInv'
  <2>1. TypeOK'
    <3> HIDE DEF IInv, TypeOK
    <3>1. QED
      BY <1>0, <1>6, ServerType
  <2>2. /\ UNCHANGED <<up, status, revision, structure, origin, plans, staged, attempts,
                      calls, job>>
        /\ lost \subseteq lost'
    BY <1>6 DEF vars, RequestAges, Vanish
  <2>3. SuggestionsAreFresh'
    BY <2>2 DEF SuggestionsAreFresh
  <2>4. QED
    BY <2>1, <2>2, <2>3, LlmFrame, BatchFrame
<1>7. QED
  BY <1>1, <1>2, <1>3, <1>4, <1>5, <1>6

-----------------------------------------------------------------------------
(* The invariant and what follows from it *)

LEMMA InitInductive == Init => IInv
  BY InitType DEF Init, IInv, UnopenedIsBlank, JobIsMapped, StagingHoldsTheBatch,
     MappingFitsInspection, StagedRowsFitInspection, LlmOriginIsGenuine,
     SuggestionsAreFresh, ReviewStatusIsCurrent

LEMMA NextInductive == IInv /\ [Next]_vars => IInv'
  BY RequestsInductive, ConfirmInductive, SuggestionInductive, ServerInductive DEF Next

\* The inductive invariant holds in every reachable state.
THEOREM Inductive == Spec => []IInv
  BY InitInductive, NextInductive, PTL DEF Spec

\* Between the two staging transactions no request, suggestion or duplicate
\* release touches the batch, which is the reason why the second one never
\* finds it changed (stage).
THEOREM StagingIsExclusive == Spec => []StagingHoldsTheBatch
<1>1. IInv => StagingHoldsTheBatch
  BY DEF IInv
<1>2. QED
  BY <1>1, Inductive, PTL

\* A batch that can be staged has a mapping validated against its inspection
\* (confirm_mapping, update_inspection).
THEOREM MappingMatchesInspection == Spec => []MappingFitsInspection
<1>1. IInv => MappingFitsInspection
  BY DEF IInv
<1>2. QED
  BY <1>1, Inductive, PTL

\* The rows of an uploaded file were read under the inspection the batch has,
\* by a plan confirmed for it (stage, update_inspection).
THEOREM StagedRowsMatchInspection == Spec => []StagedRowsFitInspection
<1>1. IInv => StagedRowsFitInspection
  BY DEF IInv
<1>2. QED
  BY <1>1, Inductive, PTL

\* The LLM_CONFIRMED origin is given to the model's own proposals for the
\* current inspection only, however suggestion calls overlap with other
\* requests (_is_current_suggestion, record_suggestion).
THEOREM LlmProvenance == Spec => [](LlmOriginIsGenuine /\ SuggestionsAreFresh)
<1>1. IInv => LlmOriginIsGenuine /\ SuggestionsAreFresh
  BY DEF IInv
<1>2. QED
  BY <1>1, Inductive, PTL

\* READY is never left standing over a PENDING row (_refresh_batch_status).
THEOREM ReviewStatusHolds == Spec => []ReviewStatusIsCurrent
<1>1. IInv => ReviewStatusIsCurrent
  BY DEF IInv
<1>2. QED
  BY <1>1, Inductive, PTL

-----------------------------------------------------------------------------
(* What a step may never do *)

Final(b) ==
  /\ status'[b] = status[b]
  /\ revision'[b] = revision[b]
  /\ structure'[b] = structure[b]
  /\ plans'[b] = plans[b]
  /\ attempts'[b] = attempts[b]

LEMMA StepIsFinal ==
  ASSUME IInv, Next, NEW b \in Batch, status[b] \in Terminal
  PROVE  Final(b)
<1> USE DEF TypeOK, Terminal, DraftStatus, Final, Bump, Mutable, mappingVars, Job
<1>1. TypeOK /\ StagingHoldsTheBatch /\ SuggestionsAreFresh /\ UnopenedIsBlank
  BY DEF IInv
<1>2. ASSUME NEW d \in Batch,
             \/ \E f \in File : Upload(d, f)
             \/ \E pending \in BOOLEAN : CreateManual(d, pending)
             \/ \E s \in Structure : UpdateInspection(d, s)
             \/ BeginStage(d)
             \/ \E pending \in BOOLEAN : PatchRows(d, pending)
             \/ Commit(d)
             \/ \E pending \in BOOLEAN : CommitFindsDuplicate(d, pending)
             \/ DeleteBatch(d)
      PROVE  Final(b)
  BY <1>1, <1>2 DEF Upload, CreateManual, UpdateInspection, BeginStage, PatchRows,
     Commit, CommitFindsDuplicate, DeleteBatch
<1>3. ASSUME NEW d \in Batch, NEW p \in Plan, NEW t \in Template \cup {None},
             Confirm(d, p, t)
      PROVE  Final(b)
  <2>1. /\ d # b
        /\ UNCHANGED <<structure, attempts>>
        /\ status' = [status EXCEPT ![d] = "AWAITING_MAPPING"]
        /\ revision' = [revision EXCEPT ![d] = @ + 1]
        /\ \E q : plans' = [plans EXCEPT ![d] = q]
    BY <1>3 DEF Confirm
  <2>2. QED
    BY <1>1, <2>1
<1>4. ASSUME NEW c \in Caller,
             \/ \E d \in Batch : RequestSuggestion(c, d)
             \/ \E p \in Plan : ReceiveSuggestion(c, p)
             \/ SuggestionFails(c)
      PROVE  Final(b)
  BY <1>4 DEF RequestSuggestion, ReceiveSuggestion, SuggestionFails
<1>5. ASSUME NEW c \in Caller, RecordSuggestion(c) PROVE Final(b)
  <2>1. UNCHANGED <<status, structure, plans>>
    BY <1>5 DEF RecordSuggestion
  <2>2. CASE UNCHANGED <<attempts, revision>>
    BY <2>1, <2>2
  <2>3. CASE ~UNCHANGED <<attempts, revision>>
    <3>1. /\ calls[c] # None
          /\ status[calls[c].batch] # "DELETED"
          /\ calls[c].revision = revision[calls[c].batch]
          /\ revision' = [revision EXCEPT ![calls[c].batch] = @ + 1]
          /\ \E q : attempts' = [attempts EXCEPT ![calls[c].batch] = q]
      BY <1>5, <2>3 DEF RecordSuggestion, Stale
    <3>2. status[calls[c].batch] \in DraftStatus
      BY <1>1, <3>1 DEF SuggestionsAreFresh
    <3>3. calls[c].batch # b
      BY <3>2
    <3>4. QED
      BY <1>1, <2>1, <3>1, <3>3
  <2>4. QED
    BY <2>2, <2>3
<1>6. ASSUME (\E pending \in BOOLEAN : FinishStage(pending)) \/ FailStage \/ AbandonStage
      PROVE  Final(b)
  <2>1. job # None /\ status[job.batch] = "STAGING"
    BY <1>1, <1>6 DEF FinishStage, FailStage, AbandonStage, StagingHoldsTheBatch
  <2>2. QED
    BY <1>1, <1>6, <2>1 DEF FinishStage, FailStage, AbandonStage
<1>7. ASSUME NEW S \in SUBSET Batch, NEW T \in SUBSET S, ReleaseDuplicates(S, T)
      PROVE  Final(b)
  BY <1>1, <1>7 DEF ReleaseDuplicates, UnopenedIsBlank
<1>8. ASSUME Crash \/ Restart \/ RequestAges \/ \E d \in Batch : Vanish(d) PROVE Final(b)
  BY <1>8 DEF Crash, Restart, RequestAges, Vanish
<1>9. QED
  BY <1>2, <1>3, <1>4, <1>5, <1>6, <1>7, <1>8 DEF Next

\* A COMMITTED, FAILED or DELETED batch keeps its status, revision, inspection
\* and mappings whatever request, late suggestion, duplicate release or restart
\* follows (_mutable, record_suggestion, recover_staging, delete_transaction).
THEOREM TerminalForGood == Spec => TerminalIsFinal
<1>1. IInv /\ [Next]_vars =>
        [\A b \in Batch : status[b] \in Terminal =>
           /\ status'[b] = status[b]
           /\ revision'[b] = revision[b]
           /\ structure'[b] = structure[b]
           /\ plans'[b] = plans[b]
           /\ attempts'[b] = attempts[b]]_vars
  BY StepIsFinal DEF Final
<1>2. QED
  BY <1>1, Inductive, PTL DEF Spec, TerminalIsFinal

-----------------------------------------------------------------------------
(* The limiter *)

\* A request that starts to wait adds itself to those waiting, one that ends
\* its wait leaves them.
LEMMA WaitingMoves ==
  ASSUME TypeOK, NEW c \in Caller,
         \A d \in Caller : d # c => calls'[d] = calls[d]
  PROVE  /\ calls'[c] # None /\ calls'[c].answer = "waiting" => Waiting' = Waiting \cup {c}
         /\ calls'[c] # None /\ calls'[c].answer # "waiting" => Waiting' = Waiting \ {c}
         /\ calls'[c] = None => Waiting' = Waiting \ {c}
  BY DEF Waiting

LEMMA SlotsInit == Init => SlotsAreHeld
<1>1. ASSUME Init PROVE Waiting = {} /\ slots = 0
  BY <1>1 DEF Init, Waiting
<1>2. QED
  BY <1>1, LimitAssumption, FS_EmptySet DEF SlotsAreHeld

LEMMA SlotsKept == TypeOK /\ SlotsAreHeld /\ [Next]_vars => SlotsAreHeld'
<1> SUFFICES ASSUME TypeOK, SlotsAreHeld, [Next]_vars PROVE SlotsAreHeld'
  OBVIOUS
<1>1. IsFiniteSet(Waiting)
  BY CallerAssumption, FS_Subset DEF Waiting
<1>2. Cardinality(Waiting) \in Nat /\ MaxConcurrent \in Nat
  BY <1>1, LimitAssumption, FS_CardinalityType
<1>3. ASSUME UNCHANGED <<calls, slots>> PROVE SlotsAreHeld'
  BY <1>3 DEF SlotsAreHeld, Waiting
<1>4. ASSUME NEW c \in Caller, NEW b \in Batch, RequestSuggestion(c, b) PROVE SlotsAreHeld'
  <2>1. PICK answer \in {"waiting", "fallback"} :
          /\ calls' = [calls EXCEPT ![c] =
                         [batch |-> b, revision |-> revision[b], structure |-> structure[b],
                          answer |-> answer, plan |-> None]]
          /\ IF answer = "waiting" THEN TakeSlot ELSE UNCHANGED limiter
    BY <1>4 DEF RequestSuggestion
  <2>2. /\ calls'[c].answer = answer
        /\ calls'[c] # None
        /\ \A d \in Caller : d # c => calls'[d] = calls[d]
    <3>1. calls'[c] \in Call
      <4>1. revision[b] \in Nat /\ structure[b] \in Structure
        BY <1>4 DEF RequestSuggestion, TypeOK
      <4>2. QED
        BY <2>1, <4>1 DEF TypeOK, Call
    <3>2. QED
      BY <2>1, <3>1, NoneAssumption DEF TypeOK
  <2>3. c \notin Waiting
    BY <1>4 DEF RequestSuggestion, Waiting
  <2>4. CASE answer = "waiting"
    <3>1. Waiting' = Waiting \cup {c}
      BY <2>2, <2>4, WaitingMoves
    <3>2. Cardinality(Waiting') = Cardinality(Waiting) + 1
      BY <1>1, <2>3, <3>1, FS_AddElement
    <3>3. QED
      BY <1>2, <2>1, <2>4, <3>2 DEF SlotsAreHeld, TakeSlot
  <2>5. CASE answer = "fallback"
    <3>1. Waiting' = Waiting \ {c}
      BY <2>2, <2>5, WaitingMoves
    <3>2. Waiting' = Waiting
      BY <2>3, <3>1
    <3>3. QED
      BY <2>1, <2>5, <3>2 DEF SlotsAreHeld, limiter
  <2>6. QED
    BY <2>4, <2>5
<1>5. ASSUME NEW c \in Caller,
             SuggestionFails(c) \/ \E p \in Plan : ReceiveSuggestion(c, p)
      PROVE  SlotsAreHeld'
  <2>1. /\ c \in Waiting
        /\ ReleaseSlot
        /\ calls[c] \in Call /\ calls[c] # None
    BY <1>5 DEF SuggestionFails, ReceiveSuggestion, Waiting, TypeOK
  <2>2. /\ calls'[c].answer # "waiting"
        /\ \A d \in Caller : d # c => calls'[d] = calls[d]
    <3>1. CASE SuggestionFails(c)
      BY <2>1, <3>1 DEF SuggestionFails, TypeOK, Call
    <3>2. ASSUME NEW p \in Plan, ReceiveSuggestion(c, p)
          PROVE  calls'[c].answer # "waiting" /\ \A d \in Caller : d # c => calls'[d] = calls[d]
      BY <2>1, <3>2 DEF ReceiveSuggestion, TypeOK, Call
    <3>3. QED
      BY <1>5, <3>1, <3>2 DEF SuggestionFails, TypeOK
  <2>3. Waiting' = Waiting \ {c}
    BY <2>2, WaitingMoves
  <2>4. Cardinality(Waiting') = Cardinality(Waiting) - 1
    BY <1>1, <2>1, <2>3, FS_RemoveElement
  <2>5. QED
    BY <1>2, <2>1, <2>4 DEF SlotsAreHeld, ReleaseSlot
<1>6. ASSUME NEW c \in Caller, RecordSuggestion(c) PROVE SlotsAreHeld'
  <2>1. c \notin Waiting /\ calls'[c] = None /\ UNCHANGED limiter
    BY <1>6 DEF RecordSuggestion, Waiting, TypeOK, limiter
  <2>2. \A d \in Caller : d # c => calls'[d] = calls[d]
    BY <1>6 DEF RecordSuggestion, TypeOK
  <2>3. Waiting' = Waiting
    BY <2>1, <2>2, WaitingMoves
  <2>4. QED
    BY <2>1, <2>3 DEF SlotsAreHeld, limiter
<1>7. ASSUME Crash PROVE SlotsAreHeld'
  <2>1. Waiting' = {} /\ slots' = 0
    BY <1>7 DEF Crash, Waiting
  <2>2. QED
    BY <1>2, <2>1, FS_EmptySet DEF SlotsAreHeld
<1>8. ASSUME NEW b \in Batch,
             \/ \E f \in File : Upload(b, f)
             \/ \E pending \in BOOLEAN : CreateManual(b, pending)
             \/ \E s \in Structure : UpdateInspection(b, s)
             \/ \E p \in Plan, t \in Template \cup {None} : Confirm(b, p, t)
             \/ BeginStage(b)
             \/ \E pending \in BOOLEAN : PatchRows(b, pending)
             \/ Commit(b)
             \/ \E pending \in BOOLEAN : CommitFindsDuplicate(b, pending)
             \/ DeleteBatch(b)
      PROVE  UNCHANGED <<calls, slots>>
  BY <1>8 DEF Upload, CreateManual, UpdateInspection, Confirm, BeginStage, PatchRows,
     Commit, CommitFindsDuplicate, DeleteBatch, limiter
<1>9. ASSUME \/ \E pending \in BOOLEAN : FinishStage(pending)
             \/ FailStage \/ AbandonStage \/ RequestAges \/ Restart \/ UNCHANGED vars
             \/ \E S \in SUBSET Batch : \E T \in SUBSET S : ReleaseDuplicates(S, T)
             \/ \E b \in Batch : Vanish(b)
      PROVE  UNCHANGED <<calls, slots>>
  BY <1>9 DEF FinishStage, FailStage, AbandonStage, RequestAges, Vanish, Restart, ReleaseDuplicates,
     limiter, vars
<1>10. QED
  BY <1>3, <1>4, <1>5, <1>6, <1>7, <1>8, <1>9 DEF Next

\* However many suggestion requests overlap, fail or time out, and whatever
\* limit is configured: the slots taken from the limiter are those of the
\* requests that wait for the model, and never more than the limit
\* (InMemoryMappingLimiter.acquire).
THEOREM SlotsMatchCalls == Spec => []SlotsAreHeld
  BY SlotsInit, SlotsKept, TypeCorrect, PTL DEF Spec

\* What a step that keeps the revision of a batch leaves alone
Kept(b) ==
  revision'[b] = revision[b] =>
    /\ plans'[b] = plans[b]
    /\ origin'[b] = origin[b]
    /\ structure'[b] = structure[b] \/ status[b] = "ABSENT"
    /\ (staged'[b] = None) = (staged[b] = None) \/ status[b] = "ABSENT"
    /\ staged[b] # None => staged'[b].mapping = staged[b].mapping

LEMMA StepKeeps ==
  ASSUME IInv, [Next]_vars, NEW b \in Batch
  PROVE  Kept(b)
<1>1. TypeOK /\ UnopenedIsBlank /\ StagingHoldsTheBatch
  BY DEF IInv
<1>2. /\ revision \in [Batch -> Nat] /\ staged \in [Batch -> Rows \cup {None}]
      /\ status \in [Batch -> Status] /\ structure \in [Batch -> Structure \cup {None}]
      /\ origin \in [Batch -> Origin \cup {None}]
      /\ \A r \in Rows :
           /\ r # None
           /\ \A pending : [r EXCEPT !.pending = pending].mapping = r.mapping
           /\ \A pending \in BOOLEAN : [r EXCEPT !.pending = pending] \in Rows
  BY <1>1, NoneAssumption DEF TypeOK, Rows
\* A request for another batch, or one that bumps the revision
<1>3. ASSUME NEW d \in Batch, revision' = [revision EXCEPT ![d] = @ + 1],
             \A o \in Batch : o # d => /\ plans'[o] = plans[o] /\ origin'[o] = origin[o]
                                       /\ structure'[o] = structure[o] /\ staged'[o] = staged[o]
      PROVE  Kept(b)
  BY <1>2, <1>3 DEF Kept
<1>4. ASSUME UNCHANGED <<plans, origin, structure, staged>> PROVE Kept(b)
  BY <1>4 DEF Kept
<1>5. ASSUME NEW d \in Batch, NEW f \in File, Upload(d, f) PROVE Kept(b)
  BY <1>1, <1>5 DEF Upload, Kept, TypeOK
<1>6. ASSUME NEW d \in Batch, NEW pending \in BOOLEAN, CreateManual(d, pending) PROVE Kept(b)
  BY <1>1, <1>6 DEF CreateManual, Kept, TypeOK, UnopenedIsBlank, mappingVars
<1>7. ASSUME NEW d \in Batch, NEW s \in Structure, UpdateInspection(d, s) PROVE Kept(b)
  BY <1>2, <1>3, <1>7 DEF UpdateInspection, Bump
<1>8. ASSUME NEW d \in Batch, NEW p, NEW t, Confirm(d, p, t) PROVE Kept(b)
  <2>1. /\ \E q : plans' = [plans EXCEPT ![d] = q]
        /\ \E o : origin' = [origin EXCEPT ![d] = o]
        /\ UNCHANGED <<structure, staged>>
        /\ revision' = [revision EXCEPT ![d] = @ + 1]
    BY <1>8 DEF Confirm, Bump
  <2>2. \A o \in Batch : o # d => plans'[o] = plans[o] /\ origin'[o] = origin[o]
    BY <1>1, <2>1 DEF TypeOK
  <2>3. QED
    BY <1>3, <2>1, <2>2
<1>9. ASSUME NEW d \in Batch, BeginStage(d) \/ Commit(d) \/ DeleteBatch(d) PROVE Kept(b)
  BY <1>4, <1>9 DEF BeginStage, Commit, DeleteBatch, mappingVars
<1>10. ASSUME NEW d \in Batch, NEW pending \in BOOLEAN, PatchRows(d, pending) PROVE Kept(b)
  BY <1>2, <1>3, <1>10 DEF PatchRows, Bump, mappingVars
<1>11. ASSUME NEW d \in Batch, NEW pending \in BOOLEAN, CommitFindsDuplicate(d, pending)
       PROVE  Kept(b)
  <2>1. /\ staged[d] \in Rows /\ UNCHANGED <<plans, origin, structure>>
        /\ staged' = [staged EXCEPT ![d] = [staged[d] EXCEPT !.pending = pending]]
    BY <1>2, <1>11 DEF CommitFindsDuplicate, mappingVars
  <2>2. /\ staged'[d] \in Rows /\ staged'[d].mapping = staged[d].mapping
        /\ \A o \in Batch : o # d => staged'[o] = staged[o]
    BY <1>2, <2>1
  <2>3. QED
    BY <1>2, <2>1, <2>2 DEF Kept
<1>12. ASSUME NEW c \in Caller,
              \/ \E d \in Batch : RequestSuggestion(c, d)
              \/ \E p \in Plan : ReceiveSuggestion(c, p)
              \/ SuggestionFails(c) \/ RecordSuggestion(c)
       PROVE  Kept(b)
  BY <1>4, <1>12 DEF RequestSuggestion, ReceiveSuggestion, SuggestionFails, RecordSuggestion,
     mappingVars
<1>13. ASSUME NEW pending \in BOOLEAN, FinishStage(pending) PROVE Kept(b)
  <2>1. job.batch \in Batch
    BY <1>1, <1>13 DEF FinishStage, TypeOK, Job
  <2>2. QED
    BY <1>2, <1>3, <1>13, <2>1 DEF FinishStage, Bump, mappingVars
<1>14. ASSUME \/ FailStage \/ AbandonStage \/ Crash \/ RequestAges \/ UNCHANGED vars
              \/ \E d \in Batch : Vanish(d)
       PROVE  Kept(b)
  BY <1>4, <1>14 DEF FailStage, AbandonStage, Crash, RequestAges, Vanish, vars, mappingVars
<1>15. ASSUME NEW S \in SUBSET Batch, NEW T \in SUBSET S, ReleaseDuplicates(S, T) PROVE Kept(b)
  <2>1. /\ UNCHANGED <<plans, origin, structure>>
        /\ staged'[b] = IF b \in T THEN [staged[b] EXCEPT !.pending = TRUE] ELSE staged[b]
        /\ b \in T => staged[b] # None
    BY <1>15 DEF ReleaseDuplicates, mappingVars
  <2>2. staged[b] # None => /\ staged'[b] # None
                            /\ staged'[b].mapping = staged[b].mapping
    <3>1. CASE staged[b] = None
      BY <3>1
    <3>2. CASE staged[b] \in Rows
      <4>1. [staged[b] EXCEPT !.pending = TRUE] \in Rows
            /\ [staged[b] EXCEPT !.pending = TRUE].mapping = staged[b].mapping
        BY <1>2, <3>2
      <4>2. QED
        BY <1>2, <2>1, <3>2, <4>1
    <3>3. QED
      BY <1>2, <3>1, <3>2
  <2>3. QED
    BY <2>1, <2>2 DEF Kept
<1>16. ASSUME Restart PROVE Kept(b)
  BY <1>2, <1>16 DEF Restart, Kept, mappingVars
<1>17. QED
  BY <1>5, <1>6, <1>7, <1>8, <1>9, <1>10, <1>11, <1>12, <1>13, <1>14, <1>15, <1>16 DEF Next

\* No mapping, inspection or set of staged rows changes under a revision that a
\* client has loaded (_require_revision in every request of the batch).
THEOREM MappingsAreVersioned == Spec => RevisionCoversMapping
<1>1. IInv /\ [Next]_vars =>
        [\A b \in Batch :
           revision'[b] = revision[b] =>
             /\ plans'[b] = plans[b]
             /\ origin'[b] = origin[b]
             /\ structure'[b] = structure[b] \/ status[b] = "ABSENT"
             /\ (staged'[b] = None) = (staged[b] = None) \/ status[b] = "ABSENT"
             /\ staged[b] # None => staged'[b].mapping = staged[b].mapping]_vars
  BY StepKeeps DEF Kept
<1>2. QED
  BY <1>1, Inductive, PTL DEF Spec, RevisionCoversMapping

-----------------------------------------------------------------------------
(* The refinement of ImportContract *)

\* What a batch makes of the file it names
SlotBy(b) ==
  IF status[b] \in {"ABSENT", "DELETED"} THEN "free"
  ELSE IF status[b] = "COMMITTED" THEN "committed"
  ELSE IF status[b] = "FAILED" THEN "rejected"
  ELSE "draft"

OneHolder == \A f \in File, b, d \in Batch : Holds(b, f) /\ Holds(d, f) => b = d

\* A batch names no file before it exists; it fails only for a file that cannot
\* be read, and a draft names none of those.
FilesFit ==
  \A b \in Batch :
    /\ status[b] = "ABSENT" => file[b] = None
    /\ status[b] = "FAILED" => file[b] \in File \ Readable
    /\ status[b] \in DraftStatus => file[b] \in Readable \cup {None}

FilesInv == OneHolder /\ FilesFit

LEMMA SlotIs ==
  OneHolder => \A f \in File :
    /\ \A b \in Batch : Holds(b, f) => SlotOf(f) = SlotBy(b)
    /\ (\A b \in Batch : ~Holds(b, f)) => SlotOf(f) = "free"
<1> SUFFICES ASSUME OneHolder, NEW f \in File
             PROVE  /\ \A b \in Batch : Holds(b, f) => SlotOf(f) = SlotBy(b)
                    /\ (\A b \in Batch : ~Holds(b, f)) => SlotOf(f) = "free"
  OBVIOUS
<1>1. ~\E b, d \in Batch : b # d /\ Holds(b, f) /\ Holds(d, f)
  BY DEF OneHolder
<1>2. ASSUME NEW b \in Batch, Holds(b, f) PROVE SlotOf(f) = SlotBy(b)
  <2>1. \A d \in Batch : Holds(d, f) <=> d = b
    BY <1>2 DEF OneHolder
  <2>2. status[b] \notin {"ABSENT", "DELETED"}
    BY <1>2 DEF Holds, Live
  <2>3. QED
    BY <1>1, <2>1, <2>2 DEF SlotOf, SlotBy
<1>3. QED
  BY <1>2 DEF SlotOf

\* The same of the states a step leads to
LEMMA SlotBecomes ==
  ASSUME OneHolder', NEW f \in File
  PROVE  /\ \A b \in Batch : Holds(b, f)' => SlotOf(f)' = SlotBy(b)'
         /\ (\A b \in Batch : ~Holds(b, f)') => SlotOf(f)' = "free"
<1>1. ~\E b, d \in Batch : b # d /\ Holds(b, f)' /\ Holds(d, f)'
  BY DEF OneHolder
<1>2. ASSUME NEW b \in Batch, Holds(b, f)' PROVE SlotOf(f)' = SlotBy(b)'
  <2>1. \A d \in Batch : Holds(d, f)' <=> d = b
    BY <1>2 DEF OneHolder
  <2>2. status'[b] \notin {"ABSENT", "DELETED"}
    BY <1>2 DEF Holds, Live
  <2>3. QED
    BY <1>1, <2>1, <2>2 DEF SlotOf, SlotBy
<1>3. QED
  BY <1>2 DEF SlotOf

\* A batch goes on as it was, or is a draft that names no file.
Same(b) ==
  \/ SlotBy(b)' = SlotBy(b) /\ file'[b] = file[b]
  \/ SlotBy(b)' = "draft" /\ file[b] = None /\ file'[b] = None

Goes(b, from, to) == SlotBy(b) = from /\ SlotBy(b)' = to /\ file'[b] = file[b]

Opens(b, f) ==
  /\ SlotBy(b) = "free" /\ file[b] = None
  /\ \A d \in Batch : ~Holds(d, f)
  /\ file'[b] = f
  /\ IF f \in Readable THEN SlotBy(b)' = "draft" /\ status'[b] \in DraftStatus
     ELSE SlotBy(b)' = "rejected" /\ status'[b] = "FAILED"

\* Every step leaves the batches as they are, but for one.
LEMMA BatchMoves ==
  ASSUME IInv, FilesInv, [Next]_vars
  PROVE  \/ \A b \in Batch : Same(b)
         \/ \E b \in Batch :
              /\ \A d \in Batch : d # b => Same(d)
              /\ \/ \E f \in File : Opens(b, f)
                 \/ Goes(b, "draft", "committed")
                 \/ Goes(b, "draft", "free")
<1>1. /\ status \in [Batch -> Status] /\ file \in [Batch -> File \cup {None}]
      /\ staged \in [Batch -> Rows \cup {None}] /\ job \in Job \cup {None}
      /\ UnopenedIsBlank /\ FilesFit
  BY DEF IInv, TypeOK, FilesInv
<1>2. \A b \in Batch : status[b] \in DraftStatus <=> SlotBy(b) = "draft"
  BY <1>1 DEF Status, DraftStatus, Terminal, SlotBy
\* A draft that stays a draft, while the others keep their status
<1>3. ASSUME NEW d, NEW s \in DraftStatus, status' = [status EXCEPT ![d] = s],
             d \in Batch => status[d] \in DraftStatus, UNCHANGED file
      PROVE  \A b \in Batch : Same(b)
  <2>1. \A b \in Batch : SlotBy(b)' = SlotBy(b)
    BY <1>1, <1>3 DEF SlotBy, DraftStatus
  <2>2. QED
    BY <1>3, <2>1 DEF Same
<1>4. ASSUME UNCHANGED <<status, file>> PROVE \A b \in Batch : Same(b)
  BY <1>4 DEF Same, SlotBy
<1>5. ASSUME NEW b \in Batch, NEW f \in File, Upload(b, f)
      PROVE  Opens(b, f) /\ \A d \in Batch : d # b => Same(d)
  <2>1. /\ status[b] = "ABSENT" /\ file' = [file EXCEPT ![b] = f]
        /\ \A d \in Batch : ~Holds(d, f)
        /\ IF f \in Readable THEN status' = [status EXCEPT ![b] = "AWAITING_MAPPING"]
           ELSE status' = [status EXCEPT ![b] = "FAILED"]
    BY <1>5 DEF Upload, Holds
  <2>2. file[b] = None /\ file'[b] = f
    BY <1>1, <2>1 DEF FilesFit
  <2>3. Opens(b, f)
    BY <1>1, <2>1, <2>2 DEF Opens, SlotBy, DraftStatus
  <2>4. QED
    BY <1>1, <2>1, <2>3 DEF Same, SlotBy
<1>6. ASSUME NEW b \in Batch, NEW pending \in BOOLEAN, CreateManual(b, pending)
      PROVE  \A d \in Batch : Same(d)
  <2>1. /\ status[b] = "ABSENT" /\ UNCHANGED file
        /\ \E s \in DraftStatus : status' = [status EXCEPT ![b] = s]
    BY <1>6 DEF CreateManual, RefreshedStatus, DraftStatus
  <2>2. file[b] = None /\ SlotBy(b)' = "draft"
    BY <1>1, <2>1 DEF FilesFit, SlotBy, DraftStatus
  <2>3. QED
    BY <1>1, <2>1, <2>2 DEF Same, SlotBy
<1>7. ASSUME NEW b \in Batch, \/ \E s \in Structure : UpdateInspection(b, s)
                              \/ \E p \in Plan, t \in Template \cup {None} : Confirm(b, p, t)
                              \/ BeginStage(b)
                              \/ \E pending \in BOOLEAN : PatchRows(b, pending)
                              \/ \E pending \in BOOLEAN : CommitFindsDuplicate(b, pending)
      PROVE  \A d \in Batch : Same(d)
  <2>1. /\ status[b] \in DraftStatus /\ UNCHANGED file
        /\ \E s \in DraftStatus : status' = [status EXCEPT ![b] = s]
    BY <1>7 DEF UpdateInspection, Confirm, BeginStage, PatchRows, CommitFindsDuplicate,
       Mutable, RefreshedStatus, DraftStatus
  <2>2. QED
    BY <1>3, <2>1
<1>8. ASSUME NEW b \in Batch, Commit(b)
      PROVE  Goes(b, "draft", "committed") /\ \A d \in Batch : d # b => Same(d)
  BY <1>1, <1>8 DEF Commit, Goes, Same, SlotBy
<1>9. ASSUME NEW b \in Batch, DeleteBatch(b)
      PROVE  Goes(b, "draft", "free") /\ \A d \in Batch : d # b => Same(d)
  BY <1>1, <1>2, <1>9 DEF DeleteBatch, Goes, Same, SlotBy
<1>10. ASSUME NEW c \in Caller,
              \/ \E d \in Batch : RequestSuggestion(c, d)
              \/ \E p \in Plan : ReceiveSuggestion(c, p)
              \/ SuggestionFails(c) \/ RecordSuggestion(c)
       PROVE  \A d \in Batch : Same(d)
  BY <1>4, <1>10 DEF RequestSuggestion, ReceiveSuggestion, SuggestionFails, RecordSuggestion
<1>11. ASSUME FailStage \/ \E pending \in BOOLEAN : FinishStage(pending)
       PROVE  \A d \in Batch : Same(d)
  <2>1. /\ status[job.batch] \in DraftStatus /\ UNCHANGED file
        /\ \E s \in DraftStatus : status' = [status EXCEPT ![job.batch] = s]
    BY <1>11 DEF FailStage, FinishStage, RefreshedStatus, DraftStatus, IInv, StagingHoldsTheBatch
  <2>2. QED
    BY <1>3, <2>1
<1>12. ASSUME \/ AbandonStage \/ Crash \/ RequestAges \/ UNCHANGED vars
              \/ \E b \in Batch : Vanish(b)
       PROVE  \A d \in Batch : Same(d)
  BY <1>4, <1>12 DEF AbandonStage, Crash, RequestAges, Vanish, vars
<1>13. ASSUME NEW S \in SUBSET Batch, NEW T \in SUBSET S, ReleaseDuplicates(S, T)
       PROVE  \A d \in Batch : Same(d)
  <2>1. ASSUME NEW d \in Batch PROVE SlotBy(d)' = SlotBy(d)
    <3>1. /\ d \in S => staged[d] # None
          /\ status'[d] = IF d \in S /\ status[d] \notin {"COMMITTED", "DELETED"}
                          THEN RefreshedStatus(d \in T \/ staged[d].pending) ELSE status[d]
      BY <1>13 DEF ReleaseDuplicates
    <3>2. d \in S => status[d] \notin {"ABSENT", "FAILED"}
      BY <1>1, <3>1 DEF UnopenedIsBlank
    <3>3. QED
      BY <3>1, <3>2 DEF SlotBy, RefreshedStatus
  <2>2. QED
    BY <1>13, <2>1 DEF Same, ReleaseDuplicates
<1>14. ASSUME Restart PROVE \A d \in Batch : Same(d)
  <2>1. \A d \in Batch : SlotBy(d)' = SlotBy(d)
    BY <1>1, <1>14 DEF Restart, SlotBy
  <2>2. QED
    BY <1>14, <2>1 DEF Restart, Same
<1>15. QED
  BY <1>5, <1>6, <1>7, <1>8, <1>9, <1>10, <1>11, <1>12, <1>13, <1>14 DEF Next

\* Two batches never hold a file.
LEMMA HoldersKept ==
  ASSUME IInv, FilesInv, [Next]_vars
  PROVE  OneHolder'
<1>1. \A b \in Batch, f \in File : Holds(b, f) <=> SlotBy(b) # "free" /\ file[b] = f
  BY DEF Holds, Live, SlotBy
<1>2. \A b \in Batch, f \in File : Holds(b, f)' <=> SlotBy(b)' # "free" /\ file'[b] = f
  BY DEF Holds, Live, SlotBy
<1>3. ASSUME NEW b \in Batch, NEW f \in File, Same(b), Holds(b, f)' PROVE Holds(b, f)
  BY <1>1, <1>2, <1>3, NoneAssumption DEF Same
<1>4. ASSUME NEW b \in Batch, NEW from, NEW to, from # "free", Goes(b, from, to),
             NEW f \in File, Holds(b, f)'
      PROVE  Holds(b, f)
  BY <1>1, <1>2, <1>4 DEF Goes
<1>5. ASSUME NEW b \in Batch, NEW g \in File, Opens(b, g),
             NEW f \in File, NEW d \in Batch, d # b, Holds(b, f)', Holds(d, f)',
             \A o \in Batch : o # b => Same(o)
      PROVE  FALSE
  <2>1. f = g /\ Holds(d, f)
    BY <1>2, <1>3, <1>5 DEF Opens
  <2>2. QED
    BY <1>5, <2>1 DEF Opens
<1>6. SUFFICES ASSUME NEW f \in File, NEW b \in Batch, NEW d \in Batch,
                      Holds(b, f)', Holds(d, f)', b # d
               PROVE  FALSE
  BY DEF OneHolder
<1>7. CASE Holds(b, f) /\ Holds(d, f)
  BY <1>6, <1>7 DEF FilesInv, OneHolder
<1>8. CASE ~(Holds(b, f) /\ Holds(d, f))
  BY <1>3, <1>4, <1>5, <1>6, <1>8, BatchMoves
<1>9. QED
  BY <1>7, <1>8

\* No batch goes back to before it existed.
LEMMA BatchesStay ==
  ASSUME IInv, [Next]_vars, NEW b \in Batch, status'[b] = "ABSENT"
  PROVE  status[b] = "ABSENT"
<1>1. /\ status \in [Batch -> Status] /\ UnopenedIsBlank
      /\ job # None => job.batch \in Batch
  BY DEF IInv, TypeOK, Job
<1>2. CASE UNCHANGED status
  BY <1>2
<1>3. ASSUME NEW d \in Batch, NEW s, s # "ABSENT", status' = [status EXCEPT ![d] = s]
      PROVE  status[b] = "ABSENT"
  BY <1>1, <1>3
<1>4. ASSUME NEW d \in Batch,
             \/ \E f \in File : Upload(d, f)
             \/ \E pending \in BOOLEAN : CreateManual(d, pending)
             \/ \E s \in Structure : UpdateInspection(d, s)
             \/ \E p \in Plan, t \in Template \cup {None} : Confirm(d, p, t)
             \/ BeginStage(d)
             \/ \E pending \in BOOLEAN : PatchRows(d, pending)
             \/ Commit(d)
             \/ \E pending \in BOOLEAN : CommitFindsDuplicate(d, pending)
             \/ DeleteBatch(d)
      PROVE  status[b] = "ABSENT"
  <2>1. \E s : s # "ABSENT" /\ status' = [status EXCEPT ![d] = s]
    BY <1>4 DEF Upload, CreateManual, UpdateInspection, Confirm, BeginStage, PatchRows, Commit,
       CommitFindsDuplicate, DeleteBatch, RefreshedStatus
  <2>2. QED
    BY <1>3, <2>1
<1>5. ASSUME FailStage \/ \E pending \in BOOLEAN : FinishStage(pending)
      PROVE  status[b] = "ABSENT"
  <2>1. \E s : s # "ABSENT" /\ status' = [status EXCEPT ![job.batch] = s]
    BY <1>5 DEF FailStage, FinishStage, RefreshedStatus
  <2>2. QED
    BY <1>1, <1>3, <1>5, <2>1 DEF FailStage, FinishStage
<1>6. ASSUME NEW S \in SUBSET Batch, NEW T \in SUBSET S, ReleaseDuplicates(S, T)
      PROVE  status[b] = "ABSENT"
  BY <1>6 DEF ReleaseDuplicates, RefreshedStatus
<1>7. ASSUME Restart PROVE status[b] = "ABSENT"
  BY <1>7 DEF Restart
<1>8. QED
  BY <1>2, <1>4, <1>5, <1>6, <1>7
  DEF Next, vars, RequestSuggestion, ReceiveSuggestion, SuggestionFails, RecordSuggestion,
      AbandonStage, Crash, RequestAges, Vanish

LEMMA FilesKept ==
  ASSUME IInv, FilesInv, [Next]_vars
  PROVE  FilesFit'
<1>1. status \in [Batch -> Status] /\ FilesFit /\ OneHolder
  BY DEF IInv, TypeOK, FilesInv
<1>2. SUFFICES ASSUME NEW b \in Batch
               PROVE  /\ status'[b] = "ABSENT" => file'[b] = None
                      /\ status'[b] = "FAILED" => file'[b] \in File \ Readable
                      /\ status'[b] \in DraftStatus => file'[b] \in Readable \cup {None}
  BY DEF FilesFit
<1>3. status'[b] = "ABSENT" => file[b] = None
  BY <1>1, BatchesStay DEF FilesFit
<1>4. /\ status'[b] = "ABSENT" => SlotBy(b)' = "free"
      /\ status'[b] = "FAILED" => SlotBy(b)' = "rejected"
      /\ status'[b] \in DraftStatus => SlotBy(b)' = "draft"
      /\ SlotBy(b) = "rejected" => status[b] = "FAILED"
      /\ SlotBy(b) = "draft" => status[b] \in DraftStatus
  BY <1>1 DEF SlotBy, Status, DraftStatus, Terminal
<1>5. CASE Same(b)
  BY <1>1, <1>3, <1>4, <1>5 DEF Same, FilesFit
<1>6. CASE Goes(b, "draft", "committed") \/ Goes(b, "draft", "free")
  BY <1>1, <1>3, <1>4, <1>6 DEF Goes
<1>7. ASSUME NEW f \in File, Opens(b, f)
      PROVE  /\ status'[b] = "ABSENT" => file'[b] = None
             /\ status'[b] = "FAILED" => file'[b] \in File \ Readable
             /\ status'[b] \in DraftStatus => file'[b] \in Readable \cup {None}
  BY <1>7 DEF Opens, DraftStatus
<1>8. QED
  BY <1>5, <1>6, <1>7, BatchMoves

\* What holds a file changes only with a batch that names it.
LEMMA SlotStays ==
  ASSUME OneHolder, OneHolder', NEW f \in File,
         \A b \in Batch : Same(b) \/ (file[b] # f /\ file'[b] # f)
  PROVE  SlotOf(f)' = SlotOf(f)
<1>1. /\ \A b \in Batch : Holds(b, f) => SlotOf(f) = SlotBy(b)
      /\ (\A b \in Batch : ~Holds(b, f)) => SlotOf(f) = "free"
  BY SlotIs
<1>2. /\ \A b \in Batch : Holds(b, f)' => SlotOf(f)' = SlotBy(b)'
      /\ (\A b \in Batch : ~Holds(b, f)') => SlotOf(f)' = "free"
  BY SlotBecomes
<1>3. \A b \in Batch : /\ Holds(b, f) <=> SlotBy(b) # "free" /\ file[b] = f
                       /\ Holds(b, f)' <=> SlotBy(b)' # "free" /\ file'[b] = f
  BY DEF Holds, Live, SlotBy
<1>4. \A b \in Batch : /\ Holds(b, f) <=> Holds(b, f)'
                       /\ Holds(b, f) => SlotBy(b)' = SlotBy(b)
  BY <1>3, NoneAssumption DEF Same
<1>5. QED
  BY <1>1, <1>2, <1>4

\* Each step of a batch is one of the contract's, or leaves all files as they
\* are.
LEMMA StepsImplement ==
  ASSUME IInv, FilesInv, [Next]_vars, FilesInv'
  PROVE  Contract!Next \/ UNCHANGED [f \in File |-> SlotOf(f)]
<1> DEFINE slot == [f \in File |-> SlotOf(f)]
<1>1. OneHolder /\ OneHolder' /\ FilesFit /\ status \in [Batch -> Status]
  BY DEF FilesInv, IInv, TypeOK
<1>2. /\ \A f \in File, b \in Batch : Holds(b, f) => SlotOf(f) = SlotBy(b)
      /\ \A f \in File : (\A b \in Batch : ~Holds(b, f)) => SlotOf(f) = "free"
  BY <1>1, SlotIs
<1>3. /\ \A f \in File, b \in Batch : Holds(b, f)' => SlotOf(f)' = SlotBy(b)'
      /\ \A f \in File : (\A b \in Batch : ~Holds(b, f)') => SlotOf(f)' = "free"
  BY <1>1, SlotBecomes
<1>4. \A f \in File, b \in Batch : /\ Holds(b, f) <=> SlotBy(b) # "free" /\ file[b] = f
                                   /\ Holds(b, f)' <=> SlotBy(b)' # "free" /\ file'[b] = f
  BY DEF Holds, Live, SlotBy
<1>5. CASE \A b \in Batch : Same(b)
  <2>1. \A f \in File : SlotOf(f)' = SlotOf(f)
    BY <1>1, <1>5, SlotStays
  <2>2. QED
    BY <2>1
<1>6. ASSUME NEW b \in Batch, \A d \in Batch : d # b => Same(d), NEW from, NEW to,
             NEW f \in File, SlotOf(f) = from, SlotOf(f)' = to,
             \A g \in File : g # f => file[b] # g /\ file'[b] # g
      PROVE  Contract!Move(f, from, to)
  <2>1. \A g \in File : g # f => SlotOf(g)' = SlotOf(g)
    BY <1>1, <1>6, SlotStays
  <2>2. slot' = [slot EXCEPT ![f] = to]
    BY <1>6, <2>1
  <2>3. QED
    BY <1>6, <2>2 DEF Contract!Move
<1>7. ASSUME NEW b \in Batch, \A d \in Batch : d # b => Same(d), NEW f \in File, Opens(b, f)
      PROVE  Contract!Next
  <2>1. SlotOf(f) = "free" /\ file'[b] = f /\ file[b] = None /\ None \notin File
    BY <1>2, <1>7, NoneAssumption DEF Opens
  <2>2. Holds(b, f)' /\ SlotOf(f)' = SlotBy(b)'
    BY <1>1, <1>3, <1>4, <1>7 DEF Opens
  <2>3. CASE f \in Readable
    <3>1. SlotOf(f)' = "draft"
      BY <1>7, <2>2, <2>3 DEF Opens
    <3>2. Contract!Move(f, "free", "draft")
      BY <1>6, <1>7, <2>1, <3>1
    <3>3. QED
      BY <2>3, <3>2 DEF Contract!Next, Contract!Open
  <2>4. CASE f \notin Readable
    <3>1. SlotOf(f)' = "rejected"
      BY <1>7, <2>2, <2>4 DEF Opens
    <3>2. Contract!Move(f, "free", "rejected")
      BY <1>6, <1>7, <2>1, <3>1
    <3>3. QED
      BY <2>4, <3>2 DEF Contract!Next, Contract!Reject
  <2>5. QED
    BY <2>3, <2>4
<1>8. ASSUME NEW b \in Batch, \A d \in Batch : d # b => Same(d),
             NEW to \in {"committed", "free"}, Goes(b, "draft", to)
      PROVE  Contract!Next \/ UNCHANGED slot
  <2>1. CASE file[b] \in File
    <3> PICK f \in File : f = file[b]
      BY <2>1
    <3>1. SlotOf(f) = "draft" /\ file'[b] = f
      BY <1>2, <1>4, <1>8 DEF Goes
    <3>2. SlotOf(f)' = to
      <4>1. CASE to = "committed"
        BY <1>1, <1>3, <1>4, <1>8, <3>1, <4>1 DEF Goes
      <4>2. CASE to = "free"
        <5>1. \A d \in Batch : d # b => ~Holds(d, f)
          BY <1>1, <1>4, <1>8 DEF OneHolder, Goes
        <5>2. \A d \in Batch : ~Holds(d, f)'
          BY <1>4, <1>8, <3>1, <4>2, <5>1, NoneAssumption DEF Goes, Same
        <5>3. QED
          BY <1>1, <1>3, <4>2, <5>2
      <4>3. QED
        BY <4>1, <4>2
    <3>3. Contract!Move(f, "draft", to)
      BY <1>6, <1>8, <3>1, <3>2
    <3>4. QED
      BY <3>3 DEF Contract!Next, Contract!Commit, Contract!Discard
  <2>2. CASE file[b] \notin File
    <3>1. \A f \in File : SlotOf(f)' = SlotOf(f)
      BY <1>1, <1>8, <2>2, SlotStays DEF Goes
    <3>2. QED
      BY <3>1
  <2>3. QED
    BY <2>1, <2>2
<1>9. QED
  BY <1>5, <1>7, <1>8, BatchMoves

\* No file is ever held twice (create_upload, and the unique index on live
\* batches), and only a file that cannot be read fails.
THEOREM HoldersInductive == Spec => []FilesInv
<1>1. Init => FilesInv
  BY DEF Init, FilesInv, OneHolder, FilesFit, Holds, Live, DraftStatus
<1>2. IInv /\ FilesInv /\ [Next]_vars => FilesInv'
  BY HoldersKept, FilesKept DEF FilesInv
<1>3. QED
  BY <1>1, <1>2, Inductive, PTL DEF Spec

\* Every file is free, held by one draft, committed for good or rejected for
\* good, whatever uploads, suggestions, stagings, deletions, crashes and
\* restarts follow each other.
THEOREM ImplementsContract == Spec => FileContract
<1>1. Init => Contract!Init
  <2>1. ASSUME Init, NEW f \in File PROVE SlotOf(f) = "free"
    BY <2>1 DEF Init, SlotOf, Holds, Live
  <2>2. QED
    BY <2>1 DEF Contract!Init
<1>2. IInv /\ FilesInv /\ FilesInv' /\ [Next]_vars
        => [Contract!Next]_([f \in File |-> SlotOf(f)])
  BY StepsImplement
<1>3. QED
  BY <1>1, <1>2, Inductive, HoldersInductive, PTL DEF Spec, FileContract, Contract!Spec

=============================================================================

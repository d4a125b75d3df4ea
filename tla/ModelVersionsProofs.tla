------------------------- MODULE ModelVersionsProofs -------------------------
(***************************************************************************)
(* Proofs about ModelVersions, for any models, any taxonomies and any      *)
(* number of activations.                                                  *)
(***************************************************************************)
EXTENDS ModelVersions, TLAPS

-----------------------------------------------------------------------------
(* The inductive invariant *)

\* The active model and those that were active once
Served(m) == Retained(m) /\ versions[m].activated > 0

\* A training of the command line is writing, or died and left, what there is.
HeldByCommandLine(m) ==
  training[m].in = "cli" /\ training[m].stage \in Running \cup {"dead"}

Clean(m) ==
  \A f \in files[m] :
    \/ f = "artifact" /\ Retained(m)
    \/ HeldByCommandLine(m)
    \/ <<m, f>> \in refused

\* Which files a training has made by its stage, and that a training of the
\* server occupies the server
TrainingFits ==
  \A m \in Model :
    /\ versions[m] # None => training[m].stage = "recorded"
    /\ training[m].stage \in {"none", "fitted"} => files[m] = {}
    /\ training[m].stage = "dumped" => files[m] \subseteq {"temporary"}
    /\ training[m].stage \in {"renamed", "verified"} => files[m] \subseteq {"artifact"}
    /\ training[m].stage = "recorded" => "temporary" \notin files[m]
    /\ training[m].in = "server" /\ training[m].stage \in Running => Serves(m, "train")

RowsFit ==
  \A m \in Model : versions[m] # None =>
    /\ versions[m].active => versions[m].activated > 0
    /\ versions[m].activated <= activations

PredictorsWereActive ==
  \A m \in predictions : versions[m] # None /\ versions[m].activated > 0

\* What a request found out before its next step is still true: of an
\* activation and a rejection, of the rows a sweep has read, and of the files it
\* is about to remove.
ActivationFits(m) ==
  Serves(m, "activate") => Retained(m) /\ ~versions[m].active /\ "artifact" \in files[m]

RejectionFits(m) ==
  Serves(m, "reject") => IsCandidate(m) /\ files[m] \subseteq {"aside"}

ListFits(m) ==
  server.step = "list" =>
    /\ m \in server.referenced => Retained(m)
    /\ Served(m) => m \in server.referenced

SweepFits(m) ==
  server.step = "remove" =>
    /\ Served(m) => <<m, "artifact">> \notin server.doomed
    /\ \A f \in files[m] :
         \/ <<m, f>> \in server.doomed
         \/ f = "artifact" /\ Retained(m)
         \/ HeldByCommandLine(m)
         \/ <<m, f>> \in refused

RequestFits ==
  \A m \in Model : ActivationFits(m) /\ RejectionFits(m) /\ ListFits(m) /\ SweepFits(m)

\* The directory between the sweeps
DirectoryFits ==
  \A m \in Model :
    \/ server.step \notin {"idle", "activate", "train", "reject"}
    \/ server.step \in {"train", "reject"} /\ server.model = m
    \/ Clean(m)

IInv ==
  /\ TypeOK
  /\ TrainingFits
  /\ RowsFit
  /\ PredictorsWereActive
  /\ RequestFits
  /\ DirectoryFits
  /\ ServedModelsKeepTheirArtifacts
  /\ OneOfEach

-----------------------------------------------------------------------------
(* The invariant holds and is kept *)

LEMMA InitHolds == Init => IInv
<1> SUFFICES ASSUME Init PROVE IInv
  OBVIOUS
<1>1. TypeOK
  BY DEF Init, TypeOK, Stage, FileName, Request, ServerStep, Process
<1>2. TrainingFits /\ RowsFit /\ PredictorsWereActive
  BY DEF Init, TrainingFits, RowsFit, PredictorsWereActive, Running
<1>3. RequestFits /\ DirectoryFits
  BY DEF Init, RequestFits, ActivationFits, RejectionFits, ListFits, SweepFits,
         DirectoryFits, Serves, Request
<1>4. ServedModelsKeepTheirArtifacts /\ OneOfEach
  BY DEF Init, ServedModelsKeepTheirArtifacts, OneOfEach, Retained, IsCandidate, IsActive
<1>5. QED
  BY <1>1, <1>2, <1>3, <1>4 DEF IInv

\* The row of the model that is activated
LEMMA ActivatedRow ==
  ASSUME NEW row \in Row, NEW n \in Nat, NEW new,
         new = [row EXCEPT !.active = TRUE, !.activated = n, !.retired = FALSE]
  PROVE  new \in Row /\ new.active = TRUE /\ new.activated = n /\ new.retired = FALSE
  BY DEF Row

\* The rows of the models that are deactivated
LEMMA DeactivatedRow ==
  ASSUME NEW row \in Row, NEW new, new = [row EXCEPT !.active = FALSE]
  PROVE  /\ new \in Row /\ new.active = FALSE /\ new.activated = row.activated
         /\ new.retired = row.retired
  BY DEF Row

\* The rows of the models that are retired
LEMMA RetiredRow ==
  ASSUME NEW row \in Row, NEW new, new = [row EXCEPT !.active = FALSE, !.retired = TRUE]
  PROVE  /\ new \in Row /\ new.active = FALSE /\ new.activated = row.activated
         /\ new.retired = TRUE
  BY DEF Row

\* Every step keeps the domains.
LEMMA TypeKept == TypeOK /\ RequestFits /\ [Next]_vars => TypeOK'
<1> SUFFICES ASSUME TypeOK, RequestFits, [Next]_vars PROVE TypeOK'
  OBVIOUS
<1> USE DEF TypeOK, Request, Idle, ServerStep, Process, FileName, Advance, Release
<1>1. ASSUME NEW m \in Model, NEW process \in Process, StartTraining(m, process) PROVE TypeOK'
  BY <1>1 DEF StartTraining, Stage
<1>2. ASSUME NEW m \in Model, Dump(m) PROVE TypeOK'
  <2>1. files' \in [Model -> SUBSET FileName]
    BY <1>2 DEF Dump
  <2>2. QED
    BY <1>2, <2>1 DEF Dump, Stage
<1>3. ASSUME NEW m \in Model, Rename(m) PROVE TypeOK'
  <2>1. files' \in [Model -> SUBSET FileName]
    BY <1>3 DEF Rename
  <2>2. training' \in [Model -> [stage : Stage, in : Process, taxonomy : Taxonomy]]
    BY <1>3 DEF Rename, Stage
  <2>3. UNCHANGED <<versions, refused, taxonomy, activations, predictions, server>>
    BY <1>3 DEF Rename
  <2>4. QED
    BY <2>1, <2>2, <2>3
<1>4. ASSUME NEW m \in Model, ReadBack(m) PROVE TypeOK'
  BY <1>4 DEF ReadBack, Stage
<1>5. ASSUME NEW m \in Model, Record(m) PROVE TypeOK'
  <2>1. CandidateRow(m) \in Row
    BY DEF CandidateRow, Row
  <2>2. versions' \in [Model -> Row \cup {None}]
    BY <1>5, <2>1 DEF Record
  <2>3. QED
    BY <1>5, <2>2 DEF Record, Stage
<1>6. ASSUME NEW m \in Model, FailTraining(m) PROVE TypeOK'
  <2>1. files' \in [Model -> SUBSET FileName]
    BY <1>6 DEF FailTraining
  <2>2. {m} \X files[m] \subseteq Model \X FileName
    OBVIOUS
  <2>3. refused' \subseteq Model \X FileName
    BY <1>6, <2>2 DEF FailTraining
  <2>4. training' \in [Model -> [stage : Stage, in : Process, taxonomy : Taxonomy]]
    BY <1>6 DEF FailTraining, Stage
  <2>5. server' \in [step : ServerStep, model : Model \cup {None},
                      referenced : SUBSET Model, doomed : SUBSET (Model \X FileName)]
    BY <1>6 DEF FailTraining
  <2>6. UNCHANGED <<versions, taxonomy, activations, predictions>>
    BY <1>6 DEF FailTraining
  <2>7. QED
    BY <2>1, <2>3, <2>4, <2>5, <2>6
<1>7. ASSUME NEW m \in Model, VerifyForActivation(m) PROVE TypeOK'
  BY <1>7 DEF VerifyForActivation
<1>8. ASSUME NEW m \in Model, Activate(m) PROVE TypeOK'
  <2>1. activations \in Nat /\ activations + 1 \in Nat
    OBVIOUS
  <2>2. ASSUME NEW o \in Model PROVE versions'[o] \in Row \cup {None}
    <3>1. versions[m] \in Row
      BY <1>8 DEF Activate, RequestFits, ActivationFits, Retained
    <3>2. CASE o = m
      <4>1. versions'[o] = [versions[m] EXCEPT !.active = TRUE, !.activated = activations + 1,
                                               !.retired = FALSE]
        BY <1>8, <3>2 DEF Activate
      <4> HIDE DEF TypeOK
      <4>2. versions'[o] \in Row
        BY <2>1, <3>1, <4>1, ActivatedRow
      <4>3. QED
        BY <4>2
    <3>3. CASE o # m /\ Retires(o, m)
      <4>1. versions'[o] = [versions[o] EXCEPT !.active = FALSE, !.retired = TRUE]
        BY <1>8, <3>3 DEF Activate
      <4>2. versions[o] \in Row
        BY <3>3 DEF Retires, IsPrevious, Retained
      <4>3. QED
        BY <4>1, <4>2, RetiredRow
    <3>4. CASE o # m /\ ~Retires(o, m) /\ IsActive(o)
      <4>1. versions'[o] = [versions[o] EXCEPT !.active = FALSE]
        BY <1>8, <3>4 DEF Activate
      <4>2. versions[o] \in Row
        BY <3>4 DEF IsActive, Retained
      <4>3. QED
        BY <4>1, <4>2, DeactivatedRow
    <3>5. CASE o # m /\ ~Retires(o, m) /\ ~IsActive(o)
      <4>1. versions'[o] = versions[o]
        BY <1>8, <3>5 DEF Activate
      <4>2. QED
        BY <4>1
    <3>6. QED
      BY <3>2, <3>3, <3>4, <3>5
  <2>3. versions' \in [Model -> Row \cup {None}]
    BY <1>8, <2>2 DEF Activate
  <2>4. QED
    BY <1>8, <2>1, <2>3 DEF Activate
<1>9. ASSUME NEW m \in Model, MoveAside(m) PROVE TypeOK'
  BY <1>9 DEF MoveAside
<1>10. ASSUME NEW m \in Model, DeleteRow(m) PROVE TypeOK'
  BY <1>10 DEF DeleteRow
<1>11. ASSUME NEW m \in Model, PutBack(m) PROVE TypeOK'
  BY <1>11 DEF PutBack
<1>12. ASSUME NEW m \in Model, Discard(m) PROVE TypeOK'
  BY <1>12 DEF Discard
<1>13. ASSUME NEW m \in Model, Predict(m) PROVE TypeOK'
  BY <1>13 DEF Predict
<1>14. ASSUME Refer PROVE TypeOK'
  <2>1. files' \in [Model -> SUBSET FileName]
    <3>1. PICK unlinked :
            files' = [m \in Model |-> IF m \in unlinked THEN files[m] \ {"artifact"} ELSE files[m]]
      BY <1>14 DEF Refer
    <3>2. QED
      BY <3>1
  <2>2. server' = [server EXCEPT !.step = "list", !.referenced = Referenced] /\ refused' = {}
    BY <1>14 DEF Refer
  <2>3. UNCHANGED <<versions, training, taxonomy, activations, predictions>>
    BY <1>14 DEF Refer
  <2>4. QED
    BY <2>1, <2>2, <2>3 DEF Referenced
<1>15. ASSUME List PROVE TypeOK'
  BY <1>15 DEF List, ToRemove
<1>16. ASSUME Remove PROVE TypeOK'
  <2>1. files' \in [Model -> SUBSET FileName]
    BY <1>16 DEF Remove
  <2>2. PICK f \in server.doomed : server' = [server EXCEPT !.doomed = @ \ {f}]
    BY <1>16 DEF Remove
  <2>3. server' \in [step : ServerStep, model : Model \cup {None},
                     referenced : SUBSET Model, doomed : SUBSET (Model \X FileName)]
    BY <2>2
  <2>4. UNCHANGED <<versions, training, taxonomy, activations, predictions>>
    BY <1>16 DEF Remove
  <2>5. refused' \subseteq Model \X FileName
    BY <1>16 DEF Remove
  <2>6. QED
    BY <2>1, <2>3, <2>4, <2>5
<1>17. ASSUME Respond PROVE TypeOK'
  BY <1>17 DEF Respond
<1>18. ASSUME EditTaxonomy PROVE TypeOK'
  BY <1>18 DEF EditTaxonomy
<1>19. ASSUME CrashServer PROVE TypeOK'
  BY <1>19 DEF CrashServer, Dead, Stage
<1>20. ASSUME StartServer PROVE TypeOK'
  BY <1>20 DEF StartServer
<1>21. ASSUME CrashCommandLine PROVE TypeOK'
  BY <1>21 DEF CrashCommandLine, Dead, Stage
<1>22. CASE UNCHANGED vars
  BY <1>22 DEF vars
<1> HIDE DEF TypeOK
<1>23. QED
  BY <1>1, <1>2, <1>3, <1>4, <1>5, <1>6, <1>7, <1>8, <1>9, <1>10, <1>11, <1>12, <1>13,
     <1>14, <1>15, <1>16, <1>17, <1>18, <1>19, <1>20, <1>21, <1>22 DEF Next

\* A training's files follow its stage.
LEMMA TrainingKept == IInv /\ [Next]_vars => TrainingFits'
<1> SUFFICES ASSUME IInv, [Next]_vars PROVE TrainingFits'
  OBVIOUS
<1> USE DEF IInv, TypeOK, TrainingFits, Serves, Request, Idle, Advance, Release, Running,
            Stage, FileName
<1>1. ASSUME NEW m \in Model, NEW process \in Process, StartTraining(m, process) PROVE TrainingFits'
  BY <1>1 DEF StartTraining, Process
<1>2. ASSUME NEW m \in Model, Dump(m) PROVE TrainingFits'
  BY <1>2 DEF Dump
<1>3. ASSUME NEW m \in Model, Rename(m) PROVE TrainingFits'
  BY <1>3 DEF Rename
<1>4. ASSUME NEW m \in Model, ReadBack(m) PROVE TrainingFits'
  BY <1>4 DEF ReadBack
<1>5. ASSUME NEW m \in Model, Record(m) PROVE TrainingFits'
  BY <1>5 DEF Record
<1>6. ASSUME NEW m \in Model, FailTraining(m) PROVE TrainingFits'
  BY <1>6 DEF FailTraining
<1>7. ASSUME NEW m \in Model, VerifyForActivation(m) PROVE TrainingFits'
  BY <1>7 DEF VerifyForActivation, Retained
<1>8. ASSUME NEW m \in Model, Activate(m) PROVE TrainingFits'
  BY <1>8 DEF Activate, RequestFits, ActivationFits, Retained, Retires, IsPrevious, IsActive
<1>9. ASSUME NEW m \in Model, MoveAside(m) PROVE TrainingFits'
  BY <1>9 DEF MoveAside, RequestFits, RejectionFits, IsCandidate, Retained
<1>10. ASSUME NEW m \in Model, DeleteRow(m) PROVE TrainingFits'
  BY <1>10 DEF DeleteRow
<1>11. ASSUME NEW m \in Model, PutBack(m) PROVE TrainingFits'
  BY <1>11 DEF PutBack, RequestFits, RejectionFits, IsCandidate, Retained
<1>12. ASSUME NEW m \in Model, Discard(m) PROVE TrainingFits'
  BY <1>12 DEF Discard
<1>13. ASSUME NEW m \in Model, Predict(m) PROVE TrainingFits'
  BY <1>13 DEF Predict
<1>14. ASSUME Refer PROVE TrainingFits'
  BY <1>14 DEF Refer
<1>15. ASSUME List PROVE TrainingFits'
  BY <1>15 DEF List
<1>16. ASSUME Remove PROVE TrainingFits'
  BY <1>16 DEF Remove
<1>17. ASSUME Respond PROVE TrainingFits'
  BY <1>17 DEF Respond
<1>18. ASSUME EditTaxonomy PROVE TrainingFits'
  BY <1>18 DEF EditTaxonomy
<1>19. ASSUME CrashServer PROVE TrainingFits'
  BY <1>19 DEF CrashServer, Dead, Process
<1>20. ASSUME StartServer PROVE TrainingFits'
  BY <1>20 DEF StartServer
<1>21. ASSUME CrashCommandLine PROVE TrainingFits'
  BY <1>21 DEF CrashCommandLine, Dead, Process
<1>22. CASE UNCHANGED vars
  BY <1>22 DEF vars
<1> HIDE DEF IInv, TypeOK, TrainingFits, Serves, Request, Idle, Advance, Release, Running,
             Stage, FileName
<1>23. QED
  BY <1>1, <1>2, <1>3, <1>4, <1>5, <1>6, <1>7, <1>8, <1>9, <1>10, <1>11, <1>12, <1>13,
     <1>14, <1>15, <1>16, <1>17, <1>18, <1>19, <1>20, <1>21, <1>22 DEF Next

\* Only four steps write the rows that models and predictions are.
LEMMA RowSteps ==
  ASSUME [Next]_vars
  PROVE  \/ UNCHANGED <<versions, activations, predictions>>
         \/ \E m \in Model : Record(m) \/ Activate(m) \/ DeleteRow(m) \/ Predict(m)
  BY DEF Next, vars, StartTraining, Dump, Rename, ReadBack, FailTraining,
         VerifyForActivation, MoveAside, PutBack, Discard, Refer, List, Remove, Respond,
         EditTaxonomy, CrashServer, StartServer, CrashCommandLine

\* What an activation makes of each row
LEMMA ActivationEffect ==
  ASSUME IInv, NEW m \in Model, Activate(m)
  PROVE  /\ versions[m] \in Row /\ versions'[m] \in Row /\ ~versions[m].retired
         /\ activations' = activations + 1 /\ activations \in Nat
         /\ IsActive(m)' /\ versions'[m].activated = activations + 1
         /\ \A o \in Model \ {m} :
              /\ versions[o] = None <=> versions'[o] = None
              /\ versions[o] # None => /\ versions[o] \in Row /\ versions'[o] \in Row
                                       /\ versions'[o].activated = versions[o].activated
                                       /\ ~versions'[o].active \/ versions[o].retired
              /\ Retained(o)' => Retained(o) /\ ~Retires(o, m)
<1>1. Retained(m) /\ versions[m] \in Row /\ activations \in Nat
  BY DEF IInv, TypeOK, RequestFits, ActivationFits, Activate, Retained
<1>2. versions'[m] = [versions[m] EXCEPT !.active = TRUE, !.activated = activations + 1,
                                         !.retired = FALSE]
  BY DEF Activate
<1>3. ASSUME NEW o \in Model \ {m}
      PROVE  versions'[o] = IF Retires(o, m)
                            THEN [versions[o] EXCEPT !.active = FALSE, !.retired = TRUE]
                            ELSE IF IsActive(o) THEN [versions[o] EXCEPT !.active = FALSE]
                            ELSE versions[o]
  BY DEF Activate
<1>4. /\ versions'[m] \in Row /\ IsActive(m)' /\ versions'[m].activated = activations + 1
  <2> DEFINE n == activations + 1
  <2>1. n \in Nat
    BY <1>1
  <2>2. versions'[m] = [versions[m] EXCEPT !.active = TRUE, !.activated = n, !.retired = FALSE]
    BY <1>2
  <2> HIDE DEF n
  <2>3. versions'[m] \in Row /\ versions'[m].active = TRUE /\ versions'[m].retired = FALSE
        /\ versions'[m].activated = n
    BY <1>1, <2>1, <2>2 DEF Row
  <2>4. QED
    BY <2>3, RowAssumption DEF IsActive, Retained, n
<1>5. ASSUME NEW o \in Model \ {m}
      PROVE  /\ versions[o] = None <=> versions'[o] = None
             /\ versions[o] # None => /\ versions[o] \in Row /\ versions'[o] \in Row
                                      /\ versions'[o].activated = versions[o].activated
                                      /\ ~versions'[o].active \/ versions[o].retired
             /\ Retained(o)' => Retained(o) /\ ~Retires(o, m)
  <2>1. versions[o] \in Row \cup {None}
    BY DEF IInv, TypeOK
  <2>2. CASE versions[o] = None
    BY <1>3, <2>2 DEF Retires, IsPrevious, IsActive, Retained
  <2>3. CASE versions[o] # None
    <3>1. versions[o] \in Row
      BY <2>1, <2>3
    <3>2. 0 \in Nat /\ versions[o].active \in BOOLEAN /\ versions[o].retired \in BOOLEAN
      BY <3>1 DEF Row
    <3>3. CASE Retires(o, m)
      <4>1. versions'[o] \in Row /\ versions'[o].active = FALSE /\ versions'[o].retired = TRUE
            /\ versions'[o].activated = versions[o].activated
        BY <1>3, <3>1, <3>3, RetiredRow
      <4>2. QED
        BY <2>3, <3>1, <4>1, RowAssumption DEF Retained
    <3>4. CASE ~Retires(o, m) /\ IsActive(o)
      <4>1. versions'[o] \in Row /\ versions'[o].active = FALSE
            /\ versions'[o].retired = versions[o].retired
            /\ versions'[o].activated = versions[o].activated
        BY <1>3, <3>1, <3>4, DeactivatedRow
      <4>2. QED
        BY <2>3, <3>1, <3>4, <4>1, RowAssumption DEF Retained
    <3>5. CASE ~Retires(o, m) /\ ~IsActive(o)
      <4>1. versions'[o] = versions[o]
        BY <1>3, <3>5
      <4>2. QED
        BY <2>3, <3>1, <3>2, <3>5, <4>1 DEF IsActive, Retained
    <3>6. QED
      BY <3>3, <3>4, <3>5
  <2>4. QED
    BY <2>2, <2>3
<1>6. activations' = activations + 1 /\ ~versions[m].retired
  BY <1>1 DEF Activate, Retained
<1>7. QED
  BY <1>1, <1>4, <1>5, <1>6

LEMMA RowsKept == IInv /\ [Next]_vars => RowsFit' /\ PredictorsWereActive'
<1> SUFFICES ASSUME IInv, [Next]_vars PROVE RowsFit' /\ PredictorsWereActive'
  OBVIOUS
<1>0. /\ activations \in Nat /\ predictions \subseteq Model
      /\ \A o \in Model : versions[o] # None => versions[o] \in Row /\ versions[o].activated \in Nat
  BY DEF IInv, TypeOK, Row
<1> USE DEF RowsFit, PredictorsWereActive
<1>1. CASE UNCHANGED <<versions, activations, predictions>>
  BY <1>1 DEF IInv
<1>2. ASSUME NEW m \in Model, Record(m) PROVE RowsFit' /\ PredictorsWereActive'
  <2>1. versions[m] = None
    BY <1>2 DEF IInv, TrainingFits, Record
  <2>2. m \notin predictions
    BY <2>1 DEF IInv
  <2>3. QED
    BY <1>0, <1>2, <2>1, <2>2 DEF IInv, TypeOK, Record, CandidateRow
<1>3. ASSUME NEW m \in Model, Activate(m) PROVE RowsFit' /\ PredictorsWereActive'
  <2>1. activations' = activations + 1 /\ versions'[m].activated = activations + 1
    BY <1>3, ActivationEffect
  <2>2. ASSUME NEW o \in Model, versions'[o] # None
        PROVE  /\ versions'[o].active => versions'[o].activated > 0
               /\ versions'[o].activated <= activations'
    <3>1. CASE o = m
      BY <1>0, <2>1, <3>1
    <3>2. CASE o # m
      <4>1. versions[o] # None /\ versions'[o].activated = versions[o].activated
            /\ (versions'[o].active => versions[o].retired)
        BY <1>3, <2>2, <3>2, ActivationEffect
      <4>2. versions'[o] = versions[o] \/ versions'[o].active = FALSE
        BY <1>3, <3>2, <4>1, <1>0, RetiredRow, DeactivatedRow DEF Activate
      <4>3. QED
        BY <1>0, <2>1, <4>1, <4>2 DEF IInv
    <3>3. QED
      BY <3>1, <3>2
  <2>3. PredictorsWereActive'
    <3>1. predictions' = predictions
      BY <1>3 DEF Activate
    <3>2. ASSUME NEW o \in predictions PROVE versions'[o] # None /\ versions'[o].activated > 0
      <4>1. versions[o] # None /\ versions[o].activated > 0 /\ o \in Model
        BY <1>0 DEF IInv
      <4>2. CASE o = m
        BY <1>0, <1>3, <2>1, <4>2, ActivationEffect, RowAssumption
      <4>3. CASE o # m
        BY <1>3, <4>1, <4>3, ActivationEffect
      <4>4. QED
        BY <4>2, <4>3
    <3>3. QED
      BY <3>1, <3>2
  <2>4. QED
    BY <2>2, <2>3
<1>4. ASSUME NEW m \in Model, DeleteRow(m) PROVE RowsFit' /\ PredictorsWereActive'
  <2>1. versions[m].activated = 0
    BY <1>4 DEF IInv, RequestFits, RejectionFits, DeleteRow, IsCandidate
  <2>2. m \notin predictions
    BY <2>1 DEF IInv
  <2>3. QED
    BY <1>4, <2>2 DEF IInv, TypeOK, DeleteRow
<1>5. ASSUME NEW m \in Model, Predict(m) PROVE RowsFit' /\ PredictorsWereActive'
  BY <1>5 DEF IInv, TypeOK, Predict, IsActive, Retained
<1>6. QED
  BY <1>1, <1>2, <1>3, <1>4, <1>5, RowSteps

\* What is known of the rows when a step is taken
LEMMA RowFacts ==
  ASSUME IInv, NEW m \in Model, versions[m] # None
  PROVE  /\ versions[m] \in Row /\ versions[m].activated \in Nat
         /\ versions[m].active \in BOOLEAN /\ versions[m].retired \in BOOLEAN
         /\ versions[m].active => versions[m].activated > 0
         /\ training[m].stage = "recorded"
  BY DEF IInv, TypeOK, Row, RowsFit, TrainingFits

LEMMA OneOfEachKept == IInv /\ [Next]_vars => OneOfEach'
<1> SUFFICES ASSUME IInv, [Next]_vars PROVE OneOfEach'
  OBVIOUS
<1> DEFINE Was(o) == Retained(o) /\ ~versions[o].active /\ versions[o].activated > 0
<1>1. CASE UNCHANGED <<versions, activations, predictions>>
  BY <1>1 DEF IInv, OneOfEach, IsCandidate, IsActive, Retained
<1>2. ASSUME NEW m \in Model, Record(m) PROVE OneOfEach'
  <2>1. /\ versions'[m].active = FALSE /\ versions'[m].activated = 0
        /\ \A o \in Model : o # m => versions'[o] = versions[o]
        /\ activations' = activations
    BY <1>2 DEF IInv, TypeOK, Record, CandidateRow
  <2>2. versions[m] = None /\ \A o \in Model : ~IsCandidate(o)
    BY <1>2 DEF IInv, TrainingFits, Record, NoCandidate
  <2>3. QED
    BY <2>1, <2>2 DEF IInv, OneOfEach, IsCandidate, IsActive, Retained
<1>3. ASSUME NEW m \in Model, Activate(m) PROVE OneOfEach'
  <2>1. /\ Retained(m) /\ ~versions[m].active /\ versions[m].activated \in Nat
        /\ IsActive(m)' /\ versions'[m].activated > 0
    <3>1. Retained(m) /\ ~versions[m].active
      BY <1>3 DEF IInv, RequestFits, ActivationFits, Activate
    <3>2. versions[m].activated \in Nat
      BY <3>1, RowFacts DEF Retained
    <3>3. /\ IsActive(m)' /\ versions'[m].activated = activations + 1 /\ activations \in Nat
      BY <1>3, ActivationEffect
    <3>4. versions'[m].activated > 0
      BY <3>3
    <3>5. QED
      BY <3>1, <3>2, <3>3, <3>4
  <2>2. ASSUME NEW o \in Model, o # m, Retained(o)'
        PROVE  /\ Retained(o) /\ ~Retires(o, m) /\ ~IsActive(o)'
               /\ versions'[o].activated = versions[o].activated
               /\ versions[o].activated \in Nat
               /\ versions[o].active => versions[o].activated > 0
    BY <1>3, <2>2, ActivationEffect, RowFacts DEF Retained, IsActive
  <2>3. ASSUME NEW o \in Model, IsActive(o)' PROVE o = m
    BY <2>2, <2>3 DEF IsActive
  <2>4. ASSUME NEW o \in Model, IsCandidate(o)' PROVE IsCandidate(o)
    <3>1. o # m /\ Retained(o)'
      BY <2>1, <2>4 DEF IsCandidate
    <3>2. QED
      BY <2>2, <2>4, <3>1 DEF IsCandidate
  <2>5. ASSUME NEW o \in Model, Was(o)' PROVE o # m /\ (Was(o) \/ IsActive(o)) /\ ~Retires(o, m)
    <3>1. o # m /\ Retained(o)'
      BY <2>1, <2>5 DEF IsActive
    <3>2. QED
      BY <2>2, <2>5, <3>1 DEF IsActive
  <2>6. ASSUME NEW o \in Model, NEW c \in Model, Was(o)', Was(c)', Was(o), IsActive(c)
        PROVE  FALSE
    <3>1. IsPrevious(o)
      <4>1. \A q \in Model : Was(q) => q = o /\ versions[q].activated <= versions[o].activated
        BY <2>6, RowFacts DEF IInv, OneOfEach, Retained
      <4>2. QED
        BY <2>6, <4>1 DEF IsPrevious
    <3>2. IsCandidate(m)
      <4>1. ~Was(m)
        BY <2>5, <2>6 DEF IInv, OneOfEach
      <4>2. QED
        BY <2>1, <4>1 DEF IsCandidate
    <3>3. QED
      BY <2>5, <2>6, <3>1, <3>2 DEF Retires
  <2>7. ASSUME NEW o \in Model, NEW c \in Model, Was(o)', Was(c)' PROVE o = c
    BY <2>5, <2>6, <2>7 DEF IInv, OneOfEach
  <2>8. QED
    BY <2>1, <2>3, <2>4, <2>7 DEF IInv, OneOfEach
<1>4. ASSUME NEW m \in Model, DeleteRow(m) PROVE OneOfEach'
  <2>1. /\ versions'[m] = None /\ IsCandidate(m) /\ activations' = activations
        /\ \A o \in Model : o # m => versions'[o] = versions[o]
    BY <1>4 DEF IInv, TypeOK, RequestFits, RejectionFits, DeleteRow
  <2>2. QED
    BY <2>1 DEF IInv, OneOfEach, IsCandidate, IsActive, Retained
<1>5. ASSUME NEW m \in Model, Predict(m) PROVE OneOfEach'
  BY <1>5 DEF Predict, IInv, OneOfEach, IsCandidate, IsActive, Retained
<1>6. QED
  BY <1>1, <1>2, <1>3, <1>4, <1>5, RowSteps

\* Nine steps write rows or files.
LEMMA FileSteps ==
  ASSUME [Next]_vars
  PROVE  \/ UNCHANGED <<versions, files>>
         \/ \E m \in Model : \/ Dump(m) \/ Rename(m) \/ Record(m) \/ FailTraining(m)
                             \/ Activate(m) \/ MoveAside(m) \/ DeleteRow(m) \/ PutBack(m)
                             \/ Discard(m)
         \/ Refer \/ Remove
  BY DEF Next, vars, StartTraining, ReadBack, VerifyForActivation, Predict, List, Respond,
         EditTaxonomy, CrashServer, StartServer, CrashCommandLine

\* An artifact that is served is neither a training's, nor moved aside, nor
\* doomed by a sweep.
LEMMA ServedKept == IInv /\ [Next]_vars => ServedModelsKeepTheirArtifacts'
<1> SUFFICES ASSUME IInv, [Next]_vars,
                    NEW o \in Model, Served(o)'
             PROVE  "artifact" \in files'[o]
  BY DEF ServedModelsKeepTheirArtifacts, Served
<1>0. files \in [Model -> SUBSET FileName] /\ (Served(o) => "artifact" \in files[o])
  BY DEF IInv, TypeOK, ServedModelsKeepTheirArtifacts, Served
<1> USE DEF Served, Retained
<1>1. CASE UNCHANGED <<versions, files>>
  BY <1>0, <1>1
<1>2. ASSUME NEW m \in Model, Dump(m) \/ Rename(m) PROVE "artifact" \in files'[o]
  BY <1>0, <1>2 DEF Dump, Rename
<1>3. ASSUME NEW m \in Model, FailTraining(m) PROVE "artifact" \in files'[o]
  <2>1. versions[m] = None
    BY <1>3 DEF IInv, TrainingFits, FailTraining, Running
  <2>2. QED
    BY <1>0, <1>3, <2>1 DEF FailTraining
<1>4. ASSUME NEW m \in Model, Record(m) PROVE "artifact" \in files'[o]
  BY <1>0, <1>4 DEF Record, CandidateRow, IInv, TypeOK
<1>5. ASSUME NEW m \in Model, Activate(m) PROVE "artifact" \in files'[o]
  <2>1. files' = files /\ "artifact" \in files[m]
    BY <1>5 DEF Activate, IInv, RequestFits, ActivationFits
  <2>2. o # m => Served(o)
    BY <1>5, ActivationEffect
  <2>3. QED
    BY <1>0, <2>1, <2>2
<1>6. ASSUME NEW m \in Model, MoveAside(m) PROVE "artifact" \in files'[o]
  BY <1>0, <1>6 DEF MoveAside, IsCandidate
<1>7. ASSUME NEW m \in Model, DeleteRow(m) PROVE "artifact" \in files'[o]
  BY <1>0, <1>7 DEF DeleteRow, IInv, TypeOK
<1>8. ASSUME NEW m \in Model, PutBack(m) \/ Discard(m) PROVE "artifact" \in files'[o]
  BY <1>0, <1>8 DEF PutBack, Discard
<1>9. ASSUME Refer PROVE "artifact" \in files'[o]
  BY <1>0, <1>9 DEF Refer
<1>10. ASSUME Remove PROVE "artifact" \in files'[o]
  <2>1. <<o, "artifact">> \notin server.doomed
    BY <1>10 DEF Remove, IInv, RequestFits, SweepFits
  <2>2. PICK f \in server.doomed : \/ files' = [files EXCEPT ![f[1]] = @ \ {f[2]}]
                                   \/ files' = files
    BY <1>10 DEF Remove
  <2>3. f \in Model \X FileName
    BY DEF IInv, TypeOK
  <2>4. CASE f[1] = o
    BY <1>0, <1>10, <2>1, <2>2, <2>3, <2>4 DEF Remove
  <2>5. CASE f[1] # o
    BY <1>0, <1>10, <2>2, <2>3, <2>5 DEF Remove
  <2>6. QED
    BY <2>4, <2>5
<1> HIDE DEF Served, Retained
<1>11. QED
  BY <1>1, <1>2, <1>3, <1>4, <1>5, <1>6, <1>7, <1>8, <1>9, <1>10, FileSteps

\* A training touches no recorded model.  What it leaves are the server's
\* files, the command line's, none, or the artifact of a candidate.
TrainingTouches(m) ==
  /\ versions[m] = None /\ (Retained(m)' => versions'[m].activated = 0)
  /\ \A o \in Model \ {m} : /\ versions'[o] = versions[o] /\ files'[o] = files[o]
                            /\ training'[o] = training[o]
  /\ refused \subseteq refused'
  /\ \/ server' = server
     \/ server' = Idle /\ Serves(m, "train")
     \/ server = Idle /\ server' = Request("train", m)
  /\ \/ \A f \in files'[m] : <<m, f>> \in refused'
     \/ files'[m] \subseteq {"artifact"} /\ Retained(m)'
     \/ HeldByCommandLine(m)'
     \/ Serves(m, "train")'

TrainingStep(m) ==
  \/ \E process \in Process : StartTraining(m, process)
  \/ Dump(m) \/ Rename(m) \/ ReadBack(m) \/ Record(m) \/ FailTraining(m)

LEMMA TrainingEffect ==
  ASSUME IInv, NEW m \in Model, TrainingStep(m)
  PROVE  TrainingTouches(m)
<1> USE DEF IInv, TypeOK, TrainingFits, Running, Serves, Request, Idle, Advance, Release,
            HeldByCommandLine, Process, TrainingTouches, Retained
<1>1. ASSUME NEW process \in Process, StartTraining(m, process) PROVE TrainingTouches(m)
  BY <1>1 DEF StartTraining
<1>2. CASE Dump(m)
  BY <1>2 DEF Dump
<1>3. CASE Rename(m)
  BY <1>3 DEF Rename
<1>4. CASE ReadBack(m)
  BY <1>4 DEF ReadBack
<1>5. CASE Record(m)
  <2>1. CandidateRow(m) \in Row /\ versions'[m] = CandidateRow(m)
    BY <1>5 DEF Record, CandidateRow, Row
  <2>2. versions'[m] # None
    BY <2>1, RowAssumption
  <2>3. versions'[m].retired = FALSE /\ versions'[m].activated = 0
    BY <2>1 DEF CandidateRow
  <2>4. QED
    BY <1>5, <2>2, <2>3 DEF Record
<1>6. CASE FailTraining(m)
  BY <1>6 DEF FailTraining
<1> HIDE DEF TrainingTouches
<1>7. QED
  BY <1>1, <1>2, <1>3, <1>4, <1>5, <1>6 DEF TrainingStep

\* What holds of a request before its next step: each step of the command line
\* that runs in between leaves it true.
LEMMA RequestKept == IInv /\ [Next]_vars => RequestFits'
<1> SUFFICES ASSUME IInv, [Next]_vars PROVE RequestFits'
  OBVIOUS
<1> USE DEF RequestFits, ActivationFits, RejectionFits, ListFits, SweepFits,
            Serves, Request, Idle, Served, HeldByCommandLine
<1>1. ASSUME NEW m \in Model, TrainingStep(m) PROVE RequestFits'
  <2>1. TrainingTouches(m)
    BY <1>1, TrainingEffect
  <2>2. CASE server' # server
    BY <2>1, <2>2 DEF TrainingTouches
  <2>3. CASE server' = server
    <3>1. ASSUME NEW o \in Model, o # m
          PROVE  (ActivationFits(o) /\ RejectionFits(o) /\ ListFits(o) /\ SweepFits(o))'
      BY <2>1, <2>3, <3>1 DEF TrainingTouches, IInv, Retained, IsCandidate
    <3>2. ActivationFits(m)' /\ RejectionFits(m)'
      BY <2>1, <2>3 DEF TrainingTouches, IInv, Retained, IsCandidate
    <3>3. ListFits(m)'
      BY <2>1, <2>3 DEF TrainingTouches, IInv, Retained
    <3>4. SweepFits(m)'
      BY <2>1, <2>3 DEF TrainingTouches, IInv, Retained
    <3>5. QED
      BY <3>1, <3>2, <3>3, <3>4
  <2>4. QED
    BY <2>2, <2>3
<1>2. ASSUME NEW m \in Model, VerifyForActivation(m) PROVE RequestFits'
  BY <1>2 DEF VerifyForActivation, Retained
<1>3. ASSUME NEW m \in Model, Activate(m) PROVE RequestFits'
  BY <1>3 DEF Activate
<1>4. ASSUME NEW m \in Model, MoveAside(m) PROVE RequestFits'
  <2>1. files[m] \subseteq {"artifact", "aside"}
    <3>1. training[m].stage = "recorded"
      BY <1>4, RowFacts DEF MoveAside, IsCandidate, Retained
    <3>2. QED
      BY <3>1 DEF IInv, TypeOK, TrainingFits, FileName
  <2>2. files'[m] \subseteq {"aside"}
    BY <1>4, <2>1 DEF MoveAside, IInv, TypeOK
  <2>3. IsCandidate(m)' /\ server' = Request("reject", m)
    BY <1>4 DEF MoveAside, IsCandidate, Retained
  <2>4. QED
    BY <2>2, <2>3
<1>5. ASSUME NEW m \in Model, DeleteRow(m) \/ PutBack(m) \/ Discard(m) PROVE RequestFits'
  BY <1>5 DEF DeleteRow, PutBack, Discard
<1>6. CASE Refer
  BY <1>6 DEF Refer, Referenced, IInv, TypeOK, Retained
<1>7. CASE List
  BY <1>7 DEF List, ToRemove, IInv, TypeOK, Retained
<1>8. CASE Remove
  <2>1. PICK f \in server.doomed :
          /\ \/ files' = [files EXCEPT ![f[1]] = @ \ {f[2]}] /\ UNCHANGED refused
             \/ UNCHANGED files /\ refused' = refused \cup {f}
          /\ server' = [server EXCEPT !.doomed = @ \ {f}]
    BY <1>8 DEF Remove
  <2>2. f \in Model \X FileName /\ server'.step = "remove" /\ server'.doomed = server.doomed \ {f}
    BY <1>8, <2>1 DEF IInv, TypeOK, Remove
  <2>3. ASSUME NEW o \in Model PROVE SweepFits(o)'
    <3>1. ASSUME NEW n \in files'[o] PROVE n \in files[o] /\ (<<o, n>> # f \/ <<o, n>> \in refused')
      <4>1. CASE files' = [files EXCEPT ![f[1]] = @ \ {f[2]}]
        BY <2>2, <3>1, <4>1 DEF IInv, TypeOK
      <4>2. CASE UNCHANGED files /\ refused' = refused \cup {f}
        BY <3>1, <4>2
      <4>3. QED
        BY <2>1, <4>1, <4>2
    <3>0. refused \subseteq refused'
      BY <2>1
    <3>2. UNCHANGED <<versions, training>>
      BY <1>8 DEF Remove
    <3>3. QED
      BY <1>8, <2>2, <3>0, <3>1, <3>2 DEF IInv, Retained, Remove
  <2>4. QED
    BY <2>2, <2>3
<1>9. CASE Respond \/ CrashServer \/ StartServer
  BY <1>9 DEF Respond, CrashServer, StartServer
<1>10. CASE CrashCommandLine
  <2>1. UNCHANGED <<versions, files, refused, server>>
    BY <1>10 DEF CrashCommandLine
  <2>2. \A o \in Model : HeldByCommandLine(o) => HeldByCommandLine(o)'
    BY <1>10 DEF CrashCommandLine, Dead, IInv, TypeOK, Running
  <2> HIDE DEF HeldByCommandLine
  <2>3. QED
    BY <2>1, <2>2 DEF IInv, Retained, IsCandidate
<1>11. CASE EditTaxonomy \/ UNCHANGED vars \/ \E m \in Model : Predict(m)
  BY <1>11 DEF EditTaxonomy, vars, Predict, IInv, Retained, IsCandidate
<1> HIDE DEF RequestFits
<1>12. QED
  BY <1>1, <1>2, <1>3, <1>4, <1>5, <1>6, <1>7, <1>8, <1>9, <1>10, <1>11 DEF Next, TrainingStep

\* Each request starts from a clean directory, and a sweep ends in one.
LEMMA DirectoryKept == IInv /\ [Next]_vars => DirectoryFits'
<1> SUFFICES ASSUME IInv, [Next]_vars PROVE DirectoryFits'
  OBVIOUS
<1> USE DEF DirectoryFits, Clean, Serves, Request, Idle, Retained
<1>1. ASSUME NEW m \in Model, TrainingStep(m) PROVE DirectoryFits'
  <2>1. TrainingTouches(m)
    BY <1>1, TrainingEffect
  <2>2. ASSUME NEW o \in Model, o # m
        PROVE  /\ Clean(o) => Clean(o)'
               /\ \/ server'.step \notin {"idle", "activate", "train", "reject"}
                  \/ server'.step \in {"train", "reject"} /\ server'.model = o
                  \/ Clean(o)'
    BY <2>1, <2>2 DEF TrainingTouches, IInv, HeldByCommandLine
  <2>3. files'[m] \in SUBSET FileName
    BY TypeKept DEF IInv, TypeOK
  <2>4. (server'.step \in {"train", "reject"} /\ server'.model = m) \/ Clean(m)'
    BY <2>1, <2>3 DEF TrainingTouches
  <2>5. QED
    BY <2>2, <2>4
<1>2. ASSUME NEW m \in Model, VerifyForActivation(m) PROVE DirectoryFits'
  BY <1>2 DEF VerifyForActivation, IInv, HeldByCommandLine
<1>3. ASSUME NEW m \in Model, Activate(m) \/ DeleteRow(m) \/ Discard(m) PROVE DirectoryFits'
  <2>1. server' = Request("refer", m) \/ server' = Request("discard", m)
    <3> HIDE DEF Request
    <3>1. QED
      BY <1>3 DEF Activate, DeleteRow, Discard
  <2>2. QED
    BY <2>1
<1>4. ASSUME NEW m \in Model, MoveAside(m) PROVE DirectoryFits'
  BY <1>4 DEF MoveAside, IInv, TypeOK, HeldByCommandLine
<1>5. ASSUME NEW m \in Model, PutBack(m) PROVE DirectoryFits'
  <2>1. Retained(m) /\ files[m] \subseteq {"aside"}
    BY <1>5 DEF PutBack, IInv, RequestFits, RejectionFits, IsCandidate
  <2>2. Clean(m)'
    BY <1>5, <2>1 DEF PutBack, IInv, TypeOK
  <2>3. ASSUME NEW o \in Model, o # m PROVE Clean(o)'
    BY <1>5, <2>3 DEF PutBack, IInv, TypeOK, HeldByCommandLine
  <2>4. QED
    BY <2>2, <2>3
<1>6. CASE Refer \/ List \/ Remove
  <2>1. server'.step \in {"list", "remove"}
    BY <1>6 DEF Refer, List, Remove, IInv, TypeOK
  <2>2. QED
    BY <2>1
<1>7. CASE Respond
  <2>1. ASSUME NEW o \in Model PROVE Clean(o)'
    BY <1>7 DEF Respond, IInv, RequestFits, SweepFits, HeldByCommandLine
  <2>2. QED
    BY <2>1
<1>8. CASE CrashServer \/ StartServer
  BY <1>8 DEF CrashServer, StartServer
<1>9. CASE CrashCommandLine
  <2>1. UNCHANGED <<versions, files, refused, server>>
    BY <1>9 DEF CrashCommandLine
  <2>2. \A o \in Model : HeldByCommandLine(o) => HeldByCommandLine(o)'
    BY <1>9 DEF CrashCommandLine, Dead, IInv, TypeOK, Running, HeldByCommandLine
  <2>3. QED
    BY <2>1, <2>2 DEF IInv
<1>10. CASE EditTaxonomy \/ UNCHANGED vars \/ \E m \in Model : Predict(m)
  BY <1>10 DEF EditTaxonomy, vars, Predict, IInv, HeldByCommandLine
<1> HIDE DEF DirectoryFits
<1>11. QED
  BY <1>1, <1>2, <1>3, <1>4, <1>5, <1>6, <1>7, <1>8, <1>9, <1>10 DEF Next, TrainingStep

LEMMA InvariantKept == IInv /\ [Next]_vars => IInv'
<1> SUFFICES ASSUME IInv, [Next]_vars PROVE IInv'
  OBVIOUS
<1>1. TypeOK'
  BY TypeKept DEF IInv
<1>2. TrainingFits' /\ RowsFit' /\ PredictorsWereActive'
  BY TrainingKept, RowsKept
<1>3. RequestFits' /\ DirectoryFits'
  BY RequestKept, DirectoryKept
<1>4. ServedModelsKeepTheirArtifacts' /\ OneOfEach'
  BY ServedKept, OneOfEachKept
<1>5. QED
  BY <1>1, <1>2, <1>3, <1>4 DEF IInv

-----------------------------------------------------------------------------
(* The theorems *)

\* Whatever the two processes do and wherever they die: rows, files and the
\* request in progress fit together in the way the properties need.
THEOREM Inductive == Spec => []IInv
<1>1. Init => IInv
  BY InitHolds
<1>2. IInv /\ [Next]_vars => IInv'
  BY InvariantKept
<1>3. QED
  BY <1>1, <1>2, PTL DEF Spec

\* Rows, files, trainings and requests keep their domains.
THEOREM TypeCorrect == Spec => []TypeOK
<1>1. IInv => TypeOK
  BY DEF IInv
<1>2. QED
  BY <1>1, Inductive, PTL

\* The artifacts of the active model and of the one kept for rollback stay on
\* the disk: no sweep, rejection or failed training of either process removes
\* them (activate_model, reject_candidate, reconcile_model_artifacts).
THEOREM ArtifactsAreKept == Spec => []ServedModelsKeepTheirArtifacts
<1>1. IInv => ServedModelsKeepTheirArtifacts
  BY DEF IInv
<1>2. QED
  BY <1>1, Inductive, PTL

\* One candidate, one active model and one to roll back to at most, and an
\* active one for good after the first activation.
THEOREM OneModelOfEachState == Spec => []OneOfEach
<1>1. IInv => OneOfEach
  BY DEF IInv
<1>2. QED
  BY <1>1, Inductive, PTL

\* No row that a prediction names is ever deleted: rejection deletes candidates
\* only, and a candidate never predicted.
THEOREM PredictionsAreKept == Spec => []PredictionsKeepTheirVersion
<1>1. IInv => PredictionsKeepTheirVersion
  BY DEF IInv, PredictorsWereActive, PredictionsKeepTheirVersion
<1>2. QED
  BY <1>1, Inductive, PTL

\* Between requests the server leaves no file of a rejected or retired model
\* and none of a request that died, but those the disk would not remove.
THEOREM DirectoryIsClean == Spec => []ServerLeavesNoFiles
<1>1. IInv => ServerLeavesNoFiles
  <2>0. server = Idle => server.step = "idle"
    BY DEF Idle, Request
  <2>1. IInv /\ server = Idle => \A m \in Model : Clean(m)
    BY <2>0 DEF IInv, DirectoryFits
  <2>2. QED
    BY <2>1 DEF Clean, HeldByCommandLine, ServerLeavesNoFiles
<1>2. QED
  BY <1>1, Inductive, PTL

\* The model an activation replaces becomes the one to roll back to, with its
\* artifact on the disk (activate_model).
THEOREM RollbackIsReady == Spec => ReplacedModelStays
<1>1. ASSUME IInv, IInv', [Next]_vars, NEW m \in Model, NEW o \in Model,
             m # o, IsActive(m), IsActive(o)'
      PROVE  IsPrevious(m)' /\ "artifact" \in files'[m]
  <2>1. Retained(m)' /\ versions'[m].activated > 0 /\ ~versions'[m].active
    <3>1. versions[m] # None /\ versions[m].activated > 0 /\ ~IsActive(o)
      BY <1>1, RowFacts DEF IInv, OneOfEach, IsActive, Retained
    <3>2. CASE UNCHANGED versions
      BY <1>1, <3>1, <3>2 DEF IsActive, Retained
    <3>3. ASSUME NEW c \in Model, Record(c) \/ DeleteRow(c) PROVE FALSE
      <4>1. CASE Record(c)
        <5>1. c # o => versions'[o] = versions[o]
          BY <4>1 DEF Record
        <5>2. versions'[c].active = FALSE
          BY <1>1, <4>1 DEF Record, CandidateRow, IInv, TypeOK
        <5>3. QED
          BY <1>1, <3>1, <5>1, <5>2 DEF IsActive, Retained
      <4>2. CASE DeleteRow(c)
        <5>1. c # o => versions'[o] = versions[o]
          BY <4>2 DEF DeleteRow
        <5>2. versions'[c] = None
          BY <1>1, <4>2 DEF DeleteRow, IInv, TypeOK
        <5>3. QED
          BY <1>1, <3>1, <5>1, <5>2 DEF IsActive, Retained
      <4>3. QED
        BY <3>3, <4>1, <4>2
    <3>4. ASSUME NEW c \in Model, Activate(c)
          PROVE  Retained(m)' /\ versions'[m].activated > 0 /\ ~versions'[m].active
      <4>1. c = o
        BY <1>1, <3>4, ActivationEffect DEF IInv, OneOfEach
      <4>2. versions'[m] = [versions[m] EXCEPT !.active = FALSE]
        BY <1>1, <3>1, <3>4, <4>1 DEF Activate, Retires, IsPrevious, IsActive
      <4>3. /\ versions'[m] \in Row /\ versions'[m].active = FALSE
            /\ versions'[m].activated = versions[m].activated
            /\ versions'[m].retired = versions[m].retired
        BY <1>1, <3>1, <4>2, RowFacts, DeactivatedRow
      <4>4. QED
        BY <1>1, <3>1, <4>3, RowAssumption DEF IsActive, Retained
    <3>5. QED
      BY <3>2, <3>3, <3>4, RowSteps, <1>1 DEF Predict
  <2>2. "artifact" \in files'[m]
    BY <1>1, <2>1 DEF IInv, ServedModelsKeepTheirArtifacts
  <2>3. \A q \in Model : (Retained(q) /\ ~versions[q].active /\ versions[q].activated > 0)'
                         => q = m
    BY <1>1, <2>1 DEF IInv, OneOfEach
  <2>4. versions'[m].activated \in Nat
    BY <1>1, <2>1 DEF IInv, TypeOK, Row, Retained
  <2>5. IsPrevious(m)'
    BY <2>1, <2>3, <2>4 DEF IsPrevious
  <2>6. QED
    BY <2>2, <2>5
<1>2. IInv /\ IInv' /\ [Next]_vars =>
        [\A m, o \in Model :
           m # o /\ IsActive(m) /\ IsActive(o)' => IsPrevious(m)' /\ "artifact" \in files'[m]]_vars
  BY <1>1
<1>3. QED
  BY <1>2, Inductive, PTL DEF Spec, ReplacedModelStays

=============================================================================

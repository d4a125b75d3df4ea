---------------------------- MODULE ModelVersions ----------------------------
(***************************************************************************)
(* The life of the tagging models: tagging/training.py trains a candidate, *)
(* tagging/model_versions.py activates, restores, rejects and retires it,  *)
(* and sweeps the directory of the artifacts.                              *)
(*                                                                         *)
(* A model is a row of the database and a file in models/, and no step     *)
(* writes both.  The server runs one writing request at a time; a training *)
(* started from the command line runs beside it, in a process of its own.  *)
(* Either process can die between any two steps.                           *)
(***************************************************************************)
EXTENDS Naturals

CONSTANTS
  Model,           (* ids, one for each training                            *)
  Taxonomy,        (* checksums of the active categories                    *)
  None,            (* no row, no model                                      *)
  MaxActivations   (* bound on activations                                  *)

ASSUME MaxActivationsAssumption == MaxActivations \in Nat
ASSUME NoneAssumption == None \notin Model

\* activated is activated_at, counted in activations, and 0 for NULL.
Row == [taxonomy : Taxonomy, active : BOOLEAN, activated : Nat, retired : BOOLEAN]

ASSUME RowAssumption == None \notin Row

\* What a training has done: the file it dumps is renamed, read back and
\* recorded; a training that fails clears up, one whose process dies does not.
Stage == {"none", "fitted", "dumped", "renamed", "verified",
          "recorded", "failed", "dead"}
Running == {"fitted", "dumped", "renamed", "verified"}

\* The names a model's file can have: .tmp, .joblib and .delete
FileName == {"temporary", "artifact", "aside"}

VARIABLES
  versions,    \* the ModelVersion rows
  files,       \* the names of each model's files in models/
  refused,     \* files the disk would not remove since the last sweep began (history)
  training,    \* of each model: its stage, the process it runs in, its taxonomy
  taxonomy,    \* the checksum of the taxonomy as it is now
  activations, \* the clock of activated_at
  predictions, \* the models that staged rows name in model_version_id
  server       \* the writing request that is being served

vars == <<versions, files, refused, training, taxonomy, activations, predictions, server>>

\* down: no server.  activate, reject: the artifact is verified, or moved
\* aside, and the database is not written yet.  Then the two clean up: discard
\* their own file and sweep the directory, as the startup does.
ServerStep == {"down", "idle", "train", "activate", "reject", "discard", "refer", "list", "remove"}

Process == {"server", "cli"}

TypeOK ==
  /\ versions \in [Model -> Row \cup {None}]
  /\ files \in [Model -> SUBSET FileName]
  /\ refused \subseteq Model \X FileName
  /\ training \in [Model -> [stage : Stage, in : Process, taxonomy : Taxonomy]]
  /\ taxonomy \in Taxonomy
  /\ activations \in Nat
  /\ predictions \subseteq Model
  /\ server \in [step : ServerStep, model : Model \cup {None},
                 referenced : SUBSET Model, doomed : SUBSET (Model \X FileName)]

Request(step, m) == [step |-> step, model |-> m, referenced |-> {}, doomed |-> {}]
Idle == Request("idle", None)

Init ==
  /\ versions = [m \in Model |-> None]
  /\ files = [m \in Model |-> {}]
  /\ refused = {}
  /\ taxonomy \in Taxonomy
  /\ training = [m \in Model |-> [stage |-> "none", in |-> "cli", taxonomy |-> taxonomy]]
  /\ activations = 0
  /\ predictions = {}
  /\ server = Request("refer", None)

-----------------------------------------------------------------------------
(* The rows *)

Retained(m) == versions[m] # None /\ ~versions[m].retired

IsActive(m) == Retained(m) /\ versions[m].active

\* fault: candidate_model does not look at activated_at
IsInactive(m) == Retained(m) /\ ~versions[m].active

IsCandidate(m) == Retained(m) /\ ~versions[m].active /\ versions[m].activated = 0

\* previous_model: the inactive one that was activated last
IsPrevious(m) ==
  LET inactive == {o \in Model : Retained(o) /\ ~versions[o].active /\ versions[o].activated > 0}
  IN m \in inactive /\ \A o \in inactive : versions[o].activated <= versions[m].activated

\* fault: without uq_one_model_candidate
AnyNumberOfCandidates == TRUE

\* uq_one_model_candidate, for a row that would be a candidate
NoCandidate == \A m \in Model : ~IsCandidate(m)

-----------------------------------------------------------------------------
(* Training *)

Advance(m, stage) == training' = [training EXCEPT ![m].stage = stage]

Release(m) ==
  server' = IF training[m].in = "server" THEN Idle ELSE server

\* train_model reads the taxonomy first.  The server trains in one request.
StartTraining(m, process) ==
  /\ training[m].stage = "none"
  /\ NoCandidate
  /\ training' = [training EXCEPT ![m] = [stage |-> "fitted", in |-> process, taxonomy |-> taxonomy]]
  /\ \/ process = "server" /\ server = Idle /\ server' = Request("train", m)
     \/ process = "cli" /\ UNCHANGED server
  /\ UNCHANGED <<versions, files, refused, taxonomy, activations, predictions>>

Dump(m) ==
  /\ training[m].stage = "fitted"
  /\ Advance(m, "dumped")
  /\ files' = [files EXCEPT ![m] = @ \cup {"temporary"}]
  /\ UNCHANGED <<versions, refused, taxonomy, activations, predictions, server>>

\* A sweep of the server may have removed the file.
Rename(m) ==
  /\ training[m].stage = "dumped" /\ "temporary" \in files[m]
  /\ Advance(m, "renamed")
  /\ files' = [files EXCEPT ![m] = (@ \ {"temporary"}) \cup {"artifact"}]
  /\ UNCHANGED <<versions, refused, taxonomy, activations, predictions, server>>

\* _file_hash and verify_model_artifact read the file back.
ReadBack(m) ==
  /\ training[m].stage = "renamed" /\ "artifact" \in files[m]
  /\ Advance(m, "verified")
  /\ UNCHANGED <<versions, files, refused, taxonomy, activations, predictions, server>>

\* fault: the row does not keep the taxonomy of the training
UnlabelledRow(m) == [taxonomy |-> None, active |-> FALSE, activated |-> 0, retired |-> FALSE]

CandidateRow(m) ==
  [taxonomy |-> training[m].taxonomy, active |-> FALSE, activated |-> 0, retired |-> FALSE]

\* The commit does not look at the file again.
Record(m) ==
  /\ training[m].stage = "verified" /\ NoCandidate
  /\ versions' = [versions EXCEPT ![m] = CandidateRow(m)]
  /\ Advance(m, "recorded")
  /\ Release(m)
  /\ UNCHANGED <<files, refused, taxonomy, activations, predictions>>

\* Too few labels, the file is gone, another candidate was recorded first, or the
\* disk or the database fails: the training clears up its own file, if it can.
FailTraining(m) ==
  /\ training[m].stage \in Running
  /\ Advance(m, "failed")
  /\ \/ files' = [files EXCEPT ![m] = {}] /\ UNCHANGED refused
     \/ files[m] # {} /\ UNCHANGED files /\ refused' = refused \cup ({m} \X files[m])
  /\ Release(m)
  /\ UNCHANGED <<versions, taxonomy, activations, predictions>>

-----------------------------------------------------------------------------
(* Activation and rejection, requests of the server *)

Serves(m, step) == server.step = step /\ server.model = m

\* activate_model up to _verify_for_activation
VerifyForActivation(m) ==
  /\ server = Idle
  /\ Retained(m) /\ ~versions[m].active
  /\ \A o \in Model : IsCandidate(o) => o = m
  /\ IsCandidate(m) \/ IsPrevious(m)
  /\ "artifact" \in files[m]
  /\ versions[m].taxonomy = taxonomy
  /\ server' = Request("activate", m)
  /\ UNCHANGED <<versions, files, refused, training, taxonomy, activations, predictions>>

\* fault: the model that the candidate replaces is retired
RetiresCurrent(o, m) == IsCandidate(m) /\ IsActive(o)

\* A candidate that replaces a model retires the previous one.
Retires(o, m) == IsCandidate(m) /\ IsPrevious(o) /\ \E c \in Model : IsActive(c)

\* One commit.  The artifacts of retired models go in the sweep that follows.
Activate(m) ==
  /\ Serves(m, "activate") /\ activations < MaxActivations
  /\ activations' = activations + 1
  /\ versions' = [o \in Model |->
       IF o = m THEN [versions[m] EXCEPT !.active = TRUE, !.activated = activations + 1,
                                         !.retired = FALSE]
       ELSE IF Retires(o, m) THEN [versions[o] EXCEPT !.active = FALSE, !.retired = TRUE]
       ELSE IF IsActive(o) THEN [versions[o] EXCEPT !.active = FALSE]
       ELSE versions[o]]
  /\ server' = Request("refer", m)
  /\ UNCHANGED <<files, refused, training, taxonomy, predictions>>

\* reject_candidate moves the artifact aside, if it is there.
MoveAside(m) ==
  /\ server = Idle /\ IsCandidate(m)
  /\ files' = [files EXCEPT ![m] =
       IF "artifact" \in @ THEN (@ \ {"artifact"}) \cup {"aside"} ELSE @]
  /\ server' = Request("reject", m)
  /\ UNCHANGED <<versions, refused, training, taxonomy, activations, predictions>>

DeleteRow(m) ==
  /\ Serves(m, "reject")
  /\ versions' = [versions EXCEPT ![m] = None]
  /\ server' = Request("discard", m)
  /\ UNCHANGED <<files, refused, training, taxonomy, activations, predictions>>

\* The commit of the deletion failed: the artifact goes back, if the disk lets it.
PutBack(m) ==
  /\ Serves(m, "reject")
  /\ \/ /\ files' = [files EXCEPT ![m] =
             IF "aside" \in @ THEN (@ \ {"aside"}) \cup {"artifact"} ELSE @]
        /\ UNCHANGED refused
     \/ "aside" \in files[m] /\ UNCHANGED files /\ refused' = refused \cup {<<m, "aside">>}
  /\ server' = Idle
  /\ UNCHANGED <<versions, training, taxonomy, activations, predictions>>

\* A failed unlink is logged, here and in the sweep.
Discard(m) ==
  /\ Serves(m, "discard")
  /\ files' = [files EXCEPT ![m] = @ \ {"aside"}] \/ UNCHANGED files
  /\ server' = Request("refer", m)
  /\ UNCHANGED <<versions, refused, training, taxonomy, activations, predictions>>

-----------------------------------------------------------------------------
(* reconcile_model_artifacts, after an activation or a rejection and at the *)
(* startup                                                                  *)

\* fault: only the active model refers to its artifact
ReferencedActive == {m \in Model : IsActive(m)}

Referenced == {m \in Model : Retained(m)}

\* The artifacts of retired models are unlinked, as far as the disk lets them,
\* then the names are read.
Refer ==
  /\ server.step = "refer"
  /\ \E unlinked \in SUBSET {m \in Model : versions[m] # None /\ ~Retained(m)} :
       files' = [m \in Model |-> IF m \in unlinked THEN files[m] \ {"artifact"} ELSE files[m]]
  /\ refused' = {}
  /\ server' = [server EXCEPT !.step = "list", !.referenced = Referenced]
  /\ UNCHANGED <<versions, training, taxonomy, activations, predictions>>

\* fault: the names that begin with a dot are skipped
ArtifactsToRemove(referenced) ==
  {f \in Model \X FileName : /\ f[2] \in files[f[1]]
                             /\ f[2] = "artifact" /\ f[1] \notin referenced}

\* Every temporary name, and each artifact that no row read above names
ToRemove(referenced) ==
  {f \in Model \X FileName : /\ f[2] \in files[f[1]]
                             /\ f[2] = "artifact" => f[1] \notin referenced}

\* iterdir lists the directory once.
List ==
  /\ server.step = "list"
  /\ server' = [server EXCEPT !.step = "remove", !.doomed = ToRemove(server.referenced)]
  /\ UNCHANGED <<versions, files, refused, training, taxonomy, activations, predictions>>

\* A file that is gone by now is no error (missing_ok).
Remove ==
  /\ server.step = "remove"
  /\ \E f \in server.doomed :
       /\ \/ files' = [files EXCEPT ![f[1]] = @ \ {f[2]}] /\ UNCHANGED refused
          \/ f[2] \in files[f[1]] /\ UNCHANGED files /\ refused' = refused \cup {f}
       /\ server' = [server EXCEPT !.doomed = @ \ {f}]
  /\ UNCHANGED <<versions, training, taxonomy, activations, predictions>>

Respond ==
  /\ server.step = "remove" /\ server.doomed = {}
  /\ server' = Idle
  /\ UNCHANGED <<versions, files, refused, training, taxonomy, activations, predictions>>

-----------------------------------------------------------------------------
(* Tagging, the taxonomy, and the two processes *)

\* prepare_tagging and apply_tagging for a batch: the active model predicts if
\* its artifact loads.
Predict(m) ==
  /\ server = Idle
  /\ IsActive(m) /\ "artifact" \in files[m]
  /\ predictions' = predictions \cup {m}
  /\ UNCHANGED <<versions, files, refused, training, taxonomy, activations, server>>

EditTaxonomy ==
  /\ server = Idle
  /\ taxonomy' \in Taxonomy \ {taxonomy}
  /\ UNCHANGED <<versions, files, refused, training, activations, predictions, server>>

Dead(process) ==
  training' = [m \in Model |->
    IF training[m].in = process /\ training[m].stage \in Running
    THEN [training[m] EXCEPT !.stage = "dead"] ELSE training[m]]

CrashServer ==
  /\ server.step # "down"
  /\ server' = Request("down", None)
  /\ Dead("server")
  /\ UNCHANGED <<versions, files, refused, taxonomy, activations, predictions>>

\* create_app sweeps the directory before it serves a request.
StartServer ==
  /\ server.step = "down"
  /\ server' = Request("refer", None)
  /\ UNCHANGED <<versions, files, refused, training, taxonomy, activations, predictions>>

CrashCommandLine ==
  /\ \E m \in Model : training[m].in = "cli" /\ training[m].stage \in Running
  /\ Dead("cli")
  /\ UNCHANGED <<versions, files, refused, taxonomy, activations, predictions, server>>

Next ==
  \/ \E m \in Model :
       \/ \E process \in Process : StartTraining(m, process)
       \/ Dump(m) \/ Rename(m) \/ ReadBack(m) \/ Record(m) \/ FailTraining(m)
       \/ VerifyForActivation(m) \/ Activate(m)
       \/ MoveAside(m) \/ DeleteRow(m) \/ PutBack(m) \/ Discard(m)
       \/ Predict(m)
  \/ Refer \/ List \/ Remove \/ Respond
  \/ EditTaxonomy
  \/ CrashServer \/ StartServer \/ CrashCommandLine

Spec == Init /\ [][Next]_vars

-----------------------------------------------------------------------------
(* Properties *)

\* Whatever a sweep races with and wherever a process dies, the artifacts of
\* the active model and of the one kept for rollback stay on the disk
\* (activate_model, reject_candidate, reconcile_model_artifacts).
ServedModelsKeepTheirArtifacts ==
  \A m \in Model : Retained(m) /\ versions[m].activated > 0 => "artifact" \in files[m]

\* There is at most one candidate, though the command line and the server
\* train at once, and one active model with one to roll back to: as many as
\* the activations allow.
OneOfEach ==
  /\ \A m, o \in Model : IsCandidate(m) /\ IsCandidate(o) => m = o
  /\ \A m, o \in Model : IsActive(m) /\ IsActive(o) => m = o
  /\ \A m, o \in Model :
       /\ Retained(m) /\ ~versions[m].active /\ versions[m].activated > 0
       /\ Retained(o) /\ ~versions[o].active /\ versions[o].activated > 0
       => m = o
  /\ activations > 0 => \E m \in Model : IsActive(m)

\* The rows that staged transactions name stay for the audit, retired or not.
PredictionsKeepTheirVersion == \A m \in predictions : versions[m] # None

\* While the server serves, the directory holds no file but the artifacts of
\* the models kept, what a training of the command line left or is writing, and
\* what the disk refused to remove since the last sweep: nothing of a rejected or
\* retired model, and nothing of a request that died, stays for another reason
\* (train_model, reject_candidate, reconcile_model_artifacts).
ServerLeavesNoFiles ==
  server = Idle =>
    \A m \in Model : \A f \in files[m] :
      \/ f = "artifact" /\ Retained(m)
      \/ training[m].in = "cli" /\ training[m].stage \in Running \cup {"dead"}
      \/ <<m, f>> \in refused

\* The model that an activation replaces is the one to roll back to, with its
\* artifact: no activation loses it.
ReplacedModelStays ==
  [][\A m, o \in Model :
       m # o /\ IsActive(m) /\ IsActive(o)' => IsPrevious(m)' /\ "artifact" \in files'[m]]_vars

=============================================================================

---------------------------- MODULE ModelServing ----------------------------
(***************************************************************************)
(* Model inference: the bidding server's periodic model fetcher, which     *)
(* registers the models of a configuration file with the inference sidecar *)
(* and deletes the ones that left it; the sidecar's model store with its   *)
(* production and consented copies; its thread that resets the production  *)
(* copies; and a batched prediction running beside all of them.            *)
(***************************************************************************)
EXTENDS Integers, Sequences, FiniteSets

CONSTANTS
  ModelPaths,   \* the models a configuration may name
  MaxModelEvents, \* bound: edits of configuration or bucket, failures, predictions
  MaxModelRounds  \* bound: rounds of fetching

VARIABLES
  framework,    \* tensorflow, pytorch
  grace,        \* path -> its eviction grace period
  mconfig,      \* path -> {} or {checksum}: 0 = left empty
  bucket,       \* path -> the version of its files
  mentries,     \* model_entry_map_: path -> {} or {[checksum, mstate]}
  timers,       \* deletions scheduled for the end of a grace period
  mround,       \* what the holder of model_entry_mutex_ does
  rconfig,      \* the configuration this round has fetched
  todo,         \* the models this step of a round has still to handle
  fetchedFiles, \* the snapshot registered from
  mfailed,      \* models whose registration failed in this round
  sidecarUp,
  ram,          \* path -> its files in TensorFlow's RAM file system
  modelData, prodModel, consentedModel, inferenceCount, modelPaths,
  resetting,    \* the model being rebuilt under model_data_mutex_, its request
  owed,         \* production copies that ran a request no reset decision saw
  unserialised, \* some batch ran whose outputs had no JSON form
  batch,        \* the prediction: requests, consent, models found, outputs
  mevents, faulty, mrounds

fetcherVars == <<mentries, timers, mround, rconfig, todo, fetchedFiles, mfailed, mrounds>>
storeVars == <<ram, modelData, prodModel, consentedModel, inferenceCount, modelPaths>>
modelVars == <<framework, grace, mconfig, bucket, fetcherVars, sidecarUp, storeVars, resetting, owed,
               unserialised, batch, mevents, faulty>>

(* Version 1 of a directory has two files, version 2 one; a single file      *)
(* stands under its own name.                                                *)
Files(p, v) == {<<n, v>> : n \in IF p = "dir/" /\ v = 1 THEN {1, 2} ELSE {1}}
Put1(f, p, x) == [f EXCEPT ![p] = {x}]
Drop(f, p) == [f EXCEPT ![p] = {}]
NoBatch == [stage |-> "none", reqs |-> <<>>, consented |-> FALSE, models |-> <<>>, out |-> <<>>]

ModelInit ==
  /\ framework \in {"tensorflow", "pytorch"} /\ grace \in [ModelPaths -> {0, 1}]
  /\ mconfig \in {[p \in ModelPaths |-> {c}] : c \in {0, 1}} /\ bucket = [p \in ModelPaths |-> 1]
  /\ mentries = [p \in ModelPaths |-> {}] /\ timers = {} /\ mround = "idle" /\ todo = {}
  /\ rconfig = [p \in ModelPaths |-> {}] /\ mrounds = 0
  /\ fetchedFiles = [p \in ModelPaths |-> 0] /\ mfailed = {} /\ sidecarUp = TRUE
  /\ ram = [p \in ModelPaths |-> {}] /\ modelData = ram /\ prodModel = ram /\ consentedModel = ram
  /\ inferenceCount = [p \in ModelPaths |-> 0] /\ modelPaths = {} /\ resetting = {} /\ owed = {}
  /\ unserialised = FALSE /\ batch = NoBatch /\ mevents = 0 /\ faulty = FALSE

Event == mevents < MaxModelEvents /\ mevents' = mevents + 1
Fault == Event /\ faulty' = TRUE
NoFault == UNCHANGED <<mevents, faulty>>

(* An operator edits the configuration, or replaces a model's files.  A      *)
(* change after a round has fetched them is one after that round.            *)
EditConfig(p) ==
  /\ Event
  /\ \/ /\ mround = "idle" /\ UNCHANGED bucket
        /\ \E c \in {{}, {1}, {2}} \ {mconfig[p]} : mconfig' = [mconfig EXCEPT ![p] = c]
     \/ /\ mround \in {"idle", "deleting"} /\ UNCHANGED mconfig
        /\ bucket' = [bucket EXCEPT ![p] = 3 - bucket[p]]
  /\ UNCHANGED <<framework, grace, fetcherVars, sidecarUp, storeVars, resetting, owed, unserialised,
                 batch, faulty>>


-----------------------------------------------------------------------------
(* The sidecar: the model store.  Four locks are taken for a change of all   *)
(* copies; model_data_mutex_ is held through the rebuilding of one.          *)

(* What a model is built from, and warmed up: TensorFlow loads the files it  *)
(* finds under the path in RAM, PyTorch the ones in the request.             *)
TensorFlowModelConstructor(request, files) == files
PyTorchModelConstructor(request, files) == request
ModelConstructor(p, request, files) ==
  IF framework = "tensorflow" THEN TensorFlowModelConstructor(request, files)
  ELSE PyTorchModelConstructor(request, files)

SetAll(p, request, files) ==
  /\ modelData' = Put1(modelData, p, request)
  /\ prodModel' = Put1(prodModel, p, ModelConstructor(p, request, files))
  /\ consentedModel' = Put1(consentedModel, p, ModelConstructor(p, request, files))
  /\ inferenceCount' = [inferenceCount EXCEPT ![p] = 0]
  /\ owed' = owed \ {p}
PutModel(p, request, files) == resetting = {} /\ SetAll(p, request, files)

GetModel(p, consented) ==
  IF p \notin ModelPaths THEN {} ELSE IF consented THEN consentedModel[p] ELSE prodModel[p]

DeleteAll(p) ==
  /\ modelData' = Drop(modelData, p) /\ prodModel' = Drop(prodModel, p)
  /\ consentedModel' = Drop(consentedModel, p)
  /\ inferenceCount' = [inferenceCount EXCEPT ![p] = 0] /\ owed' = owed \ {p}
(* Mutant: the deletion does not wait for a copy that is being rebuilt. *)
StoreDeleteModelUnlocked(p) == DeleteAll(p)
StoreDeleteModel(p) == resetting = {} /\ DeleteAll(p)

(* The background thread takes a model's count, sets it to 0 and draws       *)
(* whether to reset; a reset looks the model up again, under the lock it     *)
(* keeps while it rebuilds the copy.                                         *)
ResetModels(p) ==
  /\ resetting = {} /\ inferenceCount[p] > 0
  /\ inferenceCount' = [inferenceCount EXCEPT ![p] = 0] /\ owed' = owed \ {p}
  /\ resetting' \in {{}} \cup {{<<p, request>>} : request \in modelData[p]}

(* A copy that cannot be rebuilt ends the sidecar, which is never restarted. *)
ResetModel ==
  /\ sidecarUp /\ resetting' = {}
  /\ \E reset \in resetting :
       LET p == reset[1]
       IN \/ /\ NoFault /\ UNCHANGED sidecarUp
             /\ prodModel' = Put1(prodModel, p, ModelConstructor(p, reset[2], ram[p]))
          \/ Fault /\ sidecarUp' = FALSE /\ UNCHANGED prodModel
  /\ UNCHANGED <<framework, grace, mconfig, bucket, fetcherVars, ram, modelData, consentedModel,
                 inferenceCount, modelPaths, owed, unserialised, batch>>

ResetThread ==
  /\ sidecarUp /\ \E p \in ModelPaths : ResetModels(p)
  /\ UNCHANGED <<framework, grace, mconfig, bucket, fetcherVars, sidecarUp, ram, modelData, prodModel,
                 consentedModel, modelPaths, unserialised, batch, mevents, faulty>>

-----------------------------------------------------------------------------
(* The sidecar: registration and deletion, and what they answer.             *)

(* Files of an earlier registration stay in RAM: only the ones named in the  *)
(* request are written over.                                                 *)
SaveToRamFileSystem(p, files) ==
  {f \in ram[p] : \A g \in files : g[1] # f[1]} \cup files

(* A model that is registered is refused; PyTorch takes exactly one file. *)
TensorflowRefuses(p, files) == prodModel[p] # {}
PyTorchRefuses(p, files) == prodModel[p] # {} \/ Cardinality(files) # 1
Refused(p, files) ==
  IF framework = "tensorflow" THEN TensorflowRefuses(p, files) ELSE PyTorchRefuses(p, files)

RegisterModelOk(p, files) ==
  /\ sidecarUp /\ ~Refused(p, files) /\ NoFault
  /\ LET saved == IF framework = "tensorflow" THEN SaveToRamFileSystem(p, files) ELSE ram[p]
     IN ram' = [ram EXCEPT ![p] = saved] /\ PutModel(p, files, saved)
  /\ modelPaths' = modelPaths \cup {p}
(* A sidecar that is down, a refusal, and what the loader or the validator   *)
(* rejects: by then TensorFlow's files were written.                         *)
RegisterModelFails(p, files) ==
  /\ \/ (~sidecarUp \/ Refused(p, files)) /\ NoFault /\ UNCHANGED ram
     \/ /\ sidecarUp /\ ~Refused(p, files) /\ Fault
        /\ ram' = [ram EXCEPT ![p] = IF framework = "tensorflow"
                                     THEN SaveToRamFileSystem(p, files) ELSE ram[p]]
  /\ UNCHANGED <<modelData, prodModel, consentedModel, inferenceCount, owed, modelPaths>>

(* The store's deletion, and a failure: the call does not reach a sidecar    *)
(* that can do it.                                                           *)
DeleteModelOk(p) ==
  sidecarUp /\ modelData[p] # {} /\ StoreDeleteModel(p) /\ modelPaths' = modelPaths \ {p} /\ NoFault
DeleteModelFails(p) ==
  /\ IF ~sidecarUp \/ modelData[p] = {} THEN NoFault ELSE Fault
  /\ UNCHANGED <<modelData, prodModel, consentedModel, inferenceCount, owed, modelPaths>>

-----------------------------------------------------------------------------
(* The fetcher.  A round holds model_entry_mutex_ from its first fetch to    *)
(* its last registration; a scheduled deletion takes it too.                 *)
Entry(p) == CHOOSE e \in mentries[p] : TRUE
SetState(p, s) == [mentries EXCEPT ![p] = {[checksum |-> Entry(p).checksum, mstate |-> s]}]
otherVars == <<framework, grace, mconfig, bucket, sidecarUp, resetting, unserialised, batch>>

(* The entry is in deletion before the call, and stays so if it fails. *)
DeleteModel(p) ==
  /\ \/ DeleteModelOk(p) /\ mentries' = Drop(mentries, p)
     \/ DeleteModelFails(p) /\ mentries' = SetState(p, "deletion")
  /\ UNCHANGED ram

Garbage(config) == {p \in ModelPaths : mentries[p] # {} /\ config[p] # {Entry(p).checksum}}

(* A configuration that cannot be fetched or parsed leaves all as it is. *)
FetchModelConfig ==
  /\ mround = "idle" /\ mrounds < MaxModelRounds /\ mrounds' = mrounds + 1 /\ mfailed' = {}
  /\ \/ NoFault /\ mround' = "deleting" /\ todo' = Garbage(mconfig) /\ rconfig' = mconfig
     \/ Fault /\ UNCHANGED <<mround, todo, rconfig>>
  /\ UNCHANGED <<mentries, timers, fetchedFiles, storeVars, owed, otherVars>>

(* One model of the garbage: already scheduled, scheduled now, or deleted.   *)
DeleteModels ==
  /\ mround = "deleting"
  /\ \E p \in todo :
       /\ todo' = todo \ {p}
       /\ \/ /\ Entry(p).mstate = "grace"
             /\ UNCHANGED <<mentries, timers, storeVars, owed, mevents, faulty>>
          \/ /\ Entry(p).mstate = "active" /\ grace[p] > 0
             /\ mentries' = SetState(p, "grace") /\ timers' = timers \cup {p}
             /\ UNCHANGED <<storeVars, owed, mevents, faulty>>
          \/ /\ Entry(p).mstate = "deletion" \/ (Entry(p).mstate = "active" /\ grace[p] = 0)
             /\ DeleteModel(p) /\ UNCHANGED timers
  /\ UNCHANGED <<mround, rconfig, fetchedFiles, mfailed, mrounds, otherVars>>

(* Then the models of the configuration that have no entry are fetched.      *)
FetchModels ==
  /\ mround = "deleting" /\ todo = {}
  /\ LET pending == {p \in ModelPaths : rconfig[p] # {} /\ mentries[p] = {}}
     IN /\ mfailed' = {p \in ModelPaths : rconfig[p] # {} /\ mentries[p] # {}
                                          /\ Entry(p).mstate # "active"}
        /\ \/ NoFault /\ mround' = "registering" /\ todo' = pending /\ fetchedFiles' = bucket
           \/ pending # {} /\ Fault /\ mround' = "idle" /\ UNCHANGED <<todo, fetchedFiles>>
  /\ UNCHANGED <<mentries, timers, rconfig, mrounds, storeVars, owed, otherVars>>

ConfiguredSum(p) == CHOOSE c \in rconfig[p] \cup {0} : rconfig[p] = {} \/ c \in rconfig[p]

(* The checksum is optional; given, it must be the files'. *)
ChecksumMatches(p, c) == c = 0 \/ c = fetchedFiles[p]

InternalModelFetchAndRegistration ==
  /\ mround = "registering"
  /\ \E p \in todo :
       LET files == Files(p, fetchedFiles[p])
       IN /\ todo' = todo \ {p}
          /\ \/ /\ ~ChecksumMatches(p, ConfiguredSum(p)) /\ mfailed' = mfailed \cup {p} /\ NoFault
                /\ UNCHANGED <<mentries, storeVars, owed>>
             \/ /\ ChecksumMatches(p, ConfiguredSum(p)) /\ RegisterModelOk(p, files)
                /\ mentries' = [mentries EXCEPT ![p] = {[checksum |-> ConfiguredSum(p), mstate |-> "active"]}]
                /\ UNCHANGED mfailed
             \/ /\ ChecksumMatches(p, ConfiguredSum(p)) /\ RegisterModelFails(p, files)
                /\ mfailed' = mfailed \cup {p} /\ UNCHANGED mentries
  /\ UNCHANGED <<mround, timers, rconfig, mrounds, fetchedFiles, otherVars>>

(* The round is over; the next is scheduled. *)
InternalPeriodicModelFetchAndRegistration ==
  /\ mround = "registering" /\ todo = {} /\ mround' = "idle"
  /\ UNCHANGED <<mentries, timers, rconfig, mrounds, todo, fetchedFiles, mfailed, storeVars, owed,
                 otherVars, mevents, faulty>>

(* A grace period ends: the model is deleted, also if it is in the           *)
(* configuration again, and also after End.                                  *)
DeferredDeletion(p) ==
  /\ p \in timers /\ mround \in {"idle", "ended"} /\ timers' = timers \ {p}
  /\ DeleteModel(p)
  /\ UNCHANGED <<mround, rconfig, mrounds, todo, fetchedFiles, mfailed, otherVars>>

(* End cancels the scheduled round and no scheduled deletion, with which it  *)
(* is looked at.                                                             *)
EndModelFetch ==
  /\ mround = "idle" /\ timers # {} /\ mround' = "ended"
  /\ UNCHANGED <<mentries, timers, rconfig, mrounds, todo, fetchedFiles, mfailed, storeVars, owed,
                 otherVars, mevents, faulty>>

-----------------------------------------------------------------------------
(* One prediction: RunInference's batch, handled by the sidecar.  A request  *)
(* names a model or could not be parsed; the batch has one for a model and   *)
(* one that is malformed or for a model nobody registered.                   *)
InferenceRequest(p, ok) == [path |-> p, ok |-> ok]
Out(p, e, m) == [path |-> p, error |-> e, model |-> m]
predictFrame == <<framework, grace, mconfig, bucket, fetcherVars, ram, modelData, prodModel, consentedModel,
                  modelPaths, resetting>>

RunInference ==
  /\ batch.stage = "none" /\ Event
  /\ \E c \in BOOLEAN, p \in ModelPaths :
       IF sidecarUp
       THEN batch' = [NoBatch EXCEPT !.stage = "lookup", !.consented = c,
                                     !.reqs = <<InferenceRequest("unknown", c), InferenceRequest(p, TRUE)>>]
       ELSE batch' = [NoBatch EXCEPT !.stage = "answered", !.out = <<Out("batch", "GRPC", {})>>]
  /\ UNCHANGED <<predictFrame, sidecarUp, inferenceCount, owed, unserialised, faulty>>

(* The models are looked up one by one, and their tasks started. *)
StartTask ==
  /\ sidecarUp /\ batch.stage = "lookup" /\ Len(batch.models) < Len(batch.reqs)
  /\ LET r == batch.reqs[Len(batch.models) + 1]
         found == IF r.ok THEN GetModel(r.path, batch.consented) ELSE {}
     IN /\ batch' = [batch EXCEPT !.models = Append(@, found)]
        /\ owed' = IF found # {} /\ ~batch.consented THEN owed \cup {r.path} ELSE owed
  /\ UNCHANGED <<predictFrame, sidecarUp, inferenceCount, unserialised, mevents, faulty>>

(* What a task may answer with: the model's output, or an error of           *)
(* conversion or execution.                                                  *)
TaskOutput(i, fails) ==
  IF ~batch.reqs[i].ok THEN Out(batch.reqs[i].path, "INPUT_PARSING", {})
  ELSE IF batch.models[i] = {} THEN Out(batch.reqs[i].path, "MODEL_NOT_FOUND", {})
  ELSE IF i \in fails THEN Out(batch.reqs[i].path, "MODEL_EXECUTION", {})
  ELSE Out(batch.reqs[i].path, "none", batch.models[i])

(* Every request that could be parsed counts for its model, if that is still *)
(* registered; the count is kept at 1, as any number asks for a reset.       *)
IncrementModelInferenceCount(out) ==
  inferenceCount' =
    [p \in ModelPaths |->
       IF modelData[p] # {} /\ \E i \in DOMAIN out : batch.reqs[i] = InferenceRequest(p, TRUE)
       THEN 1 ELSE inferenceCount[p]]

BatchOutputs(fails) == [i \in DOMAIN batch.reqs |-> TaskOutput(i, fails)]

(* An output that has no JSON form costs the batch its outputs, and leaves   *)
(* the requests uncounted.                                                   *)
Predict ==
  /\ sidecarUp /\ batch.stage = "lookup" /\ Len(batch.models) = Len(batch.reqs)
  /\ \/ \E fails \in {{}, {2}} : \E out \in {BatchOutputs(fails)} :
          /\ batch' = [batch EXCEPT !.stage = "answered", !.out = out]
          /\ IncrementModelInferenceCount(out) /\ UNCHANGED unserialised
     \/ /\ \E i \in DOMAIN batch.models : batch.models[i] # {}
        /\ batch' = [batch EXCEPT !.stage = "answered", !.out = <<Out("batch", "OUTPUT_PARSING", {})>>]
        /\ unserialised' = TRUE /\ UNCHANGED inferenceCount
  /\ UNCHANGED <<predictFrame, sidecarUp, owed, mevents, faulty>>
(* The sidecar died under the call. *)
PredictLost ==
  /\ ~sidecarUp /\ batch.stage = "lookup"
  /\ batch' = [batch EXCEPT !.stage = "answered", !.out = <<Out("batch", "GRPC", {})>>]
  /\ UNCHANGED <<predictFrame, sidecarUp, inferenceCount, owed, unserialised, mevents, faulty>>

RoundStep == DeleteModels \/ FetchModels \/ InternalModelFetchAndRegistration
             \/ InternalPeriodicModelFetchAndRegistration
ModelProgress ==
  \/ RoundStep \/ ResetModel \/ ResetThread \/ StartTask \/ Predict \/ PredictLost
  \/ \E p \in ModelPaths : DeferredDeletion(p)
ModelNext ==
  \/ ModelProgress \/ FetchModelConfig \/ EndModelFetch \/ RunInference
  \/ \E p \in ModelPaths : EditConfig(p)

-----------------------------------------------------------------------------
(* All copies of a model are built from the request it was registered with,  *)
(* and exist together; the files TensorFlow keeps of an earlier registration *)
(* are the only ones that may be among them.                                 *)
CopiesMatchTheirRequest ==
  \A p \in ModelPaths :
    /\ modelData[p] = {} <=> prodModel[p] = {}
    /\ modelData[p] = {} <=> consentedModel[p] = {}
    /\ \A r \in modelData[p], m \in prodModel[p] \cup consentedModel[p] :
         r \subseteq m /\ (framework = "pytorch" => m = r)
    /\ prodModel[p] = consentedModel[p]

(* A model the fetcher believes to be serving is registered, from files with *)
(* the checksum its entry has; what the sidecar has, the fetcher knows of.   *)
EntriesMatchTheSidecar ==
  (sidecarUp /\ mround = "idle") =>
    \A p \in ModelPaths :
      /\ mentries[p] # {} => modelData[p] # {}
      /\ modelData[p] # {} => mentries[p] # {}
      /\ \A e \in mentries[p], r \in modelData[p] :
           e.checksum # 0 => \E v \in {e.checksum} : r = Files(p, v)
      /\ modelData[p] # {} <=> p \in modelPaths

(* A round leaves active exactly the configured models it has not reported   *)
(* as failed, each with its checksum.  Unless a call failed, the failed ones *)
(* are those with wrong files, more files than PyTorch takes, or in their    *)
(* grace period, put back with their old checksum included.                  *)
RoundServesTheConfig ==
  (mround = "registering" /\ todo = {}) =>
    \A p \in ModelPaths :
      /\ (\E e \in mentries[p] : e.mstate = "active" /\ rconfig[p] = {e.checksum})
           <=> (rconfig[p] # {} /\ p \notin mfailed)
      /\ \A e \in mentries[p] : e.mstate = "active" => rconfig[p] = {e.checksum}
      /\ (p \in mfailed /\ ~faulty) =>
           \/ p \in timers \/ ~ChecksumMatches(p, ConfiguredSum(p))
           \/ framework = "pytorch" /\ Cardinality(Files(p, fetchedFiles[p])) # 1

(* A production copy that ran a request gets a reset decision that has seen  *)
(* it: the request is counted, or still running.  A batch whose outputs      *)
(* could not be written escapes.                                             *)
InferencesAreCounted ==
  \A p \in owed : \/ inferenceCount[p] > 0 \/ batch.stage = "lookup"
                  \/ unserialised \/ ~sidecarUp \/ \E reset \in resetting : reset[1] = p

(* A batch's outputs answer its requests in order, each with its own model.  *)
OutputsFollowRequests ==
  (batch.stage = "answered" /\ Len(batch.out) = Len(batch.reqs)) =>
    \A i \in DOMAIN batch.reqs :
      /\ batch.out[i].path = batch.reqs[i].path
      /\ batch.out[i].model = IF batch.out[i].error = "none" THEN batch.models[i] ELSE {}
      /\ batch.out[i].error = "none" => batch.models[i] # {}
      /\ batch.models[i] # {} => batch.out[i].error \in {"none", "MODEL_EXECUTION"}

(* A scheduled deletion is carried out. *)
DeletionsHappen == \A p \in ModelPaths : (mround # "off" /\ p \in timers) ~> (p \notin timers)
=============================================================================

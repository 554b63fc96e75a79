----------------------------- MODULE InferenceJson -----------------------------
(***************************************************************************)
(* A batch of inference requests in the sidecar: the JSON document becomes *)
(* a request or an error for each element, a task runs each request's      *)
(* model, and the outputs become one JSON document again.  A member of an  *)
(* object is a set: {} when it is missing, else {[kind, v]}.  A number's   *)
(* text is [kind, num, n]; "nan" stands for a float JSON has no words for. *)
(* An output's form is "flat", "strided" (a PyTorch tensor that cannot be  *)
(* viewed as one row) or "other" (an element of a tuple, and no tensor).   *)
(***************************************************************************)
EXTENDS Integers, Sequences, FiniteSets, SequencesExt

CONSTANTS
  Frameworks,  \* of "tensorflow" and "pytorch"
  Documents,   \* a sequence of inputs, each [parses, object, request]
  ModelRuns,   \* path -> what GetModel and a run may give
  IntBits,     \* integer type -> its width, scaled down
  SizeBits     \* the width of size_t, scaled down

VARIABLES
  framework, docId,
  parsed,      \* parsed_requests
  launched,    \* the requests the first loop has been through
  tasks,       \* request -> its future: the model found, what it was given, its result
  outputs,     \* batch_outputs
  collected,   \* the requests the second loop has been through
  response,    \* the answer: its elements, batch TRUE when it is one error for all
  inferStep

inferVars == <<framework, docId, parsed, launched, tasks, outputs, collected, response, inferStep>>

IntTypes == {"INT8", "INT16", "INT32", "INT64"}
DataTypes == {"FLOAT", "DOUBLE"} \cup IntTypes

The(s) == CHOOSE x \in s : TRUE
Ok(v) == [st |-> "ok", v |-> v]
Failed(s) == [st |-> s, v |-> <<>>]

-----------------------------------------------------------------------------
(* Parsing. *)
GetStringMember(m) == m # {} /\ The(m).kind = "string" /\ The(m).v # ""
GetArrayMember(m) == m # {} /\ The(m).kind = "array"

StringToDataType(s) == s \in DataTypes

(* The first element of s that fails one of the tests decides. *)
FirstFailure(s, undefined(_), wrong(_)) ==
  LET bad == {i \in DOMAIN s : undefined(s[i]) \/ wrong(s[i])}
  IN IF bad = {} THEN "ok"
     ELSE IF undefined(s[CHOOSE i \in bad : \A j \in bad : i <= j]) THEN "undefined" ELSE "error"

ShapeCheck(dims) == FirstFailure(dims, LAMBDA d : ~d.int, LAMBDA d : d.n < 1)

ContentCheck(content) == FirstFailure(content, LAMBDA c : FALSE, LAMBDA c : c.kind # "string")

Product(dims) == FoldLeft(LAMBDA a, d : a * d, 1, dims)
SizeProduct(dims) == FoldLeft(LAMBDA a, d : (a * d) % (2 ^ SizeBits), 1, dims)

ParseTensor(t) ==
  LET shape == The(t.shape).v
      content == The(t.content).v
      dims == [i \in DOMAIN shape |-> shape[i].n]
      name == IF t.name # {} /\ The(t.name).kind = "string" THEN The(t.name).v ELSE ""
  IN IF ~t.object THEN Failed("undefined")
     ELSE IF ~GetStringMember(t.type) \/ ~StringToDataType(The(t.type).v) THEN Failed("error")
     ELSE IF ~GetArrayMember(t.shape) THEN Failed("error")
     ELSE IF ShapeCheck(shape) # "ok" THEN Failed(ShapeCheck(shape))
     ELSE IF ~GetArrayMember(t.content) THEN Failed("error")
     ELSE IF ContentCheck(content) # "ok" THEN Failed(ContentCheck(content))
     ELSE IF Len(content) # SizeProduct(dims) THEN Failed("error")
     ELSE Ok([name |-> name, type |-> The(t.type).v, shape |-> dims, content |-> content])

ParseInternal(r) ==
  LET path == IF r.object /\ GetStringMember(r.path) THEN The(r.path).v ELSE ""
      inputs == IF r.object /\ GetArrayMember(r.tensors)
                THEN [i \in DOMAIN The(r.tensors).v |-> ParseTensor(The(r.tensors).v[i])] ELSE <<>>
      tensors == FirstFailure(inputs, LAMBDA t : t.st = "undefined", LAMBDA t : t.st = "error")
      st == IF ~r.object THEN "undefined"
            ELSE IF path = "" \/ ~GetArrayMember(r.tensors) THEN "error" ELSE tensors
  IN [st |-> st, path |-> path,
      inputs |-> IF st = "ok" THEN [i \in DOMAIN inputs |-> inputs[i].v] ELSE <<>>]

(* Mutant: a request that cannot be read is left out of the batch. *)
ParseBatchWithoutBad(requests) ==
  SelectSeq([i \in DOMAIN requests |-> ParseInternal(requests[i])], LAMBDA p : p.st # "error")
ParseBatch(requests) == [i \in DOMAIN requests |-> ParseInternal(requests[i])]

ParseJsonInferenceRequest(doc) ==
  IF ~doc.parses THEN Failed("error")
  ELSE IF ~doc.object THEN Failed("undefined")
  ELSE IF ~GetArrayMember(doc.request) THEN Failed("error")
  ELSE LET batch == ParseBatch(The(doc.request).v)
       IN IF \E i \in DOMAIN batch : batch[i].st = "undefined" THEN Failed("undefined")
          ELSE Ok(batch)

-----------------------------------------------------------------------------
(* Running a model. *)
FitsBits(n, bits) == n \in -(2 ^ (bits - 1)) .. (2 ^ (bits - 1) - 1)
Wrapped(n, bits) == ((n + 2 ^ (bits - 1)) % (2 ^ bits)) - 2 ^ (bits - 1)

(* absl::SimpleAtoi: a small integer is read as an int, and then narrowed. *)
ReadBits(type) == IF type = "INT64" THEN IntBits["INT64"] ELSE IntBits["INT32"]

Convert(type, c) ==
  IF ~c.num THEN Failed("error")
  ELSE IF type \notin IntTypes THEN Ok(c.n)
  ELSE IF FitsBits(c.n, ReadBits(type)) /\ FitsBits(c.n, IntBits[type]) THEN Ok(c.n)
  ELSE Failed("error")

Unread(t) == \E i \in DOMAIN t.content : Convert(t.type, t.content[i]).st = "error"
Wraps(t) == Product(t.shape) # Len(t.content)
Filled(t) == Ok([name |-> t.name, type |-> t.type, shape |-> t.shape,
                 values |-> [i \in DOMAIN t.content |-> Convert(t.type, t.content[i]).v]])

(* TensorFlow takes the shape before the contents are read, PyTorch after,   *)
(* and outside the try block: both end the process when its size is wrong.   *)
ConvertFlatArrayToTensor(t) ==
  IF Wraps(t) THEN Failed("undefined") ELSE IF Unread(t) THEN Failed("error") ELSE Filled(t)
ConvertFlatArrayToTorchTensor(t) ==
  IF Unread(t) THEN Failed("error") ELSE IF Wraps(t) THEN Failed("undefined") ELSE Filled(t)

ConvertInputs(fw, inputs) ==
  LET one(t) == IF fw = "pytorch" THEN ConvertFlatArrayToTorchTensor(t)
                ELSE IF t.name = "" THEN Failed("error")
                ELSE ConvertFlatArrayToTensor(t)
      all == [i \in DOMAIN inputs |-> one(inputs[i])]
      st == FirstFailure(all, LAMBDA t : t.st = "undefined", LAMBDA t : t.st = "error")
  IN IF st = "ok" THEN Ok([i \in DOMAIN all |-> all[i].v]) ELSE Failed(st)

Error(e) == [error |-> {e}, tensors |-> {}]

Ran(m) == [error |-> {}, tensors |-> {m}]

(* What a task returns when the model's run gives m.out. *)
PredictPerModel(m, inputs) ==
  IF ConvertInputs("tensorflow", inputs).st = "error" THEN Error("INPUT_PARSING")
  ELSE IF ~m.servingDefault \/ m.out = "fails" \/ Cardinality(m.names) # Len(m.outs)
  THEN Error("MODEL_EXECUTION") ELSE Ran(m)
PredictInternal(m, inputs) ==
  IF ConvertInputs("pytorch", inputs).st = "error" THEN Error("INPUT_PARSING")
  ELSE IF m.out = "fails" THEN Error("MODEL_EXECUTION") ELSE Ran(m)

(* The outputs of a run as JSON. *)
TensorToJsonValue(t) == t.type \in DataTypes
TorchTensorToJsonValue(t) == t.type \in DataTypes

(* toTensor of what is no tensor and view of a strided one throw, the latter *)
(* before the type is looked at; the first output that has no form decides.  *)
IValueToJsonValue(m) ==
  IF m.out \notin {"tensor", "tuple"} THEN "error"
  ELSE FirstFailure(m.outs, LAMBDA t : t.form # "flat", LAMBDA t : ~TorchTensorToJsonValue(t))
SerializeJsonDoc(m) == \A i \in DOMAIN m.outs : ~m.outs[i].nan

CreateBatchErrorString(e) == [batch |-> TRUE, elements |-> <<[path |-> "", error |-> {e}, tensors |-> {}]>>]

(* The whole batch, once each output has its own form: NaN has none in the   *)
(* end.                                                                      *)
ToJson(outs) ==
  IF \A i \in DOMAIN outs : \A m \in outs[i].tensors : SerializeJsonDoc(m)
  THEN [batch |-> FALSE, elements |-> outs]
  ELSE CreateBatchErrorString("OUTPUT_PARSING")

ConvertTensorsOrErrorToJson(outs) ==
  IF \E i \in DOMAIN outs : \E m \in outs[i].tensors : \E t \in ToSet(m.outs) : ~TensorToJsonValue(t)
  THEN Ok(CreateBatchErrorString("OUTPUT_PARSING")) ELSE Ok(ToJson(outs))

ConvertBatchOutputsToJson(outs) ==
  LET formOf(o, st) == \E m \in o.tensors : IValueToJsonValue(m) = st
      st == FirstFailure(outs, LAMBDA o : formOf(o, "undefined"), LAMBDA o : formOf(o, "error"))
  IN CASE st = "ok" -> Ok(ToJson(outs)) [] st = "undefined" -> Failed("undefined")
       [] OTHER -> Ok(CreateBatchErrorString("OUTPUT_PARSING"))

-----------------------------------------------------------------------------
NoResponse == [batch |-> FALSE, elements |-> <<>>]

InferInit ==
  /\ framework \in Frameworks /\ docId \in DOMAIN Documents
  /\ parsed = <<>> /\ launched = 0 /\ tasks = <<>> /\ outputs = <<>> /\ collected = 0
  /\ response = NoResponse /\ inferStep = "received"

ParseRequests ==
  /\ inferStep = "received"
  /\ LET p == ParseJsonInferenceRequest(Documents[docId])
     IN /\ inferStep' = CASE p.st = "ok" -> "launching" [] p.st = "error" -> "done"
                          [] OTHER -> "undefined"
        /\ parsed' = p.v
        /\ outputs' = [i \in DOMAIN p.v |-> [path |-> "", error |-> {}, tensors |-> {}]]
        /\ tasks' = [i \in DOMAIN p.v |-> {}]
        /\ response' = IF p.st = "error" THEN CreateBatchErrorString("INPUT_PARSING") ELSE response
  /\ UNCHANGED <<framework, docId, launched, collected>>

(* One round of the first loop.  The batch size of a model that was found is *)
(* read from the first dimension of the first input.                         *)
LaunchTask ==
  /\ inferStep = "launching" /\ launched < Len(parsed)
  /\ LET i == launched + 1
         p == parsed[i]
         noBatchSize == p.inputs = <<>> \/ Head(p.inputs).shape = <<>>
         answer(e) == outputs' = [outputs EXCEPT ![i] = [path |-> p.path, error |-> {e}, tensors |-> {}]]
     IN /\ launched' = i
        /\ \/ /\ p.st = "error" /\ answer("INPUT_PARSING") /\ UNCHANGED <<tasks, inferStep>>
           \/ /\ p.st = "ok"
              /\ \E m \in ModelRuns[p.path] :
                   IF ~m.found THEN answer("MODEL_NOT_FOUND") /\ UNCHANGED <<tasks, inferStep>>
                   ELSE IF noBatchSize THEN inferStep' = "undefined" /\ UNCHANGED <<tasks, outputs>>
                   ELSE /\ tasks' = [tasks EXCEPT ![i] = {[model |-> m, result |-> {}]}]
                        /\ UNCHANGED <<outputs, inferStep>>
  /\ UNCHANGED <<framework, docId, parsed, collected, response>>

Run(m, inputs) ==
  IF framework = "pytorch" THEN PredictInternal(m, inputs) ELSE PredictPerModel(m, inputs)

(* A task runs on its thread. *)
RunTask(i) ==
  /\ inferStep \in {"launching", "collecting"}
  /\ \E t \in tasks[i] :
       /\ t.result = {}
       /\ IF ConvertInputs(framework, parsed[i].inputs).st = "undefined"
          THEN inferStep' = "undefined" /\ UNCHANGED tasks
          ELSE /\ tasks' = [tasks EXCEPT ![i] =
                     {[t EXCEPT !.result = {Run(t.model, parsed[i].inputs)}]}]
               /\ UNCHANGED inferStep
  /\ UNCHANGED <<framework, docId, parsed, launched, outputs, collected, response>>

(* One round of the second loop waits for its task. *)
CollectResult ==
  /\ inferStep \in {"launching", "collecting"} /\ launched = Len(parsed) /\ collected < Len(parsed)
  /\ LET i == collected + 1
     IN /\ IF outputs[i].error # {} THEN UNCHANGED outputs
           ELSE \E t \in tasks[i] : \E r \in t.result :
                  outputs' = [outputs EXCEPT ![i] =
                    [path |-> parsed[i].path, error |-> r.error, tensors |-> r.tensors]]
        /\ collected' = i /\ inferStep' = "collecting"
  /\ UNCHANGED <<framework, docId, parsed, launched, tasks, response>>

AnswerBatch ==
  /\ inferStep \in {"launching", "collecting"} /\ launched = Len(parsed) /\ collected = Len(parsed)
  /\ LET json == IF framework = "pytorch" THEN ConvertBatchOutputsToJson(outputs)
                 ELSE ConvertTensorsOrErrorToJson(outputs)
     IN /\ inferStep' = IF json.st = "ok" THEN "done" ELSE "undefined"
        /\ response' = IF json.st = "ok" THEN json.v ELSE response
  /\ UNCHANGED <<framework, docId, parsed, launched, tasks, outputs, collected>>

InferNext ==
  \/ ParseRequests \/ LaunchTask \/ CollectResult \/ AnswerBatch
  \/ \E i \in DOMAIN tasks : RunTask(i)

-----------------------------------------------------------------------------
Requests == The(Documents[docId].request).v

(* Each request of the batch is answered at its own place under its own      *)
(* model's name: tensors when its model ran on its inputs, else its own      *)
(* error.  One error stands for all only when the document is no batch, or   *)
(* when one of the outputs has no JSON form.                                 *)
AnswersKeepTheirPlace ==
  inferStep = "done" =>
    IF response.batch
    THEN \/ response.elements[1].error = {"INPUT_PARSING"} /\ parsed = <<>>
         \/ \E i \in DOMAIN tasks : \E t \in tasks[i] : \E k \in DOMAIN t.model.outs :
              t.model.outs[k].nan \/ t.model.outs[k].type \notin DataTypes
         \/ framework = "pytorch" /\ \E i \in DOMAIN tasks : \E t \in tasks[i] : t.model.out = "list"
    ELSE /\ Len(response.elements) = Len(Requests)
         /\ \A i \in DOMAIN Requests :
              LET a == response.elements[i]
              IN /\ GetStringMember(Requests[i].path) => a.path = The(Requests[i].path).v
                 /\ (a.error = {}) # (a.tensors = {})
                 /\ \A m \in a.tensors : m \in ModelRuns[a.path] /\ m.found /\ m.out # "fails"
                 /\ "MODEL_NOT_FOUND" \in a.error => \E m \in ModelRuns[a.path] : ~m.found

(* What a model is given are the numbers of the request: each is in the      *)
(* range of its type and none was changed to fit, and there are as many as   *)
(* the shape has places.                                                     *)
ValuesFitTheirType ==
  \A i \in DOMAIN tasks : \A t \in tasks[i] : \A r \in t.result : r.tensors # {} =>
    LET in == ConvertInputs(framework, parsed[i].inputs).v
    IN \A k \in DOMAIN in :
         /\ Len(in[k].values) = Product(in[k].shape)
         /\ \A j \in DOMAIN in[k].values :
              /\ in[k].values[j] = parsed[i].inputs[k].content[j].n
              /\ in[k].type \in IntTypes => FitsBits(in[k].values[j], IntBits[in[k].type])

(* The process reads what is not there, or ends, or throws out of the call,  *)
(* only for a document in which an object is something else, a dimension is  *)
(* no integer, a request for an available model has no first dimension, or   *)
(* the product of the dimensions exceeds size_t; or for a PyTorch model that *)
(* returns a tuple with an element that is no tensor, or a tensor that       *)
(* cannot be viewed as one row, whatever the document.                       *)
UndefinedIsExplained ==
  inferStep = "undefined" =>
    LET tensors(r) == IF GetArrayMember(r.tensors) THEN ToSet(The(r.tensors).v) ELSE {}
        dims(t) == IF GetArrayMember(t.shape) THEN The(t.shape).v ELSE <<>>
    IN \/ ~Documents[docId].object
       \/ /\ framework = "pytorch" /\ collected = Len(parsed)
          /\ \E i \in DOMAIN outputs : \E m \in outputs[i].tensors : \E t \in ToSet(m.outs) :
               m.out \in {"tensor", "tuple"} /\ t.form # "flat"
       \/ \E i \in DOMAIN Requests :
            \/ ~Requests[i].object
            \/ tensors(Requests[i]) = {}
            \/ \E t \in tensors(Requests[i]) :
                 \/ ~t.object \/ dims(t) = <<>>
                 \/ \E k \in DOMAIN dims(t) : ~dims(t)[k].int
                 \/ Product([k \in DOMAIN dims(t) |-> dims(t)[k].n]) >= 2 ^ SizeBits
=============================================================================

---------------------------- MODULE RoutingUtils ----------------------------
(***************************************************************************)
(* fetchAdditionalSignals of the Microsoft build: a generateBid script asks *)
(* several key/value servers at once.  The script's thread sends a request  *)
(* after the other and then waits for a counter; the answers are added to    *)
(* one message, by that thread and by the threads of the callbacks.  Two     *)
(* scripts share the pool of clients and the list of client contexts.        *)
(* Neither the message nor the list has a lock: an addition is the reading   *)
(* of the size and the writing of an entry.                                  *)
(***************************************************************************)
EXTENDS Integers, Sequences, FiniteSets

CONSTANT RouteInputs  \* [addr, tls, reqs]: the flags, and the batch of each script

VARIABLES rin,        \* the input
          pool,       \* async_clients_: server name -> whether it is secure
          pc, turn,   \* where each script's thread is, and in its loop
          cb,         \* what has become of each request
          slot,       \* the size the adder of each answer has read
          answers, counter,  \* batch_response, batch_response_counter
          overlap,    \* whether two additions to the message met
          heap        \* "broken" when a container was corrupted
routeVars == <<rin, pool, pc, turn, cb, slot, answers, counter, overlap, heap>>

Scripts == {1, 2}
KVServers == {"kv", "retrieval", "selection"}

ASSUME RouteInputsAreBatches ==
  \A i \in RouteInputs :
    /\ i.addr \subseteq KVServers /\ i.tls \subseteq KVServers
    /\ \A c \in Scripts : i.reqs[c].ok \in BOOLEAN /\ i.reqs[c].list \in Seq(STRING)

Reqs(c) == rin.reqs[c].list

(***************************************************************************)
(* The pool.                                                                *)
(***************************************************************************)

\* The flag that secures the connection to s; the first of the three reads
\* the one of the selection server.
TlsFlag(s) == IF s = "kv" THEN "selection" ELSE s

CreateConnections(i) == [s \in i.addr |-> TlsFlag(s) \in i.tls]

GetAsyncClient(name) == name \in DOMAIN pool

(***************************************************************************)
(* The fan-out.                                                             *)
(***************************************************************************)

RouteInit ==
  /\ rin \in RouteInputs
  /\ pool = CreateConnections(rin)
  /\ pc = [c \in Scripts |-> "start"] /\ turn = [c \in Scripts |-> 1]
  /\ cb = [c \in Scripts |-> [i \in DOMAIN Reqs(c) |-> "idle"]]
  /\ slot = [c \in Scripts |-> [i \in DOMAIN Reqs(c) |-> 0]]
  /\ answers = [c \in Scripts |-> <<>>] /\ counter = [c \in Scripts |-> 0]
  /\ overlap = [c \in Scripts |-> FALSE] /\ heap = "sound"

\* A batch that is no JSON or is empty is not answered at all.
FetchAdditionalSignals(c) ==
  /\ pc[c] = "start"
  /\ pc' = [pc EXCEPT ![c] = IF ~rin.reqs[c].ok \/ Reqs(c) = <<>> THEN "returned" ELSE "loop"]
  /\ UNCHANGED <<rin, pool, turn, cb, slot, answers, counter, overlap, heap>>

\* batch_response.add_responses(): its first half.
BeginAdd(c, i, kind) ==
  /\ slot' = [slot EXCEPT ![c][i] = Len(answers[c]) + 1]
  /\ cb' = [cb EXCEPT ![c][i] = kind]
  /\ overlap' = [overlap EXCEPT ![c] = @ \/ \E j \in DOMAIN Reqs(c) \ {i} : slot[c][j] # 0]

\* One turn of the loop: without a client the thread answers for the server;
\* with one it goes on to add a context to the list.
SendRequestToKVServer(c) ==
  /\ pc[c] = "loop" /\ turn[c] <= Len(Reqs(c))
  /\ IF GetAsyncClient(Reqs(c)[turn[c]])
     THEN pc' = [pc EXCEPT ![c] = "context"] /\ UNCHANGED <<cb, slot, overlap>>
     ELSE pc' = [pc EXCEPT ![c] = "answering"] /\ BeginAdd(c, turn[c], "noClient")
  /\ UNCHANGED <<rin, pool, turn, answers, counter, heap>>

\* client_contexts_.Add() has returned, and ExecuteInternal takes the request
\* or refuses it.  Two threads inside Add may break the list.
KVExecuteInternal(c) ==
  /\ pc[c] = "context"
  /\ heap' \in IF \E d \in Scripts \ {c} : pc[d] = "context" THEN {heap, "broken"} ELSE {heap}
  /\ \/ /\ cb' = [cb EXCEPT ![c][turn[c]] = "out"]
        /\ pc' = [pc EXCEPT ![c] = "loop"] /\ turn' = [turn EXCEPT ![c] = @ + 1]
        /\ UNCHANGED <<slot, overlap>>
     \/ /\ BeginAdd(c, turn[c], "refused")
        /\ pc' = [pc EXCEPT ![c] = "answering"] /\ UNCHANGED turn
  /\ UNCHANGED <<rin, pool, answers, counter>>

KVCallback(c, i) ==
  /\ cb[c][i] = "out"
  /\ \E kind \in {"values", "failed"} : BeginAdd(c, i, kind)
  /\ UNCHANGED <<rin, pool, pc, turn, answers, counter, heap>>

CountAnswer(c, i) == counter[c] + 1

KVAnswer(c, i) == [name |-> Reqs(c)[i], kind |-> cb[c][i]]

\* The second half of the addition, and batch_response_counter.fetch_add(1).
\* An entry written over another's is lost, or the message is corrupted.
EndAdd(c, i) ==
  /\ slot[c][i] # 0
  /\ answers' = [answers EXCEPT ![c] =
       IF slot[c][i] > Len(@) THEN Append(@, KVAnswer(c, i)) ELSE [@ EXCEPT ![slot[c][i]] = KVAnswer(c, i)]]
  /\ heap' \in IF slot[c][i] > Len(answers[c]) THEN {heap} ELSE {heap, "broken"}
  /\ counter' = [counter EXCEPT ![c] = CountAnswer(c, i)]
  /\ slot' = [slot EXCEPT ![c][i] = 0]
  /\ IF pc[c] = "answering" /\ turn[c] = i
     THEN pc' = [pc EXCEPT ![c] = "loop"] /\ turn' = [turn EXCEPT ![c] = @ + 1]
     ELSE UNCHANGED <<pc, turn>>
  /\ UNCHANGED <<rin, pool, cb, overlap>>

\* Mutant: the wait ends at the first answer.
AnyAnswered(c) == counter[c] >= 1

AllAnswered(c) == counter[c] >= Len(Reqs(c))

\* The message becomes JSON; the script goes on and the frame is gone.
Collect(c) ==
  /\ pc[c] = "loop" /\ turn[c] > Len(Reqs(c)) /\ AllAnswered(c)
  /\ pc' = [pc EXCEPT ![c] = "returned"]
  /\ UNCHANGED <<rin, pool, turn, cb, slot, answers, counter, overlap, heap>>

RouteNext ==
  /\ heap = "sound"
  /\ \E c \in Scripts :
       \/ FetchAdditionalSignals(c) \/ SendRequestToKVServer(c) \/ KVExecuteInternal(c) \/ Collect(c)
       \/ \E i \in DOMAIN Reqs(c) : KVCallback(c, i) \/ EndAdd(c, i)

(***************************************************************************)
(* Properties                                                               *)
(***************************************************************************)

(* The counter, the message and the request are locals of                    *)
(* FetchAdditionalSignals that callbacks refer to: when it returns, no       *)
(* callback is to come and none is adding its answer.                        *)
FrameOutlivesCallbacks ==
  heap = "sound" => \A c \in Scripts : pc[c] = "returned" =>
    \A i \in DOMAIN Reqs(c) : cb[c][i] # "out" /\ slot[c][i] = 0

(* The wait has no deadline of its own.  Every request that was refused, had *)
(* no client, failed or was answered has been counted: a script whose        *)
(* requests are all settled may go on.                                       *)
SettledMeansCounted ==
  \A c \in Scripts :
    /\ pc[c] = "loop" /\ turn[c] > Len(Reqs(c))
    /\ \A i \in DOMAIN Reqs(c) : cb[c][i] # "out" /\ slot[c][i] = 0
    => AllAnswered(c)

(* The script gets an answer for each of its requests, under the name of its *)
(* server, and values exactly for those whose server sent some; an answer is  *)
(* missing only when two threads were adding to the message at once.         *)
EachServerAnswered ==
  \A c \in Scripts :
    pc[c] = "returned" /\ rin.reqs[c].ok /\ heap = "sound" /\ ~overlap[c] =>
      \A i \in DOMAIN Reqs(c), vals \in BOOLEAN :
        Cardinality({k \in DOMAIN answers[c] :
            answers[c][k].name = Reqs(c)[i] /\ (answers[c][k].kind = "values" <=> vals)})
          = Cardinality({j \in DOMAIN Reqs(c) :
              Reqs(c)[j] = Reqs(c)[i] /\ (cb[c][j] = "values" <=> vals)})

(* A connection to a key/value server is encrypted exactly when the flag of  *)
(* that server says so, but for the first, which follows another's flag.     *)
ConnectionsByTheirFlag ==
  \A s \in DOMAIN pool : s # "kv" => (pool[s] <=> s \in rin.tls)
=============================================================================

----------------------------- MODULE HttpFetcher -----------------------------
(***************************************************************************)
(* MultiCurlHttpFetcherAsync: HTTP requests on one libcurl multi handle.   *)
(* Three kinds of threads meet: the caller, who creates a request, adds    *)
(* its handle to the multi handle and then to curl_handle_set_; the event  *)
(* loop, which hands libcurl its sockets and timer, reads what is done and *)
(* posts the callback; the executor, which runs callbacks and frees the    *)
(* requests.  The destructor stops the loop and cancels what is left.      *)
(* Handles are numbers, the places of the requests in the caller's list.   *)
(***************************************************************************)
EXTENDS Integers, Sequences, FiniteSets, TLC

CONSTANTS
  Batches,      \* what the caller asks for: sequences of [method, headers, redirect, size]
  TransferEnds, \* how libcurl says that a transfer ended
  ServerHeaders \* the headers a server answers with

Request == [method : {"get", "put"}, headers : SUBSET STRING, redirect : BOOLEAN, size : Nat]
ASSUME BatchesAreLists == Batches \subseteq Seq(Request)

VARIABLES
  reqs,       \* the requests of FetchUrls, and of PutUrl among them
  caller,     \* [stage, next]: where the calling thread is
  multi,      \* the handles in the multi handle
  watched,    \* the activity libevent watches on the socket of a handle; {} = no socket
  timer,      \* multi_timer_event_ is pending
  msgs,       \* what curl_multi_info_read has still to return: [req, end]
  sent,       \* DataToUpload::offset
  handleSet,  \* curl_handle_set_
  tasks,      \* the executor's queue: [req, status, end]
  freed,      \* the requests whose CurlRequestData is destructed
  calls,      \* the results each done_callback was called with
  results, pending, allDone,   \* FetchUrlsWithMetadataLifetime
  loop,       \* idle, drain (in PerformCurlUpdate), broken
  shutdown,   \* no, requested, complete, destroyed, undefined
  overtaken   \* requests that were over before they were in curl_handle_set_

httpVars == <<reqs, caller, multi, watched, timer, msgs, sent, handleSet, tasks, freed, calls,
              results, pending, allDone, loop, shutdown, overtaken>>

Handles == DOMAIN reqs
Gets == {i \in Handles : reqs[i].method = "get"}
Running == multi \ {m.req : m \in msgs}
Status(code) == [code |-> code, headers |-> <<>>, url |-> FALSE]

-----------------------------------------------------------------------------
(* Callbacks *)

(* The callback of one request: under results_mu the result goes to its      *)
(* place, and the last one calls all_done_callback.                          *)
DoneCallback(i, r, c, re, p, a) ==
  LET all == IF i \in Gets THEN [re EXCEPT ![i] = {r}] ELSE re
  IN [calls |-> [c EXCEPT ![i] = Append(@, r)], results |-> all,
      pending |-> IF i \in Gets THEN p - 1 ELSE p,
      allDone |-> IF i \in Gets /\ p = 1 THEN Append(a, all) ELSE a]
Call(i, r) ==
  \E d \in {DoneCallback(i, r, calls, results, pending, allDone)} :
    calls' = d.calls /\ results' = d.results /\ pending' = d.pending /\ allDone' = d.allDone
NoCall == UNCHANGED <<calls, results, pending, allDone>>

-----------------------------------------------------------------------------
(* The caller *)

HttpInit ==
  /\ reqs \in Batches /\ caller = [stage |-> "start", next |-> 1]
  /\ multi = {} /\ watched = [i \in Handles |-> {}] /\ timer = FALSE /\ msgs = {}
  /\ sent = [i \in Handles |-> 0] /\ handleSet = {} /\ tasks = {} /\ freed = {}
  /\ calls = [i \in Handles |-> <<>>] /\ results = [i \in Handles |-> {}]
  /\ pending = 0 /\ allDone = <<>> /\ loop = "idle" /\ shutdown = "no" /\ overtaken = {}

(* No request, no wait: the callback is called at once. *)
FetchUrlsWithMetadata ==
  /\ caller.stage = "start" /\ caller' = [caller EXCEPT !.stage = "out"]
  /\ pending' = Cardinality(Gets)
  /\ allDone' = IF Gets = {} THEN <<results>> ELSE allDone
  /\ UNCHANGED <<reqs, multi, watched, timer, msgs, sent, handleSet, tasks, freed, calls,
                 results, loop, shutdown, overtaken>>

InCall(stage) == caller.stage = stage /\ caller.next \in Handles /\ shutdown # "destroyed"
Return == caller' = [stage |-> "out", next |-> caller.next + 1]

(* Mutant: a request that comes too late is refused and sent all the same. *)
ExecuteCurlRequestGoesOn ==
  /\ InCall("out")
  /\ IF shutdown # "no" THEN Call(caller.next, Status("INTERNAL")) ELSE NoCall
  /\ caller' = [caller EXCEPT !.stage = "checked"]
  /\ UNCHANGED <<reqs, multi, watched, timer, msgs, sent, handleSet, tasks, freed, loop,
                 shutdown, overtaken>>
(* CreateCurlRequest and the check of shutdown_requested_. *)
ExecuteCurlRequest ==
  /\ InCall("out")
  /\ IF shutdown # "no"
     THEN Call(caller.next, Status("INTERNAL")) /\ freed' = freed \cup {caller.next} /\ Return
     ELSE NoCall /\ UNCHANGED freed /\ caller' = [caller EXCEPT !.stage = "checked"]
  /\ UNCHANGED <<reqs, multi, watched, timer, msgs, sent, handleSet, tasks, loop, shutdown,
                 overtaken>>

(* MultiCurlRequestManager::Add, under request_manager_mu_; libcurl asks for *)
(* the timer.  A code that is an error ends the request.                     *)
AddToManager ==
  /\ InCall("checked")
  /\ \/ /\ multi' = multi \cup {caller.next} /\ timer' = TRUE
        /\ caller' = [caller EXCEPT !.stage = "added"]
        /\ NoCall /\ UNCHANGED freed
     \/ /\ Call(caller.next, Status("INTERNAL")) /\ freed' = freed \cup {caller.next} /\ Return
        /\ UNCHANGED <<multi, timer>>
  /\ UNCHANGED <<reqs, watched, msgs, sent, handleSet, tasks, loop, shutdown, overtaken>>

(* Add, under curl_handle_set_lock_, and the release of the unique_ptr. *)
Add ==
  /\ InCall("added")
  /\ handleSet' = handleSet \cup {caller.next} /\ Return
  /\ UNCHANGED <<reqs, multi, watched, timer, msgs, sent, tasks, freed, calls, results, pending,
                 allDone, loop, shutdown, overtaken>>

-----------------------------------------------------------------------------
(* The event loop.  libcurl calls back under request_manager_mu_. *)

(* The body is copied out in pieces of at most the room libcurl has. *)
ReadCallback(offset, size, room) ==
  offset + (IF size - offset < room THEN size - offset ELSE room)

(* The socket of a handle is forgotten, watched for the first time, or       *)
(* watched for something else; AddSocketToLibevent, RemoveSocketFromLibevent *)
OnLibcurlSocketUpdate(i, activity) ==
  watched' = [watched EXCEPT ![i] = activity]
(* What UpsertSocketInLibevent watches, in the order a transfer asks for it. *)
(* A transfer cannot go on for ever: its deadline ends it.                   *)
NextKind(kind) ==
  CASE kind = {} -> {{"write"}} [] kind = {"write"} -> {{"read", "write"}, {"read"}}
    [] kind = {"read", "write"} -> {{"read"}} [] OTHER -> {}

(* What libcurl may do for a handle when it is given the processor: go on,   *)
(* with its socket watched, or end.  An upload is not well ended before the  *)
(* body is read to its end.                                                  *)
Transfer(i) ==
  \/ \E end \in TransferEnds :
       /\ end = "200" => sent[i] = reqs[i].size
       /\ msgs' = msgs \cup {[req |-> i, end |-> end]}
       /\ OnLibcurlSocketUpdate(i, {}) /\ UNCHANGED sent
  \/ \E activity \in NextKind(watched[i]) :
       /\ OnLibcurlSocketUpdate(i, activity)
       /\ sent' = [sent EXCEPT ![i] = ReadCallback(@, reqs[i].size, 1)]
       /\ UNCHANGED msgs

(* OnLibcurlTimerUpdate: libcurl wants the timer as long as a transfer runs, *)
(* for its deadline CURLOPT_TIMEOUT_MS.                                      *)
OnLibcurlTimerUpdate(running) == timer' = (running # {})

(* The deadline of all the transfers that run. *)
TimeOut ==
  /\ msgs' = msgs \cup {[req |-> i, end |-> "timedout"] : i \in Running}
  /\ watched' = [i \in Handles |-> IF i \in Running THEN {} ELSE watched[i]]
  /\ UNCHANGED sent

(* The timer is not persistent: it is pending again if libcurl asks for it. *)
MultiTimerCallback ==
  /\ loop = "idle" /\ timer
  /\ \/ \E i \in Running : Transfer(i)
     \/ TimeOut
  /\ OnLibcurlTimerUpdate(multi \ {m.req : m \in msgs'})
  /\ loop' = "drain"
  /\ UNCHANGED <<reqs, caller, multi, handleSet, tasks, freed, calls, results, pending, allDone,
                 shutdown, overtaken>>

OnLibeventSocketActivity ==
  /\ loop = "idle"
  /\ \E i \in Running : watched[i] # {} /\ Transfer(i)
  /\ OnLibcurlTimerUpdate(multi \ {m.req : m \in msgs'})
  /\ loop' = "drain"
  /\ UNCHANGED <<reqs, caller, multi, handleSet, tasks, freed, calls, results, pending, allDone,
                 shutdown, overtaken>>

GetResultFromMsg(end) ==
  CASE end = "200" -> "OK" [] end = "404" -> "INTERNAL" [] end = "timedout" -> "DEADLINE_EXCEEDED"
    [] end = "malformed" -> "INVALID_ARGUMENT" [] OTHER -> "INTERNAL"

ReadMessage(m) ==
  /\ msgs' = msgs \ {m} /\ multi' = multi \ {m.req} /\ handleSet' = handleSet \ {m.req}
  /\ overtaken' = IF caller.stage = "added" /\ caller.next = m.req
                  THEN overtaken \cup {m.req} ELSE overtaken
  /\ tasks' = tasks \cup {[req |-> m.req, end |-> m.end, code |-> GetResultFromMsg(m.end)]}

(* GetUpdate until there is nothing to read.  The handle leaves the multi    *)
(* handle and then the set, each under its own lock; nobody but the caller's *)
(* Add can come in between, to the same effect as before or after both.      *)
PerformCurlUpdate ==
  /\ loop = "drain"
  /\ IF msgs = {} THEN loop' = "idle" /\ UNCHANGED <<msgs, multi, handleSet, overtaken, tasks>>
     ELSE (\E m \in msgs : ReadMessage(m)) /\ UNCHANGED loop
  /\ UNCHANGED <<reqs, caller, watched, timer, sent, freed, calls, results, pending, allDone,
                 shutdown>>

(* The persistent timer of one second. *)
ShutdownEventLoop ==
  /\ loop = "idle" /\ shutdown = "requested"
  /\ loop' = "broken" /\ shutdown' = "complete"
  /\ UNCHANGED <<reqs, caller, multi, watched, timer, msgs, sent, handleSet, tasks, freed, calls,
                 results, pending, allDone, overtaken>>

-----------------------------------------------------------------------------
(* The executor runs the callback and frees the request.  Each header that   *)
(* was asked for is there, with the server's value or an error.  A request   *)
(* that is freed already is undefined behaviour.                             *)
Response(t) ==
  IF t.code # "OK" THEN Status(t.code)
  ELSE [code |-> "OK", url |-> reqs[t.req].redirect,
        headers |-> [h \in reqs[t.req].headers \ {""} |-> h \in ServerHeaders]]
RunTask ==
  /\ \E t \in tasks :
       /\ tasks' = tasks \ {t} /\ freed' = freed \cup {t.req}
       /\ IF t.req \in freed THEN shutdown' = "undefined" /\ NoCall
          ELSE Call(t.req, Response(t)) /\ UNCHANGED shutdown
  /\ UNCHANGED <<reqs, caller, multi, watched, timer, msgs, sent, handleSet, loop, overtaken>>

(* The destructor.  Its contract: no call is under way.  A call that comes   *)
(* later, before the object is gone, is refused.                             *)
RequestShutdown ==
  /\ caller.stage = "out" /\ shutdown = "no" /\ shutdown' = "requested"
  /\ UNCHANGED <<reqs, caller, multi, watched, timer, msgs, sent, handleSet, tasks, freed, calls,
                 results, pending, allDone, loop, overtaken>>

(* One handle after the other; a handle whose request is freed is undefined  *)
(* behaviour.                                                                *)
CancelPending ==
  /\ shutdown = "complete" /\ caller.next > Len(reqs)
  /\ \/ /\ handleSet = {} /\ shutdown' = "destroyed"
        /\ NoCall /\ UNCHANGED <<handleSet, multi, freed>>
     \/ \E i \in handleSet :
          IF i \in freed
          THEN shutdown' = "undefined" /\ NoCall /\ UNCHANGED <<handleSet, multi, freed>>
          ELSE /\ handleSet' = handleSet \ {i} /\ multi' = multi \ {i} /\ freed' = freed \cup {i}
               /\ Call(i, Status("INTERNAL")) /\ UNCHANGED shutdown
  /\ UNCHANGED <<reqs, caller, watched, timer, msgs, sent, tasks, loop, overtaken>>

HttpStep ==
  \/ FetchUrlsWithMetadata \/ ExecuteCurlRequest \/ AddToManager \/ Add
  \/ PerformCurlUpdate \/ MultiTimerCallback \/ OnLibeventSocketActivity
  \/ ShutdownEventLoop \/ RunTask \/ CancelPending
(* Nothing is said of what follows undefined behaviour. *)
HttpProgress == shutdown # "undefined" /\ HttpStep
HttpNext == HttpProgress \/ RequestShutdown
HttpSpec == HttpInit /\ [][HttpNext]_httpVars

-----------------------------------------------------------------------------
(* "This method guarantees that the callback will be invoked once with the   *)
(* obtained result or error": never twice, and not lost when the fetcher is  *)
(* gone and the executor has run what it was given.                          *)
CalledBackOnce ==
  \A i \in Handles : /\ Len(calls[i]) <= 1
                     /\ shutdown = "destroyed" /\ tasks = {} => Len(calls[i]) = 1

(* The fetcher keeps no handle of a request that is freed, except one whose  *)
(* transfer was over before the caller came to Add; without such a request   *)
(* neither the destructor nor a task ever meets one that is freed.           *)
NoFreedHandleIsKept ==
  /\ handleSet \cap freed \subseteq overtaken
  /\ shutdown = "undefined" => overtaken # {}

(* "Guaranteed to be invoked with results in the same order as the           *)
(* corresponding requests", once, when each has its result.                  *)
ResultsInRequestOrder ==
  /\ Len(allDone) <= 1
  /\ \A k \in DOMAIN allDone : \A i \in Gets : calls[i] # <<>> /\ allDone[k][i] = {calls[i][1]}

(* A fetch is called back once, with results in the order of the requests,   *)
(* and the fetcher keeps no handle that is freed, one race excepted.         *)
FetchesAreCalledBackOnce == CalledBackOnce /\ NoFreedHandleIsKept /\ ResultsInRequestOrder

(* Every request is called back, whatever the fetcher is doing. *)
Waiting(i) == /\ shutdown \notin {"off", "undefined"}
              /\ i \in Handles /\ i < caller.next /\ calls[i] = <<>>
EveryFetchReturns == \A i \in 1..3 : Waiting(i) ~> ~Waiting(i)

(* A destructor that was entered returns. *)
ShutdownCompletes == (shutdown = "requested") ~> (shutdown \in {"destroyed", "undefined"})

-----------------------------------------------------------------------------
(* The inductive invariant of the proofs. *)

CallerInOrder ==
  /\ reqs \in Batches
  /\ caller \in [stage : {"start", "out", "checked", "added"}, next : 1..(Len(reqs) + 1)]
  /\ caller.stage = "start" => caller.next = 1
  /\ caller.stage \in {"checked", "added"} => caller.next \in Handles

(* The requests that libcurl has seen, and those the executor has. *)
Sent == {i \in Handles : i < caller.next \/ (i = caller.next /\ caller.stage = "added")}
InTasks == {t.req : t \in tasks}

(* A request is with libcurl until its end is read, then with the executor,  *)
(* then freed; the destructor may free it earlier.  It is in the set of      *)
(* handles while libcurl has it, from Add on; after that only if overtaken.  *)
EachInItsPlace ==
  /\ Sent = multi \cup InTasks \cup freed /\ multi \cap (InTasks \cup freed) = {}
  /\ InTasks \cap freed \subseteq overtaken /\ overtaken \subseteq InTasks \cup freed
  /\ handleSet \subseteq multi \cup overtaken
  /\ \A i \in multi \ handleSet : caller.stage = "added" /\ i = caller.next
  /\ caller.stage = "added" => caller.next \in multi \cup overtaken
  /\ \A t, u \in tasks : t.req = u.req => t = u
  /\ \A m, n \in msgs : m.req \in multi /\ (m.req = n.req => m = n)

(* A request is called back when it is freed, and the last one ends it all. *)
CallsAreCounted ==
  /\ DOMAIN calls = Handles /\ DOMAIN results = Handles
  /\ \A i \in Handles : calls[i] = IF i \in freed THEN <<calls[i][1]>> ELSE <<>>
  /\ \A i \in Gets \cap freed : results[i] = {calls[i][1]}
  /\ caller.stage # "start" => pending = Cardinality(Gets \ freed)
  /\ allDone = IF caller.stage # "start" /\ Gets \subseteq freed THEN <<allDone[1]>> ELSE <<>>
  /\ allDone # <<>> => \A i \in Gets : allDone[1][i] = {calls[i][1]}

ShutdownInOrder ==
  /\ loop \in {"idle", "drain", "broken"} /\ (loop # "drain" => msgs = {})
  /\ shutdown \in {"complete", "destroyed"} => loop = "broken"
  /\ shutdown = "destroyed" => handleSet = {} /\ caller.next > Len(reqs)
  /\ shutdown = "undefined" => overtaken # {}

HttpInv == CallerInOrder /\ EachInItsPlace /\ CallsAreCounted /\ ShutdownInOrder
=============================================================================

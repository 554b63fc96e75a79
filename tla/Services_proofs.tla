--------------------------- MODULE Services_proofs ---------------------------
(***************************************************************************)
(* The parts beside the auction's main path, for every value of their      *)
(* constants.  Each part has an inductive invariant and lemmas that it     *)
(* holds at the start, that each step keeps it and that the part's         *)
(* properties follow from it; the theorems about the parts together are at *)
(* the end.                                                                *)
(***************************************************************************)
EXTENDS Services, Lemmas, FiniteSetTheorems, TLAPS

-----------------------------------------------------------------------------
(* The fetcher, for any list of requests, any ends of transfers and any      *)
(* interleaving of the caller, the event loop, the executor and the          *)
(* destructor.                                                               *)

LEMMA Appended ==
  ASSUME NEW r
  PROVE  Append(<<>>, r) = <<r>>
<1>1. PICK V : V = {r} OBVIOUS
<1>2. <<>> \in Seq(V) /\ r \in V BY <1>1
<1> QED BY <1>2

(* A list's places are its numbers, of which there are finitely many. *)
LEMMA Places ==
  ASSUME CallerInOrder
  PROVE  /\ Len(reqs) \in Nat /\ Handles = 1..Len(reqs) /\ IsFiniteSet(Handles)
         /\ IsFiniteSet(Gets)
<1>1. Len(reqs) \in Nat /\ Handles = 1..Len(reqs)
  BY BatchesAreLists DEF CallerInOrder, Handles
<1>2. IsFiniteSet(Handles) BY <1>1, FS_Interval
<1>3. Gets \subseteq Handles BY DEF Gets
<1> QED BY <1>1, <1>2, <1>3, FS_Subset

(* The last of the fetches that were not called back. *)
LEMMA OneLess ==
  ASSUME NEW S, NEW i \in S, IsFiniteSet(S)
  PROVE  /\ Cardinality(S) \in Nat /\ Cardinality(S \ {i}) = Cardinality(S) - 1
         /\ Cardinality(S) = 1 <=> S = {i}
<1>1. IsFiniteSet(S \ {i}) BY FS_RemoveElement
<1>2. Cardinality(S) \in Nat /\ Cardinality(S \ {i}) \in Nat BY <1>1, FS_CardinalityType
<1>3. Cardinality(S \ {i}) = Cardinality(S) - 1 BY FS_RemoveElement
<1>4. Cardinality(S \ {i}) = 0 <=> S \ {i} = {} BY <1>1, FS_EmptySet
<1> QED BY <1>2, <1>3, <1>4

(* The callback of a request that is freed now and was not before. *)
LEMMA CalledBack ==
  ASSUME CallerInOrder, CallsAreCounted, NEW i \in Handles \ freed, NEW r, Call(i, r),
         freed' = freed \cup {i}, caller.stage # "start", caller'.stage # "start",
         reqs' = reqs
  PROVE  CallsAreCounted'
<1> DEFINE last == i \in Gets /\ pending = 1
           all == IF i \in Gets THEN [results EXCEPT ![i] = {r}] ELSE results
<1>1. /\ calls' = [calls EXCEPT ![i] = Append(@, r)] /\ results' = all
      /\ pending' = (IF i \in Gets THEN pending - 1 ELSE pending)
      /\ allDone' = (IF last THEN Append(allDone, all) ELSE allDone)
  BY DEF Call, DoneCallback
<1>2. Handles' = Handles /\ Gets' = Gets BY DEF Handles, Gets
<1>3. calls[i] = <<>> /\ DOMAIN calls = Handles BY DEF CallsAreCounted
<1>4. calls'[i] = <<r>> /\ \A j \in Handles \ {i} : calls'[j] = calls[j]
  BY <1>1, <1>3, Appended
<1>5. DOMAIN calls' = Handles /\ DOMAIN results' = Handles
  BY <1>1, <1>3 DEF CallsAreCounted
<1>6. \A j \in Handles : calls'[j] = IF j \in freed' THEN <<calls'[j][1]>> ELSE <<>>
  BY <1>4 DEF CallsAreCounted
<1>7. \A j \in Gets \cap freed' : results'[j] = {calls'[j][1]}
  BY <1>1, <1>4 DEF CallsAreCounted, Gets
<1>8. pending = Cardinality(Gets \ freed) BY DEF CallsAreCounted
<1>9. IsFiniteSet(Gets \ freed) BY Places, FS_Subset
<1>10. pending' = Cardinality(Gets' \ freed')
  <2>1. CASE i \in Gets
    <3>1. Gets \ freed' = (Gets \ freed) \ {i} OBVIOUS
    <3> QED BY <1>1, <1>2, <1>8, <1>9, <2>1, <3>1, OneLess
  <2>2. CASE i \notin Gets
    <3>1. Gets \ freed' = Gets \ freed BY <2>2
    <3> QED BY <1>1, <1>2, <1>8, <2>2, <3>1
  <2> QED BY <2>1, <2>2
<1>11. last <=> i \in Gets /\ Gets \subseteq freed'
  <2>1. i \in Gets => (pending = 1 <=> Gets \ freed = {i}) BY <1>8, <1>9, OneLess
  <2> QED BY <2>1
<1>12. CASE last
  <2>1. allDone = <<>> BY <1>12 DEF CallsAreCounted
  <2>2. allDone' = <<all>> BY <1>1, <1>12, <2>1, Appended
  <2>3. allDone'[1] = results'
    <3>1. allDone' = <<results'>> BY <1>1, <2>2
    <3> HIDE DEF all
    <3> QED BY <3>1
  <2>4. \A j \in Gets : allDone'[1][j] = {calls'[j][1]} BY <1>7, <1>11, <1>12, <2>3
  <2> QED BY <1>2, <1>5, <1>6, <1>7, <1>10, <1>11, <1>12, <2>2, <2>4 DEF CallsAreCounted
<1>13. CASE ~last
  <2>1. allDone' = allDone BY <1>1, <1>13
  <2>2. i \in Gets => ~(Gets \subseteq freed) OBVIOUS
  <2>3. Gets \subseteq freed' <=> Gets \subseteq freed BY <1>11, <1>13
  <2>4. allDone' = IF caller'.stage # "start" /\ Gets \subseteq freed' THEN <<allDone'[1]>> ELSE <<>>
    BY <2>1, <2>3 DEF CallsAreCounted
  <2>5. allDone' # <<>> => \A j \in Gets : allDone'[1][j] = {calls'[j][1]}
    <3>1. SUFFICES ASSUME allDone # <<>>, NEW j \in Gets PROVE allDone[1][j] = {calls'[j][1]}
      BY <2>1
    <3>2. j \in Handles \ {i} BY <3>1 DEF CallsAreCounted, Gets
    <3> QED BY <1>4, <3>1, <3>2 DEF CallsAreCounted
  <2> QED BY <1>2, <1>5, <1>6, <1>7, <1>10, <2>4, <2>5 DEF CallsAreCounted
<1> QED BY <1>12, <1>13

(* Nothing is called back. *)
LEMMA NotCalledBack ==
  ASSUME CallsAreCounted, NoCall, freed' = freed, reqs' = reqs,
         caller'.stage = "start" <=> caller.stage = "start"
  PROVE  CallsAreCounted'
BY DEF CallsAreCounted, NoCall, Gets, Handles

-----------------------------------------------------------------------------
(* The initial states. *)

LEMMA InitInv == HttpInit => HttpInv
<1> SUFFICES ASSUME HttpInit PROVE HttpInv OBVIOUS
<1>1. CallerInOrder
  BY BatchesAreLists DEF HttpInit, CallerInOrder
<1>2. Sent = {} BY <1>1, Places DEF HttpInit, Sent
<1>3. EachInItsPlace BY <1>2 DEF HttpInit, EachInItsPlace, InTasks
<1>4. CallsAreCounted BY DEF HttpInit, CallsAreCounted
<1>5. ShutdownInOrder BY DEF HttpInit, ShutdownInOrder
<1> QED BY <1>1, <1>3, <1>4, <1>5 DEF HttpInv

-----------------------------------------------------------------------------
(* The caller. *)

LEMMA FetchUrlsKeeps ==
  ASSUME HttpInv, FetchUrlsWithMetadata PROVE HttpInv'
<1> USE DEF HttpInv
<1>1. CallerInOrder' BY DEF FetchUrlsWithMetadata, CallerInOrder, Handles
<1>2. Handles' = Handles /\ Gets' = Gets /\ Sent' = Sent /\ InTasks' = InTasks
  BY DEF FetchUrlsWithMetadata, CallerInOrder, Handles, Gets, Sent, InTasks
<1>3. EachInItsPlace'
  BY <1>2 DEF FetchUrlsWithMetadata, EachInItsPlace, CallerInOrder
<1>4. Sent = {} BY Places DEF FetchUrlsWithMetadata, CallerInOrder, Sent
<1>5. freed = {} /\ freed' = {} BY <1>4 DEF EachInItsPlace, FetchUrlsWithMetadata
<1>6. CallsAreCounted'
  <2>1. allDone = <<>> /\ calls' = calls /\ results' = results /\ caller'.stage = "out"
    BY DEF FetchUrlsWithMetadata, CallsAreCounted, CallerInOrder
  <2>2. pending' = Cardinality(Gets' \ freed') BY <1>2, <1>5 DEF FetchUrlsWithMetadata
  <2>3. allDone' = IF Gets' \subseteq freed' THEN <<allDone'[1]>> ELSE <<>>
    BY <1>2, <1>5, <2>1 DEF FetchUrlsWithMetadata
  <2>4. allDone' # <<>> => Gets = {} BY <2>1 DEF FetchUrlsWithMetadata
  <2> QED BY <1>2, <1>5, <2>1, <2>2, <2>3, <2>4 DEF CallsAreCounted
<1>7. ShutdownInOrder'
  BY DEF FetchUrlsWithMetadata, ShutdownInOrder, CallerInOrder
<1> QED BY <1>1, <1>3, <1>6, <1>7

(* The call returns: its request counts as sent, whatever became of it. *)
LEMMA Returned ==
  ASSUME CallerInOrder, caller.next \in Handles, Return, reqs' = reqs
  PROVE  /\ CallerInOrder' /\ Handles' = Handles /\ caller'.stage = "out"
         /\ Sent' = Sent \cup {caller.next}
<1>1. Len(reqs) \in Nat /\ Handles = 1..Len(reqs) BY Places
<1>2. caller' = [stage |-> "out", next |-> caller.next + 1] /\ caller.next \in 1..Len(reqs)
  BY <1>1 DEF Return
<1>3. Handles' = Handles BY DEF Handles
<1>4. CallerInOrder' BY <1>1, <1>2, <1>3 DEF CallerInOrder
<1>5. Sent' = Sent \cup {caller.next} BY <1>1, <1>2, <1>3 DEF Sent
<1> QED BY <1>2, <1>3, <1>4, <1>5

(* The call is refused, and its request freed and called back. *)
LEMMA RefusedRequest ==
  ASSUME HttpInv, caller.next \in Handles, caller.stage \in {"out", "checked"},
         shutdown # "destroyed",
         Return, Call(caller.next, Status("INTERNAL")), freed' = freed \cup {caller.next},
         UNCHANGED <<reqs, multi, msgs, handleSet, tasks, loop, shutdown, overtaken>>
  PROVE  HttpInv'
<1> USE DEF HttpInv
<1>1. /\ CallerInOrder' /\ Handles' = Handles /\ caller'.stage = "out"
      /\ Sent' = Sent \cup {caller.next}
  BY Returned
<1>2. caller.next \notin Sent
  BY Places DEF Sent, CallerInOrder
<1>3. InTasks' = InTasks BY DEF InTasks
<1>4. EachInItsPlace' BY <1>1, <1>2, <1>3 DEF EachInItsPlace
<1>5. caller.next \in Handles \ freed BY <1>2 DEF EachInItsPlace
<1>6. CallsAreCounted' BY <1>1, <1>5, CalledBack
<1>7. ShutdownInOrder' BY DEF ShutdownInOrder
<1> QED BY <1>1, <1>4, <1>6, <1>7

LEMMA ExecuteKeeps ==
  ASSUME HttpInv, ExecuteCurlRequest PROVE HttpInv'
<1> USE DEF HttpInv
<1>1. caller.stage = "out" /\ caller.next \in Handles /\ shutdown # "destroyed"
  BY DEF ExecuteCurlRequest, InCall
<1>2. CASE shutdown # "no"
  BY <1>1, <1>2, RefusedRequest DEF ExecuteCurlRequest
<1>3. CASE shutdown = "no"
  <2>1. caller' = [caller EXCEPT !.stage = "checked"] /\ NoCall /\ freed' = freed
    BY <1>3 DEF ExecuteCurlRequest
  <2>2. UNCHANGED <<reqs, multi, msgs, handleSet, tasks, loop, shutdown, overtaken>>
    BY DEF ExecuteCurlRequest
  <2>3. Handles' = Handles /\ InTasks' = InTasks BY <2>2 DEF Handles, InTasks
  <2>4. CallerInOrder' BY <1>1, <2>1, <2>2, <2>3 DEF CallerInOrder
  <2>5. Sent' = Sent BY <1>1, <2>1, <2>3 DEF Sent, CallerInOrder
  <2>6. caller'.stage = "checked" BY <2>1 DEF CallerInOrder
  <2>7. EachInItsPlace' BY <1>1, <2>1, <2>2, <2>3, <2>5, <2>6 DEF EachInItsPlace
  <2>8. CallsAreCounted' BY <1>1, <2>1, <2>2, <2>6, NotCalledBack
  <2>9. ShutdownInOrder' BY <1>3, <2>2 DEF ShutdownInOrder
  <2> QED BY <2>4, <2>7, <2>8, <2>9
<1> QED BY <1>2, <1>3

LEMMA AddToManagerKeeps ==
  ASSUME HttpInv, AddToManager PROVE HttpInv'
<1> USE DEF HttpInv
<1>1. caller.stage = "checked" /\ caller.next \in Handles /\ shutdown # "destroyed"
  BY DEF AddToManager, InCall
<1>2. UNCHANGED <<reqs, msgs, handleSet, tasks, loop, shutdown, overtaken>>
  BY DEF AddToManager
<1>3. CASE /\ multi' = multi \cup {caller.next}
           /\ caller' = [caller EXCEPT !.stage = "added"] /\ NoCall /\ UNCHANGED freed
  <2>1. Handles' = Handles /\ InTasks' = InTasks BY <1>2 DEF Handles, InTasks
  <2>2. CallerInOrder' BY <1>1, <1>2, <1>3, <2>1 DEF CallerInOrder
  <2>3. caller'.stage = "added" /\ caller'.next = caller.next BY <1>3 DEF CallerInOrder
  <2>4. Sent' = Sent \cup {caller.next} /\ caller.next \notin Sent
    BY <1>1, <2>1, <2>3, Places DEF Sent, CallerInOrder
  <2>5. EachInItsPlace' BY <1>1, <1>2, <1>3, <2>1, <2>3, <2>4 DEF EachInItsPlace
  <2>6. CallsAreCounted' BY <1>1, <1>2, <1>3, <2>3, NotCalledBack
  <2>7. ShutdownInOrder' BY <1>1, <1>2 DEF ShutdownInOrder
  <2> QED BY <2>2, <2>5, <2>6, <2>7
<1>4. CASE /\ Call(caller.next, Status("INTERNAL")) /\ freed' = freed \cup {caller.next}
           /\ Return /\ UNCHANGED <<multi, timer>>
  BY <1>1, <1>2, <1>4, RefusedRequest
<1> QED BY <1>3, <1>4 DEF AddToManager

LEMMA AddKeeps ==
  ASSUME HttpInv, Add PROVE HttpInv'
<1> USE DEF HttpInv
<1>1. /\ caller.stage = "added" /\ caller.next \in Handles /\ shutdown # "destroyed"
      /\ handleSet' = handleSet \cup {caller.next} /\ Return
  BY DEF Add, InCall
<1>2. UNCHANGED <<reqs, multi, msgs, tasks, freed, calls, results, pending, allDone, loop,
                  shutdown, overtaken>>
  BY DEF Add
<1>3. /\ CallerInOrder' /\ Handles' = Handles /\ caller'.stage = "out"
      /\ Sent' = Sent \cup {caller.next}
  BY <1>1, <1>2, Returned
<1>4. Sent' = Sent BY <1>1, <1>3 DEF Sent
<1>5. InTasks' = InTasks BY <1>2 DEF InTasks
<1>6. EachInItsPlace' BY <1>1, <1>2, <1>3, <1>4, <1>5 DEF EachInItsPlace
<1>7. CallsAreCounted' BY <1>1, <1>2, <1>3, NotCalledBack DEF NoCall
<1>8. ShutdownInOrder' BY <1>1, <1>2 DEF ShutdownInOrder
<1> QED BY <1>3, <1>6, <1>7, <1>8

-----------------------------------------------------------------------------
(* The event loop. *)

(* Requests that ran come to an end, one message for each. *)
LEMMA EndsKeep ==
  ASSUME HttpInv, loop = "idle", loop' = "drain",
         \A m \in msgs' : m.req \in multi,
         \A m, n \in msgs' : m.req = n.req => m = n,
         UNCHANGED <<reqs, caller, multi, handleSet, tasks, freed, calls, results, pending, allDone,
                     shutdown, overtaken>>
  PROVE  HttpInv'
<1> USE DEF HttpInv
<1>1. Handles' = Handles /\ Gets' = Gets /\ Sent' = Sent /\ InTasks' = InTasks
  BY DEF Handles, Gets, Sent, InTasks
<1>2. CallerInOrder' BY <1>1 DEF CallerInOrder
<1>3. EachInItsPlace' BY <1>1 DEF EachInItsPlace
<1>4. CallsAreCounted' BY NotCalledBack DEF NoCall
<1>5. ShutdownInOrder' BY DEF ShutdownInOrder
<1> QED BY <1>2, <1>3, <1>4, <1>5

LEMMA OneEnd ==
  ASSUME HttpInv, loop = "idle", NEW i \in Running, Transfer(i)
  PROVE  /\ \A m \in msgs' : m.req \in multi
         /\ \A m, n \in msgs' : m.req = n.req => m = n
<1>1. msgs = {} BY DEF HttpInv, ShutdownInOrder
<1>2. i \in multi BY DEF Running
<1>3. msgs' = {} \/ \E end : msgs' = {[req |-> i, end |-> end]}
  BY <1>1 DEF Transfer
<1> QED BY <1>2, <1>3

LEMMA TimerKeeps ==
  ASSUME HttpInv, MultiTimerCallback PROVE HttpInv'
<1>1. msgs = {} /\ loop = "idle" /\ loop' = "drain"
  BY DEF HttpInv, ShutdownInOrder, MultiTimerCallback
<1>2. /\ \A m \in msgs' : m.req \in multi
      /\ \A m, n \in msgs' : m.req = n.req => m = n
  <2>1. CASE \E i \in Running : Transfer(i) BY <1>1, <2>1, OneEnd
  <2>2. CASE TimeOut
    <3>1. msgs' = {[req |-> i, end |-> "timedout"] : i \in Running} BY <1>1, <2>2 DEF TimeOut
    <3> QED BY <3>1 DEF Running
  <2> QED BY <2>1, <2>2 DEF MultiTimerCallback
<1> QED BY <1>1, <1>2, EndsKeep DEF MultiTimerCallback

LEMMA ActivityKeeps ==
  ASSUME HttpInv, OnLibeventSocketActivity PROVE HttpInv'
<1>1. loop = "idle" /\ loop' = "drain" BY DEF OnLibeventSocketActivity
<1>2. PICK i \in Running : Transfer(i) BY DEF OnLibeventSocketActivity
<1>3. /\ \A m \in msgs' : m.req \in multi
      /\ \A m, n \in msgs' : m.req = n.req => m = n
  BY <1>1, <1>2, OneEnd
<1> QED BY <1>1, <1>3, EndsKeep DEF OnLibeventSocketActivity

(* The request of a message goes from libcurl to the executor. *)
LEMMA UpdateKeeps ==
  ASSUME HttpInv, PerformCurlUpdate PROVE HttpInv'
<1> USE DEF HttpInv
<1>1. loop = "drain" /\ UNCHANGED <<reqs, caller, freed, calls, results, pending, allDone, shutdown>>
  BY DEF PerformCurlUpdate
<1>2. Handles' = Handles /\ Sent' = Sent BY <1>1 DEF Handles, Sent
<1>3. CallerInOrder' BY <1>1, <1>2 DEF CallerInOrder
<1>4. CallsAreCounted' BY <1>1, NotCalledBack DEF NoCall
<1>5. CASE msgs = {}
  <2>1. loop' = "idle" /\ UNCHANGED <<msgs, multi, handleSet, overtaken, tasks>>
    BY <1>5 DEF PerformCurlUpdate
  <2>2. InTasks' = InTasks BY <2>1 DEF InTasks
  <2>3. EachInItsPlace' BY <1>1, <1>2, <2>1, <2>2 DEF EachInItsPlace
  <2>4. ShutdownInOrder' BY <1>1, <1>5, <2>1 DEF ShutdownInOrder
  <2> QED BY <1>3, <1>4, <2>3, <2>4
<1>6. CASE msgs # {}
  <2>1. PICK m \in msgs : ReadMessage(m) BY <1>6 DEF PerformCurlUpdate
  <2>2. loop' = loop BY <1>6 DEF PerformCurlUpdate
  <2> DEFINE t == [req |-> m.req, end |-> m.end, code |-> GetResultFromMsg(m.end)]
  <2>3. /\ msgs' = msgs \ {m} /\ multi' = multi \ {m.req} /\ handleSet' = handleSet \ {m.req}
        /\ tasks' = tasks \cup {t} /\ t.req = m.req
        /\ overtaken' = IF caller.stage = "added" /\ caller.next = m.req
                        THEN overtaken \cup {m.req} ELSE overtaken
    BY <2>1 DEF ReadMessage
  <2> HIDE DEF t
  <2>4. m.req \in multi /\ \A n \in msgs' : n.req \in multi /\ n.req # m.req
    BY <2>3 DEF EachInItsPlace
  <2>5. InTasks' = InTasks \cup {m.req} BY <2>3 DEF InTasks
  <2>6. m.req \notin InTasks \cup freed BY <2>4 DEF EachInItsPlace
  <2>7. \A u, v \in tasks' : u.req = v.req => u = v
    <3>1. \A u \in tasks : u.req \in InTasks BY DEF InTasks
    <3> QED BY <2>3, <2>6, <3>1 DEF EachInItsPlace
  <2>8. \A k, n \in msgs' : k.req \in multi' /\ (k.req = n.req => k = n)
    BY <2>3, <2>4 DEF EachInItsPlace
  <2>9. Sent' = multi' \cup InTasks' \cup freed' /\ multi' \cap (InTasks' \cup freed') = {}
    BY <1>1, <1>2, <2>3, <2>4, <2>5 DEF EachInItsPlace
  <2>10. InTasks' \cap freed' \subseteq overtaken' /\ overtaken' \subseteq InTasks' \cup freed'
    BY <1>1, <2>3, <2>5, <2>6 DEF EachInItsPlace
  <2>11. /\ handleSet' \subseteq multi' \cup overtaken'
         /\ \A i \in multi' \ handleSet' : caller'.stage = "added" /\ i = caller'.next
         /\ caller'.stage = "added" => caller'.next \in multi' \cup overtaken'
    BY <1>1, <2>3 DEF EachInItsPlace
  <2>12. EachInItsPlace' BY <2>7, <2>8, <2>9, <2>10, <2>11 DEF EachInItsPlace
  <2>13. ShutdownInOrder' BY <1>1, <2>2, <2>3 DEF ShutdownInOrder
  <2> QED BY <1>3, <1>4, <2>12, <2>13
<1> QED BY <1>5, <1>6

(* Neither the requests nor their callbacks are touched. *)
LEMMA ShutdownStepsKeep ==
  ASSUME HttpInv, ShutdownEventLoop \/ RequestShutdown PROVE HttpInv'
<1> USE DEF HttpInv
<1>1. UNCHANGED <<reqs, caller, multi, msgs, handleSet, tasks, freed, calls, results, pending,
                  allDone, overtaken>>
  BY DEF ShutdownEventLoop, RequestShutdown
<1>2. Handles' = Handles /\ Sent' = Sent /\ InTasks' = InTasks BY <1>1 DEF Handles, Sent, InTasks
<1>3. CallerInOrder' /\ EachInItsPlace' BY <1>1, <1>2 DEF CallerInOrder, EachInItsPlace
<1>4. CallsAreCounted' BY <1>1, NotCalledBack DEF NoCall
<1>5. ShutdownInOrder' BY <1>1 DEF ShutdownInOrder, ShutdownEventLoop, RequestShutdown
<1> QED BY <1>3, <1>4, <1>5

-----------------------------------------------------------------------------
(* The executor and the destructor. *)

LEMMA RunTaskKeeps ==
  ASSUME HttpInv, RunTask PROVE HttpInv'
<1> USE DEF HttpInv
<1>1. PICK t \in tasks :
        /\ tasks' = tasks \ {t} /\ freed' = freed \cup {t.req}
        /\ IF t.req \in freed THEN shutdown' = "undefined" /\ NoCall
           ELSE Call(t.req, Response(t)) /\ UNCHANGED shutdown
  BY DEF RunTask
<1>2. UNCHANGED <<reqs, caller, multi, msgs, handleSet, loop, overtaken>> BY DEF RunTask
<1>3. Handles' = Handles /\ Sent' = Sent BY <1>2 DEF Handles, Sent
<1>4. CallerInOrder' BY <1>2, <1>3 DEF CallerInOrder
<1>5. t.req \in InTasks /\ InTasks' = InTasks \ {t.req}
  <2>1. \A u \in tasks : u.req = t.req => u = t BY <1>1 DEF EachInItsPlace
  <2> QED BY <1>1, <2>1 DEF InTasks
<1>6. \A u, v \in tasks' : u.req = v.req => u = v BY <1>1 DEF EachInItsPlace
<1>7. Sent' = multi' \cup InTasks' \cup freed' /\ multi' \cap (InTasks' \cup freed') = {}
  BY <1>1, <1>2, <1>3, <1>5 DEF EachInItsPlace
<1>8. InTasks' \cap freed' \subseteq overtaken' /\ overtaken' \subseteq InTasks' \cup freed'
  BY <1>1, <1>2, <1>5 DEF EachInItsPlace
<1>9. EachInItsPlace' BY <1>2, <1>6, <1>7, <1>8 DEF EachInItsPlace
<1>10. t.req \in Sent /\ t.req \in Handles BY <1>5 DEF EachInItsPlace, Sent
<1>11. caller.stage # "start" BY <1>10, Places DEF Sent, CallerInOrder
<1>12. CASE t.req \in freed
  <2>1. shutdown' = "undefined" /\ NoCall /\ freed' = freed BY <1>1, <1>12
  <2>2. CallsAreCounted' BY <1>2, <2>1, NotCalledBack
  <2>3. t.req \in overtaken BY <1>5, <1>12 DEF EachInItsPlace
  <2>4. ShutdownInOrder' BY <1>2, <2>1, <2>3 DEF ShutdownInOrder
  <2> QED BY <1>4, <1>9, <2>2, <2>4
<1>13. CASE t.req \notin freed
  <2>1. Call(t.req, Response(t)) /\ shutdown' = shutdown BY <1>1, <1>13
  <2>2. CallsAreCounted' BY <1>1, <1>2, <1>10, <1>11, <1>13, <2>1, CalledBack
  <2>3. ShutdownInOrder' BY <1>2, <2>1 DEF ShutdownInOrder
  <2> QED BY <1>4, <1>9, <2>2, <2>3
<1> QED BY <1>12, <1>13

LEMMA CancelKeeps ==
  ASSUME HttpInv, CancelPending PROVE HttpInv'
<1> USE DEF HttpInv
<1>1. /\ shutdown = "complete" /\ caller.next > Len(reqs)
      /\ UNCHANGED <<reqs, caller, msgs, tasks, loop, overtaken>>
  BY DEF CancelPending
<1>2. Handles' = Handles /\ Sent' = Sent /\ InTasks' = InTasks
  BY <1>1 DEF Handles, Sent, InTasks
<1>3. CallerInOrder' BY <1>1, <1>2 DEF CallerInOrder
<1>4. msgs = {} /\ loop = "broken" BY <1>1 DEF ShutdownInOrder
<1>5. CASE /\ NoCall /\ UNCHANGED <<handleSet, multi, freed>>
           /\ \/ handleSet = {} /\ shutdown' = "destroyed"
              \/ \E i \in handleSet : i \in freed /\ shutdown' = "undefined"
  <2>1. EachInItsPlace' BY <1>1, <1>2, <1>5 DEF EachInItsPlace
  <2>2. CallsAreCounted' BY <1>1, <1>5, NotCalledBack
  <2>3. handleSet \cap freed \subseteq overtaken BY DEF EachInItsPlace
  <2>4. ShutdownInOrder' BY <1>1, <1>4, <1>5, <2>3 DEF ShutdownInOrder
  <2> QED BY <1>3, <2>1, <2>2, <2>4
<1>6. ASSUME NEW i \in handleSet, i \notin freed,
             handleSet' = handleSet \ {i}, multi' = multi \ {i}, freed' = freed \cup {i},
             Call(i, Status("INTERNAL")), shutdown' = shutdown
      PROVE  HttpInv'
  <2>1. i \in multi \cup overtaken BY <1>6 DEF EachInItsPlace
  <2>2. i \in Sent /\ i \in Handles BY <2>1 DEF EachInItsPlace, Sent
  <2>3. caller.stage \notin {"start", "added"}
    BY <1>1, <2>2, Places DEF CallerInOrder, Sent
  <2>4. Sent' = multi' \cup InTasks' \cup freed' /\ multi' \cap (InTasks' \cup freed') = {}
    BY <1>2, <1>6, <2>2 DEF EachInItsPlace
  <2>5. InTasks' \cap freed' \subseteq overtaken' /\ overtaken' \subseteq InTasks' \cup freed'
    BY <1>1, <1>2, <1>6, <2>1 DEF EachInItsPlace
  <2>6. EachInItsPlace' BY <1>1, <1>4, <1>6, <2>3, <2>4, <2>5 DEF EachInItsPlace
  <2>7. CallsAreCounted' BY <1>1, <1>6, <2>2, <2>3, CalledBack
  <2>8. ShutdownInOrder' BY <1>1, <1>4, <1>6 DEF ShutdownInOrder
  <2> QED BY <1>3, <2>6, <2>7, <2>8
<1> QED BY <1>5, <1>6 DEF CancelPending

-----------------------------------------------------------------------------
(* The fetcher: the theorems. *)

LEMMA StepKeeps ==
  ASSUME HttpInv, [HttpNext]_httpVars PROVE HttpInv'
<1>1. CASE HttpProgress
  BY <1>1, FetchUrlsKeeps, ExecuteKeeps, AddToManagerKeeps, AddKeeps, UpdateKeeps, TimerKeeps,
     ActivityKeeps, ShutdownStepsKeep, RunTaskKeeps, CancelKeeps DEF HttpProgress, HttpStep
<1>2. CASE RequestShutdown BY <1>2, ShutdownStepsKeep
<1>3. CASE UNCHANGED httpVars
  <2>1. UNCHANGED <<reqs, caller, multi, msgs, handleSet, tasks, freed, calls, results, pending,
                    allDone, loop, shutdown, overtaken>>
    BY <1>3 DEF httpVars
  <2>2. Handles' = Handles /\ Sent' = Sent /\ InTasks' = InTasks
    BY <2>1 DEF Handles, Sent, InTasks
  <2>3. CallerInOrder' /\ EachInItsPlace' BY <2>1, <2>2 DEF HttpInv, CallerInOrder, EachInItsPlace
  <2>4. CallsAreCounted' BY <2>1, NotCalledBack DEF HttpInv, NoCall
  <2>5. ShutdownInOrder' BY <2>1 DEF HttpInv, ShutdownInOrder
  <2> QED BY <2>3, <2>4, <2>5 DEF HttpInv
<1> QED BY <1>1, <1>2, <1>3 DEF HttpNext

(* Every request of the fetcher is in one place, between libcurl, the        *)
(* executor and the memory that is freed, whichever thread goes first.       *)
THEOREM Invariance == HttpSpec => []HttpInv
<1>1. HttpInit => HttpInv BY InitInv
<1>2. HttpInv /\ [HttpNext]_httpVars => HttpInv' BY StepKeeps
<1> QED BY <1>1, <1>2, PTL DEF HttpSpec

LEMMA InvImpliesCalledBack ==
  ASSUME HttpInv PROVE FetchesAreCalledBackOnce
<1> USE DEF HttpInv
<1>1. ASSUME NEW i \in Handles
      PROVE  /\ Len(calls[i]) <= 1 /\ (i \in freed => Len(calls[i]) = 1)
  <2>1. CASE i \in freed
    <3>1. PICK r : calls[i] = <<r>> BY <2>1 DEF CallsAreCounted
    <3> QED BY <3>1
  <2>2. CASE i \notin freed BY <2>2 DEF CallsAreCounted
  <2> QED BY <2>1, <2>2
<1>2. ASSUME NEW i \in Handles, shutdown = "destroyed", tasks = {} PROVE i \in freed
  <2>1. InTasks = {} /\ handleSet = {} BY <1>2 DEF InTasks, ShutdownInOrder
  <2>2. i < caller.next /\ caller.stage # "added"
    BY <1>2, Places DEF ShutdownInOrder, CallerInOrder
  <2>3. i \in multi \cup freed BY <2>1, <2>2 DEF EachInItsPlace, Sent
  <2> QED BY <2>1, <2>2, <2>3 DEF EachInItsPlace
<1>3. CalledBackOnce BY <1>1, <1>2 DEF CalledBackOnce
<1>4. NoFreedHandleIsKept BY DEF NoFreedHandleIsKept, EachInItsPlace, ShutdownInOrder
<1>5. ResultsInRequestOrder
  <2>1. CASE caller.stage # "start" /\ Gets \subseteq freed
    <3>1. PICK r : allDone = <<r>> BY <2>1 DEF CallsAreCounted
    <3>2. Len(allDone) = 1 /\ DOMAIN allDone = {1} /\ allDone # <<>> BY <3>1
    <3>3. ASSUME NEW i \in Gets PROVE calls[i] # <<>>
      <4>1. PICK c : calls[i] = <<c>> BY <2>1 DEF CallsAreCounted, Gets
      <4> QED BY <4>1
    <3>4. \A i \in Gets : allDone[1][i] = {calls[i][1]} BY <3>2 DEF CallsAreCounted
    <3> QED BY <3>2, <3>3, <3>4 DEF ResultsInRequestOrder
  <2>2. CASE ~(caller.stage # "start" /\ Gets \subseteq freed)
    BY <2>2 DEF ResultsInRequestOrder, CallsAreCounted
  <2> QED BY <2>1, <2>2
<1> QED BY <1>3, <1>4, <1>5 DEF FetchesAreCalledBackOnce

(* MultiCurlHttpFetcherAsync calls every request back once, with the results *)
(* in the order of the requests, and its destructor loses none; it meets a   *)
(* request that is freed only after a transfer that was over before the      *)
(* caller came to Add.                                                       *)
THEOREM EachFetchIsCalledBack == HttpSpec => []FetchesAreCalledBackOnce
<1>1. HttpInv => FetchesAreCalledBackOnce BY InvImpliesCalledBack
<1> QED BY <1>1, Invariance, PTL-----------------------------------------------------------------------------
(* Periodic fetchers.                                                        *)

Editions == {e \in Int : e >= -1}

(* What is known of the content and of what was fetched; a version that runs *)
(* something never stops to; the owner's End leaves nothing scheduled.       *)
FetchInv ==
  /\ kind \in {"url", "bucket"} /\ edits \in Nat
  /\ content \in [Names -> Editions] /\ got \in [Names -> SUBSET Editions] /\ asked \subseteq Names
  /\ kind = "url" /\ fstage = "fetching" => \A n \in Names \ asked : got[n] # {}
  /\ loaded = [v \in Versions |-> loaded[v]] /\ VersionsRunTheirOwnCode
  /\ someLoad \in BOOLEAN /\ (someLoad => \E v \in Versions : loaded[v] # {})
  /\ StartOkMeansLoaded
  /\ owner \in {"alive", "ended", "endedBusy"} /\ (owner = "ended" => fstage = "ended")
  /\ NoFetchAfterEnd

LEMMA FetchInitInv == FetchInit => FetchInv
<1> SUFFICES ASSUME FetchInit PROVE FetchInv
  OBVIOUS
<1>1. VersionsRunTheirOwnCode BY DEF FetchInit, VersionsRunTheirOwnCode, Versions, UrlVersion
<1>2. content \in [Names -> Editions] BY DEF FetchInit, Editions
<1> QED BY <1>1, <1>2 DEF FetchInit, FetchInv, StartOkMeansLoaded, NoFetchAfterEnd

(* A load replaces the code of one version. *)
LEMMA LoadKeeps ==
  ASSUME FetchInv, NEW v \in Versions, NEW code, loaded' = [loaded EXCEPT ![v] = {code}],
         v \in Blobs => v # "" /\ code[1] = v /\ code[2] > 0,
         v = UrlVersion => DOMAIN code = DOMAIN Endpoints /\ \A i \in DOMAIN code : code[i] > 0
  PROVE  /\ loaded' = [w \in Versions |-> loaded'[w]] /\ VersionsRunTheirOwnCode'
         /\ loaded'[v] # {}
<1>1. loaded' = [w \in Versions |-> IF w = v THEN {code} ELSE loaded[w]]
  BY DEF FetchInv
<1>2. loaded' = [w \in Versions |-> loaded'[w]] /\ loaded'[v] = {code}
      /\ \A w \in Versions : w # v => loaded'[w] = loaded[w]
  BY <1>1
<1>3. ASSUME NEW b \in Blobs, NEW c \in loaded'[b] PROVE b # "" /\ c[1] = b /\ c[2] > 0
  <2>1. CASE b = v BY <1>2, <1>3, <2>1
  <2>2. CASE b # v BY <1>2, <1>3, <2>2 DEF Versions, FetchInv, VersionsRunTheirOwnCode
  <2> QED BY <2>1, <2>2
<1>4. ASSUME NEW c \in loaded'[UrlVersion]
      PROVE  DOMAIN c = DOMAIN Endpoints /\ \A i \in DOMAIN c : c[i] > 0
  <2>1. CASE UrlVersion = v BY <1>2, <1>4, <2>1
  <2>2. CASE UrlVersion # v BY <1>2, <1>4, <2>2 DEF Versions, FetchInv, VersionsRunTheirOwnCode
  <2> QED BY <2>1, <2>2
<1> QED BY <1>2, <1>3, <1>4 DEF VersionsRunTheirOwnCode

LEMMA FetchNextInv == FetchInv /\ (FetchNext \/ UNCHANGED fetchVars) => FetchInv'
<1> SUFFICES ASSUME FetchInv, FetchNext \/ UNCHANGED fetchVars PROVE FetchInv'
  OBVIOUS
<1> USE PeriodicFetchAssumption
<1>1. CASE Publish
  <2>1. PICK n \in Names, e \in {edits + 2, -1, 0} : content' = [content EXCEPT ![n] = e]
    BY <1>1 DEF Publish
  <2>2. UNCHANGED <<kind, fstage, asked, got, loaded, someLoad, startOk, owner, late>> /\ edits' = edits + 1
    BY <1>1 DEF Publish
  <2>3. UNCHANGED Names BY <2>2 DEF Names
  <2>4. content' \in [Names -> Editions] BY <2>1 DEF FetchInv, Editions
  <2>5. edits' \in Nat BY <2>2 DEF FetchInv
  <2>6. VersionsRunTheirOwnCode' /\ StartOkMeansLoaded' /\ NoFetchAfterEnd'
    BY <2>2 DEF FetchInv, VersionsRunTheirOwnCode, StartOkMeansLoaded, NoFetchAfterEnd
  <2> QED BY <2>2, <2>3, <2>4, <2>5, <2>6 DEF FetchInv
<1>2. CASE PeriodicUrlFetchSync \/ PeriodicBucketFetchSync
  <2>1. UNCHANGED <<kind, content, edits, loaded, someLoad, owner>> /\ UNCHANGED Names
    BY <1>2 DEF PeriodicUrlFetchSync, PeriodicBucketFetchSync, Names
  <2>2. /\ asked' \subseteq Names /\ got' \in [Names -> SUBSET Editions]
        /\ kind = "url" => asked' = Names
    BY <1>2 DEF PeriodicUrlFetchSync, PeriodicBucketFetchSync, FetchInv
  <2>3. late' => owner = "endedBusy"
    BY <1>2 DEF PeriodicUrlFetchSync, PeriodicBucketFetchSync, FetchInv, NoFetchAfterEnd, Begin
  <2>4. owner # "ended"
    BY <1>2 DEF PeriodicUrlFetchSync, PeriodicBucketFetchSync, FetchInv, Begin
  <2>5. startOk' = {TRUE} => \E v \in Versions : loaded[v] # {}
    BY <1>2 DEF PeriodicUrlFetchSync, PeriodicBucketFetchSync, FetchInv, StartOkMeansLoaded,
       StartReturns
  <2> QED
    BY <2>1, <2>2, <2>3, <2>4, <2>5 DEF FetchInv, VersionsRunTheirOwnCode, StartOkMeansLoaded,
       NoFetchAfterEnd
<1>3. CASE UrlFetched
  <2>1. PICK n, e : /\ n \in asked /\ e \in {content[n], 0}
                    /\ asked' = asked \ {n} /\ got' = [got EXCEPT ![n] = {e}]
    BY <1>3 DEF UrlFetched
  <2>2. UNCHANGED <<kind, content, edits, fstage, loaded, someLoad, startOk, owner, late>>
        /\ UNCHANGED Names
    BY <1>3 DEF UrlFetched, Names
  <2>3. e \in Editions /\ n \in Names BY <2>1 DEF FetchInv, Editions
  <2>4. got' \in [Names -> SUBSET Editions] /\ asked' \subseteq Names BY <2>1, <2>3 DEF FetchInv
  <2>5. fstage = "fetching" /\ kind = "url" BY <1>3 DEF UrlFetched
  <2>6. \A m \in Names \ asked' : got'[m] # {} BY <2>1, <2>3, <2>5 DEF FetchInv
  <2> QED
    BY <2>2, <2>4, <2>6 DEF FetchInv, VersionsRunTheirOwnCode, StartOkMeansLoaded, NoFetchAfterEnd
<1>4. CASE UrlFetchDone
  <2> DEFINE values == [i \in DOMAIN Endpoints |-> CHOOSE e \in got[Endpoints[i]] : TRUE]
  <2>1. UNCHANGED <<kind, content, edits, asked, got, owner, late>> /\ UNCHANGED Names
        /\ fstage = "fetching" /\ kind = "url" /\ asked = {} /\ fstage' = "scheduled"
        /\ StartReturns(someLoad')
    BY <1>4 DEF UrlFetchDone, Names
  <2>2. ASSUME NEW i \in DOMAIN Endpoints PROVE values[i] \in Editions
    <3>1. Endpoints[i] \in Names BY <2>1 DEF Names, Elems
    <3>2. got[Endpoints[i]] # {} /\ got[Endpoints[i]] \subseteq Editions
      BY <2>1, <3>1 DEF FetchInv
    <3> QED BY <3>2
  <2>3. CASE UNCHANGED <<loaded, someLoad>>
    <3>1. startOk' = {TRUE} => \E v \in Versions : loaded[v] # {}
      BY <2>1, <2>3 DEF StartReturns, StartOkMeansLoaded, FetchInv
    <3> QED
      BY <2>1, <2>3, <3>1 DEF FetchInv, VersionsRunTheirOwnCode, StartOkMeansLoaded, NoFetchAfterEnd
  <2>4. CASE loaded' = loaded /\ someLoad' = FALSE
    <3>1. startOk' = {TRUE} => \E v \in Versions : loaded[v] # {}
      BY <2>1, <2>4 DEF StartReturns, StartOkMeansLoaded, FetchInv
    <3> QED
      BY <2>1, <2>4, <3>1 DEF FetchInv, VersionsRunTheirOwnCode, StartOkMeansLoaded, NoFetchAfterEnd
  <2>5. CASE /\ \A i \in DOMAIN values : values[i] # 0 /\ values[i] # -1
             /\ loaded' = [loaded EXCEPT ![UrlVersion] = {values}] /\ someLoad' = TRUE
    <3>1. UrlVersion \in Versions /\ UrlVersion \notin Blobs BY DEF Versions, UrlVersion
    <3>2. DOMAIN values = DOMAIN Endpoints OBVIOUS
    <3>3. ASSUME NEW i \in DOMAIN values PROVE values[i] > 0
      <4>1. values[i] \in Editions /\ values[i] # 0 /\ values[i] # -1 BY <2>2, <2>5, <3>2
      <4> HIDE DEF values
      <4> QED BY <4>1 DEF Editions
    <3> HIDE DEF values
    <3>4. /\ loaded' = [w \in Versions |-> loaded'[w]] /\ VersionsRunTheirOwnCode'
          /\ loaded'[UrlVersion] # {}
      BY <2>5, <3>1, <3>2, <3>3, LoadKeeps
    <3> QED BY <2>1, <2>5, <3>1, <3>4 DEF FetchInv, StartOkMeansLoaded, NoFetchAfterEnd
  <2>6. \/ UNCHANGED <<loaded, someLoad>>
        \/ ~(\E i \in DOMAIN values : values[i] = 0) /\
           \E ok \in {~(\E i \in DOMAIN values : values[i] = -1), FALSE} : OnUrlResults(values, ok)
    BY <1>4 DEF UrlFetchDone
  <2> HIDE DEF values
  <2> QED BY <2>3, <2>4, <2>5, <2>6 DEF OnUrlResults, LoadSync
<1>5. CASE GetBlob
  <2>1. UNCHANGED <<kind, content, edits, fstage, got, startOk, owner, late>> /\ UNCHANGED Names
        /\ kind = "bucket"
    BY <1>5 DEF GetBlob, Names
  <2>2. PICK n \in asked :
       /\ asked' = asked \ {n}
       /\ \/ \E e \in {content[n], 0} : \E ok \in {e > 0, FALSE} : OnBlob(n, e, ok)
          \/ UNCHANGED <<loaded, someLoad>>
    BY <1>5 DEF GetBlob
  <2>3. n \in Names /\ n \in Blobs /\ asked' \subseteq Names BY <2>1, <2>2 DEF FetchInv, Names
  <2>4. CASE UNCHANGED <<loaded, someLoad>>
    BY <2>1, <2>3, <2>4 DEF FetchInv, VersionsRunTheirOwnCode, StartOkMeansLoaded, NoFetchAfterEnd
  <2>5. ASSUME NEW e \in {content[n], 0}, NEW ok \in {e > 0, FALSE}, OnBlob(n, e, ok),
               ~UNCHANGED <<loaded, someLoad>>
        PROVE  FetchInv'
    <3>1. n # "" /\ ok /\ loaded' = LoadSync(n, <<n, e>>, ok) /\ someLoad' = TRUE
      BY <2>5 DEF OnBlob, GetBucketBlobVersion
    <3>2. e > 0 /\ loaded' = [loaded EXCEPT ![n] = {<<n, e>>}] BY <2>5, <3>1 DEF LoadSync
    <3>3. n \in Versions /\ n # UrlVersion BY <2>3 DEF Versions, UrlVersion
    <3>4. PICK code : code = <<n, e>> OBVIOUS
    <3>5. code[1] = n /\ code[2] > 0 BY <3>2, <3>4
    <3>6. /\ loaded' = [w \in Versions |-> loaded'[w]] /\ VersionsRunTheirOwnCode'
          /\ loaded'[n] # {}
      BY <3>1, <3>2, <3>3, <3>4, <3>5, LoadKeeps
    <3> QED BY <2>1, <2>3, <3>1, <3>3, <3>6 DEF FetchInv, StartOkMeansLoaded, NoFetchAfterEnd
  <2> QED BY <2>2, <2>4, <2>5
<1>6. CASE BlobsDone \/ End
  <2>1. UNCHANGED <<kind, content, edits, asked, got, loaded, someLoad, late>> /\ UNCHANGED Names
    BY <1>6 DEF BlobsDone, End, Names
  <2>2. startOk' = {TRUE} => \E v \in Versions : loaded[v] # {}
    BY <1>6 DEF BlobsDone, End, StartReturns, StartOkMeansLoaded, FetchInv
  <2>3. /\ owner' \in {"alive", "ended", "endedBusy"} /\ (owner' = "ended" => fstage' = "ended")
        /\ late' => owner' = "endedBusy"
        /\ (kind = "url" => fstage' = fstage \/ fstage' # "fetching")
    BY <1>6 DEF BlobsDone, End, FetchInv, NoFetchAfterEnd
  <2> QED BY <2>1, <2>2, <2>3 DEF FetchInv, VersionsRunTheirOwnCode, StartOkMeansLoaded, NoFetchAfterEnd
<1>7. CASE UNCHANGED fetchVars
  <2>1. UNCHANGED Names BY <1>7 DEF fetchVars, Names
  <2> QED
    BY <1>7, <2>1 DEF fetchVars, FetchInv, VersionsRunTheirOwnCode, StartOkMeansLoaded, NoFetchAfterEnd
<1> QED BY <1>1, <1>2, <1>3, <1>4, <1>5, <1>6, <1>7 DEF FetchNext, FetchRound
-----------------------------------------------------------------------------
(* Loops that keep some of the items of a list.                              *)

(* q has the items e[i] for the i of T up to n, in their order. *)
Selects(q, V, T, e, n) ==
  /\ q \in Seq(V)
  /\ \E g \in [1 .. Len(q) -> {i \in T : i <= n}] :
       /\ \A k \in 1 .. Len(q) : q[k] = e[g[k]]
       /\ \A j, k \in 1 .. Len(q) : j < k => g[j] < g[k]
       /\ \A i \in {j \in T : j <= n} : \E k \in 1 .. Len(q) : g[k] = i

LEMMA SelectsNothing ==
  ASSUME NEW V, NEW T, \A i \in T : i \in Nat /\ i > 0, NEW e
  PROVE  Selects(<<>>, V, T, e, 0)
<1>1. Len(<<>>) = 0 /\ <<>> \in Seq(V) /\ 1 .. 0 = {} OBVIOUS
<1>2. ~\E i \in T : i <= 0 OBVIOUS
<1>3. PICK g : g = [k \in 1 .. 0 |-> 0] OBVIOUS
<1>4. g \in [1 .. 0 -> {i \in T : i <= 0}] BY <1>1, <1>3
<1> QED BY <1>1, <1>2, <1>4 DEF Selects

LEMMA SelectsMore ==
  ASSUME NEW V, NEW T, \A i \in T : i \in Nat /\ i > 0, NEW e, NEW n \in Nat, NEW q, Selects(q, V, T, e, n),
         n + 1 \in T => e[n + 1] \in V
  PROVE  Selects(IF n + 1 \in T THEN Append(q, e[n + 1]) ELSE q, V, T, e, n + 1)
<1>1. PICK g \in [1 .. Len(q) -> {i \in T : i <= n}] :
       /\ \A k \in 1 .. Len(q) : q[k] = e[g[k]]
       /\ \A j, k \in 1 .. Len(q) : j < k => g[j] < g[k]
       /\ \A i \in {j \in T : j <= n} : \E k \in 1 .. Len(q) : g[k] = i
  BY DEF Selects
<1>2. q \in Seq(V) BY DEF Selects
<1>3. CASE n + 1 \notin T
  <2>0. \A i \in T : i <= n + 1 <=> i <= n BY <1>3
  <2>1. {i \in T : i <= n + 1} = {i \in T : i <= n} BY <2>0, Zenon
  <2> QED BY <1>1, <1>2, <1>3, <2>1 DEF Selects
<1>4. CASE n + 1 \in T
  <2>1. PICK m \in Nat : m = Len(q) BY <1>2
  <2>a. PICK x \in V : x = e[n + 1] BY <1>4
  <2>b. Append(q, x) \in Seq(V) BY <1>2
  <2>2. PICK r \in Seq(V) : r = Append(q, e[n + 1]) BY <2>a, <2>b
  <2>3. Len(r) = m + 1 /\ r[m + 1] = e[n + 1] /\ \A k \in 1 .. m : r[k] = q[k]
    BY <1>2, <1>4, <2>1, <2>2
  <2>4. PICK h : h = [k \in 1 .. m + 1 |-> IF k = m + 1 THEN n + 1 ELSE g[k]] OBVIOUS
  <2>5. /\ h[m + 1] = n + 1 /\ \A k \in 1 .. m : h[k] = g[k] /\ g[k] \in T /\ g[k] <= n
    <3>1. h[m + 1] = n + 1 BY <2>4
    <3>2. ASSUME NEW k \in 1 .. m PROVE h[k] = g[k] BY <2>4
    <3>3. ASSUME NEW k \in 1 .. m PROVE g[k] \in T /\ g[k] <= n BY <1>1, <2>1
    <3> QED BY <3>1, <3>2, <3>3
  <2>6. h \in [1 .. m + 1 -> {i \in T : i <= n + 1}]
    <3>1. ASSUME NEW k \in 1 .. m + 1 PROVE h[k] \in T /\ h[k] <= n + 1
      <4>1. CASE k = m + 1 BY <1>4, <2>5, <4>1
      <4>2. CASE k # m + 1
        <5>1. k \in 1 .. m BY <4>2
        <5>2. h[k] = g[k] /\ g[k] \in T /\ g[k] <= n /\ g[k] \in Nat BY <2>5, <5>1
        <5> QED BY <5>2
      <4> QED BY <4>1, <4>2
    <3> QED BY <2>4, <3>1
  <2>7. ASSUME NEW k \in 1 .. m + 1 PROVE r[k] = e[h[k]]
    <3>1. CASE k = m + 1 BY <2>3, <2>5, <3>1
    <3>2. CASE k # m + 1
      <4>1. k \in 1 .. m BY <3>2
      <4> QED BY <1>1, <2>1, <2>3, <2>5, <4>1
    <3> QED BY <3>1, <3>2
  <2>8. ASSUME NEW j \in 1 .. m + 1, NEW k \in 1 .. m + 1, j < k PROVE h[j] < h[k]
    <3>0. j \in 1 .. m BY <2>8
    <3>1. CASE k = m + 1
      <4>1. h[j] \in Nat /\ h[j] <= n /\ h[k] = n + 1 BY <2>5, <3>0, <3>1
      <4> QED BY <4>1
    <3>2. CASE k # m + 1
      <4>1. k \in 1 .. m BY <3>2
      <4>2. g[j] < g[k] BY <1>1, <2>1, <2>8, <3>0, <4>1
      <4> QED BY <2>5, <3>0, <4>1, <4>2
    <3> QED BY <3>1, <3>2
  <2>9. ASSUME NEW i \in {j \in T : j <= n + 1} PROVE \E k \in 1 .. m + 1 : h[k] = i
    <3>1. CASE i = n + 1 BY <2>5, <3>1
    <3>2. CASE i # n + 1
      <4>1. i \in {j \in T : j <= n} BY <3>2
      <4>2. PICK k \in 1 .. m : g[k] = i BY <1>1, <2>1, <4>1
      <4> QED BY <2>5, <4>2
    <3> QED BY <3>1, <3>2
  <2>10. Selects(r, V, T, e, n + 1)
    <3>1. PICK l : l = Len(r) /\ l = m + 1 BY <2>3
    <3>2. /\ h \in [1 .. l -> {i \in T : i <= n + 1}] /\ \A k \in 1 .. l : r[k] = e[h[k]]
          /\ \A j, k \in 1 .. l : j < k => h[j] < h[k]
          /\ \A i \in {j \in T : j <= n + 1} : \E k \in 1 .. l : h[k] = i
      BY <2>6, <2>7, <2>8, <2>9, <3>1
    <3>3. /\ h \in [1 .. Len(r) -> {i \in T : i <= n + 1}] /\ \A k \in 1 .. Len(r) : r[k] = e[h[k]]
          /\ \A j, k \in 1 .. Len(r) : j < k => h[j] < h[k]
          /\ \A i \in {j \in T : j <= n + 1} : \E k \in 1 .. Len(r) : h[k] = i
      BY <3>1, <3>2, Zenon
    <3> QED BY <2>2, <3>3, Zenon DEF Selects
  <2> QED BY <1>4, <2>2, <2>10
<1> QED BY <1>3, <1>4

(* f has the values of a loop over 1 .. N that keeps the items of T. *)
Filters(f, N, T, e) ==
  f[0] = <<>> /\ \A i \in 1 .. N : f[i] = IF i \in T THEN Append(f[i - 1], e[i]) ELSE f[i - 1]

(* The loop exists, and every function that is such a loop selects. *)
LEMMA FilterLoop ==
  ASSUME NEW N \in Nat, NEW V, NEW T, NEW e, \A i \in T : i \in 1 .. N /\ e[i] \in V
  PROVE  \E f \in [0 .. N -> Seq(V)] : Filters(f, N, T, e)
<1>1. PICK W, b : W = Seq(V) /\ b = <<>> OBVIOUS
<1>2. b \in W BY <1>1
<1>3. PICK G : G = [p \in (1 .. N) \X W |-> IF p[1] \in T THEN Append(p[2], e[p[1]]) ELSE p[2]] OBVIOUS
<1>4. ASSUME NEW i \in 1 .. N, NEW x \in W
      PROVE  /\ G[<<i, x>>] = IF i \in T THEN Append(x, e[i]) ELSE x
             /\ G[<<i, x>>] \in W
  <2>1. <<i, x>> \in (1 .. N) \X W OBVIOUS
  <2>2. G[<<i, x>>] = IF i \in T THEN Append(x, e[i]) ELSE x BY <1>3, <2>1
  <2> QED BY <1>1, <2>2
<1>5. G \in Turns(N, W)
  <2>1. \A p \in (1 .. N) \X W : G[p] \in W BY <1>4
  <2> QED BY <1>3, <2>1 DEF Turns
<1>6. PICK f \in [0 .. N -> W] : f[0] = b /\ \A i \in 1 .. N : f[i] = G[<<i, f[i - 1]>>]
  BY <1>2, <1>5, Loop
<1>7. ASSUME NEW i \in 1 .. N PROVE f[i] = IF i \in T THEN Append(f[i - 1], e[i]) ELSE f[i - 1]
  <2>1. f[i - 1] \in W BY <1>6
  <2> QED BY <1>4, <1>6, <2>1
<1> QED BY <1>1, <1>6, <1>7 DEF Filters

LEMMA FilterSelects ==
  ASSUME NEW N \in Nat, NEW V, NEW T, NEW e, \A i \in T : i \in 1 .. N /\ e[i] \in V, NEW f,
         Filters(f, N, T, e)
  PROVE  Selects(f[N], V, T, e, N)
<1> DEFINE S == {n \in Nat : n <= N => Selects(f[n], V, T, e, n)}
<1>0. \A i \in T : i \in Nat /\ i > 0 OBVIOUS
<1>1. 0 \in S BY <1>0, SelectsNothing DEF Filters
<1>2. ASSUME NEW n \in Nat, n \in S PROVE n + 1 \in S
  <2> SUFFICES ASSUME n + 1 <= N PROVE Selects(f[n + 1], V, T, e, n + 1)
    OBVIOUS
  <2>1. Selects(f[n], V, T, e, n) BY <1>2
  <2>2. f[n + 1] = IF n + 1 \in T THEN Append(f[n], e[n + 1]) ELSE f[n]
    <3>1. n + 1 \in 1 .. N /\ (n + 1) - 1 = n OBVIOUS
    <3> QED BY <3>1 DEF Filters
  <2>3. Selects(IF n + 1 \in T THEN Append(f[n], e[n + 1]) ELSE f[n], V, T, e, n + 1)
    BY <1>0, <2>1, SelectsMore
  <2> QED BY <2>2, <2>3, Zenon
<1> HIDE DEF S
<1>3. N \in S BY <1>1, <1>2, SetInduction
<1> QED BY <1>3 DEF S
-----------------------------------------------------------------------------
(* The buyers' reportWin code.                                               *)

AuctionTypes == {"pa", "pas"}
Requested(t) == {b \in Configured(t) : CreateUdfFetchRequest(t, b)}

(* One request for each buyer that has an endpoint that can be asked. *)
LEMMA RequestsOfType ==
  ASSUME NEW t \in AuctionTypes
  PROVE  /\ RequestsOf(t) \in Seq(AuctionTypes \X Buyers)
         /\ \A k \in 1 .. Len(RequestsOf(t)) :
              RequestsOf(t)[k][1] = t /\ RequestsOf(t)[k][2] \in Requested(t)
         /\ \A j, k \in 1 .. Len(RequestsOf(t)) : j # k => RequestsOf(t)[j] # RequestsOf(t)[k]
         /\ Cardinality(Requested(t)) = Len(RequestsOf(t))
<1>0. BuyerOrder \in Seq(STRING) /\ \A i, j \in DOMAIN BuyerOrder : i # j => BuyerOrder[i] # BuyerOrder[j]
  BY PeriodicFetchAssumption
<1>1. PICK N \in Nat : N = Len(BuyerOrder) /\ DOMAIN BuyerOrder = 1 .. N BY <1>0
<1>2. PICK V, T, e :
        /\ V = AuctionTypes \X Buyers
        /\ T = {i \in 1 .. N : BuyerOrder[i] \in Configured(t) /\ CreateUdfFetchRequest(t, BuyerOrder[i])}
        /\ e = [i \in 1 .. N |-> <<t, BuyerOrder[i]>>]
  OBVIOUS
<1>3. \A i \in 1 .. N : e[i] = <<t, BuyerOrder[i]>> /\ e[i] \in V BY <1>1, <1>2 DEF Buyers
<1>4. \A i \in T : i \in 1 .. N /\ e[i] \in V BY <1>2, <1>3
<1> DEFINE Step(f) == [i \in 0 .. N |->
        IF i = 0 THEN <<>>
        ELSE IF BuyerOrder[i] \in Configured(t) /\ CreateUdfFetchRequest(t, BuyerOrder[i])
        THEN Append(f[i - 1], <<t, BuyerOrder[i]>>) ELSE f[i - 1]]
<1>5. PICK added : added = CHOOSE f : f = Step(f) OBVIOUS
<1>6. RequestsOf(t) = added[N] BY <1>1, <1>5, Zenon DEF RequestsOf
<1>7. \E f : f = Step(f)
  <2>a. PICK f \in [0 .. N -> Seq(V)] : Filters(f, N, T, e) BY <1>4, FilterLoop
  <2>1. f[0] = <<>> /\ \A i \in 1 .. N : f[i] = IF i \in T THEN Append(f[i - 1], e[i]) ELSE f[i - 1]
    BY <2>a DEF Filters
  <2>2. f = [i \in 0 .. N |-> f[i]] BY <2>a
  <2>3. ASSUME NEW i \in 0 .. N
        PROVE  f[i] = IF i = 0 THEN <<>>
                      ELSE IF BuyerOrder[i] \in Configured(t) /\ CreateUdfFetchRequest(t, BuyerOrder[i])
                      THEN Append(f[i - 1], <<t, BuyerOrder[i]>>) ELSE f[i - 1]
    <3>1. CASE i = 0 BY <2>1, <3>1
    <3>2. CASE i # 0
      <4>1. i \in 1 .. N BY <3>2
      <4>2. i \in T <=> BuyerOrder[i] \in Configured(t) /\ CreateUdfFetchRequest(t, BuyerOrder[i])
        BY <1>2, <4>1
      <4>3. e[i] = <<t, BuyerOrder[i]>> BY <1>3, <4>1
      <4> QED BY <2>1, <3>2, <4>1, <4>2, <4>3, Zenon
    <3> QED BY <3>1, <3>2
  <2>4. f = Step(f) BY <2>2, <2>3, Zenon
  <2> QED BY <2>4
<1>8. added = Step(added) BY <1>5, <1>7
<1>9. Filters(added, N, T, e)
  <2>1. ASSUME NEW i \in 0 .. N
        PROVE  added[i] = IF i = 0 THEN <<>>
                      ELSE IF BuyerOrder[i] \in Configured(t) /\ CreateUdfFetchRequest(t, BuyerOrder[i])
                      THEN Append(added[i - 1], <<t, BuyerOrder[i]>>) ELSE added[i - 1]
    BY <1>8, Zenon
  <2>2. added[0] = <<>>
    <3>1. 0 \in 0 .. N OBVIOUS
    <3> QED BY <2>1, <3>1
  <2>3. ASSUME NEW i \in 1 .. N
        PROVE  added[i] = IF i \in T THEN Append(added[i - 1], e[i]) ELSE added[i - 1]
    <3>1. i \in 0 .. N /\ i # 0 OBVIOUS
    <3>2. i \in T <=> BuyerOrder[i] \in Configured(t) /\ CreateUdfFetchRequest(t, BuyerOrder[i])
      BY <1>2
    <3>3. e[i] = <<t, BuyerOrder[i]>> BY <1>3
    <3> QED BY <2>1, <3>1, <3>2, <3>3, Zenon
  <2> QED BY <2>2, <2>3 DEF Filters
<1>10. PICK q : q = RequestsOf(t) OBVIOUS
<1>11. Selects(q, V, T, e, N) BY <1>4, <1>6, <1>9, <1>10, FilterSelects
<1>12. PICK g \in [1 .. Len(q) -> {i \in T : i <= N}] :
       /\ \A k \in 1 .. Len(q) : q[k] = e[g[k]]
       /\ \A j, k \in 1 .. Len(q) : j < k => g[j] < g[k]
       /\ \A i \in {j \in T : j <= N} : \E k \in 1 .. Len(q) : g[k] = i
  BY <1>11 DEF Selects
<1>13. q \in Seq(V) BY <1>11 DEF Selects
<1>14. ASSUME NEW k \in 1 .. Len(q)
       PROVE  g[k] \in T /\ g[k] \in 1 .. N /\ q[k] = <<t, BuyerOrder[g[k]]>>
              /\ q[k][1] = t /\ q[k][2] = BuyerOrder[g[k]] /\ BuyerOrder[g[k]] \in Requested(t)
  <2>1. g[k] \in T /\ g[k] \in 1 .. N BY <1>4, <1>12
  <2>2. q[k] = <<t, BuyerOrder[g[k]]>> BY <1>3, <1>12, <2>1
  <2>3. BuyerOrder[g[k]] \in Requested(t) BY <1>2, <2>1 DEF Requested
  <2> QED BY <2>1, <2>2, <2>3
<1>15. ASSUME NEW j \in 1 .. Len(q), NEW k \in 1 .. Len(q), j # k
       PROVE  BuyerOrder[g[j]] # BuyerOrder[g[k]]
  <2>1. j < k \/ k < j BY <1>13, <1>15
  <2>2. g[j] # g[k]
    <3>1. g[j] \in 1 .. N /\ g[k] \in 1 .. N BY <1>14
    <3>2. g[j] < g[k] \/ g[k] < g[j] BY <1>12, <2>1
    <3> QED BY <3>1, <3>2
  <2> QED BY <1>0, <1>1, <1>14, <2>2
<1>16. PICK n \in Nat : n = Len(q) BY <1>13
<1>17. PICK h : h = [k \in 1 .. n |-> BuyerOrder[g[k]]] OBVIOUS
<1>18. h \in Bijection(1 .. n, Requested(t))
  <2>1. h \in [1 .. n -> Requested(t)] BY <1>14, <1>16, <1>17
  <2>2. ASSUME NEW j \in 1 .. n, NEW k \in 1 .. n, h[j] = h[k] PROVE j = k
    BY <1>15, <1>16, <1>17, <2>2
  <2>3. ASSUME NEW b \in Requested(t) PROVE \E k \in 1 .. n : h[k] = b
    <3>1. b \in Buyers /\ b \in Configured(t) /\ CreateUdfFetchRequest(t, b) BY DEF Requested, Configured
    <3>2. PICK i \in 1 .. N : BuyerOrder[i] = b BY <1>1, <3>1 DEF Buyers
    <3>3. i \in T /\ i <= N BY <1>2, <3>1, <3>2
    <3>4. PICK k \in 1 .. n : g[k] = i BY <1>12, <1>16, <3>3
    <3> QED BY <1>17, <3>2, <3>4
  <2> QED BY <2>1, <2>2, <2>3, Zenon DEF Bijection, Injection, Surjection, IsInjective
<1>19. Cardinality(Requested(t)) = n BY <1>18, FS_CountingElements DEF ExistsBijection
<1>20. \A j, k \in 1 .. Len(q) : j # k => q[j] # q[k] BY <1>14, <1>15
<1> QED BY <1>2, <1>10, <1>13, <1>14, <1>16, <1>19, <1>20

(* All requests: each for one buyer and type; while no endpoint was skipped, *)
(* the protected audience's are those the count says they are.               *)
LEMMA RequestsAre ==
  /\ Requests \in Seq(AuctionTypes \X Buyers)
  /\ \A k \in 1 .. Len(Requests) :
       /\ Requests[k][1] \in AuctionTypes /\ Requests[k][2] \in Requested(Requests[k][1])
       /\ ~Skipped => (IsProtectedAudience(k) <=> Requests[k][1] = "pa")
  /\ \A j, k \in 1 .. Len(Requests) : j # k => Requests[j] # Requests[k]
<1>1. PICK W, p, s : /\ W = AuctionTypes \X Buyers /\ p = RequestsOf("pa") /\ s = RequestsOf("pas")
  OBVIOUS
<1>2. "pa" \in AuctionTypes /\ "pas" \in AuctionTypes BY DEF AuctionTypes
<1>a. /\ p \in Seq(W) /\ Cardinality(Requested("pa")) = Len(p)
      /\ \A k \in 1 .. Len(p) : p[k][1] = "pa" /\ p[k][2] \in Requested("pa")
      /\ \A j, k \in 1 .. Len(p) : j # k => p[j] # p[k]
  <2>1. PICK t \in AuctionTypes : t = "pa" BY <1>2
  <2>2. p = RequestsOf(t) BY <1>1, <2>1
  <2> QED BY <1>1, <2>1, <2>2, RequestsOfType
<1>b. /\ s \in Seq(W)
      /\ \A k \in 1 .. Len(s) : s[k][1] = "pas" /\ s[k][2] \in Requested("pas")
      /\ \A j, k \in 1 .. Len(s) : j # k => s[j] # s[k]
  <2>1. PICK t \in AuctionTypes : t = "pas" BY <1>2
  <2>2. s = RequestsOf(t) BY <1>1, <2>1
  <2> QED BY <1>1, <2>1, <2>2, RequestsOfType
<1>3. /\ p \in Seq(W) /\ s \in Seq(W) /\ Cardinality(Requested("pa")) = Len(p)
      /\ \A k \in 1 .. Len(p) : p[k][1] = "pa" /\ p[k][2] \in Requested("pa")
      /\ \A k \in 1 .. Len(s) : s[k][1] = "pas" /\ s[k][2] \in Requested("pas")
      /\ \A j, k \in 1 .. Len(p) : j # k => p[j] # p[k]
      /\ \A j, k \in 1 .. Len(s) : j # k => s[j] # s[k]
  BY <1>a, <1>b
<1>4. PICK m \in Nat, n \in Nat : m = Len(p) /\ n = Len(s) BY <1>3
<1>5. PICK q : q = p \o s OBVIOUS
<1>6. /\ q \in Seq(W) /\ Len(q) = m + n /\ \A k \in 1 .. m : q[k] = p[k]
      /\ \A k \in m + 1 .. m + n : q[k] = s[k - m] /\ k - m \in 1 .. n
  BY <1>3, <1>4, <1>5
<1>7. ASSUME NEW k \in 1 .. m + n
      PROVE  /\ q[k][1] \in AuctionTypes /\ q[k][2] \in Requested(q[k][1])
             /\ q[k][1] = "pa" <=> k <= m
  <2>1. CASE k <= m BY <1>2, <1>3, <1>4, <1>6, <2>1
  <2>2. CASE k > m
    <3>1. k \in m + 1 .. m + n BY <2>2
    <3>2. q[k][1] = "pas" /\ q[k][2] \in Requested("pas") BY <1>3, <1>4, <1>6, <3>1
    <3> QED BY <1>2, <2>2, <3>2
  <2> QED BY <2>1, <2>2
<1>8. ASSUME NEW j \in 1 .. m + n, NEW k \in 1 .. m + n, j # k PROVE q[j] # q[k]
  <2>1. CASE j <= m /\ k <= m BY <1>3, <1>4, <1>6, <1>8, <2>1
  <2>2. CASE j > m /\ k > m
    <3>1. j \in m + 1 .. m + n /\ k \in m + 1 .. m + n /\ j - m # k - m BY <1>8, <2>2
    <3>2. q[j] = s[j - m] /\ q[k] = s[k - m] /\ j - m \in 1 .. n /\ k - m \in 1 .. n
      BY <1>6, <3>1
    <3> QED BY <1>3, <1>4, <3>1, <3>2
  <2>3. CASE ~(j <= m <=> k <= m) BY <1>7, <2>3
  <2> QED BY <2>1, <2>2, <2>3
<1>9. ASSUME ~Skipped, NEW k \in 1 .. m + n PROVE IsProtectedAudience(k) <=> k <= m
  <2>1. Requested("pa") = Configured("pa") BY <1>9 DEF Skipped, Requested
  <2> QED BY <1>3, <1>4, <2>1 DEF IsProtectedAudience
<1>10. Requests = q BY <1>1, <1>5 DEF Requests
<1> QED BY <1>1, <1>6, <1>7, <1>8, <1>9, <1>10

AnswerType == [ok : BOOLEAN, header : BOOLEAN, code : Nat]

(* The code of the buyers that Roma runs, and of what is remembered.  While  *)
(* no endpoint was skipped and outside test mode, what is remembered runs or *)
(* could not be loaded, and so does what was answered in this round.         *)
OwnCode(v, c) ==
  /\ c[2] = v[2] /\ (c[3] > 0 \/ testMode)
  /\ Skipped \/ (c[1] = v[1] /\ urls[v[1]][v[2]] = "url")
Runs(v, code) == romaCode[v] = {<<v[1], v[2], code>>} \/ <<v, code>> \in failedLoads
UdfTypeOK ==
  /\ testMode \in BOOLEAN
  /\ perOrigin \in [AuctionTypes -> [Buyers -> SUBSET Nat]]
  /\ romaCode = [v \in AuctionTypes \X Buyers |-> romaCode[v]]
  /\ rstage \in {"handling", "waiting"} =>
       /\ responses \in [1 .. Len(Requests) -> AnswerType] /\ handled \in 0 .. Len(Requests)
       /\ \A i \in 1 .. Len(Requests) : ~responses[i].ok => responses[i].code = 0
  /\ rstage = "waiting" => handled = Len(Requests)
RunsOwn == \A v \in AuctionTypes \X Buyers : \A c \in romaCode[v] : OwnCode(v, c)
UpToDate ==
  /\ \A t \in AuctionTypes, b \in Buyers : \A c \in perOrigin[t][b] :
       perOrigin[t][b] = {c} /\ (b # "x" /\ c # 0 => Runs(<<t, b>>, c))
  /\ rstage \in {"handling", "waiting"} =>
       \A i \in 1 .. handled :
         (ValidateUdfFetchResponse(responses[i]) /\ Requests[i][2] # "x") => Runs(Requests[i], responses[i].code)
UdfInv == UdfTypeOK /\ RunsOwn /\ (testMode \/ Skipped \/ UpToDate)

LEMMA UdfInitInv == UdfInit => UdfInv
<1> SUFFICES ASSUME UdfInit PROVE UdfInv
  OBVIOUS
<1>1. UdfTypeOK BY DEF UdfInit, UdfTypeOK, AuctionTypes
<1>2. RunsOwn BY DEF UdfInit, RunsOwn, AuctionTypes
<1>3. UpToDate BY DEF UdfInit, UpToDate, AuctionTypes
<1> QED BY <1>1, <1>2, <1>3 DEF UdfInv

LEMMA RequestsStay ==
  ASSUME UNCHANGED urls
  PROVE  Requests' = Requests /\ (Skipped' <=> Skipped)
<1>1. Requests' = Requests BY DEF Requests, RequestsOf, Configured, CreateUdfFetchRequest
<1>2. Skipped' <=> Skipped BY DEF Skipped, Configured, CreateUdfFetchRequest
<1> QED BY <1>1, <1>2

LEMMA FetchUdfsKeeps == ASSUME UdfInv, PeriodicBuyerReportingFetchAndLoadSync PROVE UdfInv'
<1>1. UNCHANGED <<urls, testMode, perOrigin, romaCode, failedLoads>> /\ handled' = 0
      /\ rstage' \in {"ended", "handling"} /\ (rstage' = "handling" => responses' \in Responses)
  BY DEF PeriodicBuyerReportingFetchAndLoadSync
<1>2. Requests' = Requests /\ (Skipped' <=> Skipped) BY <1>1, RequestsStay
<1>3. Requests \in Seq(AuctionTypes \X Buyers) BY RequestsAre
<1>4. PICK n \in Nat : n = Len(Requests) /\ DOMAIN Requests = 1 .. n BY <1>3
<1>5. ASSUME rstage' = "handling"
      PROVE  /\ responses' \in [1 .. n -> AnswerType]
             /\ \A i \in 1 .. n : ~responses'[i].ok => responses'[i].code = 0
  <2>1. /\ responses' \in [1 .. n -> UNION {UdfAnswers(b) : b \in Buyers}]
        /\ \A i \in 1 .. n : responses'[i] \in UdfAnswers(Requests[i][2])
    BY <1>1, <1>4, <1>5 DEF Responses
  <2>2. ASSUME NEW i \in 1 .. n PROVE responses'[i] \in AnswerType /\ (~responses'[i].ok => responses'[i].code = 0)
    <3>1. responses'[i] \in UdfAnswers(Requests[i][2]) BY <2>1
    <3>2. PICK r : r = responses'[i] OBVIOUS
    <3>3. \/ r = [ok |-> TRUE, header |-> TRUE, code |-> 1]
          \/ r = [ok |-> FALSE, header |-> FALSE, code |-> 0]
          \/ r = [ok |-> TRUE, header |-> FALSE, code |-> 1]
          \/ r = [ok |-> TRUE, header |-> TRUE, code |-> 2]
      BY <3>1, <3>2 DEF UdfAnswers, UdfAnswer
    <3>4. PICK o \in BOOLEAN, h \in BOOLEAN, c \in Nat :
            r = [ok |-> o, header |-> h, code |-> c] /\ (~o => c = 0)
      <4>1. CASE r = [ok |-> TRUE, header |-> TRUE, code |-> 1] BY <4>1
      <4>2. CASE r = [ok |-> FALSE, header |-> FALSE, code |-> 0] BY <4>2
      <4>3. CASE r = [ok |-> TRUE, header |-> FALSE, code |-> 1] BY <4>3
      <4>4. CASE r = [ok |-> TRUE, header |-> TRUE, code |-> 2] BY <4>4
      <4> QED BY <3>3, <4>1, <4>2, <4>3, <4>4
    <3>5. r \in AnswerType /\ (~r.ok => r.code = 0) BY <3>4 DEF AnswerType
    <3> QED BY <3>2, <3>5
  <2> QED BY <2>1, <2>2
<1>6. UdfTypeOK' BY <1>1, <1>2, <1>4, <1>5 DEF UdfTypeOK, UdfInv
<1>7. RunsOwn' BY <1>1, <1>2 DEF RunsOwn, OwnCode, UdfInv
<1>8. testMode' \/ Skipped' \/ UpToDate' BY <1>1, <1>2 DEF UdfInv, UpToDate, Runs
<1> QED BY <1>6, <1>7, <1>8 DEF UdfInv

LEMMA UdfRoundEnds ==
  ASSUME UdfInv, UNCHANGED <<urls, testMode, responses, handled, perOrigin, romaCode, failedLoads>>,
         \/ UNCHANGED rstage \/ rstage' = "ended"
         \/ rstage = "handling" /\ handled = Len(responses) /\ rstage' = "waiting"
  PROVE  UdfInv'
<1>2. Requests' = Requests /\ (Skipped' <=> Skipped) BY RequestsStay
<1>3. Requests \in Seq(AuctionTypes \X Buyers) BY RequestsAre
<1>4. PICK n \in Nat : n = Len(Requests) BY <1>3
<1>5. rstage = "handling" => Len(responses) = n BY <1>4 DEF UdfInv, UdfTypeOK
<1>6. UdfTypeOK' BY <1>2, <1>4, <1>5 DEF UdfTypeOK, UdfInv
<1>7. RunsOwn' BY <1>2 DEF RunsOwn, OwnCode, UdfInv
<1>8. testMode' \/ Skipped' \/ UpToDate' BY <1>2 DEF UdfInv, UpToDate, Runs
<1> QED BY <1>6, <1>7, <1>8 DEF UdfInv

(* What a response does to what is remembered and run. *)
LEMMA HandledKeeps ==
  ASSUME UdfInv, rstage = "handling", handled < Len(responses), handled' = handled + 1,
         UNCHANGED <<urls, testMode, responses>>, NEW i, i = handled + 1, NEW t \in AuctionTypes,
         Skipped \/ Requests[i][1] = t, NEW b, b = Requests[i][2], NEW r, r = responses[i],
         \/ /\ UNCHANGED <<perOrigin, romaCode, failedLoads>>
            /\ \/ rstage' = "crashed"
               \/ UNCHANGED rstage /\ (~r.ok \/ (~testMode /\ ~ValidateUdfFetchResponse(r)))
         \/ /\ Remembered(t, b) = {r.code} \/ b = "x"
            /\ perOrigin' = [perOrigin EXCEPT ![t][b] = Remembered(t, b)]
            /\ UNCHANGED <<romaCode, failedLoads, rstage>>
         \/ /\ testMode \/ ValidateUdfFetchResponse(r)
            /\ LoadBuyerCode(<<t, b>>, b, <<Requests[i][1], b, IF r.header THEN r.code ELSE -r.code>>)
            /\ Remember(t, b, r.code) /\ UNCHANGED rstage
  PROVE  UdfInv'
<1>1. Requests' = Requests /\ (Skipped' <=> Skipped) BY RequestsStay
<1>2. Requests \in Seq(AuctionTypes \X Buyers) BY RequestsAre
<1>3. PICK n \in Nat : n = Len(Requests) BY <1>2
<1>4. /\ responses \in [1 .. n -> AnswerType] /\ Len(responses) = n /\ handled \in 0 .. n
      /\ \A k \in 1 .. n : ~responses[k].ok => responses[k].code = 0
  BY <1>3 DEF UdfInv, UdfTypeOK
<1>5. i \in 1 .. n /\ r \in AnswerType /\ handled' \in 0 .. n BY <1>3, <1>4
<1>6. PICK v \in AuctionTypes \X Buyers : v = <<t, b>>
  BY <1>2, <1>3, <1>5
<1>7. v[1] = t /\ v[2] = b /\ b \in Buyers BY <1>6
<1>8. Requests[i] = <<Requests[i][1], b>> /\ Requests[i][1] \in AuctionTypes
      /\ b \in Requested(Requests[i][1])
  BY <1>2, <1>3, <1>5, RequestsAre
<1>9. Skipped \/ (Requests[i] = v /\ urls[t][b] = "url")
  BY <1>6, <1>8 DEF Requested, CreateUdfFetchRequest
<1>10. r.code \in Nat /\ r.header \in BOOLEAN BY <1>5 DEF AnswerType
<1>11. UdfTypeOK' /\ RunsOwn' /\ (testMode' \/ Skipped' \/ UpToDate')
  <2>1. CASE /\ UNCHANGED <<perOrigin, romaCode, failedLoads>>
             /\ \/ rstage' = "crashed"
                \/ UNCHANGED rstage /\ (~r.ok \/ (~testMode /\ ~ValidateUdfFetchResponse(r)))
    <3>1. UdfTypeOK' BY <1>1, <1>3, <1>4, <1>5, <2>1 DEF UdfInv, UdfTypeOK
    <3>2. RunsOwn' BY <1>1, <2>1 DEF UdfInv, RunsOwn, OwnCode
    <3>3. ASSUME ~testMode, ~Skipped PROVE UpToDate'
      <4>1. UpToDate BY <3>3 DEF UdfInv
      <4>2. ASSUME rstage' # "crashed", NEW k \in 1 .. handled', ValidateUdfFetchResponse(responses[k]),
                   Requests[k][2] # "x"
            PROVE  Runs(Requests[k], responses[k].code)
        <5>1. k # i
          <6>1. ~r.ok => r.code = 0 BY <1>4, <1>5
          <6>2. ~ValidateUdfFetchResponse(r) BY <2>1, <4>2, <6>1 DEF ValidateUdfFetchResponse
          <6> QED BY <4>2, <6>2
        <5>2. k \in 1 .. handled BY <1>4, <5>1
        <5> QED BY <4>1, <4>2, <5>2 DEF UpToDate
      <4> QED BY <1>1, <2>1, <4>1, <4>2 DEF UpToDate, Runs
    <3> QED BY <1>1, <3>1, <3>2, <3>3
  <2>2. CASE /\ Remembered(t, b) = {r.code} \/ b = "x"
             /\ perOrigin' = [perOrigin EXCEPT ![t][b] = Remembered(t, b)]
             /\ UNCHANGED <<romaCode, failedLoads, rstage>>
    <3>0. PICK m \in SUBSET Nat : m = Remembered(t, b)
      <4>1. perOrigin[t][b] \in SUBSET Nat BY <1>7 DEF UdfInv, UdfTypeOK
      <4>2. {0} \in SUBSET Nat OBVIOUS
      <4> QED BY <4>1, <4>2 DEF Remembered
    <3>a. /\ perOrigin' \in [AuctionTypes -> [Buyers -> SUBSET Nat]] /\ perOrigin'[t][b] = m
          /\ \A u \in AuctionTypes, c \in Buyers :
               (u = t /\ c = b) \/ perOrigin'[u][c] = perOrigin[u][c]
      BY <1>7, <2>2, <3>0 DEF UdfInv, UdfTypeOK
    <3>1. UdfTypeOK' BY <1>1, <1>3, <1>4, <1>5, <2>2, <3>a DEF UdfInv, UdfTypeOK
    <3>2. RunsOwn' BY <1>1, <2>2 DEF UdfInv, RunsOwn, OwnCode
    <3>3. ASSUME ~testMode, ~Skipped PROVE UpToDate'
      <4>1. UpToDate BY <3>3 DEF UdfInv
      <4>2. ASSUME NEW u \in AuctionTypes, NEW c \in Buyers, NEW x \in perOrigin'[u][c]
            PROVE  perOrigin'[u][c] = {x} /\ (c # "x" /\ x # 0 => Runs(<<u, c>>, x))
        <5>1. CASE ~(u = t /\ c = b) BY <3>a, <4>1, <4>2, <5>1 DEF UpToDate
        <5>2. CASE u = t /\ c = b
          <6>1. m = {0} \/ m = perOrigin[t][b] BY <3>0 DEF Remembered
          <6>2. x \in m /\ perOrigin'[u][c] = m BY <3>a, <4>2, <5>2
          <6>3. CASE m = {0} BY <6>2, <6>3
          <6>4. CASE m = perOrigin[t][b] BY <1>7, <4>1, <5>2, <6>2, <6>4 DEF UpToDate
          <6> QED BY <6>1, <6>3, <6>4
        <5> QED BY <5>1, <5>2
      <4>3. ASSUME NEW k \in 1 .. handled', ValidateUdfFetchResponse(responses[k]),
                   Requests[k][2] # "x"
            PROVE  Runs(Requests[k], responses[k].code)
        <5>1. CASE k = i
          <6>1. b # "x" /\ r.code # 0 BY <4>3, <5>1 DEF ValidateUdfFetchResponse
          <6>2. perOrigin[t][b] = {r.code} BY <2>2, <6>1 DEF Remembered
          <6>3. Runs(<<t, b>>, r.code) BY <1>7, <4>1, <6>1, <6>2 DEF UpToDate
          <6> QED BY <1>6, <1>9, <3>3, <5>1, <6>3
        <5>2. CASE k # i
          <6>1. k \in 1 .. handled BY <1>4, <5>2
          <6> QED BY <4>1, <4>3, <6>1 DEF UpToDate
        <5> QED BY <5>1, <5>2
      <4> QED BY <1>1, <2>2, <4>2, <4>3 DEF UpToDate, Runs
    <3> QED BY <1>1, <3>1, <3>2, <3>3
  <2>3. CASE /\ testMode \/ ValidateUdfFetchResponse(r)
             /\ LoadBuyerCode(<<t, b>>, b, <<Requests[i][1], b, IF r.header THEN r.code ELSE -r.code>>)
             /\ Remember(t, b, r.code) /\ UNCHANGED rstage
    <3>0. PICK code : code = <<Requests[i][1], b, IF r.header THEN r.code ELSE -r.code>> OBVIOUS
    <3>1. /\ OwnCode(v, code)
          /\ ~testMode => code[3] = r.code
          /\ ~Skipped /\ ~testMode => code = <<t, b, r.code>>
      <4>1. /\ code[1] = Requests[i][1] /\ code[2] = b
            /\ code[3] = IF r.header THEN r.code ELSE -r.code
        BY <3>0
      <4>2. ~testMode => r.header /\ r.code # 0 BY <2>3 DEF ValidateUdfFetchResponse
      <4>3. ~testMode => code[3] = r.code /\ code[3] > 0
        BY <1>10, <4>1, <4>2
      <4>4. ~Skipped => Requests[i][1] = t OBVIOUS
      <4> QED BY <1>7, <1>9, <3>0, <4>1, <4>2, <4>3, <4>4 DEF OwnCode
    <3>2. /\ perOrigin' \in [AuctionTypes -> [Buyers -> SUBSET Nat]] /\ perOrigin'[t][b] = {r.code}
          /\ \A u \in AuctionTypes, c \in Buyers :
               (u = t /\ c = b) \/ perOrigin'[u][c] = perOrigin[u][c]
      <4>1. PICK m \in SUBSET Nat : m = {r.code} BY <1>10
      <4>2. perOrigin' = [perOrigin EXCEPT ![t][b] = m] BY <2>3, <4>1 DEF Remember
      <4> QED BY <1>7, <4>1, <4>2 DEF UdfInv, UdfTypeOK
    <3>3. \/ romaCode' = [romaCode EXCEPT ![v] = {code}] /\ UNCHANGED failedLoads
          \/ failedLoads' = failedLoads \cup {<<v, code[3]>>} /\ UNCHANGED romaCode
      BY <1>6, <2>3, <3>0 DEF LoadBuyerCode
    <3>4. /\ romaCode' = [w \in AuctionTypes \X Buyers |-> romaCode'[w]]
          /\ \A w \in AuctionTypes \X Buyers :
               romaCode'[w] = romaCode[w] \/ (w = v /\ romaCode'[w] = {code})
      <4>1. romaCode = [w \in AuctionTypes \X Buyers |-> romaCode[w]] BY DEF UdfInv, UdfTypeOK
      <4>2. CASE romaCode' = [romaCode EXCEPT ![v] = {code}]
        <5>1. romaCode' = [w \in AuctionTypes \X Buyers |-> IF w = v THEN {code} ELSE romaCode[w]]
          BY <4>1, <4>2
        <5> QED BY <5>1
      <4>3. CASE UNCHANGED romaCode BY <4>1, <4>3
      <4> QED BY <3>3, <4>2, <4>3
    <3>5. romaCode'[v] = {code} \/ <<v, code[3]>> \in failedLoads'
      <4>1. romaCode = [w \in AuctionTypes \X Buyers |-> romaCode[w]] BY DEF UdfInv, UdfTypeOK
      <4> QED BY <3>3, <4>1
    <3>6. failedLoads \subseteq failedLoads' BY <3>3
    <3>7. UdfTypeOK' BY <1>1, <1>3, <1>4, <1>5, <2>3, <3>2, <3>4 DEF UdfInv, UdfTypeOK
    <3>8. RunsOwn'
      <4>1. OwnCode(v, code)' BY <1>1, <3>1 DEF OwnCode
      <4>2. ASSUME NEW w \in AuctionTypes \X Buyers, NEW c \in romaCode'[w] PROVE OwnCode(w, c)'
        <5>1. CASE c \in romaCode[w]
          <6>1. OwnCode(w, c) BY <5>1 DEF UdfInv, RunsOwn
          <6> QED BY <1>1, <6>1 DEF OwnCode
        <5>2. CASE w = v /\ c = code BY <4>1, <5>2
        <5> QED BY <3>4, <4>2, <5>1, <5>2
      <4> QED BY <4>2 DEF RunsOwn
    <3>9. ASSUME ~testMode, ~Skipped PROVE UpToDate'
      <4>1. UpToDate BY <3>9 DEF UdfInv
      <4>2. code = <<t, b, r.code>> /\ code[3] = r.code BY <3>1, <3>9
      <4>3. Runs(v, r.code)' BY <1>7, <3>5, <4>2 DEF Runs
      <4>4. ASSUME NEW w \in AuctionTypes \X Buyers, NEW x, w # v, Runs(w, x) PROVE Runs(w, x)'
        BY <3>4, <3>6, <4>4 DEF Runs
      <4>5. ASSUME NEW u \in AuctionTypes, NEW c \in Buyers, NEW x \in perOrigin'[u][c]
            PROVE  perOrigin'[u][c] = {x} /\ (c # "x" /\ x # 0 => Runs(<<u, c>>, x)')
        <5>1. CASE u = t /\ c = b
          <6>1. perOrigin'[u][c] = {r.code} /\ <<u, c>> = v BY <1>6, <3>2, <5>1
          <6>2. x = r.code BY <4>5, <6>1
          <6> QED BY <4>3, <6>1, <6>2
        <5>2. CASE ~(u = t /\ c = b)
          <6>1. perOrigin'[u][c] = perOrigin[u][c] BY <3>2, <5>2
          <6>2. perOrigin[u][c] = {x} /\ (c # "x" /\ x # 0 => Runs(<<u, c>>, x))
            BY <4>1, <4>5, <6>1 DEF UpToDate
          <6>3. <<u, c>> \in AuctionTypes \X Buyers /\ <<u, c>> # v BY <1>6, <5>2
          <6> QED BY <4>4, <6>1, <6>2, <6>3
        <5> QED BY <5>1, <5>2
      <4>6. ASSUME NEW k \in 1 .. handled', ValidateUdfFetchResponse(responses[k]),
                   Requests[k][2] # "x"
            PROVE  Runs(Requests[k], responses[k].code)'
        <5>1. CASE k = i
          <6>1. Requests'[k] = v /\ responses'[k].code = r.code BY <1>1, <1>9, <3>9, <5>1
          <6> QED BY <4>3, <6>1 DEF Runs
        <5>2. CASE k # i
          <6>1. k \in 1 .. handled /\ k \in 1 .. n BY <1>4, <1>5, <5>2
          <6>2. Runs(Requests[k], responses[k].code) BY <4>1, <4>6, <6>1 DEF UpToDate
          <6>3. Requests[k] \in AuctionTypes \X Buyers BY <1>2, <1>3, <6>1
          <6>4. Requests[k] # Requests[i] BY <1>3, <1>5, <5>2, <6>1, RequestsAre
          <6>5. Requests[k] # v BY <1>9, <3>9, <6>4
          <6> QED BY <1>1, <4>4, <6>2, <6>3, <6>5
        <5> QED BY <5>1, <5>2
      <4> QED BY <1>1, <2>3, <4>5, <4>6 DEF UpToDate
    <3> QED BY <1>1, <3>7, <3>8, <3>9
  <2> QED BY <2>1, <2>2, <2>3, Zenon
<1> QED BY <1>11 DEF UdfInv

LEMMA UdfNextInv == UdfInv /\ (UdfNext \/ UNCHANGED udfVars) => UdfInv'
<1> SUFFICES ASSUME UdfInv, UdfNext \/ UNCHANGED udfVars PROVE UdfInv'
  OBVIOUS
<1>1. CASE UdfDoneCallback
  <2>1. PICK i, r, b : i = handled + 1 /\ r = responses[i] /\ b = Requests[i][2] OBVIOUS
  <2>2. /\ rstage = "handling" /\ handled < Len(responses) /\ handled' = handled + 1
        /\ UNCHANGED <<urls, testMode, responses>>
        /\ IF ~r.ok THEN UNCHANGED <<perOrigin, romaCode, failedLoads, rstage>>
           ELSE IF IsProtectedAudience(i) THEN OnProtectedAudienceUdfFetch(b, r, Requests[i])
           ELSE OnProtectedAppSignalUdfFetch(b, r, Requests[i])
    BY <1>1, <2>1 DEF UdfDoneCallback
  <2>3. Requests \in Seq(AuctionTypes \X Buyers) BY RequestsAre
  <2>4. PICK n \in Nat : n = Len(Requests) BY <2>3
  <2>5. Len(responses) = n /\ handled \in 0 .. n BY <2>2, <2>4 DEF UdfInv, UdfTypeOK
  <2>6. i \in 1 .. n BY <2>1, <2>2, <2>5
  <2>7. Requests[i][1] \in AuctionTypes /\ (~Skipped => (IsProtectedAudience(i) <=> Requests[i][1] = "pa"))
    BY <2>4, <2>6, RequestsAre
  <2>8. PICK t \in AuctionTypes : t = IF IsProtectedAudience(i) THEN "pa" ELSE "pas" BY DEF AuctionTypes
  <2>9. Skipped \/ Requests[i][1] = t BY <2>7, <2>8 DEF AuctionTypes
  <2>10. \/ /\ UNCHANGED <<perOrigin, romaCode, failedLoads>>
            /\ \/ rstage' = "crashed"
               \/ UNCHANGED rstage /\ (~r.ok \/ (~testMode /\ ~ValidateUdfFetchResponse(r)))
         \/ /\ Remembered(t, b) = {r.code} \/ b = "x"
            /\ perOrigin' = [perOrigin EXCEPT ![t][b] = Remembered(t, b)]
            /\ UNCHANGED <<romaCode, failedLoads, rstage>>
         \/ /\ testMode \/ ValidateUdfFetchResponse(r)
            /\ LoadBuyerCode(<<t, b>>, b, <<Requests[i][1], b, IF r.header THEN r.code ELSE -r.code>>)
            /\ Remember(t, b, r.code) /\ UNCHANGED rstage
    <3>1. CASE ~r.ok BY <2>2, <3>1
    <3>2. CASE r.ok /\ IsProtectedAudience(i)
      <4>1. t = "pa" /\ OnProtectedAudienceUdfFetch(b, r, Requests[i]) BY <2>2, <2>8, <3>2
      <4>2. GetBuyerReportWinVersion("pa", b) = {} => b = "x" BY DEF GetBuyerReportWinVersion
      <4> QED BY <2>1, <4>1, <4>2 DEF OnProtectedAudienceUdfFetch
    <3>3. CASE r.ok /\ ~IsProtectedAudience(i)
      <4>1. t = "pas" /\ OnProtectedAppSignalUdfFetch(b, r, Requests[i]) BY <2>2, <2>8, <3>3
      <4> QED BY <2>1, <4>1 DEF OnProtectedAppSignalUdfFetch
    <3> QED BY <3>1, <3>2, <3>3
  <2> QED BY <2>1, <2>2, <2>9, <2>10, HandledKeeps
<1>2. CASE RoundDone \/ EndUdfFetch \/ UNCHANGED udfVars
  BY <1>2, UdfRoundEnds DEF RoundDone, EndUdfFetch, udfVars
<1>3. CASE PeriodicBuyerReportingFetchAndLoadSync BY <1>3, FetchUdfsKeeps
<1> QED BY <1>1, <1>2, <1>3 DEF UdfNext, UdfProgress

LEMMA UdfsSound ==
  ASSUME UdfInv PROVE ReportWinIsTheBuyersOwn /\ RoundBringsCodeUpToDate /\ LoadedBuyersAreEnabled
<1>1. ASSUME NEW t \in AuctionTypes, NEW b \in Buyers, NEW c \in romaCode[<<t, b>>]
      PROVE  /\ c[2] = b /\ (c[3] > 0 \/ testMode)
             /\ Skipped \/ (c[1] = t /\ urls[t][b] = "url")
  <2>1. PICK v \in AuctionTypes \X Buyers : v = <<t, b>> OBVIOUS
  <2>2. v[1] = t /\ v[2] = b BY <2>1
  <2>3. OwnCode(v, c) BY <1>1, <2>1 DEF UdfInv, RunsOwn
  <2> QED BY <2>2, <2>3 DEF OwnCode
<1>2. ReportWinIsTheBuyersOwn BY <1>1 DEF ReportWinIsTheBuyersOwn, AuctionTypes
<1>3. LoadedBuyersAreEnabled
  BY <1>1 DEF LoadedBuyersAreEnabled, AuctionTypes, SetBuyersEnabledForReportWin, Configured
<1>4. RoundBringsCodeUpToDate
  <2> SUFFICES ASSUME rstage = "waiting", ~Skipped, ~testMode, NEW i \in DOMAIN responses,
                      ValidateUdfFetchResponse(responses[i]), Requests[i][2] # "x"
               PROVE  Runs(Requests[i], responses[i].code)
    BY DEF RoundBringsCodeUpToDate, Runs
  <2>1. UpToDate /\ UdfTypeOK BY DEF UdfInv
  <2>2. i \in 1 .. handled BY <2>1 DEF UdfTypeOK
  <2> QED BY <2>1, <2>2 DEF UpToDate
<1> QED BY <1>2, <1>3, <1>4
-----------------------------------------------------------------------------
(* Starting the servers.                                                     *)

Servers == {"bidding", "auction", "sfe", "bfe"}
LoadingStages == {"engine", "udf", "inference", "kv", "defaults", "egress"}
LoadedStages == {"inference", "kv", "defaults", "egress", "serve", "serving"}
FlaggedStages == LoadingStages \cup {"prepare", "serve", "serving", "stopped"}
EarlyStages == {"flags", "config", "checks", "prepare", "engine", "udf"}
LoadsCode == srv \in {"bidding", "auction"}

(* The flags, after each step that changes them. *)
Given(f) == IF cfg.init = "yes" /\ Stored(f) # "" THEN Stored(f) ELSE cfg[f]
FlagPart ==
  /\ srv \in Servers /\ entries = [f \in Flags |-> entries[f]]
  /\ bstage = "config" => \A f \in Flags \ LateFlags : entries[f] = cfg[f]
  /\ bstage = "checks" => \A f \in Flags \ LateFlags : entries[f] = Given(f)
  /\ bstage \in FlaggedStages =>
       \A f \in Flags : IF f \in LateFlags THEN entries[f] = cfg[f]
                        ELSE f \in OverriddenFlags \/ entries[f] = Given(f)
  /\ bstage \in {"serve", "serving"} /\ ~LoadsCode =>
       (cfg.prod = "yes" => entries["chaff"] = "true") /\ entries["rate"] # "2000000"
  /\ bstage \in LoadingStages => LoadsCode

(* The code each kind has, by the way it is fetched, and its default. *)
HasCode(k) ==
  \/ cfg.mode = "local" /\ (k \in {"pas", "retrieval"} \/ udf[k] = {<<k>>})
  \/ cfg.mode = "url" /\ udf[k] = {<<k>>}
  \/ cfg.mode = "bucket" /\ udf[k] # {} /\ \A v \in udf[k] : v[1] = BucketOf(k)
HasDefault(k) ==
  defv[k] = IF cfg.mode # "bucket" THEN <<k>> ELSE <<k, DefaultBlob>>
CodePart ==
  /\ udf = [k \in AllKinds |-> udf[k]]
  /\ bstage \in LoadedStages /\ LoadsCode =>
       /\ \A k \in Kinds : HasCode(k)
       /\ cfg.mode \in {"url", "bucket"} => Kinds \subseteq running
  /\ bstage \in {"egress", "serve", "serving"} /\ LoadsCode => \A k \in Kinds : HasDefault(k)

(* What is being fetched, and what it needs. *)
FetchersOf == CASE srv = "auction" -> {"score"} [] srv = "bidding" -> {"pa", "pas", "retrieval", "models"}
                [] OTHER -> {}
ServicePart ==
  /\ running \subseteq FetchersOf /\ StoppedFetchesNothing
  /\ bstage \in EarlyStages => running = {}
  /\ bstage \in {"udf", "inference"} /\ srv = "bidding" /\ cfg.infer # "none" => sandbox \/ UdfConfigHasByob
  /\ ModelsHaveASandbox
  /\ bstage \in {"serve", "serving"} /\ srv = "bidding" /\ On("pas") =>
       schemas # {} /\ (cfg.limited = "yes" => "limited" \in schemas)

BootInv == FlagPart /\ CodePart /\ ServicePart

LEMMA KindsOf ==
  ASSUME LoadsCode
  PROVE  /\ Kinds \subseteq AllKinds /\ Kinds \subseteq FetchersOf
         /\ srv = "bidding" => Kinds \subseteq {"pa", "pas", "retrieval"}
         /\ srv = "auction" => Kinds = {"score"}
BY DEF LoadsCode, Kinds, AllKinds, FetchersOf

LEMMA BootInitInv == BootInit => BootInv
<1> SUFFICES ASSUME BootInit PROVE BootInv
  OBVIOUS
<1>1. FlagPart BY DEF BootInit, FlagPart, Servers, FlaggedStages, LoadingStages
<1>2. CodePart BY DEF BootInit, CodePart, LoadedStages
<1>3. ServicePart BY DEF BootInit, ServicePart, EarlyStages, StoppedFetchesNothing, ModelsHaveASandbox
<1> QED BY <1>1, <1>2, <1>3 DEF BootInv

(* What stays, for a step that loads nothing and sets no flag. *)
LEMMA FlagsStay ==
  ASSUME FlagPart, UNCHANGED <<srv, cfg, entries>>, bstage' \in FlaggedStages => bstage \in FlaggedStages,
         bstage' \in {"serve", "serving"} /\ ~LoadsCode => bstage \in {"serve", "serving"},
         bstage' \in LoadingStages => LoadsCode, bstage' \notin {"config", "checks"}
  PROVE  FlagPart'
BY DEF FlagPart, Flags, BiddingFlags, AuctionFlags, SellerFlags, BuyerFlags, CommonFlags, Given, Stored,
   LoadsCode

LEMMA CodeStays ==
  ASSUME CodePart, UNCHANGED <<srv, cfg, entries, udf, defv>>, running \subseteq running',
         bstage' \in LoadedStages /\ LoadsCode => bstage \in LoadedStages,
         bstage' \in {"egress", "serve", "serving"} /\ LoadsCode => bstage \in {"egress", "serve", "serving"}
  PROVE  CodePart'
<1>1. UNCHANGED Kinds /\ (LoadsCode' <=> LoadsCode) /\ (UdfConfigHasByob' <=> UdfConfigHasByob)
  BY DEF Kinds, On, LoadsCode, UdfConfigHasByob
<1>2. \A k : (HasCode(k)' <=> HasCode(k)) /\ (HasDefault(k)' <=> HasDefault(k))
  BY <1>1 DEF HasCode, HasDefault, BucketOf
<1> QED BY <1>1, <1>2 DEF CodePart

LEMMA FlagStepsKeep ==
  ASSUME BootInv, SetFlags \/ ConfigClientInit \/ CheckTypes \/ PrepareFrontEnd PROVE BootInv'
<1>1. UNCHANGED <<srv, cfg, udf, defv, running, schemas, sandbox>>
  BY DEF SetFlags, ConfigClientInit, CheckTypes, PrepareFrontEnd, Keep, Loads
<1>2. /\ UNCHANGED <<Flags, FetchersOf>> /\ (LoadsCode' <=> LoadsCode)
      /\ (UdfConfigHasByob' <=> UdfConfigHasByob) /\ \A f : Given(f)' = Given(f) /\ Stored(f)' = Stored(f)
  BY <1>1 DEF Flags, FetchersOf, LoadsCode, UdfConfigHasByob, Given, Stored
<1>3. /\ bstage' \in {"config", "checks", "error", "hung", "crashed", "prepare", "serve"}
      /\ bstage' = "serve" => srv \in {"sfe", "bfe"}
      /\ bstage \in EarlyStages
  BY DEF EarlyStages, SetFlags, ConfigClientInit, CheckTypes, PrepareFrontEnd, Goto
<1>4. CodePart'
  BY <1>1, <1>2, <1>3 DEF BootInv, CodePart, LoadedStages, LoadsCode
<1>5. ServicePart'
  BY <1>1, <1>2, <1>3 DEF BootInv, ServicePart, EarlyStages, StoppedFetchesNothing, ModelsHaveASandbox
<1>6. entries' = [f \in Flags |-> entries'[f]]
  BY <1>2 DEF BootInv, FlagPart, SetFlags, ConfigClientInit, CheckTypes, PrepareFrontEnd
<1>7. FlagPart'
  <2>1. CASE SetFlags
    <3>1. bstage' = "config" /\ \A f \in Flags \ LateFlags : entries'[f] = cfg[f]
      BY <2>1 DEF SetFlags, Goto, SetFlag
    <3> QED BY <1>1, <1>2, <1>6, <3>1 DEF BootInv, FlagPart, FlaggedStages, LoadingStages
  <2>2. CASE ConfigClientInit
    <3>1. bstage' \in {"checks", "error", "hung"} BY <2>2 DEF ConfigClientInit, Goto
    <3>2. ASSUME bstage' = "checks", NEW f \in Flags \ LateFlags PROVE entries'[f] = Given(f)
      <4>1. entries[f] = cfg[f] BY <2>2 DEF ConfigClientInit, BootInv, FlagPart
      <4>2. CASE cfg.init = "no" /\ UNCHANGED entries BY <4>1, <4>2 DEF Given
      <4>3. CASE cfg.init = "yes" /\ entries' = [g \in Flags |-> Found(g)]
        BY <4>1, <4>3 DEF Given, Found
      <4> QED BY <2>2, <3>2, <4>2, <4>3 DEF ConfigClientInit, Goto
    <3> QED BY <1>1, <1>2, <1>6, <3>1, <3>2 DEF BootInv, FlagPart, FlaggedStages, LoadingStages
  <2>3. CASE CheckTypes
    <3>1. bstage' \in {"crashed", "error", "prepare"} /\ bstage = "checks" BY <2>3 DEF CheckTypes, Goto
    <3>2. \A f \in Flags : entries'[f] = IF f \in LateFlags THEN cfg[f] ELSE Given(f)
      BY <2>3, <3>1 DEF CheckTypes, BootInv, FlagPart, SetLateFlag, SetFlag
    <3> QED BY <1>1, <1>2, <1>6, <3>1, <3>2 DEF BootInv, FlagPart, FlaggedStages, LoadingStages
  <2>4. CASE PrepareFrontEnd
    <3>1. bstage' \in {"crashed", "error", "serve"} /\ bstage = "prepare" /\ srv \in {"sfe", "bfe"}
      BY <2>4 DEF PrepareFrontEnd, Goto
    <3>2. \A f \in Flags : entries'[f] = Override(f) BY <2>4 DEF PrepareFrontEnd
    <3>3. "chaff" \in Flags /\ "rate" \in Flags BY <3>1 DEF Flags, SellerFlags, BuyerFlags
    <3>4. (cfg.prod = "yes" => entries'["chaff"] = "true") /\ entries'["rate"] # "2000000"
      BY <3>2, <3>3 DEF Override
    <3>5. \A f \in Flags : IF f \in LateFlags THEN entries'[f] = cfg[f]
                           ELSE f \in OverriddenFlags \/ entries'[f] = Given(f)
      BY <3>1, <3>2 DEF BootInv, FlagPart, FlaggedStages, Override, OverriddenFlags, LateFlags
    <3> QED BY <1>1, <1>2, <1>6, <3>1, <3>4, <3>5 DEF BootInv, FlagPart, FlaggedStages, LoadingStages
  <2> QED BY <2>1, <2>2, <2>3, <2>4
<1> QED BY <1>4, <1>5, <1>7 DEF BootInv

LEMMA CheckStepsKeep ==
  ASSUME BootInv, ParseFetchConfig \/ CheckKvServer \/ BuildAndStart PROVE BootInv'
<1>1. UNCHANGED <<srv, cfg, entries, udf, defv, running, schemas, sandbox>>
  BY DEF ParseFetchConfig, CheckKvServer, BuildAndStart, Keep, Loads
<1>2. \/ bstage' \in {"error", "crashed"}
      \/ bstage = "prepare" /\ bstage' = "engine" /\ LoadsCode
      \/ bstage = "kv" /\ bstage' = "defaults"
      \/ bstage = "serve" /\ bstage' = "serving"
  BY DEF ParseFetchConfig, CheckKvServer, BuildAndStart, Goto, LoadsCode
<1>3. bstage = "kv" => LoadsCode BY DEF BootInv, FlagPart, LoadingStages
<1>4. FlagPart' BY <1>1, <1>2, <1>3, FlagsStay DEF BootInv, FlaggedStages, LoadingStages
<1>5. CodePart' BY <1>1, <1>2, CodeStays DEF BootInv, LoadedStages
<1>6. ServicePart'
  BY <1>1, <1>2 DEF BootInv, ServicePart, EarlyStages, StoppedFetchesNothing, ModelsHaveASandbox, FetchersOf,
     UdfConfigHasByob, On
<1> QED BY <1>4, <1>5, <1>6 DEF BootInv

LEMMA StartEngineKeeps == ASSUME BootInv, StartEngine PROVE BootInv'
<1>1. UNCHANGED <<srv, cfg, entries, udf, defv, running, schemas>> /\ bstage = "engine"
      /\ bstage' \in {"udf", "error", "crashed"}
  BY DEF StartEngine, Keep, Goto
<1>2. LoadsCode BY <1>1 DEF BootInv, FlagPart, LoadingStages
<1>3. FlagPart' BY <1>1, <1>2, FlagsStay DEF BootInv, FlaggedStages, LoadingStages
<1>4. CodePart' BY <1>1, CodeStays DEF BootInv, LoadedStages
<1>5. /\ (UdfConfigHasByob' <=> UdfConfigHasByob) /\ UNCHANGED FetchersOf
      /\ UdfConfigHasByob \/ UNCHANGED sandbox \/ sandbox' = (srv = "bidding" /\ cfg.infer # "none")
      /\ bstage' = "udf" => UdfConfigHasByob \/ sandbox' = (srv = "bidding" /\ cfg.infer # "none")
  BY <1>1 DEF StartEngine, UdfConfigHasByob, FetchersOf, GetV8DispatchConfig, Goto
<1>6. running = {}
  BY <1>1 DEF BootInv, ServicePart, EarlyStages
<1>7. ServicePart'
  BY <1>1, <1>5, <1>6 DEF BootInv, ServicePart, EarlyStages, StoppedFetchesNothing, ModelsHaveASandbox
<1> QED BY <1>3, <1>4, <1>7 DEF BootInv

(* What starting the fetchers of code, or loading a file, does. *)
LEMMA InitUdfFetchDoes ==
  ASSUME BootInv, InitUdfFetch
  PROVE  \/ bstage' = "error" /\ UNCHANGED <<udf, running>>
         \/ /\ bstage' = "inference" /\ running' \in {running, running \cup Kinds}
            /\ udf' = [k \in AllKinds |-> udf'[k]]
            /\ \A k \in Kinds : HasCode(k)'
            /\ cfg.mode \in {"url", "bucket"} => running' = running \cup Kinds
<1>1. UNCHANGED <<srv, cfg, entries>> /\ bstage = "udf" BY DEF InitUdfFetch, Keep
<1>2. LoadsCode /\ Kinds \subseteq AllKinds BY <1>1, KindsOf DEF BootInv, FlagPart, LoadingStages
<1>3. UdfConfigHasByob' <=> UdfConfigHasByob BY <1>1 DEF UdfConfigHasByob
<1>4. \A k : BucketOf(k)' = BucketOf(k) BY <1>3 DEF BucketOf
<1>5. udf = [k \in AllKinds |-> udf[k]] BY DEF BootInv, CodePart
<1>6. ASSUME NEW k0 \in AllKinds, LoadFile(k0), cfg.mode = "local",
             Kinds \subseteq {k0, "pas", "retrieval"}
      PROVE  \/ bstage' = "error" /\ UNCHANGED <<udf, running>>
             \/ /\ bstage' = "inference" /\ running' = running
                /\ udf' = [k \in AllKinds |-> udf'[k]]
                /\ \A k \in Kinds : HasCode(k)'
  <2>1. CASE Fail BY <2>1 DEF Fail, Goto
  <2>2. CASE bstage' = "inference" /\ UNCHANGED running /\ udf' = [udf EXCEPT ![k0] = {<<k0>>}]
    <3>1. udf' = [k \in AllKinds |-> IF k = k0 THEN {<<k0>>} ELSE udf[k]] BY <1>5, <2>2
    <3>2. udf' = [k \in AllKinds |-> udf'[k]] /\ udf'[k0] = {<<k0>>} BY <3>1
    <3> QED BY <1>1, <1>6, <2>2, <3>2 DEF HasCode
  <2> QED BY <1>6, <2>1, <2>2 DEF LoadFile, Goto
<1>7. ASSUME StartFetchers(StartUrlFetch), cfg.mode = "url"
      PROVE  \/ bstage' = "error" /\ UNCHANGED <<udf, running>>
             \/ /\ bstage' = "inference" /\ running' = running \cup Kinds
                /\ udf' = [k \in AllKinds |-> udf'[k]]
                /\ \A k \in Kinds : HasCode(k)'
  <2>1. CASE Fail BY <2>1 DEF Fail, Goto
  <2>2. CASE /\ bstage' = "inference"
             /\ udf' \in {u \in [AllKinds -> {{}} \cup UNION {StartUrlFetch(k) : k \in Kinds}] :
                    \A k \in AllKinds : IF k \in Kinds THEN u[k] \in StartUrlFetch(k) ELSE u[k] = {}}
             /\ running' = running \cup Kinds
    <3>1. \A k \in Kinds : udf'[k] = {<<k>>} BY <1>2, <2>2 DEF StartUrlFetch
    <3>2. udf' = [k \in AllKinds |-> udf'[k]] BY <2>2
    <3> QED BY <1>1, <1>7, <2>2, <3>1, <3>2 DEF HasCode
  <2> QED BY <1>7, <2>1, <2>2 DEF StartFetchers, Goto, Fetchers
<1>8. ASSUME StartFetchers(StartBucketFetch), cfg.mode = "bucket"
      PROVE  \/ bstage' = "error" /\ UNCHANGED <<udf, running>>
             \/ /\ bstage' = "inference" /\ running' = running \cup Kinds
                /\ udf' = [k \in AllKinds |-> udf'[k]]
                /\ \A k \in Kinds : HasCode(k)'
  <2>1. CASE Fail BY <2>1 DEF Fail, Goto
  <2>2. CASE /\ bstage' = "inference"
             /\ udf' \in {u \in [AllKinds -> {{}} \cup UNION {StartBucketFetch(k) : k \in Kinds}] :
                    \A k \in AllKinds : IF k \in Kinds THEN u[k] \in StartBucketFetch(k) ELSE u[k] = {}}
             /\ running' = running \cup Kinds
    <3>1. ASSUME NEW k \in Kinds PROVE udf'[k] # {} /\ \A v \in udf'[k] : v[1] = BucketOf(k)
      <4>1. udf'[k] \in StartBucketFetch(k) BY <1>2, <2>2
      <4>2. PICK B \in (SUBSET CodeBlobs) \ {{}} : udf'[k] = {<<BucketOf(k), b>> : b \in B}
        BY <4>1 DEF StartBucketFetch, BucketVersion
      <4>3. \A v \in udf'[k] : v[1] = BucketOf(k) BY <4>2
      <4>4. B # {} BY <4>2
      <4>5. udf'[k] # {} BY <4>2, <4>4
      <4> QED BY <4>3, <4>5
    <3>2. udf' = [k \in AllKinds |-> udf'[k]] BY <2>2
    <3> QED BY <1>1, <1>4, <1>8, <2>2, <3>1, <3>2 DEF HasCode
  <2> QED BY <1>8, <2>1, <2>2 DEF StartFetchers, Goto, Fetchers
<1>9. CASE Fail BY <1>9 DEF Fail, Goto
<1>10. CASE srv = "auction" /\ ~Fail
  <2>1. Kinds \subseteq {"score", "pas", "retrieval"} /\ "score" \in AllKinds
    BY <1>2, <1>10, KindsOf DEF AllKinds
  <2>2. \/ cfg.mode = "local" /\ LoadFile("score")
        \/ cfg.mode = "bucket" /\ StartFetchers(StartBucketFetch)
        \/ cfg.mode = "url" /\ StartFetchers(StartUrlFetch)
    BY <1>10 DEF InitUdfFetch, SellerManagerInit, SellerLocalCodeFetch, SellerBucketCodeFetch,
       SellerUrlCodeFetch
  <2> QED BY <1>6, <1>7, <1>8, <2>1, <2>2
<1>11. CASE srv # "auction" /\ ~Fail
  <2>1. Kinds \subseteq {"pa", "pas", "retrieval"} /\ "pa" \in AllKinds
    BY <1>2, <1>11, KindsOf DEF AllKinds, LoadsCode
  <2>2. \/ cfg.mode = "local" /\ LoadFile("pa")
        \/ cfg.mode = "bucket" /\ StartFetchers(StartBucketFetch)
        \/ cfg.mode = "url" /\ StartFetchers(StartUrlFetch)
    BY <1>11 DEF InitUdfFetch, BuyerManagerInit, InitializeByobCodeFetch, InitializeLocalCodeFetch,
       InitializeBucketCodeFetch, InitializeUrlCodeFetch, UdfConfigHasByob
  <2> QED BY <1>6, <1>7, <1>8, <2>1, <2>2
<1> QED BY <1>9, <1>10, <1>11

LEMMA InitUdfFetchKeeps == ASSUME BootInv, InitUdfFetch PROVE BootInv'
<1>1. UNCHANGED <<srv, cfg, entries, defv, schemas, sandbox>> /\ bstage = "udf" BY DEF InitUdfFetch, Keep
<1>2. LoadsCode BY <1>1 DEF BootInv, FlagPart, LoadingStages
<1>3. UNCHANGED <<Kinds, FetchersOf>> /\ (UdfConfigHasByob' <=> UdfConfigHasByob)
  BY <1>1 DEF Kinds, On, FetchersOf, UdfConfigHasByob
<1>4. CASE bstage' = "error" /\ UNCHANGED <<udf, running>>
  <2>1. FlagPart' BY <1>1, <1>4, FlagsStay DEF BootInv, FlaggedStages, LoadingStages
  <2>2. CodePart' BY <1>1, <1>4, CodeStays DEF BootInv, LoadedStages
  <2>3. ServicePart'
    BY <1>1, <1>3, <1>4 DEF BootInv, ServicePart, EarlyStages, StoppedFetchesNothing, ModelsHaveASandbox
  <2> QED BY <2>1, <2>2, <2>3 DEF BootInv
<1>5. CASE /\ bstage' = "inference" /\ running' \in {running, running \cup Kinds}
           /\ udf' = [k \in AllKinds |-> udf'[k]]
           /\ \A k \in Kinds : HasCode(k)'
           /\ cfg.mode \in {"url", "bucket"} => running' = running \cup Kinds
  <2>1. FlagPart' BY <1>1, <1>2, <1>5, FlagsStay DEF BootInv, FlaggedStages, LoadingStages
  <2>2. CodePart' BY <1>1, <1>3, <1>5 DEF BootInv, CodePart
  <2>3. Kinds \subseteq FetchersOf /\ "models" \notin Kinds BY <1>2, KindsOf DEF Kinds
  <2>4. ServicePart'
    BY <1>1, <1>3, <1>5, <2>3 DEF BootInv, ServicePart, EarlyStages, StoppedFetchesNothing, ModelsHaveASandbox
  <2> QED BY <2>1, <2>2, <2>4 DEF BootInv
<1> QED BY <1>4, <1>5, InitUdfFetchDoes

LEMMA InitInferenceKeeps == ASSUME BootInv, InitInference PROVE BootInv'
<1>1. UNCHANGED <<srv, cfg, entries, udf, defv, schemas, sandbox>> /\ bstage = "inference"
      /\ bstage' \in {"kv", "crashed", "error"}
  BY DEF InitInference, Keep, Goto
<1>2. LoadsCode BY <1>1 DEF BootInv, FlagPart, LoadingStages
<1>3. UNCHANGED FetchersOf /\ (UdfConfigHasByob' <=> UdfConfigHasByob)
  BY <1>1 DEF FetchersOf, UdfConfigHasByob
<1>4. \/ UNCHANGED running
      \/ running' = running \cup {"models"} /\ srv = "bidding" /\ cfg.infer = "periodic"
  BY <1>2 DEF InitInference, LoadsCode
<1>5. FlagPart' BY <1>1, <1>2, FlagsStay DEF BootInv, FlaggedStages, LoadingStages
<1>6. CodePart' BY <1>1, <1>4, CodeStays DEF BootInv, LoadedStages
<1>7. ServicePart'
  BY <1>1, <1>3, <1>4 DEF BootInv, ServicePart, EarlyStages, StoppedFetchesNothing, ModelsHaveASandbox, FetchersOf
<1> QED BY <1>5, <1>6, <1>7 DEF BootInv

LEMMA ConfigureRuntimeDefaultsKeeps == ASSUME BootInv, ConfigureRuntimeDefaults PROVE BootInv'
<1>1. /\ UNCHANGED <<srv, cfg, entries, udf, running, schemas, sandbox>> /\ bstage = "defaults"
      /\ bstage' \in {"egress", "error"}
      /\ bstage' = "egress" => defv' = IF srv = "auction" THEN SellerDefaults ELSE BuyerDefaults
  BY DEF ConfigureRuntimeDefaults, Keep, Goto
<1>2. LoadsCode BY <1>1 DEF BootInv, FlagPart, LoadingStages
<1>3. /\ UNCHANGED <<Kinds, FetchersOf>> /\ (UdfConfigHasByob' <=> UdfConfigHasByob)
      /\ (LoadsCode' <=> LoadsCode)
  BY <1>1 DEF Kinds, On, FetchersOf, UdfConfigHasByob, LoadsCode
<1>4. ASSUME bstage' = "egress", NEW k \in Kinds PROVE HasDefault(k)'
  <2>1. k \in AllKinds /\ (srv = "auction" => k = "score") BY <1>2, KindsOf
  <2> QED BY <1>1, <1>4, <2>1 DEF HasDefault, SellerDefaults, BuyerDefaults, BucketVersion
<1>5. \A k : HasCode(k)' <=> HasCode(k) BY <1>1, <1>3 DEF HasCode, BucketOf
<1>6. FlagPart' BY <1>1, <1>2, FlagsStay DEF BootInv, FlaggedStages, LoadingStages
<1>7. CodePart' BY <1>1, <1>3, <1>4, <1>5 DEF BootInv, CodePart, LoadedStages
<1>8. ServicePart'
  BY <1>1, <1>3 DEF BootInv, ServicePart, EarlyStages, StoppedFetchesNothing, ModelsHaveASandbox
<1> QED BY <1>6, <1>7, <1>8 DEF BootInv

LEMMA InitEgressKeeps == ASSUME BootInv, InitEgress PROVE BootInv'
<1>1. UNCHANGED <<srv, cfg, entries, udf, defv, running, sandbox>> /\ bstage = "egress"
      /\ bstage' \in {"serve", "error"}
  BY DEF InitEgress, EgressInit, Keep, Goto
<1>2. LoadsCode BY <1>1 DEF BootInv, FlagPart, LoadingStages
<1>3. UNCHANGED FetchersOf /\ (UdfConfigHasByob' <=> UdfConfigHasByob) /\ (On("pas")' <=> On("pas"))
  BY <1>1 DEF FetchersOf, UdfConfigHasByob, On
<1>4. bstage' = "serve" /\ srv = "bidding" /\ On("pas") =>
        schemas' # {} /\ (cfg.limited = "yes" => "limited" \in schemas')
  BY <1>1 DEF InitEgress, EgressInit, Goto, SchemasWanted
<1>5. FlagPart' BY <1>1, <1>2, FlagsStay DEF BootInv, FlaggedStages, LoadingStages
<1>6. CodePart' BY <1>1, CodeStays DEF BootInv, LoadedStages
<1>7. ServicePart'
  BY <1>1, <1>3, <1>4 DEF BootInv, ServicePart, EarlyStages, StoppedFetchesNothing, ModelsHaveASandbox
<1> QED BY <1>5, <1>6, <1>7 DEF BootInv

LEMMA ShutdownKeeps == ASSUME BootInv, Shutdown PROVE BootInv'
<1>1. UNCHANGED <<srv, cfg, entries, udf, defv, schemas, sandbox>> /\ bstage = "serving"
      /\ bstage' = "stopped"
      /\ running' = (IF srv = "auction" THEN SellerManagerEnd ELSE BuyerManagerEnd) \ {"models"}
  BY DEF Shutdown, Keep, Goto
<1>2. running' = {}
  BY <1>1 DEF BootInv, ServicePart, FetchersOf, SellerManagerEnd, BuyerManagerEnd
<1>3. FlagPart' BY <1>1, FlagsStay DEF BootInv, FlaggedStages, LoadingStages
<1>4. CodePart' BY <1>1 DEF BootInv, CodePart, LoadedStages
<1>5. ServicePart'
  BY <1>1, <1>2 DEF BootInv, ServicePart, EarlyStages, StoppedFetchesNothing, ModelsHaveASandbox
<1> QED BY <1>3, <1>4, <1>5 DEF BootInv

LEMMA BootNextInv == BootInv /\ (BootNext \/ UNCHANGED bootVars) => BootInv'
<1> SUFFICES ASSUME BootInv, BootNext \/ UNCHANGED bootVars PROVE BootInv'
  OBVIOUS
<1>1. CASE UNCHANGED bootVars
  <2>1. UNCHANGED <<srv, cfg, entries, bstage, udf, defv, running, schemas, sandbox>>
    BY <1>1 DEF bootVars
  <2>2. FlagPart'
    BY <2>1 DEF BootInv, FlagPart, Flags, BiddingFlags, AuctionFlags, SellerFlags, BuyerFlags, CommonFlags,
       Given, Stored, LoadsCode
  <2>3. CodePart' BY <2>1, CodeStays DEF BootInv
  <2>4. ServicePart'
    BY <2>1 DEF BootInv, ServicePart, EarlyStages, StoppedFetchesNothing, ModelsHaveASandbox, FetchersOf,
       UdfConfigHasByob, On
  <2> QED BY <2>2, <2>3, <2>4 DEF BootInv
<1> QED
  BY <1>1, FlagStepsKeep, CheckStepsKeep, StartEngineKeeps, InitUdfFetchKeeps, InitInferenceKeeps,
     ConfigureRuntimeDefaultsKeeps, InitEgressKeeps, ShutdownKeeps DEF BootNext, BootSteps

LEMMA BootSound ==
  ASSUME BootInv
  PROVE  /\ FlagsComeFromTheirSource /\ ProdAlwaysChaffs /\ ServesLoadedCode
         /\ RefreshGoesOn /\ ModelsHaveASandbox /\ StoppedFetchesNothing
<1>1. FlagsComeFromTheirSource
  <2> SUFFICES ASSUME bstage = "serving" PROVE FlagsComeFromTheirSource
    BY DEF FlagsComeFromTheirSource
  <2>1. \A f \in Flags : IF f \in LateFlags THEN entries[f] = cfg[f]
                         ELSE f \in OverriddenFlags \/ entries[f] = Given(f)
    BY DEF BootInv, FlagPart, FlaggedStages
  <2>2. "sel" \in Flags => entries["sel"] = cfg["sel"] BY <2>1 DEF LateFlags
  <2> QED BY <2>1, <2>2 DEF FlagsComeFromTheirSource, Given
<1>2. ProdAlwaysChaffs
  BY DEF BootInv, FlagPart, ProdAlwaysChaffs, On, Flags, BiddingFlags, AuctionFlags, CommonFlags, LoadsCode,
     Servers
<1>3. ServesLoadedCode
  <2> SUFFICES ASSUME bstage = "serving", srv \in {"bidding", "auction"}, NEW k \in Kinds
               PROVE  \/ cfg.mode = "local" /\ k \in {"pas", "retrieval"}
                      \/ cfg.mode = "bucket" /\ UdfConfigHasByob /\ udf[k] # {}
                      \/ cfg.mode = "bucket" /\ \E v \in udf[k] : v[1] = defv[k][1]
                      \/ defv[k] \in udf[k]
    BY DEF ServesLoadedCode
  <2>1. HasCode(k) /\ HasDefault(k) BY DEF BootInv, CodePart, LoadsCode, LoadedStages
  <2>2. CASE cfg.mode = "bucket" /\ ~UdfConfigHasByob
    <3>1. udf[k] # {} /\ \A v \in udf[k] : v[1] = k BY <2>1, <2>2 DEF HasCode, BucketOf
    <3>2. defv[k] = <<k, DefaultBlob>> BY <2>1, <2>2 DEF HasDefault
    <3>3. defv[k][1] = k BY <3>2
    <3> QED BY <2>2, <3>1, <3>3
  <2>3. CASE cfg.mode = "bucket" /\ UdfConfigHasByob BY <2>1, <2>3 DEF HasCode
  <2>4. CASE cfg.mode # "bucket" BY <2>1, <2>4 DEF HasCode, HasDefault
  <2> QED BY <2>2, <2>3, <2>4
<1>4. RefreshGoesOn BY DEF BootInv, CodePart, ServicePart, RefreshGoesOn, LoadsCode, LoadedStages
<1> QED BY <1>1, <1>2, <1>3, <1>4 DEF BootInv, ServicePart
-----------------------------------------------------------------------------
(* Models.                                                                   *)

FileType == Nat \X Nat
CopyType == SUBSET (SUBSET FileType)
InferenceErrors == {"INPUT_PARSING", "MODEL_NOT_FOUND", "MODEL_EXECUTION", "none", "GRPC",
                    "OUTPUT_PARSING"}
BatchType ==
  [stage : {"none", "lookup", "answered"},
   reqs : Seq([path : ModelPaths \cup {"unknown"}, ok : BOOLEAN]), consented : BOOLEAN,
   models : Seq(CopyType),
   out : Seq([path : ModelPaths \cup {"unknown", "batch"}, error : InferenceErrors,
              model : CopyType])]

ModelTypeOK ==
  /\ framework \in {"tensorflow", "pytorch"} /\ sidecarUp \in BOOLEAN /\ faulty \in BOOLEAN
  /\ bucket \in [ModelPaths -> 1 .. 2] /\ fetchedFiles \in [ModelPaths -> Nat]
  /\ mconfig \in [ModelPaths -> SUBSET Nat] /\ rconfig \in [ModelPaths -> SUBSET Nat]
  /\ mentries \in [ModelPaths -> SUBSET [checksum : Nat, mstate : {"active", "grace", "deletion"}]]
  /\ ram \in [ModelPaths -> SUBSET FileType]
  /\ modelData \in [ModelPaths -> CopyType] /\ prodModel \in [ModelPaths -> CopyType]
  /\ consentedModel \in [ModelPaths -> CopyType]
  /\ inferenceCount \in [ModelPaths -> Nat] /\ modelPaths \subseteq ModelPaths
  /\ timers \subseteq ModelPaths /\ todo \subseteq ModelPaths /\ owed \subseteq ModelPaths
  /\ batch \in BatchType

(* A model's copies exist together, built from its request and its files;    *)
(* one that is being rebuilt is rebuilt from that request.                   *)
Registered(p, r) ==
  /\ modelData[p] = {r} /\ prodModel[p] = {ModelConstructor(p, r, ram[p])}
  /\ consentedModel[p] = prodModel[p]
  /\ framework = "tensorflow" => r \subseteq ram[p]
Unregistered(p) == modelData[p] = {} /\ prodModel[p] = {} /\ consentedModel[p] = {}
StorePart ==
  /\ \A p \in ModelPaths : Unregistered(p) \/ \E r \in SUBSET FileType : Registered(p, r)
  /\ \A reset \in resetting :
       \E p \in ModelPaths : \E r \in modelData[p] : reset = <<p, r>>
  /\ \A p \in owed : modelData[p] # {}

(* While the sidecar is up, what the fetcher has an entry of is what is      *)
(* registered; an entry in its grace period has a timer, and one in deletion *)
(* is there because a call failed.                                           *)
EntryPart ==
  /\ \A p \in ModelPaths : mentries[p] = {} \/ \E e \in mentries[p] : mentries[p] = {e}
  /\ sidecarUp => \A p \in ModelPaths :
       /\ (mentries[p] = {}) <=> (modelData[p] = {})
       /\ (p \in modelPaths) <=> (modelData[p] # {})
       /\ \A e \in mentries[p], r \in modelData[p] :
            e.checksum # 0 => r = Files(p, e.checksum)
  /\ \A p \in ModelPaths : p \in timers <=> \E e \in mentries[p] : e.mstate = "grace"
  /\ \A p \in ModelPaths : \A e \in mentries[p] : e.mstate = "deletion" => faulty
  /\ sidecarUp \/ faulty

(* What a round has done with the models it has come to. *)
Done(p) ==
  /\ (\E e \in mentries[p] : e.mstate = "active" /\ rconfig[p] = {e.checksum})
       <=> (rconfig[p] # {} /\ p \notin mfailed)
  /\ \A e \in mentries[p] : e.mstate = "active" => rconfig[p] = {e.checksum}
  /\ (p \in mfailed /\ ~faulty) =>
       \/ p \in timers \/ ~ChecksumMatches(p, ConfiguredSum(p))
       \/ framework = "pytorch" /\ Cardinality(Files(p, fetchedFiles[p])) # 1
RoundPart ==
  /\ \A p \in ModelPaths : mconfig[p] = {} \/ \E c \in mconfig[p] : mconfig[p] = {c}
  /\ \A p \in ModelPaths : rconfig[p] = {} \/ \E c \in rconfig[p] : rconfig[p] = {c}
  /\ mround = "deleting" =>
       /\ \A p \in todo : mentries[p] # {}
       /\ \A p \in ModelPaths \ todo : \A e \in mentries[p] :
            e.mstate = "active" => rconfig[p] = {e.checksum}
  /\ mround = "registering" =>
       /\ \A p \in todo : rconfig[p] # {} /\ mentries[p] = {} /\ p \notin mfailed
       /\ \A p \in ModelPaths \ todo : Done(p)

(* What the batch has come to, and who has still to count it. *)
BatchPart ==
  /\ Len(batch.models) <= Len(batch.reqs) /\ (batch.stage = "lookup" => Len(batch.reqs) = 2)
  /\ \A i \in DOMAIN batch.models : batch.models[i] # {} => batch.reqs[i].ok
  /\ OutputsFollowRequests
  /\ \A p \in owed :
       \/ inferenceCount[p] > 0 \/ unserialised \/ ~sidecarUp
       \/ batch.stage = "lookup" /\ \E i \in DOMAIN batch.reqs :
            batch.reqs[i] = InferenceRequest(p, TRUE)

ModelInv == ModelTypeOK /\ StorePart /\ EntryPart /\ RoundPart /\ BatchPart

LEMMA ModelInitInv == ModelInit => ModelInv
<1> SUFFICES ASSUME ModelInit PROVE ModelInv
  OBVIOUS
<1> USE DEF ModelInit
<1>1. NoBatch \in BatchType
  BY DEF NoBatch, BatchType
<1>2. ModelTypeOK
  <2>1. {} \in CopyType /\ {} \in SUBSET FileType
    BY DEF CopyType
  <2>2. /\ ram \in [ModelPaths -> SUBSET FileType] /\ modelData \in [ModelPaths -> CopyType]
        /\ prodModel \in [ModelPaths -> CopyType] /\ consentedModel \in [ModelPaths -> CopyType]
    BY <2>1
  <2>3. mconfig \in [ModelPaths -> SUBSET Nat] /\ rconfig \in [ModelPaths -> SUBSET Nat]
    OBVIOUS
  <2>4. mentries \in [ModelPaths -> SUBSET [checksum : Nat, mstate : {"active", "grace", "deletion"}]]
    OBVIOUS
  <2>5. bucket \in [ModelPaths -> 1 .. 2] /\ fetchedFiles \in [ModelPaths -> Nat]
    OBVIOUS
  <2> QED
    BY <1>1, <2>2, <2>3, <2>4, <2>5 DEF ModelTypeOK
<1>3. StorePart
  BY DEF StorePart, Unregistered
<1>4. EntryPart
  BY DEF EntryPart
<1>5. RoundPart
  <2>1. \A p \in ModelPaths : \E c \in mconfig[p] : mconfig[p] = {c}
    OBVIOUS
  <2> QED
    BY <2>1 DEF RoundPart
<1>6. BatchPart
  <2>1. Len(batch.models) = 0 /\ Len(batch.reqs) = 0 /\ DOMAIN batch.models = {} /\ batch.stage = "none"
    BY DEF NoBatch
  <2> QED
    BY <2>1 DEF BatchPart, OutputsFollowRequests
<1> QED
  BY <1>2, <1>3, <1>4, <1>5, <1>6 DEF ModelInv

(* What a step leaves alone that does not touch the store, the entries, the  *)
(* round or the batch.                                                       *)
LEMMA StoreUntouched ==
  ASSUME StorePart, UNCHANGED <<framework, ram, modelData, prodModel, consentedModel, resetting>>,
         owed' \subseteq owed
  PROVE  StorePart'
BY DEF StorePart, Registered, Unregistered, ModelConstructor, TensorFlowModelConstructor,
       PyTorchModelConstructor

LEMMA EntriesUntouched ==
  ASSUME EntryPart, UNCHANGED <<mentries, modelData, modelPaths, timers>>,
         sidecarUp' => sidecarUp, faulty => faulty', sidecarUp' \/ faulty'
  PROVE  EntryPart'
BY DEF EntryPart

LEMMA RoundUntouched ==
  ASSUME RoundPart, UNCHANGED <<mconfig, rconfig, mround, todo, mentries, mfailed, timers, framework,
                                fetchedFiles>>,
         faulty => faulty'
  PROVE  RoundPart'
BY DEF RoundPart, Done, ChecksumMatches, ConfiguredSum

LEMMA BatchUntouched ==
  ASSUME BatchPart, UNCHANGED <<batch, unserialised>>, sidecarUp' => sidecarUp,
         owed' \subseteq owed, \A p \in owed' : inferenceCount'[p] = inferenceCount[p]
  PROVE  BatchPart'
BY DEF BatchPart, OutputsFollowRequests

LEMMA FaultsStay ==
  ASSUME ModelTypeOK, NoFault \/ Fault PROVE (faulty => faulty') /\ faulty' \in BOOLEAN
BY DEF ModelTypeOK, NoFault, Fault, Event

-----------------------------------------------------------------------------
(* The steps of the sidecar's own threads.                                   *)

LEMMA EditConfigKeeps ==
  ASSUME ModelInv, NEW p \in ModelPaths, EditConfig(p) PROVE ModelInv'
<1> USE DEF ModelInv
<1>1. UNCHANGED <<framework, mentries, timers, mround, rconfig, todo, fetchedFiles, mfailed, sidecarUp,
                  ram, modelData, prodModel, consentedModel, inferenceCount, modelPaths, resetting,
                  owed, unserialised, batch, faulty>>
  BY DEF EditConfig, fetcherVars, storeVars
<1>2. ModelTypeOK' /\ \A q \in ModelPaths : mconfig'[q] = {} \/ \E c \in mconfig'[q] : mconfig'[q] = {c}
  <2>1. CASE UNCHANGED mconfig /\ bucket' = [bucket EXCEPT ![p] = 3 - bucket[p]]
    BY <1>1, <2>1 DEF ModelTypeOK, RoundPart
  <2>2. CASE UNCHANGED bucket /\ \E c \in {{}, {1}, {2}} : mconfig' = [mconfig EXCEPT ![p] = c]
    BY <1>1, <2>2 DEF ModelTypeOK, RoundPart
  <2> QED
    BY <2>1, <2>2 DEF EditConfig
<1>3. StorePart' BY <1>1, StoreUntouched
<1>4. EntryPart' BY <1>1, EntriesUntouched DEF EntryPart
<1>5. RoundPart' BY <1>1, <1>2 DEF RoundPart, Done, ChecksumMatches, ConfiguredSum
<1>6. BatchPart' BY <1>1, BatchUntouched
<1> QED BY <1>2, <1>3, <1>4, <1>5, <1>6

LEMMA ResetModelKeeps == ASSUME ModelInv, ResetModel PROVE ModelInv'
<1> USE DEF ModelInv
<1>1. UNCHANGED <<framework, mentries, timers, mround, rconfig, todo, fetchedFiles, mfailed, mconfig,
                  bucket, ram, modelData, consentedModel, inferenceCount, modelPaths,
                  owed, unserialised, batch>>
  BY DEF ResetModel, fetcherVars
<1>2. PICK reset \in resetting :
        \/ /\ NoFault /\ UNCHANGED sidecarUp
           /\ prodModel' = Put1(prodModel, reset[1], ModelConstructor(reset[1], reset[2], ram[reset[1]]))
        \/ Fault /\ sidecarUp' = FALSE /\ UNCHANGED prodModel
  BY DEF ResetModel
<1>3. PICK p, r : p \in ModelPaths /\ r \in modelData[p] /\ reset = <<p, r>>
  BY DEF StorePart
<1>4. Registered(p, r)
  BY <1>3 DEF StorePart, Registered, Unregistered
<1>5. UNCHANGED prodModel
  <2>1. PICK m : m = ModelConstructor(p, r, ram[p])
    OBVIOUS
  <2>2. prodModel' = [prodModel EXCEPT ![p] = {m}] \/ UNCHANGED prodModel
    BY <1>2, <1>3, <2>1 DEF Put1
  <2>3. prodModel[p] = {m} /\ prodModel \in [ModelPaths -> CopyType]
    BY <1>4, <2>1 DEF Registered, ModelTypeOK
  <2> QED
    BY <2>2, <2>3
<1>6. (faulty => faulty') /\ faulty' \in BOOLEAN
  BY <1>2, FaultsStay
<1>7. resetting' = {} /\ sidecarUp' \in BOOLEAN /\ (sidecarUp' => sidecarUp) /\ (sidecarUp' \/ faulty')
  BY <1>2 DEF ResetModel, ModelTypeOK, EntryPart, Fault, NoFault
<1>8. ModelTypeOK' BY <1>1, <1>5, <1>6, <1>7 DEF ModelTypeOK
<1>9. StorePart'
  BY <1>1, <1>5, <1>7 DEF StorePart, Registered, Unregistered, ModelConstructor,
     TensorFlowModelConstructor, PyTorchModelConstructor
<1>10. EntryPart' BY <1>1, <1>6, <1>7, EntriesUntouched
<1>11. RoundPart' BY <1>1, <1>6, RoundUntouched
<1>12. BatchPart' BY <1>1, <1>7, BatchUntouched
<1> QED BY <1>8, <1>9, <1>10, <1>11, <1>12

LEMMA ResetThreadKeeps == ASSUME ModelInv, ResetThread PROVE ModelInv'
<1> USE DEF ModelInv
<1>1. UNCHANGED <<framework, mentries, timers, mround, rconfig, todo, fetchedFiles, mfailed, mconfig,
                  bucket, ram, modelData, prodModel, consentedModel, modelPaths, sidecarUp,
                  unserialised, batch, faulty>>
  BY DEF ResetThread, fetcherVars
<1>2. PICK p \in ModelPaths : ResetModels(p)
  BY DEF ResetThread
<1>3. /\ inferenceCount' = [inferenceCount EXCEPT ![p] = 0] /\ owed' = owed \ {p}
      /\ resetting' = {} \/ \E r \in modelData[p] : resetting' = {<<p, r>>}
  BY <1>2 DEF ResetModels
<1>4. ModelTypeOK' BY <1>1, <1>3 DEF ModelTypeOK
<1>5. StorePart'
  BY <1>1, <1>3 DEF StorePart, Registered, Unregistered, ModelConstructor,
     TensorFlowModelConstructor, PyTorchModelConstructor
<1>6. EntryPart' BY <1>1, EntriesUntouched DEF EntryPart
<1>7. RoundPart' BY <1>1, RoundUntouched
<1>8. BatchPart'
  <2>1. owed' \subseteq owed /\ \A q \in owed' : inferenceCount'[q] = inferenceCount[q]
    BY <1>3 DEF ModelTypeOK
  <2> QED BY <1>1, <2>1, BatchUntouched
<1> QED BY <1>4, <1>5, <1>6, <1>7, <1>8

-----------------------------------------------------------------------------
(* The steps of the fetcher.                                                 *)

LEMMA EntryIs ==
  ASSUME ModelInv, NEW p \in ModelPaths, mentries[p] # {}
  PROVE  mentries[p] = {Entry(p)} /\ Entry(p) \in mentries[p]
         /\ Entry(p).checksum \in Nat /\ Entry(p).mstate \in {"active", "grace", "deletion"}
<1>1. Entry(p) \in mentries[p] BY DEF Entry
<1>2. mentries[p] = {Entry(p)} BY <1>1 DEF ModelInv, EntryPart
<1>3. Entry(p) \in [checksum : Nat, mstate : {"active", "grace", "deletion"}]
  BY <1>1 DEF ModelInv, ModelTypeOK
<1> QED BY <1>1, <1>2, <1>3

(* A deletion takes away a model and its entry, or leaves the entry in       *)
(* deletion because the call failed.                                         *)
LEMMA DeleteKeeps ==
  ASSUME ModelInv, NEW p \in ModelPaths, mentries[p] # {}, DeleteModel(p),
         UNCHANGED <<framework, sidecarUp, resetting, batch, unserialised>>, timers' = timers \ {p}
  PROVE  /\ StorePart' /\ EntryPart' /\ BatchPart'
         /\ modelData' \in [ModelPaths -> CopyType] /\ prodModel' \in [ModelPaths -> CopyType]
         /\ consentedModel' \in [ModelPaths -> CopyType] /\ UNCHANGED ram
         /\ inferenceCount' \in [ModelPaths -> Nat] /\ modelPaths' \subseteq ModelPaths
         /\ owed' \subseteq ModelPaths /\ (faulty => faulty') /\ faulty' \in BOOLEAN
         /\ mentries' \in [ModelPaths -> SUBSET [checksum : Nat, mstate : {"active", "grace", "deletion"}]]
         /\ \A q \in ModelPaths \ {p} : mentries'[q] = mentries[q]
         /\ \A e \in mentries'[p] : e.mstate = "deletion"
<1> USE DEF ModelInv
<1>1. UNCHANGED ram BY DEF DeleteModel
<1>2. CASE DeleteModelOk(p) /\ mentries' = Drop(mentries, p)
  <2>1. /\ resetting = {} /\ NoFault /\ sidecarUp /\ modelPaths' = modelPaths \ {p}
        /\ modelData' = [modelData EXCEPT ![p] = {}] /\ prodModel' = [prodModel EXCEPT ![p] = {}]
        /\ consentedModel' = [consentedModel EXCEPT ![p] = {}]
        /\ inferenceCount' = [inferenceCount EXCEPT ![p] = 0] /\ owed' = owed \ {p}
        /\ mentries' = [mentries EXCEPT ![p] = {}]
    BY <1>2 DEF DeleteModelOk, StoreDeleteModel, DeleteAll, Drop
  <2>2. faulty' = faulty BY <2>1 DEF NoFault
  <2>3. {} \in CopyType BY DEF CopyType
  <2>4. /\ modelData' \in [ModelPaths -> CopyType] /\ prodModel' \in [ModelPaths -> CopyType]
        /\ consentedModel' \in [ModelPaths -> CopyType] /\ inferenceCount' \in [ModelPaths -> Nat]
        /\ mentries' \in [ModelPaths -> SUBSET [checksum : Nat, mstate : {"active", "grace", "deletion"}]]
    BY <2>1, <2>3 DEF ModelTypeOK
  <2>5. /\ \A q \in ModelPaths \ {p} :
             /\ modelData'[q] = modelData[q] /\ prodModel'[q] = prodModel[q]
             /\ consentedModel'[q] = consentedModel[q] /\ mentries'[q] = mentries[q]
             /\ inferenceCount'[q] = inferenceCount[q]
        /\ modelData'[p] = {} /\ prodModel'[p] = {} /\ consentedModel'[p] = {} /\ mentries'[p] = {}
    BY <2>1 DEF ModelTypeOK
  <2>6. StorePart'
    <3>1. ASSUME NEW q \in ModelPaths
          PROVE  Unregistered(q)' \/ \E r \in SUBSET FileType : Registered(q, r)'
      <4>1. CASE q = p BY <2>5, <4>1 DEF Unregistered
      <4>2. CASE q # p
        BY <1>1, <2>5, <4>2 DEF StorePart, Unregistered, Registered, ModelConstructor,
           TensorFlowModelConstructor, PyTorchModelConstructor
      <4> QED BY <4>1, <4>2
    <3> QED BY <2>1, <2>5, <3>1 DEF StorePart, ModelTypeOK
  <2>7. EntryPart' BY <2>1, <2>2, <2>5 DEF EntryPart
  <2>8. BatchPart' BY <2>1, <2>5, BatchUntouched DEF ModelTypeOK
  <2> QED BY <1>1, <2>1, <2>2, <2>4, <2>5, <2>6, <2>7, <2>8 DEF ModelTypeOK
<1>3. CASE DeleteModelFails(p) /\ mentries' = SetState(p, "deletion")
  <2>1. UNCHANGED <<modelData, prodModel, consentedModel, inferenceCount, owed, modelPaths>>
    BY <1>3 DEF DeleteModelFails
  <2>2. faulty' = TRUE
    BY <1>3 DEF DeleteModelFails, Fault, NoFault, EntryPart
  <2>3. PICK e \in [checksum : Nat, mstate : {"active", "grace", "deletion"}] :
          /\ mentries' = [mentries EXCEPT ![p] = {e}] /\ e.mstate = "deletion"
          /\ e.checksum = Entry(p).checksum
    <3>1. Entry(p).checksum \in Nat BY EntryIs
    <3>2. [checksum |-> Entry(p).checksum, mstate |-> "deletion"]
            \in [checksum : Nat, mstate : {"active", "grace", "deletion"}]
      BY <3>1
    <3> QED BY <1>3, <3>2, Zenon DEF SetState
  <2>4. /\ mentries' \in [ModelPaths -> SUBSET [checksum : Nat, mstate : {"active", "grace", "deletion"}]]
        /\ mentries'[p] = {e} /\ \A q \in ModelPaths \ {p} : mentries'[q] = mentries[q]
    BY <2>3 DEF ModelTypeOK
  <2>5. StorePart' BY <1>1, <2>1, StoreUntouched
  <2>6. EntryPart'
    <3>1. mentries[p] = {Entry(p)} BY EntryIs
    <3> QED BY <2>1, <2>2, <2>3, <2>4, <3>1 DEF EntryPart
  <2>7. BatchPart' BY <2>1, BatchUntouched
  <2> QED BY <1>1, <2>1, <2>2, <2>3, <2>4, <2>5, <2>6, <2>7 DEF ModelTypeOK
<1> QED BY <1>2, <1>3 DEF DeleteModel

LEMMA FetchModelConfigKeeps == ASSUME ModelInv, FetchModelConfig PROVE ModelInv'
<1> USE DEF ModelInv
<1>1. UNCHANGED <<framework, mentries, timers, fetchedFiles, mconfig, sidecarUp, bucket, ram, modelData,
                  prodModel, consentedModel, inferenceCount, modelPaths, resetting, owed,
                  unserialised, batch>>
  BY DEF FetchModelConfig, storeVars, otherVars
<1>2. (faulty => faulty') /\ faulty' \in BOOLEAN BY FaultsStay DEF FetchModelConfig
<1>3. StorePart' BY <1>1, StoreUntouched
<1>4. EntryPart' BY <1>1, <1>2, EntriesUntouched DEF EntryPart
<1>5. BatchPart' BY <1>1, BatchUntouched
<1>6. CASE mround' = "deleting" /\ todo' = Garbage(mconfig) /\ rconfig' = mconfig
  <2>1. todo' \subseteq ModelPaths BY <1>6 DEF Garbage
  <2>2. ModelTypeOK' BY <1>1, <1>2, <1>6, <2>1 DEF ModelTypeOK
  <2>3. ASSUME NEW p \in ModelPaths \ todo', NEW e \in mentries[p] PROVE mconfig[p] = {e.checksum}
    BY <1>6, <2>3, EntryIs DEF Garbage
  <2>4. RoundPart' BY <1>1, <1>6, <2>3 DEF RoundPart, Garbage
  <2> QED BY <1>3, <1>4, <1>5, <2>2, <2>4
<1>7. CASE UNCHANGED <<mround, todo, rconfig>>
  <2>1. ModelTypeOK' BY <1>1, <1>2, <1>7 DEF ModelTypeOK
  <2>2. RoundPart' BY <1>1, <1>7 DEF RoundPart, FetchModelConfig
  <2> QED BY <1>3, <1>4, <1>5, <2>1, <2>2
<1> QED BY <1>6, <1>7 DEF FetchModelConfig

LEMMA DeleteModelsKeeps == ASSUME ModelInv, DeleteModels PROVE ModelInv'
<1> USE DEF ModelInv
<1>1. UNCHANGED <<framework, mround, rconfig, fetchedFiles, mfailed, mconfig, bucket, sidecarUp,
                  resetting, unserialised, batch>>
  BY DEF DeleteModels, otherVars
<1>2. mround = "deleting" BY DEF DeleteModels
<1>3. PICK p \in todo :
        /\ todo' = todo \ {p}
        /\ \/ /\ Entry(p).mstate = "grace"
              /\ UNCHANGED <<mentries, timers, storeVars, owed, mevents, faulty>>
           \/ /\ Entry(p).mstate = "active" /\ grace[p] > 0
              /\ mentries' = SetState(p, "grace") /\ timers' = timers \cup {p}
              /\ UNCHANGED <<storeVars, owed, mevents, faulty>>
           \/ /\ Entry(p).mstate = "deletion" \/ (Entry(p).mstate = "active" /\ grace[p] = 0)
              /\ DeleteModel(p) /\ UNCHANGED timers
  BY DEF DeleteModels
<1>4. p \in ModelPaths /\ mentries[p] # {} BY <1>2, <1>3 DEF RoundPart, ModelTypeOK
<1>5. mentries[p] = {Entry(p)} /\ Entry(p).checksum \in Nat BY <1>4, EntryIs
<1>6. ASSUME \A q \in ModelPaths \ {p} : mentries'[q] = mentries[q],
             \A e \in mentries'[p] : e.mstate # "active"
      PROVE  RoundPart'
  <2>1. ASSUME NEW q \in todo' PROVE mentries'[q] # {}
    BY <1>2, <1>3, <1>6, <2>1 DEF RoundPart, ModelTypeOK
  <2>2. ASSUME NEW q \in ModelPaths \ todo', NEW e \in mentries'[q], e.mstate = "active"
        PROVE  rconfig'[q] = {e.checksum}
    <3>1. q # p BY <1>6, <2>2
    <3>2. q \in ModelPaths \ todo /\ e \in mentries[q] BY <1>3, <1>6, <2>2, <3>1
    <3> QED BY <1>1, <1>2, <2>2, <3>2 DEF RoundPart
  <2> QED BY <1>1, <1>2, <2>1, <2>2 DEF RoundPart
<1>7. CASE Entry(p).mstate = "grace" /\ UNCHANGED <<mentries, timers, storeVars, owed, mevents, faulty>>
  <2>1. UNCHANGED <<ram, modelData, prodModel, consentedModel, inferenceCount, modelPaths>>
    BY <1>7 DEF storeVars
  <2>2. ModelTypeOK' BY <1>1, <1>3, <1>7, <2>1 DEF ModelTypeOK
  <2>3. StorePart' BY <1>1, <1>7, <2>1, StoreUntouched
  <2>4. EntryPart' BY <1>1, <1>7, <2>1, EntriesUntouched DEF EntryPart
  <2>5. BatchPart' BY <1>1, <1>7, <2>1, BatchUntouched
  <2>6. RoundPart' BY <1>5, <1>6, <1>7
  <2> QED BY <2>2, <2>3, <2>4, <2>5, <2>6
<1>8. CASE /\ Entry(p).mstate = "active"
           /\ mentries' = SetState(p, "grace") /\ timers' = timers \cup {p}
           /\ UNCHANGED <<storeVars, owed, mevents, faulty>>
  <2>1. UNCHANGED <<ram, modelData, prodModel, consentedModel, inferenceCount, modelPaths>>
    BY <1>8 DEF storeVars
  <2>2. PICK e \in [checksum : Nat, mstate : {"active", "grace", "deletion"}] :
          /\ mentries' = [mentries EXCEPT ![p] = {e}] /\ e.mstate = "grace"
          /\ e.checksum = Entry(p).checksum
    <3>1. [checksum |-> Entry(p).checksum, mstate |-> "grace"]
            \in [checksum : Nat, mstate : {"active", "grace", "deletion"}]
      BY <1>5
    <3> QED BY <1>8, <3>1, Zenon DEF SetState
  <2>3. /\ mentries' \in [ModelPaths -> SUBSET [checksum : Nat, mstate : {"active", "grace", "deletion"}]]
        /\ mentries'[p] = {e} /\ \A q \in ModelPaths \ {p} : mentries'[q] = mentries[q]
    BY <1>4, <2>2 DEF ModelTypeOK
  <2>4. ModelTypeOK' BY <1>1, <1>3, <1>4, <1>8, <2>1, <2>3 DEF ModelTypeOK
  <2>5. StorePart' BY <1>1, <1>8, <2>1, StoreUntouched
  <2>6. EntryPart' BY <1>1, <1>4, <1>5, <1>8, <2>1, <2>2, <2>3 DEF EntryPart
  <2>7. BatchPart' BY <1>1, <1>8, <2>1, BatchUntouched
  <2>8. RoundPart' BY <1>6, <2>2, <2>3
  <2> QED BY <2>4, <2>5, <2>6, <2>7, <2>8
<1>9. CASE Entry(p).mstate \in {"deletion", "active"} /\ DeleteModel(p) /\ UNCHANGED timers
  <2>1. timers' = timers \ {p} BY <1>4, <1>5, <1>9 DEF EntryPart
  <2>2. /\ StorePart' /\ EntryPart' /\ BatchPart'
        /\ modelData' \in [ModelPaths -> CopyType] /\ prodModel' \in [ModelPaths -> CopyType]
        /\ consentedModel' \in [ModelPaths -> CopyType] /\ UNCHANGED ram
        /\ inferenceCount' \in [ModelPaths -> Nat] /\ modelPaths' \subseteq ModelPaths
        /\ owed' \subseteq ModelPaths /\ (faulty => faulty') /\ faulty' \in BOOLEAN
        /\ mentries' \in [ModelPaths -> SUBSET [checksum : Nat, mstate : {"active", "grace", "deletion"}]]
        /\ \A q \in ModelPaths \ {p} : mentries'[q] = mentries[q]
        /\ \A e \in mentries'[p] : e.mstate = "deletion"
    BY <1>1, <1>4, <1>9, <2>1, DeleteKeeps, Zenon
  <2>3. ModelTypeOK' BY <1>1, <1>3, <1>9, <2>2 DEF ModelTypeOK
  <2>4. RoundPart' BY <1>6, <2>2
  <2> QED BY <2>2, <2>3, <2>4
<1> QED BY <1>3, <1>7, <1>8, <1>9

LEMMA FetchModelsKeeps == ASSUME ModelInv, FetchModels PROVE ModelInv'
<1> USE DEF ModelInv
<1>1. UNCHANGED <<framework, mentries, timers, rconfig, mconfig, sidecarUp, bucket, ram, modelData,
                  prodModel, consentedModel, inferenceCount, modelPaths, resetting, owed,
                  unserialised, batch>>
  BY DEF FetchModels, storeVars, otherVars
<1>2. (faulty => faulty') /\ faulty' \in BOOLEAN BY FaultsStay DEF FetchModels
<1>3. StorePart' BY <1>1, StoreUntouched
<1>4. EntryPart' BY <1>1, <1>2, EntriesUntouched DEF EntryPart
<1>5. BatchPart' BY <1>1, BatchUntouched
<1>6. /\ mround = "deleting" /\ todo = {}
      /\ mfailed' = {p \in ModelPaths : rconfig[p] # {} /\ mentries[p] # {}
                                        /\ Entry(p).mstate # "active"}
  BY DEF FetchModels
<1>7. CASE /\ mround' = "registering" /\ fetchedFiles' = bucket
           /\ todo' = {p \in ModelPaths : rconfig[p] # {} /\ mentries[p] = {}}
  <2>1. ModelTypeOK' BY <1>1, <1>2, <1>7 DEF ModelTypeOK
  <2>2. ASSUME NEW p \in ModelPaths \ todo' PROVE Done(p)'
    <3>1. CASE mentries[p] = {}
      <4>1. rconfig[p] = {} /\ p \notin mfailed' BY <1>6, <1>7, <2>2, <3>1
      <4> QED BY <1>1, <3>1, <4>1 DEF Done
    <3>2. CASE mentries[p] # {}
      <4>1. mentries[p] = {Entry(p)} /\ Entry(p).mstate \in {"active", "grace", "deletion"}
        BY <3>2, EntryIs
      <4>2. Entry(p).mstate = "active" => rconfig[p] = {Entry(p).checksum}
        BY <1>6, <4>1 DEF RoundPart
      <4>3. p \in mfailed' <=> rconfig[p] # {} /\ Entry(p).mstate # "active"
        BY <1>6, <3>2
      <4>4. (p \in mfailed' /\ ~faulty') => p \in timers'
        BY <1>1, <1>2, <4>1, <4>3 DEF EntryPart
      <4>5. rconfig'[p] = rconfig[p] /\ mentries'[p] = {Entry(p)} BY <1>1, <4>1
      <4>6. /\ (\E e \in mentries'[p] : e.mstate = "active" /\ rconfig'[p] = {e.checksum})
                 <=> (rconfig'[p] # {} /\ p \notin mfailed')
            /\ \A e \in mentries'[p] : e.mstate = "active" => rconfig'[p] = {e.checksum}
        BY <4>2, <4>3, <4>5
      <4> QED BY <4>4, <4>6 DEF Done
    <3> QED BY <3>1, <3>2
  <2>3. \A p \in todo' : rconfig'[p] # {} /\ mentries'[p] = {} /\ p \notin mfailed'
    BY <1>1, <1>6, <1>7
  <2>4. RoundPart' BY <1>1, <1>7, <2>2, <2>3 DEF RoundPart
  <2> QED BY <1>3, <1>4, <1>5, <2>1, <2>4
<1>8. CASE mround' = "idle" /\ UNCHANGED <<todo, fetchedFiles>>
  <2>1. ModelTypeOK' BY <1>1, <1>2, <1>8 DEF ModelTypeOK
  <2>2. RoundPart' BY <1>1, <1>8 DEF RoundPart
  <2> QED BY <1>3, <1>4, <1>5, <2>1, <2>2
<1> QED BY <1>7, <1>8 DEF FetchModels

(* A registration puts all copies of a model, built from the request and the *)
(* files then in RAM.                                                        *)
LEMMA RegisterKeeps ==
  ASSUME ModelInv, NEW p \in ModelPaths, mentries[p] = {}, NEW v \in Nat, NEW c \in Nat,
         RegisterModelOk(p, Files(p, v)), c # 0 => c = v,
         mentries' = [mentries EXCEPT ![p] = {[checksum |-> c, mstate |-> "active"]}],
         UNCHANGED <<framework, sidecarUp, resetting, batch, unserialised, timers>>
  PROVE  /\ StorePart' /\ EntryPart' /\ BatchPart'
         /\ modelData' \in [ModelPaths -> CopyType] /\ prodModel' \in [ModelPaths -> CopyType]
         /\ consentedModel' \in [ModelPaths -> CopyType] /\ ram' \in [ModelPaths -> SUBSET FileType]
         /\ inferenceCount' \in [ModelPaths -> Nat] /\ modelPaths' \subseteq ModelPaths
         /\ owed' \subseteq ModelPaths /\ UNCHANGED faulty
         /\ mentries' \in [ModelPaths -> SUBSET [checksum : Nat, mstate : {"active", "grace", "deletion"}]]
         /\ \A q \in ModelPaths \ {p} : mentries'[q] = mentries[q]
         /\ \E e \in mentries'[p] : mentries'[p] = {e} /\ e.checksum = c /\ e.mstate = "active"
<1> USE DEF ModelInv
<1>1. PICK files : files = Files(p, v) OBVIOUS
<1>2. files \in SUBSET FileType BY <1>1 DEF Files, FileType
<1>3. PICK saved : saved = IF framework = "tensorflow" THEN SaveToRamFileSystem(p, files) ELSE ram[p]
  OBVIOUS
<1>4. PICK built : built = ModelConstructor(p, files, saved) OBVIOUS
<1>5. /\ saved \in SUBSET FileType /\ built \in SUBSET FileType
      /\ framework = "tensorflow" => files \subseteq saved
  <2>1. ram[p] \in SUBSET FileType BY DEF ModelTypeOK
  <2>2. saved \in SUBSET FileType /\ (framework = "tensorflow" => files \subseteq saved)
    BY <1>2, <1>3, <2>1 DEF SaveToRamFileSystem
  <2> QED BY <1>2, <1>4, <2>2 DEF ModelConstructor, TensorFlowModelConstructor, PyTorchModelConstructor
<1>6. /\ sidecarUp /\ NoFault /\ resetting = {} /\ ram' = [ram EXCEPT ![p] = saved]
      /\ modelData' = [modelData EXCEPT ![p] = {files}] /\ prodModel' = [prodModel EXCEPT ![p] = {built}]
      /\ consentedModel' = [consentedModel EXCEPT ![p] = {built}]
      /\ inferenceCount' = [inferenceCount EXCEPT ![p] = 0] /\ owed' = owed \ {p}
      /\ modelPaths' = modelPaths \cup {p}
  BY <1>1, <1>3, <1>4 DEF RegisterModelOk, PutModel, SetAll, Put1
<1>7. PICK e \in [checksum : Nat, mstate : {"active", "grace", "deletion"}] :
        /\ mentries' = [mentries EXCEPT ![p] = {e}] /\ e.checksum = c /\ e.mstate = "active"
  <2>1. [checksum |-> c, mstate |-> "active"]
          \in [checksum : Nat, mstate : {"active", "grace", "deletion"}]
    OBVIOUS
  <2> QED BY <2>1, Zenon
<1>8. {files} \in CopyType /\ {built} \in CopyType BY <1>2, <1>5 DEF CopyType
<1>9. /\ modelData' \in [ModelPaths -> CopyType] /\ prodModel' \in [ModelPaths -> CopyType]
      /\ consentedModel' \in [ModelPaths -> CopyType] /\ ram' \in [ModelPaths -> SUBSET FileType]
      /\ inferenceCount' \in [ModelPaths -> Nat] /\ modelPaths' \subseteq ModelPaths
      /\ owed' \subseteq ModelPaths
  BY <1>5, <1>6, <1>8 DEF ModelTypeOK
<1>10. mentries' \in [ModelPaths -> SUBSET [checksum : Nat, mstate : {"active", "grace", "deletion"}]]
  BY <1>7 DEF ModelTypeOK
<1>11. /\ \A q \in ModelPaths \ {p} :
            /\ modelData'[q] = modelData[q] /\ prodModel'[q] = prodModel[q]
            /\ consentedModel'[q] = consentedModel[q] /\ mentries'[q] = mentries[q]
            /\ inferenceCount'[q] = inferenceCount[q] /\ ram'[q] = ram[q]
       /\ modelData'[p] = {files} /\ prodModel'[p] = {built} /\ consentedModel'[p] = {built}
       /\ mentries'[p] = {e} /\ ram'[p] = saved
  BY <1>6, <1>7 DEF ModelTypeOK
<1>12. StorePart'
  <2>1. ASSUME NEW q \in ModelPaths
        PROVE  Unregistered(q)' \/ \E r \in SUBSET FileType : Registered(q, r)'
    <3>1. CASE q = p
      <4>1. Registered(p, files)'
        BY <1>4, <1>5, <1>11 DEF Registered, ModelConstructor, TensorFlowModelConstructor,
           PyTorchModelConstructor
      <4> QED BY <1>2, <3>1, <4>1
    <3>2. CASE q # p
      BY <1>11, <3>2 DEF StorePart, Unregistered, Registered, ModelConstructor,
         TensorFlowModelConstructor, PyTorchModelConstructor
    <3> QED BY <3>1, <3>2
  <2> QED BY <1>6, <1>11, <2>1 DEF StorePart, ModelTypeOK
<1>13. EntryPart' BY <1>1, <1>6, <1>7, <1>11 DEF EntryPart, NoFault
<1>14. BatchPart' BY <1>6, <1>11, BatchUntouched DEF ModelTypeOK
<1> QED BY <1>6, <1>7, <1>9, <1>10, <1>11, <1>12, <1>13, <1>14 DEF NoFault

(* A registration that fails may leave files in RAM, under a path where      *)
(* nothing is registered.                                                    *)
LEMMA RegisterFailsKeeps ==
  ASSUME ModelInv, NEW p \in ModelPaths, NEW v \in Nat,
         RegisterModelFails(p, Files(p, v)), mentries[p] = {},
         UNCHANGED <<framework, sidecarUp, resetting, batch, unserialised, timers, mentries>>
  PROVE  /\ StorePart' /\ EntryPart' /\ BatchPart'
         /\ ram' \in [ModelPaths -> SUBSET FileType]
         /\ UNCHANGED <<modelData, prodModel, consentedModel, inferenceCount, owed, modelPaths>>
         /\ (faulty => faulty') /\ faulty' \in BOOLEAN
         /\ ~faulty' => framework = "pytorch" /\ Cardinality(Files(p, v)) # 1
<1> USE DEF ModelInv
<1>1. UNCHANGED <<modelData, prodModel, consentedModel, inferenceCount, owed, modelPaths>>
  BY DEF RegisterModelFails
<1>2. (faulty => faulty') /\ faulty' \in BOOLEAN BY FaultsStay DEF RegisterModelFails
<1>3. sidecarUp => modelData[p] = {} /\ prodModel[p] = {}
  BY DEF EntryPart, StorePart, Registered, Unregistered
<1>4. EntryPart' BY <1>1, <1>2, EntriesUntouched DEF EntryPart
<1>5. BatchPart' BY <1>1, BatchUntouched
<1>6. ~faulty' => framework = "pytorch" /\ Cardinality(Files(p, v)) # 1
  BY <1>2, <1>3 DEF RegisterModelFails, Fault, Refused, TensorflowRefuses, PyTorchRefuses, EntryPart,
     ModelTypeOK
<1>7. CASE UNCHANGED ram
  BY <1>1, <1>2, <1>4, <1>5, <1>6, <1>7, StoreUntouched DEF ModelTypeOK
<1>8. CASE sidecarUp /\ \E s \in SUBSET FileType : ram' = [ram EXCEPT ![p] = s]
  <2>1. PICK s \in SUBSET FileType : ram' = [ram EXCEPT ![p] = s] BY <1>8
  <2>2. ram' \in [ModelPaths -> SUBSET FileType] /\ \A q \in ModelPaths \ {p} : ram'[q] = ram[q]
    BY <2>1 DEF ModelTypeOK
  <2>3. Unregistered(p)
    BY <1>3, <1>8 DEF StorePart, Unregistered, Registered
  <2>4. ASSUME NEW q \in ModelPaths
        PROVE  Unregistered(q)' \/ \E r \in SUBSET FileType : Registered(q, r)'
    <3>1. CASE q = p BY <1>1, <2>3, <3>1 DEF Unregistered
    <3>2. CASE q # p
      BY <1>1, <2>2, <3>2 DEF StorePart, Unregistered, Registered, ModelConstructor,
         TensorFlowModelConstructor, PyTorchModelConstructor
    <3> QED BY <3>1, <3>2
  <2>5. StorePart' BY <1>1, <2>4 DEF StorePart
  <2> QED BY <1>1, <1>2, <1>4, <1>5, <1>6, <2>2, <2>5
<1>9. UNCHANGED ram \/ (sidecarUp /\ \E s \in SUBSET FileType : ram' = [ram EXCEPT ![p] = s])
  <2>1. Files(p, v) \in SUBSET FileType /\ ram[p] \in SUBSET FileType
    BY DEF Files, FileType, ModelTypeOK
  <2>2. SaveToRamFileSystem(p, Files(p, v)) \in SUBSET FileType BY <2>1 DEF SaveToRamFileSystem
  <2> QED BY <2>1, <2>2 DEF RegisterModelFails
<1> QED BY <1>7, <1>8, <1>9

LEMMA RegistrationKeeps == ASSUME ModelInv, InternalModelFetchAndRegistration PROVE ModelInv'
<1> USE DEF ModelInv
<1>1. UNCHANGED <<framework, mround, timers, rconfig, fetchedFiles, mconfig, bucket, sidecarUp,
                  resetting, unserialised, batch>>
  BY DEF InternalModelFetchAndRegistration, otherVars
<1>2. mround = "registering" BY DEF InternalModelFetchAndRegistration
<1>3. PICK p \in todo :
        /\ todo' = todo \ {p}
        /\ \/ /\ ~ChecksumMatches(p, ConfiguredSum(p)) /\ mfailed' = mfailed \cup {p} /\ NoFault
              /\ UNCHANGED <<mentries, storeVars, owed>>
           \/ /\ ChecksumMatches(p, ConfiguredSum(p)) /\ RegisterModelOk(p, Files(p, fetchedFiles[p]))
              /\ mentries' = [mentries EXCEPT ![p] = {[checksum |-> ConfiguredSum(p), mstate |-> "active"]}]
              /\ UNCHANGED mfailed
           \/ /\ ChecksumMatches(p, ConfiguredSum(p)) /\ RegisterModelFails(p, Files(p, fetchedFiles[p]))
              /\ mfailed' = mfailed \cup {p} /\ UNCHANGED mentries
  BY DEF InternalModelFetchAndRegistration
<1>4. /\ p \in ModelPaths /\ rconfig[p] # {} /\ mentries[p] = {} /\ p \notin mfailed
      /\ fetchedFiles[p] \in Nat
  BY <1>2, <1>3 DEF RoundPart, ModelTypeOK
<1>5. rconfig[p] = {ConfiguredSum(p)} /\ ConfiguredSum(p) \in Nat
  <2>1. PICK c \in rconfig[p] : rconfig[p] = {c} BY <1>4 DEF RoundPart
  <2>2. c \in Nat BY <1>4, <2>1 DEF ModelTypeOK
  <2> QED BY <1>4, <2>1, <2>2 DEF ConfiguredSum
<1>6. ASSUME faulty => faulty', \A q \in ModelPaths \ {p} : mentries'[q] = mentries[q],
             \A q \in ModelPaths \ {p} : q \in mfailed' <=> q \in mfailed, Done(p)'
      PROVE  RoundPart'
  <2>1. ASSUME NEW q \in todo' PROVE rconfig'[q] # {} /\ mentries'[q] = {} /\ q \notin mfailed'
    BY <1>1, <1>2, <1>3, <1>6, <2>1 DEF RoundPart, ModelTypeOK
  <2>2. ASSUME NEW q \in ModelPaths \ todo' PROVE Done(q)'
    <3>1. CASE q = p BY <1>6, <3>1
    <3>2. CASE q # p
      <4>1. Done(q) BY <1>2, <1>3, <2>2, <3>2 DEF RoundPart
      <4> QED BY <1>1, <1>6, <3>2, <4>1 DEF Done, ChecksumMatches, ConfiguredSum
    <3> QED BY <3>1, <3>2
  <2> QED BY <1>1, <1>2, <2>1, <2>2 DEF RoundPart
<1>7. CASE /\ ~ChecksumMatches(p, ConfiguredSum(p)) /\ mfailed' = mfailed \cup {p} /\ NoFault
           /\ UNCHANGED <<mentries, storeVars, owed>>
  <2>1. UNCHANGED <<ram, modelData, prodModel, consentedModel, inferenceCount, modelPaths>>
    BY <1>7 DEF storeVars
  <2>2. UNCHANGED faulty BY <1>7 DEF NoFault
  <2>3. ModelTypeOK' BY <1>1, <1>3, <1>7, <2>1, <2>2 DEF ModelTypeOK
  <2>4. StorePart' BY <1>1, <1>7, <2>1, StoreUntouched
  <2>5. EntryPart' BY <1>1, <1>7, <2>1, <2>2, EntriesUntouched DEF EntryPart
  <2>6. BatchPart' BY <1>1, <1>7, <2>1, BatchUntouched
  <2>7. Done(p)'
    BY <1>1, <1>4, <1>7 DEF Done, ChecksumMatches, ConfiguredSum
  <2>8. RoundPart' BY <1>6, <1>7, <2>2, <2>7
  <2> QED BY <2>3, <2>4, <2>5, <2>6, <2>8
<1>8. CASE /\ ChecksumMatches(p, ConfiguredSum(p)) /\ RegisterModelOk(p, Files(p, fetchedFiles[p]))
           /\ mentries' = [mentries EXCEPT ![p] = {[checksum |-> ConfiguredSum(p), mstate |-> "active"]}]
           /\ UNCHANGED mfailed
  <2>1. ConfiguredSum(p) # 0 => ConfiguredSum(p) = fetchedFiles[p] BY <1>8 DEF ChecksumMatches
  <2>2. /\ StorePart' /\ EntryPart' /\ BatchPart'
        /\ modelData' \in [ModelPaths -> CopyType] /\ prodModel' \in [ModelPaths -> CopyType]
        /\ consentedModel' \in [ModelPaths -> CopyType] /\ ram' \in [ModelPaths -> SUBSET FileType]
        /\ inferenceCount' \in [ModelPaths -> Nat] /\ modelPaths' \subseteq ModelPaths
        /\ owed' \subseteq ModelPaths /\ UNCHANGED faulty
        /\ mentries' \in [ModelPaths -> SUBSET [checksum : Nat, mstate : {"active", "grace", "deletion"}]]
        /\ \A q \in ModelPaths \ {p} : mentries'[q] = mentries[q]
        /\ \E e \in mentries'[p] : mentries'[p] = {e} /\ e.checksum = ConfiguredSum(p)
                                   /\ e.mstate = "active"
    BY <1>1, <1>4, <1>5, <1>8, <2>1, RegisterKeeps, Zenon
  <2>3. ModelTypeOK' BY <1>1, <1>3, <2>2 DEF ModelTypeOK
  <2>4. Done(p)' BY <1>1, <1>4, <1>5, <1>8, <2>2 DEF Done
  <2>5. RoundPart' BY <1>6, <1>8, <2>2, <2>4
  <2> QED BY <2>2, <2>3, <2>5
<1>9. CASE /\ ChecksumMatches(p, ConfiguredSum(p)) /\ RegisterModelFails(p, Files(p, fetchedFiles[p]))
           /\ mfailed' = mfailed \cup {p} /\ UNCHANGED mentries
  <2>1. /\ StorePart' /\ EntryPart' /\ BatchPart'
        /\ ram' \in [ModelPaths -> SUBSET FileType]
        /\ UNCHANGED <<modelData, prodModel, consentedModel, inferenceCount, owed, modelPaths>>
        /\ (faulty => faulty') /\ faulty' \in BOOLEAN
        /\ ~faulty' => framework = "pytorch" /\ Cardinality(Files(p, fetchedFiles[p])) # 1
    BY <1>1, <1>4, <1>9, RegisterFailsKeeps, Zenon
  <2>2. ModelTypeOK' BY <1>1, <1>3, <1>9, <2>1 DEF ModelTypeOK
  <2>3. Done(p)' BY <1>1, <1>4, <1>9, <2>1 DEF Done, Files
  <2>4. RoundPart' BY <1>6, <1>9, <2>1, <2>3
  <2> QED BY <2>1, <2>2, <2>4
<1> QED BY <1>3, <1>7, <1>8, <1>9

LEMMA DeferredDeletionKeeps ==
  ASSUME ModelInv, NEW p \in ModelPaths, DeferredDeletion(p) PROVE ModelInv'
<1> USE DEF ModelInv
<1>1. UNCHANGED <<framework, mround, rconfig, todo, fetchedFiles, mfailed, mconfig, bucket, sidecarUp,
                  resetting, unserialised, batch>>
  BY DEF DeferredDeletion, otherVars
<1>2. p \in timers /\ mround \in {"idle", "ended"} /\ timers' = timers \ {p} /\ DeleteModel(p)
  BY DEF DeferredDeletion
<1>3. mentries[p] # {} BY <1>2 DEF EntryPart
<1>4. /\ StorePart' /\ EntryPart' /\ BatchPart'
      /\ modelData' \in [ModelPaths -> CopyType] /\ prodModel' \in [ModelPaths -> CopyType]
      /\ consentedModel' \in [ModelPaths -> CopyType] /\ UNCHANGED ram
      /\ inferenceCount' \in [ModelPaths -> Nat] /\ modelPaths' \subseteq ModelPaths
      /\ owed' \subseteq ModelPaths /\ (faulty => faulty') /\ faulty' \in BOOLEAN
      /\ mentries' \in [ModelPaths -> SUBSET [checksum : Nat, mstate : {"active", "grace", "deletion"}]]
  BY <1>1, <1>2, <1>3, DeleteKeeps, Zenon
<1>5. ModelTypeOK' BY <1>1, <1>2, <1>4 DEF ModelTypeOK
<1>6. RoundPart' BY <1>1, <1>2 DEF RoundPart
<1> QED BY <1>4, <1>5, <1>6

(* The end of a round, and End. *)
LEMMA RoundEndKeeps ==
  ASSUME ModelInv, InternalPeriodicModelFetchAndRegistration \/ EndModelFetch PROVE ModelInv'
<1> USE DEF ModelInv
<1>1. UNCHANGED <<framework, mentries, timers, rconfig, todo, fetchedFiles, mfailed, mconfig, bucket,
                  sidecarUp, ram, modelData, prodModel, consentedModel, inferenceCount, modelPaths,
                  resetting, owed, unserialised, batch, faulty>>
  BY DEF InternalPeriodicModelFetchAndRegistration, EndModelFetch, storeVars, otherVars
<1>2. mround' \in {"idle", "ended"}
  BY DEF InternalPeriodicModelFetchAndRegistration, EndModelFetch
<1>3. ModelTypeOK' BY <1>1 DEF ModelTypeOK
<1>4. StorePart' BY <1>1, StoreUntouched
<1>5. EntryPart' BY <1>1, EntriesUntouched DEF EntryPart
<1>6. RoundPart' BY <1>1, <1>2 DEF RoundPart
<1>7. BatchPart' BY <1>1, BatchUntouched
<1> QED BY <1>3, <1>4, <1>5, <1>6, <1>7

-----------------------------------------------------------------------------
(* The steps of a prediction.                                                *)

RequestType == [path : ModelPaths \cup {"unknown"}, ok : BOOLEAN]
OutType == [path : ModelPaths \cup {"unknown", "batch"}, error : InferenceErrors, model : CopyType]

(* A prediction leaves the store's copies, the entries and the round alone.  *)
LEMMA PredictionKeeps ==
  ASSUME ModelInv, UNCHANGED <<predictFrame, sidecarUp, faulty>>,
         inferenceCount' \in [ModelPaths -> Nat], batch' \in BatchType, owed' \subseteq ModelPaths,
         \A p \in owed' : modelData[p] # {}, BatchPart'
  PROVE  ModelInv'
<1> USE DEF ModelInv
<1>1. UNCHANGED <<framework, mentries, timers, mround, rconfig, todo, fetchedFiles, mfailed, mconfig,
                  bucket, ram, modelData, prodModel, consentedModel, modelPaths, resetting>>
  BY DEF predictFrame, fetcherVars
<1>2. ModelTypeOK' BY <1>1 DEF ModelTypeOK
<1>3. StorePart'
  BY <1>1 DEF StorePart, Registered, Unregistered, ModelConstructor, TensorFlowModelConstructor,
     PyTorchModelConstructor
<1>4. EntryPart' BY <1>1, EntriesUntouched DEF EntryPart
<1>5. RoundPart' BY <1>1, RoundUntouched
<1> QED BY <1>2, <1>3, <1>4, <1>5

LEMMA RunInferenceKeeps == ASSUME ModelInv, RunInference PROVE ModelInv'
<1> USE DEF ModelInv
<1>1. UNCHANGED <<predictFrame, sidecarUp, inferenceCount, owed, unserialised, faulty>>
  BY DEF RunInference
<1>2. batch.stage = "none" BY DEF RunInference
<1>3. PICK c \in BOOLEAN, p \in ModelPaths :
       IF sidecarUp
       THEN batch' = [NoBatch EXCEPT !.stage = "lookup", !.consented = c,
                                     !.reqs = <<InferenceRequest("unknown", c), InferenceRequest(p, TRUE)>>]
       ELSE batch' = [NoBatch EXCEPT !.stage = "answered", !.out = <<Out("batch", "GRPC", {})>>]
  BY DEF RunInference
<1>4. CASE sidecarUp
  <2>1. PICK q1 \in RequestType, q2 \in RequestType :
          q1 = InferenceRequest("unknown", c) /\ q2 = InferenceRequest(p, TRUE)
    BY DEF RequestType, InferenceRequest
  <2>2. batch' = [stage |-> "lookup", reqs |-> <<q1, q2>>, consented |-> c, models |-> <<>>, out |-> <<>>]
    BY <1>3, <1>4, <2>1 DEF NoBatch
  <2>3. batch' \in BatchType
    BY <2>2 DEF BatchType, RequestType
  <2>4. /\ batch'.stage = "lookup" /\ batch'.reqs = <<q1, q2>> /\ batch'.models = <<>>
    BY <2>2
  <2>5. BatchPart'
    <3>1. \A q \in owed' : inferenceCount'[q] > 0 \/ unserialised' \/ ~sidecarUp'
      BY <1>1, <1>2 DEF BatchPart
    <3>2. Len(batch'.models) = 0 /\ Len(batch'.reqs) = 2 /\ DOMAIN batch'.models = {} BY <2>4
    <3>3. OutputsFollowRequests' BY <2>4 DEF OutputsFollowRequests
    <3>4. Len(batch'.models) <= Len(batch'.reqs) BY <3>2
    <3> QED BY <3>1, <3>2, <3>3, <3>4, Zenon DEF BatchPart
  <2> QED BY <1>1, <2>3, <2>5, PredictionKeeps DEF ModelTypeOK, StorePart
<1>5. CASE ~sidecarUp
  <2>1. PICK o \in OutType : o = Out("batch", "GRPC", {})
    BY DEF OutType, Out, InferenceErrors, CopyType
  <2>2. batch' = [stage |-> "answered", reqs |-> <<>>, consented |-> FALSE, models |-> <<>>, out |-> <<o>>]
    BY <1>3, <1>5, <2>1 DEF NoBatch
  <2>3. batch' \in BatchType
    BY <2>2 DEF BatchType, OutType
  <2>4. /\ batch'.stage = "answered" /\ batch'.reqs = <<>> /\ batch'.models = <<>> /\ batch'.out = <<o>>
    BY <2>2
  <2>5. BatchPart'
    <3>1. \A q \in owed' : ~sidecarUp' BY <1>1, <1>5
    <3>2. /\ Len(batch'.models) = 0 /\ Len(batch'.reqs) = 0 /\ DOMAIN batch'.models = {}
          /\ DOMAIN batch'.reqs = {}
      BY <2>4
    <3>3. OutputsFollowRequests' BY <3>2 DEF OutputsFollowRequests
    <3> QED BY <2>4, <3>1, <3>2, <3>3 DEF BatchPart
  <2> QED BY <1>1, <2>3, <2>5, PredictionKeeps DEF ModelTypeOK, StorePart
<1> QED BY <1>4, <1>5 DEF ModelTypeOK

LEMMA BatchFields ==
  ASSUME ModelInv
  PROVE  /\ batch.reqs \in Seq(RequestType) /\ batch.models \in Seq(CopyType)
         /\ batch.out \in Seq(OutType) /\ batch.consented \in BOOLEAN
         /\ batch.stage \in {"none", "lookup", "answered"}
BY DEF ModelInv, ModelTypeOK, BatchType, RequestType, OutType

LEMMA StartTaskKeeps == ASSUME ModelInv, StartTask PROVE ModelInv'
<1> USE DEF ModelInv
<1>1. UNCHANGED <<predictFrame, sidecarUp, inferenceCount, unserialised, faulty>> /\ UNCHANGED modelData
  BY DEF StartTask, predictFrame
<1>2. /\ sidecarUp /\ batch.stage = "lookup" /\ Len(batch.models) < Len(batch.reqs)
  BY DEF StartTask
<1>3. PICK n \in 1 .. Len(batch.reqs) : n = Len(batch.models) + 1
  BY <1>2, BatchFields
<1>4. PICK r \in RequestType : r = batch.reqs[n]
  BY <1>3, BatchFields
<1>5. PICK found : found = IF r.ok THEN GetModel(r.path, batch.consented) ELSE {}
  OBVIOUS
<1>6. /\ batch' = [batch EXCEPT !.models = Append(batch.models, found)]
      /\ owed' = IF found # {} /\ ~batch.consented THEN owed \cup {r.path} ELSE owed
  BY <1>3, <1>4, <1>5 DEF StartTask
<1>7. found \in CopyType /\ (found # {} => r.ok)
      /\ (found # {} => r.path \in ModelPaths /\ (~batch.consented => prodModel[r.path] = found))
  <2>1. {} \in CopyType BY DEF CopyType
  <2> QED BY <1>4, <1>5, <2>1 DEF GetModel, ModelTypeOK, RequestType
<1>8. batch' \in BatchType
  <2>1. Append(batch.models, found) \in Seq(CopyType) BY <1>7, BatchFields
  <2> QED BY <1>6, <2>1 DEF ModelTypeOK, BatchType
<1>9. /\ batch'.reqs = batch.reqs /\ batch'.stage = "lookup"
      /\ batch'.models = Append(batch.models, found)
  BY <1>2, <1>6 DEF ModelTypeOK, BatchType
<1>10. owed' \subseteq ModelPaths /\ \A p \in owed' : modelData[p] # {}
  <2>1. ASSUME found # {}, ~batch.consented PROVE r.path \in ModelPaths /\ modelData[r.path] # {}
    BY <1>7, <2>1 DEF StorePart, Unregistered, Registered
  <2> QED BY <1>6, <2>1 DEF ModelTypeOK, StorePart
<1>11. BatchPart'
  <2>1. /\ Len(batch'.models) = n /\ n <= Len(batch.reqs) /\ batch'.models[n] = found
        /\ \A i \in DOMAIN batch'.models : i = n \/ (i \in DOMAIN batch.models
                                                     /\ batch'.models[i] = batch.models[i])
    BY <1>3, <1>7, <1>9, BatchFields
  <2>2. \A i \in DOMAIN batch'.models : batch'.models[i] # {} => batch'.reqs[i].ok
    BY <1>4, <1>7, <1>9, <2>1 DEF BatchPart
  <2>3. ASSUME NEW p \in owed', p \notin owed
        PROVE  \E i \in DOMAIN batch'.reqs : batch'.reqs[i] = InferenceRequest(p, TRUE)
    <3>1. p = r.path /\ found # {} BY <1>6, <2>3
    <3>2. r = InferenceRequest(p, TRUE) BY <1>7, <3>1 DEF InferenceRequest, RequestType
    <3>3. n \in DOMAIN batch'.reqs BY <1>3, <1>9, BatchFields
    <3> QED BY <1>4, <1>9, <3>2, <3>3
  <2>4. OutputsFollowRequests' BY <1>9 DEF OutputsFollowRequests
  <2>5. \A p \in owed' :
         \/ inferenceCount'[p] > 0 \/ unserialised' \/ ~sidecarUp'
         \/ batch'.stage = "lookup" /\ \E i \in DOMAIN batch'.reqs :
              batch'.reqs[i] = InferenceRequest(p, TRUE)
    BY <1>1, <1>9, <2>3 DEF BatchPart
  <2> QED BY <1>2, <1>9, <2>1, <2>2, <2>4, <2>5 DEF BatchPart
<1> QED BY <1>1, <1>8, <1>10, <1>11, PredictionKeeps DEF ModelTypeOK

(* A batch that is answered with one error for all of its requests. *)
LEMMA AnswersWithOne ==
  ASSUME ModelInv, batch.stage = "lookup", UNCHANGED <<predictFrame, sidecarUp, owed, faulty>>,
         NEW o \in OutType, batch' = [batch EXCEPT !.stage = "answered", !.out = <<o>>],
         UNCHANGED inferenceCount, unserialised' \/ ~sidecarUp
  PROVE  ModelInv'
<1> USE DEF ModelInv
<1>1. /\ batch' \in BatchType /\ batch'.reqs = batch.reqs /\ batch'.models = batch.models
      /\ batch'.stage = "answered" /\ batch'.out = <<o>>
  <2>1. <<o>> \in Seq(OutType) OBVIOUS
  <2> QED BY <2>1 DEF ModelTypeOK, BatchType, OutType
<1>2. Len(batch'.out) = 1 /\ Len(batch'.reqs) = 2 BY <1>1 DEF BatchPart
<1>3. OutputsFollowRequests' BY <1>2 DEF OutputsFollowRequests
<1>4. BatchPart' BY <1>1, <1>3 DEF BatchPart
<1> QED BY <1>1, <1>4, PredictionKeeps DEF ModelTypeOK, StorePart, predictFrame

LEMMA PredictKeeps == ASSUME ModelInv, Predict PROVE ModelInv'
<1> USE DEF ModelInv
<1>1. UNCHANGED <<predictFrame, sidecarUp, owed, faulty>> /\ UNCHANGED modelData
  BY DEF Predict, predictFrame
<1>2. batch.stage = "lookup" /\ Len(batch.models) = Len(batch.reqs) BY DEF Predict
<1>3. DOMAIN batch.models = DOMAIN batch.reqs BY <1>2, BatchFields
<1>4. CASE \E fails \in {{}, {2}} : \E out \in {BatchOutputs(fails)} :
             /\ batch' = [batch EXCEPT !.stage = "answered", !.out = out]
             /\ IncrementModelInferenceCount(out) /\ UNCHANGED unserialised
  <2>1. PICK fails \in {{}, {2}} :
          /\ batch' = [batch EXCEPT !.stage = "answered", !.out = BatchOutputs(fails)]
          /\ IncrementModelInferenceCount(BatchOutputs(fails)) /\ UNCHANGED unserialised
    BY <1>4
  <2>2. PICK out : out = BatchOutputs(fails) OBVIOUS
  <2>3. ASSUME NEW i \in DOMAIN batch.reqs
        PROVE  /\ out[i] \in OutType /\ out[i].path = batch.reqs[i].path
               /\ out[i].model = IF out[i].error = "none" THEN batch.models[i] ELSE {}
               /\ out[i].error = "none" => batch.models[i] # {}
               /\ batch.models[i] # {} => out[i].error \in {"none", "MODEL_EXECUTION"}
    <3>1. batch.models[i] \in CopyType /\ batch.reqs[i] \in RequestType BY <1>3, BatchFields
    <3>2. out[i] = TaskOutput(i, fails) BY <2>2 DEF BatchOutputs
    <3>3. {} \in CopyType BY DEF CopyType
    <3>4. batch.models[i] # {} => batch.reqs[i].ok BY <1>3 DEF BatchPart
    <3>5. batch.reqs[i].path \in ModelPaths \cup {"unknown", "batch"} BY <3>1 DEF RequestType
    <3>6. PICK path \in ModelPaths \cup {"unknown", "batch"} : path = batch.reqs[i].path BY <3>5
    <3>7. PICK error \in InferenceErrors, model \in CopyType :
            /\ out[i] = [path |-> path, error |-> error, model |-> model]
            /\ model = IF error = "none" THEN batch.models[i] ELSE {}
            /\ error = "none" => batch.models[i] # {}
            /\ batch.models[i] # {} => error \in {"none", "MODEL_EXECUTION"}
      BY <3>1, <3>2, <3>3, <3>4, <3>6 DEF TaskOutput, Out, InferenceErrors
    <3> QED BY <3>6, <3>7 DEF OutType
  <2>4. DOMAIN out = DOMAIN batch.reqs /\ out \in Seq(OutType) /\ Len(out) = Len(batch.reqs)
    <3>1. out = [i \in 1 .. Len(batch.reqs) |-> TaskOutput(i, fails)] /\ Len(batch.reqs) \in Nat
      BY <2>2, BatchFields DEF BatchOutputs
    <3>2. DOMAIN out = 1 .. Len(batch.reqs) /\ DOMAIN batch.reqs = 1 .. Len(batch.reqs)
      BY <3>1, BatchFields
    <3>3. out \in [1 .. Len(batch.reqs) -> OutType] BY <2>3, <3>1, <3>2
    <3> QED BY <3>1, <3>2, <3>3
  <2>5. /\ batch' \in BatchType /\ batch'.reqs = batch.reqs /\ batch'.models = batch.models
        /\ batch'.stage = "answered" /\ batch'.out = out
    BY <2>1, <2>2, <2>4 DEF ModelTypeOK, BatchType, OutType
  <2>6. inferenceCount' = [p \in ModelPaths |->
           IF modelData[p] # {} /\ \E i \in DOMAIN batch.reqs : batch.reqs[i] = InferenceRequest(p, TRUE)
           THEN 1 ELSE inferenceCount[p]]
    BY <2>1, <2>2, <2>4 DEF IncrementModelInferenceCount
  <2>7. inferenceCount' \in [ModelPaths -> Nat] BY <2>6 DEF ModelTypeOK
  <2>8. BatchPart'
    <3>1. OutputsFollowRequests' BY <2>3, <2>5 DEF OutputsFollowRequests
    <3>2. ASSUME NEW p \in owed' PROVE inferenceCount'[p] > 0 \/ unserialised' \/ ~sidecarUp'
      <4>1. p \in ModelPaths /\ p \in owed /\ modelData[p] # {} BY <1>1 DEF ModelTypeOK, StorePart
      <4>2. inferenceCount[p] > 0 \/ unserialised \/ ~sidecarUp
            \/ \E i \in DOMAIN batch.reqs : batch.reqs[i] = InferenceRequest(p, TRUE)
        BY <4>1 DEF BatchPart
      <4>3. CASE \E i \in DOMAIN batch.reqs : batch.reqs[i] = InferenceRequest(p, TRUE)
        <5>1. inferenceCount'[p] = 1 BY <2>6, <4>1, <4>3
        <5> QED BY <5>1
      <4>4. CASE ~\E i \in DOMAIN batch.reqs : batch.reqs[i] = InferenceRequest(p, TRUE)
        <5>1. inferenceCount'[p] = inferenceCount[p] BY <2>6, <4>1, <4>4
        <5> QED BY <1>1, <2>1, <4>2, <4>4, <5>1
      <4> QED BY <4>3, <4>4
    <3> QED BY <2>5, <3>1, <3>2 DEF BatchPart
  <2> QED BY <1>1, <2>5, <2>7, <2>8, PredictionKeeps DEF ModelTypeOK, StorePart
<1>5. CASE /\ \E i \in DOMAIN batch.models : batch.models[i] # {}
           /\ batch' = [batch EXCEPT !.stage = "answered", !.out = <<Out("batch", "OUTPUT_PARSING", {})>>]
           /\ unserialised' = TRUE /\ UNCHANGED inferenceCount
  <2>1. PICK o \in OutType : o = Out("batch", "OUTPUT_PARSING", {})
    BY DEF OutType, Out, InferenceErrors, CopyType
  <2>2. batch' = [batch EXCEPT !.stage = "answered", !.out = <<o>>] BY <1>5, <2>1
  <2> QED BY <1>1, <1>2, <1>5, <2>2, AnswersWithOne
<1> QED BY <1>4, <1>5 DEF Predict

LEMMA PredictLostKeeps == ASSUME ModelInv, PredictLost PROVE ModelInv'
<1>1. UNCHANGED <<predictFrame, sidecarUp, owed, faulty, inferenceCount, unserialised>> /\ ~sidecarUp
      /\ batch.stage = "lookup"
  BY DEF PredictLost
<1>2. PICK o \in OutType : o = Out("batch", "GRPC", {})
  BY DEF OutType, Out, InferenceErrors, CopyType
<1>3. batch' = [batch EXCEPT !.stage = "answered", !.out = <<o>>] BY <1>2 DEF PredictLost
<1> QED BY <1>1, <1>3, AnswersWithOne

LEMMA ModelNextInv == ModelInv /\ (ModelNext \/ UNCHANGED modelVars) => ModelInv'
<1> SUFFICES ASSUME ModelInv, ModelNext \/ UNCHANGED modelVars PROVE ModelInv'
  OBVIOUS
<1>1. CASE RoundStep
  BY <1>1, DeleteModelsKeeps, FetchModelsKeeps, RegistrationKeeps, RoundEndKeeps DEF RoundStep
<1>2. CASE ResetModel \/ ResetThread BY <1>2, ResetModelKeeps, ResetThreadKeeps
<1>3. CASE RunInference \/ StartTask \/ Predict \/ PredictLost
  BY <1>3, RunInferenceKeeps, StartTaskKeeps, PredictKeeps, PredictLostKeeps
<1>4. CASE FetchModelConfig \/ EndModelFetch BY <1>4, FetchModelConfigKeeps, RoundEndKeeps
<1>5. CASE \E p \in ModelPaths : DeferredDeletion(p) BY <1>5, DeferredDeletionKeeps
<1>6. CASE \E p \in ModelPaths : EditConfig(p) BY <1>6, EditConfigKeeps
<1>7. CASE UNCHANGED modelVars
  <2>1. UNCHANGED <<predictFrame, sidecarUp, faulty, owed, unserialised, batch, inferenceCount, modelData>>
    BY <1>7 DEF modelVars, predictFrame, storeVars
  <2>2. BatchPart' BY <2>1, BatchUntouched DEF ModelInv
  <2> QED BY <2>1, <2>2, PredictionKeeps DEF ModelInv, ModelTypeOK, StorePart
<1> QED BY <1>1, <1>2, <1>3, <1>4, <1>5, <1>6, <1>7 DEF ModelNext, ModelProgress

(* What the invariant says of models that serve. *)
LEMMA ModelsSound ==
  ASSUME ModelInv
  PROVE  /\ CopiesMatchTheirRequest /\ EntriesMatchTheSidecar /\ RoundServesTheConfig
         /\ InferencesAreCounted /\ OutputsFollowRequests
<1> USE DEF ModelInv
<1>1. CopiesMatchTheirRequest
  <2> SUFFICES ASSUME NEW p \in ModelPaths
               PROVE  /\ modelData[p] = {} <=> prodModel[p] = {}
                      /\ modelData[p] = {} <=> consentedModel[p] = {}
                      /\ \A r \in modelData[p], m \in prodModel[p] \cup consentedModel[p] :
                           r \subseteq m /\ (framework = "pytorch" => m = r)
                      /\ prodModel[p] = consentedModel[p]
    BY DEF CopiesMatchTheirRequest
  <2>1. CASE Unregistered(p) BY <2>1 DEF Unregistered
  <2>2. CASE \E r \in SUBSET FileType : Registered(p, r)
    BY <2>2 DEF Registered, ModelConstructor, TensorFlowModelConstructor, PyTorchModelConstructor,
       ModelTypeOK
  <2> QED BY <2>1, <2>2 DEF StorePart
<1>2. EntriesMatchTheSidecar BY DEF EntryPart, EntriesMatchTheSidecar
<1>3. RoundServesTheConfig BY DEF RoundPart, Done, RoundServesTheConfig, ModelTypeOK
<1>4. InferencesAreCounted BY DEF BatchPart, InferencesAreCounted
<1>5. OutputsFollowRequests BY DEF BatchPart
<1> QED BY <1>1, <1>2, <1>3, <1>4, <1>5
-----------------------------------------------------------------------------
(* The top-level auction.                                                    *)

(* What the request's results say, and those of them that are let in. *)
Unsealed == [i \in DOMAIN sealed |-> ComponentResult(sealed[i].outcome)]
LetIn == {i \in Accepted : ValidateComponentAuctionResult(ComponentResult(sealed[i].outcome)) = {}}
SomeResult == {Unsealed[i] : i \in DOMAIN sealed}
SomeSeller == {Unsealed[i].seller : i \in DOMAIN sealed}
SomeError == {"ErrorDecryptingAuctionResult", "MultipleComponentAuctionResults"} \cup
             UNION {ValidateComponentAuctionResult(Unsealed[i]) : i \in DOMAIN sealed}
Listed == Len(sealed) \in Nat /\ DOMAIN sealed = 1 .. Len(sealed)

Gathering == [results : Seq(SomeResult), errors : SUBSET SomeError, sellers : SUBSET SomeSeller,
              stop : BOOLEAN]
NothingYet == [results |-> <<>>, errors |-> {}, sellers |-> {}, stop |-> FALSE]

(* After n results: those let in, of different sellers, or none at all. *)
Gathered(st, n) ==
  /\ st \in Gathering /\ (st.stop => st.results = <<>>)
  /\ ~st.stop => /\ Selects(st.results, SomeResult, LetIn, Unsealed, n)
                 /\ \A i \in LetIn : i <= n => Unsealed[i].seller \in st.sellers
                 /\ \A i, j \in LetIn : i < j /\ j <= n => Unsealed[i].seller # Unsealed[j].seller

LEMMA UnsealedFacts ==
  ASSUME Listed
  PROVE  /\ \A i \in 1 .. Len(sealed) :
              /\ Unsealed[i] = ComponentResult(sealed[i].outcome) /\ Unsealed[i] \in SomeResult
              /\ Unsealed[i].seller \in SomeSeller
              /\ ValidateComponentAuctionResult(Unsealed[i]) \subseteq SomeError
              /\ i \in LetIn <=> /\ sealed[i].sealed /\ sealed[i].intact
                                 /\ ValidateComponentAuctionResult(Unsealed[i]) = {}
         /\ \A i \in LetIn : i \in 1 .. Len(sealed) /\ i \in Nat /\ i > 0 /\ Unsealed[i] \in SomeResult
<1>0. DOMAIN sealed = 1 .. Len(sealed) /\ Len(sealed) \in Nat BY DEF Listed
<1>1. ASSUME NEW i \in 1 .. Len(sealed)
      PROVE  /\ Unsealed[i] = ComponentResult(sealed[i].outcome) /\ Unsealed[i] \in SomeResult
             /\ Unsealed[i].seller \in SomeSeller
             /\ ValidateComponentAuctionResult(Unsealed[i]) \subseteq SomeError
             /\ i \in LetIn <=> /\ sealed[i].sealed /\ sealed[i].intact
                                /\ ValidateComponentAuctionResult(Unsealed[i]) = {}
  <2>1. Unsealed[i] = ComponentResult(sealed[i].outcome) BY <1>0 DEF Unsealed
  <2>2. Unsealed[i] \in SomeResult /\ Unsealed[i].seller \in SomeSeller
    BY <1>0 DEF SomeResult, SomeSeller
  <2>3. ValidateComponentAuctionResult(Unsealed[i]) \subseteq SomeError
    BY <1>0, Zenon DEF SomeError
  <2>4. i \in LetIn <=> /\ sealed[i].sealed /\ sealed[i].intact
                        /\ ValidateComponentAuctionResult(Unsealed[i]) = {}
    BY <1>0, <2>1, Zenon DEF LetIn, Accepted
  <2> QED BY <2>1, <2>2, <2>3, <2>4
<1>2. \A i \in LetIn : i \in 1 .. Len(sealed) BY <1>0 DEF LetIn, Accepted
<1> QED BY <1>0, <1>1, <1>2

(* One result, case by case. *)
LEMMA GatherOne ==
  ASSUME Listed, NEW i \in 1 .. Len(sealed), NEW st \in Gathering, NEW new,
         new = AfterComponentResult(st, sealed[i])
  PROVE  /\ new \in Gathering
         /\ st.stop => new = st
         /\ ~st.stop /\ i \notin LetIn =>
              new.results = st.results /\ new.sellers = st.sellers /\ new.stop = st.stop
         /\ ~st.stop /\ i \in LetIn /\ Unsealed[i].seller \in st.sellers =>
              new.results = <<>> /\ new.stop
         /\ ~st.stop /\ i \in LetIn /\ Unsealed[i].seller \notin st.sellers =>
              /\ new.results = Append(st.results, Unsealed[i]) /\ ~new.stop
              /\ new.sellers = st.sellers \cup {Unsealed[i].seller}
<1>1. PICK u : u = Unsealed[i] OBVIOUS
<1>2. PICK fl : fl = ValidateComponentAuctionResult(u) OBVIOUS
<1>3. PICK sl : sl = u.seller OBVIOUS
<1>4. /\ u = ComponentResult(sealed[i].outcome) /\ u \in SomeResult /\ sl \in SomeSeller
      /\ fl \subseteq SomeError
      /\ i \in LetIn <=> /\ sealed[i].sealed /\ sealed[i].intact /\ fl = {}
  BY <1>1, <1>2, <1>3, UnsealedFacts
<1>5. new = IF st.stop THEN st
            ELSE IF ~(sealed[i].sealed /\ sealed[i].intact)
            THEN [st EXCEPT !.errors = @ \cup {"ErrorDecryptingAuctionResult"}]
            ELSE IF fl # {} THEN [st EXCEPT !.errors = @ \cup fl]
            ELSE IF sl \in st.sellers
            THEN [st EXCEPT !.errors = @ \cup {"MultipleComponentAuctionResults"},
                            !.results = <<>>, !.stop = TRUE]
            ELSE [st EXCEPT !.sellers = @ \cup {sl}, !.results = Append(@, u)]
  BY <1>2, <1>3, <1>4 DEF AfterComponentResult, UnpackageServerAuctionComponentResult
<1>6. PICK rs \in Seq(SomeResult), er \in SUBSET SomeError, ss \in SUBSET SomeSeller, sp \in BOOLEAN :
        st = [results |-> rs, errors |-> er, sellers |-> ss, stop |-> sp]
  BY DEF Gathering
<1>7. {"ErrorDecryptingAuctionResult", "MultipleComponentAuctionResults"} \subseteq SomeError
  BY DEF SomeError
<1>8. Append(rs, u) \in Seq(SomeResult) /\ <<>> \in Seq(SomeResult) BY <1>4, <1>6
<1>9. \/ sp /\ new = st
      \/ /\ ~sp /\ i \notin LetIn
         /\ \E e \in SUBSET SomeError :
              new = [results |-> rs, errors |-> e, sellers |-> ss, stop |-> sp]
      \/ /\ ~sp /\ i \in LetIn /\ sl \in ss
         /\ \E e \in SUBSET SomeError :
              new = [results |-> <<>>, errors |-> e, sellers |-> ss, stop |-> TRUE]
      \/ /\ ~sp /\ i \in LetIn /\ sl \notin ss
         /\ new = [results |-> Append(rs, u), errors |-> er, sellers |-> ss \cup {sl}, stop |-> sp]
  <2>1. CASE sp BY <1>5, <1>6, <2>1
  <2>2. CASE ~sp /\ ~(sealed[i].sealed /\ sealed[i].intact)
    <3>1. new = [results |-> rs, errors |-> er \cup {"ErrorDecryptingAuctionResult"}, sellers |-> ss,
                 stop |-> sp]
      BY <1>5, <1>6, <2>2
    <3>2. er \cup {"ErrorDecryptingAuctionResult"} \in SUBSET SomeError BY <1>6, <1>7
    <3> QED BY <1>4, <2>2, <3>1, <3>2
  <2>3. CASE ~sp /\ sealed[i].sealed /\ sealed[i].intact /\ fl # {}
    <3>1. new = [results |-> rs, errors |-> er \cup fl, sellers |-> ss, stop |-> sp]
      BY <1>5, <1>6, <2>3
    <3>2. er \cup fl \in SUBSET SomeError BY <1>4, <1>6
    <3> QED BY <1>4, <2>3, <3>1, <3>2
  <2>4. CASE ~sp /\ i \in LetIn /\ sl \in ss
    <3>1. new = [results |-> <<>>, errors |-> er \cup {"MultipleComponentAuctionResults"}, sellers |-> ss,
                 stop |-> TRUE]
      BY <1>4, <1>5, <1>6, <2>4
    <3>2. er \cup {"MultipleComponentAuctionResults"} \in SUBSET SomeError BY <1>6, <1>7
    <3> QED BY <2>4, <3>1, <3>2
  <2>5. CASE ~sp /\ i \in LetIn /\ sl \notin ss
    BY <1>4, <1>5, <1>6, <2>5
  <2> QED BY <1>4, <2>1, <2>2, <2>3, <2>4, <2>5
<1>10. ss \cup {sl} \in SUBSET SomeSeller BY <1>4, <1>6
<1>11. PICK r \in Seq(SomeResult), e \in SUBSET SomeError, s \in SUBSET SomeSeller, p \in BOOLEAN :
         /\ new = [results |-> r, errors |-> e, sellers |-> s, stop |-> p]
         /\ sp => r = rs /\ e = er /\ s = ss /\ p = sp
         /\ ~sp /\ i \notin LetIn => r = rs /\ s = ss /\ p = sp
         /\ ~sp /\ i \in LetIn /\ sl \in ss => r = <<>> /\ p
         /\ ~sp /\ i \in LetIn /\ sl \notin ss => r = Append(rs, u) /\ ~p /\ s = ss \cup {sl}
  <2>1. CASE sp /\ new = st BY <1>6, <2>1
  <2>2. CASE /\ ~sp /\ i \notin LetIn
             /\ \E e \in SUBSET SomeError :
                  new = [results |-> rs, errors |-> e, sellers |-> ss, stop |-> sp]
    BY <1>6, <2>2
  <2>3. CASE /\ ~sp /\ i \in LetIn /\ sl \in ss
             /\ \E e \in SUBSET SomeError :
                  new = [results |-> <<>>, errors |-> e, sellers |-> ss, stop |-> TRUE]
    BY <1>6, <1>8, <2>3
  <2>4. CASE /\ ~sp /\ i \in LetIn /\ sl \notin ss
             /\ new = [results |-> Append(rs, u), errors |-> er, sellers |-> ss \cup {sl}, stop |-> sp]
    BY <1>6, <1>8, <1>10, <2>4
  <2> QED BY <1>9, <2>1, <2>2, <2>3, <2>4
<1>12. new \in Gathering BY <1>11 DEF Gathering
<1>13. new.results = r /\ new.sellers = s /\ new.stop = p BY <1>11
<1>14. st.results = rs /\ st.sellers = ss /\ st.stop = sp BY <1>6
<1>15. sp => new = st BY <1>6, <1>11
<1> QED BY <1>1, <1>3, <1>11, <1>12, <1>13, <1>14, <1>15

LEMMA GatherMore ==
  ASSUME Listed, NEW n \in Nat, n + 1 <= Len(sealed), NEW st, Gathered(st, n)
  PROVE  Gathered(AfterComponentResult(st, sealed[n + 1]), n + 1)
<1>1. PICK new : new = AfterComponentResult(st, sealed[n + 1]) OBVIOUS
<1>2. n + 1 \in 1 .. Len(sealed) BY DEF Listed
<1>3. st \in Gathering /\ st.stop \in BOOLEAN BY DEF Gathered, Gathering
<1>4. PICK i \in 1 .. Len(sealed) : i = n + 1 BY <1>2
<1>5. /\ new \in Gathering
      /\ st.stop => new = st
      /\ ~st.stop /\ i \notin LetIn =>
           new.results = st.results /\ new.sellers = st.sellers /\ new.stop = st.stop
      /\ ~st.stop /\ i \in LetIn /\ Unsealed[i].seller \in st.sellers =>
           new.results = <<>> /\ new.stop
      /\ ~st.stop /\ i \in LetIn /\ Unsealed[i].seller \notin st.sellers =>
           /\ new.results = Append(st.results, Unsealed[i]) /\ ~new.stop
           /\ new.sellers = st.sellers \cup {Unsealed[i].seller}
  BY <1>1, <1>3, <1>4, GatherOne
<1>6. \A k \in LetIn : k \in Nat /\ k > 0 /\ Unsealed[k] \in SomeResult BY UnsealedFacts
<1>7. CASE st.stop BY <1>3, <1>5, <1>7, <1>1 DEF Gathered
<1>8. CASE ~st.stop /\ i \in LetIn /\ Unsealed[i].seller \in st.sellers
  BY <1>1, <1>5, <1>8 DEF Gathered
<1>9. ASSUME ~st.stop, ~new.stop, i \in LetIn => Unsealed[i].seller \notin st.sellers,
             new.results = IF i \in LetIn THEN Append(st.results, Unsealed[i]) ELSE st.results,
             st.sellers \subseteq new.sellers, i \in LetIn => Unsealed[i].seller \in new.sellers
      PROVE  Gathered(new, n + 1)
  <2>0. /\ Selects(st.results, SomeResult, LetIn, Unsealed, n)
        /\ \A k \in LetIn : k <= n => Unsealed[k].seller \in st.sellers
        /\ \A k, j \in LetIn : k < j /\ j <= n => Unsealed[k].seller # Unsealed[j].seller
    BY <1>9 DEF Gathered
  <2>1. PICK q : q = st.results OBVIOUS
  <2>2. Selects(IF n + 1 \in LetIn THEN Append(q, Unsealed[n + 1]) ELSE q, SomeResult, LetIn, Unsealed, n + 1)
    BY <1>6, <2>0, <2>1, SelectsMore
  <2>3. Selects(new.results, SomeResult, LetIn, Unsealed, n + 1) BY <1>4, <1>9, <2>1, <2>2, Zenon
  <2>4. \A k \in LetIn : k <= n + 1 => Unsealed[k].seller \in new.sellers BY <1>4, <1>6, <1>9, <2>0
  <2>5. ASSUME NEW k \in LetIn, NEW j \in LetIn, k < j, j <= n + 1
        PROVE  Unsealed[k].seller # Unsealed[j].seller
    <3>1. CASE j <= n BY <2>0, <2>5, <3>1
    <3>2. CASE j = i
      <4>1. k <= n BY <1>4, <1>6, <2>5, <3>2
      <4> QED BY <1>9, <2>0, <3>2, <4>1
    <3> QED BY <1>4, <1>6, <2>5, <3>1, <3>2
  <2> QED BY <1>5, <1>9, <2>3, <2>4, <2>5, Zenon DEF Gathered
<1> QED BY <1>1, <1>3, <1>5, <1>7, <1>8, <1>9

(* The whole request: what is found are the results let in, in their order, *)
(* each of another seller.                                                  *)
LEMMA FoundResults ==
  ASSUME Listed, NEW found, found = DecryptAndValidateComponentAuctionResults
  PROVE  Gathered(found, Len(sealed))
<1>1. PICK N \in Nat : N = Len(sealed) /\ DOMAIN sealed = 1 .. N BY DEF Listed
<1>2. PICK W, b : W = Gathering /\ b = NothingYet OBVIOUS
<1>3. b \in W BY <1>2 DEF Gathering, NothingYet
<1>4. PICK G : G = [p \in (1 .. N) \X W |-> AfterComponentResult(p[2], sealed[p[1]])] OBVIOUS
<1>5. ASSUME NEW i \in 1 .. N, NEW x \in W
      PROVE  G[<<i, x>>] = AfterComponentResult(x, sealed[i]) /\ G[<<i, x>>] \in W
  <2>1. <<i, x>> \in (1 .. N) \X W OBVIOUS
  <2>2. G[<<i, x>>] = AfterComponentResult(x, sealed[i]) BY <1>4, <2>1
  <2>3. PICK new : new = AfterComponentResult(x, sealed[i]) OBVIOUS
  <2>4. new \in Gathering BY <1>1, <1>2, <2>3, GatherOne
  <2> QED BY <1>2, <2>2, <2>3, <2>4
<1>6. G \in Turns(N, W)
  <2>1. \A p \in (1 .. N) \X W : G[p] \in W BY <1>5
  <2> QED BY <1>4, <2>1 DEF Turns
<1>7. PICK f \in [0 .. N -> W] : f[0] = b /\ \A i \in 1 .. N : f[i] = G[<<i, f[i - 1]>>]
  BY <1>3, <1>6, Loop
<1> DEFINE Step(g) == [i \in 0 .. N |->
             IF i = 0 THEN NothingYet ELSE AfterComponentResult(g[i - 1], sealed[i])]
<1>8. PICK after : after = CHOOSE g : g = Step(g) OBVIOUS
<1>9. found = after[N]
  BY <1>1, <1>8, Zenon DEF DecryptAndValidateComponentAuctionResults, NothingYet
<1>10. f = Step(f)
  <2>1. f = [i \in 0 .. N |-> f[i]] BY <1>7
  <2>2. ASSUME NEW i \in 0 .. N
        PROVE  f[i] = IF i = 0 THEN NothingYet ELSE AfterComponentResult(f[i - 1], sealed[i])
    <3>1. CASE i = 0 BY <1>2, <1>7, <3>1
    <3>2. CASE i # 0
      <4>1. i \in 1 .. N /\ i - 1 \in 0 .. N BY <3>2
      <4>2. f[i - 1] \in W BY <1>7, <4>1
      <4> QED BY <1>5, <1>7, <3>2, <4>1, <4>2, Zenon
    <3> QED BY <3>1, <3>2
  <2> QED BY <2>1, <2>2, Zenon
<1>11. after = Step(after) BY <1>8, <1>10
<1>12. ASSUME NEW i \in 0 .. N
       PROVE  after[i] = IF i = 0 THEN NothingYet ELSE AfterComponentResult(after[i - 1], sealed[i])
  BY <1>11, Zenon
<1> HIDE DEF Step
<1> DEFINE S == {n \in Nat : n <= N => Gathered(after[n], n)}
<1>13. 0 \in S
  <2>1. after[0] = NothingYet
    <3>1. 0 \in 0 .. N OBVIOUS
    <3> QED BY <1>12, <3>1
  <2>2. \A i \in LetIn : i \in Nat /\ i > 0 BY UnsealedFacts
  <2>3. Selects(<<>>, SomeResult, LetIn, Unsealed, 0) BY <2>2, SelectsNothing
  <2>4. NothingYet.results = <<>> /\ ~NothingYet.stop BY DEF NothingYet
  <2>5. \A i \in LetIn : ~(i <= 0) BY <2>2
  <2>6. Selects(NothingYet.results, SomeResult, LetIn, Unsealed, 0) BY <2>3, <2>4, Zenon
  <2>7. Gathered(NothingYet, 0) BY <1>2, <1>3, <2>2, <2>4, <2>5, <2>6 DEF Gathered
  <2> QED BY <2>1, <2>7
<1>14. ASSUME NEW n \in Nat, n \in S PROVE n + 1 \in S
  <2> SUFFICES ASSUME n + 1 <= N PROVE Gathered(after[n + 1], n + 1)
    OBVIOUS
  <2>1. Gathered(after[n], n) BY <1>14
  <2>2. n + 1 \in 0 .. N /\ n + 1 # 0 /\ (n + 1) - 1 = n OBVIOUS
  <2>3. after[n + 1] = AfterComponentResult(after[n], sealed[n + 1])
    BY <1>12, <2>2
  <2>4. PICK st : st = after[n] OBVIOUS
  <2>5. Gathered(AfterComponentResult(st, sealed[n + 1]), n + 1) BY <1>1, <2>1, <2>4, GatherMore
  <2> QED BY <2>3, <2>4, <2>5, Zenon
<1> HIDE DEF S
<1>15. N \in S BY <1>13, <1>14, SetInduction
<1>16. Gathered(after[N], N) BY <1>15 DEF S
<1> QED BY <1>1, <1>9, <1>16, Zenon

(* Chaff is taken out of what was found. *)
LEMMA ChaffIsDropped ==
  ASSUME NEW V, NEW q \in Seq(V)
  PROVE  Selects(CreateTopLevelScoreAdsRawRequest(q), V, {i \in 1 .. Len(q) : ~q[i].chaff}, q, Len(q))
<1>1. PICK N \in Nat : N = Len(q) /\ DOMAIN q = 1 .. N OBVIOUS
<1>2. PICK T : T = {i \in 1 .. N : ~q[i].chaff} OBVIOUS
<1>3. \A i \in T : i \in 1 .. N /\ q[i] \in V BY <1>1, <1>2
<1> DEFINE Step(g) == [i \in 0 .. N |->
        IF i = 0 THEN <<>>
        ELSE IF q[i].chaff THEN g[i - 1] ELSE Append(g[i - 1], q[i])]
<1>4. PICK kept : kept = CHOOSE g : g = Step(g) OBVIOUS
<1>5. CreateTopLevelScoreAdsRawRequest(q) = kept[N]
  BY <1>1, <1>4, Zenon DEF CreateTopLevelScoreAdsRawRequest
<1>6. \A i \in 1 .. N : i \in T <=> ~q[i].chaff BY <1>2
<1>7. \E g : g = Step(g)
  <2>a. PICK f \in [0 .. N -> Seq(V)] : Filters(f, N, T, q) BY <1>3, FilterLoop
  <2>1. f[0] = <<>> /\ \A i \in 1 .. N : f[i] = IF i \in T THEN Append(f[i - 1], q[i]) ELSE f[i - 1]
    BY <2>a DEF Filters
  <2>2. f = [i \in 0 .. N |-> f[i]] BY <2>a
  <2>3. ASSUME NEW i \in 0 .. N
        PROVE  f[i] = IF i = 0 THEN <<>>
                      ELSE IF q[i].chaff THEN f[i - 1] ELSE Append(f[i - 1], q[i])
    <3>1. CASE i = 0 BY <2>1, <3>1
    <3>2. CASE i # 0
      <4>1. i \in 1 .. N BY <3>2
      <4> QED BY <1>6, <2>1, <3>2, <4>1, Zenon
    <3> QED BY <3>1, <3>2
  <2>4. f = Step(f) BY <2>2, <2>3, Zenon
  <2> QED BY <2>4
<1>8. kept = Step(kept) BY <1>4, <1>7
<1>9. Filters(kept, N, T, q)
  <2>1. ASSUME NEW i \in 0 .. N
        PROVE  kept[i] = IF i = 0 THEN <<>>
                      ELSE IF q[i].chaff THEN kept[i - 1] ELSE Append(kept[i - 1], q[i])
    BY <1>8, Zenon
  <2>2. kept[0] = <<>>
    <3>1. 0 \in 0 .. N OBVIOUS
    <3> QED BY <2>1, <3>1
  <2>3. ASSUME NEW i \in 1 .. N
        PROVE  kept[i] = IF i \in T THEN Append(kept[i - 1], q[i]) ELSE kept[i - 1]
    <3>1. i \in 0 .. N /\ i # 0 OBVIOUS
    <3> QED BY <1>6, <2>1, <3>1, Zenon
  <2> QED BY <2>2, <2>3 DEF Filters
<1>10. Selects(kept[N], V, T, q, N) BY <1>3, <1>9, FilterSelects
<1> QED BY <1>1, <1>2, <1>5, <1>10, Zenon

(* What reaches the auction service: results that are let in, of different *)
(* sellers.                                                                *)
Sound(q) ==
  /\ q \in Seq(SomeResult)
  /\ \A k \in 1 .. Len(q) : ValidateComponentAuctionResult(q[k]) = {}
  /\ \A j, k \in 1 .. Len(q) : j < k => q[j].seller # q[k].seller

LEMMA FoundAreSound ==
  ASSUME Listed, NEW q, Selects(q, SomeResult, LetIn, Unsealed, Len(sealed)),
         \A i, j \in LetIn : i < j => Unsealed[i].seller # Unsealed[j].seller
  PROVE  Sound(q)
<1>1. PICK g \in [1 .. Len(q) -> {i \in LetIn : i <= Len(sealed)}] :
       /\ \A k \in 1 .. Len(q) : q[k] = Unsealed[g[k]]
       /\ \A j, k \in 1 .. Len(q) : j < k => g[j] < g[k]
  BY Zenon DEF Selects
<1>2. q \in Seq(SomeResult) BY DEF Selects
<1>3. ASSUME NEW k \in 1 .. Len(q) PROVE g[k] \in LetIn BY <1>1
<1>4. ASSUME NEW k \in 1 .. Len(q) PROVE ValidateComponentAuctionResult(q[k]) = {}
  <2>1. g[k] \in LetIn /\ q[k] = Unsealed[g[k]] BY <1>1, <1>3
  <2>2. g[k] \in 1 .. Len(sealed) BY <2>1, UnsealedFacts
  <2>3. ValidateComponentAuctionResult(Unsealed[g[k]]) = {} BY <2>1, <2>2, UnsealedFacts
  <2> QED BY <2>1, <2>3, Zenon
<1>5. ASSUME NEW j \in 1 .. Len(q), NEW k \in 1 .. Len(q), j < k PROVE q[j].seller # q[k].seller
  <2>1. g[j] \in LetIn /\ g[k] \in LetIn /\ g[j] < g[k] BY <1>1, <1>3, <1>5
  <2>2. q[j] = Unsealed[g[j]] /\ q[k] = Unsealed[g[k]] BY <1>1
  <2> QED BY <2>1, <2>2, Zenon
<1> QED BY <1>2, <1>4, <1>5, Zenon DEF Sound

LEMMA RestIsSound ==
  ASSUME NEW q, Sound(q)
  PROVE  Sound(CreateTopLevelScoreAdsRawRequest(q))
<1>0. q \in Seq(SomeResult) BY DEF Sound
<1>1. PICK r, T : r = CreateTopLevelScoreAdsRawRequest(q) /\ T = {i \in 1 .. Len(q) : ~q[i].chaff}
  OBVIOUS
<1>2. Selects(r, SomeResult, T, q, Len(q)) BY <1>0, <1>1, ChaffIsDropped, Zenon
<1>3. PICK g \in [1 .. Len(r) -> {i \in T : i <= Len(q)}] :
       /\ \A k \in 1 .. Len(r) : r[k] = q[g[k]]
       /\ \A j, k \in 1 .. Len(r) : j < k => g[j] < g[k]
  BY <1>2, Zenon DEF Selects
<1>4. r \in Seq(SomeResult) BY <1>2 DEF Selects
<1>5. ASSUME NEW k \in 1 .. Len(r) PROVE g[k] \in 1 .. Len(q) BY <1>1, <1>3
<1>6. ASSUME NEW k \in 1 .. Len(r) PROVE ValidateComponentAuctionResult(r[k]) = {}
  BY <1>3, <1>5, Zenon DEF Sound
<1>7. ASSUME NEW j \in 1 .. Len(r), NEW k \in 1 .. Len(r), j < k PROVE r[j].seller # r[k].seller
  <2>1. g[j] \in 1 .. Len(q) /\ g[k] \in 1 .. Len(q) /\ g[j] < g[k] BY <1>3, <1>5, <1>7
  <2>2. q[g[j]].seller # q[g[k]].seller BY <2>1 DEF Sound
  <2> QED BY <1>3, <2>2
<1>8. Sound(r) BY <1>4, <1>6, <1>7, Zenon DEF Sound
<1> QED BY <1>1, <1>8

LEMMA SoundIsThisAuction ==
  ASSUME Sound(scored)
  PROVE  OnlyThisAuctionIsScored
<1>1. scored \in Seq(SomeResult) /\ DOMAIN scored = 1 .. Len(scored) /\ Len(scored) \in Nat
  BY DEF Sound
<1>2. ASSUME NEW i \in DOMAIN scored
      PROVE  scored[i].error # "" \/ scored[i].chaff \/
               (scored[i].generation = top.generation /\ scored[i].topSeller = top.domain
                /\ scored[i].seller # "" /\ "topUrl" \notin scored[i].urls)
  <2>1. PICK r : r = scored[i] OBVIOUS
  <2>2. ValidateComponentAuctionResult(r) = {} BY <1>1, <2>1 DEF Sound
  <2>3. r.error # "" \/ r.chaff \/
          (r.generation = top.generation /\ r.topSeller = top.domain
           /\ r.seller # "" /\ "topUrl" \notin r.urls)
    BY <2>2 DEF ValidateComponentAuctionResult
  <2> QED BY <2>1, <2>3
<1>3. ASSUME NEW i \in DOMAIN scored, NEW j \in DOMAIN scored, i # j
      PROVE  scored[i].seller # scored[j].seller
  <2>1. i < j \/ j < i BY <1>1, <1>3
  <2> QED BY <1>1, <2>1 DEF Sound
<1> QED BY <1>2, <1>3 DEF OnlyThisAuctionIsScored

(* The groups that bid with the sellers that were let in. *)
Bidders == {i \in LetIn : sealed[i].outcome.score # {} /\ sealed[i].outcome.error = {}}
GroupsOf(i) == GetBiddingGroups(sealed[i].outcome.bids, sealed[i].outcome.inputs)
AllGroups == {GroupsOf(i) : i \in Bidders}
AreAllGroups(m) ==
  /\ DOMAIN m = UNION {DOMAIN x : x \in AllGroups}
  /\ \A b \in DOMAIN m : m[b] = UNION {x[b] : x \in {y \in AllGroups : b \in DOMAIN y}}

LEMMA ResultGroups ==
  ASSUME NEW o
  PROVE  ComponentResult(o).groups = IF o.score = {} THEN NoMap ELSE GetBiddingGroups(o.bids, o.inputs)
<1>1. PICK k, g : k = GetKAnonAuctionResultData(o.score, o.ghosts) /\ g = GetBiddingGroups(o.bids, o.inputs)
  OBVIOUS
<1>2. PICK r : r = MapAdScoreToAuctionResult(o.score, o.error, k) OBVIOUS
<1>3. ComponentResult(o) = IF o.score = {} THEN r
                           ELSE [r EXCEPT !.generation = o.generation, !.seller = o.seller,
                                          !.topSeller = o.topSeller, !.groups = g, !.updates = o.updates]
  BY <1>1, <1>2, Zenon DEF ComponentResult, AdScoreToAuctionResult
<1>4. CASE o.score = {}
  <2>1. r.groups = NoMap
    BY <1>2, <1>4 DEF MapAdScoreToAuctionResult, EmptyResult
  <2> QED BY <1>3, <1>4, <2>1
<1>5. CASE o.score # {}
  <2>1. "groups" \in DOMAIN r
    BY <1>2, <1>5 DEF MapAdScoreToAuctionResult, EmptyResult, SetReportingUrls
  <2> QED BY <1>1, <1>3, <1>5, <2>1
<1> QED BY <1>4, <1>5

LEMMA GroupsAreAll ==
  ASSUME Listed, \A i \in DOMAIN sealed : sealed[i] \in Outcomes,
         NEW q, Selects(q, SomeResult, LetIn, Unsealed, Len(sealed)), NEW m,
         m = GetBuyerIgsWithBidsMap([i \in DOMAIN q |-> q[i].groups])
  PROVE  AreAllGroups(m)
<1>1. PICK g \in [1 .. Len(q) -> {i \in LetIn : i <= Len(sealed)}] :
       /\ \A k \in 1 .. Len(q) : q[k] = Unsealed[g[k]]
       /\ \A i \in {j \in LetIn : j <= Len(sealed)} : \E k \in 1 .. Len(q) : g[k] = i
  BY Zenon DEF Selects
<1>2. q \in Seq(SomeResult) /\ DOMAIN q = 1 .. Len(q) BY DEF Selects
<1>3. PICK D, gr : D = 1 .. Len(q) /\ gr = [i \in D |-> q[i].groups] OBVIOUS
<1>4. m = [b \in UNION {DOMAIN gr[i] : i \in D} |->
             UNION {gr[i][b] : i \in {j \in D : b \in DOMAIN gr[j]}}]
  BY <1>2, <1>3 DEF GetBuyerIgsWithBidsMap
<1>5. ASSUME NEW k \in D, NEW b, b \in DOMAIN gr[k]
      PROVE  \E i \in Bidders : gr[k] = GroupsOf(i)
  <2>1. PICK i \in LetIn : i = g[k] BY <1>1, <1>3
  <2>2. i \in 1 .. Len(sealed) /\ Unsealed[i] = ComponentResult(sealed[i].outcome)
    BY <2>1, UnsealedFacts
  <2>3. gr[k] = ComponentResult(sealed[i].outcome).groups BY <1>1, <1>3, <2>1, <2>2
  <2>4. PICK o : o = sealed[i].outcome OBVIOUS
  <2>5. gr[k] = IF o.score = {} THEN NoMap ELSE GetBiddingGroups(o.bids, o.inputs)
    BY <2>3, <2>4, ResultGroups, Zenon
  <2>6. DOMAIN NoMap = {} BY DEF NoMap
  <2>7. o.score # {} /\ gr[k] = GroupsOf(i) BY <1>5, <2>4, <2>5, <2>6 DEF GroupsOf
  <2>8. o.error = {} BY <2>2, <2>4, <2>7, OutcomesAssumption DEF Listed
  <2> QED BY <2>4, <2>7, <2>8 DEF Bidders
<1>6. ASSUME NEW i \in Bidders PROVE \E k \in D : gr[k] = GroupsOf(i)
  <2>1. i \in LetIn /\ sealed[i].outcome.score # {} BY DEF Bidders
  <2>2. i \in 1 .. Len(sealed) /\ Unsealed[i] = ComponentResult(sealed[i].outcome)
    BY <2>1, UnsealedFacts
  <2>3. i \in {j \in LetIn : j <= Len(sealed)} BY <2>1, <2>2 DEF Listed
  <2>4. PICK k \in D : g[k] = i BY <1>1, <1>3, <2>3
  <2>5. gr[k] = ComponentResult(sealed[i].outcome).groups BY <1>1, <1>3, <2>2, <2>4
  <2>6. PICK o : o = sealed[i].outcome OBVIOUS
  <2>7. gr[k] = GetBiddingGroups(o.bids, o.inputs) BY <2>1, <2>5, <2>6, ResultGroups, Zenon
  <2> QED BY <2>6, <2>7 DEF GroupsOf
<1>7. DOMAIN m = UNION {DOMAIN gr[i] : i \in D} BY <1>4
<1>8. DOMAIN m = UNION {DOMAIN x : x \in AllGroups}
  <2>1. ASSUME NEW b \in DOMAIN m PROVE b \in UNION {DOMAIN x : x \in AllGroups}
    <3>1. PICK k \in D : b \in DOMAIN gr[k] BY <1>7
    <3>2. PICK i \in Bidders : gr[k] = GroupsOf(i) BY <1>5, <3>1
    <3> QED BY <3>1, <3>2, Zenon DEF AllGroups
  <2>2. ASSUME NEW b \in UNION {DOMAIN x : x \in AllGroups} PROVE b \in DOMAIN m
    <3>1. PICK i \in Bidders : b \in DOMAIN GroupsOf(i) BY Zenon DEF AllGroups
    <3>2. PICK k \in D : gr[k] = GroupsOf(i) BY <1>6
    <3> QED BY <1>7, <3>1, <3>2, Zenon
  <2> QED BY <2>1, <2>2, Zenon
<1>9. ASSUME NEW b \in DOMAIN m
      PROVE  m[b] = UNION {x[b] : x \in {y \in AllGroups : b \in DOMAIN y}}
  <2>0. m[b] = UNION {gr[i][b] : i \in {j \in D : b \in DOMAIN gr[j]}} BY <1>4, <1>7
  <2>1. ASSUME NEW e \in m[b] PROVE e \in UNION {x[b] : x \in {y \in AllGroups : b \in DOMAIN y}}
    <3>1. PICK k \in D : b \in DOMAIN gr[k] /\ e \in gr[k][b] BY <2>0, Zenon
    <3>2. PICK i \in Bidders : gr[k] = GroupsOf(i) BY <1>5, <3>1
    <3>3. gr[k] \in AllGroups BY <3>2, Zenon DEF AllGroups
    <3> QED BY <3>1, <3>3, Zenon
  <2>2. ASSUME NEW e \in UNION {x[b] : x \in {y \in AllGroups : b \in DOMAIN y}} PROVE e \in m[b]
    <3>1. PICK y \in AllGroups : b \in DOMAIN y /\ e \in y[b] BY Zenon
    <3>2. PICK i \in Bidders : y = GroupsOf(i) BY Zenon DEF AllGroups
    <3>3. PICK k \in D : gr[k] = GroupsOf(i) BY <1>6
    <3> QED BY <2>0, <3>1, <3>2, <3>3, Zenon
  <2> QED BY <2>1, <2>2, Zenon
<1> QED BY <1>8, <1>9, Zenon DEF AreAllGroups

LEMMA KeptUpdatesAreTheFirst ==
  ASSUME Listed, NEW q, Selects(q, SomeResult, LetIn, Unsealed, Len(sealed)),
         NEW u, u = KeepUpdates(q), NEW o \in DOMAIN u, NEW i \in LetIn, o \in DOMAIN Unsealed[i].updates,
         \A j \in 1 .. (i - 1) : j \in LetIn => o \notin DOMAIN Unsealed[j].updates
  PROVE  u[o] = Unsealed[i].updates[o]
<1>1. PICK g \in [1 .. Len(q) -> {j \in LetIn : j <= Len(sealed)}] :
       /\ \A k \in 1 .. Len(q) : q[k] = Unsealed[g[k]]
       /\ \A j, k \in 1 .. Len(q) : j < k => g[j] < g[k]
       /\ \A l \in {j \in LetIn : j <= Len(sealed)} : \E k \in 1 .. Len(q) : g[k] = l
  BY Zenon DEF Selects
<1>2. q \in Seq(SomeResult) /\ DOMAIN q = 1 .. Len(q) BY DEF Selects
<1>3. \A j \in LetIn : j \in 1 .. Len(sealed) BY UnsealedFacts
<1>4. i \in {j \in LetIn : j <= Len(sealed)} BY <1>3 DEF Listed
<1>5. PICK k \in 1 .. Len(q) : g[k] = i BY <1>1, <1>4
<1>6. o \in DOMAIN q[k].updates BY <1>1, <1>5
<1>7. ASSUME NEW j \in 1 .. k - 1 PROVE o \notin DOMAIN q[j].updates
  <2>1. j \in 1 .. Len(q) /\ j < k BY <1>2, <1>5
  <2>2. g[j] \in LetIn /\ g[j] < i /\ q[j] = Unsealed[g[j]] BY <1>1, <1>5, <2>1
  <2>3. g[j] \in 1 .. (i - 1) BY <1>3, <2>2
  <2> QED BY <2>2, <2>3
<1>8. ASSUME NEW l \in DOMAIN q, o \in DOMAIN q[l].updates,
             \A j \in 1 .. l - 1 : o \notin DOMAIN q[j].updates
      PROVE  l = k
  <2>1. ~(l < k) BY <1>2, <1>5, <1>7, <1>8
  <2>2. ~(k < l) BY <1>2, <1>5, <1>6, <1>8
  <2> QED BY <1>2, <1>5, <2>1, <2>2
<1>9. FirstWith(o, q) = k
  <2>1. k \in DOMAIN q /\ o \in DOMAIN q[k].updates /\ \A j \in 1 .. k - 1 : o \notin DOMAIN q[j].updates
    BY <1>2, <1>5, <1>6, <1>7
  <2> QED BY <1>8, <2>1 DEF FirstWith
<1>10. u[o] = q[FirstWith(o, q)].updates[o] BY DEF KeepUpdates
<1> QED BY <1>1, <1>5, <1>9, <1>10

(* The reactor's results, groups and updates are right from the moment they  *)
(* are there, and it has answered when it is finished and not before.        *)
TopInv ==
  /\ Listed /\ \A i \in DOMAIN sealed : sealed[i] \in Outcomes
  /\ topStep \in {"start", "scoring", "called", "finished", "done", "crashed"}
  /\ Sound(scored) /\ UpdatesFromTheFirst
  /\ topStep \in {"scoring", "called"} => AreAllGroups(GetBuyerIgsWithBidsMap(topGroups))
  /\ topStep \notin {"finished", "done"} => finishes = <<>>
  /\ topStep \in {"finished", "done"} => \E a : finishes = <<a>> /\
       (top.client = "browser" /\ a.kind = "winner" => AreAllGroups(a.groups))
  /\ topStep = "crashed" => ~top.decrypts

(* The request does not change. *)
LEMMA RequestStays ==
  ASSUME UNCHANGED <<top, sealed>>
  PROVE  /\ \A q : Sound(q)' <=> Sound(q)
         /\ \A m : AreAllGroups(m)' <=> AreAllGroups(m)
         /\ Listed' <=> Listed
         /\ (\A i \in DOMAIN sealed : sealed[i] \in Outcomes)' <=> \A i \in DOMAIN sealed : sealed[i] \in Outcomes
<1>1. \A r : ValidateComponentAuctionResult(r)' = ValidateComponentAuctionResult(r)
  BY DEF ValidateComponentAuctionResult
<1>2. Unsealed' = Unsealed /\ Accepted' = Accepted BY DEF Unsealed, Accepted
<1>3. LetIn' = LetIn BY <1>1, <1>2 DEF LetIn
<1>4. SomeResult' = SomeResult BY <1>2 DEF SomeResult
<1>5. Bidders' = Bidders BY <1>3 DEF Bidders
<1>6. AllGroups' = AllGroups BY <1>5 DEF AllGroups, GroupsOf
<1>7. \A q : Sound(q)' <=> Sound(q) BY <1>1, <1>4 DEF Sound
<1>8. \A m : AreAllGroups(m)' <=> AreAllGroups(m) BY <1>6, Zenon DEF AreAllGroups
<1> QED BY <1>7, <1>8 DEF Listed

LEMMA UpdatesStay ==
  ASSUME UNCHANGED <<top, sealed, topUpdates>>, UpdatesFromTheFirst
  PROVE  UpdatesFromTheFirst'
<1>1. \A r : ValidateComponentAuctionResult(r)' = ValidateComponentAuctionResult(r)
  BY DEF ValidateComponentAuctionResult
<1>2. Accepted' = Accepted BY DEF Accepted
<1> QED BY <1>1, <1>2 DEF UpdatesFromTheFirst

(* An answer: a status, or what was packed. *)
LEMMA Answered ==
  ASSUME finishes = <<>>, NEW c,
         FinishWithResponse(c), \A a \in c : top.client = "browser" /\ a.kind = "winner" => AreAllGroups(a.groups)
  PROVE  /\ topStep' = "finished"
         /\ \E a : finishes' = <<a>> /\ (top.client = "browser" /\ a.kind = "winner" => AreAllGroups(a.groups))
<1>1. CASE c = {}
  <2>1. PICK a : /\ finishes' = Append(<<>>, a) /\ topStep' = "finished"
                 /\ a = [Answer("status", "", 0, NoMap, NoMap, {}) EXCEPT !.seller = "INTERNAL"]
    BY <1>1 DEF FinishWithResponse, FinishWithStatus
  <2>2. a.kind = "status" BY <2>1 DEF Answer
  <2>3. finishes' = <<a>> BY <2>1, Appended
  <2> QED BY <2>1, <2>2, <2>3
<1>2. CASE c # {}
  <2>1. PICK a \in c : finishes' = Append(<<>>, a) /\ topStep' = "finished"
    BY <1>2 DEF FinishWithResponse
  <2>2. finishes' = <<a>> BY <2>1, Appended
  <2> QED BY <2>1, <2>2
<1> QED BY <1>1, <1>2

LEMMA StatusAnswered ==
  ASSUME finishes = <<>>, NEW code, FinishWithStatus(code)
  PROVE  /\ topStep' = "finished"
         /\ \E a : finishes' = <<a>> /\ (top.client = "browser" /\ a.kind = "winner" => AreAllGroups(a.groups))
<1>1. PICK a : /\ finishes' = Append(<<>>, a) /\ topStep' = "finished"
               /\ a = [Answer("status", "", 0, NoMap, NoMap, {}) EXCEPT !.seller = code]
  BY DEF FinishWithStatus
<1>2. a.kind = "status" BY <1>1 DEF Answer
<1>3. finishes' = <<a>> BY <1>1, Appended
<1> QED BY <1>1, <1>2, <1>3

(* Only a winner's answer has groups. *)
LEMMA Packed ==
  ASSUME NEW kd, NEW sl, NEW bd, NEW gr, NEW up, NEW kanon, NEW packs \in BOOLEAN,
         kd = "winner" => AreAllGroups(gr), NEW a \in Package(Answer(kd, sl, bd, gr, up, kanon), packs),
         top.client = "browser", a.kind = "winner"
  PROVE  AreAllGroups(a.groups)
<1>1. a = Answer(kd, sl, bd, gr, up, kanon)
  BY Zenon DEF Package, PackageAuctionResultForWeb, PackageAuctionResultCiphertext
<1>2. a.kind = kd /\ a.groups = gr BY <1>1 DEF Answer
<1> QED BY <1>2, Zenon

LEMMA TopInitInv == TopInit => TopInv
<1> SUFFICES ASSUME TopInit PROVE TopInv
  OBVIOUS
<1>1. PICK n \in 0 .. MaxResults : sealed \in [1 .. n -> Outcomes] BY Zenon DEF TopInit
<1>2. Listed
  BY <1>1 DEF Listed
<1>3. \A i \in DOMAIN sealed : sealed[i] \in Outcomes BY <1>1
<1>4. scored = <<>> /\ topStep = "start" /\ topUpdates = <<>> /\ finishes = <<>> BY DEF TopInit, NoMap
<1>5. Sound(scored) BY <1>4 DEF Sound
<1>6. DOMAIN topUpdates = {} BY <1>4
<1>7. UpdatesFromTheFirst BY <1>6 DEF UpdatesFromTheFirst
<1> QED BY <1>2, <1>3, <1>4, <1>5, <1>7 DEF TopInv

LEMMA TopExecuteKeeps == ASSUME TopInv, Execute PROVE TopInv'
<1> DEFINE Right(a) == top.client = "browser" /\ a.kind = "winner" => AreAllGroups(a.groups)
<1>1. topStep = "start" /\ UNCHANGED <<top, sealed>> /\ finishes = <<>> /\ Sound(scored)
      /\ UpdatesFromTheFirst /\ Listed /\ \A i \in DOMAIN sealed : sealed[i] \in Outcomes
  BY DEF Execute, TopInv
<1>2. /\ \A q : Sound(q)' <=> Sound(q)
      /\ \A m : AreAllGroups(m)' <=> AreAllGroups(m)
      /\ Listed' /\ (\A i \in DOMAIN sealed : sealed[i] \in Outcomes)'
  BY <1>1, RequestStays
<1>3. ASSUME UNCHANGED <<topGroups, topUpdates, scored>>, topStep' = "finished",
             \E a : finishes' = <<a>> /\ Right(a)
      PROVE  TopInv'
  <2>1. UpdatesFromTheFirst' BY <1>1, <1>3, UpdatesStay
  <2>2. \E a : finishes' = <<a>> /\ (top'.client = "browser" /\ a.kind = "winner" => AreAllGroups(a.groups)')
    BY <1>1, <1>2, <1>3
  <2>3. Sound(scored)' BY <1>1, <1>2, <1>3, RequestStays DEF Sound
  <2> QED BY <1>2, <1>3, <2>1, <2>2, <2>3 DEF TopInv
<1>4. CASE FinishWithServerVisibleErrors /\ UNCHANGED <<topGroups, topUpdates, scored>>
  <2>1. topStep' = "finished" /\ \E a : finishes' = <<a>> /\ Right(a)
    BY <1>1, <1>4, StatusAnswered DEF FinishWithServerVisibleErrors
  <2> HIDE DEF Right
  <2> QED BY <1>3, <1>4, <2>1
<1>5. CASE FinishWithClientVisibleErrors /\ UNCHANGED <<topGroups, topUpdates, scored>>
  <2>1. CASE top.decrypts
    <3>1. PICK packs \in BOOLEAN : FinishWithResponse(CreateErrorAuctionResultCiphertext(packs))
      BY <1>5, <2>1 DEF FinishWithClientVisibleErrors
    <3>2. PICK c : c = CreateErrorAuctionResultCiphertext(packs) OBVIOUS
    <3>3. \A a \in c : Right(a) BY <3>2, Packed DEF CreateErrorAuctionResultCiphertext
    <3>4. topStep' = "finished" /\ \E a : finishes' = <<a>> /\ Right(a)
      BY <1>1, <3>1, <3>2, <3>3, Answered
    <3> HIDE DEF Right
    <3> QED BY <1>3, <1>5, <3>4
  <2>2. CASE ~top.decrypts
    <3>1. topStep' = "crashed" /\ UNCHANGED finishes BY <1>5, <2>2 DEF FinishWithClientVisibleErrors
    <3>2. UpdatesFromTheFirst' BY <1>1, <1>5, UpdatesStay
    <3>3. Sound(scored)' BY <1>1, <1>2, <1>5, RequestStays DEF Sound
    <3> QED BY <1>1, <1>2, <2>2, <3>1, <3>2, <3>3 DEF TopInv
  <2> QED BY <2>1, <2>2
<1>6. ASSUME NEW found, found = DecryptAndValidateComponentAuctionResults, found.results # <<>>,
             topGroups' = [i \in DOMAIN found.results |-> found.results[i].groups],
             topUpdates' = KeepUpdates(found.results), scored' = found.results,
             topStep' = "scoring", UNCHANGED finishes
      PROVE  TopInv'
  <2>1. Gathered(found, Len(sealed)) BY <1>1, <1>6, FoundResults
  <2>2. PICK q : q = found.results OBVIOUS
  <2>3. /\ Selects(q, SomeResult, LetIn, Unsealed, Len(sealed))
        /\ \A i, j \in LetIn : i < j => Unsealed[i].seller # Unsealed[j].seller
    <3>1. ~found.stop BY <1>6, <2>1 DEF Gathered
    <3>2. \A i \in LetIn : i <= Len(sealed) BY <1>1, UnsealedFacts DEF Listed
    <3>3. Selects(found.results, SomeResult, LetIn, Unsealed, Len(sealed)) BY <2>1, <3>1 DEF Gathered
    <3> QED BY <2>1, <2>2, <3>1, <3>2, <3>3 DEF Gathered
  <2>4. Sound(q) BY <1>1, <2>3, FoundAreSound
  <2>5. Sound(scored)'
    <3>1. Sound(q)' BY <1>2, <2>4
    <3> QED BY <1>6, <2>2, <3>1 DEF Sound
  <2>6. PICK m : m = GetBuyerIgsWithBidsMap([i \in DOMAIN q |-> q[i].groups]) OBVIOUS
  <2>7. AreAllGroups(m) BY <1>1, <2>3, <2>6, GroupsAreAll
  <2>8. AreAllGroups(GetBuyerIgsWithBidsMap(topGroups))'
    <3>1. AreAllGroups(m)' BY <1>2, <2>7
    <3>2. GetBuyerIgsWithBidsMap(topGroups)' = m BY <1>6, <2>2, <2>6 DEF GetBuyerIgsWithBidsMap
    <3> QED BY <3>1, <3>2, Zenon DEF AreAllGroups
  <2>9. UpdatesFromTheFirst'
    <3>1. \A r : ValidateComponentAuctionResult(r)' = ValidateComponentAuctionResult(r)
      BY <1>1 DEF ValidateComponentAuctionResult
    <3>2. Accepted' = Accepted BY <1>1 DEF Accepted
    <3>3. PICK u : u = topUpdates' OBVIOUS
    <3>4. ASSUME NEW o \in DOMAIN u, NEW i \in DOMAIN sealed, i \in LetIn,
                 o \in DOMAIN ComponentResult(sealed[i].outcome).updates,
                 \A j \in 1 .. (i - 1) : j \in LetIn => o \notin DOMAIN ComponentResult(sealed[j].outcome).updates
          PROVE  u[o] = ComponentResult(sealed[i].outcome).updates[o]
      <4>1. \A j \in LetIn : Unsealed[j] = ComponentResult(sealed[j].outcome) BY <1>1, UnsealedFacts
      <4>2. o \in DOMAIN Unsealed[i].updates BY <3>4, <4>1
      <4>3. \A j \in 1 .. (i - 1) : j \in LetIn => o \notin DOMAIN Unsealed[j].updates
        BY <3>4, <4>1
      <4>4. u[o] = Unsealed[i].updates[o]
        BY <1>1, <1>6, <2>2, <2>3, <3>3, <3>4, <4>2, <4>3, KeptUpdatesAreTheFirst
      <4> QED BY <3>4, <4>1, <4>4
    <3>5. \A j : j \in LetIn <=> j \in Accepted /\
              ValidateComponentAuctionResult(ComponentResult(sealed[j].outcome)) = {}
      BY DEF LetIn
    <3>6. ASSUME NEW o \in DOMAIN u, NEW i \in DOMAIN sealed,
             LET r == ComponentResult(sealed[i].outcome)
                 good(j) == j \in Accepted /\ ValidateComponentAuctionResult(
                     ComponentResult(sealed[j].outcome)) = {}
             IN good(i) /\ o \in DOMAIN r.updates
               /\ (\A j \in 1..(i - 1) : good(j) => o \notin DOMAIN ComponentResult(sealed[j].outcome).updates)
          PROVE  u[o] = ComponentResult(sealed[i].outcome).updates[o]
      BY <3>4, <3>5, <3>6
    <3> QED BY <1>1, <3>1, <3>2, <3>3, <3>6 DEF UpdatesFromTheFirst
  <2> QED BY <1>1, <1>2, <1>6, <2>5, <2>8, <2>9 DEF TopInv
<1> HIDE DEF Right
<1> QED BY <1>4, <1>5, <1>6 DEF Execute

LEMMA TopNextInv == TopInv /\ (TopNext \/ UNCHANGED topVars) => TopInv'
<1> SUFFICES ASSUME TopInv, TopNext \/ UNCHANGED topVars PROVE TopInv'
  OBVIOUS
<1> DEFINE Right(a) == top.client = "browser" /\ a.kind = "winner" => AreAllGroups(a.groups)
<1>1. ASSUME UNCHANGED <<top, sealed, topGroups, topUpdates>>, Sound(scored'),
             topStep' \in {"start", "scoring", "called", "finished", "done", "crashed"},
             topStep' \in {"scoring", "called"} => topStep \in {"scoring", "called"},
             topStep' = "crashed" => topStep = "crashed",
             topStep' \notin {"finished", "done"} => finishes' = <<>>,
             topStep' \in {"finished", "done"} => \E a : finishes' = <<a>> /\ Right(a)
      PROVE  TopInv'
  <2>1. /\ \A q : Sound(q)' <=> Sound(q)
        /\ \A m : AreAllGroups(m)' <=> AreAllGroups(m)
        /\ Listed' /\ (\A i \in DOMAIN sealed : sealed[i] \in Outcomes)'
    BY <1>1, RequestStays DEF TopInv
  <2>2. UpdatesFromTheFirst' BY <1>1, UpdatesStay DEF TopInv
  <2>3. Sound(scored)'
    <3>1. PICK q : q = scored' OBVIOUS
    <3>2. Sound(q)' BY <1>1, <2>1, <3>1, Zenon
    <3> QED BY <3>1, <3>2 DEF Sound
  <2>4. topStep' \in {"scoring", "called"} => AreAllGroups(GetBuyerIgsWithBidsMap(topGroups))'
    <3>1. PICK m : m = GetBuyerIgsWithBidsMap(topGroups) OBVIOUS
    <3>2. GetBuyerIgsWithBidsMap(topGroups)' = m BY <1>1, <3>1 DEF GetBuyerIgsWithBidsMap
    <3>3. topStep' \in {"scoring", "called"} => AreAllGroups(m)' BY <1>1, <2>1, <3>1 DEF TopInv
    <3>4. AreAllGroups(m)' => AreAllGroups(GetBuyerIgsWithBidsMap(topGroups))'
      BY <3>2, Zenon DEF AreAllGroups
    <3> QED BY <3>3, <3>4
  <2>5. topStep' \in {"finished", "done"} => \E a : finishes' = <<a>> /\
          (top'.client = "browser" /\ a.kind = "winner" => AreAllGroups(a.groups)')
    BY <1>1, <2>1
  <2> QED BY <1>1, <2>1, <2>2, <2>3, <2>4, <2>5 DEF TopInv
<1> HIDE DEF Right
<1>2. CASE UNCHANGED topVars
  <2>1. UNCHANGED <<top, sealed, topStep, topGroups, topUpdates, scored, finishes>> BY <1>2 DEF topVars
  <2>2. Sound(scored') BY <2>1 DEF TopInv
  <2> QED BY <1>1, <2>1, <2>2 DEF TopInv, Right
<1>3. CASE ScoreAds
  <2>1. UNCHANGED <<top, sealed, topGroups, topUpdates>> /\ topStep = "scoring" /\ finishes = <<>>
        /\ Sound(scored)
    BY <1>3 DEF ScoreAds, TopInv
  <2>2. Sound(scored') BY <1>3, <2>1, RestIsSound, Zenon DEF ScoreAds
  <2>3. \/ topStep' = "called" /\ finishes' = <<>>
        \/ topStep' = "finished" /\ \E a : finishes' = <<a>> /\ Right(a)
    <3>1. ASSUME NEW code, FinishWithStatus(code)
          PROVE  topStep' = "finished" /\ \E a : finishes' = <<a>> /\ Right(a)
      BY <2>1, <3>1, StatusAnswered DEF Right
    <3> QED BY <1>3, <2>1, <3>1 DEF ScoreAds
  <2> QED BY <1>1, <2>1, <2>2, <2>3
<1>4. CASE OnScoreAdsDone
  <2>1. /\ UNCHANGED <<top, sealed, topGroups, topUpdates, scored>> /\ topStep = "called"
        /\ finishes = <<>> /\ Sound(scored') /\ AreAllGroups(GetBuyerIgsWithBidsMap(topGroups))
    BY <1>4 DEF OnScoreAdsDone, TopInv
  <2>2. ASSUME NEW code, FinishWithStatus(code)
        PROVE  topStep' = "finished" /\ \E a : finishes' = <<a>> /\ Right(a)
    BY <2>1, <2>2, StatusAnswered DEF Right
  <2>3. ASSUME NEW w, NEW gs, HandleScores(w, gs)
        PROVE  topStep' = "finished" /\ \E a : finishes' = <<a>> /\ Right(a)
    <3>1. PICK c : FinishWithResponse(c) /\ \E packs \in BOOLEAN :
               \/ \E sc, kanon : c = CreateNonChaffAuctionResultCiphertext(sc, kanon, packs)
               \/ c = CreateChaffAuctionResultCiphertext(packs)
      BY <2>3, Zenon DEF HandleScores
    <3>2. ASSUME NEW a \in c PROVE Right(a)
      <4>1. PICK packs \in BOOLEAN :
               \/ \E sc, kanon : c = CreateNonChaffAuctionResultCiphertext(sc, kanon, packs)
               \/ c = CreateChaffAuctionResultCiphertext(packs)
        BY <3>1
      <4>2. ASSUME NEW sc, NEW kanon, c = CreateNonChaffAuctionResultCiphertext(sc, kanon, packs)
            PROVE  Right(a)
        BY <2>1, <3>2, <4>2, Packed DEF CreateNonChaffAuctionResultCiphertext, Right
      <4>3. CASE c = CreateChaffAuctionResultCiphertext(packs)
        BY <3>2, <4>3, Packed DEF CreateChaffAuctionResultCiphertext, Right
      <4> QED BY <4>1, <4>2, <4>3
    <3> QED BY <2>1, <3>1, <3>2, Answered DEF Right
  <2>4. topStep' = "finished" /\ \E a : finishes' = <<a>> /\ Right(a)
    BY <1>4, <2>2, <2>3 DEF OnScoreAdsDone
  <2> QED BY <1>1, <2>1, <2>4
<1>5. CASE OnCancel
  <2>1. UNCHANGED <<top, sealed, topStep, topGroups, topUpdates, scored, finishes>> BY <1>5 DEF OnCancel
  <2>2. Sound(scored') BY <2>1 DEF TopInv
  <2> QED BY <1>1, <2>1, <2>2 DEF TopInv, Right
<1>6. CASE OnDone
  <2>1. /\ UNCHANGED <<top, sealed, topGroups, topUpdates, scored, finishes>>
        /\ topStep = "finished" /\ topStep' = "done"
    BY <1>6 DEF OnDone
  <2>2. Sound(scored') BY <2>1 DEF TopInv
  <2> QED BY <1>1, <2>1, <2>2 DEF TopInv, Right
<1> QED BY <1>2, <1>3, <1>4, <1>5, <1>6, TopExecuteKeeps DEF TopNext

LEMMA TopSound ==
  ASSUME TopInv
  PROVE  /\ OnlyThisAuctionIsScored /\ AllBiddingGroupsReturned
         /\ UpdatesFromTheFirst /\ TopFinishesOnce
<1>1. OnlyThisAuctionIsScored BY SoundIsThisAuction DEF TopInv
<1>2. finishes = <<>> \/ (topStep \in {"finished", "done"} /\ \E a : finishes = <<a>> /\
        (top.client = "browser" /\ a.kind = "winner" => AreAllGroups(a.groups)))
  BY DEF TopInv
<1>3. AllBiddingGroupsReturned
  <2> SUFFICES ASSUME top.client = "browser", NEW f \in DOMAIN finishes, finishes[f].kind = "winner"
               PROVE  LET all == {GetBiddingGroups(sealed[i].outcome.bids, sealed[i].outcome.inputs) :
                            i \in {j \in Accepted : sealed[j].outcome.score # {} /\
                              ValidateComponentAuctionResult(ComponentResult(sealed[j].outcome)) = {}
                              /\ sealed[j].outcome.error = {}}}
                          seen == finishes[f].groups
                      IN /\ DOMAIN seen = UNION {DOMAIN m : m \in all}
                         /\ \A b \in DOMAIN seen : seen[b] = UNION {m[b] : m \in {x \in all : b \in DOMAIN x}}
    BY DEF AllBiddingGroupsReturned
  <2>1. AreAllGroups(finishes[f].groups)
    <3>1. CASE finishes = <<>> BY <3>1
    <3>2. ASSUME NEW a, finishes = <<a>>,
                 top.client = "browser" /\ a.kind = "winner" => AreAllGroups(a.groups)
          PROVE  AreAllGroups(finishes[f].groups)
      <4>1. f = 1 /\ finishes[f] = a BY <3>2
      <4> QED BY <3>2, <4>1
    <3> QED BY <1>2, <3>1, <3>2
  <2>2. {j \in Accepted : sealed[j].outcome.score # {} /\
                  ValidateComponentAuctionResult(ComponentResult(sealed[j].outcome)) = {}
                  /\ sealed[j].outcome.error = {}} = Bidders
    BY Zenon DEF Bidders, LetIn
  <2> QED BY <2>1, <2>2, Zenon DEF AreAllGroups, AllGroups, GroupsOf
<1>4. TopFinishesOnce
  <2>1. finishes = <<>> => Len(finishes) = 0 OBVIOUS
  <2>2. \A a : finishes = <<a>> => Len(finishes) = 1 OBVIOUS
  <2>3. topStep \in {"finished", "done"} => Len(finishes) = 1 BY <2>2 DEF TopInv
  <2>4. Len(finishes) = 0 \/ Len(finishes) = 1 BY <1>2, <2>1, <2>2
  <2>5. topStep = "crashed" => ~top.decrypts BY DEF TopInv
  <2>6. PICK n : n = Len(finishes) OBVIOUS
  <2>7. n <= 1 BY <2>4, <2>6
  <2> QED BY <2>3, <2>5, <2>6, <2>7, Zenon DEF TopFinishesOnce
<1> QED BY <1>1, <1>3, <1>4 DEF TopInv
-----------------------------------------------------------------------------
(* Remote calls, for any of the clients, any fault it can meet, any bids and *)
(* any number of calls of a client that counts them.                         *)

CallAt(i) == Dial.clients[i]
FaultAt(i) == Dial.faults[i]

(* What a buyer with any framing answers to what any seller sends. *)
BuyerMessage == IF Dial.chaff.request THEN "noBids" ELSE BidsMessage
BuyerReply(f, r) ==
  /\ r.status = "OK" =>
       /\ RequestDecrypts(f) /\ f # "replyNotEncrypted"
       /\ IF Dial.chaff.seller
          THEN r.bytes.body = Gzip(Proto(BuyerMessage)) ELSE r.bytes = Gzip(Proto(BuyerMessage))
  /\ f = "none" => r.status = (IF Dial.chaff.seller /\ ~Dial.chaff.buyer THEN "INVALID_ARGUMENT" ELSE "OK")

QueryReply(f, r) ==
  r.status = "OK" =>
    /\ RequestDecrypts(f) /\ f # "replyNotEncrypted" /\ r.bytes = Proto("answers")
    /\ f # "badMessage" => r.hashes = [k \in 1 .. Len(Dial.bids) + Len(Dial.apps) |-> FALSE]

GoodReply(i, r) ==
  /\ CallAt(i) = "buyer" => BuyerReply(FaultAt(i), r)
  /\ CallAt(i) = "kAnonQuery" => QueryReply(FaultAt(i), r)
  /\ CallAt(i) \in {"bidding", "scoring", "keyValue"} =>
       r.bytes = IF FaultAt(i) = "badReply" THEN NotAMessage ELSE Proto("answer")

GoodHeard(i, h) ==
  /\ CallAt(i) = "buyerJoin" => h = <<>>
  /\ CallAt(i) # "buyerJoin" => \E a : h = <<a>> /\
       (a.status = "OK" => /\ FaultAt(i) \in {"none", "badMessage"} /\ CallAt(i) # "kAnonJoin"
                           /\ a.msg # {})
  /\ CallAt(i) = "buyer" /\ FaultAt(i) = "none" =>
       h = IF Dial.chaff.seller /\ ~Dial.chaff.buyer THEN <<Error("INVALID_ARGUMENT")>>
           ELSE <<Ok(BuyerMessage)>>

LEMMA TheOne == ASSUME NEW x PROVE The({x}) = x
BY DEF The

LEMMA DialIsCall ==
  ASSUME callCase \in DOMAIN CallCases
  PROVE  /\ Calls = 1 .. Len(Dial.clients) /\ Len(Dial.clients) \in Nat /\ 1 \in Calls
         /\ \A i \in Calls : CallAt(i) \in Clients /\ FaultAt(i) \in FaultsOf(CallAt(i))
         /\ \/ Calls = {1} /\ CallAt(1) # "buyerJoin"
            \/ Calls = {1, 2} /\ CallAt(1) = "buyerJoin" /\ CallAt(2) = "kAnonJoin"
            \/ \A i \in Calls : Counted(i)
         /\ Dial.chaff \in [seller : BOOLEAN, buyer : BOOLEAN, generator : BOOLEAN, request : BOOLEAN]
         /\ Dial.chaff.request => Dial.chaff.seller
         /\ Dial.bids \in Seq(DOMAIN UrlHash) /\ Dial.apps \in Seq(DOMAIN UrlHash)
<1>1. /\ Dial.clients \in Seq(Clients) /\ Dial.clients # <<>>
      /\ \A i \in DOMAIN Dial.clients : Dial.faults[i] \in FaultsOf(Dial.clients[i])
      /\ \/ Len(Dial.clients) = 1 /\ Dial.clients[1] # "buyerJoin"
         \/ Dial.clients = <<"buyerJoin", "kAnonJoin">>
         \/ \A i \in DOMAIN Dial.clients : Dial.clients[i] \in {"kAnon", "seller"}
      /\ Dial.chaff \in [seller : BOOLEAN, buyer : BOOLEAN, generator : BOOLEAN, request : BOOLEAN]
      /\ Dial.chaff.request => Dial.chaff.seller
      /\ Dial.bids \in Seq(DOMAIN UrlHash) /\ Dial.apps \in Seq(DOMAIN UrlHash)
  BY CallCasesAreCalls, Zenon DEF Dial
<1>2. /\ Calls = 1 .. Len(Dial.clients) /\ Len(Dial.clients) \in Nat /\ 1 \in Calls
      /\ \A i \in Calls : Dial.clients[i] \in Clients
  BY <1>1 DEF Calls
<1>3. \A i \in Calls : CallAt(i) \in Clients /\ FaultAt(i) \in FaultsOf(CallAt(i))
  BY <1>1, <1>2 DEF CallAt, FaultAt, Calls
<1>4. \/ Calls = {1} /\ CallAt(1) # "buyerJoin"
      \/ Calls = {1, 2} /\ CallAt(1) = "buyerJoin" /\ CallAt(2) = "kAnonJoin"
      \/ \A i \in Calls : Counted(i)
  <2>1. CASE Len(Dial.clients) = 1 /\ Dial.clients[1] # "buyerJoin" BY <1>2, <2>1 DEF CallAt
  <2>2. CASE Dial.clients = <<"buyerJoin", "kAnonJoin">> BY <1>2, <2>2 DEF CallAt
  <2>3. CASE \A i \in DOMAIN Dial.clients : Dial.clients[i] \in {"kAnon", "seller"}
    BY <2>3 DEF Calls, Counted
  <2> QED BY <1>1, <2>1, <2>2, <2>3
<1> QED BY <1>1, <1>2, <1>3, <1>4

(* A call that is neither lost nor hindered met no fault that its client can *)
(* meet, but perhaps a message of which the server read a part.              *)
LEMMA NoFaultLeft ==
  ASSUME callCase \in DOMAIN CallCases, NEW i \in Calls
  PROVE  /\ CallAt(i) \in {"bidding", "scoring"} =>
              FaultAt(i) \in {"none", "lost", "badReply"} \cup SendFaults \cup AnswerFaults
         /\ CallAt(i) = "keyValue" =>
              FaultAt(i) \in {"none", "lost", "noPublicKey", "badKeyText", "notPadded",
                              "encryptFailed", "badFrame", "badReply"} \cup AnswerFaults
         /\ CallAt(i) = "buyer" =>
              FaultAt(i) \in {"none", "lost"} \cup SendFaults \cup ServeFaults \cup AnswerFaults
         /\ CallAt(i) = "kAnonQuery" =>
              FaultAt(i) \in {"none", "lost", "badMessage"} \cup SendFaults \cup ServeFaults \cup AnswerFaults
         /\ CallAt(i) \in {"kAnonJoin", "buyerJoin"} =>
              FaultAt(i) \in {"none", "lost", "badMessage"} \cup SendFaults \cup ServeFaults
         /\ Counted(i) => FaultAt(i) \in {"none", "lost"}
<1>1. FaultAt(i) \in FaultsOf(CallAt(i)) BY DialIsCall
<1> QED BY <1>1 DEF FaultsOf, Counted, CallAt

(* The seller's request as the buyer reads it. *)
LEMMA BuyerReads ==
  ASSUME callCase \in DOMAIN CallCases, CallAt(1) = "buyer"
  PROVE  LET r == ParseRawRequestBytestring(Plaintext(1), CompressionHeader(Dial.chaff), Dial.chaff.buyer)
             m == IF Dial.chaff.request THEN "chaff" ELSE "request"
         IN r = IF Dial.chaff.seller
                THEN IF Dial.chaff.buyer THEN {[new |-> TRUE, compression |-> "gzip", msg |-> m]} ELSE {}
                ELSE {[new |-> FALSE, compression |-> "gzip", msg |-> m]}
<1> DEFINE c == Dial.chaff
           m == IF c.request THEN "chaff" ELSE "request"
           b == Plaintext(1)
<1>1. b = BuyerPayload(c) BY DEF Plaintext, CallAt
<1>2. \A x : ParseFromString(Proto(x), 0) = {x} BY DEF ParseFromString, Proto
<1>3. \A x : GzipDecompress(Gzip(x)) = {x} BY DEF GzipDecompress, Gzip
<1>4. CASE ~c.seller
  <2>1. b = Gzip(Proto(m)) /\ CompressionHeader(c) = "gzip"
    BY <1>1, <1>4 DEF BuyerPayload, Compress, RequestCompression, CompressionHeader
  <2>2. Decompress(b, "gzip") = {Proto(m)} BY <1>3, <2>1 DEF Decompress
  <2>3. UNION {ParseFromString(d, 0) : d \in {Proto(m)}} = {m} BY <1>2
  <2> HIDE DEF b, m
  <2>4. ParseRawRequestBytestring(b, "gzip", c.buyer) = {[new |-> FALSE, compression |-> "gzip", msg |-> m]}
    BY <2>2, <2>3 DEF ParseRawRequestBytestring
  <2> QED BY <1>4, <2>1, <2>4 DEF b, m
<1>5. CASE c.seller
  <2>1. CompressionHeader(c) = "none" BY <1>5 DEF CompressionHeader
  <2> DEFINE body == Gzip(Proto(m))
             s == ChaffRequestSize(c)
             room == IF ZipSize > s THEN ZipSize ELSE s
  <2>2. SizeOf(body) = ZipSize /\ ZipSize \in Nat /\ s \in Nat
    BY CallCasesAreCalls DEF SizeOf, Gzip, ChaffRequestSize
  <2>3. b = [kind |-> "frame", version |-> 0, compression |-> "gzip", length |-> ZipSize,
             body |-> body, padding |-> room - ZipSize]
    BY <1>1, <1>5, <2>2 DEF BuyerPayload, RequestCompression, EncodeAndCompressGetBidsPayload, Compress
  <2>4. b.kind = "frame" /\ ~(b.length > SizeOf(b.body) + b.padding) /\ b.compression = "gzip"
        /\ b.body = body /\ b.version = 0
    BY <2>2, <2>3
  <2>5. DecompressView("gzip", body) = {Proto(m)} BY <1>3 DEF DecompressView
  <2>6. ParseFromString(Proto(m), 0) = {m} BY <1>2
  <2> HIDE DEF b, m, body
  <2>7. DecodeGetBidsPayload(b) = {[version |-> 0, compression |-> "gzip", msg |-> m]}
    <3>1. DecodeGetBidsPayload(b) = UNION {{[version |-> 0, compression |-> "gzip", msg |-> x] :
                 x \in ParseFromString(d, 0)} : d \in {Proto(m)}}
      BY <2>4, <2>5 DEF DecodeGetBidsPayload
    <3> QED BY <2>6, <3>1
  <2>8. CASE c.buyer
    <3>1. {q \in DecodeGetBidsPayload(b) : q.version = 0} = {[version |-> 0, compression |-> "gzip", msg |-> m]}
      BY <2>7
    <3>2. ParseRawRequestBytestring(b, "none", c.buyer) =
            {[new |-> TRUE, compression |-> p.compression, msg |-> p.msg] :
               p \in {q \in DecodeGetBidsPayload(b) : q.version = 0}}
      BY <2>4, <2>8 DEF ParseRawRequestBytestring
    <3>3. PICK q : q = [version |-> 0, compression |-> "gzip", msg |-> m] OBVIOUS
    <3>4. {[new |-> TRUE, compression |-> p.compression, msg |-> p.msg] : p \in {q}}
            = {[new |-> TRUE, compression |-> "gzip", msg |-> m]}
      BY <3>3
    <3>5. ParseRawRequestBytestring(b, "none", c.buyer) = {[new |-> TRUE, compression |-> "gzip", msg |-> m]}
      BY <3>1, <3>2, <3>3, <3>4, Zenon
    <3> QED BY <1>5, <2>1, <2>8, <3>5 DEF b, m
  <2>9. CASE ~c.buyer
    <3>1. ParseFromString(b, 0) = {} BY <2>4 DEF ParseFromString
    <3>2. ParseRawRequestBytestring(b, "none", c.buyer) = {}
      BY <2>9, <3>1 DEF ParseRawRequestBytestring
    <3> QED BY <1>5, <2>1, <2>9, <3>2 DEF b, m
  <2> QED BY <2>8, <2>9
<1> QED BY <1>4, <1>5

LEMMA BuyerAnswers ==
  ASSUME callCase \in DOMAIN CallCases, CallAt(1) = "buyer", wire[1] = {Plaintext(1)},
         NEW r \in GetBidsReplies(FaultAt(1))
  PROVE  BuyerReply(FaultAt(1), r)
<1> DEFINE c == Dial.chaff
           f == FaultAt(1)
           m == IF c.request THEN "chaff" ELSE "request"
           q == [new |-> c.seller, compression |-> "gzip", msg |-> m]
           p == ParseRawRequestBytestring(Plaintext(1), CompressionHeader(c), c.buyer)
           bytes == GetBidsPayload(q, c)
<1>1. /\ c.seller \in BOOLEAN /\ c.buyer \in BOOLEAN /\ c.request \in BOOLEAN
      /\ c.request => c.seller
  BY DialIsCall
<1>2. p = IF c.seller /\ ~c.buyer THEN {} ELSE {q} BY <1>1, BuyerReads
<1>3. The(wire[1]) = Plaintext(1) BY TheOne
<1>4. p # {} => The(p) = q BY <1>2, TheOne
<1> HIDE DEF p, q
<1>5. r \in IF ~RequestDecrypts(f) \/ p = {} THEN {Reply("INVALID_ARGUMENT", NotAMessage, <<>>)}
            ELSE IF f = "replyNotEncrypted" THEN {Reply("INTERNAL", NotAMessage, <<>>)}
            ELSE {Reply("OK", bytes, <<>>)}
  BY <1>3, <1>4 DEF GetBidsReplies, p
<1>6. r.status = "OK" => /\ RequestDecrypts(f) /\ p # {} /\ f # "replyNotEncrypted"
                         /\ r.bytes = bytes
  BY <1>5 DEF Reply
<1>7. f = "none" => RequestDecrypts(f) BY DEF RequestDecrypts
<1>8. f = "none" => r.status = (IF c.seller /\ ~c.buyer THEN "INVALID_ARGUMENT" ELSE "OK")
  BY <1>2, <1>5, <1>7 DEF Reply
<1>9. p # {} => IF c.seller THEN bytes.body = Gzip(Proto(BuyerMessage)) ELSE bytes = Gzip(Proto(BuyerMessage))
  <2>1. q.new = c.seller /\ q.compression = "gzip" /\ q.msg = m BY DEF q
  <2>2. \A x, n : EncodeAndCompressGetBidsPayload(x, "gzip", n).body = Gzip(Proto(x))
    BY DEF EncodeAndCompressGetBidsPayload, Compress
  <2>3. CASE ~c.seller
    BY <1>1, <2>1, <2>3 DEF GetBidsPayload, Compress, BuyerMessage
  <2>4. CASE c.seller /\ c.buyer
    BY <1>1, <2>1, <2>2, <2>4 DEF GetBidsPayload, BuyerMessage
  <2> QED BY <1>1, <1>2, <2>3, <2>4
<1> QED BY <1>6, <1>8, <1>9 DEF BuyerReply

(* What the seller hears of it. *)
LEMMA BuyerHears ==
  ASSUME callCase \in DOMAIN CallCases, CallAt(1) = "buyer", RequestBuilds(1), NEW r,
         \/ FaultAt(1) = "lost" /\ RpcStatus(1) = "DEADLINE_EXCEEDED"
         \/ rpcReply[1] = {r} /\ RpcStatus(1) = r.status /\ BuyerReply(FaultAt(1), r) /\ FaultAt(1) # "lost"
  PROVE  GoodHeard(1, BuyerDone(1))
<1> DEFINE c == Dial.chaff
           f == FaultAt(1)
<1>1. /\ c.seller \in BOOLEAN /\ c.buyer \in BOOLEAN /\ c.request \in BOOLEAN
      /\ (c.request => c.seller) /\ 1 \in Calls
  BY DialIsCall
<1>2. f \in {"none", "lost"} \cup SendFaults \cup ServeFaults \cup AnswerFaults
  BY <1>1, NoFaultLeft
<1>3. f \notin SendFaults
  BY DEF RequestBuilds, HpkeEncrypts, HandleCryptoOperationResult, SendFaults, CallAt, FaultAt, Counted
<1>4. AeadDecrypts(f) <=> f \notin AnswerFaults
  BY DEF AeadDecrypts, HandleCryptoOperationResult, AnswerFaults
<1>5. CASE RpcStatus(1) # "OK"
  <2>1. BuyerDone(1) = <<Error(RpcStatus(1))>> BY <1>5 DEF BuyerDone
  <2>2. Error(RpcStatus(1)).status # "OK" BY <1>5 DEF Error
  <2>3. f = "none" => c.seller /\ ~c.buyer /\ RpcStatus(1) = "INVALID_ARGUMENT"
    BY <1>5 DEF BuyerReply
  <2> QED BY <2>1, <2>2, <2>3 DEF GoodHeard
<1>6. CASE RpcStatus(1) = "OK" /\ ~AeadDecrypts(f)
  <2>1. BuyerDone(1) = <<Error("INTERNAL")>> BY <1>6 DEF BuyerDone, FaultAt
  <2>2. Error("INTERNAL").status # "OK" BY DEF Error
  <2>3. f # "none" BY <1>4, <1>6 DEF AnswerFaults
  <2> QED BY <2>1, <2>2, <2>3 DEF GoodHeard
<1>7. CASE RpcStatus(1) = "OK" /\ AeadDecrypts(f)
  <2>1. rpcReply[1] = {r} /\ r.status = "OK" /\ f # "lost" BY <1>7
  <2>2. RequestDecrypts(f) /\ f # "replyNotEncrypted" BY <2>1 DEF BuyerReply
  <2>3. f = "none" BY <1>2, <1>3, <1>4, <1>7, <2>1, <2>2 DEF RequestDecrypts, ServeFaults
  <2>4. ~(c.seller /\ ~c.buyer) BY <2>1, <2>3 DEF BuyerReply
  <2>5. The(rpcReply[1]) = r BY <2>1, TheOne
  <2> DEFINE g == Gzip(Proto(BuyerMessage))
  <2>6. GzipDecompress(g) = {Proto(BuyerMessage)} BY DEF GzipDecompress, Gzip
  <2>7. ParseFromString(Proto(BuyerMessage), 0) = {BuyerMessage} BY DEF ParseFromString, Proto
  <2>8. UNION {ParseFromString(x, 0) : x \in {Proto(BuyerMessage)}} = {BuyerMessage} BY <2>7
  <2>9. The({BuyerMessage}) = BuyerMessage BY TheOne
  <2> HIDE DEF g
  <2>10. BuyerDone(1) = <<Ok(BuyerMessage)>>
    <3>1. CASE ~c.seller
      <4>1. r.bytes = g BY <2>1, <3>1 DEF BuyerReply, g
      <4>2. Decompress(g, "gzip") = {Proto(BuyerMessage)} BY <2>6 DEF Decompress
      <4>3. OnGetBidsDoneChaffingDisabled(g) = Ok(BuyerMessage)
        BY <2>8, <2>9, <4>2 DEF OnGetBidsDoneChaffingDisabled, RequestCompression
      <4> QED BY <1>7, <2>5, <3>1, <4>1, <4>3 DEF BuyerDone, FaultAt
    <3>2. CASE c.seller
      <4>1. r.bytes.body = g BY <2>1, <3>2 DEF BuyerReply, g
      <4>2. DecompressView("gzip", g) = {Proto(BuyerMessage)} BY <2>6 DEF DecompressView
      <4>3. OnGetBidsDoneChaffingEnabled(r.bytes, c) = Ok(BuyerMessage)
        <5>1. CASE ChaffRequestSize(c) > 0
          <6>1. c.request BY <5>1 DEF ChaffRequestSize
          <6> QED BY <5>1, <6>1 DEF OnGetBidsDoneChaffingEnabled, BuyerMessage
        <5>2. CASE ~(ChaffRequestSize(c) > 0)
          BY <2>8, <2>9, <4>1, <4>2, <5>2 DEF OnGetBidsDoneChaffingEnabled, RequestCompression
        <5> QED BY <5>1, <5>2
      <4> QED BY <1>7, <2>5, <3>2, <4>3 DEF BuyerDone, FaultAt
    <3> QED BY <1>1, <3>1, <3>2
  <2>11. Ok(BuyerMessage).msg # {} BY DEF Ok
  <2> QED BY <2>3, <2>4, <2>10, <2>11 DEF GoodHeard
<1> QED BY <1>5, <1>6, <1>7

FinGood(i, fs) == ~RequestDecrypts(FaultAt(i)) /\ fs # <<>> => fs[Len(fs)] # "OK"

LEMMA LastStatus ==
  ASSUME NEW f, NEW b, NEW a
  PROVE  /\ (DecryptFinishes(f) \o <<b>>)[Len(DecryptFinishes(f) \o <<b>>)] = b
         /\ (DecryptFinishes(f) \o <<a, b>>)[Len(DecryptFinishes(f) \o <<a, b>>)] = b
<1>1. PICK V : V = {a, b, "INVALID_ARGUMENT"} OBVIOUS
<1>2. DecryptFinishes(f) \in Seq(V)
  <2>1. <<"INVALID_ARGUMENT">> \in Seq(V) /\ <<>> \in Seq(V) BY <1>1
  <2> QED BY <2>1 DEF DecryptFinishes
<1>3. PICK s \in Seq(V) : s = DecryptFinishes(f) BY <1>2
<1>4. PICK t : t = <<b>> /\ t \in Seq(V) /\ Len(t) = 1 /\ t[1] = b
  <2>1. b \in V BY <1>1
  <2>2. <<b>> \in Seq(V) /\ Len(<<b>>) = 1 /\ <<b>>[1] = b BY <2>1
  <2> QED BY <2>2
<1>5. PICK u : u = <<a, b>> /\ u \in Seq(V) /\ Len(u) = 2 /\ u[2] = b
  <2>1. a \in V /\ b \in V BY <1>1
  <2>2. <<a, b>> \in Seq(V) /\ Len(<<a, b>>) = 2 /\ <<a, b>>[2] = b BY <2>1
  <2> QED BY <2>2
<1>6. (s \o t)[Len(s \o t)] = b
  <2>1. Len(s) \in Nat /\ Len(s \o t) = Len(s) + 1 BY <1>4
  <2>2. (s \o t)[Len(s) + 1] = t[1] BY <1>4
  <2> QED BY <1>4, <2>1, <2>2
<1>7. (s \o u)[Len(s \o u)] = b
  <2>1. Len(s) \in Nat /\ Len(s \o u) = Len(s) + 2 BY <1>5
  <2>2. (s \o u)[Len(s) + 2] = u[2] BY <1>5
  <2> QED BY <1>5, <2>1, <2>2
<1> QED BY <1>3, <1>4, <1>5, <1>6, <1>7

(* The k-anonymity service answers a query, or refuses what it could not read. *)
LEMMA QueryAnswers ==
  ASSUME callCase \in DOMAIN CallCases, NEW i \in Calls, CallAt(i) = "kAnonQuery",
         NEW fields \in ReadFields(FaultAt(i)), NEW hashes \in ReadHashes(FaultAt(i)),
         NEW fs, fs = QueryFinishes(FaultAt(i), fields, hashes), NEW r,
         r = [Reply("OK", Proto("answers"), [k \in DOMAIN hashes |-> FALSE]) EXCEPT !.status = fs[Len(fs)]]
  PROVE  GoodReply(i, r) /\ FinGood(i, fs)
<1> DEFINE f == FaultAt(i)
<1>1. r.status = fs[Len(fs)] /\ r.bytes = Proto("answers") /\ r.hashes = [k \in DOMAIN hashes |-> FALSE]
  BY DEF Reply
<1>2. fs[Len(fs)] = IF ~QueryComplete(fields, hashes) THEN "INVALID_ARGUMENT"
                    ELSE IF f = "replyNotEncrypted" THEN "INTERNAL" ELSE "OK"
  <2>1. CASE ~QueryComplete(fields, hashes) BY <2>1, LastStatus DEF QueryFinishes
  <2>2. CASE QueryComplete(fields, hashes) /\ f = "replyNotEncrypted" BY <2>2, LastStatus DEF QueryFinishes
  <2>3. CASE QueryComplete(fields, hashes) /\ f # "replyNotEncrypted" BY <2>3, LastStatus DEF QueryFinishes
  <2> QED BY <2>1, <2>2, <2>3
<1>3. ~RequestDecrypts(f) => ~QueryComplete(fields, hashes)
  <2>1. ~RequestDecrypts(f) => ReadFields(f) = {{}} BY DEF ReadFields, RequestDecrypts
  <2>2. ~RequestDecrypts(f) => fields = {} BY <2>1
  <2> QED BY <2>2 DEF QueryComplete
<1>4. RequestDecrypts(f) /\ f # "badMessage" => hashes = CreateBidsQueryRawRequest(Dial.bids, Dial.apps)
  BY DEF ReadHashes
<1>5. DOMAIN CreateBidsQueryRawRequest(Dial.bids, Dial.apps) = 1 .. Len(Dial.bids) + Len(Dial.apps)
  <2>1. PICK V : V = {GetKAnonHash(u) : u \in DOMAIN UrlHash} OBVIOUS
  <2>2. Dial.bids \in Seq(DOMAIN UrlHash) /\ Dial.apps \in Seq(DOMAIN UrlHash) BY DialIsCall
  <2> DEFINE a == [k \in DOMAIN Dial.bids |-> GetKAnonHash(Dial.bids[k])]
             b == [k \in DOMAIN Dial.apps |-> GetKAnonHash(Dial.apps[k])]
  <2>3. a \in Seq(V) /\ Len(a) = Len(Dial.bids)
    <3>1. a \in [1 .. Len(Dial.bids) -> V] /\ Len(Dial.bids) \in Nat BY <2>1, <2>2
    <3> HIDE DEF a
    <3> QED BY <3>1
  <2>4. b \in Seq(V) /\ Len(b) = Len(Dial.apps)
    <3>1. b \in [1 .. Len(Dial.apps) -> V] /\ Len(Dial.apps) \in Nat BY <2>1, <2>2
    <3> HIDE DEF b
    <3> QED BY <3>1
  <2>5. CreateBidsQueryRawRequest(Dial.bids, Dial.apps) = a \o b BY DEF CreateBidsQueryRawRequest
  <2> HIDE DEF a, b
  <2>6. DOMAIN (a \o b) = 1 .. Len(a) + Len(b)
    <3>1. PICK x \in Seq(V), y \in Seq(V) : x = a /\ y = b BY <2>3, <2>4
    <3>2. DOMAIN (x \o y) = 1 .. Len(x) + Len(y) OBVIOUS
    <3> QED BY <3>1, <3>2
  <2> QED BY <2>3, <2>4, <2>5, <2>6
<1>6. QueryReply(f, r) BY <1>1, <1>2, <1>3, <1>4, <1>5 DEF QueryReply
<1>7. FinGood(i, fs) BY <1>2, <1>3 DEF FinGood
<1> QED BY <1>6, <1>7 DEF GoodReply

(* A server's answer is what its client expects of that fault. *)
LEMMA ServesWell ==
  ASSUME callCase \in DOMAIN CallCases, NEW i \in Calls, CallAt(i) # "buyerJoin",
         wire[i] = {Plaintext(i)},
         CASE CallAt(i) = "buyer" -> GetBidsServer(i)
           [] CallAt(i) = "kAnonQuery" -> QueryReactor(i)
           [] CallAt(i) = "kAnonJoin" -> JoinReactor(i)
           [] OTHER -> OtherServer(i)
  PROVE  \E fs, r : /\ GoodReply(i, r) /\ FinGood(i, fs)
                    /\ rpcStage' = [rpcStage EXCEPT ![i] = "served"]
                    /\ rpcFinishes' = [rpcFinishes EXCEPT ![i] = fs]
                    /\ rpcReply' = [rpcReply EXCEPT ![i] = {r}]
<1>1. CASE CallAt(i) = "buyer"
  <2>1. i = 1 BY <1>1, DialIsCall DEF Counted, CallAt
  <2>2. PICK r \in GetBidsReplies(FaultAt(i)) : Served(i, <<r.status>>, r)
    BY <1>1 DEF GetBidsServer, FaultAt
  <2>3. BuyerReply(FaultAt(i), r) BY <1>1, <2>1, <2>2, BuyerAnswers
  <2>4. [r EXCEPT !.status = r.status] = r BY <2>2 DEF GetBidsReplies, Reply
  <2>5. <<r.status>>[Len(<<r.status>>)] = r.status OBVIOUS
  <2>6. ~RequestDecrypts(FaultAt(i)) => r.status # "OK" BY <2>3 DEF BuyerReply
  <2>7. GoodReply(i, r) /\ FinGood(i, <<r.status>>) BY <1>1, <2>3, <2>5, <2>6 DEF GoodReply, FinGood
  <2> QED BY <2>2, <2>4, <2>5, <2>7 DEF Served
<1>2. CASE CallAt(i) = "kAnonQuery"
  <2>1. PICK fields \in ReadFields(FaultAt(i)), hashes \in ReadHashes(FaultAt(i)) :
          Served(i, QueryFinishes(FaultAt(i), fields, hashes),
                 Reply("OK", Proto("answers"), [k \in DOMAIN hashes |-> FALSE]))
    BY <1>2 DEF QueryReactor, FaultAt
  <2>2. PICK fs, r : /\ fs = QueryFinishes(FaultAt(i), fields, hashes)
                     /\ r = [Reply("OK", Proto("answers"), [k \in DOMAIN hashes |-> FALSE])
                               EXCEPT !.status = fs[Len(fs)]]
    OBVIOUS
  <2>3. GoodReply(i, r) /\ FinGood(i, fs) BY <1>2, <2>2, QueryAnswers
  <2> QED BY <2>1, <2>2, <2>3, Zenon DEF Served
<1>3. CASE CallAt(i) = "kAnonJoin"
  <2>1. PICK fields \in ReadFields(FaultAt(i)) :
          Served(i, JoinFinishes(FaultAt(i), fields), Reply("OK", Proto("empty"), <<>>))
    BY <1>3 DEF JoinReactor, FaultAt
  <2>2. PICK fs : fs = JoinFinishes(FaultAt(i), fields) OBVIOUS
  <2>3. fs[Len(fs)] = IF JoinComplete(fields) THEN "OK" ELSE "INVALID_ARGUMENT"
    <3>1. CASE JoinComplete(fields) BY <2>2, <3>1, LastStatus DEF JoinFinishes
    <3>2. CASE ~JoinComplete(fields) BY <2>2, <3>2, LastStatus DEF JoinFinishes
    <3> QED BY <3>1, <3>2
  <2>4. ~RequestDecrypts(FaultAt(i)) => ~JoinComplete(fields)
    <3>1. ~RequestDecrypts(FaultAt(i)) => ReadFields(FaultAt(i)) = {{}} BY DEF ReadFields, RequestDecrypts
    <3>2. ~RequestDecrypts(FaultAt(i)) => fields = {} BY <3>1
    <3> QED BY <3>2 DEF JoinComplete
  <2>5. FinGood(i, fs) BY <2>3, <2>4 DEF FinGood
  <2>6. \A r : GoodReply(i, r) BY <1>3 DEF GoodReply
  <2> QED BY <2>1, <2>2, <2>5, <2>6, Zenon DEF Served
<1>4. CASE CallAt(i) \notin {"buyer", "kAnonQuery", "kAnonJoin"}
  <2>1. OtherServer(i) BY <1>4
  <2>2. PICK b \in IF FaultAt(i) = "badReply" THEN {NotAMessage} ELSE {Proto("answer")} :
          Served(i, <<"OK">>, Reply("OK", b, <<>>))
    BY <2>1 DEF OtherServer, FaultAt
  <2>3. RequestDecrypts(FaultAt(i))
    BY <1>4, NoFaultLeft, DialIsCall DEF RequestDecrypts, SendFaults, AnswerFaults, Clients, Counted, CallAt
  <2>4. PICK r : r = [Reply("OK", b, <<>>) EXCEPT !.status = <<"OK">>[Len(<<"OK">>)]] OBVIOUS
  <2>5. r.bytes = b BY <2>4 DEF Reply
  <2>6. GoodReply(i, r) BY <1>4, <2>2, <2>5 DEF GoodReply
  <2>7. FinGood(i, <<"OK">>) BY <2>3 DEF FinGood
  <2> QED BY <2>2, <2>4, <2>6, <2>7, Zenon DEF Served
<1> QED BY <1>1, <1>2, <1>3, <1>4

(* What each client's callback is given. *)
LEMMA HearsWell ==
  ASSUME callCase \in DOMAIN CallCases, NEW i \in Calls, RequestBuilds(i), NEW r,
         \/ FaultAt(i) = "lost" /\ RpcStatus(i) = "DEADLINE_EXCEEDED"
         \/ rpcReply[i] = {r} /\ RpcStatus(i) = r.status /\ GoodReply(i, r) /\ FaultAt(i) # "lost"
  PROVE  GoodHeard(i, Heard(i))
<1> DEFINE f == FaultAt(i)
           bytes == IF rpcReply[i] = {} THEN NotAMessage ELSE The(rpcReply[i]).bytes
<1>1. CallAt(i) \in Clients BY DialIsCall
<1>2. RpcStatus(i) = "OK" => bytes = r.bytes /\ GoodReply(i, r) /\ r.status = "OK" /\ f # "lost"
  BY TheOne
<1>3. \A m : ParseFromString(Proto(m), 0) = {m} /\ The({m}) = m BY TheOne DEF ParseFromString, Proto
<1>4. ParseFromString(NotAMessage, 0) = {} BY DEF ParseFromString, NotAMessage
<1>5. ASSUME CallAt(i) \notin {"buyer", "buyerJoin"}, NEW a, Heard(i) = <<a>>,
             a.status = "OK" => f \in {"none", "badMessage"} /\ CallAt(i) # "kAnonJoin" /\ a.msg # {}
      PROVE  GoodHeard(i, Heard(i))
  BY <1>5 DEF GoodHeard
<1>6. ASSUME NEW d PROVE \/ OnRpcDone(i, d) = <<d>> /\ d.status = "OK" /\ RpcStatus(i) = "OK"
                         \/ \E s : OnRpcDone(i, d) = <<Error(s)>> /\ s # "OK"
  BY DEF OnRpcDone
<1>7. \A s : Error(s).status = s BY DEF Error
<1>8. \A m : Ok(m).msg # {} /\ Ok(m).status = "OK" BY DEF Ok
<1>9. CASE CallAt(i) = "buyer"
  <2>1. i = 1 BY <1>9, DialIsCall DEF Counted, CallAt
  <2>2. Heard(i) = BuyerDone(i) BY <1>9 DEF Heard, CallAt, Counted
  <2>3. GoodReply(i, r) => BuyerReply(f, r) BY <1>9 DEF GoodReply
  <2> QED BY <1>9, <2>1, <2>2, <2>3, BuyerHears
<1>10. CASE CallAt(i) = "buyerJoin"
  <2>1. Heard(i) = <<>> BY <1>10 DEF Heard, CallAt, Counted
  <2> QED BY <1>10, <2>1 DEF GoodHeard
<1>11. CASE CallAt(i) = "kAnonJoin"
  <2>1. Heard(i) = OnRpcDone(i, JoinResponse) BY <1>11 DEF Heard, CallAt, Counted
  <2>2. JoinResponse.status # "OK" BY DEF JoinResponse, Error
  <2> QED BY <1>5, <1>6, <1>7, <1>11, <2>1, <2>2
<1>12. CASE CallAt(i) = "keyValue"
  <2> DEFINE d == GetValuesResponse(f, bytes)
  <2>1. Heard(i) = OnRpcDone(i, d) BY <1>12 DEF Heard, CallAt, Counted, FaultAt
  <2>2. ASSUME d.status = "OK", RpcStatus(i) = "OK" PROVE f = "none" /\ d.msg # {}
    <3>1. bytes = IF f = "badReply" THEN NotAMessage ELSE Proto("answer")
      BY <1>2, <1>12, <2>2 DEF GoodReply
    <3> HIDE DEF bytes
    <3>2. f \notin AnswerFaults \cup {"badFrame"} BY <1>7, <2>2 DEF GetValuesResponse, AnswerFaults
    <3>3. f # "badReply" BY <1>4, <1>7, <2>2, <3>1, <3>2 DEF GetValuesResponse
    <3>4. d = Ok("answer") BY <1>3, <3>1, <3>2, <3>3 DEF GetValuesResponse, AnswerFaults
    <3>5. f \notin {"noPublicKey", "badKeyText", "notPadded", "encryptFailed"}
      BY <1>12 DEF RequestBuilds, ObliviousRequestBuilds, Counted, CallAt, FaultAt
    <3>6. f \in {"none", "lost", "noPublicKey", "badKeyText", "notPadded", "encryptFailed",
                 "badFrame", "badReply"} \cup AnswerFaults
      BY <1>12, NoFaultLeft
    <3> QED BY <1>2, <1>8, <2>2, <3>2, <3>3, <3>4, <3>5, <3>6
  <2> HIDE DEF d
  <2>3. \E a : Heard(i) = <<a>> /\ (a.status = "OK" => f = "none" /\ a.msg # {})
    <3>1. CASE Heard(i) = <<d>> /\ d.status = "OK" /\ RpcStatus(i) = "OK" BY <2>2, <3>1
    <3>2. ASSUME NEW s, Heard(i) = <<Error(s)>>, s # "OK"
          PROVE  \E a : Heard(i) = <<a>> /\ (a.status = "OK" => f = "none" /\ a.msg # {})
      BY <1>7, <3>2
    <3> QED BY <1>6, <2>1, <3>1, <3>2
  <2> QED BY <1>5, <1>12, <2>3
<1>13. CASE Counted(i)
  <2>1. Heard(i) = <<IF RpcStatus(i) = "OK" THEN Ok("answer") ELSE Error(RpcStatus(i))>>
    BY <1>13 DEF Heard, Counted
  <2>2. f \in {"none", "lost"} BY <1>13, NoFaultLeft
  <2>3. CallAt(i) \notin {"buyer", "buyerJoin", "kAnonJoin"} BY <1>13 DEF Counted, CallAt
  <2>4. PICK a : a = IF RpcStatus(i) = "OK" THEN Ok("answer") ELSE Error(RpcStatus(i)) OBVIOUS
  <2>5. a.status = "OK" => f \in {"none", "badMessage"} /\ CallAt(i) # "kAnonJoin" /\ a.msg # {}
    BY <1>2, <1>7, <1>8, <2>2, <2>3, <2>4
  <2> QED BY <1>5, <2>1, <2>3, <2>4, <2>5
<1>14. CASE CallAt(i) \in {"bidding", "scoring", "kAnonQuery"}
  <2> DEFINE d == DecryptResponse(f, bytes)
  <2>1. Heard(i) = OnRpcDone(i, d) BY <1>14 DEF Heard, CallAt, Counted, FaultAt
  <2>2. f \notin SendFaults
    BY <1>14 DEF RequestBuilds, HpkeEncrypts, HandleCryptoOperationResult, SendFaults, CallAt, FaultAt, Counted
  <2>3. ASSUME d.status = "OK", RpcStatus(i) = "OK" PROVE f \in {"none", "badMessage"} /\ d.msg # {}
    <3>1. f \notin AnswerFaults
      BY <1>7, <2>3 DEF DecryptResponse, AeadDecrypts, HandleCryptoOperationResult, AnswerFaults
    <3>2. AeadDecrypts(f) BY <3>1 DEF AeadDecrypts, HandleCryptoOperationResult, AnswerFaults
    <3>3. CASE CallAt(i) = "kAnonQuery"
      <4>1. bytes = Proto("answers") /\ RequestDecrypts(f) /\ f # "replyNotEncrypted"
        BY <1>2, <2>3, <3>3 DEF GoodReply, QueryReply
      <4> HIDE DEF bytes
      <4>2. d = Ok("answers") BY <1>3, <3>2, <4>1 DEF DecryptResponse
      <4>3. f \in {"none", "lost", "badMessage"} \cup SendFaults \cup ServeFaults \cup AnswerFaults
        BY <3>3, NoFaultLeft
      <4> QED BY <1>2, <1>8, <2>2, <2>3, <3>1, <4>1, <4>2, <4>3 DEF ServeFaults, RequestDecrypts
    <3>4. CASE CallAt(i) \in {"bidding", "scoring"}
      <4>1. bytes = IF f = "badReply" THEN NotAMessage ELSE Proto("answer")
        BY <1>2, <2>3, <3>4 DEF GoodReply
      <4> HIDE DEF bytes
      <4>2. f # "badReply" BY <1>4, <1>7, <2>3, <3>2, <4>1 DEF DecryptResponse
      <4>3. d = Ok("answer") BY <1>3, <3>2, <4>1, <4>2 DEF DecryptResponse
      <4>4. f \in {"none", "lost", "badReply"} \cup SendFaults \cup AnswerFaults BY <3>4, NoFaultLeft
      <4> QED BY <1>2, <1>8, <2>2, <2>3, <3>1, <4>2, <4>3, <4>4
    <3> QED BY <1>14, <3>3, <3>4
  <2> HIDE DEF d
  <2>4. \E a : Heard(i) = <<a>> /\ (a.status = "OK" => f \in {"none", "badMessage"} /\ a.msg # {})
    <3>1. CASE Heard(i) = <<d>> /\ d.status = "OK" /\ RpcStatus(i) = "OK" BY <2>3, <3>1
    <3>2. ASSUME NEW s, Heard(i) = <<Error(s)>>, s # "OK"
          PROVE  \E a : Heard(i) = <<a>> /\ (a.status = "OK" => f \in {"none", "badMessage"} /\ a.msg # {})
      BY <1>7, <3>2
    <3> QED BY <1>6, <2>1, <3>1, <3>2
  <2> QED BY <1>5, <1>14, <2>4
<1> QED BY <1>1, <1>9, <1>10, <1>11, <1>12, <1>13, <1>14 DEF Clients, Counted, CallAt

IsOfCalls(f) == f = [i \in Calls |-> f[i]]

(* A call in each stage. *)
CallOk(i) ==
  /\ rpcStage[i] \in {"idle", "refused", "sent", "served", "heard", "done"}
  /\ rpcStage[i] \notin {"idle", "refused"} => RequestBuilds(i)
  /\ rpcStage[i] = "sent" => wire[i] = {Plaintext(i)}
  /\ rpcStage[i] \in {"sent", "served"} =>
       /\ rpcParams[i] = "heap" \/ CallAt(i) = "buyerJoin"
       /\ rpcContext[i] = "owned" \/ ByReactor(i)
  /\ rpcStage[i] = "served" => FaultAt(i) # "lost" /\ \E r : rpcReply[i] = {r} /\ GoodReply(i, r)
  /\ FinGood(i, rpcFinishes[i])
  /\ IF rpcStage[i] \in {"heard", "done"} THEN GoodHeard(i, heard[i]) ELSE heard[i] = <<>>
  /\ rpcStage[i] = "heard" => Counted(i)

(* The calls that the destructor of their client waits for. *)
ActiveCalls == {i \in Calls : Counted(i) /\ rpcStage[i] \in {"sent", "served", "heard"}}

AttachedFor(status) ==
  {kAnonBids.bids[i] : i \in DOMAIN Dial.bids} \cup {kAnonBids.apps[i] : i \in DOMAIN Dial.apps}
    \subseteq (IF status = "OK" THEN {"no"} ELSE {"unset"})

KAnonKept ==
  CallAt(1) = "kAnonQuery" =>
    IF rpcStage[1] = "done"
    THEN FaultAt(1) # "badMessage" => ~aborted /\ AttachedFor(heard[1][1].status)
    ELSE ~aborted /\ kAnonBids = Unattached

(* The buyer front end joins for the seller only when it has read its request. *)
Unserved == {"idle", "refused", "sent"}
JoinKept ==
  CallAt(1) = "buyerJoin" =>
    /\ rpcStage[1] \in Unserved => rpcStage[2] = "idle"
    /\ rpcStage[2] # "idle" => RequestDecrypts(FaultAt(1))

CallInv ==
  /\ callCase \in DOMAIN CallCases /\ aborted \in BOOLEAN
  /\ IsOfCalls(rpcStage) /\ IsOfCalls(rpcParams) /\ IsOfCalls(rpcContext) /\ IsOfCalls(wire)
  /\ IsOfCalls(rpcReply) /\ IsOfCalls(heard) /\ IsOfCalls(rpcFinishes)
  /\ \A i \in Calls : CallOk(i)
  /\ activeCalls = Cardinality(ActiveCalls)
  /\ clientLife # "up" => Counted(1)
  /\ clientLife = "gone" => ActiveCalls = {}
  /\ JoinKept /\ KAnonKept

LEMMA DialStays ==
  ASSUME callCase' = callCase
  PROVE  /\ Dial' = Dial /\ Calls' = Calls /\ Unattached' = Unattached
         /\ \A i : CallAt(i)' = CallAt(i) /\ FaultAt(i)' = FaultAt(i) /\ Plaintext(i)' = Plaintext(i)
         /\ \A i : (Counted(i)' <=> Counted(i)) /\ (ByReactor(i)' <=> ByReactor(i))
         /\ \A i : RequestBuilds(i)' <=> RequestBuilds(i)
         /\ \A i, x : GoodReply(i, x)' <=> GoodReply(i, x)
         /\ \A i, x : FinGood(i, x)' <=> FinGood(i, x)
         /\ \A i, x : GoodHeard(i, x)' <=> GoodHeard(i, x)
<1>1. Dial' = Dial BY DEF Dial
<1>2. Calls' = Calls /\ Unattached' = Unattached /\ BidsMessage' = BidsMessage
  BY <1>1 DEF Calls, Unattached, BidsMessage
<1>3. BuyerMessage' = BuyerMessage BY <1>1, <1>2 DEF BuyerMessage
<1>4. \A i : CallAt(i)' = CallAt(i) /\ FaultAt(i)' = FaultAt(i) BY <1>1 DEF CallAt, FaultAt
<1>5. \A i : (Counted(i)' <=> Counted(i)) /\ (ByReactor(i)' <=> ByReactor(i))
  BY <1>1 DEF Counted, ByReactor
<1>6. \A i : RequestBuilds(i)' <=> RequestBuilds(i) BY <1>1, <1>5 DEF RequestBuilds
<1>7. \A i : Plaintext(i)' = Plaintext(i) BY <1>1 DEF Plaintext
<1>8. \A i, x : FinGood(i, x)' <=> FinGood(i, x) BY <1>4 DEF FinGood
<1>9. \A f, x : (BuyerReply(f, x)' <=> BuyerReply(f, x)) /\ (QueryReply(f, x)' <=> QueryReply(f, x))
  BY <1>1, <1>3 DEF BuyerReply, QueryReply
<1>10. \A i, x : GoodReply(i, x)' <=> GoodReply(i, x) BY <1>4, <1>9 DEF GoodReply
<1>11. \A i, x : GoodHeard(i, x)' <=> GoodHeard(i, x) BY <1>1, <1>3, <1>4 DEF GoodHeard
<1> QED BY <1>1, <1>2, <1>4, <1>5, <1>6, <1>7, <1>8, <1>10, <1>11

(* The other calls stay as they are. *)
OnlyCall(i) ==
  /\ IsOfCalls(rpcStage') /\ IsOfCalls(rpcParams') /\ IsOfCalls(rpcContext') /\ IsOfCalls(wire')
  /\ IsOfCalls(rpcReply') /\ IsOfCalls(heard') /\ IsOfCalls(rpcFinishes')
  /\ \A j \in Calls \ {i} :
       /\ rpcStage'[j] = rpcStage[j] /\ rpcParams'[j] = rpcParams[j] /\ rpcContext'[j] = rpcContext[j]
       /\ wire'[j] = wire[j] /\ rpcReply'[j] = rpcReply[j] /\ heard'[j] = heard[j]
       /\ rpcFinishes'[j] = rpcFinishes[j]

LEMMA OtherCall ==
  ASSUME NEW j \in Calls, CallOk(j), callCase' = callCase, rpcStage'[j] = rpcStage[j],
         rpcParams'[j] = rpcParams[j], rpcContext'[j] = rpcContext[j] \/ ByReactor(j), wire'[j] = wire[j],
         rpcReply'[j] = rpcReply[j], heard'[j] = heard[j], rpcFinishes'[j] = rpcFinishes[j]
  PROVE  CallOk(j)'
BY DialStays DEF CallOk

LEMMA CallsKept ==
  ASSUME CallInv, NEW i \in Calls, callCase' = callCase, OnlyCall(i), CallOk(i)'
  PROVE  /\ callCase' \in DOMAIN CallCases /\ \A j \in Calls' : CallOk(j)'
         /\ IsOfCalls(rpcStage)' /\ IsOfCalls(rpcParams)' /\ IsOfCalls(rpcContext)' /\ IsOfCalls(wire)'
         /\ IsOfCalls(rpcReply)' /\ IsOfCalls(heard)' /\ IsOfCalls(rpcFinishes)'
<1>1. Calls' = Calls BY DialStays
<1>2. \A j \in Calls \ {i} : CallOk(j)' BY OtherCall DEF CallInv, OnlyCall
<1>3. /\ IsOfCalls(rpcStage)' /\ IsOfCalls(rpcParams)' /\ IsOfCalls(rpcContext)' /\ IsOfCalls(wire)'
      /\ IsOfCalls(rpcReply)' /\ IsOfCalls(heard)' /\ IsOfCalls(rpcFinishes)'
  BY <1>1 DEF OnlyCall, IsOfCalls
<1> QED BY <1>1, <1>2, <1>3 DEF CallInv

LEMMA ActiveAreFinite ==
  ASSUME callCase \in DOMAIN CallCases
  PROVE  IsFiniteSet(ActiveCalls) /\ Cardinality(ActiveCalls) \in Nat
<1>1. IsFiniteSet(Calls)
  <2>1. PICK n \in Nat : Calls = 1 .. n BY DialIsCall
  <2>2. IsFiniteSet(1 .. n) BY FS_Interval
  <2> QED BY <2>1, <2>2
<1>2. ActiveCalls \subseteq Calls BY DEF ActiveCalls
<1> QED BY <1>1, <1>2, FS_Subset, FS_CardinalityType

LEMMA CallInitInv == CallInit => CallInv
<1> SUFFICES ASSUME CallInit PROVE CallInv OBVIOUS
<1>1. callCase \in DOMAIN CallCases /\ clientLife = "up" /\ activeCalls = 0 /\ aborted = FALSE
      /\ kAnonBids = Unattached
  BY DEF CallInit
<1>2. 1 \in Calls /\ (CallAt(1) = "buyerJoin" => 2 \in Calls)
  <2>1. 1 \in Calls BY <1>1, DialIsCall
  <2>2. CallAt(1) = "buyerJoin" => ~Counted(1) BY DEF Counted, CallAt
  <2> QED BY <1>1, <2>1, <2>2, DialIsCall
<1>3. \A i \in Calls : rpcStage[i] = "idle" /\ heard[i] = <<>> /\ rpcFinishes[i] = <<>> BY DEF CallInit
<1>4. ASSUME NEW i \in Calls PROVE CallOk(i) BY <1>3 DEF CallOk, FinGood
<1>5. ActiveCalls = {} BY <1>3 DEF ActiveCalls
<1>6. /\ IsOfCalls(rpcStage) /\ IsOfCalls(rpcParams) /\ IsOfCalls(rpcContext) /\ IsOfCalls(wire)
      /\ IsOfCalls(rpcReply) /\ IsOfCalls(heard) /\ IsOfCalls(rpcFinishes)
  BY DEF CallInit, IsOfCalls
<1>7. KAnonKept BY <1>1, <1>2, <1>3 DEF KAnonKept
<1>8. activeCalls = Cardinality(ActiveCalls) BY <1>1, <1>5, FS_EmptySet
<1>9. JoinKept BY <1>2, <1>3 DEF JoinKept
<1> QED BY <1>1, <1>4, <1>6, <1>7, <1>8, <1>9 DEF CallInv

IsActive(i) == Counted(i) /\ rpcStage[i] \in {"sent", "served", "heard"}

LEMMA ActiveStep ==
  ASSUME callCase' = callCase, NEW i \in Calls, \A j \in Calls \ {i} : rpcStage'[j] = rpcStage[j]
  PROVE  /\ IsActive(i)' => ActiveCalls' = ActiveCalls \cup {i}
         /\ ~IsActive(i)' => ActiveCalls' = ActiveCalls \ {i}
<1>1. Calls' = Calls /\ \A j : Counted(j)' <=> Counted(j) BY DialStays
<1> QED BY <1>1 DEF ActiveCalls, IsActive

(* The count of the calls under way follows the set of them. *)
LEMMA ActiveCounted ==
  ASSUME CallInv, callCase' = callCase, NEW i \in Calls,
         \A j \in Calls \ {i} : rpcStage'[j] = rpcStage[j],
         \/ (IsActive(i)' <=> IsActive(i)) /\ activeCalls' = activeCalls
         \/ IsActive(i)' /\ ~IsActive(i) /\ activeCalls' = activeCalls + 1
         \/ ~IsActive(i)' /\ IsActive(i) /\ activeCalls' = activeCalls - 1
  PROVE  /\ activeCalls' = Cardinality(ActiveCalls')
         /\ (IsActive(i)' => IsActive(i)) /\ ActiveCalls = {} => ActiveCalls' = {}
<1>1. IsFiniteSet(ActiveCalls) /\ Cardinality(ActiveCalls) \in Nat /\ activeCalls = Cardinality(ActiveCalls)
  BY ActiveAreFinite DEF CallInv
<1>2. IsActive(i) <=> i \in ActiveCalls BY DEF IsActive, ActiveCalls
<1>3. CASE (IsActive(i)' <=> IsActive(i)) /\ activeCalls' = activeCalls
  <2>1. ActiveCalls' = ActiveCalls BY <1>2, <1>3, ActiveStep
  <2> QED BY <1>1, <1>3, <2>1
<1>4. CASE IsActive(i)' /\ ~IsActive(i) /\ activeCalls' = activeCalls + 1
  <2>1. ActiveCalls' = ActiveCalls \cup {i} /\ i \notin ActiveCalls BY <1>2, <1>4, ActiveStep
  <2>2. Cardinality(ActiveCalls \cup {i}) = Cardinality(ActiveCalls) + 1 BY <1>1, <2>1, FS_AddElement
  <2> QED BY <1>1, <1>4, <2>1, <2>2
<1>5. CASE ~IsActive(i)' /\ IsActive(i) /\ activeCalls' = activeCalls - 1
  <2>1. ActiveCalls' = ActiveCalls \ {i} /\ i \in ActiveCalls BY <1>2, <1>5, ActiveStep
  <2>2. Cardinality(ActiveCalls \ {i}) = Cardinality(ActiveCalls) - 1 BY <1>1, <2>1, FS_RemoveElement
  <2> QED BY <1>1, <1>5, <2>1, <2>2
<1> QED BY <1>3, <1>4, <1>5

LEMMA KAnonStays ==
  ASSUME CallInv, callCase' = callCase, UNCHANGED <<aborted, kAnonBids, heard>>,
         CallAt(1) = "kAnonQuery" => (rpcStage'[1] = "done" <=> rpcStage[1] = "done")
  PROVE  KAnonKept'
<1>1. Dial' = Dial /\ CallAt(1)' = CallAt(1) /\ FaultAt(1)' = FaultAt(1) /\ Unattached' = Unattached
  BY DialStays
<1>2. \A s : AttachedFor(s)' <=> AttachedFor(s) BY <1>1 DEF AttachedFor
<1> QED BY <1>1, <1>2 DEF CallInv, KAnonKept

(* A step of one call. *)
LEMMA StepOfCall ==
  ASSUME CallInv, NEW i \in Calls, callCase' = callCase, OnlyCall(i), CallOk(i)', aborted' \in BOOLEAN,
         activeCalls' = Cardinality(ActiveCalls'), clientLife' = clientLife,
         clientLife = "gone" => ActiveCalls' = {},
         CallAt(1) = "buyerJoin" /\ i = 2 => rpcStage[2] # "idle",
         rpcStage'[i] \in Unserved => rpcStage[i] \in Unserved, KAnonKept'
  PROVE  CallInv'
<1>1. /\ callCase' \in DOMAIN CallCases /\ \A j \in Calls' : CallOk(j)'
      /\ IsOfCalls(rpcStage)' /\ IsOfCalls(rpcParams)' /\ IsOfCalls(rpcContext)' /\ IsOfCalls(wire)'
      /\ IsOfCalls(rpcReply)' /\ IsOfCalls(heard)' /\ IsOfCalls(rpcFinishes)'
  BY CallsKept
<1>2. /\ CallAt(1)' = CallAt(1) /\ FaultAt(1)' = FaultAt(1) /\ (Counted(1)' <=> Counted(1))
  BY DialStays
<1>3. clientLife # "up" => Counted(1) BY DEF CallInv
<1>4. ASSUME CallAt(1) = "buyerJoin"
      PROVE  /\ rpcStage'[1] \in Unserved => rpcStage'[2] = "idle"
             /\ rpcStage'[2] # "idle" => RequestDecrypts(FaultAt(1))
  <2>1. ~Counted(1) BY <1>4 DEF CallAt, Counted
  <2>2. 1 \in Calls /\ 2 \in Calls BY <1>4, <2>1, DialIsCall DEF CallInv
  <2>3. /\ rpcStage[1] \in Unserved => rpcStage[2] = "idle"
        /\ rpcStage[2] # "idle" => RequestDecrypts(FaultAt(1))
    BY <1>4 DEF CallInv, JoinKept
  <2>4. (i # 2 => rpcStage'[2] = rpcStage[2]) /\ (i # 1 => rpcStage'[1] = rpcStage[1])
    BY <2>2 DEF OnlyCall
  <2> QED BY <1>4, <2>3, <2>4
<1>5. JoinKept' BY <1>2, <1>4 DEF JoinKept
<1> QED BY <1>1, <1>2, <1>3, <1>5 DEF CallInv

LEMMA ExecuteKept ==
  ASSUME CallInv, NEW i \in Calls, ExecuteInternal(i)
  PROVE  CallInv'
<1>1. /\ rpcStage[i] = "idle" /\ clientLife = "up" /\ ~ByReactor(i) /\ callCase' = callCase
      /\ UNCHANGED <<rpcReply, heard, rpcFinishes, clientLife, kAnonBids, aborted>>
      /\ rpcContext' = [rpcContext EXCEPT ![i] = "owned"]
      /\ Refuse(i) \/ EncryptPayloadAndSendRpc(i)
  BY DEF ExecuteInternal
<1>2. /\ CallOk(i) /\ aborted \in BOOLEAN
      /\ IsOfCalls(rpcStage) /\ IsOfCalls(rpcParams) /\ IsOfCalls(rpcContext) /\ IsOfCalls(wire)
      /\ IsOfCalls(rpcReply) /\ IsOfCalls(heard) /\ IsOfCalls(rpcFinishes)
  BY DEF CallInv
<1>3. CallAt(1) = "buyerJoin" /\ i = 2 => rpcStage[2] # "idle" BY <1>1 DEF ByReactor, CallAt
<1>4. heard[i] = <<>> /\ FinGood(i, rpcFinishes[i]) BY <1>1, <1>2 DEF CallOk
<1>5. 1 \in Calls BY DialIsCall DEF CallInv
<1>6. CASE Refuse(i)
  <2>1. rpcStage' = [rpcStage EXCEPT ![i] = "refused"] /\ UNCHANGED <<rpcParams, wire, activeCalls>>
    BY <1>6 DEF Refuse
  <2>2. rpcStage'[i] = "refused" /\ OnlyCall(i) BY <1>1, <1>2, <2>1 DEF OnlyCall, IsOfCalls
  <2>3. CallOk(i)' BY <1>1, <1>4, <2>2, DialStays DEF CallOk
  <2>4. ~IsActive(i)' /\ ~IsActive(i) BY <1>1, <2>2 DEF IsActive
  <2>5. KAnonKept'
    <3>1. rpcStage'[1] = "done" <=> rpcStage[1] = "done" BY <1>1, <1>5, <2>2 DEF OnlyCall
    <3> QED BY <1>1, <3>1, KAnonStays
  <2>6. activeCalls' = Cardinality(ActiveCalls') BY <1>1, <2>1, <2>2, <2>4, ActiveCounted DEF OnlyCall
  <2> QED BY <1>1, <1>2, <1>3, <2>2, <2>3, <2>5, <2>6, StepOfCall DEF Unserved
<1>7. CASE EncryptPayloadAndSendRpc(i)
  <2>1. /\ RequestBuilds(i) /\ rpcStage' = [rpcStage EXCEPT ![i] = "sent"]
        /\ rpcParams' = [rpcParams EXCEPT ![i] = ParamsAtReturn(i)]
        /\ wire' = [wire EXCEPT ![i] = {Plaintext(i)}]
        /\ activeCalls' = activeCalls + IF Counted(i) THEN 1 ELSE 0
    BY <1>7 DEF EncryptPayloadAndSendRpc
  <2>2. /\ rpcStage'[i] = "sent" /\ rpcParams'[i] = ParamsAtReturn(i) /\ wire'[i] = {Plaintext(i)}
        /\ rpcContext'[i] = "owned" /\ OnlyCall(i)
    BY <1>1, <1>2, <2>1 DEF OnlyCall, IsOfCalls
  <2>3. rpcParams'[i] = "heap" \/ CallAt(i) = "buyerJoin" BY <2>2 DEF ParamsAtReturn, CallAt
  <2>4. CallOk(i)' BY <1>1, <1>4, <2>1, <2>2, <2>3, DialStays DEF CallOk
  <2>5. ~IsActive(i) /\ (IsActive(i)' <=> Counted(i)) BY <1>1, <2>2, DialStays DEF IsActive
  <2>6. activeCalls \in Nat BY ActiveAreFinite DEF CallInv
  <2>7. KAnonKept'
    <3>1. rpcStage'[1] = "done" <=> rpcStage[1] = "done" BY <1>1, <1>5, <2>2 DEF OnlyCall
    <3> QED BY <1>1, <3>1, KAnonStays
  <2>8. activeCalls' = Cardinality(ActiveCalls')
    BY <1>1, <2>1, <2>2, <2>5, <2>6, ActiveCounted DEF OnlyCall
  <2> QED BY <1>1, <1>2, <1>3, <2>2, <2>4, <2>7, <2>8, StepOfCall DEF Unserved
<1> QED BY <1>1, <1>6, <1>7

LEMMA JoinIsFirst ==
  ASSUME callCase \in DOMAIN CallCases, NEW i \in Calls, CallAt(i) = "buyerJoin"
  PROVE  i = 1 /\ Calls = {1, 2} /\ CallAt(2) = "kAnonJoin" /\ ~Counted(1) /\ ~Counted(2)
<1>1. ~Counted(i) BY DEF Counted, CallAt
<1>2. Calls = {1, 2} /\ CallAt(1) = "buyerJoin" /\ CallAt(2) = "kAnonJoin" BY <1>1, DialIsCall
<1> QED BY <1>2 DEF Counted, CallAt

(* A call that a server has answered. *)
LEMMA ServedKept ==
  ASSUME CallInv, NEW i \in Calls, rpcStage[i] = "sent", FaultAt(i) # "lost",
         NEW fs, NEW r, GoodReply(i, r), FinGood(i, fs),
         rpcStage' = [rpcStage EXCEPT ![i] = "served"],
         rpcFinishes' = [rpcFinishes EXCEPT ![i] = fs],
         rpcReply' = [rpcReply EXCEPT ![i] = {r}],
         UNCHANGED <<rpcParams, wire, activeCalls, rpcContext>>,
         UNCHANGED <<callCase, heard, clientLife, kAnonBids, aborted>>
  PROVE  CallInv'
<1>1. /\ CallOk(i) /\ aborted \in BOOLEAN
      /\ IsOfCalls(rpcStage) /\ IsOfCalls(rpcParams) /\ IsOfCalls(rpcContext) /\ IsOfCalls(wire)
      /\ IsOfCalls(rpcReply) /\ IsOfCalls(heard) /\ IsOfCalls(rpcFinishes)
  BY DEF CallInv
<1>2. /\ rpcStage'[i] = "served" /\ rpcFinishes'[i] = fs /\ rpcReply'[i] = {r} /\ OnlyCall(i)
  BY <1>1 DEF OnlyCall, IsOfCalls
<1>3. /\ RequestBuilds(i) /\ heard[i] = <<>>
      /\ rpcParams[i] = "heap" \/ CallAt(i) = "buyerJoin"
      /\ rpcContext[i] = "owned" \/ ByReactor(i)
  BY <1>1 DEF CallOk
<1>4. CallOk(i)' BY <1>2, <1>3, DialStays DEF CallOk
<1>5. KAnonKept'
  <2>1. 1 \in Calls BY DialIsCall DEF CallInv
  <2>2. rpcStage'[1] = "done" <=> rpcStage[1] = "done" BY <1>2, <2>1 DEF OnlyCall
  <2> QED BY <2>2, KAnonStays
<1>6. IsActive(i)' <=> IsActive(i) BY <1>2, DialStays DEF IsActive
<1>7. activeCalls' = Cardinality(ActiveCalls') /\ (ActiveCalls = {} => ActiveCalls' = {})
  BY <1>2, <1>6, ActiveCounted DEF OnlyCall
<1>8. clientLife = "gone" => ActiveCalls = {} BY DEF CallInv
<1> QED BY <1>1, <1>2, <1>4, <1>5, <1>7, <1>8, StepOfCall DEF Unserved

(* The buyer front end answers the seller's join and makes its own. *)
LEMMA JoinForwarded ==
  ASSUME CallInv, CallAt(1) = "buyerJoin", 1 \in Calls, rpcStage[1] = "sent", FaultAt(1) # "lost",
         ~JoinKAnonRefuses(FaultAt(1)), MicrosoftJoinKAnonReactor,
         UNCHANGED <<callCase, heard, clientLife, kAnonBids, aborted>>
  PROVE  CallInv'
<1>1. callCase \in DOMAIN CallCases /\ callCase' = callCase BY DEF CallInv
<1>2. Calls = {1, 2} /\ CallAt(2) = "kAnonJoin" /\ ~Counted(1) /\ ~Counted(2)
  BY <1>1, JoinIsFirst
<1>3. /\ CallOk(1) /\ CallOk(2) /\ aborted \in BOOLEAN /\ rpcStage[2] = "idle"
      /\ IsOfCalls(rpcStage) /\ IsOfCalls(rpcParams) /\ IsOfCalls(rpcContext) /\ IsOfCalls(wire)
      /\ IsOfCalls(rpcReply) /\ IsOfCalls(heard) /\ IsOfCalls(rpcFinishes)
  BY <1>2 DEF CallInv, JoinKept, Unserved
<1>4. RequestDecrypts(FaultAt(1)) BY DEF JoinKAnonRefuses
<1>5. /\ rpcContext' = [rpcContext EXCEPT ![2] = "owned"]
      /\ rpcFinishes' = [rpcFinishes EXCEPT ![1] = <<"OK">>]
      /\ rpcReply' = [rpcReply EXCEPT ![1] = {Reply("OK", Proto("empty"), <<>>)}]
      /\ IF RequestBuilds(2)
         THEN /\ rpcStage' = [rpcStage EXCEPT ![1] = "served", ![2] = "sent"]
              /\ rpcParams' = [rpcParams EXCEPT ![2] = ParamsAtReturn(2)]
              /\ wire' = [wire EXCEPT ![2] = {Plaintext(2)}]
         ELSE /\ rpcStage' = [rpcStage EXCEPT ![1] = "served", ![2] = "refused"]
              /\ UNCHANGED <<rpcParams, wire>>
      /\ UNCHANGED activeCalls
  BY DEF MicrosoftJoinKAnonReactor, FaultAt
<1>6. /\ rpcStage'[1] = "served" /\ rpcParams'[1] = rpcParams[1] /\ rpcContext'[1] = rpcContext[1]
      /\ rpcFinishes'[1] = <<"OK">> /\ rpcReply'[1] = {Reply("OK", Proto("empty"), <<>>)}
      /\ rpcContext'[2] = "owned" /\ rpcFinishes'[2] = rpcFinishes[2]
      /\ \/ RequestBuilds(2) /\ rpcStage'[2] = "sent" /\ rpcParams'[2] = ParamsAtReturn(2)
            /\ wire'[2] = {Plaintext(2)}
         \/ rpcStage'[2] = "refused"
  BY <1>2, <1>3, <1>5 DEF IsOfCalls
<1>7. /\ IsOfCalls(rpcStage') /\ IsOfCalls(rpcParams') /\ IsOfCalls(rpcContext') /\ IsOfCalls(wire')
      /\ IsOfCalls(rpcReply') /\ IsOfCalls(heard') /\ IsOfCalls(rpcFinishes')
  BY <1>2, <1>3, <1>5 DEF IsOfCalls
<1>8. Calls' = Calls BY <1>1, DialStays
<1>9. /\ IsOfCalls(rpcStage)' /\ IsOfCalls(rpcParams)' /\ IsOfCalls(rpcContext)' /\ IsOfCalls(wire)'
      /\ IsOfCalls(rpcReply)' /\ IsOfCalls(heard)' /\ IsOfCalls(rpcFinishes)'
  BY <1>7, <1>8 DEF IsOfCalls
<1>10. CallOk(1)'
  <2>1. RequestBuilds(1) /\ heard[1] = <<>> /\ (rpcContext[1] = "owned" \/ ByReactor(1))
    BY <1>3 DEF CallOk
  <2>2. PICK r : r = Reply("OK", Proto("empty"), <<>>) OBVIOUS
  <2>3. GoodReply(1, r) BY DEF GoodReply
  <2>4. FinGood(1, <<"OK">>) BY <1>4 DEF FinGood
  <2> QED BY <1>1, <1>6, <2>1, <2>2, <2>3, <2>4, DialStays DEF CallOk
<1>11. CallOk(2)'
  <2>1. heard[2] = <<>> /\ FinGood(2, rpcFinishes[2]) BY <1>3 DEF CallOk
  <2>2. ParamsAtReturn(2) = "heap" BY <1>2 DEF ParamsAtReturn, CallAt
  <2> QED BY <1>1, <1>6, <2>1, <2>2, DialStays DEF CallOk
<1>12. ActiveCalls = {} /\ ActiveCalls' = {} BY <1>1, <1>2, DialStays DEF ActiveCalls
<1>13. activeCalls' = Cardinality(ActiveCalls') BY <1>5, <1>12 DEF CallInv
<1>14. KAnonKept'
  <2>1. CallAt(1) # "kAnonQuery" OBVIOUS
  <2> QED BY <1>1, <2>1, KAnonStays
<1>15. JoinKept' BY <1>1, <1>4, <1>6, DialStays DEF JoinKept, Unserved
<1>16. \A j \in Calls' : CallOk(j)' BY <1>2, <1>8, <1>10, <1>11
<1>17. (clientLife # "up" => Counted(1))' BY <1>1, DialStays DEF CallInv
<1> QED BY <1>1, <1>3, <1>9, <1>12, <1>13, <1>14, <1>15, <1>16, <1>17 DEF CallInv

LEMMA ServeKept ==
  ASSUME CallInv, NEW i \in Calls, Serve(i)
  PROVE  CallInv'
<1>1. /\ rpcStage[i] = "sent" /\ FaultAt(i) # "lost" /\ callCase \in DOMAIN CallCases
      /\ UNCHANGED <<callCase, heard, clientLife, kAnonBids, aborted>>
      /\ CallAt(i) # "buyerJoin" => UNCHANGED <<rpcParams, wire, activeCalls, rpcContext>>
  BY DEF Serve, FaultAt, CallAt, CallInv
<1>2. wire[i] = {Plaintext(i)} BY <1>1 DEF CallInv, CallOk
<1>3. CASE CallAt(i) # "buyerJoin"
  <2>1. (CASE CallAt(i) = "buyer" -> GetBidsServer(i)
           [] CallAt(i) = "kAnonQuery" -> QueryReactor(i)
           [] CallAt(i) = "kAnonJoin" -> JoinReactor(i)
           [] OTHER -> OtherServer(i))
    BY <1>3 DEF Serve, CallAt
  <2>2. PICK fs, r : /\ GoodReply(i, r) /\ FinGood(i, fs)
                     /\ rpcStage' = [rpcStage EXCEPT ![i] = "served"]
                     /\ rpcFinishes' = [rpcFinishes EXCEPT ![i] = fs]
                     /\ rpcReply' = [rpcReply EXCEPT ![i] = {r}]
    BY <1>1, <1>2, <1>3, <2>1, ServesWell
  <2> QED BY <1>1, <1>3, <2>2, ServedKept
<1>4. CASE CallAt(i) = "buyerJoin"
  <2>1. i = 1 /\ MicrosoftJoinKAnonReactor BY <1>1, <1>4, JoinIsFirst DEF Serve, CallAt
  <2>2. CASE ~JoinKAnonRefuses(FaultAt(1)) BY <1>1, <1>4, <2>1, <2>2, JoinForwarded
  <2>3. CASE JoinKAnonRefuses(FaultAt(1))
    <3>1. /\ Served(1, <<"INVALID_ARGUMENT">>, Reply("OK", NotAMessage, <<>>))
          /\ UNCHANGED <<rpcParams, wire, activeCalls, rpcContext>>
      BY <2>1, <2>3 DEF MicrosoftJoinKAnonReactor, FaultAt
    <3>2. PICK r : r = [Reply("OK", NotAMessage, <<>>) EXCEPT !.status = <<"INVALID_ARGUMENT">>[Len(<<"INVALID_ARGUMENT">>)]]
      OBVIOUS
    <3>3. GoodReply(1, r) BY <1>4, <2>1 DEF GoodReply
    <3>4. FinGood(1, <<"INVALID_ARGUMENT">>) BY DEF FinGood
    <3>5. /\ rpcStage' = [rpcStage EXCEPT ![1] = "served"]
          /\ rpcFinishes' = [rpcFinishes EXCEPT ![1] = <<"INVALID_ARGUMENT">>]
          /\ rpcReply' = [rpcReply EXCEPT ![1] = {r}]
      BY <3>1, <3>2, Zenon DEF Served
    <3> QED BY <1>1, <2>1, <3>1, <3>3, <3>4, <3>5, ServedKept
  <2> QED BY <2>2, <2>3
<1> QED BY <1>3, <1>4

LEMMA InTheSum ==
  ASSUME NEW a \in Nat, NEW b \in Nat
  PROVE  /\ a + b \in Nat
         /\ \A k \in 1 .. a : k \in 1 .. a + b
         /\ \A k \in 1 .. b : a + k \in 1 .. a + b
OBVIOUS

(* The answers of a query are those of the bids. *)
LEMMA KAnonAttached ==
  ASSUME CallInv, CallAt(1) = "kAnonQuery", 1 \in Calls, rpcStage[1] # "done", FaultAt(1) # "badMessage",
         NEW r,
         \/ FaultAt(1) = "lost" /\ RpcStatus(1) = "DEADLINE_EXCEEDED"
         \/ rpcReply[1] = {r} /\ RpcStatus(1) = r.status /\ GoodReply(1, r),
         NEW h, h = Heard(1), heard' = [heard EXCEPT ![1] = h], callCase' = callCase,
         aborted' = (BuyerAborts(1) \/ WrongCount(1, h)),
         kAnonBids' = IF CallAt(1) = "kAnonQuery" /\ h[1].status = "OK" /\ ~WrongCount(1, h)
                      THEN AttachBiddingMetadata(The(rpcReply[1]).hashes) ELSE kAnonBids
  PROVE  ~aborted' /\ AttachedFor(h[1].status)'
<1>1. ~BuyerAborts(1) BY DEF BuyerAborts, CallAt
<1>2. Dial' = Dial BY DialStays
<1>3. /\ Len(Dial.bids) \in Nat /\ DOMAIN Dial.bids = 1 .. Len(Dial.bids)
      /\ Len(Dial.apps) \in Nat /\ DOMAIN Dial.apps = 1 .. Len(Dial.apps)
  <2>1. Dial.bids \in Seq(DOMAIN UrlHash) /\ Dial.apps \in Seq(DOMAIN UrlHash)
    BY DialIsCall DEF CallInv
  <2>2. \A V : \A s \in Seq(V) : Len(s) \in Nat /\ DOMAIN s = 1 .. Len(s) OBVIOUS
  <2> QED BY <2>1, <2>2
<1>4. CASE h[1].status # "OK"
  <2>1. ~WrongCount(1, h) BY <1>4 DEF WrongCount
  <2>2. kAnonBids' = Unattached BY <1>4 DEF CallInv, KAnonKept
  <2>3. \A k \in DOMAIN Dial.bids : kAnonBids'.bids[k] = "unset" BY <2>2 DEF Unattached
  <2>4. \A k \in DOMAIN Dial.apps : kAnonBids'.apps[k] = "unset" BY <2>2 DEF Unattached
  <2> QED BY <1>1, <1>2, <1>4, <2>1, <2>3, <2>4 DEF AttachedFor
<1>5. CASE h[1].status = "OK"
  <2>1. RpcStatus(1) = "OK"
    <3>1. PICK d : h = OnRpcDone(1, d) BY DEF Heard, CallAt, Counted
    <3>2. RpcStatus(1) # "OK" => h[1] = Error(RpcStatus(1)) BY <3>1 DEF OnRpcDone
    <3> QED BY <1>5, <3>2 DEF Error
  <2>2. rpcReply[1] = {r} /\ r.status = "OK" /\ GoodReply(1, r) BY <2>1
  <2> DEFINE n == Len(Dial.bids) + Len(Dial.apps)
             hashes == [k \in 1 .. n |-> FALSE]
  <2>3. The(rpcReply[1]).hashes = hashes
    <3>1. r.hashes = hashes BY <2>2 DEF GoodReply, QueryReply
    <3> QED BY <2>2, <3>1, TheOne
  <2>4. n \in Nat BY <1>3, InTheSum
  <2>5. Len(hashes) = n
    <3>1. PICK m \in Nat : m = n BY <2>4
    <3>2. Len([k \in 1 .. m |-> FALSE]) = m OBVIOUS
    <3> QED BY <3>1, <3>2
  <2>6. ~WrongCount(1, h) BY <2>3, <2>5 DEF WrongCount
  <2>7. kAnonBids' = AttachBiddingMetadata(hashes) BY <1>5, <2>3, <2>6
  <2>8. \A k \in 1 .. n : AnswerAt(hashes, k) = "no" BY DEF AnswerAt
  <2> HIDE DEF hashes
  <2>9. ASSUME NEW k \in DOMAIN Dial.bids PROVE kAnonBids'.bids[k] = "no"
    <3>1. k \in 1 .. n BY <1>3, InTheSum
    <3>2. kAnonBids'.bids[k] = AnswerAt(hashes, k) BY <2>7 DEF AttachBiddingMetadata
    <3> QED BY <2>8, <3>1, <3>2
  <2>10. ASSUME NEW k \in DOMAIN Dial.apps PROVE kAnonBids'.apps[k] = "no"
    <3>1. Len(Dial.bids) + k \in 1 .. n BY <1>3, InTheSum
    <3>2. kAnonBids'.apps[k] = AnswerAt(hashes, Len(Dial.bids) + k) BY <2>7 DEF AttachBiddingMetadata
    <3> QED BY <2>8, <3>1, <3>2
  <2> QED BY <1>1, <1>2, <1>5, <2>6, <2>9, <2>10 DEF AttachedFor
<1> QED BY <1>4, <1>5

LEMMA RpcDoneKept ==
  ASSUME CallInv, NEW i \in Calls, RpcDone(i)
  PROVE  CallInv'
<1> PICK h : h = Heard(i) OBVIOUS
<1>1. /\ rpcStage[i] = "served" \/ (rpcStage[i] = "sent" /\ FaultAt(i) = "lost")
      /\ heard' = [heard EXCEPT ![i] = h]
      /\ aborted' = (BuyerAborts(i) \/ WrongCount(i, h))
      /\ kAnonBids' = IF CallAt(i) = "kAnonQuery" /\ h[1].status = "OK" /\ ~WrongCount(i, h)
                      THEN AttachBiddingMetadata(The(rpcReply[i]).hashes) ELSE kAnonBids
      /\ rpcParams' = [rpcParams EXCEPT ![i] = "freed"]
      /\ rpcStage' = [rpcStage EXCEPT ![i] = IF Counted(i) THEN "heard" ELSE "done"]
      /\ UNCHANGED <<callCase, rpcContext, wire, rpcReply, rpcFinishes, clientLife, activeCalls>>
  BY Zenon DEF RpcDone, FaultAt, CallAt
<1>2. /\ CallOk(i) /\ aborted \in BOOLEAN /\ callCase \in DOMAIN CallCases
      /\ IsOfCalls(rpcStage) /\ IsOfCalls(rpcParams) /\ IsOfCalls(rpcContext) /\ IsOfCalls(wire)
      /\ IsOfCalls(rpcReply) /\ IsOfCalls(heard) /\ IsOfCalls(rpcFinishes)
  BY DEF CallInv
<1>3. RequestBuilds(i) /\ FinGood(i, rpcFinishes[i]) BY <1>1, <1>2 DEF CallOk
<1>4. PICK r : \/ FaultAt(i) = "lost" /\ RpcStatus(i) = "DEADLINE_EXCEEDED"
               \/ rpcReply[i] = {r} /\ RpcStatus(i) = r.status /\ GoodReply(i, r) /\ FaultAt(i) # "lost"
  <2>1. CASE FaultAt(i) = "lost" BY <2>1 DEF RpcStatus, FaultAt
  <2>2. CASE FaultAt(i) # "lost"
    <3>1. PICK r : rpcReply[i] = {r} /\ GoodReply(i, r) BY <1>1, <1>2, <2>2 DEF CallOk
    <3>2. RpcStatus(i) = r.status BY <2>2, <3>1, TheOne DEF RpcStatus, FaultAt
    <3> QED BY <2>2, <3>1, <3>2
  <2> QED BY <2>1, <2>2
<1>5. GoodHeard(i, h) BY <1>2, <1>3, <1>4, HearsWell
<1>6. /\ rpcStage'[i] = (IF Counted(i) THEN "heard" ELSE "done") /\ heard'[i] = h /\ OnlyCall(i)
  BY <1>1, <1>2 DEF OnlyCall, IsOfCalls
<1>7. CallOk(i)' BY <1>1, <1>3, <1>5, <1>6, DialStays DEF CallOk
<1>8. aborted' \in BOOLEAN BY <1>1
<1>9. IsActive(i)' <=> IsActive(i) BY <1>1, <1>6, DialStays DEF IsActive
<1>10. activeCalls' = Cardinality(ActiveCalls') /\ (ActiveCalls = {} => ActiveCalls' = {})
  BY <1>1, <1>6, <1>9, ActiveCounted DEF OnlyCall
<1>11. KAnonKept'
  <2>1. CASE CallAt(1) # "kAnonQuery" BY <1>1, <2>1, DialStays DEF KAnonKept
  <2>2. CASE CallAt(1) = "kAnonQuery"
    <3>1. i = 1 /\ ~Counted(1) /\ 1 \in Calls
      <4>1. ~Counted(1) BY <2>2 DEF Counted, CallAt
      <4> QED BY <1>2, <2>2, <4>1, DialIsCall
    <3>2. rpcStage'[1] = "done" /\ heard'[1] = h BY <1>6, <3>1
    <3>3. ASSUME FaultAt(1) # "badMessage" PROVE ~aborted' /\ AttachedFor(h[1].status)'
      <4>1. rpcStage[1] # "done" BY <1>1, <3>1
      <4> QED BY <1>1, <1>4, <2>2, <3>1, <3>3, <4>1, KAnonAttached
    <3>4. ASSUME FaultAt(1) # "badMessage" PROVE ~aborted' /\ AttachedFor(heard[1][1].status)'
      BY <3>2, <3>3, <3>4 DEF AttachedFor
    <3> QED BY <1>1, <3>2, <3>4, DialStays DEF KAnonKept
  <2> QED BY <2>1, <2>2
<1>12. clientLife = "gone" => ActiveCalls = {} BY DEF CallInv
<1>13. clientLife' = clientLife /\ callCase' = callCase BY <1>1
<1>14. rpcStage'[i] \notin Unserved /\ rpcStage[i] # "idle" BY <1>1, <1>6 DEF Unserved
<1> QED BY <1>7, <1>8, <1>10, <1>11, <1>12, <1>13, <1>14, <1>6, StepOfCall

LEMMA CountedKept ==
  ASSUME CallInv, NEW i \in Calls, CallCounted(i)
  PROVE  CallInv'
<1>1. /\ rpcStage[i] = "heard" /\ rpcStage' = [rpcStage EXCEPT ![i] = "done"] /\ activeCalls' = activeCalls - 1
      /\ UNCHANGED <<callCase, rpcParams, rpcContext, wire, rpcReply, heard, rpcFinishes, clientLife,
                     kAnonBids, aborted>>
  BY DEF CallCounted
<1>2. /\ CallOk(i) /\ aborted \in BOOLEAN /\ callCase \in DOMAIN CallCases
      /\ IsOfCalls(rpcStage) /\ IsOfCalls(rpcParams) /\ IsOfCalls(rpcContext) /\ IsOfCalls(wire)
      /\ IsOfCalls(rpcReply) /\ IsOfCalls(heard) /\ IsOfCalls(rpcFinishes)
  BY DEF CallInv
<1>3. rpcStage'[i] = "done" /\ OnlyCall(i) BY <1>1, <1>2 DEF OnlyCall, IsOfCalls
<1>4. CallOk(i)' BY <1>1, <1>2, <1>3, DialStays DEF CallOk
<1>5. Counted(i) BY <1>1, <1>2 DEF CallOk
<1>6. IsActive(i) /\ ~IsActive(i)' BY <1>1, <1>3, <1>5 DEF IsActive
<1>7. activeCalls' = Cardinality(ActiveCalls') /\ (ActiveCalls = {} => ActiveCalls' = {})
  BY <1>1, <1>3, <1>6, ActiveCounted DEF OnlyCall
<1>8. CallAt(1) # "kAnonQuery" \/ i # 1 BY <1>5 DEF Counted, CallAt
<1>9. KAnonKept'
  <2>1. 1 \in Calls BY <1>2, DialIsCall
  <2>2. CallAt(1) = "kAnonQuery" => (rpcStage'[1] = "done" <=> rpcStage[1] = "done")
    BY <1>3, <1>8, <2>1 DEF OnlyCall
  <2> QED BY <1>1, <2>2, KAnonStays
<1>10. clientLife = "gone" => ActiveCalls = {} BY DEF CallInv
<1>11. aborted' \in BOOLEAN /\ clientLife' = clientLife /\ callCase' = callCase BY <1>1, <1>2
<1>12. rpcStage'[i] \notin Unserved /\ rpcStage[i] # "idle" BY <1>1, <1>3 DEF Unserved
<1> QED BY <1>3, <1>4, <1>7, <1>9, <1>10, <1>11, <1>12, StepOfCall

(* A step that leaves the stages of the calls, and what is heard, alone. *)
LEMMA StagesStay ==
  ASSUME CallInv, UNCHANGED <<callCase, rpcStage, rpcParams, wire, rpcReply, heard, rpcFinishes,
                              activeCalls, kAnonBids, aborted>>,
         IsOfCalls(rpcContext'),
         \A j \in Calls : rpcContext'[j] = rpcContext[j] \/ ByReactor(j),
         clientLife' # "up" => Counted(1), clientLife' = "gone" => ActiveCalls = {}
  PROVE  CallInv'
<1>1. /\ callCase \in DOMAIN CallCases /\ aborted \in BOOLEAN /\ callCase' = callCase
      /\ activeCalls = Cardinality(ActiveCalls) /\ JoinKept /\ (\A j \in Calls : CallOk(j))
      /\ IsOfCalls(rpcStage) /\ IsOfCalls(rpcParams) /\ IsOfCalls(wire)
      /\ IsOfCalls(rpcReply) /\ IsOfCalls(heard) /\ IsOfCalls(rpcFinishes)
  BY DEF CallInv
<1>2. /\ Calls' = Calls /\ CallAt(1)' = CallAt(1) /\ FaultAt(1)' = FaultAt(1) /\ (Counted(1)' <=> Counted(1))
  BY <1>1, DialStays
<1>3. \A j \in Calls' : CallOk(j)' BY <1>1, <1>2, OtherCall
<1>4. /\ IsOfCalls(rpcStage)' /\ IsOfCalls(rpcParams)' /\ IsOfCalls(rpcContext)' /\ IsOfCalls(wire)'
      /\ IsOfCalls(rpcReply)' /\ IsOfCalls(heard)' /\ IsOfCalls(rpcFinishes)'
  BY <1>1, <1>2 DEF IsOfCalls
<1>5. ActiveCalls' = ActiveCalls BY <1>1, DialStays DEF ActiveCalls
<1>6. KAnonKept' BY <1>1, KAnonStays
<1>7. JoinKept' BY <1>1, <1>2 DEF JoinKept
<1> QED BY <1>1, <1>2, <1>3, <1>4, <1>5, <1>6, <1>7 DEF CallInv

LEMMA CallNextInv ==
  ASSUME CallInv, CallNext \/ UNCHANGED callVars
  PROVE  CallInv'
<1>1. ASSUME NEW i \in Calls, ExecuteInternal(i) PROVE CallInv' BY <1>1, ExecuteKept
<1>2. ASSUME NEW i \in Calls, Serve(i) PROVE CallInv' BY <1>2, ServeKept
<1>3. ASSUME NEW i \in Calls, RpcDone(i) PROVE CallInv' BY <1>3, RpcDoneKept
<1>4. ASSUME NEW i \in Calls, CallCounted(i) PROVE CallInv' BY <1>4, CountedKept
<1>5. CASE ReactorDone
  <2>1. /\ CallAt(1) = "buyerJoin" /\ rpcContext' = [rpcContext EXCEPT ![2] = "freed"]
        /\ UNCHANGED <<callCase, rpcStage, rpcParams, wire, rpcReply, heard, rpcFinishes, clientLife,
                       activeCalls, kAnonBids, aborted>>
    BY <1>5 DEF ReactorDone, CallAt
  <2>2. IsOfCalls(rpcContext) /\ (clientLife # "up" => Counted(1)) /\ (clientLife = "gone" => ActiveCalls = {})
    BY DEF CallInv
  <2>3. IsOfCalls(rpcContext') /\ (\A j \in Calls \ {2} : rpcContext'[j] = rpcContext[j])
    BY <2>1, <2>2 DEF IsOfCalls
  <2>4. ByReactor(2) BY <2>1 DEF ByReactor, CallAt
  <2>5. \A j \in Calls : rpcContext'[j] = rpcContext[j] \/ ByReactor(j) BY <2>3, <2>4
  <2> QED BY <2>1, <2>2, <2>3, <2>5, StagesStay
<1>6. CASE DestroyClient
  <2>1. /\ Counted(1) /\ clientLife' = "closing"
        /\ UNCHANGED <<callCase, rpcStage, rpcParams, rpcContext, wire, rpcReply, heard, rpcFinishes,
                       activeCalls, kAnonBids, aborted>>
    BY <1>6 DEF DestroyClient
  <2>2. IsOfCalls(rpcContext') BY <2>1 DEF CallInv
  <2> QED BY <2>1, <2>2, StagesStay
<1>7. CASE ClientDestroyed
  <2>1. /\ clientLife = "closing" /\ activeCalls = 0 /\ clientLife' = "gone"
        /\ UNCHANGED <<callCase, rpcStage, rpcParams, rpcContext, wire, rpcReply, heard, rpcFinishes,
                       activeCalls, kAnonBids, aborted>>
    BY <1>7 DEF ClientDestroyed
  <2>2. IsOfCalls(rpcContext') /\ Counted(1) BY <2>1 DEF CallInv
  <2>3. ActiveCalls = {} BY <2>1, ActiveAreFinite, FS_EmptySet DEF CallInv
  <2> QED BY <2>1, <2>2, <2>3, StagesStay
<1>8. CASE UNCHANGED callVars
  <2>1. /\ UNCHANGED <<callCase, rpcStage, rpcParams, rpcContext, wire, rpcReply, heard, rpcFinishes,
                       activeCalls, kAnonBids, aborted>>
        /\ clientLife' = clientLife
    BY <1>8 DEF callVars
  <2>2. IsOfCalls(rpcContext') /\ (clientLife # "up" => Counted(1)) /\ (clientLife = "gone" => ActiveCalls = {})
    BY <2>1 DEF CallInv
  <2> QED BY <2>1, <2>2, StagesStay
<1> QED BY <1>1, <1>2, <1>3, <1>4, <1>5, <1>6, <1>7, <1>8 DEF CallNext

LEMMA CallsSound ==
  ASSUME CallInv
  PROVE  HeardOnce /\ BidsArriveOrFail /\ BuffersOutliveTheCall /\ NoCallbackAfterClient
         /\ UndecryptedIsRefused /\ KAnonStatusAttached
<1>1. callCase \in DOMAIN CallCases /\ (\A i \in Calls : CallOk(i)) /\ 1 \in Calls
  BY DialIsCall DEF CallInv
<1>2. HeardOnce
  <2>1. ASSUME NEW i \in Calls, rpcStage[i] \in {"done", "heard"}
        PROVE  /\ Len(heard[i]) = (IF Dial.clients[i] = "buyerJoin" THEN 0 ELSE 1)
               /\ heard[i] # <<>> /\ heard[i][1].status = "OK"
                    => /\ Dial.faults[i] \in {"none", "badMessage"} /\ Dial.clients[i] # "kAnonJoin"
                       /\ heard[i][1].msg # {}
    <3>1. GoodHeard(i, heard[i]) BY <1>1, <2>1 DEF CallOk
    <3>2. CASE CallAt(i) = "buyerJoin"
      <4>1. heard[i] = <<>> BY <3>1, <3>2 DEF GoodHeard
      <4> QED BY <3>2, <4>1 DEF CallAt
    <3>3. CASE CallAt(i) # "buyerJoin"
      <4>1. PICK a : heard[i] = <<a>> /\
              (a.status = "OK" => /\ FaultAt(i) \in {"none", "badMessage"} /\ CallAt(i) # "kAnonJoin"
                                  /\ a.msg # {})
        BY <3>1, <3>3 DEF GoodHeard
      <4>2. Len(<<a>>) = 1 /\ <<a>>[1] = a OBVIOUS
      <4> QED BY <3>3, <4>1, <4>2 DEF CallAt, FaultAt
    <3> QED BY <3>2, <3>3
  <2>2. ASSUME NEW i \in Calls, rpcStage[i] # "done", rpcStage[i] # "heard" PROVE heard[i] = <<>>
    BY <1>1, <2>2 DEF CallOk
  <2> QED BY <2>1, <2>2 DEF HeardOnce
<1>3. BidsArriveOrFail
  <2> SUFFICES ASSUME CallAt(1) = "buyer", FaultAt(1) = "none", rpcStage[1] = "done"
               PROVE  heard[1] = IF Dial.chaff.seller /\ ~Dial.chaff.buyer THEN <<Error("INVALID_ARGUMENT")>>
                                 ELSE IF Dial.chaff.request THEN <<Ok("noBids")>>
                                 ELSE <<Ok(BidsMessage)>>
    BY DEF BidsArriveOrFail, CallAt, FaultAt
  <2>1. GoodHeard(1, heard[1]) BY <1>1 DEF CallOk
  <2>2. heard[1] = IF Dial.chaff.seller /\ ~Dial.chaff.buyer THEN <<Error("INVALID_ARGUMENT")>>
                   ELSE <<Ok(BuyerMessage)>>
    BY <2>1 DEF GoodHeard
  <2> QED BY <2>2 DEF BuyerMessage
<1>4. BuffersOutliveTheCall BY <1>1 DEF CallOk, BuffersOutliveTheCall, CallAt
<1>5. NoCallbackAfterClient
  <2> SUFFICES ASSUME clientLife = "gone", NEW i \in Calls PROVE rpcStage[i] \in {"idle", "refused", "done"}
    BY DEF NoCallbackAfterClient
  <2>1. Counted(1) /\ ActiveCalls = {} BY DEF CallInv
  <2>2. Counted(i)
    <3>1. CallAt(1) # "buyerJoin" BY <2>1 DEF Counted, CallAt
    <3> QED BY <1>1, <2>1, <3>1, DialIsCall
  <2> QED BY <1>1, <2>1, <2>2 DEF ActiveCalls, CallOk
<1>6. UndecryptedIsRefused
  <2> SUFFICES ASSUME NEW i \in Calls, ~RequestDecrypts(FaultAt(i)), rpcFinishes[i] # <<>>
               PROVE  /\ rpcFinishes[i][Len(rpcFinishes[i])] # "OK"
                      /\ CallAt(1) = "buyerJoin" /\ i = 1 => rpcStage[2] = "idle"
    BY DEF UndecryptedIsRefused, FaultAt, CallAt
  <2>1. FinGood(i, rpcFinishes[i]) BY <1>1 DEF CallOk
  <2>2. JoinKept BY DEF CallInv
  <2> QED BY <2>1, <2>2 DEF FinGood, JoinKept
<1>7. KAnonStatusAttached
  <2>1. KAnonKept BY DEF CallInv
  <2> QED BY <2>1 DEF KAnonKept, KAnonStatusAttached, AttachedFor, CallAt, FaultAt
<1> QED BY <1>2, <1>3, <1>4, <1>5, <1>6, <1>7
-----------------------------------------------------------------------------
(* The key/value calls of generateBid scripts, for any flags and any two     *)
(* batches of requests.                                                      *)

Wanted(c) == 1 .. Len(Reqs(c))
CallKinds == {"noClient", "refused", "values", "failed"}

(* The requests whose answer is in the message and counted. *)
Settled(c) == {i \in Wanted(c) : cb[c][i] \in CallKinds /\ slot[c][i] = 0}

IsOfScripts(f) == f = [c \in Scripts |-> f[c]]

ScriptType(c) ==
  /\ pc[c] \in {"start", "loop", "context", "answering", "returned"}
  /\ turn[c] \in 1 .. Len(Reqs(c)) + 1
  /\ cb[c] \in [Wanted(c) -> {"idle", "out"} \cup CallKinds] /\ slot[c] \in [Wanted(c) -> Nat]
  /\ answers[c] \in Seq([name : STRING, kind : {"idle", "out"} \cup CallKinds])
  /\ overlap[c] \in BOOLEAN

(* The requests before the turn are sent or answered, those after it idle. *)
ScriptOrder(c) ==
  /\ pc[c] \in {"context", "answering"} => turn[c] <= Len(Reqs(c))
  /\ \A i \in Wanted(c) :
       /\ i < turn[c] => cb[c][i] # "idle"
       /\ i > turn[c] => cb[c][i] = "idle"
       /\ i = turn[c] => IF pc[c] = "answering" THEN cb[c][i] \in CallKinds ELSE cb[c][i] = "idle"
       /\ cb[c][i] \in {"idle", "out"} => slot[c][i] = 0
  /\ pc[c] = "start" => turn[c] = 1
  /\ pc[c] = "returned" => \/ turn[c] = 1 /\ (rin.reqs[c].ok => Reqs(c) = <<>>)
                           \/ Settled(c) = Wanted(c)

(* As long as no two additions met, there is at most one, at the end of the  *)
(* message, and the message holds an answer for each settled request.        *)
MessageIsWhole(c) ==
  ~overlap[c] =>
    /\ \A i, j \in Wanted(c) : slot[c][i] # 0 /\ slot[c][j] # 0 => i = j
    /\ \A i \in Wanted(c) : slot[c][i] # 0 => slot[c][i] = Len(answers[c]) + 1
    /\ \E f \in Bijection(1 .. Len(answers[c]), Settled(c)) :
         \A k \in 1 .. Len(answers[c]) : answers[c][k] = KVAnswer(c, f[k])

ScriptInv(c) ==
  /\ ScriptType(c) /\ ScriptOrder(c) /\ MessageIsWhole(c)
  /\ counter[c] = Cardinality(Settled(c))

RouteInv ==
  /\ rin \in RouteInputs /\ pool = CreateConnections(rin)
  /\ IsOfScripts(pc) /\ IsOfScripts(turn) /\ IsOfScripts(cb) /\ IsOfScripts(slot)
  /\ IsOfScripts(answers) /\ IsOfScripts(counter) /\ IsOfScripts(overlap)
  /\ \A c \in Scripts : ScriptInv(c)

LEMMA BatchIsList ==
  ASSUME rin \in RouteInputs, NEW c \in Scripts
  PROVE  /\ Reqs(c) \in Seq(STRING) /\ Len(Reqs(c)) \in Nat /\ DOMAIN Reqs(c) = Wanted(c)
         /\ \A i \in Wanted(c) : Reqs(c)[i] \in STRING
<1>1. Reqs(c) \in Seq(STRING) BY RouteInputsAreBatches DEF Reqs
<1> QED BY <1>1 DEF Wanted

LEMMA SettledAreFinite ==
  ASSUME rin \in RouteInputs, NEW c \in Scripts
  PROVE  /\ IsFiniteSet(Wanted(c)) /\ Cardinality(Wanted(c)) = Len(Reqs(c))
         /\ IsFiniteSet(Settled(c)) /\ Cardinality(Settled(c)) \in Nat
         /\ Cardinality(Settled(c)) <= Len(Reqs(c))
         /\ Cardinality(Settled(c)) = Len(Reqs(c)) => Settled(c) = Wanted(c)
<1>1. Len(Reqs(c)) \in Nat BY BatchIsList
<1>2. IsFiniteSet(Wanted(c)) /\ Cardinality(Wanted(c)) = Len(Reqs(c))
  BY <1>1, FS_Interval DEF Wanted
<1>3. Settled(c) \subseteq Wanted(c) BY DEF Settled
<1>4. IsFiniteSet(Settled(c)) /\ Cardinality(Settled(c)) <= Cardinality(Wanted(c))
      /\ (Cardinality(Settled(c)) = Cardinality(Wanted(c)) => Settled(c) = Wanted(c))
  BY <1>2, <1>3, FS_Subset
<1> QED BY <1>2, <1>4, FS_CardinalityType

(* The message is as whole as before when nothing is added. *)
LEMMA WholeStays ==
  ASSUME NEW c \in Scripts, MessageIsWhole(c), rin' = rin, answers'[c] = answers[c],
         overlap'[c] = overlap[c], slot'[c] = slot[c], Settled(c)' = Settled(c),
         \A i \in Settled(c) : cb'[c][i] = cb[c][i]
  PROVE  MessageIsWhole(c)'
<1>1. Reqs(c)' = Reqs(c) BY DEF Reqs
<1>2. Wanted(c)' = Wanted(c) BY <1>1 DEF Wanted
<1>3. \A i \in Settled(c) : KVAnswer(c, i)' = KVAnswer(c, i) BY <1>1 DEF KVAnswer
<1>4. PICK n : n = 1 .. Len(answers[c]) OBVIOUS
<1>5. CASE overlap[c] BY <1>5, Zenon DEF MessageIsWhole
<1>6. CASE ~overlap[c]
  <2>1. PICK f \in Bijection(n, Settled(c)) : \A k \in n : answers[c][k] = KVAnswer(c, f[k])
    BY <1>4, <1>6, Zenon DEF MessageIsWhole
  <2>2. \A k \in n : f[k] \in Settled(c) BY <2>1 DEF Bijection, Injection
  <2>3. \A k \in n : answers'[c][k] = KVAnswer(c, f[k])' BY <1>3, <2>1, <2>2, Zenon
  <2>4. /\ \A i, j \in Wanted(c)' : slot'[c][i] # 0 /\ slot'[c][j] # 0 => i = j
        /\ \A i \in Wanted(c)' : slot'[c][i] # 0 => slot'[c][i] = Len(answers'[c]) + 1
    BY <1>2, <1>6, Zenon DEF MessageIsWhole
  <2>5. f \in Bijection(1 .. Len(answers'[c]), Settled(c)') BY <1>4, <2>1
  <2>6. n = 1 .. Len(answers'[c]) BY <1>4
  <2> QED BY <2>3, <2>4, <2>5, <2>6, Zenon DEF MessageIsWhole
<1> QED BY <1>5, <1>6

(* The other script's part of the state does not move. *)
LEMMA OtherScript ==
  ASSUME NEW d \in Scripts, ScriptInv(d), rin' = rin, pc'[d] = pc[d], turn'[d] = turn[d],
         cb'[d] = cb[d], slot'[d] = slot[d], answers'[d] = answers[d],
         counter'[d] = counter[d], overlap'[d] = overlap[d]
  PROVE  ScriptInv(d)'
<1>1. Reqs(d)' = Reqs(d) BY DEF Reqs
<1>2. Wanted(d)' = Wanted(d) BY <1>1 DEF Wanted
<1>3. Settled(d)' = Settled(d) BY <1>2 DEF Settled
<1>4. ScriptType(d)' BY <1>1, <1>2 DEF ScriptInv, ScriptType
<1>5. ScriptOrder(d)' BY <1>1, <1>2, <1>3 DEF ScriptInv, ScriptOrder
<1>6. MessageIsWhole(d)' BY <1>3, WholeStays DEF ScriptInv
<1> QED BY <1>3, <1>4, <1>5, <1>6 DEF ScriptInv

OnlyScript(c) ==
  /\ IsOfScripts(pc') /\ IsOfScripts(turn') /\ IsOfScripts(cb') /\ IsOfScripts(slot')
  /\ IsOfScripts(answers') /\ IsOfScripts(counter') /\ IsOfScripts(overlap')
  /\ \A d \in Scripts \ {c} :
       /\ pc'[d] = pc[d] /\ turn'[d] = turn[d] /\ cb'[d] = cb[d] /\ slot'[d] = slot[d]
       /\ answers'[d] = answers[d] /\ counter'[d] = counter[d] /\ overlap'[d] = overlap[d]

LEMMA OneScriptMoves ==
  ASSUME RouteInv, NEW c \in Scripts, rin' = rin, pool' = pool, ScriptInv(c)', OnlyScript(c)
  PROVE  RouteInv'
<1>1. ASSUME NEW d \in Scripts \ {c} PROVE ScriptInv(d)'
  BY <1>1, OtherScript DEF RouteInv, OnlyScript
<1>2. CreateConnections(rin)' = CreateConnections(rin) BY DEF CreateConnections
<1> QED BY <1>1, <1>2 DEF RouteInv, OnlyScript, IsOfScripts

LEMMA RouteInitInv == RouteInit => RouteInv
<1> SUFFICES ASSUME RouteInit PROVE RouteInv OBVIOUS
<1>1. rin \in RouteInputs /\ pool = CreateConnections(rin) BY DEF RouteInit
<1>2. ASSUME NEW c \in Scripts PROVE ScriptInv(c)
  <2>1. Len(Reqs(c)) \in Nat /\ DOMAIN Reqs(c) = Wanted(c) BY <1>1, BatchIsList
  <2>2. /\ pc[c] = "start" /\ turn[c] = 1 /\ cb[c] = [i \in Wanted(c) |-> "idle"]
        /\ slot[c] = [i \in Wanted(c) |-> 0] /\ answers[c] = <<>> /\ counter[c] = 0
        /\ overlap[c] = FALSE
    BY <2>1 DEF RouteInit
  <2>3. Settled(c) = {} BY <2>2 DEF Settled, CallKinds
  <2>4. ScriptType(c)
    <3>1. answers[c] \in Seq([name : STRING, kind : {"idle", "out"} \cup CallKinds]) BY <2>2
    <3>2. turn[c] \in 1 .. Len(Reqs(c)) + 1 BY <2>1, <2>2
    <3>3. cb[c] \in [Wanted(c) -> {"idle", "out"} \cup CallKinds] BY <2>2
    <3>4. slot[c] \in [Wanted(c) -> Nat] BY <2>2
    <3> QED BY <2>2, <3>1, <3>2, <3>3, <3>4 DEF ScriptType
  <2>5. ScriptOrder(c) BY <2>1, <2>2 DEF ScriptOrder, Wanted
  <2>6. MessageIsWhole(c)
    <3>1. Len(answers[c]) = 0 /\ 1 .. Len(answers[c]) = {} BY <2>2
    <3>2. PICK f : f = [k \in {} |-> k] OBVIOUS
    <3>3. f \in [{} -> {}] BY <3>2
    <3>4. f \in Bijection({}, {}) BY <3>3 DEF Bijection, Injection, Surjection, IsInjective
    <3>5. \A k \in {} : answers[c][k] = KVAnswer(c, f[k]) OBVIOUS
    <3>6. \A i \in Wanted(c) : slot[c][i] = 0 BY <2>2
    <3> QED BY <2>2, <2>3, <3>1, <3>4, <3>5, <3>6, Zenon DEF MessageIsWhole
  <2>7. counter[c] = Cardinality(Settled(c)) BY <2>2, <2>3, FS_EmptySet
  <2> QED BY <2>4, <2>5, <2>6, <2>7 DEF ScriptInv
<1>3. /\ IsOfScripts(pc) /\ IsOfScripts(turn) /\ IsOfScripts(cb) /\ IsOfScripts(slot)
      /\ IsOfScripts(answers) /\ IsOfScripts(counter) /\ IsOfScripts(overlap)
  BY DEF RouteInit, IsOfScripts
<1> QED BY <1>1, <1>2, <1>3 DEF RouteInv

(* One step of a script's thread that adds nothing to the message. *)
LEMMA FetchAdditionalSignalsKeeps ==
  ASSUME RouteInv, NEW c \in Scripts, FetchAdditionalSignals(c) \/ Collect(c)
  PROVE  RouteInv'
<1>1. /\ UNCHANGED <<rin, pool, turn, cb, slot, answers, counter, overlap>>
      /\ \E p \in {"loop", "returned"} : pc' = [pc EXCEPT ![c] = p]
  BY DEF FetchAdditionalSignals, Collect
<1>2. Reqs(c)' = Reqs(c) BY <1>1 DEF Reqs
<1>3. Wanted(c)' = Wanted(c) BY <1>2 DEF Wanted
<1>4. Settled(c)' = Settled(c) BY <1>1, <1>3 DEF Settled
<1>5. pc'[c] \in {"loop", "returned"} /\ IsOfScripts(pc') /\ \A d \in Scripts \ {c} : pc'[d] = pc[d]
  BY <1>1 DEF RouteInv, IsOfScripts
<1>6. ScriptInv(c) BY DEF RouteInv
<1>7. rin \in RouteInputs BY DEF RouteInv
<1>8. ScriptType(c)' BY <1>1, <1>2, <1>3, <1>5, <1>6 DEF ScriptInv, ScriptType
<1>9. ScriptOrder(c)'
  <2>1. pc'[c] = "returned" => \/ turn[c] = 1 /\ (rin.reqs[c].ok => Reqs(c) = <<>>)
                               \/ Settled(c) = Wanted(c)
    <3>1. CASE FetchAdditionalSignals(c)
      BY <1>5, <1>6, <3>1 DEF FetchAdditionalSignals, ScriptInv, ScriptOrder, RouteInv, IsOfScripts
    <3>2. CASE Collect(c)
      BY <1>6, <1>7, <3>2, SettledAreFinite, BatchIsList DEF Collect, ScriptInv, AllAnswered
    <3> QED BY <3>1, <3>2
  <2>2. pc[c] \in {"start", "loop"} BY DEF FetchAdditionalSignals, Collect
  <2> QED BY <1>1, <1>2, <1>3, <1>4, <1>5, <1>6, <2>1, <2>2 DEF ScriptInv, ScriptOrder
<1>10. MessageIsWhole(c)' BY <1>1, <1>4, <1>6, WholeStays DEF ScriptInv
<1>11. ScriptInv(c)' BY <1>1, <1>4, <1>6, <1>8, <1>9, <1>10 DEF ScriptInv
<1>12. OnlyScript(c) BY <1>1, <1>5 DEF OnlyScript, RouteInv, IsOfScripts
<1> QED BY <1>1, <1>11, <1>12, OneScriptMoves

(* The first half of an addition: the request is out of the loop's and the   *)
(* server's hands and not settled yet.                                       *)
LEMMA AddBegun ==
  ASSUME RouteInv, NEW c \in Scripts, NEW i \in Wanted(c), NEW k \in CallKinds,
         cb[c][i] \in {"idle", "out"}, BeginAdd(c, i, k), rin' = rin, answers' = answers
  PROVE  /\ Settled(c)' = Settled(c) /\ MessageIsWhole(c)'
         /\ cb'[c] = [cb[c] EXCEPT ![i] = k] /\ overlap'[c] \in BOOLEAN
         /\ slot'[c] \in [Wanted(c) -> Nat] /\ slot'[c][i] # 0
         /\ \A j \in Wanted(c) \ {i} : slot'[c][j] = slot[c][j]
         /\ IsOfScripts(cb') /\ IsOfScripts(slot') /\ IsOfScripts(overlap')
         /\ \A d \in Scripts \ {c} : cb'[d] = cb[d] /\ slot'[d] = slot[d] /\ overlap'[d] = overlap[d]
<1>1. Reqs(c)' = Reqs(c) BY DEF Reqs
<1>2. Wanted(c)' = Wanted(c) BY <1>1 DEF Wanted
<1>3. ScriptInv(c) /\ rin \in RouteInputs BY DEF RouteInv
<1>4. Len(answers[c]) \in Nat /\ DOMAIN Reqs(c) = Wanted(c)
  BY <1>3, BatchIsList DEF ScriptInv, ScriptType
<1> DEFINE sl == [slot[c] EXCEPT ![i] = Len(answers[c]) + 1]
           ov == overlap[c] \/ \E j \in DOMAIN Reqs(c) \ {i} : slot[c][j] # 0
<1>5. /\ cb' = [cb EXCEPT ![c] = [cb[c] EXCEPT ![i] = k]] /\ slot' = [slot EXCEPT ![c] = sl]
      /\ overlap' = [overlap EXCEPT ![c] = ov]
  BY DEF BeginAdd, RouteInv, IsOfScripts
<1>6. IsOfScripts(cb) /\ IsOfScripts(slot) /\ IsOfScripts(overlap) BY DEF RouteInv
<1> HIDE DEF sl, ov
<1>7. /\ cb'[c] = [cb[c] EXCEPT ![i] = k] /\ IsOfScripts(cb')
      /\ \A d \in Scripts \ {c} : cb'[d] = cb[d]
  BY <1>5, <1>6 DEF IsOfScripts
<1>8. slot'[c] = sl /\ IsOfScripts(slot') /\ \A d \in Scripts \ {c} : slot'[d] = slot[d]
  BY <1>5, <1>6 DEF IsOfScripts
<1>9. overlap'[c] = ov /\ IsOfScripts(overlap') /\ \A d \in Scripts \ {c} : overlap'[d] = overlap[d]
  BY <1>5, <1>6 DEF IsOfScripts
<1>10. /\ slot'[c] \in [Wanted(c) -> Nat] /\ slot'[c][i] = Len(answers[c]) + 1
       /\ \A j \in Wanted(c) \ {i} : slot'[c][j] = slot[c][j]
  BY <1>3, <1>4, <1>8 DEF sl, ScriptInv, ScriptType
<1>11. /\ cb'[c][i] = k /\ \A j \in Wanted(c) \ {i} : cb'[c][j] = cb[c][j]
  BY <1>3, <1>7 DEF ScriptInv, ScriptType
<1>12. slot'[c][i] # 0 BY <1>4, <1>10
<1>13. Settled(c)' = Settled(c)
  <2>1. i \notin Settled(c) BY DEF Settled, CallKinds
  <2>2. Settled(c)' = {j \in Wanted(c) : cb'[c][j] \in CallKinds /\ slot'[c][j] = 0}
    BY <1>2 DEF Settled
  <2> QED BY <1>10, <1>11, <1>12, <2>1, <2>2 DEF Settled
<1>14. overlap'[c] \in BOOLEAN BY <1>3, <1>9 DEF ov, ScriptInv, ScriptType
<1>15. MessageIsWhole(c)'
  <2>1. CASE overlap'[c] BY <2>1, Zenon DEF MessageIsWhole
  <2>2. CASE ~overlap'[c]
    <3>1. ~overlap[c] /\ \A j \in Wanted(c) \ {i} : slot[c][j] = 0 BY <1>4, <1>9, <2>2 DEF ov
    <3>2. \A j \in Wanted(c) : slot'[c][j] # 0 => j = i BY <1>10, <3>1
    <3>3. PICK n : n = 1 .. Len(answers[c]) OBVIOUS
    <3>4. PICK f \in Bijection(n, Settled(c)) : \A m \in n : answers[c][m] = KVAnswer(c, f[m])
      BY <1>3, <3>1, <3>3, Zenon DEF ScriptInv, MessageIsWhole
    <3>5. \A m \in n : f[m] \in Settled(c) BY <3>4 DEF Bijection, Injection
    <3>6. i \notin Settled(c) BY DEF Settled, CallKinds
    <3>7. \A j \in Settled(c) : KVAnswer(c, j)' = KVAnswer(c, j)
      BY <1>1, <1>11, <3>6 DEF KVAnswer, Settled
    <3>8. \A m \in n : answers'[c][m] = KVAnswer(c, f[m])' BY <3>4, <3>5, <3>7, Zenon
    <3>9. /\ \A a, b \in Wanted(c)' : slot'[c][a] # 0 /\ slot'[c][b] # 0 => a = b
          /\ \A a \in Wanted(c)' : slot'[c][a] # 0 => slot'[c][a] = Len(answers'[c]) + 1
      BY <1>2, <1>10, <3>2
    <3>10. f \in Bijection(1 .. Len(answers'[c]), Settled(c)') /\ n = 1 .. Len(answers'[c])
      BY <1>13, <3>3, <3>4
    <3> QED BY <3>8, <3>9, <3>10, Zenon DEF MessageIsWhole
  <2> QED BY <2>1, <2>2
<1> QED BY <1>7, <1>8, <1>9, <1>10, <1>12, <1>13, <1>14, <1>15

(* An answer that begins: the thread's own for the request of its turn, or   *)
(* the callback's for one that is out.                                       *)
LEMMA AdditionKeeps ==
  ASSUME RouteInv, NEW c \in Scripts, NEW i \in Wanted(c), NEW k \in CallKinds,
         BeginAdd(c, i, k), UNCHANGED <<rin, pool, turn, answers, counter>>,
         \/ i = turn[c] /\ pc[c] \in {"loop", "context"} /\ pc' = [pc EXCEPT ![c] = "answering"]
         \/ cb[c][i] = "out" /\ pc' = pc
  PROVE  RouteInv'
<1>1. Reqs(c)' = Reqs(c) BY DEF Reqs
<1>2. Wanted(c)' = Wanted(c) BY <1>1 DEF Wanted
<1>3. ScriptInv(c) /\ rin \in RouteInputs BY DEF RouteInv
<1>4. cb[c][i] \in {"idle", "out"}
  BY <1>3 DEF ScriptInv, ScriptOrder
<1>5. /\ Settled(c)' = Settled(c) /\ MessageIsWhole(c)'
      /\ cb'[c] = [cb[c] EXCEPT ![i] = k] /\ overlap'[c] \in BOOLEAN
      /\ slot'[c] \in [Wanted(c) -> Nat] /\ slot'[c][i] # 0
      /\ \A j \in Wanted(c) \ {i} : slot'[c][j] = slot[c][j]
      /\ IsOfScripts(cb') /\ IsOfScripts(slot') /\ IsOfScripts(overlap')
      /\ \A d \in Scripts \ {c} : cb'[d] = cb[d] /\ slot'[d] = slot[d] /\ overlap'[d] = overlap[d]
  BY <1>4, AddBegun
<1>6. /\ IsOfScripts(pc') /\ \A d \in Scripts \ {c} : pc'[d] = pc[d]
      /\ \/ i = turn[c] /\ pc[c] \in {"loop", "context"} /\ pc'[c] = "answering"
         \/ cb[c][i] = "out" /\ pc'[c] = pc[c]
  BY DEF RouteInv, IsOfScripts
<1>7. cb'[c] \in [Wanted(c) -> {"idle", "out"} \cup CallKinds] /\ cb'[c][i] = k
      /\ \A j \in Wanted(c) \ {i} : cb'[c][j] = cb[c][j]
  BY <1>3, <1>5 DEF ScriptInv, ScriptType
<1>8. ScriptType(c)' BY <1>1, <1>2, <1>3, <1>5, <1>6, <1>7 DEF ScriptInv, ScriptType
<1>9. ScriptOrder(c)'
  <2>1. turn[c] \in Nat /\ Len(Reqs(c)) \in Nat /\ k \notin {"idle", "out"}
    BY <1>3, BatchIsList DEF ScriptInv, ScriptType, CallKinds
  <2>2. \A j \in Wanted(c) \ {i} :
          /\ j < turn[c] => cb'[c][j] # "idle"
          /\ j > turn[c] => cb'[c][j] = "idle"
          /\ j = turn[c] => IF pc'[c] = "answering" THEN cb'[c][j] \in CallKinds ELSE cb'[c][j] = "idle"
          /\ cb'[c][j] \in {"idle", "out"} => slot'[c][j] = 0
    BY <1>3, <1>5, <1>6, <1>7 DEF ScriptInv, ScriptOrder
  <2>3. /\ ~(i > turn[c]) /\ (i = turn[c] => pc'[c] = "answering") /\ cb'[c][i] \in CallKinds
    BY <1>3, <1>6, <1>7, <2>1 DEF ScriptInv, ScriptOrder, CallKinds
  <2>4. pc'[c] \in {"context", "answering"} => turn[c] <= Len(Reqs(c))
    BY <1>3, <1>6, <2>1 DEF ScriptInv, ScriptOrder, Wanted
  <2>5. (pc'[c] = "start" => turn[c] = 1) BY <1>3, <1>6 DEF ScriptInv, ScriptOrder
  <2>6. pc'[c] # "returned"
    <3>1. CASE pc'[c] = "answering" BY <3>1
    <3>2. CASE cb[c][i] = "out" /\ pc'[c] = pc[c]
      <4>1. i \notin Settled(c) BY <3>2 DEF Settled, CallKinds
      <4>2. turn[c] # 1
        <5>1. i > 1 \/ i = 1 BY <2>1 DEF Wanted
        <5> QED BY <1>3, <3>2, <5>1, <2>1 DEF ScriptInv, ScriptOrder, CallKinds
      <4> QED BY <1>3, <3>2, <4>1, <4>2 DEF ScriptInv, ScriptOrder
    <3> QED BY <1>6, <3>1, <3>2
  <2>7. \A j \in Wanted(c) :
          /\ j < turn[c] => cb'[c][j] # "idle"
          /\ j > turn[c] => cb'[c][j] = "idle"
          /\ j = turn[c] => IF pc'[c] = "answering" THEN cb'[c][j] \in CallKinds ELSE cb'[c][j] = "idle"
          /\ cb'[c][j] \in {"idle", "out"} => slot'[c][j] = 0
    BY <1>7, <2>1, <2>2, <2>3
  <2> QED BY <1>1, <1>2, <2>4, <2>5, <2>6, <2>7 DEF ScriptOrder
<1>10. ScriptInv(c)' BY <1>3, <1>5, <1>8, <1>9 DEF ScriptInv
<1>11. OnlyScript(c) BY <1>5, <1>6 DEF OnlyScript, RouteInv
<1> QED BY <1>10, <1>11, OneScriptMoves

LEMMA SendRequestKeeps ==
  ASSUME RouteInv, NEW c \in Scripts, SendRequestToKVServer(c)
  PROVE  RouteInv'
<1>1. /\ pc[c] = "loop" /\ turn[c] <= Len(Reqs(c))
      /\ UNCHANGED <<rin, pool, turn, answers, counter>>
  BY DEF SendRequestToKVServer
<1>2. ScriptInv(c) /\ rin \in RouteInputs BY DEF RouteInv
<1>3. turn[c] \in Wanted(c) BY <1>1, <1>2, BatchIsList DEF ScriptInv, ScriptType, Wanted
<1>4. CASE pc' = [pc EXCEPT ![c] = "answering"] /\ BeginAdd(c, turn[c], "noClient")
  BY <1>1, <1>3, <1>4, AdditionKeeps DEF CallKinds
<1>5. CASE pc' = [pc EXCEPT ![c] = "context"] /\ UNCHANGED <<cb, slot, overlap>>
  <2>1. Reqs(c)' = Reqs(c) BY <1>1 DEF Reqs
  <2>2. Wanted(c)' = Wanted(c) BY <2>1 DEF Wanted
  <2>3. Settled(c)' = Settled(c) BY <1>5, <2>2 DEF Settled
  <2>4. pc'[c] = "context" /\ IsOfScripts(pc') /\ \A d \in Scripts \ {c} : pc'[d] = pc[d]
    BY <1>5 DEF RouteInv, IsOfScripts
  <2>5. ScriptType(c)' BY <1>1, <1>2, <1>5, <2>1, <2>2, <2>4 DEF ScriptInv, ScriptType
  <2>6. ScriptOrder(c)' BY <1>1, <1>2, <1>5, <2>1, <2>2, <2>4 DEF ScriptInv, ScriptOrder
  <2>7. MessageIsWhole(c)' BY <1>1, <1>2, <1>5, <2>3, WholeStays DEF ScriptInv
  <2>8. ScriptInv(c)' BY <1>1, <1>2, <2>3, <2>5, <2>6, <2>7 DEF ScriptInv
  <2>9. OnlyScript(c) BY <1>1, <1>5, <2>4 DEF OnlyScript, RouteInv
  <2> QED BY <1>1, <2>8, <2>9, OneScriptMoves
<1> QED BY <1>4, <1>5 DEF SendRequestToKVServer

LEMMA KVExecuteKeeps ==
  ASSUME RouteInv, NEW c \in Scripts, KVExecuteInternal(c)
  PROVE  RouteInv'
<1>1. pc[c] = "context" /\ UNCHANGED <<rin, pool, answers, counter>>
  BY DEF KVExecuteInternal
<1>2. ScriptInv(c) /\ rin \in RouteInputs BY DEF RouteInv
<1>3. turn[c] \in Wanted(c) /\ turn[c] \in Nat /\ turn[c] <= Len(Reqs(c)) /\ Len(Reqs(c)) \in Nat
  BY <1>1, <1>2, BatchIsList DEF ScriptInv, ScriptType, ScriptOrder, Wanted
<1>4. CASE BeginAdd(c, turn[c], "refused") /\ pc' = [pc EXCEPT ![c] = "answering"] /\ UNCHANGED turn
  BY <1>1, <1>3, <1>4, AdditionKeeps DEF CallKinds
<1>5. CASE /\ cb' = [cb EXCEPT ![c][turn[c]] = "out"] /\ pc' = [pc EXCEPT ![c] = "loop"]
           /\ turn' = [turn EXCEPT ![c] = @ + 1] /\ UNCHANGED <<slot, overlap>>
  <2> DEFINE i == turn[c]
  <2>1. Reqs(c)' = Reqs(c) BY <1>1 DEF Reqs
  <2>2. Wanted(c)' = Wanted(c) BY <2>1 DEF Wanted
  <2>3. /\ pc'[c] = "loop" /\ turn'[c] = i + 1 /\ cb'[c] = [cb[c] EXCEPT ![i] = "out"]
        /\ IsOfScripts(pc') /\ IsOfScripts(turn') /\ IsOfScripts(cb')
        /\ \A d \in Scripts \ {c} : pc'[d] = pc[d] /\ turn'[d] = turn[d] /\ cb'[d] = cb[d]
    BY <1>5 DEF RouteInv, IsOfScripts
  <2>4. /\ cb'[c] \in [Wanted(c) -> {"idle", "out"} \cup CallKinds] /\ cb'[c][i] = "out"
        /\ \A j \in Wanted(c) \ {i} : cb'[c][j] = cb[c][j]
    BY <1>2, <1>3, <2>3 DEF ScriptInv, ScriptType
  <2>5. cb[c][i] = "idle" /\ slot[c][i] = 0 BY <1>1, <1>2, <1>3 DEF ScriptInv, ScriptOrder
  <2>6. Settled(c)' = Settled(c)
    <3>1. Settled(c)' = {j \in Wanted(c) : cb'[c][j] \in CallKinds /\ slot[c][j] = 0}
      BY <1>5, <2>2 DEF Settled
    <3> QED BY <2>4, <2>5, <3>1 DEF Settled, CallKinds
  <2>7. ScriptType(c)'
    <3>1. turn'[c] \in 1 .. Len(Reqs(c)) + 1 BY <1>3, <2>3
    <3> QED BY <1>1, <1>2, <1>5, <2>1, <2>2, <2>3, <2>4, <3>1 DEF ScriptInv, ScriptType
  <2>8. ScriptOrder(c)'
    <3>1. ASSUME NEW j \in Wanted(c)
          PROVE  /\ j < turn'[c] => cb'[c][j] # "idle"
                 /\ j > turn'[c] => cb'[c][j] = "idle"
                 /\ j = turn'[c] => cb'[c][j] = "idle"
                 /\ cb'[c][j] \in {"idle", "out"} => slot'[c][j] = 0
      <4>1. j \in Nat BY <1>3 DEF Wanted
      <4>2. CASE j = i BY <1>3, <1>5, <2>3, <2>4, <2>5, <4>2
      <4>3. CASE j # i
        <5>1. (j < i + 1 <=> j < i) /\ (j > i + 1 => j > i) /\ (j = i + 1 => j > i)
          BY <1>3, <4>1, <4>3
        <5>2. cb'[c][j] = cb[c][j] BY <2>4, <4>3
        <5> QED BY <1>2, <1>5, <2>3, <5>1, <5>2 DEF ScriptInv, ScriptOrder
      <4> QED BY <4>2, <4>3
    <3> QED BY <2>1, <2>2, <2>3, <3>1 DEF ScriptOrder
  <2>9. MessageIsWhole(c)'
    <3>1. \A j \in Settled(c) : cb'[c][j] = cb[c][j] BY <2>4, <2>5 DEF Settled, CallKinds
    <3> QED BY <1>1, <1>2, <1>5, <2>6, <3>1, WholeStays DEF ScriptInv
  <2>10. ScriptInv(c)' BY <1>1, <1>2, <2>6, <2>7, <2>8, <2>9 DEF ScriptInv
  <2>11. OnlyScript(c) BY <1>1, <1>5, <2>3 DEF OnlyScript, RouteInv
  <2> QED BY <1>1, <2>10, <2>11, OneScriptMoves
<1> QED BY <1>4, <1>5 DEF KVExecuteInternal

(* The second half of an addition: the request is settled and counted. *)
LEMMA AddEnded ==
  ASSUME RouteInv, NEW c \in Scripts, NEW i \in Wanted(c), EndAdd(c, i)
  PROVE  /\ i \notin Settled(c) /\ cb[c][i] \in CallKinds
         /\ Settled(c)' = Settled(c) \cup {i} /\ counter'[c] = Cardinality(Settled(c)')
         /\ slot'[c] = [slot[c] EXCEPT ![i] = 0]
         /\ answers'[c] \in Seq([name : STRING, kind : {"idle", "out"} \cup CallKinds])
         /\ slot[c][i] > Len(answers[c]) => answers'[c] = Append(answers[c], KVAnswer(c, i))
         /\ IsOfScripts(answers') /\ IsOfScripts(counter') /\ IsOfScripts(slot')
         /\ \A d \in Scripts \ {c} :
              slot'[d] = slot[d] /\ answers'[d] = answers[d] /\ counter'[d] = counter[d]
<1> DEFINE T == [name : STRING, kind : {"idle", "out"} \cup CallKinds]
           an == IF slot[c][i] > Len(answers[c]) THEN Append(answers[c], KVAnswer(c, i))
                 ELSE [answers[c] EXCEPT ![slot[c][i]] = KVAnswer(c, i)]
<1>1. /\ slot[c][i] # 0 /\ rin' = rin /\ cb' = cb /\ slot' = [slot EXCEPT ![c][i] = 0]
      /\ counter' = [counter EXCEPT ![c] = counter[c] + 1]
      /\ answers' = [answers EXCEPT ![c] = an]
  BY DEF EndAdd, CountAnswer, RouteInv, IsOfScripts
<1>2. ScriptInv(c) /\ rin \in RouteInputs BY DEF RouteInv
<1>3. Wanted(c)' = Wanted(c) BY <1>1 DEF Wanted, Reqs
<1> HIDE DEF an
<1>4. /\ slot'[c] = [slot[c] EXCEPT ![i] = 0] /\ IsOfScripts(slot')
      /\ \A d \in Scripts \ {c} : slot'[d] = slot[d]
  BY <1>1 DEF RouteInv, IsOfScripts
<1>5. /\ counter'[c] = counter[c] + 1 /\ IsOfScripts(counter')
      /\ \A d \in Scripts \ {c} : counter'[d] = counter[d]
  BY <1>1 DEF RouteInv, IsOfScripts
<1>6. answers'[c] = an /\ IsOfScripts(answers') /\ \A d \in Scripts \ {c} : answers'[d] = answers[d]
  BY <1>1 DEF RouteInv, IsOfScripts
<1>7. cb[c][i] \in CallKinds /\ i \notin Settled(c)
  <2>1. cb[c][i] \in {"idle", "out"} \cup CallKinds BY <1>2 DEF ScriptInv, ScriptType
  <2>2. cb[c][i] \notin {"idle", "out"} BY <1>1, <1>2 DEF ScriptInv, ScriptOrder
  <2> QED BY <1>1, <2>1, <2>2 DEF Settled
<1>8. Settled(c)' = Settled(c) \cup {i}
  <2>1. Settled(c)' = {j \in Wanted(c) : cb[c][j] \in CallKinds /\ slot'[c][j] = 0}
    BY <1>1, <1>3 DEF Settled
  <2>2. slot'[c][i] = 0 /\ \A j \in Wanted(c) \ {i} : slot'[c][j] = slot[c][j]
    BY <1>2, <1>4 DEF ScriptInv, ScriptType
  <2> QED BY <1>7, <2>1, <2>2 DEF Settled
<1>9. counter'[c] = Cardinality(Settled(c)')
  <2>1. Cardinality(Settled(c) \cup {i}) = Cardinality(Settled(c)) + 1
    BY <1>2, <1>7, SettledAreFinite, FS_AddElement
  <2> QED BY <1>2, <1>5, <1>8, <2>1 DEF ScriptInv
<1>10. an \in Seq(T)
  <2>1. KVAnswer(c, i) \in T
    <3>1. Reqs(c)[i] \in STRING BY <1>2, BatchIsList
    <3> QED BY <1>7, <3>1 DEF KVAnswer
  <2>2. answers[c] \in Seq(T) BY <1>2 DEF ScriptInv, ScriptType
  <2>3. slot[c][i] \in Nat \ {0} BY <1>1, <1>2 DEF ScriptInv, ScriptType
  <2> HIDE DEF T
  <2> QED BY <2>1, <2>2, <2>3 DEF an
<1>11. slot[c][i] > Len(answers[c]) => an = Append(answers[c], KVAnswer(c, i)) BY DEF an
<1> QED BY <1>4, <1>5, <1>6, <1>7, <1>8, <1>9, <1>10, <1>11

LEMMA WholeGrows ==
  ASSUME RouteInv, NEW c \in Scripts, NEW i \in Wanted(c), EndAdd(c, i)
  PROVE  MessageIsWhole(c)'
<1>1. UNCHANGED <<rin, cb, overlap>> /\ slot[c][i] # 0 BY DEF EndAdd
<1>2. CASE overlap[c] BY <1>1, <1>2, Zenon DEF MessageIsWhole
<1>3. CASE ~overlap[c]
  <2>1. ScriptInv(c) /\ rin \in RouteInputs BY DEF RouteInv
  <2>2. /\ \A j \in Wanted(c) \ {i} : slot[c][j] = 0
        /\ slot[c][i] = Len(answers[c]) + 1
    BY <1>1, <1>3, <2>1 DEF ScriptInv, MessageIsWhole
  <2>3. PICK n : n = Len(answers[c]) OBVIOUS
  <2>4. PICK f \in Bijection(1 .. n, Settled(c)) : \A m \in 1 .. n : answers[c][m] = KVAnswer(c, f[m])
    BY <1>3, <2>1, <2>3, Zenon DEF ScriptInv, MessageIsWhole
  <2>5. n \in Nat /\ answers[c] \in Seq([name : STRING, kind : {"idle", "out"} \cup CallKinds])
    BY <2>1, <2>3 DEF ScriptInv, ScriptType
  <2>6. /\ i \notin Settled(c) /\ Settled(c)' = Settled(c) \cup {i}
        /\ slot'[c] = [slot[c] EXCEPT ![i] = 0] /\ answers'[c] = Append(answers[c], KVAnswer(c, i))
    BY <2>2, <2>3, <2>5, AddEnded
  <2>7. Wanted(c)' = Wanted(c) /\ \A j : KVAnswer(c, j)' = KVAnswer(c, j)
    BY <1>1 DEF Wanted, Reqs, KVAnswer
  <2>8. \A j \in Wanted(c)' : slot'[c][j] = 0
    BY <2>1, <2>2, <2>6, <2>7 DEF ScriptInv, ScriptType
  <2>9. /\ Len(answers'[c]) = n + 1 /\ answers'[c][n + 1] = KVAnswer(c, i)
        /\ \A m \in 1 .. n : answers'[c][m] = answers[c][m]
    BY <2>3, <2>5, <2>6
  <2> DEFINE g == [m \in 1 .. n + 1 |-> IF m = n + 1 THEN i ELSE f[m]]
  <2>10. g \in Bijection(1 .. n + 1, Settled(c) \cup {i})
    <3>1. f \in [1 .. n -> Settled(c)] /\ (\A a, b \in 1 .. n : f[a] = f[b] => a = b)
          /\ \A t \in Settled(c) : \E s \in 1 .. n : f[s] = t
      BY <2>4 DEF Bijection, Injection, Surjection, IsInjective
    <3>2. \A m \in 1 .. n + 1 : m = n + 1 \/ m \in 1 .. n BY <2>5
    <3>3. n + 1 \in 1 .. n + 1 /\ n + 1 \notin 1 .. n /\ \A m \in 1 .. n : m \in 1 .. n + 1 /\ m # n + 1 BY <2>5
    <3>4. g[n + 1] = i /\ \A m \in 1 .. n : g[m] = f[m] BY <3>3
    <3>5. g \in [1 .. n + 1 -> Settled(c) \cup {i}] BY <3>1, <3>2
    <3> HIDE DEF g
    <3>6. \A a, b \in 1 .. n + 1 : g[a] = g[b] => a = b BY <2>6, <3>1, <3>2, <3>4
    <3>7. \A t \in Settled(c) \cup {i} : \E s \in 1 .. n + 1 : g[s] = t BY <3>1, <3>3, <3>4
    <3> QED BY <3>5, <3>6, <3>7 DEF Bijection, Injection, Surjection, IsInjective
  <2>11. \A m \in 1 .. n + 1 : answers'[c][m] = KVAnswer(c, g[m])
    <3>1. \A m \in 1 .. n + 1 : m = n + 1 \/ (m \in 1 .. n /\ m # n + 1) BY <2>5
    <3> QED BY <2>4, <2>9, <3>1
  <2> HIDE DEF g
  <2>12. \A m \in 1 .. n + 1 : answers'[c][m] = KVAnswer(c, g[m])' BY <2>7, <2>11, Zenon
  <2>13. PICK k : k = 1 .. n + 1 OBVIOUS
  <2>14. k = 1 .. Len(answers'[c]) /\ g \in Bijection(1 .. Len(answers'[c]), Settled(c)')
    BY <2>6, <2>9, <2>10, <2>13
  <2>15. \A m \in k : answers'[c][m] = KVAnswer(c, g[m])' BY <2>12, <2>13, Zenon
  <2> QED BY <2>8, <2>14, <2>15, Zenon DEF MessageIsWhole
<1> QED BY <1>2, <1>3

LEMMA EndAddKeeps ==
  ASSUME RouteInv, NEW c \in Scripts, NEW i \in Wanted(c), EndAdd(c, i)
  PROVE  RouteInv'
<1>1. UNCHANGED <<rin, pool, cb, overlap>> /\ slot[c][i] # 0 BY DEF EndAdd
<1>2. ScriptInv(c) /\ rin \in RouteInputs BY DEF RouteInv
<1>3. Reqs(c)' = Reqs(c) BY <1>1 DEF Reqs
<1>4. Wanted(c)' = Wanted(c) BY <1>3 DEF Wanted
<1>5. /\ i \notin Settled(c) /\ cb[c][i] \in CallKinds
      /\ Settled(c)' = Settled(c) \cup {i} /\ counter'[c] = Cardinality(Settled(c)')
      /\ slot'[c] = [slot[c] EXCEPT ![i] = 0]
      /\ answers'[c] \in Seq([name : STRING, kind : {"idle", "out"} \cup CallKinds])
      /\ IsOfScripts(answers') /\ IsOfScripts(counter') /\ IsOfScripts(slot')
      /\ \A d \in Scripts \ {c} :
           slot'[d] = slot[d] /\ answers'[d] = answers[d] /\ counter'[d] = counter[d]
  BY AddEnded
<1>6. /\ IsOfScripts(pc') /\ IsOfScripts(turn')
      /\ \A d \in Scripts \ {c} : pc'[d] = pc[d] /\ turn'[d] = turn[d]
      /\ IF pc[c] = "answering" /\ turn[c] = i THEN pc'[c] = "loop" /\ turn'[c] = turn[c] + 1
         ELSE pc'[c] = pc[c] /\ turn'[c] = turn[c]
  BY DEF EndAdd, RouteInv, IsOfScripts
<1>7. turn[c] \in Nat /\ turn[c] \in 1 .. Len(Reqs(c)) + 1 /\ Len(Reqs(c)) \in Nat /\ i \in Nat
      /\ cb[c][i] \notin {"idle", "out"} /\ i <= Len(Reqs(c))
  BY <1>2, <1>5, BatchIsList DEF ScriptInv, ScriptType, CallKinds, Wanted
<1>8. turn'[c] \in 1 .. Len(Reqs(c)) + 1 /\ pc'[c] \in {"start", "loop", "context", "answering", "returned"}
  BY <1>2, <1>6, <1>7 DEF ScriptInv, ScriptType
<1>9. slot'[c] \in [Wanted(c) -> Nat] /\ \A j \in Wanted(c) : slot[c][j] = 0 => slot'[c][j] = 0
  BY <1>2, <1>5 DEF ScriptInv, ScriptType
<1>10. ScriptType(c)' BY <1>1, <1>2, <1>3, <1>4, <1>5, <1>8, <1>9 DEF ScriptInv, ScriptType
<1>11. ScriptOrder(c)'
  <2>1. CASE pc[c] = "answering" /\ turn[c] = i
    <3>1. ASSUME NEW j \in Wanted(c)
          PROVE  /\ j < turn'[c] => cb[c][j] # "idle"
                 /\ j > turn'[c] => cb[c][j] = "idle"
                 /\ j = turn'[c] => cb[c][j] = "idle"
                 /\ cb[c][j] \in {"idle", "out"} => slot'[c][j] = 0
      <4>1. j \in Nat BY <1>7 DEF Wanted
      <4>2. CASE j = i BY <1>6, <1>7, <2>1, <4>2
      <4>3. CASE j # i
        <5>1. (j < i + 1 <=> j < i) /\ (j > i + 1 => j > i) /\ (j = i + 1 => j > i)
          BY <1>7, <4>1, <4>3
        <5> QED BY <1>2, <1>6, <1>9, <2>1, <5>1 DEF ScriptInv, ScriptOrder
      <4> QED BY <4>2, <4>3
    <3> QED BY <1>1, <1>3, <1>4, <1>6, <2>1, <3>1 DEF ScriptOrder
  <2>2. CASE ~(pc[c] = "answering" /\ turn[c] = i)
    <3>1. pc'[c] = pc[c] /\ turn'[c] = turn[c] BY <1>6, <2>2
    <3>2. i < turn[c] BY <1>2, <1>7, <2>2 DEF ScriptInv, ScriptOrder
    <3>3. pc[c] # "returned"
      BY <1>2, <1>5, <1>7, <3>2 DEF ScriptInv, ScriptOrder, Wanted
    <3> QED BY <1>1, <1>2, <1>3, <1>4, <1>9, <3>1, <3>3 DEF ScriptInv, ScriptOrder
  <2> QED BY <2>1, <2>2
<1>12. ScriptInv(c)' BY <1>5, <1>10, <1>11, WholeGrows DEF ScriptInv
<1>13. OnlyScript(c) BY <1>1, <1>5, <1>6 DEF OnlyScript, RouteInv
<1> QED BY <1>1, <1>12, <1>13, OneScriptMoves

LEMMA RouteNextInv ==
  ASSUME RouteInv, RouteNext \/ UNCHANGED routeVars
  PROVE  RouteInv'
<1>1. CASE UNCHANGED routeVars
  <2>1. \A c \in Scripts : ScriptInv(c) => ScriptInv(c)' BY <1>1, OtherScript DEF routeVars
  <2>2. CreateConnections(rin)' = CreateConnections(rin) BY <1>1 DEF routeVars, CreateConnections
  <2> QED BY <1>1, <2>1, <2>2 DEF routeVars, RouteInv, IsOfScripts
<1>2. CASE RouteNext
  <2>1. PICK c \in Scripts :
          \/ FetchAdditionalSignals(c) \/ SendRequestToKVServer(c) \/ KVExecuteInternal(c) \/ Collect(c)
          \/ \E i \in DOMAIN Reqs(c) : KVCallback(c, i) \/ EndAdd(c, i)
    BY <1>2 DEF RouteNext
  <2>2. DOMAIN Reqs(c) = Wanted(c) BY BatchIsList DEF RouteInv
  <2>3. ASSUME NEW i \in Wanted(c), KVCallback(c, i) PROVE RouteInv'
    BY <2>3, AdditionKeeps DEF KVCallback, CallKinds
  <2> QED BY <2>1, <2>2, <2>3, FetchAdditionalSignalsKeeps, SendRequestKeeps, KVExecuteKeeps,
             EndAddKeeps
<1> QED BY <1>1, <1>2

(* Two sets of places that a bijection carries to one another are as large. *)
LEMMA AsManyAnswers ==
  ASSUME NEW n \in Nat, NEW S, NEW f \in Bijection(1 .. n, S), NEW A \in SUBSET (1 .. n),
         NEW B \in SUBSET S, \A k \in 1 .. n : k \in A <=> f[k] \in B
  PROVE  Cardinality(A) = Cardinality(B)
<1> DEFINE g == [k \in A |-> f[k]]
<1>1. f \in [1 .. n -> S] /\ (\A a, b \in 1 .. n : f[a] = f[b] => a = b)
      /\ \A t \in S : \E s \in 1 .. n : f[s] = t
  BY DEF Bijection, Injection, Surjection, IsInjective
<1>2. g \in [A -> B] BY <1>1
<1>3. \A a, b \in A : g[a] = g[b] => a = b BY <1>1
<1>4. \A t \in B : \E s \in A : g[s] = t BY <1>1
<1>5. g \in Bijection(A, B)
  <2> HIDE DEF g
  <2> QED BY <1>2, <1>3, <1>4 DEF Bijection, Injection, Surjection, IsInjective
<1>6. IsFiniteSet(A)
  <2>1. IsFiniteSet(1 .. n) BY FS_Interval
  <2> QED BY <2>1, FS_Subset
<1> QED BY <1>5, <1>6, FS_Bijection DEF ExistsBijection

LEMMA RouteSound ==
  ASSUME RouteInv
  PROVE  /\ FrameOutlivesCallbacks /\ SettledMeansCounted
         /\ EachServerAnswered /\ ConnectionsByTheirFlag
<1>1. rin \in RouteInputs BY DEF RouteInv
<1>2. \A c \in Scripts : DOMAIN Reqs(c) = Wanted(c) /\ ScriptInv(c) /\ Len(Reqs(c)) \in Nat
  BY <1>1, BatchIsList DEF RouteInv
<1>3. ASSUME NEW c \in Scripts, pc[c] = "returned", NEW i \in Wanted(c)
      PROVE  /\ cb[c][i] # "out" /\ slot[c][i] = 0
             /\ rin.reqs[c].ok => Settled(c) = Wanted(c)
  <2>1. CASE Settled(c) = Wanted(c) BY <2>1 DEF Settled, CallKinds
  <2>2. CASE turn[c] = 1 /\ (rin.reqs[c].ok => Reqs(c) = <<>>)
    <3>1. i >= 1 /\ i \in Nat BY <1>2 DEF Wanted
    <3>2. cb[c][i] = "idle" /\ slot[c][i] = 0
      BY <1>2, <1>3, <2>2, <3>1 DEF ScriptInv, ScriptOrder
    <3>3. Reqs(c) # <<>> BY <3>1 DEF Wanted
    <3> QED BY <2>2, <3>2, <3>3
  <2> QED BY <1>2, <1>3, <2>1, <2>2 DEF ScriptInv, ScriptOrder
<1>4. FrameOutlivesCallbacks BY <1>2, <1>3 DEF FrameOutlivesCallbacks
<1>5. SettledMeansCounted
  <2> SUFFICES ASSUME NEW c \in Scripts, pc[c] = "loop", turn[c] > Len(Reqs(c)),
                      \A i \in DOMAIN Reqs(c) : cb[c][i] # "out" /\ slot[c][i] = 0
               PROVE  AllAnswered(c)
    BY DEF SettledMeansCounted
  <2>1. turn[c] \in Nat /\ \A i \in Wanted(c) : i < turn[c]
    BY <1>2 DEF Wanted, ScriptInv, ScriptType
  <2>2. \A i \in Wanted(c) : cb[c][i] \in CallKinds
    BY <1>2, <2>1 DEF ScriptInv, ScriptOrder, ScriptType
  <2>3. Settled(c) = Wanted(c) BY <1>2, <2>2 DEF Settled
  <2>4. counter[c] = Len(Reqs(c)) BY <1>1, <1>2, <2>3, SettledAreFinite DEF ScriptInv
  <2> QED BY <1>2, <2>4 DEF AllAnswered
<1>6. EachServerAnswered
  <2> SUFFICES ASSUME NEW c \in Scripts, pc[c] = "returned", rin.reqs[c].ok, ~overlap[c],
                      NEW i \in DOMAIN Reqs(c), NEW vals \in BOOLEAN
               PROVE  Cardinality({k \in DOMAIN answers[c] :
                          answers[c][k].name = Reqs(c)[i] /\ (answers[c][k].kind = "values" <=> vals)})
                        = Cardinality({j \in DOMAIN Reqs(c) :
                            Reqs(c)[j] = Reqs(c)[i] /\ (cb[c][j] = "values" <=> vals)})
    BY DEF EachServerAnswered
  <2>1. Settled(c) = Wanted(c) BY <1>2, <1>3
  <2>2. PICK n : n = Len(answers[c]) OBVIOUS
  <2>3. PICK f \in Bijection(1 .. n, Settled(c)) : \A k \in 1 .. n : answers[c][k] = KVAnswer(c, f[k])
    BY <1>2, <2>2, Zenon DEF ScriptInv, MessageIsWhole
  <2>4. n \in Nat /\ DOMAIN answers[c] = 1 .. n BY <1>2, <2>2 DEF ScriptInv, ScriptType
  <2> DEFINE A == {k \in 1 .. n : answers[c][k].name = Reqs(c)[i] /\ (answers[c][k].kind = "values" <=> vals)}
             B == {j \in Wanted(c) : Reqs(c)[j] = Reqs(c)[i] /\ (cb[c][j] = "values" <=> vals)}
  <2>5. \A k \in 1 .. n : k \in A <=> f[k] \in B
    <3>1. \A k \in 1 .. n : f[k] \in Wanted(c) BY <2>1, <2>3 DEF Bijection, Injection
    <3>2. \A k \in 1 .. n : answers[c][k].name = Reqs(c)[f[k]] /\ answers[c][k].kind = cb[c][f[k]]
      <4>1. ASSUME NEW k \in 1 .. n
            PROVE  answers[c][k].name = Reqs(c)[f[k]] /\ answers[c][k].kind = cb[c][f[k]]
        <5>1. answers[c][k] = [name |-> Reqs(c)[f[k]], kind |-> cb[c][f[k]]]
          BY <2>3, Zenon DEF KVAnswer
        <5> QED BY <5>1
      <4> QED BY <4>1
    <3> QED BY <3>1, <3>2
  <2>6. A \in SUBSET (1 .. n) /\ B \in SUBSET Settled(c) BY <2>1
  <2> HIDE DEF A, B
  <2>7. Cardinality(A) = Cardinality(B) BY <2>3, <2>4, <2>5, <2>6, AsManyAnswers
  <2> QED BY <1>2, <2>4, <2>7 DEF A, B
<1>7. ConnectionsByTheirFlag
  <2>1. pool = [s \in rin.addr |-> TlsFlag(s) \in rin.tls] BY DEF RouteInv, CreateConnections
  <2> QED BY <2>1 DEF ConnectionsByTheirFlag, TlsFlag
<1> QED BY <1>4, <1>5, <1>6, <1>7

-----------------------------------------------------------------------------
(* The theorems.                                                             *)

(* The part that is there keeps its invariant. *)
ServicesInv ==
  /\ part = "top" => TopInv
  /\ part = "http" => HttpInv
  /\ part = "fetch" => FetchInv
  /\ part = "boot" => BootInv
  /\ part = "udfs" => UdfInv
  /\ part = "model" => ModelInv
  /\ part = "calls" => CallInv
  /\ part = "route" => RouteInv

(* The part that is there moves, or nothing does. *)
LEMMA OnePartMoves ==
  ASSUME [ServicesNext]_servicesVars
  PROVE  /\ part' = part
         /\ part = "top" => TopNext \/ UNCHANGED topVars
         /\ part = "http" => [HttpNext]_httpVars
         /\ part = "fetch" => FetchNext \/ UNCHANGED fetchVars
         /\ part = "boot" => BootNext \/ UNCHANGED bootVars
         /\ part = "udfs" => UdfNext \/ UNCHANGED udfVars
         /\ part = "model" => ModelNext \/ UNCHANGED modelVars
         /\ part = "calls" => CallNext \/ UNCHANGED callVars
         /\ part = "route" => RouteNext \/ UNCHANGED routeVars
<1>1. CASE ServicesNext
  BY <1>1, Zenon DEF ServicesNext, Frame
<1>2. CASE UNCHANGED servicesVars BY <1>2, Zenon DEF servicesVars
<1> QED BY <1>1, <1>2

(* Each part beside the auction's path keeps its own order: the top-level    *)
(* auction, the fetcher, the periodic fetches, the start-up, the buyers'     *)
(* reporting code, the models of the sidecar, the remote calls and the       *)
(* scripts' key/value calls.                                                 *)
THEOREM ServicesInvariance == ServicesSpec => []ServicesInv
<1>1. ServicesInit => ServicesInv
  BY TopInitInv, InitInv, FetchInitInv, BootInitInv, UdfInitInv, ModelInitInv, CallInitInv,
     RouteInitInv, Zenon
  DEF ServicesInit, ServicesInv
<1>2. ServicesInv /\ [ServicesNext]_servicesVars => ServicesInv'
  <2> SUFFICES ASSUME ServicesInv, [ServicesNext]_servicesVars PROVE ServicesInv'
    OBVIOUS
  <2>1. CASE part = "top" BY <2>1, OnePartMoves, TopNextInv, Zenon DEF ServicesInv
  <2>2. CASE part = "http" BY <2>2, OnePartMoves, StepKeeps, Zenon DEF ServicesInv
  <2>3. CASE part = "fetch" BY <2>3, OnePartMoves, FetchNextInv, Zenon DEF ServicesInv
  <2>4. CASE part = "boot" BY <2>4, OnePartMoves, BootNextInv, Zenon DEF ServicesInv
  <2>5. CASE part = "udfs" BY <2>5, OnePartMoves, UdfNextInv, Zenon DEF ServicesInv
  <2>6. CASE part = "model" BY <2>6, OnePartMoves, ModelNextInv, Zenon DEF ServicesInv
  <2>7. CASE part = "calls" BY <2>7, OnePartMoves, CallNextInv, Zenon DEF ServicesInv
  <2>8. CASE part = "route" BY <2>8, OnePartMoves, RouteNextInv, Zenon DEF ServicesInv
  <2>9. part' = part BY OnePartMoves
  <2> QED BY <2>1, <2>2, <2>3, <2>4, <2>5, <2>6, <2>7, <2>8, <2>9 DEF ServicesInv
<1> QED BY <1>1, <1>2, PTL DEF ServicesSpec

(* SelectAuctionResultReactor, for any component results in any order: only  *)
(* results made for this request reach the auction service, each of another  *)
(* seller; the device gets the groups of all of them and the updates of the  *)
(* first; and Finish is called once.                                         *)
THEOREM TopLevelHolds == ServicesSpec => []TopLevelIsSound
<1>1. ServicesInv => TopLevelIsSound BY TopSound DEF ServicesInv, TopLevelIsSound
<1> QED BY <1>1, ServicesInvariance, PTL

(* PeriodicUrlFetcher, PeriodicBucketFetcher, SellerUdfFetchManager,         *)
(* BuyerReportingUdfFetchManager and the servers' RunServer, for any         *)
(* configuration, contents and failures: what runs under a version was       *)
(* published for it, a server serves only after its code is loaded, and      *)
(* fetches nothing after it ended.                                           *)
THEOREM ServersRunTheirCodeHolds == ServicesSpec => []ServersRunTheirCode
<1>1. ServicesInv => ServersRunTheirCode
  <2>1. FetchInv => VersionsRunTheirOwnCode /\ StartOkMeansLoaded /\ NoFetchAfterEnd BY DEF FetchInv
  <2> QED BY <2>1, UdfsSound, BootSound, Zenon DEF ServicesInv, ServersRunTheirCode
<1> QED BY <1>1, ServicesInvariance, PTL

(* ModelFetcherMetadata's rounds, ModelStore and the sidecar's Predict, for  *)
(* any models, resets, deletions and failures: every copy of a model was     *)
(* built from its registration, the models that serve are the configured     *)
(* ones, and a batch is answered in its order.                               *)
THEOREM ModelsMatchHolds == ServicesSpec => []ModelsMatchTheirRegistration
<1>1. ServicesInv => ModelsMatchTheirRegistration
  BY ModelsSound DEF ServicesInv, ModelsMatchTheirRegistration
<1> QED BY <1>1, ServicesInvariance, PTL

(* The clients of DefaultAsyncGrpcClient, the buyer's, the key/value and the *)
(* k-anonymity ones, with the servers they call, for any fault a call can    *)
(* meet, any chaffing, any bids and any number of counted calls: a caller    *)
(* hears once of a call that was sent and never of one that was refused,     *)
(* hears an answer only when every step worked, and finds buffers and client *)
(* there.  FetchAdditionalSignals of two scripts, for any batches: the frame *)
(* outlives its callbacks and every server asked is answered for.            *)
THEOREM CallsHeardOnceHolds == ServicesSpec => []CallsAreHeardOnce
<1>1. ServicesInv => CallsAreHeardOnce
  BY CallsSound, RouteSound, Zenon DEF ServicesInv, CallsAreHeardOnce
<1> QED BY <1>1, ServicesInvariance, PTL
=============================================================================

--------------------------- MODULE GetBidsReactor ---------------------------
(***************************************************************************)
(* One GetBids request in the buyer front end (BFE).  A request may carry  *)
(* interest groups (protected audience, PA) and protected app signals      *)
(* (PAS).  For PA the reactor looks bidding signals up (V1 over HTTP, V2   *)
(* over gRPC, or V1 and then V2) and asks the bidding service; for PAS it  *)
(* asks at once.  Both branches report to one task tracker, whose last     *)
(* report ends the call, in a Microsoft build after one more RPC to the    *)
(* k-anonymity service.                                                    *)
(***************************************************************************)
EXTENDS AsyncTaskTracker, Sequences, FiniteSets

CONSTANT Configs   \* the settings and requests to consider

FetchMode == {"NOT_FETCHED", "FETCHED_BUT_OPTIONAL", "REQUIRED"}

(* enable_cancellation_; the two feature flags; bidding_signals_fetch_mode_; *)
(* the lookup that UseKvV2 and is_hybrid_enabled select, and whether the V2  *)
(* client exists; a Microsoft build; PS_VLOG_IS_ON(kKVLog).  Of the request: *)
(* interest groups, whether one has bidding signals keys, and how much of a  *)
(* PAS input there is; chaff is is_chaff with chaffing enabled.              *)
ConfigType ==
  [cancellation : BOOLEAN, paEnabled : BOOLEAN, pasEnabled : BOOLEAN,
   fetch : FetchMode, lookup : {"V1", "hybrid", "V2"}, kvClient : BOOLEAN,
   microsoft : BOOLEAN, kvLog : BOOLEAN,
   igs : BOOLEAN, keys : BOOLEAN, pasInput : {"none", "hollow", "signals"},
   chaff : BOOLEAN]

ASSUME GetBidsAssumption == Configs \subseteq ConfigType

VARIABLES
  conf,       \* the setting and the request
  cancelled,  \* context_->IsCancelled()
  main,       \* handler thread: start, pa, pas, returned
  tracker,    \* async_task_tracker_
  kv,         \* the bidding signals lookup: idle, v1, v2, tail, done
  pa,         \* the GenerateBids RPC: idle, sent, done
  pas,        \* the GenerateProtectedAppSignalsBids RPC
  flow,       \* the tracker's callback is due: idle, tasksDone
  anyOk,      \* its argument
  query,      \* the Microsoft k-anon query: idle, sent, done
  timer,      \* the delayed Finish of a chaff request: idle, set, done
  response,   \* kinds of bids in get_bids_raw_response_
  finish,     \* statuses Finish was called with
  deleted     \* OnDone has run

taskVars == <<tracker, flow, anyOk>>
vars == <<conf, cancelled, main, taskVars, kv, pa, pas, query, timer, response,
          finish, deleted>>

IsCancelled == conf.cancellation /\ cancelled

Init ==
  /\ conf \in Configs /\ cancelled = FALSE /\ main = "start"
  /\ tracker = SetNumTasksToTrack(1)  \* kNumDefaultOutboundBiddingCalls
  /\ kv = "idle" /\ pa = "idle" /\ pas = "idle"
  /\ flow = "idle" /\ anyOk = FALSE
  /\ query = "idle" /\ timer = "idle" /\ response = {}
  /\ finish = <<>> /\ deleted = FALSE

FinishWithStatus(st) == finish' = Append(finish, st)

(* Mutant: the last but one report is taken for the last. *)
TaskDoneEarly(status) ==
  /\ tracker' = TaskCompleted(tracker, status)
  /\ IF tracker'.pending <= 1
     THEN flow' = "tasksDone" /\ anyOk' = AnyTaskSuccessfullyCompleted(tracker')
     ELSE UNCHANGED <<flow, anyOk>>

TaskDone(status) ==
  /\ tracker' = TaskCompleted(tracker, status)
  /\ IF IsLastResponse(tracker')
     THEN flow' = "tasksDone" /\ anyOk' = AnyTaskSuccessfullyCompleted(tracker')
     ELSE UNCHANGED <<flow, anyOk>>

-----------------------------------------------------------------------------
(* The handler. *)

GetNumberOfMaximumBiddingCalls ==
  (IF conf.paEnabled /\ conf.igs THEN 1 ELSE 0)
  + (IF conf.pasEnabled /\ conf.pasInput # "none" THEN 1 ELSE 0)

(* ExecuteChaffRequest looks at cancellation again before it sets the timer. *)
ExecuteChaffRequest ==
  \/ IsCancelled /\ FinishWithStatus("CANCELLED") /\ UNCHANGED timer
  \/ ~IsCancelled /\ FinishWithStatus("INTERNAL") /\ UNCHANGED timer
  \/ ~IsCancelled /\ timer' = "set" /\ UNCHANGED finish

(* Execute, up to the two branches. *)
Execute ==
  /\ main = "start"
  /\ \/ /\ IsCancelled
        /\ FinishWithStatus("CANCELLED") /\ main' = "returned"
        /\ UNCHANGED <<tracker, timer>>
     \/ /\ ~IsCancelled  \* bad metadata, ciphertext or priority signals
        /\ FinishWithStatus("INVALID_ARGUMENT") /\ main' = "returned"
        /\ UNCHANGED <<tracker, timer>>
     \/ /\ ~IsCancelled /\ conf.chaff
        /\ ExecuteChaffRequest /\ main' = "returned"
        /\ UNCHANGED tracker
     \/ /\ ~IsCancelled /\ ~conf.chaff /\ GetNumberOfMaximumBiddingCalls = 0
        /\ FinishWithStatus("INVALID_ARGUMENT") /\ main' = "returned"
        /\ UNCHANGED <<tracker, timer>>
     \/ /\ ~IsCancelled /\ ~conf.chaff /\ GetNumberOfMaximumBiddingCalls > 0
        /\ tracker' = SetNumTasksToTrack(GetNumberOfMaximumBiddingCalls)
        /\ main' = "pa" /\ UNCHANGED <<finish, timer>>
  /\ UNCHANGED <<conf, cancelled, flow, anyOk, kv, pa, pas, query, response,
                 deleted>>

(* PrepareAndGenerateProtectedAudienceBid.  The signals parse, are missing   *)
(* or lack their keys (empty), or are no JSON (bad); only REQUIRED minds.    *)
PrepareAndGenerateProtectedAudienceBid(signals) ==
  IF signals # "ok" /\ conf.fetch = "REQUIRED"
  THEN /\ TaskDone(IF signals = "empty" THEN "EMPTY_RESPONSE" ELSE "ERROR")
       /\ UNCHANGED pa
  ELSE \/ TaskDone("EMPTY_RESPONSE") /\ UNCHANGED pa  \* no interest group left
       \/ TaskDone("ERROR") /\ UNCHANGED pa           \* ExecuteInternal fails
       \/ pa' = "sent" /\ UNCHANGED taskVars

(* Mutant: a missing client ends the call and reports the task as well. *)
MayGetProtectedAudienceBidsV2Both ==
  \/ /\ ~conf.kvClient /\ FinishWithStatus("INTERNAL")
     /\ TaskDone("ERROR") /\ kv' = "done"
  \/ /\ conf.kvClient /\ conf.keys
     /\ kv' = "v2" /\ UNCHANGED <<taskVars, finish>>

(* A request without any bidding signals key makes no V2 request: the        *)
(* function returns, and nothing is sent or reported.                        *)
MayGetProtectedAudienceBidsV2 ==
  \/ /\ ~conf.kvClient /\ FinishWithStatus("INTERNAL")
     /\ kv' = "done" /\ UNCHANGED taskVars
  \/ /\ conf.kvClient /\ ~conf.keys
     /\ kv' = "done" /\ UNCHANGED <<taskVars, finish>>
  \/ /\ conf.kvClient /\ conf.keys  \* ExecuteInternal fails
     /\ TaskDone("ERROR") /\ kv' = "done" /\ UNCHANGED finish
  \/ /\ conf.kvClient /\ conf.keys
     /\ kv' = "v2" /\ UNCHANGED <<taskVars, finish>>

MayGetProtectedAudienceBids ==
  /\ main = "pa" /\ main' = "pas"
  /\ IF ~conf.paEnabled \/ ~conf.igs THEN UNCHANGED <<taskVars, kv, pa, finish>>
     ELSE \/ /\ conf.fetch = "NOT_FETCHED"
             /\ PrepareAndGenerateProtectedAudienceBid("empty")
             /\ UNCHANGED <<kv, finish>>
          \/ /\ conf.fetch # "NOT_FETCHED" /\ conf.lookup = "V2"
             /\ MayGetProtectedAudienceBidsV2 /\ UNCHANGED pa
          \/ /\ conf.fetch # "NOT_FETCHED" /\ conf.lookup # "V2"
             /\ kv' = "v1" /\ UNCHANGED <<taskVars, pa, finish>>
  /\ UNCHANGED <<conf, cancelled, pas, query, timer, response, deleted>>

(* A PAS input that holds no app signals was counted, and is skipped here. *)
MayGetProtectedSignalsBids ==
  /\ main = "pas" /\ main' = "returned"
  /\ \/ /\ ~conf.pasEnabled \/ conf.pasInput # "signals"
        /\ UNCHANGED <<taskVars, pas>>
     \/ /\ conf.pasEnabled /\ conf.pasInput = "signals"
        /\ \/ TaskDone("ERROR") /\ UNCHANGED pas
           \/ pas' = "sent" /\ UNCHANGED taskVars
  /\ UNCHANGED <<conf, cancelled, kv, pa, query, timer, response, finish, deleted>>

-----------------------------------------------------------------------------
(* The callbacks. *)

OnBiddingSignalsV1 ==
  /\ ~deleted /\ kv = "v1"
  /\ \/ IsCancelled /\ TaskDone("CANCELLED") /\ kv' = "done" /\ UNCHANGED <<pa, finish>>
     \/ ~IsCancelled /\ TaskDone("ERROR") /\ kv' = "done" /\ UNCHANGED <<pa, finish>>
     \/ /\ ~IsCancelled /\ conf.lookup = "hybrid"
        /\ MayGetProtectedAudienceBidsV2 /\ UNCHANGED pa
     \/ /\ ~IsCancelled  \* in hybrid mode, a reply flagged is_hybrid_v1_return
        /\ \E s \in {"ok", "empty", "bad"} : PrepareAndGenerateProtectedAudienceBid(s)
        /\ kv' = "done" /\ UNCHANGED finish
  /\ UNCHANGED <<conf, cancelled, main, pas, query, timer, response, deleted>>

(* HandleV2Failure touches log_context_ after it reported its task. *)
OnBiddingSignalsV2 ==
  /\ ~deleted /\ kv = "v2"
  /\ \/ IsCancelled /\ TaskDone("CANCELLED") /\ kv' = "done" /\ UNCHANGED pa
     \/ /\ ~IsCancelled /\ TaskDone("ERROR") /\ UNCHANGED pa
        /\ kv' = IF conf.kvLog THEN "tail" ELSE "done"
     \/ /\ ~IsCancelled
        /\ \E s \in {"ok", "empty", "bad"} : PrepareAndGenerateProtectedAudienceBid(s)
        /\ kv' = "done"
  /\ UNCHANGED <<conf, cancelled, main, pas, query, timer, response, finish, deleted>>

HandleV2FailureTail ==
  /\ ~deleted /\ kv = "tail" /\ kv' = "done"
  /\ UNCHANGED <<conf, cancelled, main, taskVars, pa, pas, query, timer,
                 response, finish, deleted>>

(* Mutant: the bids replace what the other branch has stored. *)
HandleSingleBidReplacing(kind) ==
  \/ TaskDone("ERROR") /\ UNCHANGED response
  \/ TaskDone("EMPTY_RESPONSE") /\ UNCHANGED response
  \/ ~IsCancelled /\ TaskDone("SUCCESS") /\ response' = {kind}

(* HandleSingleBidCompletion, for either kind of bids: cancellation is       *)
(* looked at only when there is something to keep.                           *)
HandleSingleBidCompletion(kind) ==
  \/ TaskDone("ERROR") /\ UNCHANGED response
  \/ TaskDone("EMPTY_RESPONSE") /\ UNCHANGED response
  \/ IsCancelled /\ TaskDone("CANCELLED") /\ UNCHANGED response
  \/ ~IsCancelled /\ TaskDone("SUCCESS") /\ response' = response \cup {kind}

OnGenerateBidsDone ==
  /\ ~deleted /\ pa = "sent" /\ pa' = "done"
  /\ HandleSingleBidCompletion("pa")
  /\ UNCHANGED <<conf, cancelled, main, kv, pas, query, timer, finish, deleted>>

OnGenerateProtectedAppSignalsBidsDone ==
  /\ ~deleted /\ pas = "sent" /\ pas' = "done"
  /\ HandleSingleBidCompletion("pas")
  /\ UNCHANGED <<conf, cancelled, main, kv, pa, query, timer, finish, deleted>>

OnAllBidsDone(any) ==
  \/ IsCancelled /\ FinishWithStatus("CANCELLED")
  \/ ~IsCancelled /\ ~any /\ FinishWithStatus("INTERNAL")
  \/ ~IsCancelled /\ any /\ FinishWithStatus("INTERNAL")  \* encryption failed
  \/ ~IsCancelled /\ any /\ FinishWithStatus("OK")

(* The tracker's callback.  A Microsoft build asks the k-anon service first; *)
(* when that RPC cannot be made it logs and leaves it at that.               *)
OnTasksDone ==
  /\ flow = "tasksDone" /\ flow' = "idle"
  /\ \/ /\ ~conf.microsoft \/ ~anyOk \/ cancelled
        /\ OnAllBidsDone(anyOk) /\ UNCHANGED query
     \/ /\ conf.microsoft /\ anyOk /\ ~cancelled
        /\ query' \in {"sent", "done"} /\ UNCHANGED finish
  /\ UNCHANGED <<conf, cancelled, main, tracker, anyOk, kv, pa, pas, timer,
                 response, deleted>>

OnKAnonQueried ==
  /\ ~deleted /\ query = "sent" /\ query' = "done"
  /\ OnAllBidsDone(TRUE)
  /\ UNCHANGED <<conf, cancelled, main, taskVars, kv, pa, pas, timer, response,
                 deleted>>

(* Mutant: the timer sets itself again instead of ending the call. *)
ChaffTimerRearmed == ~deleted /\ timer = "set" /\ UNCHANGED vars

(* The executor ends a chaff request after its delay. *)
ChaffTimer ==
  /\ ~deleted /\ timer = "set" /\ timer' = "done"
  /\ FinishWithStatus("OK")
  /\ UNCHANGED <<conf, cancelled, main, taskVars, kv, pa, pas, query, response,
                 deleted>>

OnCancel ==
  /\ ~cancelled /\ ~deleted /\ cancelled' = TRUE
  /\ UNCHANGED <<conf, main, taskVars, kv, pa, pas, query, timer, response,
                 finish, deleted>>

OnDone ==
  /\ finish # <<>> /\ main = "returned" /\ ~deleted /\ deleted' = TRUE
  /\ UNCHANGED <<conf, cancelled, main, taskVars, kv, pa, pas, query, timer,
                 response, finish>>

Released == deleted /\ UNCHANGED vars

Next ==
  \/ Execute \/ MayGetProtectedAudienceBids \/ MayGetProtectedSignalsBids
  \/ OnBiddingSignalsV1 \/ OnBiddingSignalsV2 \/ HandleV2FailureTail
  \/ OnGenerateBidsDone \/ OnGenerateProtectedAppSignalsBidsDone
  \/ OnTasksDone \/ OnKAnonQueried \/ ChaffTimer \/ OnCancel \/ OnDone \/ Released

(* Every RPC has a deadline and the executor runs its timers. *)
Fairness ==
  /\ WF_vars(Execute) /\ WF_vars(MayGetProtectedAudienceBids)
  /\ WF_vars(MayGetProtectedSignalsBids) /\ WF_vars(OnBiddingSignalsV1)
  /\ WF_vars(OnBiddingSignalsV2) /\ WF_vars(HandleV2FailureTail)
  /\ WF_vars(OnGenerateBidsDone) /\ WF_vars(OnGenerateProtectedAppSignalsBidsDone)
  /\ WF_vars(OnTasksDone) /\ WF_vars(OnKAnonQueried) /\ WF_vars(ChaffTimer)
  /\ WF_vars(OnDone)

Spec == Init /\ [][Next]_vars

FairSpec == Spec /\ Fairness

-----------------------------------------------------------------------------
(* Properties. *)

Codes == {"OK", "CANCELLED", "INTERNAL", "INVALID_ARGUMENT"}
Rpc == {"idle", "sent", "done"}

TypeOK ==
  /\ conf \in Configs /\ cancelled \in BOOLEAN
  /\ main \in {"start", "pa", "pas", "returned"}
  /\ tracker \in Tracker /\ kv \in {"idle", "v1", "v2", "tail", "done"}
  /\ {pa, pas, query} \subseteq Rpc /\ timer \in {"idle", "set", "done"}
  /\ flow \in {"idle", "tasksDone"} /\ anyOk \in BOOLEAN
  /\ response \subseteq {"pa", "pas"} /\ finish \in Seq(Codes)
  /\ deleted \in BOOLEAN

Outstanding ==
  {c \in {"kv", "pa", "pas", "query", "timer"} :
     \/ c = "kv" /\ kv \in {"v1", "v2", "tail"}
     \/ c = "pa" /\ pa = "sent"
     \/ c = "pas" /\ pas = "sent"
     \/ c = "query" /\ query = "sent"
     \/ c = "timer" /\ timer = "set"}

(* The calls on which every counted task is started and the tracker alone    *)
(* ends the call.                                                            *)
Sound ==
  /\ ~conf.microsoft /\ ~conf.kvLog /\ conf.kvClient /\ conf.keys
  /\ conf.pasInput # "hollow"

Reactor == INSTANCE UnaryReactor WITH
  Status <- {<<c>> : c \in Codes}, NoStatus <- <<>>,
  Callback <- {"kv", "pa", "pas", "query", "timer"},
  status <- IF Sound THEN finish ELSE <<>>,
  outstanding <- IF Sound THEN Outstanding ELSE {},
  released <- Sound /\ deleted

(* On sound calls the reactor implements the safety part of UnaryReactor:    *)
(* one Finish, and no callback left that holds the reactor when it is        *)
(* deleted.                                                                  *)
ReactorSafety == Reactor!Safety

(* On every other call, only these callbacks may find the reactor deleted:   *)
(* the PAS bids of a call that a missing V2 client ended, and the log line   *)
(* HandleV2Failure writes after its report.                                  *)
StragglersAreKnown ==
  deleted => \A c \in Outstanding :
    \/ c = "pas" /\ ~conf.kvClient /\ conf.lookup # "V1"
    \/ c = "kv" /\ kv = "tail" /\ conf.kvLog

(* The tracker, or the Microsoft build's last step, waits for something that *)
(* nobody started: a V2 lookup without keys, a PAS input without signals, a  *)
(* k-anon query that could not be sent.                                      *)
WaitsForUnstarted ==
  /\ main = "returned" /\ finish = <<>> /\ Outstanding = {} /\ flow = "idle"
  /\ \/ conf.lookup # "V1" /\ ~conf.keys /\ kv = "done" /\ pa = "idle"
     \/ conf.pasEnabled /\ conf.pasInput = "hollow"
     \/ conf.microsoft /\ query = "done"

(* Every request is finished and its reactor released, unless it waits for   *)
(* something nobody started.                                                 *)
EventuallyReleased == <>deleted \/ <>[]WaitsForUnstarted

(* One branch failing never hides the other's bids: when the call ends OK    *)
(* the response carries the bids of every task that reported success, and    *)
(* not every task failed.                                                    *)
AnswerMatchesTasks ==
  finish = <<"OK">> /\ ~conf.chaff =>
    /\ Cardinality(response) = tracker.count["SUCCESS"]
    /\ tracker.count["ERROR"] < tracker.num

(* Whatever ends the call itself, next to the tracker, Finish is called at   *)
(* most once.                                                                *)
FinishAtMostOnce == Len(finish) <= 1

(* The call is finished at most once, and a callback that comes after the    *)
(* reactor was deleted is one of the two kinds that are named.               *)
GetBidsLifeCycle == TypeOK /\ FinishAtMostOnce /\ StragglersAreKnown

-----------------------------------------------------------------------------
(* The inductive invariant of the proofs. *)

(* A branch still owes its report: the handler is on its way to it, or its   *)
(* lookup or its RPC is in flight.                                           *)
PaActive ==
  \/ main = "pa" /\ conf.paEnabled /\ conf.igs
  \/ kv \in {"v1", "v2"} \/ pa = "sent"

PasActive ==
  \/ main \in {"pa", "pas"} /\ conf.pasEnabled /\ conf.pasInput # "none"
  \/ pas = "sent"

(* The tracker waits for every branch that owes a report; it may also wait   *)
(* for one that never comes.                                                 *)
ActiveBranches == (IF PaActive THEN 1 ELSE 0) + (IF PasActive THEN 1 ELSE 0)

ReportsAreAwaited == tracker.num > 0 /\ tracker.pending >= ActiveBranches

(* The branches start in the handler's order, and a lookup is over before    *)
(* the bids it was for are asked for; chaff starts neither.                  *)
BranchesInOrder ==
  /\ main \in {"start", "pa"} =>
       /\ kv = "idle" /\ pa = "idle" /\ pas = "idle" /\ flow = "idle"
       /\ query = "idle" /\ finish = <<>>
  /\ main = "pas" => pas = "idle"
  /\ kv \in {"v1", "v2"} => pa = "idle" /\ (kv = "v2" => conf.kvClient)
  /\ kv = "tail" => conf.kvLog
  /\ timer # "idle" => conf.chaff
  /\ conf.chaff =>
       /\ main \in {"start", "returned"}
       /\ kv = "idle" /\ pa = "idle" /\ pas = "idle" /\ flow = "idle" /\ query = "idle"
       /\ main = "start" => timer = "idle"

(* One party at most may end the call, and none once it was ended: a branch  *)
(* that is still out then is the PAS one, of a call that a missing V2 client *)
(* ended, and its report is not the last that is awaited.                    *)
CallHasOneOwner ==
  /\ flow = "tasksDone" =>
       /\ tracker.pending = 0 /\ finish = <<>> /\ query = "idle"
       /\ anyOk = AnyTaskSuccessfullyCompleted(tracker)
  /\ query # "idle" => tracker.pending = 0 /\ AnyTaskSuccessfullyCompleted(tracker)
  /\ query = "sent" \/ timer = "set" => finish = <<>>
  /\ finish # <<>> => ~PaActive
  /\ finish # <<>> /\ PasActive =>
       tracker.pending >= 2 /\ ~conf.kvClient /\ conf.lookup # "V1"
  /\ finish = <<"OK">> /\ ~conf.chaff =>
       tracker.pending = 0 /\ AnyTaskSuccessfullyCompleted(tracker)
  /\ deleted => finish # <<>> /\ main = "returned"

(* The response holds the bids of the branches that reported success. *)
ResponseIsCounted ==
  /\ SumMatches(tracker)
  /\ Cardinality(response) = tracker.count["SUCCESS"]
  /\ pa # "done" => "pa" \notin response
  /\ pas # "done" => "pas" \notin response

Inv ==
  /\ TypeOK /\ FinishAtMostOnce /\ ReportsAreAwaited /\ BranchesInOrder
  /\ CallHasOneOwner /\ ResponseIsCounted
=============================================================================

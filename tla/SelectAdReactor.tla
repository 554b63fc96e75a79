--------------------------- MODULE SelectAdReactor ---------------------------
(***************************************************************************)
(* One SelectAd request in the seller front end (SFE): the reactor decodes *)
(* the request, asks each buyer front end for bids, looks the bids up in   *)
(* the k-anonymity service and the seller key/value server in parallel,    *)
(* has the auction service score them, and finishes the call.              *)
(*                                                                         *)
(* Everything after the handler returns runs in callbacks, on whichever    *)
(* thread completes the RPC.  `main' is the handler thread, `flow' the one *)
(* continuation that a last TaskCompleted hands over; the RPCs in flight   *)
(* (call, kanon, kv, score, join) complete in any order.  A bid is a model *)
(* value; only what decides the control flow is kept of it (BidInfo).      *)
(***************************************************************************)
EXTENDS AsyncTaskTracker, Sequences, FiniteSets, FiniteSetsExt

CONSTANTS
  Configured,           \* buyers the SFE has a BFE client for
  BuyerList,            \* auction_config.buyer_list
  NoClient,             \* buyers for which buyer_factory.Get returns null
  BidInfo,              \* bid -> [owner, mismatch, url, hashes]
  MaxBuyersSolicited,   \* max_buyers_solicited_
  Configs               \* the flag settings and requests to consider

Bids == DOMAIN BidInfo
Hashes == UNION {BidInfo[b].hashes : b \in Bids}

(* Flags: enable_cancellation_; enable_enforce_kanon_ after DecryptRequest; *)
(* perform_scoring_signals_fetch_; UseKvV2; PS_VLOG_IS_ON(kKVLog);          *)
(* chaffing_enabled_; an invoked_buyers_cache; a Microsoft build serving a  *)
(* request with a genuine hint; ENABLE_PRIORITY_VECTOR with priority_signals *)
(* that do not parse; a web client whose result the CBOR encoder may refuse. *)
ConfigType ==
  [cancellation : BOOLEAN, kanon : BOOLEAN, fetch : BOOLEAN, v2 : BOOLEAN,
   kvLog : BOOLEAN, chaffing : BOOLEAN, cache : BOOLEAN, genuine : BOOLEAN,
   badPriority : BOOLEAN, cborFails : BOOLEAN]

ASSUME SelectAdAssumption ==
  /\ Configs \subseteq ConfigType
  /\ MaxBuyersSolicited \in Nat
  /\ IsFiniteSet(Configured) /\ IsFiniteSet(BuyerList)
  /\ \A b \in Bids : BidInfo[b].owner \in Configured \cap BuyerList

VARIABLES
  conf,        \* the setting this request runs under
  cancelled,   \* request_context_->IsCancelled()
  inputs,      \* buyers with a BuyerInput in the ciphertext
  invoked,     \* invoked_buyers_: {} or {[chaff, nonChaff]}
  main,        \* handler thread: start, fetchBids, loop, returned, aborted
  todo,        \* requests the FetchBids loop has not handled
  chaff,       \* the ones among them that are chaff
  solicited,   \* buyers FetchBid was called for
  call,        \* buyers with a GetBids RPC in flight
  bidTracker,  \* async_task_tracker_
  bids,        \* the bids of shared_buyer_bids_map_
  flow,        \* the continuation that is due
  anyOk,       \* its argument, for OnAllBidsDone
  kanon,       \* the k-anon query: idle, queued, asked, resolved
  queried,     \* queried_k_anon_hashes_
  kstatus,     \* the bids with bid_k_anon_status_ true
  kv,          \* the KV lookup: idle, sent, tail, done
  signals,     \* maybe_scoring_signals_: error (unset), empty, ok
  kTracker,    \* fetch_scoring_signals_query_kanon_tracker_
  score,       \* the ScoreAds RPC: idle, sent, done
  scored,      \* the bids sent to scoring with k_anon_status true
  join,        \* the Microsoft k-anon join: idle, sent, done
  errs,        \* visibilities with an accumulated error
  finish,      \* statuses Finish was called with, in order
  result,      \* what the finished response carries
  deleted      \* OnDone has run

requestVars == <<conf, inputs>>
fetchVars == <<invoked, main, todo, chaff, solicited>>
bidVars == <<call, bidTracker, bids>>
flowVars == <<flow, anyOk>>
kanonVars == <<kanon, queried, kstatus>>
signalVars == <<kv, signals>>
scoreVars == <<score, scored>>
endVars == <<join, errs, finish, result>>
vars == <<conf, cancelled, inputs, invoked, main, todo, chaff, solicited, call,
          bidTracker, bids, flow, anyOk, kanon, queried, kstatus, kv, signals,
          kTracker, score, scored, join, errs, finish, result, deleted>>

IsCancelled == conf.cancellation /\ cancelled

-----------------------------------------------------------------------------
(* Buyer selection. *)

Solicitable == Configured \cap BuyerList

ChaffCandidates == Solicitable \ inputs

RealBuyers == Solicitable \cap inputs

(* kMinChaffRequests, kMinChaffRequestsWithNoRealRequests *)
ChaffLowerBound ==
  LET wanted == IF RealBuyers = {} THEN 2 ELSE 1
  IN  Min({wanted, Cardinality(ChaffCandidates)})

(* The chaff sets the seeded generator may pick: a shuffled prefix. *)
GetChaffingConfig ==
  IF ~conf.chaffing THEN {{}}
  ELSE IF invoked # {} THEN {c.chaff : c \in invoked}
  ELSE {S \in SUBSET ChaffCandidates : Cardinality(S) >= ChaffLowerBound}

(* The real requests: the cached names when the ciphertext was seen before. *)
GetNonChaffBuyerNames ==
  IF invoked # {} THEN UNION {c.nonChaff : c \in invoked} ELSE RealBuyers

(* kMaxBuyersSolicitedChaffingEnabled, or the flag. *)
MaxSolicitedWithChaff == 15

Cap == IF conf.chaffing THEN MaxSolicitedWithChaff ELSE MaxBuyersSolicited

-----------------------------------------------------------------------------
(* Helpers that a step uses to hand over or to end the call. *)

FinishWithStatus(st) == finish' = Append(finish, st)

(* Mutant: OnAllBidsDone runs with one buyer still to answer. *)
BidTaskCompletedEarly(status) ==
  /\ bidTracker' = TaskCompleted(bidTracker, status)
  /\ IF bidTracker'.pending <= 1
     THEN /\ flow' = "allBidsDone"
          /\ anyOk' = AnyTaskSuccessfullyCompleted(bidTracker')
     ELSE UNCHANGED flowVars

(* async_task_tracker_.TaskCompleted: the last caller owes OnAllBidsDone. *)
BidTaskCompleted(status) ==
  /\ bidTracker' = TaskCompleted(bidTracker, status)
  /\ IF IsLastResponse(bidTracker')
     THEN /\ flow' = "allBidsDone"
          /\ anyOk' = AnyTaskSuccessfullyCompleted(bidTracker')
     ELSE UNCHANGED flowVars

(* The same for the second tracker, which owes OnFetchScoringSignalsDone. *)
KTaskCompleted(status) ==
  /\ kTracker' = TaskCompleted(kTracker, status)
  /\ flow' = IF IsLastResponse(kTracker') THEN "signalsDone" ELSE flow

(* MicrosoftJoinWinnerKAnon: an RPC whose callback keeps the reactor. *)
MicrosoftJoinWinnerKAnon ==
  IF conf.genuine /\ ~IsCancelled THEN join' \in {"sent", "idle"}
  ELSE UNCHANGED join

(* GetNonEncryptedResponse, EncryptResponse and the last Finish: the result  *)
(* goes out, or compression or encryption fails, or the CBOR encoder does.   *)
(* Then each of its nested levels may call error_handler, which finishes the *)
(* call, before the caller finishes it too; one such call stands for all.    *)
SendResponse(res) ==
  \/ result' = res /\ FinishWithStatus("OK")
  \/ FinishWithStatus("INTERNAL") /\ UNCHANGED result
  \/ /\ conf.cborFails
     /\ finish' = finish \o <<"INTERNAL", "INTERNAL">> /\ UNCHANGED result

(* errors: the visibilities accumulated so far, this step's included. *)
OnScoreAdsDone(response, errors) ==
  \/ /\ "AD_SERVER" \in errors
     /\ FinishWithStatus("INVALID_ARGUMENT")
     /\ UNCHANGED <<join, result>>
  \/ /\ "AD_SERVER" \notin errors /\ response = "OTHER"
     /\ FinishWithStatus("OTHER")
     /\ UNCHANGED <<join, result>>
  \/ /\ "AD_SERVER" \notin errors /\ response # "OTHER"
     /\ IF response = "winner" THEN MicrosoftJoinWinnerKAnon ELSE UNCHANGED join
     /\ SendResponse(IF "CLIENT" \in errors THEN "clientError"
                     ELSE IF response = "winner" THEN "winner" ELSE "chaff")

-----------------------------------------------------------------------------
Init ==
  /\ conf \in Configs /\ cancelled = FALSE /\ inputs = {} /\ invoked = {}
  /\ main = "start" /\ todo = {} /\ chaff = {} /\ solicited = {}
  /\ call = {} /\ bidTracker = SetNumTasksToTrack(0) /\ bids = {}
  /\ flow = "idle" /\ anyOk = FALSE
  /\ kanon = "idle" /\ queried = {} /\ kstatus = {}
  /\ kv = "idle" /\ signals = "error"
  /\ kTracker = SetNumTasksToTrack(1)
  /\ score = "idle" /\ scored = {}
  /\ join = "idle" /\ errs = {} /\ finish = <<>> /\ result = "none"
  /\ deleted = FALSE

(* What an earlier service of the same ciphertext, perhaps for another       *)
(* auction config, left in the cache: it invoked at least one buyer, and no  *)
(* more than the cap of a service that sends chaff.                          *)
InvokedFor(in) ==
  {c \in [chaff : SUBSET (Configured \ in), nonChaff : SUBSET (Configured \cap in)] :
     /\ c.chaff \cup c.nonChaff # {}
     /\ Cardinality(c.chaff \cup c.nonChaff) <= MaxSolicitedWithChaff}

(* DecryptRequest sets up the second tracker when k-anon is enforced. *)
DecryptRequest(in) ==
  /\ inputs' = in
  /\ kTracker' = IF conf.kanon
                 THEN SetNumTasksToTrack((IF conf.fetch THEN 1 ELSE 0) + 1)
                 ELSE kTracker

(* What decoding, MayPopulateAdServerVisibleErrors and the validation of the *)
(* input may have to say of a request.                                       *)
InputErrors == (SUBSET {"AD_SERVER", "CLIENT"}) \ {{}}

(* Execute, up to the call of FetchBids. *)
Execute ==
  /\ main = "start"
  /\ \/ /\ IsCancelled
        /\ FinishWithStatus("CANCELLED") /\ main' = "returned"
        /\ UNCHANGED <<inputs, invoked, bidTracker, kTracker, join, errs, result>>
     \/ /\ ~IsCancelled  \* bad metadata, auction config or ciphertext
        /\ FinishWithStatus("INVALID_ARGUMENT") /\ main' = "returned"
        /\ UNCHANGED <<inputs, invoked, bidTracker, kTracker, join, errs, result>>
     \/ /\ ~IsCancelled
        /\ \E in \in SUBSET BuyerList :
             /\ DecryptRequest(in)
             /\ bidTracker' = SetNumTasksToTrack(Cardinality(BuyerList))
             /\ IF conf.chaffing /\ conf.cache
                THEN \/ invoked' = {}
                     \/ \E c \in InvokedFor(in) : invoked' = {c}
                ELSE invoked' = {}
        /\ \/ /\ conf.badPriority  \* a StatusOr that holds an error is used
              /\ main' = "aborted"
              /\ errs' = {"AD_SERVER"} /\ UNCHANGED <<join, finish, result>>
           \/ /\ ~conf.badPriority
              /\ main' = "fetchBids" /\ UNCHANGED endVars
           \/ /\ ~conf.badPriority /\ main' = "returned"
              /\ errs' \in InputErrors
              /\ OnScoreAdsDone("empty", errs')
  /\ UNCHANGED <<conf, cancelled, todo, chaff, solicited, call, bids, flow,
                 anyOk, kanonVars, signalVars, scoreVars, deleted>>

(* FetchBids, before its loop: count the requests and build them. *)
FetchBids ==
  /\ main = "fetchBids"
  /\ \E C \in GetChaffingConfig :
       LET real == GetNonChaffBuyerNames
           effective == Cardinality(real) + Cardinality(C)
       IN  /\ bidTracker' = SetNumTasksToTrack(effective)
           /\ IF effective = 0
              THEN /\ flow' = "allBidsDone" /\ anyOk' = TRUE
                   /\ main' = "returned"
                   /\ UNCHANGED <<todo, chaff>>
              ELSE /\ todo' = (real \cap inputs) \cup C /\ chaff' = C
                   /\ main' = "loop"
                   /\ UNCHANGED flowVars
  /\ UNCHANGED <<requestVars, cancelled, invoked, solicited, call, bids,
                 kanonVars, signalVars, kTracker, scoreVars, endVars, deleted>>

(* Mutant: a buyer without a client is passed over without a report. *)
FetchBidSilentSkip(b) ==
  \/ /\ IsCancelled
     /\ BidTaskCompleted("CANCELLED") /\ UNCHANGED call
  \/ /\ ~IsCancelled /\ b \in NoClient
     /\ UNCHANGED <<call, bidTracker, flowVars>>
  \/ /\ ~IsCancelled /\ b \notin NoClient
     /\ call' = call \cup {b} /\ UNCHANGED <<bidTracker, flowVars>>

(* FetchBid for buyer b: the RPC starts, or the task is reported at once. *)
FetchBid(b) ==
  \/ /\ IsCancelled
     /\ BidTaskCompleted("CANCELLED") /\ UNCHANGED call
  \/ /\ ~IsCancelled /\ b \in NoClient
     /\ BidTaskCompleted("SKIPPED") /\ UNCHANGED call
  \/ /\ ~IsCancelled /\ b \notin NoClient  \* ExecuteInternal fails
     /\ BidTaskCompleted("ERROR") /\ UNCHANGED call
  \/ /\ ~IsCancelled /\ b \notin NoClient
     /\ call' = call \cup {b} /\ UNCHANGED <<bidTracker, flowVars>>

(* Mutant: at the cap the loop goes round without skipping the buyer. *)
FetchBidsLoopStuck ==
  /\ main = "loop"
  /\ \E b \in todo :
       IF Cardinality(solicited) >= Cap
       THEN UNCHANGED <<todo, call, solicited, bidTracker, flowVars>>
       ELSE todo' = todo \ {b} /\ FetchBid(b) /\ solicited' = solicited \cup {b}
  /\ UNCHANGED <<requestVars, cancelled, invoked, main, chaff, bids, kanonVars,
                 signalVars, kTracker, scoreVars, endVars, deleted>>

(* One turn of the FetchBids loop; the shuffle makes the order arbitrary. *)
FetchBidsLoop ==
  /\ main = "loop"
  /\ \E b \in todo :
       /\ todo' = todo \ {b}
       /\ IF Cardinality(solicited) >= Cap
          THEN BidTaskCompleted("SKIPPED") /\ UNCHANGED <<call, solicited>>
          ELSE FetchBid(b) /\ solicited' = solicited \cup {b}
  /\ UNCHANGED <<requestVars, cancelled, invoked, main, chaff, bids, kanonVars,
                 signalVars, kTracker, scoreVars, endVars, deleted>>

(* Mutant: the chaff buyers are remembered as real ones too. *)
FetchBidsReturnAllReal ==
  /\ main = "loop" /\ todo = {}
  /\ main' = "returned"
  /\ invoked' = IF conf.chaffing /\ conf.cache /\ invoked = {}
                THEN {[chaff |-> solicited \cap chaff, nonChaff |-> solicited]}
                ELSE invoked
  /\ UNCHANGED <<requestVars, cancelled, todo, chaff, solicited, bidVars,
                 flowVars, kanonVars, signalVars, kTracker, scoreVars, endVars,
                 deleted>>

(* After the loop: remember whom this ciphertext was sent to, and return. *)
FetchBidsReturn ==
  /\ main = "loop" /\ todo = {}
  /\ main' = "returned"
  /\ invoked' = IF conf.chaffing /\ conf.cache /\ invoked = {}
                THEN {[chaff |-> solicited \cap chaff,
                       nonChaff |-> solicited \ chaff]}
                ELSE invoked
  /\ UNCHANGED <<requestVars, cancelled, todo, chaff, solicited, bidVars,
                 flowVars, kanonVars, signalVars, kTracker, scoreVars, endVars,
                 deleted>>

(* What buyer b may answer: an error, or a set of its bids; chaff is empty. *)
Responses(b) ==
  IF b \in chaff THEN {{}} ELSE SUBSET {x \in Bids : BidInfo[x].owner = b}

(* The GetBids callback: OnFetchBidsDone, or its cancellation branch. *)
OnFetchBidsDone(b) ==
  /\ ~deleted /\ b \in call
  /\ call' = call \ {b}
  /\ \/ IsCancelled /\ BidTaskCompleted("CANCELLED") /\ UNCHANGED bids
     \/ ~IsCancelled /\ BidTaskCompleted("ERROR") /\ UNCHANGED bids
     \/ /\ ~IsCancelled
        /\ \E r \in Responses(b) :
             /\ bids' = bids \cup r
             /\ BidTaskCompleted(IF r = {} THEN "EMPTY_RESPONSE" ELSE "SUCCESS")
  /\ UNCHANGED <<requestVars, cancelled, fetchVars, kanonVars, signalVars,
                 kTracker, scoreVars, endVars, deleted>>

-----------------------------------------------------------------------------
(* Bids are in: filter them, resolve k-anonymity, fetch scoring signals. *)

FilterBidsWithMismatchingCurrency == {x \in bids : ~BidInfo[x].mismatch}

(* GetKAnonHashesForBids: a buyer without a reportWin URL gets no hashes. *)
GetKAnonHashesForBids == UNION {BidInfo[x].hashes : x \in bids}

(* Mutant: one confirmed hash of a bid is enough. *)
PopulateKAnonStatusAnyHash(confirmed) ==
  kstatus' = {x \in bids : BidInfo[x].hashes \cap confirmed # {}}

(* A bid is k-anonymous when it has hashes and each of them was confirmed. *)
PopulateKAnonStatusForBids(confirmed) ==
  kstatus' = {x \in bids : /\ BidInfo[x].hashes # {}
                           /\ BidInfo[x].hashes \subseteq confirmed}

OnAllBidsDone ==
  /\ flow = "allBidsDone"
  /\ \/ /\ IsCancelled
        /\ FinishWithStatus("CANCELLED") /\ flow' = "idle"
        /\ UNCHANGED <<bids, kanon, join, result>>
     \/ /\ ~IsCancelled /\ bids = {} /\ ~anyOk
        /\ FinishWithStatus("INTERNAL") /\ flow' = "idle"
        /\ UNCHANGED <<bids, kanon, join, result>>
     \/ /\ ~IsCancelled /\ bids = {} /\ anyOk
        /\ OnScoreAdsDone("empty", errs) /\ flow' = "idle"
        /\ UNCHANGED <<bids, kanon>>
     \/ /\ ~IsCancelled /\ bids # {}
        /\ bids' = FilterBidsWithMismatchingCurrency
        /\ IF bids' = {}
           THEN /\ FinishWithStatus("INVALID_ARGUMENT")
                /\ flow' = "idle" /\ UNCHANGED kanon
           ELSE /\ flow' = IF conf.fetch THEN "fetchSignals"
                           ELSE IF conf.kanon THEN "idle" ELSE "scoreAds"
                /\ kanon' = IF conf.kanon THEN "queued" ELSE kanon
                /\ UNCHANGED finish
        /\ UNCHANGED <<join, result>>
  /\ UNCHANGED <<requestVars, cancelled, fetchVars, call, bidTracker, anyOk,
                 queried, kstatus, signalVars, kTracker, scoreVars, errs, deleted>>

(* QueryKAnonHashes, on the executor when signals are fetched in parallel:  *)
(* nothing to ask, the cache manager refuses, or it will call back.         *)
QueryKAnonHashes ==
  /\ ~deleted /\ kanon = "queued"
  /\ \/ /\ GetKAnonHashesForBids = {}
        /\ KTaskCompleted("SKIPPED") /\ kanon' = "resolved"
        /\ UNCHANGED kstatus
     \/ /\ GetKAnonHashesForBids # {}
        /\ PopulateKAnonStatusForBids({})
        /\ KTaskCompleted("ERROR") /\ kanon' = "resolved"
     \/ /\ GetKAnonHashesForBids # {}
        /\ kanon' = "asked"
        /\ UNCHANGED <<kstatus, kTracker, flow>>
  /\ UNCHANGED <<requestVars, cancelled, fetchVars, bidVars, anyOk, queried,
                 signalVars, scoreVars, endVars, deleted>>

(* Mutant: the callback also drops the bids that are not k-anonymous, while *)
(* the scoring-signals lookup may be reading the map.                        *)
OnKAnonHashesQueriedDropping ==
  /\ ~deleted /\ kanon = "asked"
  /\ kanon' = "resolved"
  /\ queried' \in SUBSET GetKAnonHashesForBids
  /\ PopulateKAnonStatusForBids(queried')
  /\ bids' = kstatus'
  /\ KTaskCompleted("SUCCESS")
  /\ UNCHANGED <<requestVars, cancelled, fetchVars, call, bidTracker, anyOk,
                 signalVars, scoreVars, endVars, deleted>>

(* The callback given to AreKAnonymous; cancellation does not reach it. *)
OnKAnonHashesQueried ==
  /\ ~deleted /\ kanon = "asked"
  /\ kanon' = "resolved"
  /\ \/ KTaskCompleted("ERROR") /\ UNCHANGED <<queried, kstatus>>
     \/ /\ queried' \in SUBSET GetKAnonHashesForBids
        /\ PopulateKAnonStatusForBids(queried')
        /\ KTaskCompleted("SUCCESS")
  /\ UNCHANGED <<requestVars, cancelled, fetchVars, bidVars, anyOk, signalVars,
                 scoreVars, endVars, deleted>>

(* FetchScoringSignals, with its cancellation wrapper.  The V2 request       *)
(* cannot be built when no bid has a URL, and whether the V2 client sent it  *)
(* is not looked at: in both cases nobody will call back.                    *)
FetchScoringSignals ==
  /\ flow = "fetchSignals" /\ flow' = "idle"
  /\ \/ /\ IsCancelled
        /\ FinishWithStatus("CANCELLED") /\ UNCHANGED kv
     \/ /\ ~IsCancelled /\ UNCHANGED finish
        /\ IF ~conf.v2 THEN kv' = "sent"
           ELSE IF \A x \in bids : ~BidInfo[x].url THEN UNCHANGED kv
           ELSE kv' \in {"sent", "idle"}
  /\ UNCHANGED <<requestVars, cancelled, fetchVars, bidVars, anyOk, kanonVars,
                 signals, kTracker, scoreVars, join, errs, result, deleted>>

(* The V1 callback stores the outcome, good or bad, for the tracker's end. *)
OnScoringSignalsV1 ==
  /\ ~deleted /\ ~conf.v2 /\ kv = "sent" /\ kv' = "done"
  /\ \/ IsCancelled /\ KTaskCompleted("CANCELLED") /\ UNCHANGED signals
     \/ /\ ~IsCancelled
        /\ signals' \in {"ok", "empty", "error"}
        /\ KTaskCompleted("SUCCESS")
  /\ UNCHANGED <<requestVars, cancelled, fetchVars, bidVars, anyOk, kanonVars,
                 scoreVars, endVars, deleted>>

(* Mutant: the error branch reports its task as well as ending the call. *)
OnScoringSignalsV2Twice ==
  /\ ~deleted /\ conf.v2 /\ kv = "sent" /\ ~IsCancelled
  /\ \/ /\ errs' = errs \cup {"AD_SERVER"}
        /\ OnScoreAdsDone("empty", errs')
        /\ KTaskCompleted("ERROR")
        /\ kv' = "done" /\ UNCHANGED signals
     \/ /\ signals' \in {"ok", "empty"} /\ kv' = "done"
        /\ KTaskCompleted("SUCCESS")
        /\ UNCHANGED endVars
  /\ UNCHANGED <<requestVars, cancelled, fetchVars, bidVars, anyOk, kanonVars,
                 scoreVars, deleted>>

(* The V2 callback ends the call itself when cancelled or on an error, and  *)
(* touches the reactor once more afterwards when KV logging is on.  The      *)
(* answer is taken to convert to the V1 form: the code does not look whether *)
(* it did (line 1515), and would abort.                                      *)
OnScoringSignalsV2 ==
  /\ ~deleted /\ conf.v2 /\ kv = "sent"
  /\ \/ /\ IsCancelled
        /\ FinishWithStatus("CANCELLED") /\ kv' = "done"
        /\ UNCHANGED <<signals, kTracker, flow, join, errs, result>>
     \/ /\ ~IsCancelled
        /\ errs' = errs \cup {"AD_SERVER"}
        /\ OnScoreAdsDone("empty", errs')
        /\ kv' = IF conf.kvLog THEN "tail" ELSE "done"
        /\ UNCHANGED <<signals, kTracker, flow>>
     \/ /\ ~IsCancelled
        /\ signals' \in {"ok", "empty"} /\ kv' = "done"
        /\ KTaskCompleted("SUCCESS")
        /\ UNCHANGED endVars
  /\ UNCHANGED <<requestVars, cancelled, fetchVars, bidVars, anyOk, kanonVars,
                 scoreVars, deleted>>

ScoringSignalsV2Tail ==
  /\ ~deleted /\ kv = "tail" /\ kv' = "done"
  /\ UNCHANGED <<requestVars, cancelled, fetchVars, bidVars, flowVars,
                 kanonVars, signals, kTracker, scoreVars, endVars, deleted>>

OnFetchScoringSignalsDone ==
  /\ flow = "signalsDone" /\ flow' = IF ~conf.fetch \/ signals = "ok"
                                    THEN "scoreAds" ELSE "idle"
  /\ \/ (~conf.fetch \/ signals = "ok") /\ UNCHANGED endVars
     \/ /\ conf.fetch /\ signals = "error"
        /\ errs' = errs \cup {"AD_SERVER"}
        /\ OnScoreAdsDone("empty", errs')
     \/ /\ conf.fetch /\ signals = "empty"
        /\ OnScoreAdsDone("empty", errs) /\ UNCHANGED errs
  /\ UNCHANGED <<requestVars, cancelled, fetchVars, bidVars, anyOk, kanonVars,
                 signalVars, kTracker, scoreVars, deleted>>

-----------------------------------------------------------------------------
(* Scoring and the end of the call. *)

(* ScoreAds, with its cancellation wrapper.  Bids are never empty here.     *)
(* Without enforcement BuildAdWithBidMetadata marks every bid k-anonymous.  *)
ScoreAds ==
  /\ flow = "scoreAds" /\ flow' = "idle"
  /\ \/ IsCancelled /\ FinishWithStatus("CANCELLED") /\ UNCHANGED scoreVars
     \/ /\ ~IsCancelled  \* ExecuteInternal fails
        /\ FinishWithStatus("INTERNAL") /\ UNCHANGED scoreVars
     \/ /\ ~IsCancelled
        /\ score' = "sent" /\ scored' = IF conf.kanon THEN kstatus ELSE bids
        /\ UNCHANGED finish
  /\ UNCHANGED <<requestVars, cancelled, fetchVars, bidVars, anyOk, kanonVars,
                 signalVars, kTracker, join, errs, result, deleted>>

(* The ScoreAds callback. *)
OnScoringDone ==
  /\ ~deleted /\ score = "sent" /\ score' = "done"
  /\ \/ IsCancelled /\ FinishWithStatus("CANCELLED") /\ UNCHANGED <<join, result>>
     \/ /\ ~IsCancelled
        /\ \E r \in {"winner", "empty", "INTERNAL", "OTHER"} :
             OnScoreAdsDone(r, errs)
  /\ UNCHANGED <<requestVars, cancelled, fetchVars, bidVars, flowVars,
                 kanonVars, signalVars, kTracker, scored, errs, deleted>>

OnJoinDone ==
  /\ ~deleted /\ join = "sent" /\ join' = "done"
  /\ UNCHANGED <<requestVars, cancelled, fetchVars, bidVars, flowVars,
                 kanonVars, signalVars, kTracker, scoreVars, errs, finish,
                 result, deleted>>

(* The client gives up.  OnCancel asks the RPCs in flight to stop; each      *)
(* still calls back, and the wrappers look at IsCancelled then.              *)
OnCancel ==
  /\ ~cancelled /\ ~deleted /\ cancelled' = TRUE
  /\ UNCHANGED <<requestVars, fetchVars, bidVars, flowVars, kanonVars,
                 signalVars, kTracker, scoreVars, endVars, deleted>>

(* grpc calls OnDone once the status is out and the handler has returned. *)
OnDone ==
  /\ finish # <<>> /\ main = "returned" /\ ~deleted
  /\ deleted' = TRUE
  /\ UNCHANGED <<requestVars, cancelled, fetchVars, bidVars, flowVars,
                 kanonVars, signalVars, kTracker, scoreVars, endVars>>

(* The reactor is gone; anything else still to run would find it freed. *)
Released == deleted /\ UNCHANGED vars

Next ==
  \/ Execute \/ FetchBids \/ FetchBidsLoop \/ FetchBidsReturn
  \/ \E b \in Configured : OnFetchBidsDone(b)
  \/ OnAllBidsDone \/ QueryKAnonHashes \/ OnKAnonHashesQueried
  \/ FetchScoringSignals \/ OnScoringSignalsV1 \/ OnScoringSignalsV2
  \/ ScoringSignalsV2Tail \/ OnFetchScoringSignalsDone
  \/ ScoreAds \/ OnScoringDone \/ OnJoinDone
  \/ OnCancel \/ OnDone \/ Released

(* Every RPC has a deadline, so every callback comes; threads run; grpc     *)
(* delivers OnDone.  Cancellation is the client's choice and has none.      *)
Fairness ==
  /\ WF_vars(Execute) /\ WF_vars(FetchBids)
  /\ WF_vars(FetchBidsLoop) /\ WF_vars(FetchBidsReturn)
  /\ \A b \in Configured : WF_vars(OnFetchBidsDone(b))
  /\ WF_vars(OnAllBidsDone) /\ WF_vars(QueryKAnonHashes)
  /\ WF_vars(OnKAnonHashesQueried) /\ WF_vars(FetchScoringSignals)
  /\ WF_vars(OnScoringSignalsV1) /\ WF_vars(OnScoringSignalsV2)
  /\ WF_vars(ScoringSignalsV2Tail) /\ WF_vars(OnFetchScoringSignalsDone)
  /\ WF_vars(ScoreAds) /\ WF_vars(OnScoringDone) /\ WF_vars(OnJoinDone)
  /\ WF_vars(OnDone)

Spec == Init /\ [][Next]_vars

FairSpec == Spec /\ Fairness

-----------------------------------------------------------------------------
(* Properties. *)

Codes == {"OK", "CANCELLED", "INTERNAL", "INVALID_ARGUMENT", "OTHER"}

TypeOK ==
  /\ conf \in Configs /\ cancelled \in BOOLEAN /\ inputs \subseteq BuyerList
  /\ Cardinality(invoked) <= 1
  /\ main \in {"start", "fetchBids", "loop", "returned", "aborted"}
  /\ todo \subseteq Configured /\ chaff \subseteq Configured
  /\ solicited \subseteq Configured /\ call \subseteq Configured
  /\ bidTracker \in Tracker /\ bids \subseteq Bids
  /\ flow \in {"idle", "allBidsDone", "fetchSignals", "signalsDone", "scoreAds"}
  /\ anyOk \in BOOLEAN
  /\ kanon \in {"idle", "queued", "asked", "resolved"}
  /\ queried \subseteq Hashes /\ kstatus \subseteq Bids
  /\ kv \in {"idle", "sent", "tail", "done"}
  /\ signals \in {"error", "empty", "ok"} /\ kTracker \in Tracker
  /\ score \in {"idle", "sent", "done"} /\ scored \subseteq Bids
  /\ join \in {"idle", "sent", "done"} /\ errs \subseteq {"AD_SERVER", "CLIENT"}
  /\ finish \in Seq(Codes) /\ deleted \in BOOLEAN
  /\ result \in {"none", "chaff", "winner", "clientError"}

(* The callbacks that were handed a pointer to the reactor. *)
Outstanding ==
  ({"bid"} \X call)
  \cup {r \in {<<"kanon", "rpc">>} : kanon \in {"queued", "asked"}}
  \cup {r \in {<<"kv", "rpc">>} : kv \in {"sent", "tail"}}
  \cup {r \in {<<"score", "rpc">>} : score = "sent"}
  \cup {r \in {<<"join", "rpc">>} : join = "sent"}

(* The calls that end through the task trackers alone: no V2 lookup, which   *)
(* ends the call by itself, no Microsoft join, no k-anon query left behind   *)
(* by a cancelled lookup, and inputs and encoder that raise no error.        *)
Sound ==
  /\ ~conf.v2 /\ ~conf.genuine /\ ~conf.badPriority /\ ~conf.cborFails
  /\ ~(conf.cancellation /\ conf.kanon /\ conf.fetch)

(* On sound calls the reactor implements UnaryReactor: Finish once, start    *)
(* nothing after it, and be deleted only when no callback still holds        *)
(* `this'.                                                                   *)
Reactor == INSTANCE UnaryReactor WITH
  Status <- {<<c>> : c \in Codes}, NoStatus <- <<>>,
  Callback <- ({"bid"} \X Configured) \cup ({"kanon", "kv", "score", "join"} \X {"rpc"}),
  status <- IF Sound THEN finish ELSE <<>>,
  outstanding <- IF Sound THEN Outstanding ELSE {},
  released <- Sound /\ deleted

(* Safety part of the promise: at most one Finish, no use after OnDone. *)
ReactorSafety == Reactor!Safety

(* On every other call, the callbacks that may find the reactor deleted are  *)
(* these and no others: the k-anon query that ran beside a lookup which      *)
(* ended the call by itself, the Microsoft join, and the log line the V2     *)
(* error branch writes after Finish.  Bids, the lookup's answer and scoring  *)
(* never arrive late.                                                        *)
StragglersAreKnown ==
  deleted => \A c \in Outstanding :
    \/ c[1] = "kanon" /\ conf.fetch /\ (conf.v2 \/ conf.cancellation)
    \/ c[1] = "join" /\ conf.genuine
    \/ c[1] = "kv" /\ kv = "tail" /\ conf.kvLog /\ conf.v2

(* A V2 lookup that could not be built or sent: the k-anon query is over or  *)
(* never was, and the tracker waits for a task nobody works on.              *)
WaitsForUnsentLookup ==
  /\ conf.v2 /\ conf.fetch /\ main = "returned" /\ finish = <<>>
  /\ kv = "idle" /\ flow = "idle" /\ Outstanding = {} /\ kTracker.pending = 1

(* Every request is finished and its reactor released, unless a malformed    *)
(* priority vector aborts the process or a V2 lookup was never sent.         *)
EventuallyReleased ==
  \/ <>deleted
  \/ <>(main = "aborted" /\ conf.badPriority)
  \/ <>[]WaitsForUnsentLookup

(* FetchBids sets the tracker before it knows what each request will do;    *)
(* every counted task is either still in the loop or in flight, so the      *)
(* DCHECK on pending tasks holds and OnAllBidsDone cannot be missed.        *)
BidTasksAllReport ==
  /\ main = "loop" => bidTracker.pending = Cardinality(todo) + Cardinality(call)
  /\ call # {} => bidTracker.pending >= Cardinality(call)
  /\ flow = "allBidsDone" => call = {} /\ todo = {}
  /\ main # "start" => SumMatches(bidTracker)

(* OnAllBidsDone has run, and the call goes on to signals and scoring. *)
AfterBids ==
  \/ kanon # "idle" \/ kv # "idle" \/ score # "idle"
  \/ flow \in {"fetchSignals", "signalsDone", "scoreAds"}

(* shared_buyer_bids_map_ "can be freely used without a lock after all the  *)
(* bids have completed": once OnAllBidsDone has run nothing changes it.     *)
BidsFrozen ==
  [][AfterBids => bids' = bids]_vars

(* With k-anon enforced, bids go to scoring only after the k-anon query was *)
(* resolved, and exactly those whose every hash was confirmed are marked;   *)
(* a failed query marks none.                                               *)
KAnonBeforeScoring ==
  score # "idle" /\ conf.kanon =>
    /\ kanon = "resolved"
    /\ scored = {x \in bids : /\ BidInfo[x].hashes # {}
                              /\ BidInfo[x].hashes \subseteq queried}

(* Once the handler has returned, what the cache remembers for this          *)
(* ciphertext is exactly whom it was sent to: a replay, with whatever        *)
(* inputs, shows the network the same set of buyers.                         *)
CacheMatchesSolicited ==
  main = "returned" /\ conf.chaffing /\ conf.cache /\ solicited # {} =>
    invoked = {[chaff |-> solicited \cap chaff, nonChaff |-> solicited \ chaff]}

(* A request none of whose buyers answered without error is not answered    *)
(* with an OK status.                                                       *)
AllBuyersFailedIsAnError ==
  finish = <<"OK">> /\ errs = {} /\ bidTracker.num > 0 =>
    bidTracker.count["ERROR"] < bidTracker.num

(* A request one of whose GetBids tasks was reported CANCELLED ends with    *)
(* that status, whatever the other buyers answered before or after.         *)
CancelledIsReported ==
  finish # <<>> /\ bidTracker.count["CANCELLED"] > 0 => finish = <<"CANCELLED">>

(* However the k-anon query, the V2 lookup, its error and cancellation       *)
(* paths and scoring interleave, Finish is called at most once, unless the   *)
(* CBOR encoder refuses the result: its error_handler is FinishWithStatus.   *)
FinishAtMostOnce == conf.cborFails \/ Len(finish) <= 1

(* The call is finished at most once, and a callback that comes after the    *)
(* reactor was deleted is one of the three kinds that are named.             *)
SelectAdLifeCycle == TypeOK /\ FinishAtMostOnce /\ StragglersAreKnown

(* The stage after the bids sees what the bid tasks were: every counted task *)
(* reports, failures of all buyers are an error, and a cancelled call is     *)
(* answered as one.                                                          *)
OutcomeMatchesTasks ==
  BidTasksAllReport /\ AllBuyersFailedIsAnError /\ CancelledIsReported

-----------------------------------------------------------------------------
(* The inductive invariant of the proofs. *)

(* Until FetchBids has built its requests nothing has been started. *)
NothingStarted ==
  main \in {"start", "fetchBids", "aborted"} =>
    /\ todo = {} /\ call = {} /\ solicited = {} /\ bids = {}
    /\ flow = "idle" /\ ~AfterBids /\ finish = <<>> /\ join = "idle"

(* Everything that follows the bids, and the end of the call, comes after    *)
(* every buyer was asked and has answered.                                   *)
BidsComeFirst ==
  /\ AfterBids \/ flow = "allBidsDone" \/ finish # <<>> =>
       main \in {"loop", "returned"} /\ todo = {} /\ call = {}
  /\ main = "returned" => todo = {}
  /\ flow = "allBidsDone" => ~AfterBids

(* A buyer is asked once. *)
EachBuyerOnce == todo \cap solicited = {} /\ call \subseteq solicited

(* The lookup has reported its task to the second tracker.  A V2 callback    *)
(* that ended the call left the signals unset and did not report.            *)
KvReported == kv = "done" /\ (~conf.v2 \/ signals # "error")

(* The second tracker waits for the query and the lookup, and each of them   *)
(* reports once.                                                             *)
KTasksAllReport ==
  /\ main = "start" => kTracker.pending = 1
  /\ main # "start" /\ (conf.kanon \/ conf.fetch) /\ (finish = <<>> \/ AfterBids) =>
       kTracker.pending = (IF conf.kanon /\ kanon # "resolved" THEN 1 ELSE 0)
                          + (IF conf.fetch /\ ~KvReported THEN 1 ELSE 0)
  /\ kv \in {"idle", "sent", "tail"} => signals = "error"
  /\ kv # "idle" => conf.fetch
  /\ kanon # "idle" => conf.kanon

(* At any time one party at most may end the call: the continuation that is  *)
(* due, the lookup, or scoring; and none once it was ended.                  *)
CallHasOneOwner ==
  /\ flow # "idle" => finish = <<>> /\ score = "idle" /\ kv # "sent"
  /\ flow = "fetchSignals" => kv = "idle" /\ conf.fetch
  /\ score = "sent" => finish = <<>>
  /\ kv = "sent" => finish = <<>> /\ score = "idle"
  /\ kv = "tail" => finish # <<>> /\ conf.kvLog /\ conf.v2
  /\ flow \in {"signalsDone", "scoreAds"} \/ score # "idle" =>
       (conf.kanon => kanon = "resolved") /\ (conf.fetch => KvReported)
  /\ kanon \in {"queued", "asked"} /\ finish # <<>> =>
       conf.fetch /\ ~KvReported /\ (conf.v2 \/ conf.cancellation)
  /\ join = "sent" => conf.genuine /\ finish # <<>>
  /\ deleted => finish # <<>>

(* What the first tracker has counted when the bids are in. *)
BidTasksCounted ==
  /\ SumMatches(bidTracker)
  /\ main = "loop" \/ (main = "returned" /\ finish = <<>>) =>
       bidTracker.pending = Cardinality(todo) + Cardinality(call)
  /\ flow = "allBidsDone" => anyOk = AnyTaskSuccessfullyCompleted(bidTracker)
  /\ bids # {} => bidTracker.count["SUCCESS"] > 0
  /\ bidTracker.count["CANCELLED"] > 0 => IsCancelled
  /\ main \in {"start", "fetchBids"} => bidTracker.count["CANCELLED"] = 0
  /\ AfterBids => bids # {} /\ bidTracker.count["CANCELLED"] = 0

(* A bid's status says what the hashes asked about say of it, at all times. *)
KAnonStatusIsRight ==
  /\ kstatus = {x \in bids : /\ BidInfo[x].hashes # {}
                             /\ BidInfo[x].hashes \subseteq queried}
  /\ kanon # "resolved" => queried = {}

(* A replay solicits everyone the cache names: the cap cannot get in its way *)
(* because it was applied when the names were stored.                        *)
ReplaySolicitsAll ==
  /\ invoked # {} => conf.chaffing /\ conf.cache
  /\ main = "start" => invoked = {}
  /\ main = "fetchBids" => invoked = {} \/ \E c \in InvokedFor(inputs) : invoked = {c}
  /\ main = "loop" /\ invoked # {} =>
       \E c \in InvokedFor(inputs) :
         /\ invoked = {c} /\ chaff = c.chaff
         /\ todo \cup solicited = c.chaff \cup c.nonChaff

Inv ==
  /\ TypeOK /\ FinishAtMostOnce /\ NothingStarted /\ BidsComeFirst /\ EachBuyerOnce
  /\ KTasksAllReport /\ CallHasOneOwner /\ BidTasksCounted
  /\ AllBuyersFailedIsAnError /\ CancelledIsReported
  /\ KAnonStatusIsRight /\ KAnonBeforeScoring
  /\ ReplaySolicitsAll /\ CacheMatchesSolicited
=============================================================================

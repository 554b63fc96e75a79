--------------------- MODULE ProtectedAppSignalsReactor ---------------------
(***************************************************************************)
(* One GenerateProtectedAppSignalsBids call of the bidding service: data   *)
(* for the retrieval of ads is prepared by a UDF and the ads fetched from  *)
(* the retrieval service, or, for a contextual request, the metadata of    *)
(* given ads is looked up; then generateBid runs and the egress payloads   *)
(* of its bids are put in wire format.  With binary UDFs the call is       *)
(* refused.                                                                *)
(***************************************************************************)
EXTENDS CodeDispatchReactor

CONSTANTS
  AppConfigs,   \* the settings and requests to consider
  AppOutputs    \* the lists of bids generateBid may return

AppConfigType ==
  [kind : {"pas"}, binary : BOOLEAN, cancellation : BOOLEAN, component : BOOLEAN,
   adIds : BOOLEAN, fetchAds : BOOLEAN, limitedEgress : BOOLEAN,
   unlimitedEgress : BOOLEAN]

(* A bid may be no ProtectedAppSignalsAdWithBid. *)
AppBidType ==
  [bid : Nat, allow : BOOLEAN, parses : BOOLEAN, egress : STRING,
   unlimited : STRING]

VARIABLES
  conf,      \* runtime_config, flags and the request
  prepared,  \* the result of prepareDataForAdRetrieval, "" when it did not run
  bidInput,  \* the forms in which generateBid got the app signals
  bids       \* the bids of raw_response_, by their place in the UDF's list

bidVars == <<conf, prepared, bidInput, bids>>
vars == <<dispatchVars, bidVars>>

Init ==
  /\ DispatchInit /\ conf \in AppConfigs
  /\ prepared = "" /\ bidInput = {} /\ bids = <<>>

IsCancelled == conf.cancellation /\ cancelled

(* Only an OK answer is encrypted; a failed encryption has finished the call *)
(* before the Finish that follows.                                           *)
EncryptResponseAndFinish(st) ==
  \/ FinishWithStatus(st)
  \/ st = "OK" /\ Finish("INTERNAL") /\ stage' = "finishAgain"

FinishAgain ==
  /\ stage = "finishAgain" /\ FinishWithStatus("INTERNAL")
  /\ UNCHANGED <<cancelled, readable, deleted, bidVars>>

(* Ads are named by the request, and are not wanted from the retrieval       *)
(* service.                                                                  *)
IsContextualRetrievalRequest == readable /\ conf.adIds /\ ~conf.fetchAds

(* A refused call ends the request, an accepted one calls back. *)
ExecuteRomaRequests(callback) ==
  \/ IsCancelled /\ EncryptResponseAndFinish("CANCELLED")
  \/ ~IsCancelled /\ stage' = callback /\ UNCHANGED callVars
  \/ ~IsCancelled /\ EncryptResponseAndFinish("INTERNAL")

FetchAdsMetadata == ExecuteRomaRequests("metadata")
FetchAds == ExecuteRomaRequests("ads")

StartContextualAdsRetrieval == FetchAdsMetadata
StartNonContextualAdsRetrieval == ExecuteRomaRequests("prepare")

Execute ==
  /\ ~conf.binary /\ stage = "execute"
  /\ \/ IsCancelled /\ EncryptResponseAndFinish("CANCELLED")
     \/ ~IsCancelled /\ EncryptResponseAndFinish("INVALID_ARGUMENT")  \* metadata
     \/ /\ ~IsCancelled
        /\ IF IsContextualRetrievalRequest THEN StartContextualAdsRetrieval
           ELSE StartNonContextualAdsRetrieval
  /\ UNCHANGED <<cancelled, readable, deleted, bidVars>>

ExecuteBinary ==
  /\ conf.binary /\ stage = "execute" /\ FinishWithStatus("UNIMPLEMENTED")
  /\ UNCHANGED <<cancelled, readable, deleted, bidVars>>

(* The answer of prepareDataForAdRetrieval is read without a look at whether *)
(* it has a member "response": the process may abort, or read a null.        *)
PrepareDataForAdRetrievalDone ==
  /\ stage = "prepare" /\ ~deleted /\ ~IsCancelled
  /\ \/ EncryptResponseAndFinish("INTERNAL") /\ UNCHANGED prepared
     \/ \E r \in {"embeddings", "null"} : prepared' = r /\ FetchAds
     \/ Crash /\ UNCHANGED prepared
  /\ UNCHANGED <<cancelled, readable, deleted, conf, bidInput, bids>>

(* Prepared data, or the raw signals of a contextual request. *)
CreateGenerateBidsRequest ==
  IF prepared # "" THEN {"prepared"}
  ELSE IF IsContextualRetrievalRequest THEN {"raw"} ELSE {}

(* The answer of either service. *)
OnFetchAdsDataDone ==
  /\ stage \in {"ads", "metadata"} /\ ~deleted /\ ~IsCancelled
  /\ \/ EncryptResponseAndFinish("INTERNAL") /\ UNCHANGED bidInput  \* RPC failed
     \/ EncryptResponseAndFinish("OK") /\ UNCHANGED bidInput        \* no ads
     \/ bidInput' = CreateGenerateBidsRequest /\ ExecuteRomaRequests("bid")
  /\ UNCHANGED <<cancelled, readable, deleted, conf, prepared, bids>>

(* Wire format; empty when there is no schema in the cache, the payload does *)
(* not fit the schema, or its bits exceed the limit.                         *)
PopulateSerializedEgressPayload(payload) ==
  IF payload = "" THEN {""} ELSE {"wire", ""}

Payloads(enabled, payload) ==
  IF enabled THEN PopulateSerializedEgressPayload(payload) ELSE {""}

WithPayloads(b, e, u) == [b EXCEPT !.egress = e, !.unlimited = u]

(* The bids that may be added for one bid of the UDF. *)
AddedBid(b) ==
  {WithPayloads(b, e, u) :
     e \in Payloads(conf.limitedEgress, b.egress),
     u \in Payloads(conf.unlimitedEgress, b.unlimited)}

IsValidProtectedAppSignalsBid(bid) ==
  IF bid.bid = 0 THEN "INVALID_ARGUMENT"
  ELSE IF conf.component /\ ~bid.allow THEN "PERMISSION_DENIED"
  ELSE "OK"

(* One bid that is no ProtectedAppSignalsAdWithBid fails the whole response. *)
ParseProtectedSignalsGenerateBidsResponse(out) ==
  \A i \in DOMAIN out : out[i].parses

OnBids ==
  /\ stage = "bid" /\ ~deleted /\ ~IsCancelled
  /\ \/ EncryptResponseAndFinish("INTERNAL") /\ UNCHANGED bids
     \/ \E out \in AppOutputs :
          IF ~ParseProtectedSignalsGenerateBidsResponse(out)
          THEN EncryptResponseAndFinish("INTERNAL") /\ UNCHANGED bids
          ELSE LET ok == {k \in DOMAIN out :
                            IsValidProtectedAppSignalsBid(out[k]) = "OK"}
               IN /\ \E added \in [ok -> UNION {AddedBid(out[k]) : k \in ok}] :
                       /\ \A k \in ok : added[k] \in AddedBid(out[k])
                       /\ bids' = added
                  /\ EncryptResponseAndFinish("OK")
  /\ UNCHANGED <<cancelled, readable, deleted, conf, prepared, bidInput>>

(* The stages in which a callback holds the reactor. *)
Outstanding == {"prepare", "ads", "metadata", "bid"}

(* CancellationWrapper of every callback. *)
CancelledCallback ==
  /\ stage \in Outstanding /\ ~deleted /\ IsCancelled
  /\ EncryptResponseAndFinish("CANCELLED")
  /\ UNCHANGED <<cancelled, readable, deleted, bidVars>>

(* A callback of a reactor that is gone may do anything. *)
CallbackAfterDone ==
  /\ stage \in Outstanding /\ deleted /\ Crash
  /\ UNCHANGED <<cancelled, readable, deleted, bidVars>>

Shared == (DecryptRequest \/ Bind \/ OnDone) /\ UNCHANGED bidVars
Cancel == OnCancel /\ UNCHANGED bidVars

Work ==
  \/ Execute \/ ExecuteBinary \/ PrepareDataForAdRetrievalDone
  \/ OnFetchAdsDataDone \/ OnBids \/ CancelledCallback \/ CallbackAfterDone
  \/ FinishAgain \/ Shared

Stopped == deleted \/ stage = "crashed"

-----------------------------------------------------------------------------

(* What a UDF wrote as egress payload never leaves the service as it was:    *)
(* it is in wire format, or empty, and empty where egress is not enabled.    *)
EgressIsEncoded ==
  \A k \in DOMAIN bids :
    /\ bids[k].egress \in (IF conf.limitedEgress THEN {"", "wire"} ELSE {""})
    /\ bids[k].unlimited \in (IF conf.unlimitedEgress THEN {"", "wire"} ELSE {""})

(* generateBid gets the app signals in one form: prepared data when ads came *)
(* from the retrieval service, the raw signals when the request named the    *)
(* ads.                                                                      *)
SignalsInOneForm ==
  bidInput # {} => /\ bidInput = IF conf.adIds /\ ~conf.fetchAds /\ readable
                                 THEN {"raw"} ELSE {"prepared"}

(* Only a failed encryption finishes a call twice, unless the request could  *)
(* not be decrypted: then the call is finished when the reactor is made, and *)
(* again at the end of the work it starts all the same.                      *)
AppSignalsFinishAtMostOnce ==
  Len(finish) > 1 => finish = <<"INTERNAL", "INTERNAL">> \/ ~readable

(* "Called only after the grpc request is finalized and finished": OnDone    *)
(* deletes the reactor, so no callback may still hold it.                    *)
DoneIsLast == deleted => stage \notin Outstanding
=============================================================================

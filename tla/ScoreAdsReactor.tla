--------------------------- MODULE ScoreAdsReactor ---------------------------
(***************************************************************************)
(* One ScoreAds call of the auction service.  The ads of the request, or   *)
(* the results of component auctions, are scored by one batch of scoreAd   *)
(* calls; the winner is chosen; then the reporting UDFs run: seller and    *)
(* buyer code in one call, or reportResult and then reportWin when their   *)
(* code is isolated.                                                       *)
(***************************************************************************)
EXTENDS CodeDispatchReactor, ScoreAdsRanking

CONSTANTS
  Configs,   \* the settings and requests to consider
  Outputs(_) \* what one scoreAd call may return, under a setting

(* Of an ad: its render URL, which becomes the id of its dispatch; whether   *)
(* it is a protected app signals ad; owner and interest group; bid and its   *)
(* currency; k-anon status and scoring signals.  In a top-level auction an   *)
(* ad stands for (a part of) the result of a component seller, "none" for    *)
(* chaff, and is its winner or a ghost winner.                               *)
AdType ==
  [render : STRING, pas : BOOLEAN, owner : STRING, ig : STRING, bid : Nat,
   cur : STRING, kanon : BOOLEAN, signals : BOOLEAN,
   seller : STRING, generation : STRING, ghost : BOOLEAN]

ConfigTypeOK(c) ==
  /\ c.scope \in AuctionScopes /\ c.maxGhosts \in Nat /\ c.cur \in STRING
  /\ {c.cancellation, c.requireSignals, c.signals, c.pas, c.enforceKAnon,
      c.pagg, c.debug, c.reportResult, c.reportWin, c.isolation,
      c.buyerSignals, c.buyerWin} \subseteq BOOLEAN
  /\ c.ads \in Seq(AdType)

ASSUME ScoreAdsAssumption ==
  \A c \in Configs : ConfigTypeOK(c) /\ Outputs(c) \subseteq OutputType

VARIABLES
  conf,        \* runtime_config and the request
  adData,      \* ad_data_
  pasData,     \* protected_app_signals_ad_data_
  component,   \* component_level_reporting_data_: the component seller of an id
  requests,    \* the ads dispatched, in order
  responses,   \* what the batch of scoreAd calls returned
  auction,     \* what the callback decided
  reply,       \* reporting data in raw_response_
  signals      \* the members of seller_device_signals_

vars == <<dispatchVars, conf, adData, pasData, component, requests, responses,
          auction, reply, signals>>

NoAuction ==
  [scored |-> <<>>, order |-> <<>>, winner |-> 0, ghosts |-> {}, cands |-> {},
   others |-> {}, id |-> "none"]

NoReply ==
  [contributions |-> <<>>, buyerOrigin |-> "none", top |-> FALSE,
   seller |-> "none", buyer |-> "none", pings |-> {}, buyerInput |-> {}]

Init ==
  /\ DispatchInit /\ conf \in Configs
  /\ adData = <<>> /\ pasData = <<>> /\ component = <<>> /\ requests = <<>>
  /\ responses = <<>> /\ auction = NoAuction /\ reply = NoReply /\ signals = {}

IsCancelled == conf.cancellation /\ cancelled

-----------------------------------------------------------------------------
(* Building the batch.  A batch is the three maps and the requests. *)

NoBatch == [pa |-> <<>>, pas |-> <<>>, component |-> <<>>, requests |-> <<>>]

(* try_emplace of a new key. *)
Emplace(map, key, value) ==
  [k \in (DOMAIN map) \cup {key} |-> IF k \in DOMAIN map THEN map[k] ELSE value]

(* The dispatch id of an ad is its render URL: of two ads of a kind with one *)
(* URL the second is dropped.                                                *)
InsertAd(b, ad) ==
  IF ad.render \in DOMAIN (IF ad.pas THEN b.pas ELSE b.pa) THEN b
  ELSE [pa |-> IF ad.pas THEN b.pa ELSE Emplace(b.pa, ad.render, ad),
        pas |-> IF ad.pas THEN Emplace(b.pas, ad.render, ad) ELSE b.pas,
        component |-> b.component, requests |-> Append(b.requests, ad)]

BuildScoreAdRequestForComponentGhostWinner(b, ad) ==
  InsertAd(b, [ad EXCEPT !.kanon = FALSE, !.pas = FALSE])

BuildScoreAdRequestForComponentWinner(b, ad) ==
  IF ad.render \in DOMAIN b.component THEN b
  ELSE InsertAd([b EXCEPT !.component = Emplace(@, ad.render, ad.seller)],
                [ad EXCEPT !.kanon = TRUE])

GenerationsMatch(ads) ==
  \A i, j \in DOMAIN ads :
    "none" \notin {ads[i].seller, ads[j].seller}
      => ads[i].generation = ads[j].generation

AddComponentResult(c, b, ad) ==
  IF ad.seller = "none" \/ (ad.ghost /\ ~c.enforceKAnon) THEN b
  ELSE IF ad.ghost THEN BuildScoreAdRequestForComponentGhostWinner(b, ad)
  ELSE BuildScoreAdRequestForComponentWinner(b, ad)

(* batch[i] is what the first i results come to. *)
PopulateTopLevelAuctionDispatchRequests(c, ads) ==
  LET batch[i \in 0..Len(ads)] ==
        IF i = 0 THEN NoBatch ELSE AddComponentResult(c, batch[i - 1], ads[i])
  IN batch[Len(ads)]

(* The render URLs with scoring signals. *)
BuildTrustedScoringSignals(ads) ==
  {ads[i].render : i \in {j \in DOMAIN ads : ads[j].signals}}

AddAd(c, b, ads, ad, pas) ==
  LET urls == IF c.signals THEN BuildTrustedScoringSignals(ads) ELSE {}
  IN IF ad.pas # pas \/ (c.requireSignals /\ ad.render \notin urls) THEN b
     ELSE InsertAd(b, ad)

(* The ads of one kind, from the last to the first. *)
PopulateDispatchRequests(c, b, ads, pas) ==
  LET batch[i \in 0..Len(ads)] ==
        IF i = 0 THEN b ELSE AddAd(c, batch[i - 1], ads, ads[Len(ads) + 1 - i], pas)
  IN batch[Len(ads)]

(* PopulateProtectedAudienceDispatchRequests. *)
PopulateProtectedAudienceDispatchRequests(c, b, ads) ==
  PopulateDispatchRequests(c, b, ads, FALSE)

MayPopulateProtectedAppSignalsDispatchRequests(c, b, ads) ==
  IF c.pas THEN PopulateDispatchRequests(c, b, ads, TRUE) ELSE b

Execute ==
  LET ads == IF readable THEN conf.ads ELSE <<>>
      top == readable /\ conf.scope = "topLevel"
      batch == IF top THEN PopulateTopLevelAuctionDispatchRequests(conf, ads)
               ELSE MayPopulateProtectedAppSignalsDispatchRequests(conf,
                      PopulateProtectedAudienceDispatchRequests(conf, NoBatch,
                        ads), ads)
      badSignals == ~top /\ conf.requireSignals /\ ~(readable /\ conf.signals)
      badGeneration == top /\ ~GenerationsMatch(ads)
      go == ~IsCancelled /\ ~badSignals /\ ~badGeneration
  IN /\ stage = "execute"
     /\ \/ IsCancelled /\ FinishWithStatus("CANCELLED")
        \/ /\ ~IsCancelled /\ (badSignals \/ badGeneration)
           /\ FinishWithStatus("INVALID_ARGUMENT")
        \/ go /\ batch.requests = <<>> /\ FinishWithStatus("INTERNAL")
        \/ go /\ batch.requests # <<>> /\ FinishWithStatus("UNKNOWN")
        \/ go /\ batch.requests # <<>> /\ stage' = "score" /\ UNCHANGED callVars
     /\ adData' = batch.pa /\ pasData' = batch.pas
     /\ component' = batch.component /\ requests' = batch.requests
     /\ UNCHANGED <<conf, cancelled, readable, deleted, responses, auction,
                    reply, signals>>

-----------------------------------------------------------------------------
(* The callback of the batch. *)

FindScoredAdType(id) ==
  IF id \in DOMAIN adData THEN adData[id] ELSE pasData[id]

(* responses[winner_index]->id aborts when that response is an error. *)
WinnerIdReadable(rs, a) ==
  \A p \in DOMAIN a.order : a.order[p] = a.winner => rs[p].ok

IgName(ad) == IF ad.pas THEN "" ELSE ad.ig

(* The pings of PerformDebugReporting.  The winner is told apart by owner    *)
(* and interest group name, which is empty for protected app signals.        *)
PerformDebugReporting(a) ==
  LET Won(i) == /\ a.winner # 0
                /\ a.scored[i].ad.owner = a.scored[a.winner].ad.owner
                /\ IgName(a.scored[i].ad) = IgName(a.scored[a.winner].ad)
      ids == {i \in DOMAIN a.scored :  \* ad_scores_ keeps one score per id
                \A j \in DOMAIN a.scored :
                  a.scored[j].ad = a.scored[i].ad => i <= j}
  IN IF conf.scope = "topLevel" THEN {}
     ELSE {<<i, "win">> : i \in {j \in ids :
             Won(j) /\ a.scored[j].win > 0 /\ ~IsComponentAuction(conf)}}
          \cup {<<i, "loss">> : i \in {j \in ids :
                  ~Won(j) /\ a.scored[j].loss > 0}}

(* The dispatch id kept for the winner is that of the response at the        *)
(* winner's place in the sorted ads.                                         *)
WinnerDispatchId(order, winner) ==
  IF winner = 0 THEN "none"
  ELSE requests[CHOOSE p \in DOMAIN order : order[p] = winner].render

(* FindWinningAd: any outcome of its sort and of its random choice, and of   *)
(* the order of the scores of the other bids.                                *)
FindWinningAd(scored) ==
  UNION {UNION {
    {[scored |-> scored, order |-> order, winner |-> pick.winner,
      ghosts |-> pick.ghosts, cands |-> cands.ghosts,
      others |-> IF pick.winner = 0 THEN {}
                 ELSE PopulateHighestScoringOtherBidsData(conf,
                        ScoreAdMap(scored, order, cands), list, pick.winner),
      id |-> WinnerDispatchId(order, pick.winner)] :
       pick \in ChooseWinnerAndGhostWinners(conf, cands),
       list \in ScoreLists(ScoreAdMap(scored, order, cands))} :
      cands \in {Candidates(scored, order)}} :
    order \in SortedOrders(scored, Considered(conf, scored))}

ScoreAdsCallback ==
  /\ stage = "score" /\ ~IsCancelled
  /\ \E rs \in [1..Len(requests) -> Outputs(conf)] :
     /\ responses' = rs
     /\ \E scored \in {CollectValidRomaResponses(conf,
             [i \in DOMAIN rs |-> FindScoredAdType(requests[i].render)], rs)} :
        \E a \in FindWinningAd(scored) :
          /\ auction' = a
          /\ \/ /\ a.winner = 0 /\ EncryptAndFinishOK
                /\ reply' = IF conf.debug
                            THEN [reply EXCEPT !.pings = PerformDebugReporting(a)]
                            ELSE reply
             \/ /\ a.winner # 0 /\ WinnerIdReadable(rs, a)
                /\ stage' = "won" /\ UNCHANGED <<callVars, reply>>
             \/ /\ a.winner # 0 /\ ~WinnerIdReadable(rs, a)
                /\ Crash /\ UNCHANGED reply
  /\ UNCHANGED <<conf, cancelled, readable, deleted, adData, pasData, component,
                 requests, signals>>

-----------------------------------------------------------------------------
(* Reporting. *)

WinnerAd == auction.scored[auction.winner].ad

(* ghost_winner_interest_group_data_ keeps the first ghost of each owner, and *)
(* is looked at only for owners without a rejected ad.                        *)
SkippedAsGhost(ad) ==
  LET own == SelectSeq(auction.order, LAMBDA i :
               i \in auction.ghosts /\ auction.scored[i].ad.owner = ad.owner)
      rejected == {auction.scored[i].ad.owner :
                     i \in {j \in DOMAIN auction.scored :
                              Rejected(conf, auction.scored[j])}}
  IN /\ own # <<>> /\ auction.scored[Head(own)].ad.ig = ad.ig
     /\ conf.scope = "topLevel" \/ ad.owner \notin rejected

(* The event reported for each ad with contributions: HandlePrivate-         *)
(* AggregationReporting takes the ad with the kept id for the winner.        *)
PerformPrivateAggregationReporting(id) ==
  [ad \in {auction.scored[i].ad :
             i \in {j \in DOMAIN auction.scored :
                      /\ responses[j].contrib /\ ~auction.scored[j].ad.pas
                      /\ ~SkippedAsGhost(auction.scored[j].ad)}} |->
     IF ad.render = id THEN "win" ELSE "loss"]

EnableReportWin == conf.reportWin /\ conf.scope # "topLevel"

GenerateSellerDeviceSignals ==
  {"bid", "desirability", "highestScoringOtherBid", "sellerDataVersion"}

GenerateSellerDeviceSignalsForComponentAuction ==
  GenerateSellerDeviceSignals \cup {"topLevelSeller", "modifiedBid"}

GenerateSellerDeviceSignalsForTopLevelAuction ==
  {"bid", "desirability", "componentSeller"}

(* The buyer's signals are made from the seller's document, in place. *)
GenerateBuyerDeviceSignals(sig) ==
  (sig \ {"desirability", "modifiedBid", "sellerDataVersion"})
    \cup {"madeHighestScoringOtherBid", "joinCount", "recency",
          "modelingSignals", "seller", "adCost", "reportingId", "kAnonStatus"}

(* The reportResult call, or the end of the call when it cannot be made. *)
PerformReportingWithSellerAndBuyerCodeIsolation ==
  /\ signals' =
       CASE conf.scope = "topLevel" -> GenerateSellerDeviceSignalsForTopLevelAuction
         [] IsComponentAuction(conf) -> GenerateSellerDeviceSignalsForComponentAuction
         [] OTHER -> GenerateSellerDeviceSignals
  /\ \/ stage' = "reportResult" /\ UNCHANGED callVars
     \/ EncryptAndFinishOK

(* Mutant: a cancelled request is finished and dispatched. *)
DispatchReportingRequestGoesOn ==
  \/ IsCancelled /\ Finish("CANCELLED") /\ stage' = "report"
  \/ ~IsCancelled /\ stage' = "report" /\ UNCHANGED callVars

DispatchReportingRequest ==
  \/ IsCancelled /\ FinishWithStatus("CANCELLED")
  \/ ~IsCancelled /\ stage' = "report" /\ UNCHANGED callVars
  \/ ~IsCancelled /\ EncryptAndFinishOK

(* per_buyer_signals().at() aborts for a buyer without signals. *)
PerformReporting ==
  /\ \/ EnableReportWin /\ ~conf.buyerSignals /\ Crash
     \/ (EnableReportWin => conf.buyerSignals) /\ DispatchReportingRequest
  /\ UNCHANGED signals

(* Mutant: the component is looked up by the id kept for the winner. *)
ComponentUrlsByKeptId(rep) ==
  IF auction.id \in DOMAIN component
  THEN [rep EXCEPT !.seller = component[auction.id],
                   !.buyer = component[auction.id]]
  ELSE rep

PopulateComponentReportingUrlsInTopLevelResponse(rep) ==
  IF conf.scope = "topLevel" /\ WinnerAd.render \in DOMAIN component
  THEN [rep EXCEPT !.seller = component[WinnerAd.render],
                   !.buyer = component[WinnerAd.render]]
  ELSE rep

DoWinAndDebugReporting ==
  LET paid == IF conf.pagg
              THEN [reply EXCEPT !.contributions =
                      PerformPrivateAggregationReporting(auction.id)]
              ELSE reply
      pinged == IF conf.debug
                THEN [paid EXCEPT !.pings = PerformDebugReporting(auction)]
                ELSE paid
  IN /\ stage = "won"
     /\ reply' = PopulateComponentReportingUrlsInTopLevelResponse(pinged)
     /\ \/ ~conf.reportResult /\ EncryptAndFinishOK /\ UNCHANGED signals
        \/ /\ conf.reportResult /\ conf.isolation
           /\ PerformReportingWithSellerAndBuyerCodeIsolation
        \/ conf.reportResult /\ ~conf.isolation /\ PerformReporting
     /\ UNCHANGED <<conf, cancelled, readable, deleted, adData, pasData,
                    component, requests, responses, auction>>

SetSellerReportingUrlsInResponse ==
  IF IsComponentAuction(conf) THEN [reply EXCEPT !.seller = "reportResult"]
  ELSE [reply EXCEPT !.top = TRUE]

(* The URLs of a combined reporting call. *)
ReportingCallback ==
  /\ stage = "report" /\ ~IsCancelled
  /\ \/ UNCHANGED reply
     \/ reply' = [SetSellerReportingUrlsInResponse EXCEPT
                    !.buyer = IF EnableReportWin THEN "reportWin" ELSE @]
  /\ EncryptAndFinishOK
  /\ UNCHANGED <<conf, cancelled, readable, deleted, adData, pasData, component,
                 requests, responses, auction, signals>>

(* Mutant: for a buyer without reportWin code, reportResult is run again. *)
ReportResultCallbackForgets ==
  /\ stage = "reportResult" /\ ~IsCancelled
  /\ reply' = SetSellerReportingUrlsInResponse
  /\ IF conf.buyerWin THEN EncryptAndFinishOK
     ELSE UNCHANGED <<stage, callVars>>
  /\ UNCHANGED <<conf, cancelled, readable, deleted, adData, pasData, component,
                 requests, responses, auction, signals>>

(* reportWin follows whatever became of reportResult. *)
ReportResultCallback ==
  /\ stage = "reportResult" /\ ~IsCancelled
  /\ \E rep \in {reply, SetSellerReportingUrlsInResponse} :
       IF EnableReportWin /\ conf.buyerWin
       THEN LET sig == GenerateBuyerDeviceSignals(signals)
            IN /\ signals' = sig
               /\ \/ /\ stage' = "reportWin" /\ UNCHANGED callVars
                     /\ reply' = [rep EXCEPT !.buyerInput = sig]
                  \/ EncryptAndFinishOK /\ reply' = rep
       ELSE EncryptAndFinishOK /\ reply' = rep /\ UNCHANGED signals
  /\ UNCHANGED <<conf, cancelled, readable, deleted, adData, pasData, component,
                 requests, responses, auction>>

(* Not wrapped for cancellation.  The contributions of reportWin get the     *)
(* origin of the protected audience ad with the kept id.                     *)
ReportWinCallback ==
  /\ stage = "reportWin"
  /\ \/ UNCHANGED reply
     \/ reply' = [reply EXCEPT !.buyer = "reportWin",
                    !.buyerOrigin = IF auction.id \in DOMAIN adData
                                    THEN adData[auction.id].owner ELSE @]
  /\ EncryptAndFinishOK
  /\ UNCHANGED <<conf, cancelled, readable, deleted, adData, pasData, component,
                 requests, responses, auction, signals>>

(* CancellationWrapper of the three wrapped callbacks. *)
CancelledCallback ==
  /\ stage \in {"score", "report", "reportResult"} /\ IsCancelled
  /\ FinishWithStatus("CANCELLED")
  /\ UNCHANGED <<conf, cancelled, readable, deleted, adData, pasData, component,
                 requests, responses, auction, reply, signals>>

Shared ==
  /\ DecryptRequest \/ FinishAfterFailedEncryption \/ Bind \/ OnDone
  /\ UNCHANGED <<conf, adData, pasData, component, requests, responses, auction,
                 reply, signals>>

Cancel ==
  /\ OnCancel
  /\ UNCHANGED <<conf, adData, pasData, component, requests, responses, auction,
                 reply, signals>>

Done == ((deleted /\ stage = "none") \/ stage = "crashed") /\ UNCHANGED vars

Work ==
  \/ Execute \/ ScoreAdsCallback \/ DoWinAndDebugReporting \/ ReportingCallback
  \/ ReportResultCallback \/ ReportWinCallback \/ CancelledCallback \/ Shared

Next == Work \/ Cancel \/ Done

Spec == Init /\ [][Next]_vars /\ WF_vars(Work)

-----------------------------------------------------------------------------

(* The variables have their types. *)
TypeOK ==
  /\ DispatchTypeOK /\ conf \in Configs
  /\ stage \in {"construct", "execute", "score", "won", "report",
                "reportResult", "reportWin", "encryptFailed", "none", "crashed"}
  /\ auction.winner \in 0..Len(requests) /\ DOMAIN reply = DOMAIN NoReply

(* The winner FindWinningAd picks is an ad scoreAd accepted, with a positive *)
(* score, k-anonymous where that is enforced, and no such ad of the auction  *)
(* has a higher score.                                                       *)
WinnerIsBest ==
  LET s == auction.scored
      eligible == {i \in DOMAIN s :
                     /\ responses[i].ok /\ s[i].score > 0
                     /\ ~Rejected(conf, s[i])
                     /\ conf.enforceKAnon => s[i].ad.kanon
                     /\ IsComponentAuction(conf) => responses[i].allow}
  IN stage # "crashed" =>
       IF auction.winner = 0
       THEN responses = <<>> \/ eligible = {}
       ELSE /\ auction.winner \in eligible
            /\ \A i \in eligible : s[i].score <= s[auction.winner].score

(* Ghost winners are what would have won without k-anonymity: they score at  *)
(* least as high as the winner, bid higher in a tie, and are not             *)
(* k-anonymous; nothing that was considered scores higher than they.         *)
GhostsBeatWinner ==
  \A g \in auction.ghosts :
    /\ ~auction.scored[g].ad.kanon /\ Cardinality(auction.ghosts) <= conf.maxGhosts
    /\ \A i \in ToSet(auction.order) :
         auction.scored[i].score <= auction.scored[g].score
    /\ LET w == auction.winner IN w # 0 =>
         \/ auction.scored[g].score > auction.scored[w].score
         \/ \E v \in ToSet(auction.order) :
              /\ auction.scored[v].score = auction.scored[w].score
              /\ auction.scored[v].kanon
              /\ auction.scored[g].ad.bid > auction.scored[v].ad.bid

(* A score goes to the ad that was scored; to another one only where a       *)
(* protected audience ad and an app signals ad have the same render URL, and *)
(* then to the former.                                                       *)
ScoreGoesToItsAd ==
  \A i \in DOMAIN auction.scored :
    LET ad == auction.scored[i].ad IN
      ad # requests[i] => ad.render = requests[i].render /\ requests[i].pas

(* The characters of the debug URLs kept for an ad, and for the first n ads. *)
UrlChars(scored, i) ==
  IF i \in DOMAIN scored THEN DebugReportUrlsLength(scored[i]) ELSE 0

UrlCharsKept(scored, n) ==
  LET kept[i \in 0..n] == IF i = 0 THEN 0 ELSE kept[i - 1] + UrlChars(scored, i)
  IN kept[n]

(* The debug URLs that are taken up stay within the limits, together too.    *)
(* None is dropped that would: only one that is too long, or that comes when *)
(* those kept before it, each counted twice, leave no room.  (A second count *)
(* is not called for, and halves the limit for all.)                         *)
DebugUrlsWithinLimits ==
  /\ UrlCharsKept(auction.scored, Len(requests)) <= MaxAllUrlChars
  /\ \A i \in DOMAIN auction.scored :
       LET s == auction.scored[i]
           counted == 2 * UrlCharsKept(auction.scored, i - 1)
       IN /\ s.win = GetDebugUrlIfInLimit(responses[i].win, counted)
          /\ s.loss = GetDebugUrlIfInLimit(responses[i].loss, counted + s.win)

(* A debug win ping is sent for the winner only, or for an ad that cannot be *)
(* told from it by owner and interest group.                                 *)
WinPingsAreTheWinners ==
  \A p \in reply.pings : p[2] = "win" =>
    /\ auction.winner # 0
    /\ auction.scored[p[1]].ad.owner = WinnerAd.owner
    /\ IgName(auction.scored[p[1]].ad) = IgName(WinnerAd)

(* The other bids of the reply are bids of the auction that did not win, are *)
(* not ghost winner candidates and were not rejected.                        *)
OtherBidsAreOthers ==
  \A i \in auction.others :
    /\ i \notin auction.cands \cup {auction.winner}
    /\ ~Rejected(conf, auction.scored[i])

(* The reporting URLs of a component in a top-level answer are those of the  *)
(* component whose ad won.                                                   *)
ComponentUrlsAreTheWinners ==
  conf.scope = "topLevel" /\ reply.seller # "none" =>
    reply.seller = WinnerAd.seller /\ reply.buyer = WinnerAd.seller

(* reportWin never sees the seller's score, modified bid or data version,    *)
(* though its input is made from the document reportResult was given.        *)
BuyerInputHidesSeller ==
  reply.buyerInput \cap {"desirability", "modifiedBid", "sellerDataVersion"} = {}

(* A call is finished once, and nothing of it runs after it was released,    *)
(* unless the encryption of the answer failed.                               *)
FinishAtMostOnce ==
  \/ Len(finish) <= 1 /\ (deleted => stage = "none")
  \/ finish[1] = "INTERNAL" /\ stage \in {"encryptFailed", "none"}

(* The server aborts only on a winner whose place in the sorted ads is that  *)
(* of a failed scoreAd call, or on a buyer without signals.                  *)
CrashIsExplained ==
  stage = "crashed" =>
    \/ \E i \in DOMAIN responses : ~responses[i].ok
    \/ conf.reportWin /\ ~conf.buyerSignals

(* Every call comes to an end: finished and released, or the server aborts. *)
EventuallyReleased == <>(deleted \/ stage = "crashed")

(* Only the winner's contributions are reported for a win. *)
WinContributionsAreTheWinners ==
  \A ad \in DOMAIN reply.contributions :
    reply.contributions[ad] = "win" => ad = WinnerAd

(* A call is finished once and nothing of it runs after its release, and the *)
(* server aborts only for the reasons that are named.                        *)
ScoreAdsLifeCycle == TypeOK /\ FinishAtMostOnce /\ CrashIsExplained

(* Scores go to the ads that were scored; the best ad allowed to win is the  *)
(* winner and the ghost winners are those that beat it.                      *)
WinnersAreRight == ScoreGoesToItsAd /\ WinnerIsBest /\ GhostsBeatWinner

(* What is reported is about the right ad and goes to who may know: pings    *)
(* and component URLs are the winner's, the other bids are others', URLs     *)
(* stay within their limits and reportWin learns nothing of the seller's.    *)
ReportsAreTheWinners ==
  /\ WinPingsAreTheWinners /\ ComponentUrlsAreTheWinners
  /\ OtherBidsAreOthers /\ DebugUrlsWithinLimits /\ BuyerInputHidesSeller

-----------------------------------------------------------------------------
(* The inductive invariant of the proofs. *)

Statuses == {"OK", "CANCELLED", "INVALID_ARGUMENT", "INTERNAL", "UNKNOWN"}

(* Where the call is with gRPC: nothing is finished while a callback is to   *)
(* come, and the statuses of a call that is over are the last ones of it.    *)
CallInOrder ==
  /\ finish \in Seq(Statuses) /\ backlog \in Statuses \cup {"none"}
  /\ bound \/ (finish = <<>> /\ ~deleted)
  /\ finish # <<>> \/ ~deleted
  /\ stage \in {"construct", "execute"} => ~bound
  /\ stage = "construct" => readable /\ backlog = "none"
  /\ stage = "execute" /\ readable => backlog = "none"
  /\ stage \in {"score", "won", "report", "reportResult", "reportWin", "crashed"} =>
       finish = <<>> /\ backlog = "none"
  /\ stage = "encryptFailed" =>
       IF bound THEN finish = <<"INTERNAL">> ELSE backlog = "INTERNAL"
  /\ stage = "none" =>
       IF bound THEN finish = <<"INTERNAL", "OK">> \/ (Len(finish) = 1)
       ELSE backlog # "none"

(* A batch has under each id an ad of its kind with that render URL, and for *)
(* each request the ad in its map.  Of component results the k-anonymous ad  *)
(* under an id is of the seller kept for the id; the others are ghosts.      *)
BatchIsRight(c, b) ==
  /\ b.requests \in Seq(AdType)
  /\ \A r \in DOMAIN b.pa : b.pa[r] \in AdType /\ b.pa[r].render = r /\ ~b.pa[r].pas
  /\ \A r \in DOMAIN b.pas : b.pas[r] \in AdType /\ b.pas[r].render = r /\ b.pas[r].pas
  /\ \A i \in DOMAIN b.requests :
       LET map == IF b.requests[i].pas THEN b.pas ELSE b.pa
       IN b.requests[i].render \in DOMAIN map /\ map[b.requests[i].render] = b.requests[i]
  /\ c.scope = "topLevel" =>
       \A map \in {b.pa, b.pas} : \A r \in DOMAIN map :
         IF map[r].kanon THEN r \in DOMAIN b.component /\ b.component[r] = map[r].seller
         ELSE c.enforceKAnon

Batch == [pa |-> adData, pas |-> pasData, component |-> component, requests |-> requests]

(* Before the callback of the batch there is no auction; afterwards the ads  *)
(* that were scored are those the responses belong to.                       *)
AuctionIsOfTheBatch ==
  /\ stage \in {"construct", "execute", "score"} => auction = NoAuction /\ responses = <<>>
  /\ stage \in {"construct", "execute", "score", "won"} => reply = NoReply
  /\ stage \in {"won", "report", "reportResult", "reportWin"} => auction.winner # 0
  /\ stage = "reportWin" => conf.scope # "topLevel"
  /\ \A i \in DOMAIN auction.scored :
       i \in DOMAIN requests /\ auction.scored[i].ad = FindScoredAdType(requests[i].render)

Inv ==
  /\ ScoreAdsLifeCycle /\ WinnersAreRight /\ ReportsAreTheWinners
  /\ CallInOrder /\ BatchIsRight(conf, Batch) /\ AuctionIsOfTheBatch
=============================================================================

---------------------- MODULE SelectAuctionResultReactor ----------------------
(***************************************************************************)
(* The top-level seller's auction over the results of component sellers.   *)
(* A component seller packs its outcome into an AuctionResult and encrypts *)
(* it; the ad server collects them and sends them with the device's        *)
(* request to the top-level seller, who checks them, has the auction       *)
(* service score them and answers the device.  {} is an optional field     *)
(* that is not there; "" is an empty string.                               *)
(***************************************************************************)
EXTENDS Integers, Sequences, FiniteSets

CONSTANTS
  TopRequests,   \* the part of the request that is not its component results
  Outcomes,      \* what component sellers may send, sealed
  MaxResults     \* the component results of one request

(* A component seller that reports an error has no score to report. *)
ASSUME OutcomesAssumption ==
  \A s \in Outcomes : s.outcome.error # {} => s.outcome.score = {}

VARIABLES
  top,        \* request_ and the server's configuration
  sealed,     \* request_->component_auction_results()
  topStep,    \* start, scoring, called, finished, done, crashed
  topErrors,  \* the errors of error_accumulator_ the ad server may see
  topGroups,  \* component_auction_bidding_groups_
  topUpdates, \* component_auction_update_groups_
  scored,     \* the component results of the ScoreAds request
  topCancelled, finishes

topVars == <<top, sealed, topStep, topErrors, topGroups, topUpdates, scored,
             topCancelled, finishes>>

NoMap == <<>>

-----------------------------------------------------------------------------
(* The component seller's side *)

(* The interest groups of a buyer that have a bid above zero, by their place *)
(* in the device's list.  bids is a set of [ig, bid].                        *)
GetBiddingGroups(bidsOf, groupsOf) ==
  [b \in DOMAIN bidsOf |-> {i \in DOMAIN groupsOf[b] :
                              \E x \in bidsOf[b] : x.bid > 0 /\ x.ig = groupsOf[b][i]}]

EmptyResult == [chaff |-> FALSE, error |-> "", bid |-> 0, adType |-> "none", urls |-> {},
                seller |-> "", generation |-> "", topSeller |-> "", currency |-> "",
                groups |-> NoMap, updates |-> NoMap, ghosts |-> {}, join |-> {}]

(* The three parties' URLs are all set, empty or not. *)
SetReportingUrls(result, score) == [result EXCEPT !.urls = score.urls]

(* The currency of the bid is not among the fields that are copied. *)
MapAdScoreToAuctionResult(score, error, kanon) ==
  IF error # {} THEN [EmptyResult EXCEPT !.error = CHOOSE e \in error : TRUE]
  ELSE IF score = {} THEN [EmptyResult EXCEPT !.chaff = TRUE]
  ELSE LET s == CHOOSE x \in score : TRUE
       IN SetReportingUrls(
            [EmptyResult EXCEPT
               !.bid = IF s.bid > 0 THEN s.bid ELSE 0, !.adType = s.adType,
               !.ghosts = UNION {k.ghosts : k \in kanon},
               !.join = UNION {k.join : k \in kanon}], s)

(* Only a winner is signed with the auction it comes from. *)
AdScoreToAuctionResult(score, groups, updates, error, seller, generation, topSeller, kanon) ==
  LET result == MapAdScoreToAuctionResult(score, error, kanon)
  IN IF score = {} THEN result
     ELSE [result EXCEPT !.generation = generation, !.seller = seller, !.topSeller = topSeller,
                         !.groups = groups, !.updates = updates]

(* Join data of the winner and of the ghosts, worked out here or, at the top *)
(* level, taken over from the component sellers.                             *)
GetKAnonJoinCandidate(score) == [render |-> score.seller]
GetGhostWinnerDataForTopLevelAuction(score) == [modifiedBid |-> score.bid]
GetKAnonAuctionResultData(score, ghosts) ==
  {[join |-> {GetKAnonJoinCandidate(s) : s \in score},
    ghosts |-> {[owner |-> g.seller, join |-> {GetKAnonJoinCandidate(g)},
                 forTop |-> {GetGhostWinnerDataForTopLevelAuction(g)}] : g \in ghosts}]}
GetKAnonAuctionResultDataForTopLevel(score, ghosts) ==
  {[join |-> UNION {s.join : s \in score},
    ghosts |-> {[owner |-> g.seller, join |-> g.join, forTop |-> {}] : g \in ghosts}]}

(* GetNonEncryptedResponse of a component seller on the server.  An app has  *)
(* no ghosts, and a seller with ghosts alone answers chaff.                  *)
ComponentResult(o) ==
  AdScoreToAuctionResult(o.score, GetBiddingGroups(o.bids, o.inputs), o.updates, o.error,
                         o.seller, o.generation, o.topSeller,
                         GetKAnonAuctionResultData(o.score, o.ghosts))

-----------------------------------------------------------------------------
(* Checking the request *)

(* Every flaw is collected, none stops the search for others. *)
ValidateEncryptedSelectAdRequest ==
  LET flaw(c, name) == IF c THEN {name} ELSE {}
      sealedOk == {i \in DOMAIN sealed : sealed[i].sealed}
  IN flaw(~top.hasCiphertext, "EmptyProtectedAuctionCiphertext")
     \cup flaw(~top.hasSignals, "EmptySignals")
     \cup flaw(top.seller = "", "EmptySeller")
     \cup flaw(top.seller # top.domain, "WrongSellerDomain")
     \cup flaw(top.client = "unknown", "UnsupportedClientType")
     \cup flaw(sealed = <<>>, "NoComponentAuctionResults")
     \cup flaw(sealed # <<>> /\ sealedOk = {}, "EmptyComponentAuctionResults")
     \cup flaw("" \in DOMAIN top.currencies, "EmptySellerInPerComponentSellerConfig")
     \cup flaw(\E s \in DOMAIN top.currencies : top.currencies[s] = "x",
               "InvalidExpectedComponentSellerCurrency")

IsAuctionResultBidCurrencyAsExpected(expected, result) ==
  expected = "" \/ result.currency = "" \/ expected = result.currency

(* Mutant: whose auction a result belongs to is not looked at. *)
ValidateComponentAuctionResultAnyAuction(r) == {}

(* The flaws of a result; chaff and errors are let through as they are. *)
ValidateComponentAuctionResult(r) ==
  LET flaw(c, name) == IF c THEN {name} ELSE {}
      expected == IF r.seller \in DOMAIN top.currencies THEN top.currencies[r.seller] ELSE ""
  IN IF r.chaff \/ r.error # "" THEN {}
     ELSE flaw(r.generation # top.generation, "MismatchedGenerationId")
          \cup flaw(r.topSeller # top.domain, "MismatchedTopLevelSeller")
          \cup flaw(r.seller = "", "EmptyComponentSeller")
          \cup flaw(r.adType \notin {"audience", "signals"}, "UnsupportedAdType")
          \cup flaw("topUrl" \in r.urls, "TopLevelWinReportingUrls")
          \cup flaw(~IsAuctionResultBidCurrencyAsExpected(expected, r), "MismatchedCurrency")

(* Decryption, decompression and parsing, any of which may fail. *)
UnpackageServerAuctionComponentResult(s) ==
  IF s.sealed /\ s.intact THEN {ComponentResult(s.outcome)} ELSE {}

(* One result.  A second one of a seller empties the list and ends the       *)
(* search.                                                                   *)
AfterComponentResult(st, s) ==
  LET r == UnpackageServerAuctionComponentResult(s)
      result == ComponentResult(s.outcome)
      flaws == ValidateComponentAuctionResult(result)
  IN IF st.stop THEN st
     ELSE IF r = {} THEN [st EXCEPT !.errors = @ \cup {"ErrorDecryptingAuctionResult"}]
     ELSE IF flaws # {} THEN [st EXCEPT !.errors = @ \cup flaws]
     ELSE IF result.seller \in st.sellers
     THEN [st EXCEPT !.errors = @ \cup {"MultipleComponentAuctionResults"},
                     !.results = <<>>, !.stop = TRUE]
     ELSE [st EXCEPT !.sellers = @ \cup {result.seller}, !.results = Append(@, result)]

DecryptAndValidateComponentAuctionResults ==
  LET none == [results |-> <<>>, errors |-> {}, sellers |-> {}, stop |-> FALSE]
      after[i \in 0 .. Len(sealed)] ==
        IF i = 0 THEN none ELSE AfterComponentResult(after[i - 1], sealed[i])
  IN after[Len(sealed)]

(* DecryptProtectedAuctionInput, DecryptProtectedAudienceInput: what cannot  *)
(* be decoded leaves an empty input, and its error is reported to no one.    *)
GetGenerationId ==
  IF top.inputDecodes /\ top.client \in {"android", "browser"} THEN top.generation ELSE ""

-----------------------------------------------------------------------------
(* The answer *)

(* A buyer of two component sellers has the groups of both. *)
GetBuyerIgsWithBidsMap(maps) ==
  [b \in UNION {DOMAIN maps[i] : i \in DOMAIN maps} |->
     UNION {maps[i][b] : i \in {j \in DOMAIN maps : b \in DOMAIN maps[j]}}]

(* A web answer has the groups and updates, an app answer the seller; the    *)
(* answer to another client type cannot be packed.  Packing may fail.        *)
PackageAuctionResultCiphertext(answer, packs) == IF packs THEN {answer} ELSE {}
PackageAuctionResultForWeb(answer, packs) == PackageAuctionResultCiphertext(answer, packs)
PackageTopLevelAuctionResultForApp(answer, packs) ==
  PackageAuctionResultCiphertext([answer EXCEPT !.groups = NoMap, !.updates = NoMap], packs)
PackageAuctionResultForInvalid == {}
Package(answer, packs) ==
  CASE top.client = "browser" -> PackageAuctionResultForWeb(answer, packs)
    [] top.client = "android" -> PackageTopLevelAuctionResultForApp(answer, packs)
    [] OTHER -> PackageAuctionResultForInvalid

Answer(kind, seller, bid, groups, updates, kanon) ==
  [kind |-> kind, seller |-> seller, bid |-> bid, groups |-> groups, updates |-> updates,
   ghosts |-> UNION {k.ghosts : k \in kanon}, join |-> UNION {k.join : k \in kanon}]
CreateNonChaffAuctionResultCiphertext(score, kanon, packs) ==
  Package(Answer("winner", score.seller, score.bid, GetBuyerIgsWithBidsMap(topGroups),
                 topUpdates, kanon), packs)
CreateErrorAuctionResultCiphertext(packs) == Package(Answer("error", "", 0, NoMap, NoMap, {}), packs)
CreateChaffAuctionResultCiphertext(packs) == Package(Answer("chaff", "", 0, NoMap, NoMap, {}), packs)

FinishWithStatus(code) ==
  /\ finishes' = Append(finishes, [Answer("status", "", 0, NoMap, NoMap, {}) EXCEPT !.seller = code])
  /\ topStep' = "finished"
FinishWithResponse(ciphertext) ==
  IF ciphertext = {} THEN FinishWithStatus("INTERNAL")
  ELSE /\ \E a \in ciphertext : finishes' = Append(finishes, a)
       /\ topStep' = "finished"
FinishWithServerVisibleErrors == FinishWithStatus("INVALID_ARGUMENT")

(* The error is encrypted with the key of the decrypted request, which is a  *)
(* null pointer when the request could not be decrypted.                     *)
FinishWithClientVisibleErrors ==
  IF top.decrypts
  THEN \E packs \in BOOLEAN : FinishWithResponse(CreateErrorAuctionResultCiphertext(packs))
  ELSE topStep' = "crashed" /\ UNCHANGED finishes

-----------------------------------------------------------------------------
TopInit ==
  /\ top \in TopRequests /\ sealed \in UNION {[1 .. n -> Outcomes] : n \in 0 .. MaxResults}
  /\ topStep = "start" /\ topErrors = {} /\ topGroups = <<>> /\ topUpdates = NoMap
  /\ scored = <<>> /\ topCancelled = FALSE /\ finishes = <<>>

(* An owner's updates are those of the first seller that has any. *)
FirstWith(o, results) ==
  CHOOSE i \in DOMAIN results :
    o \in DOMAIN results[i].updates /\ \A j \in 1 .. i - 1 : o \notin DOMAIN results[j].updates
KeepUpdates(results) ==
  [o \in UNION {DOMAIN results[i].updates : i \in DOMAIN results} |->
     results[FirstWith(o, results)].updates[o]]

Execute ==
  /\ topStep = "start"
  /\ LET flaws == ValidateEncryptedSelectAdRequest
     IN \/ (top.domain = "" \/ flaws # {})
           /\ topErrors' = (IF top.domain = "" THEN {"SellerDomainEmpty"} ELSE flaws)
           /\ FinishWithServerVisibleErrors /\ UNCHANGED <<topGroups, topUpdates, scored>>
        \/ top.domain # "" /\ flaws = {} /\ (~top.decrypts \/ GetGenerationId = "")
           /\ FinishWithClientVisibleErrors
           /\ UNCHANGED <<topErrors, topGroups, topUpdates, scored>>
        \/ top.domain # "" /\ flaws = {} /\ top.decrypts /\ GetGenerationId # ""
           /\ \E found \in {DecryptAndValidateComponentAuctionResults} :
                /\ topErrors' = found.errors
                /\ IF found.results = <<>>
                   THEN /\ FinishWithServerVisibleErrors
                        /\ UNCHANGED <<topGroups, topUpdates, scored>>
                   ELSE /\ topGroups' = [i \in DOMAIN found.results |-> found.results[i].groups]
                        /\ topUpdates' = KeepUpdates(found.results)
                        /\ scored' = found.results   \* CreateTopLevelScoreAdsRawRequest moves them
                        /\ topStep' = "scoring" /\ UNCHANGED finishes
  /\ UNCHANGED <<top, sealed, topCancelled>>

(* Chaff has served its purpose: it is not scored. *)
CreateTopLevelScoreAdsRawRequest(results) ==
  LET kept[i \in 0 .. Len(results)] ==
        IF i = 0 THEN <<>>
        ELSE IF results[i].chaff THEN kept[i - 1] ELSE Append(kept[i - 1], results[i])
  IN kept[Len(results)]

ScoreAds ==
  /\ topStep = "scoring"
  /\ \/ /\ topCancelled /\ top.cancellation
        /\ FinishWithStatus("CANCELLED") /\ UNCHANGED scored
     \/ /\ ~(topCancelled /\ top.cancellation)
        /\ scored' = CreateTopLevelScoreAdsRawRequest(scored)
        /\ \/ topStep' = "called" /\ UNCHANGED finishes
           \/ FinishWithStatus("INTERNAL")   \* ExecuteInternal could not call
  /\ UNCHANGED <<top, sealed, topErrors, topGroups, topUpdates, topCancelled>>

(* The auction service's answer: a status, or a winner and ghosts among the  *)
(* results it was sent.                                                      *)
ScoreOf(i) == [seller |-> scored[i].seller, bid |-> scored[i].bid, join |-> scored[i].join]
NoScore == [seller |-> "", bid |-> 0, join |-> {}]

HandleScores(winner, ghosts) ==
  LET hasWinner == winner # {} /\ \A w \in winner : w.bid > 0
      kanon == IF top.kanon /\ ghosts # {}
               THEN GetKAnonAuctionResultDataForTopLevel(IF hasWinner THEN winner ELSE {}, ghosts)
               ELSE {}
      score == IF winner = {} THEN NoScore ELSE CHOOSE w \in winner : TRUE
  IN \E packs \in BOOLEAN :
       IF hasWinner \/ (top.kanon /\ ghosts # {})
       THEN FinishWithResponse(CreateNonChaffAuctionResultCiphertext(score, kanon, packs))
       ELSE FinishWithResponse(CreateChaffAuctionResultCiphertext(packs))

OnScoreAdsDone ==
  /\ topStep = "called"
  /\ \/ topCancelled /\ top.cancellation /\ FinishWithStatus("CANCELLED")
     \/ /\ ~(topCancelled /\ top.cancellation)
        /\ \/ FinishWithStatus("UNAVAILABLE")
           \/ HandleScores({}, {})   \* INTERNAL is answered with chaff
           \/ \E w \in SUBSET DOMAIN scored, g \in SUBSET DOMAIN scored :
                /\ Cardinality(w) <= 1 /\ Cardinality(g) <= 1 /\ w \cap g = {}
                /\ HandleScores({ScoreOf(i) : i \in w}, {ScoreOf(i) : i \in g})
  /\ UNCHANGED <<top, sealed, topErrors, topGroups, topUpdates, scored, topCancelled>>

OnCancel ==
  /\ ~topCancelled /\ topStep \in {"start", "scoring", "called"}
  /\ topCancelled' = TRUE
  /\ UNCHANGED <<top, sealed, topStep, topErrors, topGroups, topUpdates, scored, finishes>>

OnDone ==
  /\ topStep = "finished" /\ topStep' = "done"
  /\ UNCHANGED <<top, sealed, topErrors, topGroups, topUpdates, scored, topCancelled, finishes>>

TopNext == Execute \/ ScoreAds \/ OnScoreAdsDone \/ OnCancel \/ OnDone

(* Execute and ScoreAds run in the call's own thread, and the auction        *)
(* service's client always calls back.                                       *)
TopProgress == Execute \/ ScoreAds \/ OnScoreAdsDone \/ OnDone

-----------------------------------------------------------------------------
Accepted == {i \in DOMAIN sealed : sealed[i].sealed /\ sealed[i].intact}

(* Whatever reaches the auction service was made for this very auction, for  *)
(* this top-level seller and this request of the device, and no component    *)
(* seller is represented twice.                                              *)
OnlyThisAuctionIsScored ==
  topStep \in {"called", "finished", "done"} /\ scored # <<>> =>
    /\ \A i \in DOMAIN scored : scored[i].error # "" \/ scored[i].chaff \/
         (scored[i].generation = top.generation /\ scored[i].topSeller = top.domain
          /\ scored[i].seller # "" /\ "topUrl" \notin scored[i].urls)
    /\ \A i, j \in DOMAIN scored : i # j => scored[i].seller # scored[j].seller

(* The device learns of every interest group that bid with any component     *)
(* seller whose result was let in, and of no other.                          *)
AllBiddingGroupsReturned ==
  top.client = "browser" => \A f \in DOMAIN finishes : finishes[f].kind = "winner" =>
    LET all == {GetBiddingGroups(sealed[i].outcome.bids, sealed[i].outcome.inputs) :
                  i \in {j \in Accepted : sealed[j].outcome.score # {} /\
                           ValidateComponentAuctionResult(ComponentResult(sealed[j].outcome)) = {}
                           /\ sealed[j].outcome.error = {}}}
        seen == finishes[f].groups
    IN /\ DOMAIN seen = UNION {DOMAIN m : m \in all}
       /\ \A b \in DOMAIN seen : seen[b] = UNION {m[b] : m \in {x \in all : b \in DOMAIN x}}

(* Updates are never mixed: an owner's come whole from one component seller, *)
(* the first in the request that has any.                                    *)
UpdatesFromTheFirst ==
  \A o \in DOMAIN topUpdates : \A i \in DOMAIN sealed :
    LET r == ComponentResult(sealed[i].outcome)
        good(j) == j \in Accepted /\ ValidateComponentAuctionResult(
                     ComponentResult(sealed[j].outcome)) = {}
    IN good(i) /\ o \in DOMAIN r.updates
       /\ (\A j \in 1..(i - 1) : good(j) => o \notin DOMAIN ComponentResult(sealed[j].outcome).updates)
       => topUpdates[o] = r.updates[o]

(* "pass as is to auction server to make sure auction server is called": a   *)
(* request whose results are all sound, chaff among them, is scored.         *)
ChaffReachesAuction ==
  LET sound(i) == i \in Accepted /\
        ValidateComponentAuctionResult(ComponentResult(sealed[i].outcome)) = {}
  IN topStep = "finished" /\ top.decrypts /\ top.inputDecodes /\ ~topCancelled
     /\ ValidateEncryptedSelectAdRequest = {}
     /\ (\A i \in DOMAIN sealed : sound(i))
     /\ (\A i, j \in DOMAIN sealed : i # j => sealed[i].outcome.seller # sealed[j].outcome.seller)
     => "MultipleComponentAuctionResults" \notin topErrors

(* One Finish, and a crash only for a request that cannot be decrypted. *)
TopFinishesOnce ==
  /\ Len(finishes) <= 1
  /\ topStep \in {"finished", "done"} => Len(finishes) = 1
  /\ topStep = "crashed" => ~top.decrypts

(* Every call that does not crash is answered and its reactor released. *)
TopEventuallyReleased == <>(topStep \in {"done", "crashed"})
=============================================================================

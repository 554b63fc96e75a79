---------------------------- MODULE SellerSignals ----------------------------
(***************************************************************************)
(* The scoring signals of a seller, from the buyers' bids to the calls of  *)
(* scoreAd: the lookup at the seller's key/value server by the first       *)
(* protocol (one URL) or the second (a partition for each ad), the request *)
(* for the auction service, the split of the answer into the signals of    *)
(* each ad, and the arguments of scoreAd.  For a top-level auction, the    *)
(* arguments made from the results of component auctions.  An option is a  *)
(* set of at most one element; "" is an empty text.                        *)
(***************************************************************************)
EXTENDS Integers, Sequences, FiniteSets, SequencesExt, Functions, TLC

CONSTANTS
  SellCases,   \* a sequence of requests, buyers' answers and configurations
  SellStore,   \* what the key/value server holds: [renders, comps]
  SellHeaders, \* the data versions an answer may have; {} is none that can be read
  SellFaults   \* how an answer may be malformed; "none" is not at all

VARIABLES
  saleId,
  urlLookup,     \* the lookup sent
  sellFault,     \* what was wrong with the answer
  scoringSignals,\* scoring_signals_: an option of [doc, version]
  scoreReq,      \* the ScoreAdsRawRequest
  adData,        \* ad_data_ and protected_app_signals_ad_data_: <<app, id>> to an ad
  scoreCalls,    \* dispatch_requests
  saleStep

saleVars == <<saleId, urlLookup, sellFault, scoringSignals, scoreReq, adData, scoreCalls, saleStep>>

Sale == SellCases[saleId]
The(s) == CHOOSE x \in s : TRUE
kMillisInMinute == 60000
kSecsInMinute == 60
kUnknownBidCurrencyCode == "???"
MaxAndroidVersion == 255

-----------------------------------------------------------------------------
(* The lookup. *)
ExtractAuctionConfig(r) ==
  /\ r.plain # r.compressed
  /\ r.plain \/ (r.allowed /\ r.unzips /\ r.parses)

(* The ads whose URLs are looked up, buyer by buyer. *)
LookedUp(c) ==
  FlattenSeq([b \in DOMAIN c.buyers |->
    [i \in DOMAIN c.buyers[b].bids |->
       [render |-> c.buyers[b].bids[i].render, comps |-> c.buyers[b].bids[i].comps]]
    \o IF c.pas THEN [i \in DOMAIN c.buyers[b].app |->
                        [render |-> c.buyers[b].app[i].render, comps |-> <<>>]]
       ELSE <<>>])

GetSellerValuesInput(c) ==
  LET ads == LookedUp(c)
  IN [client |-> c.client, experiment |-> c.experiment,
      renders |-> {ads[i].render : i \in DOMAIN ads},
      comps |-> UNION {ToSet(ads[i].comps) : i \in DOMAIN ads}]
BuildSellerKeyValueRequest(input) ==
  [client |-> IF input.client = "android" THEN {"android"} ELSE {},
   experiment |-> input.experiment \ {""}, renders |-> input.renders, comps |-> input.comps]

BuildArgument(urls) == SelectSeq(urls, LAMBDA u : u # "")

(* One partition for each ad with a URL to ask for. *)
AdArguments(c) ==
  LET args == [i \in DOMAIN LookedUp(c) |->
                 [renders |-> BuildArgument(<<LookedUp(c)[i].render>>), comps |-> BuildArgument(LookedUp(c)[i].comps)]]
  IN SelectSeq(args, LAMBDA a : a.renders # <<>> \/ a.comps # <<>>)
CreateV2ScoringRequest(c) ==
  [client |-> c.client, experiment |-> c.experiment,
   partitions |-> [i \in DOMAIN AdArguments(c) |-> [id |-> i - 1, args |-> AdArguments(c)[i]]]]

UseKvV2(c) ==
  \/ c.client = "browser" /\ c.v2Browser
  \/ c.client = "android" /\ ~(c.testMode /\ c.v2Empty)

-----------------------------------------------------------------------------
(* The answers.  The server is external; what it holds for a URL is a text   *)
(* that it answers as a value by the first protocol.                         *)
V1Scoring(l, fault) ==
  [parses |-> fault # "notJson", object |-> fault # "notObject",
   renders |-> IF fault = "noRenders" THEN {} ELSE
     {[object |-> fault # "rendersNoObject", m |-> Restrict(SellStore.renders, l.renders \cap DOMAIN SellStore.renders)]},
   comps |-> {[object |-> TRUE, m |-> Restrict(SellStore.comps, l.comps \cap DOMAIN SellStore.comps)]}]

(* The second protocol: each partition's answers.  With "changed" the values *)
(* change between two partitions.                                            *)
V2Scoring(partitions, fault) ==
  LET held(m, urls, i) == [u \in ToSet(urls) \cap DOMAIN m |->
                             IF fault = "changed" /\ i > 1 THEN m[u] + 100 ELSE m[u]]
  IN [i \in DOMAIN partitions |->
        [parses |-> fault # "notJson",
         renders |-> held(SellStore.renders, partitions[i].args.renders, i),
         comps |-> held(SellStore.comps, partitions[i].args.comps, i)]]

(* Of several values of a URL the first stays; an object without members is  *)
(* left out.  {}: an error.                                                  *)
ConvertV2ResponseToV1ScoringSignals(groups) ==
  LET first(F(_)) == FoldLeft(LAMBDA acc, g : acc @@ F(g), <<>>, groups)
      option(m) == IF DOMAIN m = {} THEN {} ELSE {[object |-> TRUE, m |-> m]}
  IN IF \E i \in DOMAIN groups : ~groups[i].parses THEN {}
     ELSE {[parses |-> TRUE, object |-> TRUE, renders |-> option(first(LAMBDA g : g.renders)),
            comps |-> option(first(LAMBDA g : g.comps))]}

-----------------------------------------------------------------------------
(* The request for the auction service. *)
NoGroup == [name |-> "", origin |-> "", joinCount |-> 0, recency |-> 0, recencyMs |-> {}]

RecencyInMinutes(g) ==
  IF g.recencyMs # {} THEN The(g.recencyMs) \div kMillisInMinute ELSE g.recency \div kSecsInMinute

(* The interest group is the first with the bid's name; without one its      *)
(* fields stay as they are.                                                  *)
BuildAdWithBidMetadata(c, owner, bid) ==
  LET groups == c.groups[owner]
      idx == SelectInSeq(groups, LAMBDA g : g.name = bid.group)
      g == IF idx = 0 THEN NoGroup ELSE groups[idx]
      browser == c.client = "browser" /\ idx # 0
  IN [app |-> FALSE, owner |-> owner, group |-> bid.group, render |-> bid.render, comps |-> bid.comps,
      bid |-> bid.bid, cur |-> bid.cur, ids |-> Restrict(bid.ids, {k \in DOMAIN bid.ids : bid.ids[k] # ""}),
      origin |-> g.origin, idx |-> IF idx = 0 THEN 0 ELSE idx - 1,
      joinCount |-> IF browser THEN g.joinCount ELSE 0,
      recency |-> IF browser THEN RecencyInMinutes(g) ELSE 0,
      kanon |-> c.enforceKAnon => bid.kanon]

(* Where k-anonymity is not enforced, an app signals ad has no status. *)
BuildProtectedAppSignalsAdWithBidMetadata(c, owner, bid) ==
  [app |-> TRUE, owner |-> owner, group |-> "", render |-> bid.render, comps |-> <<>>, bid |-> bid.bid,
   cur |-> bid.cur, ids |-> <<>>, origin |-> "", idx |-> 0, joinCount |-> 0, recency |-> 0,
   kanon |-> c.enforceKAnon /\ bid.kanon]

CreateScoreAdsRequest(c, signals) ==
  [ads |-> FlattenSeq([b \in DOMAIN c.buyers |-> [i \in DOMAIN c.buyers[b].bids |->
             BuildAdWithBidMetadata(c, c.buyers[b].owner, c.buyers[b].bids[i])]]),
   app |-> IF ~c.pas THEN <<>> ELSE
           FlattenSeq([b \in DOMAIN c.buyers |-> [i \in DOMAIN c.buyers[b].app |->
             BuildProtectedAppSignalsAdWithBidMetadata(c, c.buyers[b].owner, c.buyers[b].app[i])]]),
   doc |-> IF signals = {} THEN {} ELSE {The(signals).doc},
   version |-> IF signals = {} THEN 0 ELSE The(signals).version,
   topSeller |-> c.topSeller, publisher |-> c.publisher]

-----------------------------------------------------------------------------
(* The signals of each ad.  A value that was moved out leaves {} behind. *)
BuildAdScoringSignalsMap(m) == [u \in DOMAIN m |-> {m[u]}]

UrlUses(ads, u) ==
  Cardinality({<<i, k>> \in (DOMAIN ads) \X (1 .. 8) : k \in DOMAIN ads[i].comps /\ ads[i].comps[k] = u})
FindSharedComponentUrls(ads) == {u \in UNION {ToSet(ads[i].comps) : i \in DOMAIN ads} : UrlUses(ads, u) > 1}

(* The components' signals; those of a URL that is not shared are moved.     *)
(* What was moved out before is read as an object though it is none.         *)
AddComponentSignals(ad, shared, components) ==
  LET known == ToSet(ad.comps) \cap DOMAIN components
  IN [undefined |-> \E u \in known : components[u] = {},
      m |-> [u \in known |-> components[u]],
      components |-> [u \in DOMAIN components |-> IF u \in known \ shared THEN {} ELSE components[u]]]

(* Mutant: an ad without signals for its render URL has none. *)
CombineIfRendered(acc, ad, added) ==
  IF ad.render \notin DOMAIN acc.renders THEN acc
  ELSE [acc EXCEPT !.of = @ @@ (ad.render :> [comps |-> added.m, render |-> {acc.renders[ad.render]}]),
                   !.renders[ad.render] = {}, !.components = added.components,
                   !.undefined = @ \/ added.undefined]

(* try_emplace: of ads with one render URL the first has its signals kept. *)
Combine(acc, ad, added) ==
  LET found == ad.render \in DOMAIN acc.renders
      mine == [comps |-> added.m, render |-> IF found THEN {acc.renders[ad.render]} ELSE {}]
  IN [of |-> IF found \/ DOMAIN added.m # {} THEN acc.of @@ (ad.render :> mine) ELSE acc.of,
      renders |-> [u \in DOMAIN acc.renders |-> IF u = ad.render THEN {} ELSE acc.renders[u]],
      components |-> added.components, undefined |-> acc.undefined \/ added.undefined]

NoneAdded(acc) == [undefined |-> FALSE, m |-> <<>>, components |-> acc.components]
MayPopulateScoringSignalsForProtectedAppSignals(acc, app) ==
  FoldLeft(LAMBDA a, ad : IF ad.render \in DOMAIN a.renders THEN Combine(a, ad, NoneAdded(a)) ELSE a, acc, app)

(* [st, of]: of maps a render URL to its signals. *)
BuildTrustedScoringSignals(req, require) ==
  LET doc == The(req.doc)
      map(o) == IF o = {} THEN <<>> ELSE BuildAdScoringSignalsMap(The(o).m)
      shared == FindSharedComponentUrls(req.ads)
      add(acc, ad) == Combine(acc, ad, AddComponentSignals(ad, shared, acc.components))
      all == MayPopulateScoringSignalsForProtectedAppSignals(
               FoldLeft(add, [of |-> <<>>, renders |-> map(doc.renders), components |-> map(doc.comps),
                              undefined |-> FALSE], req.ads), req.app)
      bad(s) == [st |-> s, of |-> <<>>]
  IN IF req.doc = {} THEN bad("failed")
     ELSE IF ~doc.parses \/ ~doc.object \/ (require /\ doc.renders = {}) THEN bad("failed")
     ELSE IF \E r \in doc.renders : ~r.object THEN bad("undefined")
     ELSE IF all.undefined THEN bad("undefined") ELSE [st |-> "ok", of |-> all.of]

-----------------------------------------------------------------------------
(* The arguments of scoreAd. *)
MakeOpenBidMetadataJson(req, owner, render, comps, cur, ids) ==
  [owner |-> {owner} \ {""}, publisher |-> {req.publisher} \ {""}, comps |-> comps,
   cur |-> IF cur = "" THEN kUnknownBidCurrencyCode ELSE cur,
   version |-> {req.version} \ {0}, ids |-> ids, render |-> render, topSeller |-> {}, componentSeller |-> {}]
MakeBidMetadata(req, ad) ==
  [MakeOpenBidMetadataJson(req, ad.owner, ad.render, ad.comps, ad.cur, ad.ids) EXCEPT !.topSeller = {req.topSeller} \ {""}]
MakeBidMetadataForTopLevelAuction(req, ad, seller) ==
  [MakeOpenBidMetadataJson(req, ad.owner, ad.render, ad.comps, ad.cur, <<>>) EXCEPT !.componentSeller = {seller}]

BuildScoreAdRequest(ad, signals, metadata) ==
  [id |-> ad.render, app |-> ad.app, bid |-> ad.bid, signals |-> signals, metadata |-> metadata]

NoCalls == [data |-> <<>>, calls |-> <<>>]

Dispatch(b, ad, call) ==
  IF <<ad.app, ad.render>> \in DOMAIN b.data THEN b
  ELSE [data |-> b.data @@ (<<ad.app, ad.render>> :> ad), calls |-> Append(b.calls, call)]

(* The ads from the last to the first; null signals are {}. *)
PopulateDispatchRequests(req, signals, require, ads, b) ==
  LET has(ad) == ad.render \in DOMAIN signals.of
      add(acc, ad) == IF require /\ ~has(ad) THEN acc
                      ELSE Dispatch(acc, ad, BuildScoreAdRequest(ad, IF has(ad) THEN {signals.of[ad.render]} ELSE {},
                                                                 MakeBidMetadata(req, ad)))
  IN FoldLeft(add, b, Reverse(ads))

ComponentAd(r, app, kanon) ==
  [app |-> app, owner |-> r.owner, group |-> IF app THEN "" ELSE r.group, render |-> r.render,
   comps |-> IF app THEN <<>> ELSE r.comps, bid |-> r.bid, cur |-> r.cur, ids |-> <<>>, origin |-> "",
   idx |-> 0, joinCount |-> 0, recency |-> 0, kanon |-> kanon]
MapAuctionResultToAdWithBidMetadata(r) == ComponentAd(r, FALSE, TRUE)
MapAuctionResultToProtectedAppSignalsAdWithBidMetadata(r) == ComponentAd(r, TRUE, TRUE)
MapKAnonGhostWinnerToAdWithBidMetadata(g) == ComponentAd(g, FALSE, FALSE)

(* The metadata is made from the result, the ad's own record from it too;    *)
(* sellers are those whose reporting data is already there for the id.       *)
TopLevelCall(req, b, ad, from, seller) ==
  Dispatch(b, ad, BuildScoreAdRequest(ad, {}, MakeBidMetadataForTopLevelAuction(req, from, seller)))
PopulateTopLevelDispatchRequests(c, req) ==
  LET winner(acc, r) ==
        IF r.render = "" \/ r.render \in acc.sellers THEN acc
        ELSE [b |-> TopLevelCall(req, acc.b, IF r.app THEN MapAuctionResultToProtectedAppSignalsAdWithBidMetadata(r)
                                             ELSE MapAuctionResultToAdWithBidMetadata(r), r, r.seller),
              sellers |-> acc.sellers \cup {r.render}]
      ghosts(acc, r) ==
        IF ~c.enforceKAnon THEN acc
        ELSE [acc EXCEPT !.b = FoldLeft(LAMBDA b, g : TopLevelCall(req, b, MapKAnonGhostWinnerToAdWithBidMetadata(g), g, r.seller),
                                        @, r.ghosts)]
  IN FoldLeft(LAMBDA acc, r : IF r.seller = "" THEN acc ELSE ghosts(winner(acc, r), r),
              [b |-> NoCalls, sellers |-> {}], c.results).b

-----------------------------------------------------------------------------
SaleInit ==
  /\ saleId \in DOMAIN SellCases
  /\ urlLookup = {} /\ sellFault = "none" /\ scoringSignals = {} /\ scoreReq = {}
  /\ adData = <<>> /\ scoreCalls = <<>> /\ saleStep = "start"

Start ==
  /\ saleStep = "start"
  /\ saleStep' = IF ~ExtractAuctionConfig(Sale.config) THEN "rejected"
                 ELSE IF Sale.results # <<>> THEN "topLevel"
                 ELSE IF Sale.fetch THEN "bidsIn" ELSE "signalsIn"
  /\ UNCHANGED <<saleId, urlLookup, sellFault, scoringSignals, scoreReq, adData, scoreCalls>>

(* Without any URL the lookup by the second protocol is not sent, and        *)
(* nothing goes on.                                                          *)
FetchScoringSignals ==
  /\ saleStep = "bidsIn"
  /\ IF ~UseKvV2(Sale)
     THEN urlLookup' = {BuildSellerKeyValueRequest(GetSellerValuesInput(Sale))} /\ saleStep' = "lookingUpV1"
     ELSE IF AdArguments(Sale) = <<>> THEN saleStep' = "noLookup" /\ UNCHANGED urlLookup
     ELSE urlLookup' = {CreateV2ScoringRequest(Sale)} /\ saleStep' = "lookingUpV2"
  /\ UNCHANGED <<saleId, sellFault, scoringSignals, scoreReq, adData, scoreCalls>>

(* A version too wide for Android is dropped. *)
SellerDataVersion(v) ==
  IF v = {} THEN 0 ELSE IF Sale.client = "android" /\ The(v) > MaxAndroidVersion THEN 0 ELSE The(v)

V1ScoringSignalsArrive ==
  /\ saleStep = "lookingUpV1"
  /\ \E fault \in SellFaults, v \in SellHeaders : \E l \in urlLookup :
       /\ sellFault' = fault
       /\ scoringSignals' = {[doc |-> V1Scoring(l, fault), version |-> SellerDataVersion(v)]}
       /\ saleStep' = "signalsIn"
  /\ UNCHANGED <<saleId, urlLookup, scoreReq, adData, scoreCalls>>

(* An answer that cannot be converted is used all the same, which ends the   *)
(* process; one without any value ends the auction without a winner.         *)
V2ScoringSignalsArrive ==
  /\ saleStep = "lookingUpV2"
  /\ \E fault \in SellFaults : \E l \in urlLookup :
       \E d \in {ConvertV2ResponseToV1ScoringSignals(V2Scoring(l.partitions, fault))} :
         /\ sellFault' = fault
         /\ IF d = {} THEN saleStep' = "crashed" /\ UNCHANGED scoringSignals
            ELSE IF The(d).renders = {} /\ The(d).comps = {} THEN saleStep' = "noAds" /\ UNCHANGED scoringSignals
            ELSE scoringSignals' = {[doc |-> The(d), version |-> 0]} /\ saleStep' = "signalsIn"
  /\ UNCHANGED <<saleId, urlLookup, scoreReq, adData, scoreCalls>>

LookupOfScoringSignalsFails ==
  /\ saleStep \in {"lookingUpV1", "lookingUpV2"}
  /\ saleStep' = "noAds"
  /\ UNCHANGED <<saleId, urlLookup, sellFault, scoringSignals, scoreReq, adData, scoreCalls>>

SendScoreAds ==
  /\ saleStep = "signalsIn"
  /\ \E r \in {CreateScoreAdsRequest(Sale, scoringSignals)} :
       IF r.ads = <<>> /\ r.app = <<>> THEN saleStep' = "noAds" /\ UNCHANGED scoreReq
       ELSE scoreReq' = {r} /\ saleStep' = "sent"
  /\ UNCHANGED <<saleId, urlLookup, sellFault, scoringSignals, adData, scoreCalls>>

(* Signals that cannot be read end a call that needs them; the others are    *)
(* scored without any.                                                       *)
ScoreSingleSeller ==
  /\ saleStep = "sent"
  /\ \E r \in scoreReq : \E s \in {BuildTrustedScoringSignals(r, Sale.require)} :
       LET read == IF s.st = "ok" THEN s ELSE [st |-> "none", of |-> <<>>]
       IN IF s.st = "undefined" THEN saleStep' = "undefined" /\ UNCHANGED <<adData, scoreCalls>>
          ELSE IF s.st # "ok" /\ Sale.require THEN saleStep' = "badSignals" /\ UNCHANGED <<adData, scoreCalls>>
          ELSE \E b \in {PopulateDispatchRequests(r, read, Sale.require, r.app,
                           PopulateDispatchRequests(r, read, Sale.require, r.ads, NoCalls))} :
                 adData' = b.data /\ scoreCalls' = b.calls /\ saleStep' = "scoring"
  /\ UNCHANGED <<saleId, urlLookup, sellFault, scoringSignals, scoreReq>>

ScoreTopLevel ==
  /\ saleStep = "topLevel"
  /\ \E b \in {PopulateTopLevelDispatchRequests(Sale, [publisher |-> Sale.publisher, version |-> 0])} :
       adData' = b.data /\ scoreCalls' = b.calls
  /\ saleStep' = "scoring"
  /\ UNCHANGED <<saleId, urlLookup, sellFault, scoringSignals, scoreReq>>

SaleNext ==
  \/ Start \/ FetchScoringSignals \/ V1ScoringSignalsArrive \/ V2ScoringSignalsArrive
  \/ LookupOfScoringSignalsFails \/ SendScoreAds \/ ScoreSingleSeller \/ ScoreTopLevel

-----------------------------------------------------------------------------
(* The lookup by the second protocol asks for the URLs that the first one    *)
(* asks for, but for an empty one, in partitions that can be told apart; and *)
(* a well-formed answer holds the values the first protocol would give,      *)
(* though a URL of several ads is answered several times.                    *)
ScoringLookupsAgree ==
  saleStep \notin {"start", "rejected", "bidsIn", "topLevel"} /\ Sale.fetch /\ UseKvV2(Sale) =>
    LET v1 == GetSellerValuesInput(Sale)
        doc == V1Scoring(v1, "none")
        ps(l) == l.partitions
        asked(l, F(_)) == UNION {ToSet(F(ps(l)[i].args)) : i \in DOMAIN ps(l)}
    IN /\ urlLookup = {} <=> v1.renders \cup v1.comps \subseteq {""}
       /\ \A l \in urlLookup :
            /\ asked(l, LAMBDA a : a.renders) = v1.renders \ {""}
            /\ asked(l, LAMBDA a : a.comps) = v1.comps \ {""}
            /\ Cardinality({ps(l)[i].id : i \in DOMAIN ps(l)}) = Len(ps(l))
       /\ sellFault # "changed" =>
            \A s \in scoringSignals :
              \A o \in s.doc.renders : o.m = The(doc.renders).m

(* An ad is scored with the values of its own render URL and of all its      *)
(* components, also when it shares components with other ads.  Not so when   *)
(* an ad before it in the request has its render URL: then it is scored with *)
(* that ad's signals, which know nothing of its components.                  *)
ScoredWithOwnSignals ==
  saleStep = "scoring" /\ scoreReq # {} =>
    \A r \in scoreReq : \A k \in DOMAIN scoreCalls :
      LET call == scoreCalls[k]
          ad == adData[<<call.app, call.id>>]
          others == {i \in DOMAIN r.ads : r.ads[i].render = ad.render}
          own == IF r.doc = {} \/ ~The(r.doc).parses \/ ~The(r.doc).object THEN {}
                 ELSE LET m(o) == IF o = {} THEN <<>> ELSE The(o).m
                          cs == Restrict(m(The(r.doc).comps), ToSet(ad.comps) \cap DOMAIN m(The(r.doc).comps))
                          rs == m(The(r.doc).renders)
                      IN IF DOMAIN cs = {} /\ ad.render \notin DOMAIN rs THEN {}
                         ELSE {[comps |-> [u \in DOMAIN cs |-> {cs[u]}],
                                render |-> IF ad.render \in DOMAIN rs THEN {{rs[ad.render]}} ELSE {}]}
      IN \/ call.signals = own
         \/ Cardinality(others) > (IF ad.app THEN 0 ELSE 1)

(* scoreAd is told of an ad what its buyer and its interest group say, in    *)
(* the units of the scoring request: the ad of that buyer, its group at that *)
(* place, recency in minutes whichever unit the device used.                 *)
CallsDescribeTheirAd ==
  saleStep = "scoring" /\ scoreReq # {} =>
    \A k \in DOMAIN scoreCalls :
      LET call == scoreCalls[k]
          ad == adData[<<call.app, call.id>>]
          seconds(g) == IF g.recencyMs # {} THEN The(g.recencyMs) \div 1000 ELSE g.recency
      IN /\ call.metadata.render = call.id /\ call.bid = ad.bid /\ call.metadata.owner = {ad.owner}
         /\ call.metadata.cur # "" /\ call.metadata.comps = ad.comps
         /\ \E b \in DOMAIN Sale.buyers : Sale.buyers[b].owner = ad.owner
              /\ IF ad.app THEN \E i \in DOMAIN Sale.buyers[b].app : Sale.buyers[b].app[i].render = ad.render
                 ELSE \E i \in DOMAIN Sale.buyers[b].bids :
                        LET bid == Sale.buyers[b].bids[i]
                        IN bid.render = ad.render /\ bid.bid = ad.bid /\ bid.comps = ad.comps /\ bid.group = ad.group
         /\ ~ad.app /\ Sale.client = "browser" /\ ad.origin # "" =>
              LET g == Sale.groups[ad.owner][ad.idx + 1]
              IN g.name = ad.group /\ ad.recency * 60 <= seconds(g) /\ seconds(g) < (ad.recency + 1) * 60

(* In a top-level auction a call is about an ad of the component seller it   *)
(* names, and the record kept under its id is of that same ad, though        *)
(* sellers and their ghost winners share render URLs; only a component's     *)
(* winner counts as k-anonymous.                                             *)
TopLevelCallsMatchTheirAd ==
  saleStep = "scoring" /\ scoreReq = {} =>
    \A k \in DOMAIN scoreCalls :
      LET call == scoreCalls[k]
          ad == adData[<<call.app, call.id>>]
          like(x) == x.render = call.id /\ x.bid = ad.bid /\ x.owner = ad.owner
      IN /\ call.bid = ad.bid /\ call.metadata.owner = {ad.owner}
         /\ \E i \in DOMAIN Sale.results :
              LET r == Sale.results[i]
              IN /\ call.metadata.componentSeller = {r.seller}
                 /\ IF ad.kanon THEN like(r) /\ r.app = call.app
                    ELSE \E j \in DOMAIN r.ghosts : like(r.ghosts[j])

(* What the code does not define, or what ends the process, needs an answer  *)
(* of the key/value server that is malformed; signals moved out of the       *)
(* answer are never read again.                                              *)
ScoringTroubleIsNamed ==
  /\ saleStep = "undefined" => sellFault = "rendersNoObject"
  /\ saleStep = "crashed" => sellFault = "notJson"
==============================================================================

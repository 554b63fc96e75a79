--------------------------- MODULE ScoreAdsRanking ---------------------------
(***************************************************************************)
(* The decisions of a ScoreAds call, as functions of the request c, the    *)
(* dispatched ads and what scoreAd returned for them: which responses are  *)
(* taken up, which ads are rejected, the order of the others, the          *)
(* candidates for winner and for ghost winners, and the other bids that    *)
(* are reported to the winner.  Scores and bids are in halves of a unit,   *)
(* so that a conversion to int loses something.                            *)
(***************************************************************************)
EXTENDS Integers, SequencesExt

CONSTANTS
  MaxUrlChars,     \* max_allowed_size_debug_url_chars_
  MaxAllUrlChars   \* max_allowed_size_all_debug_urls_chars_

ASSUME UrlLimits == MaxUrlChars \in Nat /\ MaxAllUrlChars \in Nat

(* GetAuctionScope of a ScoreAds request never yields a server component. *)
AuctionScopes == {"single", "deviceComponent", "topLevel"}

IsComponentAuction(c) == c.scope = "deviceComponent"

(* A float in halves, converted to int and back. *)
Truncated(x) == IF x >= 0 THEN 2 * (x \div 2) ELSE -2 * (-x \div 2)

-----------------------------------------------------------------------------
(* Taking up what scoreAd returned. *)

GetDebugUrlIfInLimit(len, total) ==
  IF len <= MaxUrlChars /\ len + total <= MaxAllUrlChars THEN len ELSE 0

(* What a scoreAd call returned; when it failed the other fields are not     *)
(* read.                                                                     *)
OutputType ==
  [ok : BOOLEAN, score : Int, incoming : Int, reject : STRING, allow : BOOLEAN,
   bid : Int, cur : STRING, win : Nat, loss : Nat, contrib : BOOLEAN]

(* The score of an ad, with the ad and its k-anon status.  Component auction *)
(* fields are read in component auctions only.                               *)
ScoreAdResponseJsonToProto(c, ad, r, total) ==
  LET win == GetDebugUrlIfInLimit(r.win, total)
      part == IsComponentAuction(c)
  IN [ad |-> ad, kanon |-> ~c.enforceKAnon \/ ad.kanon,
      score |-> r.score, incoming |-> r.incoming, reject |-> r.reject,
      allow |-> part /\ r.allow, bid |-> IF part THEN r.bid ELSE 0,
      cur |-> IF part THEN r.cur ELSE "none",
      win |-> win, loss |-> GetDebugUrlIfInLimit(r.loss, total + win)]

DebugReportUrlsLength(s) == s.win + s.loss

CheckAndUpdateModifiedBid(c, s) ==
  IF IsComponentAuction(c) /\ s.bid <= 0 /\ s.ad.bid > 0
  THEN [s EXCEPT !.bid = s.ad.bid, !.cur = s.ad.cur]
  ELSE s

(* The characters counted after the first i responses.                       *)
(* ScoreAdResponseJsonToProto adds the URLs it takes to the running total,   *)
(* and so does its caller: the total counts every URL twice.                 *)
DebugUrlChars(c, ads, responses) ==
  LET chars[i \in 0..Len(responses)] ==
        IF i = 0 THEN 0
        ELSE IF ~responses[i].ok THEN chars[i - 1]
        ELSE chars[i - 1] + 2 * DebugReportUrlsLength(
               ScoreAdResponseJsonToProto(c, ads[i], responses[i], chars[i - 1]))
  IN chars

(* The ads that were scored.  ads[i] is the ad FindScoredAdType finds for    *)
(* response i.  The bid is completed here as FindWinningAd does first.       *)
CollectValidRomaResponses(c, ads, responses) ==
  LET chars == DebugUrlChars(c, ads, responses)
  IN [i \in {j \in DOMAIN responses : responses[j].ok} |->
        CheckAndUpdateModifiedBid(c,
          ScoreAdResponseJsonToProto(c, ads[i], responses[i], chars[i - 1]))]

-----------------------------------------------------------------------------
(* Rejection. *)

IsBidCurrencyMismatched(c, s) ==
  /\ IsComponentAuction(c) /\ c.cur # "none"
  /\ s.bid > 0 /\ s.cur \notin {"none", c.cur}

IsIncomingBidInSellerCurrencyIllegallyModified(c, s) ==
  /\ c.cur # "none" /\ s.ad.cur = c.cur
  /\ s.incoming > 0 /\ s.incoming # s.ad.bid

NotAvailable == "not-available"

(* A reason scoreAd gave is replaced by "not available" when the score is    *)
(* not positive.                                                             *)
GetAdRejectionReason(c, s) ==
  CASE IsBidCurrencyMismatched(c, s) -> "currency-check"
    [] IsIncomingBidInSellerCurrencyIllegallyModified(c, s) -> "invalid-bid"
    [] OTHER -> IF s.score <= 0 THEN NotAvailable ELSE s.reject

Rejected(c, s) == GetAdRejectionReason(c, s) \notin {"none", NotAvailable}

(* The ads left in parsed_ads after the first loop of FindWinningAd. *)
Considered(c, scored) ==
  {i \in DOMAIN scored :
     ~Rejected(c, scored[i]) /\ (IsComponentAuction(c) => scored[i].allow)}

-----------------------------------------------------------------------------
(* Ranking. *)

(* ScoredAdData::operator> *)
Greater(s, t) ==
  \/ s.score > t.score
  \/ s.score = t.score /\ s.ad.bid > t.ad.bid
  \/ s.score = t.score /\ s.ad.bid = t.ad.bid /\ s.kanon /\ ~t.kanon

(* std::sort leaves equal elements in any order. *)
SortedOrders(scored, set) ==
  {o \in SetToSeqs(set) :
     \A i, j \in DOMAIN o : i < j => ~Greater(scored[o[j]], scored[o[i]])}

(* The test for more candidates after the first, whose score is all of       *)
(* theirs.  The parameter is an int: no fractional score is equal to it.     *)
HasEqLastDesirability(scored, first, i) ==
  i = first \/ scored[first].score = Truncated(scored[i].score)

(* The first of a set of ads in the order. *)
First(order, ads) ==
  order[CHOOSE k \in DOMAIN order :
          order[k] \in ads /\ \A j \in DOMAIN order : order[j] \in ads => k <= j]

CandidatesAmong(scored, order, ads) ==
  {i \in ads : HasEqLastDesirability(scored, First(order, ads), i)}

Positive(scored, order) == {i \in ToSet(order) : scored[i].score > 0}

Anonymous(scored, order) == {i \in Positive(scored, order) : scored[i].kanon}

(* Mutant: ghost winners are still taken below the first k-anonymous ad. *)
CandidatesBelow(scored, order) ==
  LET anon == Anonymous(scored, order)
  IN [winners |-> CandidatesAmong(scored, order, anon),
      ghosts |-> CandidatesAmong(scored, order, Positive(scored, order) \ anon)]

(* The ads that come before the first k-anonymous one. *)
Leading(scored, order) ==
  LET anon == Anonymous(scored, order)
  IN {i \in Positive(scored, order) \ anon :
        anon = {} \/ \E j, k \in DOMAIN order :
                        j < k /\ order[j] = i /\ order[k] = First(order, anon)}

(* Ads with a positive score, best first: the k-anonymous ones may win, and  *)
(* those before the first of them may be ghost winners.                      *)
Candidates(scored, order) ==
  [winners |-> CandidatesAmong(scored, order, Anonymous(scored, order)),
   ghosts |-> CandidatesAmong(scored, order, Leading(scored, order))]

(* The outcomes of the random choice: 0 stands for "no winner". *)
ChooseWinnerAndGhostWinners(c, cands) ==
  [winner : IF cands.winners = {} THEN {0} ELSE cands.winners,
   ghosts : {g \in SUBSET cands.ghosts :
               Cardinality(g) = IF Cardinality(cands.ghosts) < c.maxGhosts
                                THEN Cardinality(cands.ghosts) ELSE c.maxGhosts}]

-----------------------------------------------------------------------------
(* The other bids. *)

(* score_ad_map: the ads of each score, ghost winner candidates left out. *)
ScoreAdMap(scored, order, cands) ==
  LET kept == ToSet(order) \ cands.ghosts
  IN [sc \in {scored[i].score : i \in kept} |-> {i \in kept : scored[i].score = sc}]

(* The scores of a hash map, sorted by a comparison of ints. *)
ScoreLists(map) ==
  {o \in SetToSeqs(DOMAIN map) :
     \A i, j \in DOMAIN o : i < j => Truncated(o[j]) <= Truncated(o[i])}

(* The bids of the first two scores, up to a score of 0, which               *)
(* UpdateHighestScoringOtherBidMap adds to their owners' lists.              *)
PopulateHighestScoringOtherBidsData(c, map, list, winner) ==
  LET top == {i \in DOMAIN list : i <= 2 /\ \A j \in 1..i : list[j] # 0}
  IN IF c.scope = "topLevel" THEN {}
     ELSE (UNION {map[list[i]] : i \in top}) \ {winner}
=============================================================================

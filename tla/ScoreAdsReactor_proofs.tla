----------------------- MODULE ScoreAdsReactor_proofs -----------------------
(***************************************************************************)
(* Proofs about ScoreAdsReactor, for any number of ads, any outputs of the *)
(* scoreAd calls and any settings.  First the ranking, then what the loops *)
(* of the code come to, which are recursive functions here, then the call. *)
(***************************************************************************)
EXTENDS ScoreAdsReactor, Lemmas, SequenceTheorems, FunctionTheorems,
        FiniteSetTheorems, TLAPS

-----------------------------------------------------------------------------
(* The ranking. *)

(* What Greater compares. *)
Comparable(s) == s.score \in Int /\ s.kanon \in BOOLEAN /\ s.ad.bid \in Nat

(* An order of n ads, best first. *)
Ranked(scored, order, n) ==
  /\ DOMAIN order = 1 .. n
  /\ \A i, j \in 1 .. n : order[i] = order[j] => i = j
  /\ \A k \in 1 .. n : Comparable(scored[order[k]])
  /\ \A i, j \in 1 .. n : i < j => ~Greater(scored[order[j]], scored[order[i]])

(* A permutation of a finite set is a sequence of all its elements. *)
LEMMA OrderHasAll ==
  ASSUME NEW set, IsFiniteSet(set), NEW order \in SetToSeqs(set)
  PROVE  /\ Cardinality(set) \in Nat /\ order \in [1 .. Cardinality(set) -> set]
         /\ DOMAIN order = 1 .. Cardinality(set)
         /\ ToSet(order) = set
<1>1. PICK n \in Nat : n = Cardinality(set)
  BY FS_CardinalityType
<1>2. order \in [1 .. n -> set] /\ \A i, j \in 1 .. n : i # j => order[i] # order[j]
  BY <1>1 DEF SetToSeqs
<1>3. order \in Injection(1 .. n, set)
  BY <1>2, Fun_IsInj
<1>4. IsFiniteSet(1 .. n) /\ Cardinality(1 .. n) = n
  BY <1>1, FS_Interval
<1>5. order \in Surjection(1 .. n, set)
  BY <1>1, <1>3, <1>4, FS_Injection
<1>6. \A x \in set : \E i \in 1 .. n : order[i] = x
  BY <1>5, Fun_SurjectionProperties
<1>7. ToSet(order) = set
  BY <1>2, <1>6 DEF ToSet
<1> QED
  BY <1>1, <1>2, <1>7

(* The first of some ads of the order. *)
LEMMA FirstIsFirst ==
  ASSUME NEW n \in Nat, NEW order, DOMAIN order = 1 .. n,
         NEW ads \in SUBSET ToSet(order), ads # {}
  PROVE  \E k \in DOMAIN order :
           /\ First(order, ads) = order[k] /\ order[k] \in ads
           /\ \A j \in DOMAIN order : order[j] \in ads => k <= j
<1> DEFINE T == {k \in 1 .. n : order[k] \in ads}
<1>1. T \in SUBSET Nat /\ T # {}
  BY DEF ToSet
<1>2. PICK x \in T : \A y \in T : x <= y
  BY <1>1, LeastElement
<1>3. \E k \in DOMAIN order :
        order[k] \in ads /\ \A j \in DOMAIN order : order[j] \in ads => k <= j
  BY <1>2
<1> QED
  BY <1>3 DEF First

(* Later ads of a sorted order have no higher score. *)
LEMMA SortedByScore ==
  ASSUME NEW scored, NEW n \in Nat, NEW order, Ranked(scored, order, n),
         NEW j \in 1 .. n, NEW k \in 1 .. n, j <= k
  PROVE  /\ scored[order[k]].score \in Int /\ scored[order[j]].score \in Int
         /\ scored[order[k]].score <= scored[order[j]].score
<1>1. Comparable(scored[order[k]]) /\ Comparable(scored[order[j]])
  BY DEF Ranked
<1>2. CASE j = k
  BY <1>1, <1>2 DEF Comparable
<1>3. CASE j < k
  BY <1>1, <1>3 DEF Ranked, Greater, Comparable
<1> QED
  BY <1>2, <1>3

(* Candidates have the score of the first of their kind, the highest. *)
LEMMA CandidatesAreBest ==
  ASSUME NEW scored, NEW n \in Nat, NEW order, Ranked(scored, order, n),
         NEW ads \in SUBSET Positive(scored, order),
         NEW w \in CandidatesAmong(scored, order, ads)
  PROVE  /\ w \in ads /\ scored[w].score = scored[First(order, ads)].score
         /\ \A i \in ads : scored[i].score <= scored[w].score
<1>0. DOMAIN order = 1 .. n
  BY DEF Ranked
<1>1. w \in ads /\ HasEqLastDesirability(scored, First(order, ads), w)
  BY DEF CandidatesAmong
<1>2. ads \in SUBSET ToSet(order) /\ scored[w].score > 0
  BY <1>1 DEF Positive
<1>3. PICK k \in 1 .. n : /\ First(order, ads) = order[k] /\ order[k] \in ads
                          /\ \A j \in 1 .. n : order[j] \in ads => k <= j
  BY <1>0, <1>1, <1>2, FirstIsFirst
<1>4. \A i \in ads : /\ scored[i].score \in Int
                     /\ scored[i].score <= scored[order[k]].score
  <2>1. TAKE i \in ads
  <2>2. PICK j \in 1 .. n : order[j] = i
    BY <1>0, <1>2 DEF ToSet
  <2>3. k <= j
    BY <1>3, <2>2
  <2> QED
    BY <2>2, <2>3, SortedByScore
<1>5. scored[w].score = scored[order[k]].score
  <2>1. CASE w = order[k]
    BY <2>1
  <2>2. CASE w # order[k]
    <3>1. scored[order[k]].score = Truncated(scored[w].score)
      BY <1>1, <1>3, <2>2 DEF HasEqLastDesirability
    <3>2. Truncated(scored[w].score) <= scored[w].score
      BY <1>1, <1>2, <1>4 DEF Truncated
    <3> QED
      BY <3>1, <3>2, <1>1, <1>3, <1>4
  <2> QED
    BY <2>1, <2>2
<1> QED
  BY <1>1, <1>3, <1>4, <1>5

(* The first of some ads with a positive score is a candidate. *)
LEMMA FirstIsCandidate ==
  ASSUME NEW scored, NEW n \in Nat, NEW order, Ranked(scored, order, n),
         NEW ads \in SUBSET Positive(scored, order), ads # {}
  PROVE  CandidatesAmong(scored, order, ads) # {}
<1>1. First(order, ads) \in ads
  BY FirstIsFirst DEF Positive, Ranked
<1> QED
  BY <1>1 DEF CandidatesAmong, HasEqLastDesirability

(* Whoever has a higher place than one of the ads that lead also leads. *)
LEMMA LeadersComeFirst ==
  ASSUME NEW scored, NEW n \in Nat, NEW order, Ranked(scored, order, n),
         NEW k \in 1 .. n, order[k] \in Leading(scored, order),
         NEW j \in 1 .. n, j < k
  PROVE  order[j] \in Leading(scored, order)
<1>1. PICK anon : anon = Anonymous(scored, order)
  OBVIOUS
<1>2. /\ DOMAIN order = 1 .. n
      /\ order[k] \in Positive(scored, order) \ anon
      /\ anon = {} \/ \E a, b \in 1 .. n :
                       a < b /\ order[a] = order[k] /\ order[b] = First(order, anon)
  BY <1>1 DEF Leading, Ranked
<1>3. scored[order[k]].score > 0 /\ order[j] \in ToSet(order)
  BY <1>2 DEF Positive, ToSet
<1>4. order[j] \in Positive(scored, order)
  <2>1. /\ scored[order[k]].score \in Int /\ scored[order[j]].score \in Int
        /\ scored[order[k]].score <= scored[order[j]].score
    BY SortedByScore
  <2> QED
    BY <1>3, <2>1 DEF Positive
<1>5. CASE anon = {}
  BY <1>1, <1>4, <1>5 DEF Leading
<1>6. CASE anon # {}
  <2>1. PICK a \in 1 .. n, b \in 1 .. n :
          a < b /\ order[a] = order[k] /\ order[b] = First(order, anon)
    BY <1>2, <1>6
  <2>2. a = k /\ j < b
    BY <2>1 DEF Ranked
  <2>3. anon \in SUBSET ToSet(order)
    BY <1>1 DEF Anonymous, Positive
  <2>4. PICK p \in 1 .. n : /\ First(order, anon) = order[p]
                            /\ \A i \in 1 .. n : order[i] \in anon => p <= i
    BY <1>2, <1>6, <2>3, FirstIsFirst
  <2>5. order[j] \notin anon
    <3>1. p = b
      BY <2>1, <2>4 DEF Ranked
    <3> QED
      BY <3>1, <2>2, <2>4
  <2> QED
    BY <1>1, <1>2, <1>4, <2>1, <2>2, <2>5 DEF Leading
<1> QED
  BY <1>5, <1>6

(* No ad of the order has a higher score than a candidate among the leaders. *)
LEMMA LeadersAreBest ==
  ASSUME NEW scored, NEW n \in Nat, NEW order, Ranked(scored, order, n),
         NEW g \in CandidatesAmong(scored, order, Leading(scored, order))
  PROVE  /\ g \in Leading(scored, order)
         /\ \A i \in ToSet(order) : scored[i].score <= scored[g].score
<1>1. PICK lead : lead = Leading(scored, order)
  OBVIOUS
<1>2. /\ DOMAIN order = 1 .. n
      /\ lead \in SUBSET Positive(scored, order) /\ lead \in SUBSET ToSet(order)
  BY <1>1 DEF Leading, Positive, Ranked
<1>3. g \in lead /\ scored[g].score = scored[First(order, lead)].score
  <2>1. g \in CandidatesAmong(scored, order, lead)
    BY <1>1
  <2>2. lead \in SUBSET Positive(scored, order)
    BY <1>2
  <2>3. g \in lead
    BY <2>1, <2>2, CandidatesAreBest
  <2>4. scored[g].score = scored[First(order, lead)].score
    BY <2>1, <2>2, CandidatesAreBest
  <2> QED
    BY <2>3, <2>4
<1>4. PICK k \in 1 .. n : /\ First(order, lead) = order[k] /\ order[k] \in lead
                          /\ \A j \in 1 .. n : order[j] \in lead => k <= j
  BY <1>2, <1>3, FirstIsFirst
<1>5. ASSUME NEW i \in ToSet(order) PROVE scored[i].score <= scored[g].score
  <2>1. PICK j \in 1 .. n : order[j] = i
    BY <1>2 DEF ToSet
  <2>2. k <= j
    BY <1>1, <1>4, LeadersComeFirst
  <2> QED
    BY <1>3, <1>4, <2>1, <2>2, SortedByScore
<1> QED
  BY <1>1, <1>3, <1>5

(* A ghost winner scores higher than the winner, or bids higher than a       *)
(* k-anonymous ad with the winner's score.                                   *)
LEMMA LeadersBeatWinners ==
  ASSUME NEW scored, NEW n \in Nat, NEW order, Ranked(scored, order, n),
         NEW g \in Leading(scored, order),
         NEW w \in CandidatesAmong(scored, order, Anonymous(scored, order))
  PROVE  \/ scored[g].score > scored[w].score
         \/ \E v \in ToSet(order) :
              /\ scored[v].score = scored[w].score /\ scored[v].kanon
              /\ scored[g].ad.bid > scored[v].ad.bid
<1>1. PICK anon : anon = Anonymous(scored, order)
  OBVIOUS
<1>2. /\ DOMAIN order = 1 .. n
      /\ anon \in SUBSET Positive(scored, order) /\ anon \in SUBSET ToSet(order)
  BY <1>1 DEF Anonymous, Positive, Ranked
<1>3. w \in anon /\ scored[w].score = scored[First(order, anon)].score
  <2>1. w \in CandidatesAmong(scored, order, anon)
    BY <1>1
  <2>2. anon \in SUBSET Positive(scored, order)
    BY <1>2
  <2>3. w \in anon
    BY <2>1, <2>2, CandidatesAreBest
  <2>4. scored[w].score = scored[First(order, anon)].score
    BY <2>1, <2>2, CandidatesAreBest
  <2> QED
    BY <2>3, <2>4
<1>4. First(order, anon) \in anon
  BY <1>2, <1>3, FirstIsFirst
<1>5. PICK j \in 1 .. n, k \in 1 .. n : j < k /\ order[j] = g /\ order[k] = First(order, anon)
  BY <1>1, <1>2, <1>3 DEF Leading
<1>6. g \in Positive(scored, order) /\ g \notin anon
  BY <1>1 DEF Leading
<1>7. scored[order[k]].kanon /\ ~scored[g].kanon /\ order[k] \in ToSet(order)
  BY <1>1, <1>2, <1>4, <1>5, <1>6 DEF Anonymous
<1>8. /\ Comparable(scored[g]) /\ Comparable(scored[order[k]])
      /\ ~Greater(scored[order[k]], scored[g])
  BY <1>5 DEF Ranked
<1>9. scored[g].score > scored[order[k]].score
      \/ (scored[g].score = scored[order[k]].score /\ scored[g].ad.bid > scored[order[k]].ad.bid)
  BY <1>7, <1>8 DEF Greater, Comparable
<1> QED
  BY <1>3, <1>5, <1>7, <1>9

-----------------------------------------------------------------------------
(* The choice of winner and ghost winners. *)

(* What is taken up of the responses, whatever becomes of the debug URLs. *)
TakenUp(scored, c, ads, rs) ==
  /\ DOMAIN scored = {j \in DOMAIN rs : rs[j].ok}
  /\ \A i \in DOMAIN scored :
       /\ scored[i].ad = ads[i] /\ scored[i].score = rs[i].score
       /\ scored[i].kanon = (~c.enforceKAnon \/ ads[i].kanon)
       /\ scored[i].allow = (IsComponentAuction(c) /\ rs[i].allow)

LEMMA ScoresAreTakenUp ==
  ASSUME NEW c, NEW ads, NEW rs, NEW scored,
         scored = CollectValidRomaResponses(c, ads, rs)
  PROVE  TakenUp(scored, c, ads, rs)
<1>1. PICK chars : chars = DebugUrlChars(c, ads, rs)
  OBVIOUS
<1>2. scored = [i \in {j \in DOMAIN rs : rs[j].ok} |->
        CheckAndUpdateModifiedBid(c,
          ScoreAdResponseJsonToProto(c, ads[i], rs[i], chars[i - 1]))]
  BY <1>1 DEF CollectValidRomaResponses
<1>3. ASSUME NEW s, NEW i, NEW t, t = ScoreAdResponseJsonToProto(c, ads[i], rs[i], chars[i - 1]),
             s = CheckAndUpdateModifiedBid(c, t)
      PROVE  /\ s.ad = ads[i] /\ s.score = rs[i].score
             /\ s.kanon = (~c.enforceKAnon \/ ads[i].kanon)
             /\ s.allow = (IsComponentAuction(c) /\ rs[i].allow)
  <2>1. /\ t.ad = ads[i] /\ t.score = rs[i].score
        /\ t.kanon = (~c.enforceKAnon \/ ads[i].kanon)
        /\ t.allow = (IsComponentAuction(c) /\ rs[i].allow)
    BY <1>3 DEF ScoreAdResponseJsonToProto
  <2>2. s = t \/ s = [t EXCEPT !.bid = t.ad.bid, !.cur = t.ad.cur]
    BY <1>3 DEF CheckAndUpdateModifiedBid
  <2>3. s.ad = t.ad /\ s.score = t.score /\ s.kanon = t.kanon /\ s.allow = t.allow
    <3>1. {"ad", "score", "kanon", "allow"} \subseteq DOMAIN t
      BY <1>3 DEF ScoreAdResponseJsonToProto
    <3>2. CASE s = [t EXCEPT !.bid = t.ad.bid, !.cur = t.ad.cur]
      BY <3>1, <3>2
    <3> QED
      BY <2>2, <3>2
  <2> QED
    BY <2>1, <2>3
<1> QED
  BY <1>2, <1>3 DEF TakenUp

(* The outcomes of the sort are orders of all the ads that are left. *)
LEMMA SortedOrdersAreRanked ==
  ASSUME NEW n \in Nat, NEW scored, DOMAIN scored \subseteq 1 .. n,
         \A i \in DOMAIN scored : Comparable(scored[i]),
         NEW set \in SUBSET DOMAIN scored, NEW order \in SortedOrders(scored, set)
  PROVE  \E m \in 0 .. n : Ranked(scored, order, m) /\ DOMAIN order = 1 .. m /\ ToSet(order) = set
<1>1. order \in SetToSeqs(set)
  BY DEF SortedOrders
<1>2. IsFiniteSet(1 .. n) /\ Cardinality(1 .. n) = n
  BY FS_Interval
<1>3. IsFiniteSet(set) /\ Cardinality(set) <= n
  BY <1>2, FS_Subset
<1>4. PICK m : m = Cardinality(set)
  OBVIOUS
<1>5. /\ m \in Nat /\ order \in [1 .. m -> set] /\ DOMAIN order = 1 .. m
      /\ ToSet(order) = set
  BY <1>1, <1>3, <1>4, OrderHasAll
<1>6. \A i, j \in 1 .. m : order[i] = order[j] => i = j
  BY <1>1, <1>4 DEF SetToSeqs
<1>7. \A k \in 1 .. m : Comparable(scored[order[k]])
  BY <1>5
<1>8. \A i, j \in 1 .. m : i < j => ~Greater(scored[order[j]], scored[order[i]])
  BY <1>5 DEF SortedOrders
<1> QED
  BY <1>3, <1>4, <1>5, <1>6, <1>7, <1>8 DEF Ranked

(* FindWinningAd picks from the candidates of one such order. *)
LEMMA PicksFromAnOrder ==
  ASSUME NEW scored, NEW a \in FindWinningAd(scored)
  PROVE  \E order \in SortedOrders(scored, Considered(conf, scored)) :
         \E cands \in {Candidates(scored, order)} :
         \E pick \in ChooseWinnerAndGhostWinners(conf, cands) :
         \E list \in ScoreLists(ScoreAdMap(scored, order, cands)) :
           /\ a.scored = scored /\ a.order = order /\ a.winner = pick.winner
           /\ a.ghosts = pick.ghosts /\ a.cands = cands.ghosts
           /\ a.others = IF pick.winner = 0 THEN {}
                         ELSE PopulateHighestScoringOtherBidsData(conf,
                                ScoreAdMap(scored, order, cands), list, pick.winner)
BY DEF FindWinningAd

(* The winner is the best of the k-anonymous ads that are left, if any. *)
LEMMA BestAdWins ==
  ASSUME NEW n \in Nat, NEW scored, DOMAIN scored \subseteq 1 .. n,
         \A i \in DOMAIN scored : Comparable(scored[i]),
         NEW a \in FindWinningAd(scored), NEW best,
         best = {i \in Considered(conf, scored) : scored[i].score > 0 /\ scored[i].kanon}
  PROVE  /\ a.winner \in 0 .. n
         /\ IF a.winner = 0 THEN best = {}
            ELSE a.winner \in best /\ \A i \in best : scored[i].score <= scored[a.winner].score
<1>1. PICK order \in SortedOrders(scored, Considered(conf, scored)) :
        \E pick \in ChooseWinnerAndGhostWinners(conf, Candidates(scored, order)) :
          a.winner = pick.winner
  BY PicksFromAnOrder
<1>2. Considered(conf, scored) \in SUBSET DOMAIN scored
  BY DEF Considered
<1>3. PICK m \in 0 .. n : /\ Ranked(scored, order, m) /\ ToSet(order) = Considered(conf, scored)
  BY <1>1, <1>2, SortedOrdersAreRanked, SMTT(30)
<1>4. best = Anonymous(scored, order) /\ best \in SUBSET Positive(scored, order)
  BY <1>3 DEF Anonymous, Positive
<1>5. PICK winners : winners = CandidatesAmong(scored, order, best)
  OBVIOUS
<1>6. a.winner \in IF winners = {} THEN {0} ELSE winners
  BY <1>1, <1>4, <1>5 DEF ChooseWinnerAndGhostWinners, Candidates
<1>7. CASE winners = {}
  <2>1. best = {}
    BY <1>3, <1>4, <1>5, <1>7, FirstIsCandidate
  <2> QED
    BY <1>6, <1>7, <2>1
<1>8. CASE winners # {}
  <2>1. a.winner \in best /\ \A i \in best : scored[i].score <= scored[a.winner].score
    BY <1>3, <1>4, <1>5, <1>6, <1>8, CandidatesAreBest
  <2>2. a.winner \in 1 .. n
    BY <2>1, <1>2, <1>3
  <2> QED
    BY <2>1, <2>2
<1> QED
  BY <1>7, <1>8

(* Ghost winners are not k-anonymous, no more than allowed, and beat all     *)
(* that follow them.                                                         *)
LEMMA GhostsAreBetter ==
  ASSUME NEW n \in Nat, NEW scored, DOMAIN scored \subseteq 1 .. n,
         \A i \in DOMAIN scored : Comparable(scored[i]), conf.maxGhosts \in Nat,
         NEW a \in FindWinningAd(scored), NEW g \in a.ghosts
  PROVE  /\ g \in DOMAIN scored /\ ~scored[g].kanon
         /\ Cardinality(a.ghosts) <= conf.maxGhosts
         /\ \A i \in ToSet(a.order) : scored[i].score <= scored[g].score
         /\ a.winner # 0 =>
              \/ scored[g].score > scored[a.winner].score
              \/ \E v \in ToSet(a.order) :
                   /\ scored[v].score = scored[a.winner].score /\ scored[v].kanon
                   /\ scored[g].ad.bid > scored[v].ad.bid
<1>1. PICK order \in SortedOrders(scored, Considered(conf, scored)) :
        \E pick \in ChooseWinnerAndGhostWinners(conf, Candidates(scored, order)) :
          a.winner = pick.winner /\ a.ghosts = pick.ghosts /\ a.order = order
  BY PicksFromAnOrder
<1>2. Considered(conf, scored) \in SUBSET DOMAIN scored
  BY DEF Considered
<1>3. PICK m \in 0 .. n : /\ Ranked(scored, order, m) /\ ToSet(order) = Considered(conf, scored)
  BY <1>1, <1>2, SortedOrdersAreRanked, SMTT(30)
<1>4. PICK ghosts, winners :
        /\ ghosts = CandidatesAmong(scored, order, Leading(scored, order))
        /\ winners = CandidatesAmong(scored, order, Anonymous(scored, order))
  OBVIOUS
<1>5. /\ a.ghosts \in SUBSET ghosts
      /\ Cardinality(a.ghosts) = IF Cardinality(ghosts) < conf.maxGhosts
                                 THEN Cardinality(ghosts) ELSE conf.maxGhosts
      /\ a.winner \in IF winners = {} THEN {0} ELSE winners
  BY <1>1, <1>4 DEF ChooseWinnerAndGhostWinners, Candidates
<1>6. g \in Leading(scored, order) /\ \A i \in ToSet(order) : scored[i].score <= scored[g].score
  BY <1>3, <1>4, <1>5, LeadersAreBest
<1>7. g \in Positive(scored, order) \ Anonymous(scored, order)
  BY <1>6 DEF Leading
<1>8. g \in DOMAIN scored /\ ~scored[g].kanon
  BY <1>2, <1>3, <1>7 DEF Positive, Anonymous
<1>9. Cardinality(a.ghosts) <= conf.maxGhosts
  <2>1. ghosts \in SUBSET (1 .. n)
    BY <1>2, <1>3, <1>4 DEF CandidatesAmong, Leading, Positive
  <2>2. Cardinality(ghosts) \in Nat
    <3>1. IsFiniteSet(1 .. n)
      BY FS_Interval
    <3>2. IsFiniteSet(ghosts)
      BY <2>1, <3>1, FS_Subset
    <3> QED
      BY <3>2, FS_CardinalityType
  <2> QED
    BY <1>5, <2>2
<1>10. CASE winners # {}
  BY <1>1, <1>3, <1>4, <1>5, <1>6, <1>8, <1>9, <1>10, LeadersBeatWinners
<1>11. CASE winners = {}
  BY <1>1, <1>5, <1>6, <1>8, <1>9, <1>11
<1> QED
  BY <1>10, <1>11

(* The other bids are bids of the scores listed. *)
LEMMA OthersAreListed ==
  ASSUME NEW c, NEW map, NEW list, NEW w,
         NEW x \in PopulateHighestScoringOtherBidsData(c, map, list, w)
  PROVE  x # w /\ \E k \in DOMAIN list : x \in map[list[k]]
<1>1. CASE c.scope = "topLevel"
  <2>1. PopulateHighestScoringOtherBidsData(c, map, list, w) = {}
    BY <1>1 DEF PopulateHighestScoringOtherBidsData
  <2> QED
    BY <2>1
<1>2. CASE c.scope # "topLevel"
  <2> DEFINE top == {k \in DOMAIN list : k <= 2 /\ \A j \in 1 .. k : list[j] # 0}
  <2>1. x \in (UNION {map[list[k]] : k \in top}) \ {w}
    BY <1>2 DEF PopulateHighestScoringOtherBidsData
  <2> QED
    BY <2>1
<1> QED
  BY <1>1, <1>2

(* The other bids were not rejected, did not win and are no ghost winner     *)
(* candidates.                                                               *)
LEMMA OthersAreOthers ==
  ASSUME NEW n \in Nat, NEW scored, DOMAIN scored \subseteq 1 .. n,
         \A i \in DOMAIN scored : Comparable(scored[i]),
         NEW a \in FindWinningAd(scored), NEW i \in a.others
  PROVE  i \notin a.cands \cup {a.winner} /\ ~Rejected(conf, scored[i])
<1>0. PICK order \in SortedOrders(scored, Considered(conf, scored)) :
        \E cands \in {Candidates(scored, order)} :
        \E list \in ScoreLists(ScoreAdMap(scored, order, cands)) :
          /\ a.cands = cands.ghosts
          /\ a.others = IF a.winner = 0 THEN {}
                        ELSE PopulateHighestScoringOtherBidsData(conf,
                               ScoreAdMap(scored, order, cands), list, a.winner)
  BY PicksFromAnOrder
<1>c. PICK cands :
        \E list \in ScoreLists(ScoreAdMap(scored, order, cands)) :
          /\ a.cands = cands.ghosts
          /\ a.others = IF a.winner = 0 THEN {}
                        ELSE PopulateHighestScoringOtherBidsData(conf,
                               ScoreAdMap(scored, order, cands), list, a.winner)
  BY <1>0
<1>1. PICK list \in ScoreLists(ScoreAdMap(scored, order, cands)) :
          /\ a.cands = cands.ghosts
          /\ a.others = IF a.winner = 0 THEN {}
                        ELSE PopulateHighestScoringOtherBidsData(conf,
                               ScoreAdMap(scored, order, cands), list, a.winner)
  BY <1>c
<1>2. Considered(conf, scored) \in SUBSET DOMAIN scored
  BY DEF Considered
<1>3. ToSet(order) = Considered(conf, scored)
  BY <1>1, <1>2, SortedOrdersAreRanked
<1>4. PICK map : map = ScoreAdMap(scored, order, cands)
  OBVIOUS
<1>5. \A sc \in DOMAIN map : map[sc] \subseteq ToSet(order) \ cands.ghosts
  BY <1>4 DEF ScoreAdMap
<1>6. \A k \in DOMAIN list : list[k] \in DOMAIN map
  BY <1>1, <1>4 DEF ScoreLists, SetToSeqs
<1>7. i # a.winner /\ \E k \in DOMAIN list : i \in map[list[k]]
  <2>1. \A x \in PopulateHighestScoringOtherBidsData(conf, map, list, a.winner) :
          x # a.winner /\ \E k \in DOMAIN list : x \in map[list[k]]
    BY OthersAreListed
  <2>2. i \in PopulateHighestScoringOtherBidsData(conf, map, list, a.winner)
    BY <1>1, <1>4
  <2> QED
    BY <2>1, <2>2
<1>8. i \in ToSet(order) /\ i \notin cands.ghosts
  BY <1>5, <1>6, <1>7
<1> QED
  BY <1>1, <1>3, <1>7, <1>8 DEF Considered

-----------------------------------------------------------------------------
(* The batch. *)

Maps(K, S) == UNION {[D -> S] : D \in SUBSET K}

RightBatches(c) ==
  {b \in [pa : Maps(STRING, AdType), pas : Maps(STRING, AdType), component : Maps(STRING, STRING),
          requests : Seq(AdType)] : BatchIsRight(c, b)}

(* Emplace makes a map with one more key, unless it had the key. *)
LEMMA EmplaceAddsKey ==
  ASSUME NEW K, NEW S, NEW map \in Maps(K, S), NEW key \in K, NEW value \in S
  PROVE  /\ Emplace(map, key, value) \in Maps(K, S)
         /\ \A k : k \in DOMAIN Emplace(map, key, value) <=> k \in DOMAIN map \/ k = key
         /\ \A k \in DOMAIN map : Emplace(map, key, value)[k] = map[k]
         /\ key \notin DOMAIN map => Emplace(map, key, value)[key] = value
<1>1. PICK D \in SUBSET K : map \in [D -> S]
  BY DEF Maps
<1>2. D \cup {key} \in SUBSET K /\ DOMAIN map = D
  BY <1>1
<1>3. Emplace(map, key, value) = [k \in D \cup {key} |-> IF k \in D THEN map[k] ELSE value]
  BY <1>2 DEF Emplace
<1>4. Emplace(map, key, value) \in [D \cup {key} -> S]
  BY <1>1, <1>3
<1> QED
  BY <1>2, <1>3, <1>4 DEF Maps

(* The batch to start with. *)
LEMMA NoBatchIsRight ==
  ASSUME NEW c
  PROVE  NoBatch \in RightBatches(c)
<1>1. ASSUME NEW K, NEW S PROVE <<>> \in Maps(K, S)
  <2>1. <<>> \in [{} -> S]
    OBVIOUS
  <2> QED
    BY <2>1 DEF Maps
<1>2. NoBatch \in [pa : Maps(STRING, AdType), pas : Maps(STRING, AdType), component : Maps(STRING, STRING),
                   requests : Seq(AdType)]
  BY <1>1 DEF NoBatch
<1>3. BatchIsRight(c, NoBatch)
  BY DEF NoBatch, BatchIsRight
<1> QED
  BY <1>2, <1>3 DEF RightBatches

(* What may be inserted: a component's winner only with its seller kept, a   *)
(* ghost only where k-anonymity is enforced.                                 *)
MayInsert(c, b, ad) ==
  c.scope = "topLevel" =>
    IF ad.kanon THEN ad.render \in DOMAIN b.component /\ b.component[ad.render] = ad.seller
    ELSE c.enforceKAnon

LEMMA InsertKeepsRight ==
  ASSUME NEW c, NEW b \in RightBatches(c), NEW ad \in AdType, MayInsert(c, b, ad)
  PROVE  InsertAd(b, ad) \in RightBatches(c)
<1> DEFINE had == ad.render \in DOMAIN (IF ad.pas THEN b.pas ELSE b.pa)
<1>1. CASE had
  BY <1>1 DEF InsertAd
<1>2. CASE ~had
  <2>1. PICK new, pa, pas :
          /\ pa = IF ad.pas THEN b.pa ELSE Emplace(b.pa, ad.render, ad)
          /\ pas = IF ad.pas THEN Emplace(b.pas, ad.render, ad) ELSE b.pas
          /\ new = [pa |-> pa, pas |-> pas, component |-> b.component,
                    requests |-> Append(b.requests, ad)]
    OBVIOUS
  <2>2. InsertAd(b, ad) = new
    BY <1>2, <2>1 DEF InsertAd
  <2>3. /\ b.pa \in Maps(STRING, AdType) /\ b.pas \in Maps(STRING, AdType)
        /\ b.component \in Maps(STRING, STRING) /\ b.requests \in Seq(AdType)
        /\ BatchIsRight(c, b)
    BY DEF RightBatches
  <2>4. ad.render \in STRING /\ ad.pas \in BOOLEAN
    BY DEF AdType
  <2>5. /\ pa \in Maps(STRING, AdType) /\ \A r \in DOMAIN b.pa : r \in DOMAIN pa /\ pa[r] = b.pa[r]
        /\ \A r \in DOMAIN pa : r \in DOMAIN b.pa \/ (r = ad.render /\ pa[r] = ad /\ ~ad.pas)
        /\ ~ad.pas => ad.render \in DOMAIN pa /\ pa[ad.render] = ad
    <3>1. CASE ad.pas
      BY <2>1, <2>3, <3>1
    <3>2. CASE ~ad.pas
      <4>1. pa = Emplace(b.pa, ad.render, ad) /\ ad.render \notin DOMAIN b.pa
        BY <1>2, <2>1, <3>2
      <4>2. pa \in Maps(STRING, AdType)
        BY <2>3, <2>4, <4>1, EmplaceAddsKey
      <4>3. \A k : k \in DOMAIN pa <=> k \in DOMAIN b.pa \/ k = ad.render
        BY <2>3, <2>4, <4>1, EmplaceAddsKey
      <4>4. \A k \in DOMAIN b.pa : pa[k] = b.pa[k]
        BY <2>3, <2>4, <4>1, EmplaceAddsKey
      <4>5. pa[ad.render] = ad
        BY <2>3, <2>4, <4>1, EmplaceAddsKey
      <4> QED
        BY <4>2, <4>3, <4>4, <4>5, <3>2
    <3> QED
      BY <3>1, <3>2
  <2>6. /\ pas \in Maps(STRING, AdType) /\ \A r \in DOMAIN b.pas : r \in DOMAIN pas /\ pas[r] = b.pas[r]
        /\ \A r \in DOMAIN pas : r \in DOMAIN b.pas \/ (r = ad.render /\ pas[r] = ad /\ ad.pas)
        /\ ad.pas => ad.render \in DOMAIN pas /\ pas[ad.render] = ad
    <3>1. CASE ~ad.pas
      BY <2>1, <2>3, <3>1
    <3>2. CASE ad.pas
      <4>1. pas = Emplace(b.pas, ad.render, ad) /\ ad.render \notin DOMAIN b.pas
        BY <1>2, <2>1, <3>2
      <4>2. pas \in Maps(STRING, AdType)
        BY <2>3, <2>4, <4>1, EmplaceAddsKey
      <4>3. \A k : k \in DOMAIN pas <=> k \in DOMAIN b.pas \/ k = ad.render
        BY <2>3, <2>4, <4>1, EmplaceAddsKey
      <4>4. \A k \in DOMAIN b.pas : pas[k] = b.pas[k]
        BY <2>3, <2>4, <4>1, EmplaceAddsKey
      <4>5. pas[ad.render] = ad
        BY <2>3, <2>4, <4>1, EmplaceAddsKey
      <4> QED
        BY <4>2, <4>3, <4>4, <4>5, <3>2
    <3> QED
      BY <3>1, <3>2
  <2>7. /\ new.pa = pa /\ new.pas = pas /\ new.component = b.component
        /\ new.requests = Append(b.requests, ad) /\ new.requests \in Seq(AdType)
        /\ new \in [pa : Maps(STRING, AdType), pas : Maps(STRING, AdType), component : Maps(STRING, STRING),
                    requests : Seq(AdType)]
    BY <2>1, <2>3, <2>5, <2>6
  <2>8. \A r \in DOMAIN pa : pa[r] \in AdType /\ pa[r].render = r /\ ~pa[r].pas
    BY <2>3, <2>5 DEF BatchIsRight
  <2>9. \A r \in DOMAIN pas : pas[r] \in AdType /\ pas[r].render = r /\ pas[r].pas
    BY <2>3, <2>6 DEF BatchIsRight
  <2>10. ASSUME NEW i \in DOMAIN new.requests, NEW map,
                map = IF new.requests[i].pas THEN pas ELSE pa
         PROVE  /\ new.requests[i].render \in DOMAIN map
                /\ map[new.requests[i].render] = new.requests[i]
    <3>1. CASE i \in DOMAIN b.requests
      <4>1. new.requests[i] = b.requests[i]
        BY <2>3, <2>7, <3>1
      <4>2. CASE b.requests[i].pas
        BY <2>3, <2>6, <2>10, <3>1, <4>1, <4>2 DEF BatchIsRight
      <4>3. CASE ~b.requests[i].pas
        BY <2>3, <2>5, <2>10, <3>1, <4>1, <4>3 DEF BatchIsRight
      <4> QED
        BY <4>2, <4>3
    <3>2. CASE i \notin DOMAIN b.requests
      <4>1. new.requests[i] = ad
        BY <2>3, <2>7, <3>2
      <4> QED
        BY <4>1, <2>4, <2>5, <2>6, <2>10
    <3> QED
      BY <3>1, <3>2
  <2>11. ASSUME c.scope = "topLevel", NEW map \in {pa, pas}, NEW r \in DOMAIN map
         PROVE  IF map[r].kanon THEN r \in DOMAIN b.component /\ b.component[r] = map[r].seller
                ELSE c.enforceKAnon
    BY <2>3, <2>5, <2>6, <2>11 DEF BatchIsRight, MayInsert
  <2>12. BatchIsRight(c, new)
    BY <2>7, <2>8, <2>9, <2>10, <2>11 DEF BatchIsRight
  <2> QED
    BY <2>2, <2>7, <2>12 DEF RightBatches
<1> QED
  BY <1>1, <1>2

(* An ad of a component auction is scored as what it is there: a ghost, or   *)
(* the winner, whose seller is kept.                                         *)
LEMMA ComponentResultKeepsRight ==
  ASSUME NEW c, NEW b \in RightBatches(c), NEW ad \in AdType
  PROVE  AddComponentResult(c, b, ad) \in RightBatches(c)
<1>1. CASE ad.seller = "none" \/ (ad.ghost /\ ~c.enforceKAnon)
  BY <1>1 DEF AddComponentResult
<1>2. CASE ~(ad.seller = "none" \/ (ad.ghost /\ ~c.enforceKAnon)) /\ ad.ghost
  <2>1. PICK new : new = [ad EXCEPT !.kanon = FALSE, !.pas = FALSE]
    OBVIOUS
  <2>2. new \in AdType /\ ~new.kanon
    BY <2>1 DEF AdType
  <2>3. MayInsert(c, b, new)
    BY <1>2, <2>2 DEF MayInsert
  <2>4. AddComponentResult(c, b, ad) = InsertAd(b, new)
    BY <1>2, <2>1 DEF AddComponentResult, BuildScoreAdRequestForComponentGhostWinner
  <2> QED
    BY <2>2, <2>3, <2>4, InsertKeepsRight
<1>3. CASE ~(ad.seller = "none" \/ (ad.ghost /\ ~c.enforceKAnon)) /\ ~ad.ghost
  <2>1. CASE ad.render \in DOMAIN b.component
    BY <1>3, <2>1 DEF AddComponentResult, BuildScoreAdRequestForComponentWinner
  <2>2. CASE ad.render \notin DOMAIN b.component
    <3>1. PICK new, map, d :
            /\ new = [ad EXCEPT !.kanon = TRUE]
            /\ map = Emplace(b.component, ad.render, ad.seller)
            /\ d = [b EXCEPT !.component = map]
      OBVIOUS
    <3>2. new \in AdType /\ new.kanon /\ new.render = ad.render /\ new.seller = ad.seller
      BY <3>1 DEF AdType
    <3>3. AddComponentResult(c, b, ad) = InsertAd(d, new)
      BY <1>3, <2>2, <3>1 DEF AddComponentResult, BuildScoreAdRequestForComponentWinner
    <3>4. /\ b \in [pa : Maps(STRING, AdType), pas : Maps(STRING, AdType),
                    component : Maps(STRING, STRING), requests : Seq(AdType)]
          /\ b.component \in Maps(STRING, STRING) /\ BatchIsRight(c, b)
          /\ ad.render \in STRING /\ ad.seller \in STRING
      BY DEF RightBatches, AdType
    <3>5. map \in Maps(STRING, STRING)
      BY <3>1, <3>4, EmplaceAddsKey
    <3>6. \A k : k \in DOMAIN map <=> k \in DOMAIN b.component \/ k = ad.render
      BY <3>1, <3>4, EmplaceAddsKey
    <3>7. \A k \in DOMAIN b.component : map[k] = b.component[k]
      BY <3>1, <3>4, EmplaceAddsKey
    <3>8. map[ad.render] = ad.seller
      BY <2>2, <3>1, <3>4, EmplaceAddsKey
    <3>9. /\ d \in [pa : Maps(STRING, AdType), pas : Maps(STRING, AdType),
                    component : Maps(STRING, STRING), requests : Seq(AdType)]
          /\ d.pa = b.pa /\ d.pas = b.pas /\ d.requests = b.requests /\ d.component = map
      BY <3>1, <3>4, <3>5
    <3>10. BatchIsRight(c, d)
      BY <3>4, <3>6, <3>7, <3>9 DEF BatchIsRight
    <3>11. d \in RightBatches(c)
      BY <3>9, <3>10 DEF RightBatches
    <3>12. MayInsert(c, d, new)
      BY <3>2, <3>6, <3>8, <3>9 DEF MayInsert
    <3> QED
      BY <3>2, <3>3, <3>11, <3>12, InsertKeepsRight
  <2> QED
    BY <2>1, <2>2
<1> QED
  BY <1>1, <1>2, <1>3

(* So does an ad of an auction that is not the top level. *)
LEMMA AdKeepsRight ==
  ASSUME NEW c, c.scope # "topLevel", NEW b \in RightBatches(c), NEW ads, NEW ad \in AdType, NEW pas
  PROVE  AddAd(c, b, ads, ad, pas) \in RightBatches(c)
<1>1. AddAd(c, b, ads, ad, pas) = b \/ AddAd(c, b, ads, ad, pas) = InsertAd(b, ad)
  BY DEF AddAd
<1>2. MayInsert(c, b, ad)
  BY DEF MayInsert
<1> QED
  BY <1>1, <1>2, InsertKeepsRight

(* The batch of a top-level auction. *)
LEMMA TopLevelBatchIsRight ==
  ASSUME NEW c, NEW ads \in Seq(AdType)
  PROVE  PopulateTopLevelAuctionDispatchRequests(c, ads) \in RightBatches(c)
<1>1. PICK N \in Nat : N = Len(ads)
  OBVIOUS
<1>a. PICK V : V = RightBatches(c)
  OBVIOUS
<1>2. PICK G : G = [p \in (1 .. N) \X V |-> AddComponentResult(c, p[2], ads[p[1]])]
  OBVIOUS
<1>3. ASSUME NEW i \in 1 .. N, NEW b \in V
      PROVE  G[<<i, b>>] = AddComponentResult(c, b, ads[i])
  <2>2. <<i, b>> \in (1 .. N) \X V
    OBVIOUS
  <2> QED
    BY <1>2, <2>2
<1>4. G \in Turns(N, V)
  <2>1. ASSUME NEW p \in (1 .. N) \X V PROVE AddComponentResult(c, p[2], ads[p[1]]) \in V
    BY <1>1, <1>a, ComponentResultKeepsRight
  <2> QED
    BY <1>2, <2>1 DEF Turns
<1>5. NoBatch \in V
  BY <1>1, <1>a, NoBatchIsRight
<1> DEFINE Step(f) == [i \in 0 .. N |-> IF i = 0 THEN NoBatch
                                        ELSE AddComponentResult(c, f[i - 1], ads[i])]
<1>6. \E f : f = Step(f)
  <2>1. PICK f \in [0 .. N -> V] : f[0] = NoBatch /\ \A i \in 1 .. N : f[i] = G[<<i, f[i - 1]>>]
    BY <1>4, <1>5, Loop, SMTT(30)
  <2>2. ASSUME NEW i \in 1 .. N PROVE f[i] = AddComponentResult(c, f[i - 1], ads[i])
    <3>1. f[i - 1] \in V
      BY <2>1
    <3> QED
      BY <1>3, <2>1, <3>1
  <2>3. f = [i \in 0 .. N |-> f[i]]
    BY <2>1
  <2>4. \A i \in 0 .. N : f[i] = IF i = 0 THEN NoBatch
                                 ELSE AddComponentResult(c, f[i - 1], ads[i])
    BY <2>1, <2>2
  <2>5. f = Step(f)
    BY <2>3, <2>4
  <2> QED
    BY <2>5
<1>7. PICK f : f = CHOOSE g : g = Step(g)
  OBVIOUS
<1>8. f = Step(f)
  BY <1>6, <1>7
<1>9. PopulateTopLevelAuctionDispatchRequests(c, ads) = f[N]
  BY <1>1, <1>a, <1>7 DEF PopulateTopLevelAuctionDispatchRequests
<1>10. f[0] \in V /\ \A i \in 1 .. N : f[i - 1] \in V => f[i] = G[<<i, f[i - 1]>>]
  <2>1. f[0] \in V
    BY <1>5, <1>8
  <2>2. ASSUME NEW i \in 1 .. N, f[i - 1] \in V PROVE f[i] = G[<<i, f[i - 1]>>]
    <3>1. f[i] = AddComponentResult(c, f[i - 1], ads[i])
      BY <1>8
    <3> QED
      BY <1>3, <2>2, <3>1
  <2> QED
    BY <2>1, <2>2
<1>11. f[N] \in V
  BY <1>4, <1>10, LoopStays
<1> QED
  BY <1>1, <1>a, <1>9, <1>11

(* The batch of another auction: one loop for each kind of ads. *)
LEMMA DispatchBatchIsRight ==
  ASSUME NEW c, c.scope # "topLevel", NEW first \in RightBatches(c), NEW ads \in Seq(AdType), NEW pas
  PROVE  PopulateDispatchRequests(c, first, ads, pas) \in RightBatches(c)
<1>1. PICK N \in Nat : N = Len(ads)
  OBVIOUS
<1>a. PICK V : V = RightBatches(c)
  OBVIOUS
<1>2. PICK G : G = [p \in (1 .. N) \X V |-> AddAd(c, p[2], ads, ads[N + 1 - p[1]], pas)]
  OBVIOUS
<1>3. ASSUME NEW i \in 1 .. N, NEW b \in V
      PROVE  G[<<i, b>>] = AddAd(c, b, ads, ads[N + 1 - i], pas)
  <2>2. <<i, b>> \in (1 .. N) \X V
    OBVIOUS
  <2> QED
    BY <1>2, <2>2
<1>4. G \in Turns(N, V)
  <2>1. ASSUME NEW p \in (1 .. N) \X V PROVE AddAd(c, p[2], ads, ads[N + 1 - p[1]], pas) \in V
    <3>1. ads[N + 1 - p[1]] \in AdType /\ p[2] \in RightBatches(c)
      BY <1>1, <1>a
    <3> QED
      BY <1>1, <1>a, <3>1, AdKeepsRight
  <2> QED
    BY <1>2, <2>1 DEF Turns
<1>5. first \in V
  BY <1>1, <1>a
<1> DEFINE Step(f) == [i \in 0 .. N |-> IF i = 0 THEN first
                                        ELSE AddAd(c, f[i - 1], ads, ads[N + 1 - i], pas)]
<1>6. \E f : f = Step(f)
  <2>1. PICK f \in [0 .. N -> V] : f[0] = first /\ \A i \in 1 .. N : f[i] = G[<<i, f[i - 1]>>]
    BY <1>4, <1>5, Loop, SMTT(30)
  <2>2. ASSUME NEW i \in 1 .. N PROVE f[i] = AddAd(c, f[i - 1], ads, ads[N + 1 - i], pas)
    <3>1. f[i - 1] \in V
      BY <2>1
    <3> QED
      BY <1>3, <2>1, <3>1
  <2>3. f = [i \in 0 .. N |-> f[i]]
    BY <2>1
  <2>4. \A i \in 0 .. N : f[i] = IF i = 0 THEN first
                                 ELSE AddAd(c, f[i - 1], ads, ads[N + 1 - i], pas)
    BY <2>1, <2>2
  <2>5. f = Step(f)
    BY <2>3, <2>4
  <2> QED
    BY <2>5
<1>7. PICK f : f = CHOOSE g : g = Step(g)
  OBVIOUS
<1>8. f = Step(f)
  BY <1>6, <1>7
<1>9. PopulateDispatchRequests(c, first, ads, pas) = f[N]
  BY <1>1, <1>a, <1>7 DEF PopulateDispatchRequests
<1>10. f[0] \in V /\ \A i \in 1 .. N : f[i - 1] \in V => f[i] = G[<<i, f[i - 1]>>]
  <2>1. f[0] \in V
    BY <1>5, <1>8
  <2>2. ASSUME NEW i \in 1 .. N, f[i - 1] \in V PROVE f[i] = G[<<i, f[i - 1]>>]
    <3>1. f[i] = AddAd(c, f[i - 1], ads, ads[N + 1 - i], pas)
      BY <1>8
    <3> QED
      BY <1>3, <2>2, <3>1
  <2> QED
    BY <2>1, <2>2
<1>11. f[N] \in V
  BY <1>4, <1>10, LoopStays
<1> QED
  BY <1>1, <1>a, <1>9, <1>11

(* A request without ads adds nothing to the batch. *)
LEMMA EmptyRequest ==
  ASSUME NEW c, NEW b, NEW pas
  PROVE  PopulateDispatchRequests(c, b, <<>>, pas) = b
<1> DEFINE Step(f) == [i \in 0 .. Len(<<>>) |->
                         IF i = 0 THEN b
                         ELSE AddAd(c, f[i - 1], <<>>, <<>>[Len(<<>>) + 1 - i], pas)]
<1>1. \E f : f = Step(f)
  <2>1. PICK f : f = [i \in 0 .. 0 |-> b]
    OBVIOUS
  <2>2. f = Step(f)
    BY <2>1
  <2> QED
    BY <2>2
<1>2. PICK f : f = CHOOSE g : g = Step(g)
  OBVIOUS
<1>3. f = Step(f)
  BY <1>1, <1>2
<1>4. f[0] = b /\ Len(<<>>) = 0
  BY <1>3
<1>5. PopulateDispatchRequests(c, b, <<>>, pas) = f[Len(<<>>)]
  BY <1>2 DEF PopulateDispatchRequests
<1> QED
  BY <1>4, <1>5

-----------------------------------------------------------------------------
(* The debug URLs. *)

(* The URLs of s are what the limits leave of those of r when total          *)
(* characters were counted before.                                           *)
UrlsOf(s, r, total) ==
  /\ s.win = GetDebugUrlIfInLimit(r.win, total)
  /\ s.loss = GetDebugUrlIfInLimit(r.loss, total + s.win)

(* What is taken of the URLs of one response is within what is left. *)
LEMMA UrlsFit ==
  ASSUME NEW c, NEW ad, NEW r \in OutputType, NEW total \in Nat, NEW s,
         s = ScoreAdResponseJsonToProto(c, ad, r, total)
  PROVE  /\ DebugReportUrlsLength(s) \in Nat
         /\ DebugReportUrlsLength(s) = 0 \/ total + DebugReportUrlsLength(s) <= MaxAllUrlChars
         /\ DebugReportUrlsLength(CheckAndUpdateModifiedBid(c, s)) = DebugReportUrlsLength(s)
         /\ UrlsOf(CheckAndUpdateModifiedBid(c, s), r, total)
<1>1. PICK win, loss : /\ win = GetDebugUrlIfInLimit(r.win, total)
                       /\ loss = GetDebugUrlIfInLimit(r.loss, total + win)
  OBVIOUS
<1>2. s.win = win /\ s.loss = loss /\ {"win", "loss"} \subseteq DOMAIN s
  BY <1>1 DEF ScoreAdResponseJsonToProto
<1>3. r.win \in Nat /\ r.loss \in Nat /\ MaxAllUrlChars \in Nat
  BY UrlLimits DEF OutputType
<1>4. win \in Nat /\ (win = 0 \/ total + win <= MaxAllUrlChars)
  BY <1>1, <1>3 DEF GetDebugUrlIfInLimit
<1>5. loss \in Nat /\ (loss = 0 \/ total + win + loss <= MaxAllUrlChars)
  BY <1>1, <1>3, <1>4 DEF GetDebugUrlIfInLimit
<1>6. /\ DebugReportUrlsLength(s) \in Nat
      /\ DebugReportUrlsLength(s) = 0 \/ total + DebugReportUrlsLength(s) <= MaxAllUrlChars
  BY <1>2, <1>4, <1>5 DEF DebugReportUrlsLength
<1>7. PICK t : t = CheckAndUpdateModifiedBid(c, s)
  OBVIOUS
<1>8. t = s \/ t = [s EXCEPT !.bid = s.ad.bid, !.cur = s.ad.cur]
  BY <1>7 DEF CheckAndUpdateModifiedBid
<1>9. t.win = s.win /\ t.loss = s.loss
  BY <1>2, <1>8
<1> QED
  BY <1>1, <1>2, <1>6, <1>7, <1>9 DEF DebugReportUrlsLength, UrlsOf

(* The running total after response i, when it was x before. *)
Counted(c, ads, rs, i, x) ==
  IF ~rs[i].ok THEN x
  ELSE x + 2 * DebugReportUrlsLength(ScoreAdResponseJsonToProto(c, ads[i], rs[i], x))

CountsUp(chars, c, ads, rs, n) ==
  /\ chars[0] = 0 /\ \A i \in 0 .. n : chars[i] \in Nat
  /\ \A i \in 1 .. n : chars[i] = Counted(c, ads, rs, i, chars[i - 1])

(* The running total of the callback is defined by its turns. *)
LEMMA RunningTotal ==
  ASSUME NEW c, NEW ads, NEW n \in Nat, NEW rs \in [1 .. n -> OutputType],
         NEW chars, chars = DebugUrlChars(c, ads, rs)
  PROVE  CountsUp(chars, c, ads, rs, n)
<1> DEFINE Turn(i, x) == Counted(c, ads, rs, i, x)
           Step(f) == [i \in 0 .. n |-> IF i = 0 THEN 0 ELSE Turn(i, f[i - 1])]
<1>1. Len(rs) = n
  OBVIOUS
<1>2. ASSUME NEW i \in 1 .. n, NEW x \in Nat PROVE Turn(i, x) \in Nat
  <2>1. PICK len : len = DebugReportUrlsLength(ScoreAdResponseJsonToProto(c, ads[i], rs[i], x))
    OBVIOUS
  <2>2. len \in Nat
    BY <2>1, UrlsFit
  <2>3. Turn(i, x) = IF ~rs[i].ok THEN x ELSE x + 2 * len
    BY <2>1 DEF Counted
  <2> HIDE DEF Turn
  <2> QED
    BY <2>2, <2>3
<1>3. DebugUrlChars(c, ads, rs) = CHOOSE g : g = Step(g)
  <2>1. DebugUrlChars(c, ads, rs) =
          CHOOSE g : g = [i \in 0 .. Len(rs) |->
            IF i = 0 THEN 0
            ELSE IF ~rs[i].ok THEN g[i - 1]
            ELSE g[i - 1] + 2 * DebugReportUrlsLength(
                   ScoreAdResponseJsonToProto(c, ads[i], rs[i], g[i - 1]))]
    BY Zenon DEF DebugUrlChars
  <2> QED
    BY <1>1, <2>1 DEF Counted
<1> HIDE DEF Turn
<1>4. PICK G : G = [p \in (1 .. n) \X Nat |-> Turn(p[1], p[2])]
  OBVIOUS
<1>5. ASSUME NEW i \in 1 .. n, NEW x \in Nat PROVE G[<<i, x>>] = Turn(i, x)
  <2>1. <<i, x>> \in (1 .. n) \X Nat
    OBVIOUS
  <2> QED
    BY <1>4, <2>1
<1>6. G \in Turns(n, Nat)
  BY <1>2, <1>4 DEF Turns
<1>7. \E f : f = Step(f)
  <2>0. PICK V, z : V = Nat /\ z = 0
    OBVIOUS
  <2>a. z \in V /\ G \in Turns(n, V)
    BY <1>6, <2>0
  <2>b. PICK f \in [0 .. n -> V] : f[0] = z /\ \A i \in 1 .. n : f[i] = G[<<i, f[i - 1]>>]
    BY <2>a, Loop
  <2>1. /\ f \in [0 .. n -> Nat]
        /\ f[0] = 0 /\ \A i \in 1 .. n : f[i] = G[<<i, f[i - 1]>>]
    BY <2>0, <2>b
  <2>2. ASSUME NEW i \in 1 .. n PROVE f[i] = Turn(i, f[i - 1])
    <3>1. f[i - 1] \in Nat
      BY <2>1
    <3> QED
      BY <1>5, <2>1, <3>1
  <2>3. f = [i \in 0 .. n |-> f[i]]
    BY <2>1
  <2>4. \A i \in 0 .. n : f[i] = IF i = 0 THEN 0 ELSE Turn(i, f[i - 1])
    BY <2>1, <2>2
  <2>5. f = Step(f)
    BY <2>3, <2>4
  <2> QED
    BY <2>5
<1>8. chars = Step(chars)
  BY <1>3, <1>7
<1>9. chars[0] = 0 /\ \A i \in 1 .. n : chars[i] = Turn(i, chars[i - 1])
  BY <1>8
<1>10. \A i \in 1 .. n : chars[i - 1] \in Nat => chars[i] = G[<<i, chars[i - 1]>>]
  BY <1>5, <1>9
<1>11. \A i \in 0 .. n : chars[i] \in Nat
  <2>1. PICK V : V = Nat
    OBVIOUS
  <2>2. /\ G \in Turns(n, V) /\ chars[0] \in V
        /\ \A i \in 1 .. n : chars[i - 1] \in V => chars[i] = G[<<i, chars[i - 1]>>]
    BY <1>6, <1>9, <1>10, <2>1
  <2>3. \A i \in 0 .. n : chars[i] \in V
    BY <2>2, LoopStays
  <2> QED
    BY <2>1, <2>3
<1> QED
  BY <1>9, <1>11 DEF Turn, CountsUp

(* The sum of lengths is what its recursive definition says. *)
LEMMA KeptIsTheSum ==
  ASSUME NEW scored, NEW n \in Nat,
         \A i \in 1 .. n : UrlChars(scored, i) \in Nat
  PROVE  \E kept \in [0 .. n -> Nat] :
           /\ UrlCharsKept(scored, n) = kept[n] /\ kept[0] = 0
           /\ \A i \in 1 .. n : kept[i] = kept[i - 1] + UrlChars(scored, i)
<1> DEFINE len(i) == UrlChars(scored, i)
           Step(f) == [i \in 0 .. n |-> IF i = 0 THEN 0 ELSE f[i - 1] + len(i)]
<1>1. \A i \in 1 .. n : len(i) \in Nat
  OBVIOUS
<1>2. PICK kept : kept = CHOOSE f : f = Step(f)
  OBVIOUS
<1>3. UrlCharsKept(scored, n) = kept[n]
  BY <1>2, Zenon DEF UrlCharsKept
<1> HIDE DEF len
<1>4. PICK V, z : V = Nat /\ z = 0
  OBVIOUS
<1>5. PICK G : G = [p \in (1 .. n) \X V |-> p[2] + len(p[1])]
  OBVIOUS
<1>6. G \in Turns(n, V) /\ z \in V
  BY <1>1, <1>4, <1>5 DEF Turns
<1>7. ASSUME NEW i \in 1 .. n, NEW x \in V PROVE G[<<i, x>>] = x + len(i)
  <2>1. <<i, x>> \in (1 .. n) \X V
    OBVIOUS
  <2> QED
    BY <1>5, <2>1
<1>8. \E f : f = Step(f)
  <2>1. PICK f \in [0 .. n -> V] : f[0] = z /\ \A i \in 1 .. n : f[i] = G[<<i, f[i - 1]>>]
    BY <1>6, Loop
  <2>2. ASSUME NEW i \in 1 .. n PROVE f[i] = f[i - 1] + len(i)
    <3>1. f[i - 1] \in V
      BY <2>1
    <3> QED
      BY <1>7, <2>1, <3>1
  <2>3. f = [i \in 0 .. n |-> f[i]]
    BY <2>1
  <2>4. \A i \in 0 .. n : f[i] = IF i = 0 THEN 0 ELSE f[i - 1] + len(i)
    BY <1>4, <2>1, <2>2
  <2>5. f = Step(f)
    BY <2>3, <2>4
  <2> QED
    BY <2>5
<1>9. kept = Step(kept)
  BY <1>2, <1>8
<1>10. /\ kept = [i \in 0 .. n |-> kept[i]] /\ kept[0] = 0
       /\ \A i \in 1 .. n : kept[i] = kept[i - 1] + len(i)
  BY <1>9, SMTT(30)
<1>11. kept[0] \in V /\ \A i \in 1 .. n : kept[i - 1] \in V => kept[i] = G[<<i, kept[i - 1]>>]
  <2>1. kept[0] \in V
    BY <1>4, <1>10
  <2>2. ASSUME NEW i \in 1 .. n, kept[i - 1] \in V PROVE kept[i] = G[<<i, kept[i - 1]>>]
    <3>1. kept[i] = kept[i - 1] + len(i)
      BY <1>10
    <3> QED
      BY <1>7, <2>2, <3>1
  <2> QED
    BY <2>1, <2>2
<1>12. \A i \in 0 .. n : kept[i] \in V
  BY <1>6, <1>11, LoopStays
<1>13. kept \in [0 .. n -> Nat]
  BY <1>4, <1>10, <1>12
<1> QED
  BY <1>3, <1>10, <1>13 DEF len

(* What is taken up of the first m responses stays within the limit, and was *)
(* counted twice.                                                            *)
LEMMA UrlsOfSomeFit ==
  ASSUME NEW c, NEW ads, NEW n \in Nat, NEW rs \in [1 .. n -> OutputType],
         NEW scored, scored = CollectValidRomaResponses(c, ads, rs), NEW m \in 0 .. n
  PROVE  /\ UrlCharsKept(scored, m) <= MaxAllUrlChars
         /\ \A i \in DOMAIN scored :
              i = m + 1 => UrlsOf(scored[i], rs[i], 2 * UrlCharsKept(scored, m))
<1>1. PICK chars : chars = DebugUrlChars(c, ads, rs)
  OBVIOUS
<1>2. /\ chars[0] = 0 /\ \A i \in 0 .. n : chars[i] \in Nat
      /\ \A i \in 1 .. n : chars[i] = Counted(c, ads, rs, i, chars[i - 1])
  <2>1. CountsUp(chars, c, ads, rs, n)
    BY <1>1, RunningTotal
  <2> QED
    BY <2>1 DEF CountsUp
<1>3. /\ DOMAIN scored = {j \in 1 .. n : rs[j].ok}
      /\ \A i \in DOMAIN scored : scored[i] = CheckAndUpdateModifiedBid(c,
           ScoreAdResponseJsonToProto(c, ads[i], rs[i], chars[i - 1]))
  BY <1>1 DEF CollectValidRomaResponses
<1>4. ASSUME NEW i \in DOMAIN scored
      PROVE  /\ DebugReportUrlsLength(scored[i]) \in Nat
             /\ chars[i] = chars[i - 1] + 2 * DebugReportUrlsLength(scored[i])
             /\ \/ DebugReportUrlsLength(scored[i]) = 0
                \/ chars[i - 1] + DebugReportUrlsLength(scored[i]) <= MaxAllUrlChars
             /\ UrlsOf(scored[i], rs[i], chars[i - 1])
  <2>1. PICK s : s = ScoreAdResponseJsonToProto(c, ads[i], rs[i], chars[i - 1])
    OBVIOUS
  <2>2. i \in 1 .. n /\ rs[i] \in OutputType /\ chars[i - 1] \in Nat /\ rs[i].ok
    BY <1>2, <1>3
  <2>3. scored[i] = CheckAndUpdateModifiedBid(c, s)
    BY <1>3, <2>1
  <2>4. /\ DebugReportUrlsLength(s) \in Nat
        /\ DebugReportUrlsLength(s) = 0
             \/ chars[i - 1] + DebugReportUrlsLength(s) <= MaxAllUrlChars
        /\ DebugReportUrlsLength(CheckAndUpdateModifiedBid(c, s)) = DebugReportUrlsLength(s)
        /\ UrlsOf(CheckAndUpdateModifiedBid(c, s), rs[i], chars[i - 1])
    BY <2>1, <2>2, UrlsFit
  <2>5. chars[i] = chars[i - 1] + 2 * DebugReportUrlsLength(s)
    BY <1>2, <2>1, <2>2 DEF Counted
  <2> QED
    BY <2>3, <2>4, <2>5
<1>5. ASSUME NEW i \in 1 .. n, i \notin DOMAIN scored PROVE chars[i] = chars[i - 1]
  BY <1>2, <1>3, <1>5 DEF Counted
<1>a. \A i \in 1 .. m : UrlChars(scored, i) \in Nat
  BY <1>4 DEF UrlChars
<1>b. m \in Nat /\ m <= n
  OBVIOUS
<1>6. PICK kept \in [0 .. m -> Nat] :
        /\ UrlCharsKept(scored, m) = kept[m] /\ kept[0] = 0
        /\ \A i \in 1 .. m : kept[i] = kept[i - 1] + UrlChars(scored, i)
  BY <1>a, <1>b, KeptIsTheSum
<1> DEFINE S == {k \in Nat : k <= m => chars[k] = 2 * kept[k] /\ kept[k] <= MaxAllUrlChars}
<1>7. 0 \in S
  BY <1>2, <1>6, UrlLimits
<1>8. ASSUME NEW k \in Nat, k \in S PROVE k + 1 \in S
  <2>1. SUFFICES ASSUME k + 1 <= m
                 PROVE  chars[k + 1] = 2 * kept[k + 1] /\ kept[k + 1] <= MaxAllUrlChars
    OBVIOUS
  <2>2. PICK i \in 1 .. m : i = k + 1
    BY <2>1
  <2>3. /\ i - 1 = k /\ chars[k] = 2 * kept[k] /\ kept[k] <= MaxAllUrlChars
        /\ kept[k] \in Nat /\ MaxAllUrlChars \in Nat
    BY <1>6, <1>8, <2>1, <2>2, UrlLimits
  <2>4. CASE i \in DOMAIN scored
    <3>1. PICK len : len = DebugReportUrlsLength(scored[i])
      OBVIOUS
    <3>2. /\ len \in Nat /\ chars[i] = chars[k] + 2 * len
          /\ len = 0 \/ chars[k] + len <= MaxAllUrlChars
      BY <1>4, <2>3, <2>4, <3>1
    <3>3. kept[i] = kept[k] + len
      BY <1>6, <2>3, <2>4, <3>1 DEF UrlChars
    <3>4. chars[i] = 2 * kept[i] /\ kept[i] <= MaxAllUrlChars
      <4>1. PICK x, y : x = chars[k] /\ y = kept[k]
        OBVIOUS
      <4>2. /\ x = 2 * y /\ y \in Nat /\ y <= MaxAllUrlChars /\ MaxAllUrlChars \in Nat
            /\ len \in Nat /\ (len = 0 \/ x + len <= MaxAllUrlChars)
        BY <2>3, <3>2, <4>1
      <4>3. x + 2 * len = 2 * (y + len) /\ y + len <= MaxAllUrlChars
        BY <4>2
      <4> QED
        BY <3>2, <3>3, <4>1, <4>3
    <3> QED
      BY <2>2, <3>4
  <2>5. CASE i \notin DOMAIN scored
    <3>1. kept[i] = kept[k] + 0
      BY <1>6, <2>3, <2>5 DEF UrlChars
    <3> QED
      BY <1>5, <2>2, <2>3, <2>5, <3>1
  <2> QED
    BY <2>4, <2>5
<1>9. m \in S
  <2> HIDE DEF S
  <2> QED
    BY <1>b, <1>7, <1>8, SetInduction
<1>10. /\ UrlCharsKept(scored, m) <= MaxAllUrlChars
       /\ chars[m] = 2 * UrlCharsKept(scored, m)
  BY <1>6, <1>9
<1>11. ASSUME NEW i \in DOMAIN scored, i = m + 1
       PROVE  UrlsOf(scored[i], rs[i], 2 * UrlCharsKept(scored, m))
  <2>1. UrlsOf(scored[i], rs[i], chars[i - 1]) /\ i - 1 = m
    BY <1>4, <1>11
  <2> QED
    BY <1>10, <2>1
<1> QED
  BY <1>10, <1>11

(* The URLs of the callback's ads are right. *)
LEMMA AllUrlsFit ==
  ASSUME NEW c, NEW ads, NEW n \in Nat, NEW rs \in [1 .. n -> OutputType],
         NEW scored, scored = CollectValidRomaResponses(c, ads, rs)
  PROVE  /\ UrlCharsKept(scored, n) <= MaxAllUrlChars
         /\ \A i \in DOMAIN scored :
              UrlsOf(scored[i], rs[i], 2 * UrlCharsKept(scored, i - 1))
<1>1. UrlCharsKept(scored, n) <= MaxAllUrlChars
  BY UrlsOfSomeFit
<1>2. DOMAIN scored \subseteq 1 .. n
  BY DEF CollectValidRomaResponses
<1>3. ASSUME NEW i \in DOMAIN scored
      PROVE  UrlsOf(scored[i], rs[i], 2 * UrlCharsKept(scored, i - 1))
  <2>1. PICK m \in 0 .. n : m = i - 1 /\ i = m + 1
    BY <1>2
  <2> QED
    BY <2>1, UrlsOfSomeFit
<1> QED
  BY <1>1, <1>3

(* Nothing is kept of no responses. *)
LEMMA NothingKept ==
  ASSUME NEW n \in Nat
  PROVE  UrlCharsKept(<<>>, n) <= MaxAllUrlChars
<1>1. PICK none : none = <<>> /\ DOMAIN none = {}
  OBVIOUS
<1>2. PICK kept \in [0 .. n -> Nat] :
        /\ UrlCharsKept(none, n) = kept[n] /\ kept[0] = 0
        /\ \A i \in 1 .. n : kept[i] = kept[i - 1] + UrlChars(none, i)
  <2>1. \A i \in 1 .. n : UrlChars(none, i) \in Nat
    BY <1>1 DEF UrlChars
  <2> QED
    BY <2>1, KeptIsTheSum
<1> DEFINE S == {k \in Nat : k <= n => kept[k] = 0}
<1>3. 0 \in S
  BY <1>2
<1>4. ASSUME NEW k \in Nat, k \in S PROVE k + 1 \in S
  <2>1. SUFFICES ASSUME k + 1 <= n PROVE kept[k + 1] = 0
    OBVIOUS
  <2>2. PICK i \in 1 .. n : i = k + 1
    BY <2>1
  <2>3. kept[i] = kept[i - 1] + 0
    BY <1>1, <1>2 DEF UrlChars
  <2> QED
    BY <1>4, <2>1, <2>2, <2>3
<1>5. n \in S
  <2> HIDE DEF S
  <2> QED
    BY <1>3, <1>4, SetInduction
<1> QED
  BY <1>1, <1>2, <1>5, UrlLimits

-----------------------------------------------------------------------------
(* The call. *)

Callbacks == {"score", "won", "report", "reportResult", "reportWin"}

(* What concerns the call with gRPC alone. *)
CallPart ==
  /\ cancelled \in BOOLEAN /\ readable \in BOOLEAN /\ bound \in BOOLEAN /\ deleted \in BOOLEAN
  /\ stage \in Callbacks \cup {"construct", "execute", "encryptFailed", "none", "crashed"}
  /\ CallInOrder

(* The sequences of statuses there are. *)
LEMMA OneStatus ==
  ASSUME NEW S, NEW st \in S, NEW q, q = <<st>>
  PROVE  q \in Seq(S) /\ Len(q) = 1 /\ q # <<>>
OBVIOUS

LEMMA TwoStatuses ==
  ASSUME NEW S, NEW s \in S, NEW t \in S, NEW q, q = <<s, t>>
  PROVE  q \in Seq(S) /\ Len(q) = 2 /\ q # <<>> /\ q[1] = s /\ q = Append(<<s>>, t)
OBVIOUS

LEMMA CallIsSafe ==
  ASSUME CallPart
  PROVE  FinishAtMostOnce /\ DispatchTypeOK
<1>1. /\ finish \in Seq(Statuses) /\ (bound \/ (finish = <<>> /\ ~deleted))
      /\ finish # <<>> \/ ~deleted
  BY DEF CallPart, CallInOrder
<1>2. CASE stage \in Callbacks \cup {"construct", "execute", "crashed"}
  <2>1. finish = <<>>
    BY <1>1, <1>2 DEF CallPart, CallInOrder, Callbacks
  <2> QED
    BY <1>1, <2>1 DEF FinishAtMostOnce, DispatchTypeOK, CallPart
<1>3. CASE stage \in {"encryptFailed", "none"}
  <2>1. CASE ~bound
    BY <1>1, <2>1 DEF FinishAtMostOnce, DispatchTypeOK, CallPart
  <2>2. CASE bound /\ stage = "none"
    <3>1. finish = <<"INTERNAL", "OK">> \/ Len(finish) = 1
      BY <2>2 DEF CallPart, CallInOrder
    <3>2. CASE Len(finish) = 1
      BY <2>2, <3>2 DEF FinishAtMostOnce, DispatchTypeOK, CallPart
    <3>3. CASE finish = <<"INTERNAL", "OK">>
      <4>1. Len(finish) = 2 /\ finish[1] = "INTERNAL"
        BY <3>3
      <4> QED
        BY <2>2, <4>1 DEF FinishAtMostOnce, DispatchTypeOK, CallPart
    <3> QED
      BY <3>1, <3>2, <3>3
  <2>3. CASE bound /\ stage = "encryptFailed"
    <3>1. finish = <<"INTERNAL">>
      BY <2>3 DEF CallPart, CallInOrder
    <3> QED
      BY <1>1, <2>3, <3>1 DEF FinishAtMostOnce, DispatchTypeOK, CallPart
  <2> QED
    BY <1>3, <2>1, <2>2, <2>3
<1> QED
  BY <1>2, <1>3 DEF CallPart

(* A callback, or Execute, ends the call with a status. *)
LEMMA FinishKeepsCall ==
  ASSUME CallPart, stage \in Callbacks \cup {"execute"}, NEW st \in Statuses,
         FinishWithStatus(st), UNCHANGED <<cancelled, readable, deleted>>
  PROVE  CallPart' /\ stage' = "none"
<1>1. stage' = "none" /\ Finish(st)
  BY DEF FinishWithStatus
<1>2. finish = <<>> /\ ~deleted
  BY DEF CallPart, CallInOrder, Callbacks
<1>3. CASE bound
  <2>1. finish' = <<st>> /\ bound' = bound /\ backlog' = backlog
    BY <1>1, <1>2, <1>3 DEF Finish
  <2>2. finish' \in Seq(Statuses) /\ Len(finish') = 1 /\ finish' # <<>>
    BY <2>1
  <2> QED
    BY <1>1, <1>2, <1>3, <2>1, <2>2 DEF CallPart, CallInOrder
<1>4. CASE ~bound
  <2>1. finish' = finish /\ bound' = bound /\ backlog' = st
    BY <1>1, <1>4 DEF Finish
  <2> QED
    BY <1>1, <1>2, <1>4, <2>1 DEF CallPart, CallInOrder, Statuses
<1> QED
  BY <1>3, <1>4

(* A callback ends the call with an answer, which may fail to be encrypted. *)
LEMMA EncryptKeepsCall ==
  ASSUME CallPart, stage \in Callbacks, EncryptAndFinishOK,
         UNCHANGED <<cancelled, readable, deleted>>
  PROVE  CallPart' /\ stage' \in {"none", "encryptFailed"}
<1>1. CASE FinishWithStatus("OK")
  <2>1. PICK st \in Statuses : st = "OK"
    BY DEF Statuses
  <2>2. FinishWithStatus(st)
    BY <1>1, <2>1
  <2> QED
    BY <2>1, <2>2, FinishKeepsCall
<1>2. CASE Finish("INTERNAL") /\ stage' = "encryptFailed"
  <2>1. finish = <<>> /\ ~deleted
    BY DEF CallPart, CallInOrder, Callbacks
  <2>2. CASE bound
    <3>1. finish' = <<"INTERNAL">> /\ bound' = bound /\ backlog' = backlog
      BY <1>2, <2>1, <2>2 DEF Finish
    <3>2. finish' \in Seq(Statuses) /\ finish' # <<>>
      BY <3>1, OneStatus DEF Statuses
    <3> QED
      BY <1>2, <2>1, <2>2, <3>1, <3>2 DEF CallPart, CallInOrder
  <2>3. CASE ~bound
    <3>1. finish' = finish /\ bound' = bound /\ backlog' = "INTERNAL"
      BY <1>2, <2>3 DEF Finish
    <3> QED
      BY <1>2, <2>1, <2>3, <3>1 DEF CallPart, CallInOrder, Statuses
  <2> QED
    BY <2>2, <2>3
<1> QED
  BY <1>1, <1>2 DEF EncryptAndFinishOK

(* A callback starts the next one, or the server aborts. *)
LEMMA DispatchKeepsCall ==
  ASSUME CallPart, stage \in Callbacks, stage' \in Callbacks \cup {"crashed"},
         UNCHANGED <<callVars, cancelled, readable, deleted>>
  PROVE  CallPart'
BY DEF CallPart, CallInOrder, Callbacks, callVars

(* What the reactors share. *)
LEMMA SharedKeepsCall ==
  ASSUME CallPart, DecryptRequest \/ FinishAfterFailedEncryption \/ Bind \/ OnDone
  PROVE  CallPart'
<1>1. CASE DecryptRequest
  <2>1. /\ stage = "construct" /\ stage' = "execute" /\ ~bound /\ finish = <<>> /\ backlog = "none"
        /\ cancelled' = cancelled /\ deleted' = deleted /\ ~deleted
    BY <1>1 DEF DecryptRequest, CallPart, CallInOrder
  <2>2. readable' \in BOOLEAN /\ finish' = finish /\ bound' = bound
    BY <1>1, <2>1 DEF DecryptRequest, Finish, callVars
  <2>3. backlog' \in Statuses \cup {"none"} /\ (readable' => backlog' = "none")
    BY <1>1, <2>1 DEF DecryptRequest, Finish, callVars, Statuses
  <2> QED
    BY <2>1, <2>2, <2>3 DEF CallPart, CallInOrder, Callbacks
<1>2. CASE FinishAfterFailedEncryption
  <2>1. /\ stage = "encryptFailed" /\ stage' = "none" /\ Finish("OK")
        /\ cancelled' = cancelled /\ deleted' = deleted /\ readable' = readable
    BY <1>2 DEF FinishAfterFailedEncryption, FinishWithStatus
  <2>2. CASE bound
    <3>1. finish = <<"INTERNAL">> /\ finish' = Append(finish, "OK") /\ bound' = bound /\ backlog' = backlog
      BY <2>1, <2>2 DEF Finish, CallPart, CallInOrder
    <3>2. PICK i \in Statuses, o \in Statuses : i = "INTERNAL" /\ o = "OK"
      BY DEF Statuses
    <3>a. finish' = <<i, o>>
      BY <3>1, <3>2, TwoStatuses, ZenonT(40)
    <3>3. finish' \in Seq(Statuses) /\ finish' # <<>>
      BY <3>a, TwoStatuses
    <3>b. finish' = <<"INTERNAL", "OK">>
      BY <3>a, <3>2
    <3> QED
      BY <2>1, <2>2, <3>1, <3>b, <3>3 DEF CallPart, CallInOrder
  <2>3. CASE ~bound
    <3>1. finish' = finish /\ bound' = bound /\ backlog' = "OK"
      BY <2>1, <2>3 DEF Finish
    <3> QED
      BY <2>1, <2>3, <3>1 DEF CallPart, CallInOrder, Statuses
  <2> QED
    BY <2>2, <2>3
<1>3. CASE Bind
  <2>1. /\ stage \notin {"construct", "execute", "crashed"} /\ ~bound /\ bound' = TRUE
        /\ finish' = (IF backlog = "none" THEN <<>> ELSE <<backlog>>) /\ backlog' = backlog
        /\ cancelled' = cancelled /\ deleted' = deleted /\ readable' = readable /\ stage' = stage
    BY <1>3 DEF Bind
  <2>2. backlog \in Statuses \cup {"none"} /\ ~deleted
    BY <2>1 DEF CallPart, CallInOrder
  <2>3. CASE backlog = "none"
    <3>1. finish' = <<>> /\ finish' \in Seq(Statuses)
      BY <2>1, <2>3
    <3>2. stage \in Callbacks
      BY <2>1, <2>3 DEF CallPart, CallInOrder
    <3> QED
      BY <2>1, <2>2, <2>3, <3>1, <3>2 DEF CallPart, CallInOrder, Callbacks
  <2>4. CASE backlog # "none"
    <3>1. finish' = <<backlog>>
      BY <2>1, <2>4
    <3>2. finish' \in Seq(Statuses) /\ Len(finish') = 1 /\ finish' # <<>>
      BY <2>2, <2>4, <3>1, OneStatus
    <3>3. stage \in {"encryptFailed", "none"} /\ (stage = "encryptFailed" => backlog = "INTERNAL")
      BY <2>1, <2>4 DEF CallPart, CallInOrder, Callbacks
    <3> QED
      BY <2>1, <2>2, <2>4, <3>1, <3>2, <3>3 DEF CallPart, CallInOrder
  <2> QED
    BY <2>3, <2>4
<1>4. CASE OnDone
  BY <1>4 DEF OnDone, callVars, CallPart, CallInOrder
<1> QED
  BY <1>1, <1>2, <1>3, <1>4

-----------------------------------------------------------------------------
(* The parts of the invariant. *)

ScoredAreFound ==
  \A i \in DOMAIN auction.scored :
    i \in DOMAIN requests /\ auction.scored[i].ad = FindScoredAdType(requests[i].render)

(* What concerns the batch and the auction. *)
AuctionPart ==
  /\ conf \in Configs /\ BatchIsRight(conf, Batch) /\ auction.winner \in 0 .. Len(requests)
  /\ ScoreGoesToItsAd /\ WinnerIsBest /\ GhostsBeatWinner
  /\ OtherBidsAreOthers /\ DebugUrlsWithinLimits /\ ScoredAreFound

(* How far the call is, and what there is then. *)
StagePart ==
  /\ CrashIsExplained
  /\ stage \in {"construct", "execute", "score"} => auction = NoAuction /\ responses = <<>>
  /\ stage \in {"construct", "execute", "score", "won"} => reply = NoReply
  /\ stage \in {"won", "report", "reportResult", "reportWin"} => auction.winner # 0
  /\ stage = "reportWin" => conf.scope # "topLevel"

(* What is reported. *)
ReplyPart ==
  /\ DOMAIN reply = DOMAIN NoReply
  /\ WinPingsAreTheWinners /\ ComponentUrlsAreTheWinners /\ BuyerInputHidesSeller

LEMMA PartsMakeInv ==
  ASSUME CallPart, AuctionPart, StagePart, ReplyPart
  PROVE  Inv
<1>1. FinishAtMostOnce /\ DispatchTypeOK
  BY CallIsSafe
<1>2. TypeOK
  BY <1>1 DEF TypeOK, CallPart, AuctionPart, ReplyPart, Callbacks
<1>3. ScoreAdsLifeCycle
  BY <1>1, <1>2 DEF ScoreAdsLifeCycle, StagePart
<1>4. WinnersAreRight /\ ReportsAreTheWinners
  BY DEF WinnersAreRight, ReportsAreTheWinners, AuctionPart, ReplyPart
<1>5. AuctionIsOfTheBatch
  BY DEF AuctionIsOfTheBatch, StagePart, AuctionPart, ScoredAreFound
<1> QED
  BY <1>3, <1>4, <1>5 DEF Inv, CallPart, AuctionPart

auctionVars == <<conf, adData, pasData, component, requests, responses, auction>>

(* An action that leaves batch and auction alone. *)
LEMMA AuctionStays ==
  ASSUME AuctionPart, UNCHANGED auctionVars, stage = "crashed" => stage' = "crashed"
  PROVE  AuctionPart'
<1>1. /\ conf' = conf /\ adData' = adData /\ pasData' = pasData /\ component' = component
      /\ requests' = requests /\ responses' = responses /\ auction' = auction
  BY DEF auctionVars
<1>2. (conf \in Configs)' /\ (auction.winner \in 0 .. Len(requests))'
  BY <1>1 DEF AuctionPart
<1>3. BatchIsRight(conf, Batch)'
  <2>1. BatchIsRight(conf', Batch')
    BY <1>1 DEF AuctionPart, Batch
  <2> QED
    BY <2>1
<1>4. ScoreGoesToItsAd'
  BY <1>1 DEF AuctionPart, ScoreGoesToItsAd
<1>5. WinnerIsBest'
  BY <1>1 DEF AuctionPart, WinnerIsBest
<1>6. GhostsBeatWinner'
  BY <1>1 DEF AuctionPart, GhostsBeatWinner
<1>7. OtherBidsAreOthers'
  BY <1>1 DEF AuctionPart, OtherBidsAreOthers
<1>8. DebugUrlsWithinLimits'
  BY <1>1 DEF AuctionPart, DebugUrlsWithinLimits
<1>9. ScoredAreFound'
  BY <1>1 DEF AuctionPart, ScoredAreFound, FindScoredAdType
<1> QED
  BY <1>2, <1>3, <1>4, <1>5, <1>6, <1>7, <1>8, <1>9 DEF AuctionPart

(* The ad that is found for a request: the one dispatched, or a protected    *)
(* audience ad with the URL of the app signals ad dispatched.                *)
LEMMA FoundAd ==
  ASSUME BatchIsRight(conf, Batch), NEW i \in DOMAIN requests, NEW ad,
         ad = FindScoredAdType(requests[i].render)
  PROVE  /\ ad \in AdType /\ ad.render = requests[i].render
         /\ ad # requests[i] => requests[i].pas
         /\ conf.scope = "topLevel" =>
              IF ad.kanon THEN ad.render \in DOMAIN component /\ component[ad.render] = ad.seller
              ELSE conf.enforceKAnon
<1>1. PICK r : r = requests[i].render
  OBVIOUS
<1>2. /\ Batch.pa = adData /\ Batch.pas = pasData /\ Batch.component = component
      /\ Batch.requests = requests
  BY DEF Batch
<1>3. requests[i] \in AdType
  BY <1>2 DEF BatchIsRight
<1>4. IF requests[i].pas THEN r \in DOMAIN pasData /\ pasData[r] = requests[i]
      ELSE r \in DOMAIN adData /\ adData[r] = requests[i]
  BY <1>1, <1>2 DEF BatchIsRight
<1>5. \/ r \in DOMAIN adData /\ ad = adData[r]
      \/ r \in DOMAIN pasData /\ ad = pasData[r] /\ r \notin DOMAIN adData
  BY <1>1, <1>4 DEF FindScoredAdType
<1>6. ad \in AdType /\ ad.render = r
  BY <1>2, <1>5 DEF BatchIsRight
<1>7. ad # requests[i] => requests[i].pas
  BY <1>4, <1>5
<1>8. conf.scope = "topLevel" =>
        IF ad.kanon THEN r \in DOMAIN component /\ component[r] = ad.seller
        ELSE conf.enforceKAnon
  BY <1>2, <1>5 DEF BatchIsRight
<1> QED
  BY <1>1, <1>6, <1>7, <1>8

LEMMA InitHasParts ==
  ASSUME Init
  PROVE  CallPart /\ AuctionPart /\ StagePart /\ ReplyPart
<1>1. /\ conf \in Configs /\ requests = <<>> /\ responses = <<>> /\ auction = NoAuction
      /\ reply = NoReply /\ stage = "construct"
  BY DEF Init, DispatchInit
<1>2. CallPart
  <2>1. /\ finish = <<>> /\ finish \in Seq(Statuses) /\ backlog = "none"
        /\ cancelled = FALSE /\ readable = TRUE /\ bound = FALSE /\ deleted = FALSE
    BY DEF Init, DispatchInit
  <2> QED
    BY <1>1, <2>1 DEF CallPart, CallInOrder
<1>3. BatchIsRight(conf, Batch)
  <2>1. Batch = NoBatch
    BY DEF Init, Batch, NoBatch
  <2> QED
    BY <2>1, NoBatchIsRight DEF RightBatches
<1>4. auction.winner \in 0 .. Len(requests) /\ auction.scored = <<>> /\ auction.ghosts = {}
      /\ auction.others = {} /\ auction.winner = 0
  BY <1>1 DEF NoAuction
<1>5. ScoreGoesToItsAd /\ WinnerIsBest /\ GhostsBeatWinner /\ OtherBidsAreOthers /\ ScoredAreFound
  BY <1>1, <1>4 DEF ScoreGoesToItsAd, WinnerIsBest, GhostsBeatWinner, OtherBidsAreOthers, ScoredAreFound
<1>6. DebugUrlsWithinLimits
  <2>1. Len(requests) \in Nat
    BY <1>1
  <2> QED
    BY <1>4, <2>1, NothingKept DEF DebugUrlsWithinLimits
<1>7. AuctionPart
  BY <1>1, <1>3, <1>4, <1>5, <1>6 DEF AuctionPart
<1>8. StagePart
  BY <1>1 DEF StagePart, CrashIsExplained
<1>9. ReplyPart
  BY <1>1 DEF ReplyPart, NoReply, WinPingsAreTheWinners, ComponentUrlsAreTheWinners, BuyerInputHidesSeller
<1> QED
  BY <1>2, <1>7, <1>8, <1>9

(* The batch of Execute. *)
LEMMA ExecuteBatch ==
  ASSUME conf \in Configs, readable \in BOOLEAN, NEW ads, NEW batch,
         ads = IF readable THEN conf.ads ELSE <<>>,
         batch = IF readable /\ conf.scope = "topLevel"
                 THEN PopulateTopLevelAuctionDispatchRequests(conf, ads)
                 ELSE MayPopulateProtectedAppSignalsDispatchRequests(conf,
                        PopulateProtectedAudienceDispatchRequests(conf, NoBatch, ads), ads)
  PROVE  batch \in RightBatches(conf) /\ (~readable => batch.requests = <<>>)
<1>1. conf.ads \in Seq(AdType)
  BY ScoreAdsAssumption DEF ConfigTypeOK
<1>2. CASE readable /\ conf.scope = "topLevel"
  BY <1>1, <1>2, TopLevelBatchIsRight
<1>3. CASE readable /\ conf.scope # "topLevel"
  <2>1. PICK b : b = PopulateDispatchRequests(conf, NoBatch, ads, FALSE)
    OBVIOUS
  <2>2. b \in RightBatches(conf)
    BY <1>1, <1>3, <2>1, NoBatchIsRight, DispatchBatchIsRight
  <2>3. batch = b \/ batch = PopulateDispatchRequests(conf, b, ads, TRUE)
    BY <1>3, <2>1 DEF MayPopulateProtectedAppSignalsDispatchRequests,
                      PopulateProtectedAudienceDispatchRequests
  <2>4. PopulateDispatchRequests(conf, b, ads, TRUE) \in RightBatches(conf)
    BY <1>1, <1>3, <2>2, DispatchBatchIsRight
  <2> QED
    BY <1>3, <2>2, <2>3, <2>4
<1>4. CASE ~readable
  <2>1. batch = NoBatch
    BY <1>4, EmptyRequest DEF MayPopulateProtectedAppSignalsDispatchRequests,
                              PopulateProtectedAudienceDispatchRequests
  <2>2. batch.requests = <<>>
    BY <2>1 DEF NoBatch
  <2> QED
    BY <2>1, <2>2, NoBatchIsRight
<1> QED
  BY <1>2, <1>3, <1>4

LEMMA ExecuteKeepsParts ==
  ASSUME CallPart, AuctionPart, StagePart, ReplyPart, Execute
  PROVE  CallPart' /\ AuctionPart' /\ StagePart' /\ ReplyPart'
<1>1. PICK ads : ads = IF readable THEN conf.ads ELSE <<>>
  OBVIOUS
<1>2. PICK batch : batch = IF readable /\ conf.scope = "topLevel"
                 THEN PopulateTopLevelAuctionDispatchRequests(conf, ads)
                 ELSE MayPopulateProtectedAppSignalsDispatchRequests(conf,
                        PopulateProtectedAudienceDispatchRequests(conf, NoBatch, ads), ads)
  OBVIOUS
<1>3. /\ stage = "execute"
      /\ \/ \E st \in {"CANCELLED", "INVALID_ARGUMENT", "INTERNAL", "UNKNOWN"} : FinishWithStatus(st)
         \/ batch.requests # <<>> /\ stage' = "score" /\ UNCHANGED callVars
      /\ adData' = batch.pa /\ pasData' = batch.pas
      /\ component' = batch.component /\ requests' = batch.requests
      /\ conf' = conf /\ cancelled' = cancelled /\ readable' = readable /\ deleted' = deleted
      /\ responses' = responses /\ auction' = auction /\ reply' = reply
  BY <1>1, <1>2 DEF Execute
<1>4. conf \in Configs /\ readable \in BOOLEAN
  BY DEF AuctionPart, CallPart
<1>5. batch \in RightBatches(conf) /\ (~readable => batch.requests = <<>>)
  BY <1>1, <1>2, <1>4, ExecuteBatch
<1>6. CallPart' /\ stage' \in {"none", "score"}
  <2>1. CASE \E st \in {"CANCELLED", "INVALID_ARGUMENT", "INTERNAL", "UNKNOWN"} : FinishWithStatus(st)
    <3>1. PICK st \in Statuses : FinishWithStatus(st)
      BY <2>1 DEF Statuses
    <3>2. UNCHANGED <<cancelled, readable, deleted>> /\ stage \in Callbacks \cup {"execute"}
      BY <1>3
    <3> QED
      BY <3>1, <3>2, FinishKeepsCall
  <2>2. CASE batch.requests # <<>> /\ stage' = "score" /\ UNCHANGED callVars
    <3>1. readable
      BY <1>4, <1>5, <2>2
    <3> QED
      BY <1>3, <2>2, <3>1 DEF CallPart, CallInOrder, callVars, Callbacks
  <2> QED
    BY <1>3, <2>1, <2>2
<1>7. /\ auction = NoAuction /\ responses = <<>> /\ reply = NoReply
  BY <1>3 DEF StagePart
<1>8. StagePart'
  BY <1>3, <1>6, <1>7 DEF StagePart, CrashIsExplained
<1>9. BatchIsRight(conf, Batch)'
  <2>1. BatchIsRight(conf, batch)
    BY <1>5 DEF RightBatches
  <2>2. BatchIsRight(conf', Batch')
    BY <1>3, <2>1 DEF BatchIsRight, Batch
  <2> QED
    BY <2>2
<1>10. /\ auction'.scored = <<>> /\ auction'.ghosts = {} /\ auction'.others = {}
       /\ auction'.winner = 0 /\ responses' = <<>> /\ Len(requests') \in Nat
  <2>1. requests' \in Seq(AdType)
    BY <1>3, <1>5 DEF RightBatches
  <2> QED
    BY <1>3, <1>7, <2>1 DEF NoAuction
<1>11. /\ ScoreGoesToItsAd' /\ WinnerIsBest' /\ GhostsBeatWinner' /\ OtherBidsAreOthers'
       /\ ScoredAreFound'
  BY <1>10 DEF ScoreGoesToItsAd, WinnerIsBest, GhostsBeatWinner, OtherBidsAreOthers, ScoredAreFound
<1>12. DebugUrlsWithinLimits'
  BY <1>10, NothingKept DEF DebugUrlsWithinLimits
<1>13. AuctionPart'
  BY <1>3, <1>4, <1>9, <1>10, <1>11, <1>12 DEF AuctionPart
<1>14. ReplyPart'
  BY <1>3, <1>7 DEF ReplyPart, NoReply, WinPingsAreTheWinners, ComponentUrlsAreTheWinners,
                    BuyerInputHidesSeller
<1> QED
  BY <1>6, <1>8, <1>13, <1>14

(* The order of the ads that are left is no longer than the batch. *)
LEMMA OrderIsShort ==
  ASSUME NEW n \in Nat, NEW scored, DOMAIN scored \subseteq 1 .. n,
         \A i \in DOMAIN scored : Comparable(scored[i]), NEW a \in FindWinningAd(scored)
  PROVE  DOMAIN a.order \subseteq 1 .. n
<1>1. PICK order \in SortedOrders(scored, Considered(conf, scored)) : a.order = order
  BY PicksFromAnOrder
<1>2. Considered(conf, scored) \in SUBSET DOMAIN scored
  BY DEF Considered
<1>3. PICK m \in 0 .. n : DOMAIN order = 1 .. m
  BY <1>1, <1>2, SortedOrdersAreRanked
<1> QED
  BY <1>1, <1>3

(* The pings of an auction are right about its winner. *)
LEMMA PingsAreRight ==
  ASSUME NEW a, NEW p \in PerformDebugReporting(a), p[2] = "win"
  PROVE  /\ a.winner # 0
         /\ a.scored[p[1]].ad.owner = a.scored[a.winner].ad.owner
         /\ IgName(a.scored[p[1]].ad) = IgName(a.scored[a.winner].ad)
<1> DEFINE Won(i) == /\ a.winner # 0
                     /\ a.scored[i].ad.owner = a.scored[a.winner].ad.owner
                     /\ IgName(a.scored[i].ad) = IgName(a.scored[a.winner].ad)
<1>1. \/ \E i \in DOMAIN a.scored : p = <<i, "win">> /\ Won(i)
      \/ \E i \in DOMAIN a.scored : p = <<i, "loss">>
  BY DEF PerformDebugReporting
<1>2. \A i : <<i, "loss">>[2] # "win" /\ <<i, "win">>[1] = i
  OBVIOUS
<1>3. PICK i \in DOMAIN a.scored : p = <<i, "win">> /\ Won(i)
  BY <1>1, <1>2
<1> QED
  BY <1>2, <1>3

(* What the callback of the batch decides. *)
AdIsScored(i, scored, rs) ==
  /\ scored[i].ad = FindScoredAdType(requests[i].render)
  /\ scored[i].ad \in AdType
  /\ scored[i].kanon = (~conf.enforceKAnon \/ scored[i].ad.kanon)
  /\ scored[i].allow = (IsComponentAuction(conf) /\ rs[i].allow)
  /\ Comparable(scored[i])

LEMMA CallbackDecides ==
  ASSUME conf \in Configs, BatchIsRight(conf, Batch),
         NEW rs \in [1 .. Len(requests) -> Outputs(conf)], NEW ads, NEW scored,
         ads = [i \in DOMAIN rs |-> FindScoredAdType(requests[i].render)],
         scored = CollectValidRomaResponses(conf, ads, rs), NEW n, n = Len(requests)
  PROVE  /\ n \in Nat /\ DOMAIN requests = 1 .. n /\ rs \in [1 .. n -> OutputType]
         /\ DOMAIN scored = {j \in 1 .. n : rs[j].ok}
         /\ \A i \in DOMAIN scored : AdIsScored(i, scored, rs)
<1>1. requests \in Seq(AdType)
  BY DEF BatchIsRight, Batch
<1>2. n \in Nat /\ DOMAIN requests = 1 .. n
  BY <1>1
<1>3. Outputs(conf) \subseteq OutputType /\ conf.enforceKAnon \in BOOLEAN
  BY ScoreAdsAssumption DEF ConfigTypeOK
<1>4. rs \in [1 .. n -> OutputType]
  BY <1>3
<1>5. /\ DOMAIN scored = {j \in DOMAIN rs : rs[j].ok}
      /\ \A i \in DOMAIN scored :
           /\ scored[i].ad = ads[i] /\ scored[i].score = rs[i].score
           /\ scored[i].kanon = (~conf.enforceKAnon \/ ads[i].kanon)
           /\ scored[i].allow = (IsComponentAuction(conf) /\ rs[i].allow)
  <2>1. TakenUp(scored, conf, ads, rs)
    BY ScoresAreTakenUp
  <2> QED
    BY <2>1 DEF TakenUp
<1>6. ASSUME NEW i \in DOMAIN scored
      PROVE  AdIsScored(i, scored, rs)
  <2>1. i \in DOMAIN rs /\ i \in 1 .. n
    BY <1>4, <1>5
  <2>2. scored[i].ad = FindScoredAdType(requests[i].render)
    BY <1>5, <2>1
  <2>3. scored[i].ad \in AdType
    BY <1>2, <2>1, <2>2, FoundAd
  <2>4. rs[i] \in OutputType
    BY <1>4, <2>1
  <2>5. scored[i].kanon = (~conf.enforceKAnon \/ scored[i].ad.kanon)
    BY <1>5
  <2>6. scored[i].ad.bid \in Nat /\ scored[i].ad.kanon \in BOOLEAN
    BY <2>3 DEF AdType
  <2>7. scored[i].score \in Int
    BY <1>5, <2>4 DEF OutputType
  <2>8. scored[i].kanon \in BOOLEAN
    BY <2>5, <2>6, <1>3
  <2> QED
    BY <1>5, <2>2, <2>3, <2>5, <2>6, <2>7, <2>8 DEF Comparable, AdIsScored
<1> QED
  BY <1>2, <1>4, <1>5, <1>6

LEMMA CallbackKeepsParts ==
  ASSUME CallPart, AuctionPart, StagePart, ReplyPart, ScoreAdsCallback
  PROVE  CallPart' /\ AuctionPart' /\ StagePart' /\ ReplyPart'
<1>1. PICK rs \in [1 .. Len(requests) -> Outputs(conf)] :
        \E scored \in {CollectValidRomaResponses(conf,
             [i \in DOMAIN rs |-> FindScoredAdType(requests[i].render)], rs)} :
        \E a \in FindWinningAd(scored) :
          /\ responses' = rs /\ auction' = a
          /\ \/ /\ a.winner = 0 /\ EncryptAndFinishOK
                /\ reply' = IF conf.debug
                            THEN [reply EXCEPT !.pings = PerformDebugReporting(a)]
                            ELSE reply
             \/ /\ a.winner # 0 /\ WinnerIdReadable(rs, a)
                /\ stage' = "won" /\ UNCHANGED <<callVars, reply>>
             \/ /\ a.winner # 0 /\ ~WinnerIdReadable(rs, a)
                /\ Crash /\ UNCHANGED reply
  BY DEF ScoreAdsCallback
<1>2. PICK ads : ads = [i \in DOMAIN rs |-> FindScoredAdType(requests[i].render)]
  OBVIOUS
<1>3. PICK scored : scored = CollectValidRomaResponses(conf, ads, rs)
  OBVIOUS
<1>4. PICK a \in FindWinningAd(scored) :
          /\ responses' = rs /\ auction' = a
          /\ \/ /\ a.winner = 0 /\ EncryptAndFinishOK
                /\ reply' = IF conf.debug
                            THEN [reply EXCEPT !.pings = PerformDebugReporting(a)]
                            ELSE reply
             \/ /\ a.winner # 0 /\ WinnerIdReadable(rs, a)
                /\ stage' = "won" /\ UNCHANGED <<callVars, reply>>
             \/ /\ a.winner # 0 /\ ~WinnerIdReadable(rs, a)
                /\ Crash /\ UNCHANGED reply
  BY <1>1, <1>2, <1>3
<1>5. /\ stage = "score" /\ stage \in Callbacks
      /\ conf' = conf /\ cancelled' = cancelled /\ readable' = readable /\ deleted' = deleted
      /\ adData' = adData /\ pasData' = pasData /\ component' = component /\ requests' = requests
      /\ UNCHANGED <<cancelled, readable, deleted>>
  BY DEF ScoreAdsCallback, Callbacks
<1>6. conf \in Configs /\ BatchIsRight(conf, Batch) /\ reply = NoReply
  BY <1>5 DEF AuctionPart, StagePart
<1>7. PICK n : n = Len(requests)
  OBVIOUS
<1>8. /\ n \in Nat /\ DOMAIN requests = 1 .. n /\ rs \in [1 .. n -> OutputType]
      /\ DOMAIN scored = {j \in 1 .. n : rs[j].ok}
  BY <1>2, <1>3, <1>6, <1>7, CallbackDecides
<1>9. \A i \in DOMAIN scored :
              /\ scored[i].ad = FindScoredAdType(requests[i].render)
              /\ scored[i].ad \in AdType
              /\ scored[i].kanon = (~conf.enforceKAnon \/ scored[i].ad.kanon)
              /\ scored[i].allow = (IsComponentAuction(conf) /\ rs[i].allow)
              /\ Comparable(scored[i])
  <2>1. \A i \in DOMAIN scored : AdIsScored(i, scored, rs)
    BY <1>2, <1>3, <1>6, <1>7, CallbackDecides
  <2> QED
    BY <2>1 DEF AdIsScored
<1>10. DOMAIN scored \subseteq 1 .. n /\ a.scored = scored
  BY <1>8, PicksFromAnOrder
<1>11. conf.maxGhosts \in Nat /\ conf.enforceKAnon \in BOOLEAN
  BY <1>6, ScoreAdsAssumption DEF ConfigTypeOK
<1>12. CallPart' /\ stage' \in {"none", "encryptFailed", "won", "crashed"}
  <2>1. CASE EncryptAndFinishOK
    BY <1>5, <2>1, EncryptKeepsCall
  <2>2. CASE stage' \in {"won", "crashed"} /\ UNCHANGED callVars
    BY <1>5, <2>2, DispatchKeepsCall DEF Callbacks
  <2> QED
    BY <1>4, <2>1, <2>2 DEF Crash
<1>13. a.winner \in 0 .. n /\ WinnerIsBest'
  <2>1. PICK best : best = {i \in Considered(conf, scored) : scored[i].score > 0 /\ scored[i].kanon}
    OBVIOUS
  <2>2. a.winner \in 0 .. n
    BY <1>8, <1>9, <1>10, <2>1, BestAdWins
  <2>3. IF a.winner = 0 THEN best = {}
        ELSE a.winner \in best /\ \A i \in best : scored[i].score <= scored[a.winner].score
    BY <1>8, <1>9, <1>10, <2>1, BestAdWins
  <2>4. best = {i \in DOMAIN scored :
                  /\ rs[i].ok /\ scored[i].score > 0 /\ ~Rejected(conf, scored[i])
                  /\ conf.enforceKAnon => scored[i].ad.kanon
                  /\ IsComponentAuction(conf) => rs[i].allow}
    BY <1>8, <1>9, <2>1 DEF Considered
  <2>5. responses' = rs /\ auction'.scored = scored /\ auction'.winner = a.winner /\ conf' = conf
    BY <1>4, <1>5, <1>10
  <2>6. WinnerIsBest'
    BY <2>3, <2>4, <2>5 DEF WinnerIsBest
  <2> QED
    BY <2>2, <2>6
<1>14. GhostsBeatWinner'
  <2>1. SUFFICES ASSUME NEW g \in a.ghosts
                 PROVE  /\ ~scored[g].ad.kanon /\ Cardinality(a.ghosts) <= conf.maxGhosts
                        /\ \A i \in ToSet(a.order) : scored[i].score <= scored[g].score
                        /\ a.winner # 0 =>
                             \/ scored[g].score > scored[a.winner].score
                             \/ \E v \in ToSet(a.order) :
                                  /\ scored[v].score = scored[a.winner].score
                                  /\ scored[v].kanon
                                  /\ scored[g].ad.bid > scored[v].ad.bid
    BY <1>4, <1>5, <1>10 DEF GhostsBeatWinner
  <2>2. g \in DOMAIN scored /\ ~scored[g].kanon
    BY <1>8, <1>9, <1>10, <1>11, GhostsAreBetter
  <2>3. Cardinality(a.ghosts) <= conf.maxGhosts
    BY <1>8, <1>9, <1>10, <1>11, GhostsAreBetter
  <2>4. \A i \in ToSet(a.order) : scored[i].score <= scored[g].score
    BY <1>8, <1>9, <1>10, <1>11, GhostsAreBetter
  <2>5. a.winner # 0 =>
              \/ scored[g].score > scored[a.winner].score
              \/ \E v \in ToSet(a.order) :
                   /\ scored[v].score = scored[a.winner].score /\ scored[v].kanon
                   /\ scored[g].ad.bid > scored[v].ad.bid
    BY <1>8, <1>9, <1>10, <1>11, GhostsAreBetter
  <2>6. ~scored[g].ad.kanon
    BY <1>9, <2>2
  <2> QED
    BY <2>3, <2>4, <2>5, <2>6
<1>15. OtherBidsAreOthers'
  <2>1. \A i \in a.others : i \notin a.cands \cup {a.winner} /\ ~Rejected(conf, scored[i])
    BY <1>8, <1>9, <1>10, OthersAreOthers
  <2> QED
    BY <1>4, <1>5, <1>10, <2>1 DEF OtherBidsAreOthers
<1>16. DebugUrlsWithinLimits'
  <2>1. /\ UrlCharsKept(scored, n) <= MaxAllUrlChars
        /\ \A i \in DOMAIN scored :
             UrlsOf(scored[i], rs[i], 2 * UrlCharsKept(scored, i - 1))
    BY <1>3, <1>7, <1>8, AllUrlsFit
  <2>2. auction'.scored = scored /\ responses' = rs /\ Len(requests') = n
    BY <1>4, <1>5, <1>7, <1>10
  <2> QED
    BY <2>1, <2>2 DEF DebugUrlsWithinLimits, UrlsOf
<1>17. ScoredAreFound'
  BY <1>4, <1>5, <1>8, <1>9, <1>10 DEF ScoredAreFound, FindScoredAdType
<1>18. ScoreGoesToItsAd'
  <2>1. ASSUME NEW i \in DOMAIN scored, scored[i].ad # requests[i]
        PROVE  scored[i].ad.render = requests[i].render /\ requests[i].pas
    <3>1. scored[i].ad = FindScoredAdType(requests[i].render) /\ i \in DOMAIN requests
      BY <1>8, <1>9
    <3> QED
      BY <1>6, <2>1, <3>1, FoundAd
  <2> QED
    BY <1>4, <1>5, <1>10, <2>1 DEF ScoreGoesToItsAd
<1>19. BatchIsRight(conf, Batch)'
  <2>1. conf' = conf /\ Batch' = Batch
    BY <1>5 DEF Batch
  <2>2. BatchIsRight(conf', Batch')
    BY <1>6, <2>1
  <2> QED
    BY <2>2
<1>20. AuctionPart'
  BY <1>4, <1>5, <1>6, <1>7, <1>13, <1>14, <1>15, <1>16, <1>17, <1>18, <1>19 DEF AuctionPart
<1>21. StagePart'
  <2>1. CrashIsExplained'
    <3>1. SUFFICES ASSUME stage' = "crashed" PROVE \E i \in DOMAIN rs : ~rs[i].ok
      BY <1>4 DEF CrashIsExplained
    <3>2. ~WinnerIdReadable(rs, a)
      BY <1>4, <1>5, <3>1, EncryptKeepsCall
    <3>3. PICK p \in DOMAIN a.order : ~rs[p].ok
      BY <3>2 DEF WinnerIdReadable
    <3>4. DOMAIN a.order \subseteq 1 .. n
      BY <1>8, <1>9, <1>10, OrderIsShort
    <3> QED
      BY <1>8, <3>3, <3>4
  <2>2. stage' = "won" => a.winner # 0 /\ reply' = reply
    BY <1>4, <1>5, EncryptKeepsCall DEF Crash
  <2> QED
    BY <1>4, <1>6, <1>12, <2>1, <2>2 DEF StagePart
<1>22. ReplyPart'
  <2>1. \/ reply' = reply
        \/ reply' = [reply EXCEPT !.pings = PerformDebugReporting(a)] /\ a.winner = 0
    BY <1>4
  <2>2. /\ reply'.seller = "none" /\ reply'.buyerInput = {}
        /\ \A p \in reply'.pings : p[2] # "win"
    <3>1. CASE reply' = reply
      BY <1>6, <3>1 DEF NoReply
    <3>2. CASE reply' = [reply EXCEPT !.pings = PerformDebugReporting(a)] /\ a.winner = 0
      <4>1. \A p \in PerformDebugReporting(a) : p[2] # "win"
        BY <3>2, PingsAreRight
      <4> QED
        BY <1>6, <3>2, <4>1 DEF NoReply
    <3> QED
      BY <2>1, <3>1, <3>2
  <2>3. DOMAIN reply' = DOMAIN NoReply
    BY <1>6, <2>1
  <2> QED
    BY <2>2, <2>3 DEF ReplyPart, WinPingsAreTheWinners, ComponentUrlsAreTheWinners,
                BuyerInputHidesSeller
<1> QED
  BY <1>12, <1>20, <1>21, <1>22

-----------------------------------------------------------------------------
(* Reporting. *)

(* The winner is one of the scored ads, and in a top-level auction its       *)
(* seller is the one kept for its id.                                        *)
LEMMA WinnersSellerIsKept ==
  ASSUME CallPart, AuctionPart, stage # "crashed", auction.winner # 0,
         conf.scope = "topLevel", WinnerAd.render \in DOMAIN component
  PROVE  component[WinnerAd.render] = WinnerAd.seller
<1>1. /\ auction.winner \in DOMAIN auction.scored
      /\ conf.enforceKAnon => auction.scored[auction.winner].ad.kanon
  BY DEF AuctionPart, WinnerIsBest
<1>2. /\ auction.winner \in DOMAIN requests
      /\ WinnerAd = FindScoredAdType(requests[auction.winner].render)
  BY <1>1 DEF AuctionPart, ScoredAreFound, WinnerAd
<1>3. IF WinnerAd.kanon THEN component[WinnerAd.render] = WinnerAd.seller
      ELSE conf.enforceKAnon
  BY <1>2, FoundAd DEF AuctionPart
<1> QED
  BY <1>1, <1>3 DEF WinnerAd

(* The same of any reply, for the auction there is. *)
ReplyIsRight(rep) ==
  /\ {"seller", "buyer", "pings", "buyerInput", "top", "contributions", "buyerOrigin"}
       = DOMAIN rep
  /\ \A p \in rep.pings : p[2] = "win" =>
       /\ auction.winner # 0
       /\ auction.scored[p[1]].ad.owner = WinnerAd.owner
       /\ IgName(auction.scored[p[1]].ad) = IgName(WinnerAd)
  /\ conf.scope = "topLevel" /\ rep.seller # "none" =>
       rep.seller = WinnerAd.seller /\ rep.buyer = WinnerAd.seller
  /\ rep.buyerInput \cap {"desirability", "modifiedBid", "sellerDataVersion"} = {}

LEMMA ReplyWasRight ==
  ASSUME ReplyPart
  PROVE  ReplyIsRight(reply)
BY DEF ReplyPart, ReplyIsRight, NoReply, WinPingsAreTheWinners, ComponentUrlsAreTheWinners,
       BuyerInputHidesSeller

LEMMA ReplyStaysRight ==
  ASSUME UNCHANGED auctionVars, ReplyIsRight(reply')
  PROVE  ReplyPart'
BY DEF auctionVars, ReplyPart, ReplyIsRight, NoReply, WinPingsAreTheWinners,
       ComponentUrlsAreTheWinners, BuyerInputHidesSeller, WinnerAd

(* The seller's URLs. *)
LEMMA SellerUrlsKeepReply ==
  ASSUME ReplyIsRight(reply)
  PROVE  ReplyIsRight(SetSellerReportingUrlsInResponse)
<1>1. PICK rep : rep = SetSellerReportingUrlsInResponse
  OBVIOUS
<1>2. DOMAIN rep = DOMAIN reply /\ rep.pings = reply.pings /\ rep.buyerInput = reply.buyerInput
      /\ rep.buyer = reply.buyer /\ (conf.scope = "topLevel" => rep.seller = reply.seller)
  BY <1>1 DEF SetSellerReportingUrlsInResponse, IsComponentAuction, ReplyIsRight
<1> QED
  BY <1>1, <1>2 DEF ReplyIsRight

LEMMA WonKeepsParts ==
  ASSUME CallPart, AuctionPart, StagePart, ReplyPart, DoWinAndDebugReporting
  PROVE  CallPart' /\ AuctionPart' /\ StagePart' /\ ReplyPart'
<1>1. PICK paid : paid = IF conf.pagg
              THEN [reply EXCEPT !.contributions =
                      PerformPrivateAggregationReporting(auction.id)]
              ELSE reply
  OBVIOUS
<1>2. PICK pinged : pinged = IF conf.debug
                THEN [paid EXCEPT !.pings = PerformDebugReporting(auction)]
                ELSE paid
  OBVIOUS
<1>3. /\ stage = "won" /\ stage \in Callbacks
      /\ reply' = PopulateComponentReportingUrlsInTopLevelResponse(pinged)
      /\ \/ EncryptAndFinishOK
         \/ conf.reportResult /\ conf.isolation /\ stage' = "reportResult" /\ UNCHANGED callVars
         \/ conf.reportResult /\ ~conf.isolation /\ PerformReporting
      /\ UNCHANGED <<cancelled, readable, deleted>>
      /\ UNCHANGED auctionVars
  BY <1>1, <1>2 DEF DoWinAndDebugReporting, PerformReportingWithSellerAndBuyerCodeIsolation,
                    auctionVars, Callbacks
<1>4. \/ EncryptAndFinishOK \/ FinishWithStatus("CANCELLED")
      \/ stage' \in {"report", "reportResult"} /\ UNCHANGED callVars
      \/ stage' = "crashed" /\ UNCHANGED callVars /\ conf.reportWin /\ ~conf.buyerSignals
  BY <1>3 DEF PerformReporting, DispatchReportingRequest, Crash, EnableReportWin
<1>5. /\ CallPart' /\ stage' \in {"none", "encryptFailed", "report", "reportResult", "crashed"}
      /\ stage' = "crashed" => conf.reportWin /\ ~conf.buyerSignals
  <2>1. CASE EncryptAndFinishOK
    BY <1>3, <2>1, EncryptKeepsCall
  <2>2. CASE FinishWithStatus("CANCELLED")
    <3>1. PICK st \in Statuses : FinishWithStatus(st)
      BY <2>2 DEF Statuses
    <3> QED
      BY <1>3, <3>1, FinishKeepsCall
  <2>3. CASE stage' \in {"report", "reportResult"} /\ UNCHANGED callVars
    BY <1>3, <2>3, DispatchKeepsCall DEF Callbacks
  <2>4. CASE stage' = "crashed" /\ UNCHANGED callVars /\ conf.reportWin /\ ~conf.buyerSignals
    BY <1>3, <2>4, DispatchKeepsCall
  <2> QED
    BY <1>4, <2>1, <2>2, <2>3, <2>4
<1>6. AuctionPart'
  BY <1>3, AuctionStays
<1>7. auction.winner # 0 /\ reply = NoReply
  BY <1>3 DEF StagePart
<1>8. StagePart'
  BY <1>3, <1>5, <1>7 DEF StagePart, CrashIsExplained, auctionVars
<1>9. ReplyIsRight(paid) /\ paid.seller = "none"
  <2>1. ReplyIsRight(reply) /\ reply.seller = "none"
    BY <1>7, ReplyWasRight DEF NoReply
  <2>2. /\ DOMAIN paid = DOMAIN reply /\ paid.pings = reply.pings
        /\ paid.buyerInput = reply.buyerInput
        /\ paid.buyer = reply.buyer /\ paid.seller = reply.seller
    BY <1>1, <2>1 DEF ReplyIsRight
  <2> QED
    BY <2>1, <2>2 DEF ReplyIsRight
<1>10. ReplyIsRight(pinged) /\ pinged.seller = "none"
  <2>1. CASE pinged = paid
    BY <1>9, <2>1
  <2>2. CASE pinged = [paid EXCEPT !.pings = PerformDebugReporting(auction)]
    <3>1. /\ DOMAIN pinged = DOMAIN paid /\ pinged.pings = PerformDebugReporting(auction)
          /\ pinged.buyerInput = paid.buyerInput
          /\ pinged.buyer = paid.buyer /\ pinged.seller = paid.seller
      BY <1>9, <2>2 DEF ReplyIsRight
    <3>2. ASSUME NEW p \in PerformDebugReporting(auction), p[2] = "win"
          PROVE  /\ auction.winner # 0
                 /\ auction.scored[p[1]].ad.owner = WinnerAd.owner
                 /\ IgName(auction.scored[p[1]].ad) = IgName(WinnerAd)
      BY <3>2, PingsAreRight DEF WinnerAd
    <3> QED
      BY <1>9, <3>1, <3>2 DEF ReplyIsRight
  <2> QED
    BY <1>2, <2>1, <2>2
<1>11. ReplyIsRight(PopulateComponentReportingUrlsInTopLevelResponse(pinged))
  <2>1. PICK rep : rep = PopulateComponentReportingUrlsInTopLevelResponse(pinged)
    OBVIOUS
  <2>2. CASE conf.scope = "topLevel" /\ WinnerAd.render \in DOMAIN component
    <3>1. component[WinnerAd.render] = WinnerAd.seller
      BY <1>3, <1>7, <2>2, WinnersSellerIsKept
    <3>2. rep = [pinged EXCEPT !.seller = WinnerAd.seller, !.buyer = WinnerAd.seller]
      BY <2>1, <2>2, <3>1 DEF PopulateComponentReportingUrlsInTopLevelResponse
    <3>3. /\ DOMAIN rep = DOMAIN pinged /\ rep.pings = pinged.pings
          /\ rep.buyerInput = pinged.buyerInput
          /\ rep.buyer = WinnerAd.seller /\ rep.seller = WinnerAd.seller
      BY <1>10, <3>2 DEF ReplyIsRight
    <3> QED
      BY <1>10, <2>1, <3>3 DEF ReplyIsRight
  <2>3. CASE ~(conf.scope = "topLevel" /\ WinnerAd.render \in DOMAIN component)
    BY <1>10, <2>3 DEF PopulateComponentReportingUrlsInTopLevelResponse
  <2> QED
    BY <2>2, <2>3
<1>12. ReplyPart'
  BY <1>3, <1>11, ReplyStaysRight
<1> QED
  BY <1>5, <1>6, <1>8, <1>12

LEMMA ReportKeepsParts ==
  ASSUME CallPart, AuctionPart, StagePart, ReplyPart, ReportingCallback
  PROVE  CallPart' /\ AuctionPart' /\ StagePart' /\ ReplyPart'
<1>1. /\ stage = "report" /\ stage \in Callbacks /\ EncryptAndFinishOK
      /\ UNCHANGED <<cancelled, readable, deleted>> /\ UNCHANGED auctionVars
  BY DEF ReportingCallback, auctionVars, Callbacks
<1>2. CallPart' /\ stage' \in {"none", "encryptFailed"}
  BY <1>1, EncryptKeepsCall
<1>3. AuctionPart'
  BY <1>1, AuctionStays
<1>4. StagePart'
  BY <1>2 DEF StagePart, CrashIsExplained
<1>5. ReplyIsRight(reply) /\ ReplyIsRight(SetSellerReportingUrlsInResponse)
  BY ReplyWasRight, SellerUrlsKeepReply
<1>6. ReplyIsRight(reply')
  <2>1. PICK rep : rep = SetSellerReportingUrlsInResponse
    OBVIOUS
  <2>2. \/ reply' = reply
        \/ reply' = [rep EXCEPT !.buyer = IF EnableReportWin THEN "reportWin" ELSE @]
    BY <2>1 DEF ReportingCallback
  <2>3. CASE reply' = [rep EXCEPT !.buyer = IF EnableReportWin THEN "reportWin" ELSE @]
    <3>1. /\ DOMAIN reply' = DOMAIN rep /\ reply'.pings = rep.pings
          /\ reply'.buyerInput = rep.buyerInput /\ reply'.seller = rep.seller
          /\ conf.scope = "topLevel" => reply'.buyer = rep.buyer
      BY <1>5, <2>1, <2>3 DEF ReplyIsRight, EnableReportWin
    <3> QED
      BY <1>5, <2>1, <3>1 DEF ReplyIsRight
  <2> QED
    BY <1>5, <2>2, <2>3
<1> QED
  BY <1>1, <1>2, <1>3, <1>4, <1>6, ReplyStaysRight

LEMMA ReportResultKeepsParts ==
  ASSUME CallPart, AuctionPart, StagePart, ReplyPart, ReportResultCallback
  PROVE  CallPart' /\ AuctionPart' /\ StagePart' /\ ReplyPart'
<1>1. /\ stage = "reportResult" /\ stage \in Callbacks
      /\ UNCHANGED <<cancelled, readable, deleted>> /\ UNCHANGED auctionVars
  BY DEF ReportResultCallback, auctionVars, Callbacks
<1>2. PICK rep \in {reply, SetSellerReportingUrlsInResponse} :
        \/ EncryptAndFinishOK /\ reply' = rep
        \/ /\ EnableReportWin /\ stage' = "reportWin" /\ UNCHANGED callVars
           /\ reply' = [rep EXCEPT !.buyerInput = GenerateBuyerDeviceSignals(signals)]
  BY DEF ReportResultCallback
<1>3. /\ CallPart' /\ stage' \in {"none", "encryptFailed", "reportWin"}
      /\ stage' = "reportWin" => EnableReportWin
  <2>1. CASE EncryptAndFinishOK
    BY <1>1, <2>1, EncryptKeepsCall
  <2>2. CASE EnableReportWin /\ stage' = "reportWin" /\ UNCHANGED callVars
    BY <1>1, <2>2, DispatchKeepsCall DEF Callbacks
  <2> QED
    BY <1>2, <2>1, <2>2
<1>4. AuctionPart'
  BY <1>1, AuctionStays
<1>5. StagePart'
  BY <1>1, <1>3 DEF StagePart, CrashIsExplained, auctionVars, EnableReportWin
<1>6. ReplyIsRight(rep)
  BY <1>2, ReplyWasRight, SellerUrlsKeepReply
<1>7. ReplyIsRight(reply')
  <2>1. CASE reply' = rep
    BY <1>6, <2>1
  <2>2. CASE reply' = [rep EXCEPT !.buyerInput = GenerateBuyerDeviceSignals(signals)]
    <3>1. /\ DOMAIN reply' = DOMAIN rep /\ reply'.pings = rep.pings
          /\ reply'.buyerInput = GenerateBuyerDeviceSignals(signals)
          /\ reply'.seller = rep.seller /\ reply'.buyer = rep.buyer
      BY <1>6, <2>2 DEF ReplyIsRight
    <3>2. GenerateBuyerDeviceSignals(signals)
            \cap {"desirability", "modifiedBid", "sellerDataVersion"} = {}
      BY DEF GenerateBuyerDeviceSignals
    <3> QED
      BY <1>6, <3>1, <3>2 DEF ReplyIsRight
  <2> QED
    BY <1>2, <2>1, <2>2
<1> QED
  BY <1>1, <1>3, <1>4, <1>5, <1>7, ReplyStaysRight

LEMMA ReportWinKeepsParts ==
  ASSUME CallPart, AuctionPart, StagePart, ReplyPart, ReportWinCallback
  PROVE  CallPart' /\ AuctionPart' /\ StagePart' /\ ReplyPart'
<1>1. /\ stage = "reportWin" /\ stage \in Callbacks /\ EncryptAndFinishOK
      /\ UNCHANGED <<cancelled, readable, deleted>> /\ UNCHANGED auctionVars
  BY DEF ReportWinCallback, auctionVars, Callbacks
<1>2. CallPart' /\ stage' \in {"none", "encryptFailed"}
  BY <1>1, EncryptKeepsCall
<1>3. AuctionPart'
  BY <1>1, AuctionStays
<1>4. StagePart'
  BY <1>2 DEF StagePart, CrashIsExplained
<1>5. ReplyIsRight(reply) /\ conf.scope # "topLevel"
  BY <1>1, ReplyWasRight DEF StagePart
<1>6. PICK origin :
        \/ reply' = reply
        \/ reply' = [reply EXCEPT !.buyer = "reportWin", !.buyerOrigin = origin]
  BY DEF ReportWinCallback
<1>7. ReplyIsRight(reply')
  <2>1. CASE reply' = [reply EXCEPT !.buyer = "reportWin", !.buyerOrigin = origin]
    <3>1. /\ DOMAIN reply' = DOMAIN reply /\ reply'.pings = reply.pings
          /\ reply'.buyerInput = reply.buyerInput
      BY <1>5, <2>1 DEF ReplyIsRight
    <3> QED
      BY <1>5, <3>1 DEF ReplyIsRight
  <2> QED
    BY <1>5, <1>6, <2>1
<1> QED
  BY <1>1, <1>2, <1>3, <1>4, <1>7, ReplyStaysRight

(* The other actions leave batch, auction and reply alone. *)
LEMMA RestStays ==
  ASSUME AuctionPart, StagePart, ReplyPart, UNCHANGED auctionVars, UNCHANGED reply,
         \/ stage' = stage \/ stage' \in {"none", "encryptFailed"}
         \/ stage = "construct" /\ stage' = "execute",
         stage = "crashed" => stage' = "crashed"
  PROVE  AuctionPart' /\ StagePart' /\ ReplyPart'
<1>1. AuctionPart'
  BY AuctionStays
<1>2. StagePart'
  BY DEF StagePart, CrashIsExplained, auctionVars
<1>3. ReplyIsRight(reply')
  BY ReplyWasRight
<1> QED
  BY <1>1, <1>2, <1>3, ReplyStaysRight

LEMMA StepKeepsParts ==
  ASSUME CallPart, AuctionPart, StagePart, ReplyPart, [Next]_vars
  PROVE  CallPart' /\ AuctionPart' /\ StagePart' /\ ReplyPart'
<1>1. CASE Execute
  BY <1>1, ExecuteKeepsParts
<1>2. CASE ScoreAdsCallback
  BY <1>2, CallbackKeepsParts
<1>3. CASE DoWinAndDebugReporting
  BY <1>3, WonKeepsParts
<1>4. CASE ReportingCallback
  BY <1>4, ReportKeepsParts
<1>5. CASE ReportResultCallback
  BY <1>5, ReportResultKeepsParts
<1>6. CASE ReportWinCallback
  BY <1>6, ReportWinKeepsParts
<1>7. CASE CancelledCallback
  <2>1. /\ stage \in Callbacks \cup {"execute"} /\ FinishWithStatus("CANCELLED")
        /\ UNCHANGED <<cancelled, readable, deleted>>
        /\ UNCHANGED auctionVars /\ UNCHANGED reply
    BY <1>7 DEF CancelledCallback, Callbacks, auctionVars
  <2>2. PICK st \in Statuses : FinishWithStatus(st)
    BY <2>1 DEF Statuses
  <2>3. CallPart' /\ stage' = "none"
    BY <2>1, <2>2, FinishKeepsCall
  <2>4. stage # "crashed"
    BY <1>7 DEF CancelledCallback
  <2> QED
    BY <2>1, <2>3, <2>4, RestStays
<1>8. CASE Shared
  <2>1. /\ DecryptRequest \/ FinishAfterFailedEncryption \/ Bind \/ OnDone
        /\ UNCHANGED auctionVars /\ UNCHANGED reply
    BY <1>8 DEF Shared, auctionVars
  <2>2. CallPart'
    BY <2>1, SharedKeepsCall
  <2>3. /\ \/ stage' = stage \/ stage' \in {"none", "encryptFailed"}
           \/ stage = "construct" /\ stage' = "execute"
        /\ stage = "crashed" => stage' = "crashed"
    BY <2>1 DEF DecryptRequest, FinishAfterFailedEncryption, FinishWithStatus, Bind, OnDone
  <2> QED
    BY <2>1, <2>2, <2>3, RestStays
<1>9. CASE Cancel
  <2>1. /\ stage' = stage /\ UNCHANGED auctionVars /\ UNCHANGED reply
    BY <1>9 DEF Cancel, OnCancel, auctionVars
  <2>2. CallPart'
    BY <1>9 DEF Cancel, OnCancel, callVars, CallPart, CallInOrder
  <2> QED
    BY <2>1, <2>2, RestStays
<1>10. CASE UNCHANGED vars
  <2>1. /\ stage' = stage /\ UNCHANGED auctionVars /\ UNCHANGED reply
    BY <1>10 DEF vars, dispatchVars, auctionVars
  <2>2. CallPart'
    BY <1>10 DEF vars, dispatchVars, callVars, CallPart, CallInOrder
  <2> QED
    BY <2>1, <2>2, RestStays
<1> QED
  BY <1>1, <1>2, <1>3, <1>4, <1>5, <1>6, <1>7, <1>8, <1>9, <1>10 DEF Next, Work, Done

(* The parts, and so Inv, hold always. *)
THEOREM Invariance == Spec => []Inv
<1> DEFINE Parts == CallPart /\ AuctionPart /\ StagePart /\ ReplyPart
<1>1. Init => Parts
  BY InitHasParts
<1>2. Parts /\ [Next]_vars => Parts'
  BY StepKeepsParts
<1>3. Parts => Inv
  BY PartsMakeInv
<1> QED
  BY <1>1, <1>2, <1>3, PTL DEF Spec

(* Whatever the request, its settings and the outputs of scoreAd: the call   *)
(* is finished once and nothing of it runs after its release, unless the     *)
(* encryption of the answer failed, and the server aborts only for the two   *)
(* reasons named.                                                            *)
THEOREM CallEndsRight == Spec => []ScoreAdsLifeCycle
<1>1. Inv => ScoreAdsLifeCycle
  BY DEF Inv
<1> QED
  BY <1>1, Invariance, PTL

(* For any number of ads: scores go to the ads that were scored, the winner  *)
(* is the best of the ads that may win, whatever order std::sort leaves, and *)
(* the ghost winners are those that beat it.                                 *)
THEOREM BestAdAlwaysWins == Spec => []WinnersAreRight
<1>1. Inv => WinnersAreRight
  BY DEF Inv
<1> QED
  BY <1>1, Invariance, PTL

(* For any number of ads: pings and component URLs are the winner's, other   *)
(* bids are others', debug URLs stay within their limits together, counted   *)
(* twice as they are, and reportWin learns nothing of the seller's.          *)
THEOREM ReportsGoRight == Spec => []ReportsAreTheWinners
<1>1. Inv => ReportsAreTheWinners
  BY DEF Inv
<1> QED
  BY <1>1, Invariance, PTL
=============================================================================

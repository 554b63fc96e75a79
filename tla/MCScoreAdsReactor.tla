-------------------------- MODULE MCScoreAdsReactor --------------------------
(* The requests, settings and scoreAd outputs the runs of ScoreAdsReactor     *)
(* consider.                                                                  *)
EXTENDS ScoreAdsReactor

Ad(render, owner, ig, bid, kanon) ==
  [render |-> render, pas |-> FALSE, owner |-> owner, ig |-> ig, bid |-> bid,
   cur |-> "usd", kanon |-> kanon, signals |-> TRUE, seller |-> "none",
   generation |-> "g1", ghost |-> FALSE]

AppAd(render, owner, bid) == [Ad(render, owner, "", bid, TRUE) EXCEPT !.pas = TRUE]

Of(ad, seller) == [ad EXCEPT !.seller = seller]

(* Three interest groups; two interest groups and an app signals ad, one     *)
(* without signals, or with one render URL twice; a render URL used by both  *)
(* kinds.                                                                    *)
ThreeAds ==
  {<<Ad("u1", "o1", "a", 2, TRUE), Ad("u2", "o1", "b", 3, FALSE),
     Ad("u3", "o2", "a", 2, FALSE)>>,
   <<Ad("u1", "o1", "a", 2, TRUE), AppAd("u2", "o1", 3), AppAd("u3", "o1", 2)>>,
   <<[Ad("u1", "o1", "a", 2, TRUE) EXCEPT !.signals = FALSE],
     Ad("u2", "o1", "b", 2, TRUE), Ad("u2", "o2", "b", 3, FALSE)>>,
   <<Ad("u1", "o1", "a", 2, FALSE), AppAd("u1", "o2", 3)>>}

(* Results of two component sellers, one with a ghost winner; chaff; results *)
(* of two generations; the same render URL from both; nothing but chaff.     *)
Components ==
  {<<Of(Ad("u1", "o1", "a", 2, TRUE), "s1"),
     [Of(Ad("u2", "o2", "a", 3, FALSE), "s1") EXCEPT !.ghost = TRUE],
     Of(AppAd("u3", "o2", 2), "s2")>>,
   <<Of(Ad("u1", "o1", "a", 2, TRUE), "s1"), Ad("u2", "o1", "a", 2, TRUE),
     Of(Ad("u1", "o2", "a", 2, TRUE), "s2")>>,
   <<Of(Ad("u1", "o1", "a", 2, TRUE), "s1"),
     [Of(Ad("u2", "o2", "a", 2, TRUE), "s2") EXCEPT !.generation = "g2"]>>,
   <<Ad("u1", "o1", "a", 2, TRUE)>>}

Output(score, reject) ==
  [ok |-> TRUE, score |-> score, reject |-> reject, incoming |-> 0,
   allow |-> TRUE, bid |-> 0, cur |-> "none", win |-> 2, loss |-> 1,
   contrib |-> TRUE]

(* A failed call, whose other fields nobody reads. *)
Failed == [Output(0, "none") EXCEPT !.ok = FALSE, !.win = 0, !.loss = 0]

(* A score of 0, one of 1.5, a rejection and a failed call; more scores, an  *)
(* ad without URLs or contributions.                                         *)
FewOutputs == {Output(0, "none"), Output(3, "none"), Output(4, "blocked"), Failed}

ScoreOutputs ==
  FewOutputs \cup
  {Output(4, "none"),
   [Output(2, "none") EXCEPT !.win = 3, !.loss = 0, !.contrib = FALSE]}

(* A failed call, an ad that may not take part in the top-level auction, a   *)
(* bid in another currency and one changed though it needed no conversion.   *)
ComponentOutputs ==
  {Output(3, "none"), Output(4, "none"), Failed,
   [Output(4, "none") EXCEPT !.allow = FALSE],
   [Output(4, "none") EXCEPT !.bid = 5, !.cur = "eur", !.incoming = 2],
   [Output(4, "none") EXCEPT !.incoming = 5]}

Base ==
  [scope |-> "single", ads |-> <<>>, maxGhosts |-> 1, cur |-> "none",
   cancellation |-> FALSE, requireSignals |-> FALSE, signals |-> TRUE,
   pas |-> TRUE, enforceKAnon |-> TRUE, pagg |-> TRUE, debug |-> TRUE,
   reportResult |-> FALSE, reportWin |-> TRUE, isolation |-> TRUE,
   buyerSignals |-> TRUE, buyerWin |-> TRUE]

(* Auctions without reporting UDFs. *)
Ranking ==
  {[Base EXCEPT !.maxGhosts = 2],
   [Base EXCEPT !.scope = "deviceComponent", !.cur = "usd"]}

(* Every kind of reporting, on few outputs. *)
Reporting ==
  {[b EXCEPT !.reportResult = TRUE, !.cancellation = TRUE] : b \in
    {Base,
     [Base EXCEPT !.isolation = FALSE],
     [Base EXCEPT !.isolation = FALSE, !.buyerSignals = FALSE, !.enforceKAnon = FALSE],
     [Base EXCEPT !.buyerWin = FALSE, !.requireSignals = TRUE, !.pas = FALSE],
     [Base EXCEPT !.requireSignals = TRUE, !.signals = FALSE],
     [Base EXCEPT !.scope = "deviceComponent", !.isolation = FALSE],
     [Base EXCEPT !.scope = "deviceComponent", !.pagg = FALSE, !.debug = FALSE]}}

MCOutputs(c) ==
  IF c.reportResult THEN FewOutputs
  ELSE IF c.cur = "usd" THEN ComponentOutputs ELSE ScoreOutputs

MCConfigs ==
  {[s EXCEPT !.ads = ads] : s \in Ranking \cup Reporting, ads \in ThreeAds}
  \cup {[Base EXCEPT !.scope = "topLevel", !.reportResult = TRUE, !.ads = ads,
                     !.isolation = iso] :
          ads \in Components, iso \in BOOLEAN}
=============================================================================

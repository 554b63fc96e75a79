----------------------------- MODULE MCEncodings -----------------------------
(* Small instances of the modules that encode and decode. *)
EXTENDS Integers, Sequences, TLC

CONSTANTS r1, r2

VARIABLES part, schemaCache, egress, auction, paBids, ghostsLeft, reports, paggStep,
          codecCase, encoded, codecStep,
          requestId, failFast, reqErrors, rootInput, toDecode, buyerInputs, reqStep,
          appCase, appInputs, appErrors, getBids, appScoreAds, appStep,
          sellerConf, buyerTable, sellerTable, keyPlatforms, cipherRequest,
          cipherResponse, cipherStep,
  reportCase, draws, sellerSig, buyerSig, reported, toWinner, winArgs, reportStep,
  debugCase, debugSignals, pings, debugUrls, debugStep,
  framework, docId, parsed, launched, tasks, outputs, collected, response, inferStep,
  buyId, lookup, byos, kvFault, kvSignals, groupData, bidReq, appReq, buyStep,
  saleId, urlLookup, sellFault, scoringSignals, scoreReq, adData, scoreCalls, saleStep

E == INSTANCE Egress WITH EgressReqs <- {r1, r2}, EgressBitLimit <- 11,
  EgressSchemas <-
    LET feat(n, s) == [name |-> n, size |-> s, buckets |-> <<>>]
        hist(bs) == [name |-> "histogram", size |-> 1, buckets |-> bs]
        u(s) == [name |-> "unsigned", size |-> s]
        i(s) == [name |-> "signed", size |-> s]
    IN {[version |-> 1, features |-> <<feat("signed", 3), feat("bucket", 3),
                                       hist(<<u(1), i(3)>>)>>],
        [version |-> 2, features |-> <<feat("signed", 4), feat("bucket", 3),
                                       hist(<<u(1), i(2)>>)>>],
        [version |-> 3, features |-> <<feat("signed", 3), feat("boolean", 1)>>],
        [version |-> 4, features |-> <<feat("signed", 3), feat("unsigned", 9)>>],
        [version |-> 5, features |-> <<feat("float", 3)>>]},
  EgressPayloads <-
    LET val(n, v) == [name |-> n, value |-> v]
        bools(s) == {[k \in DOMAIN s |-> {s[k]}]}
        hist(a, b) == val("histogram", {<<val("unsigned", {a}), val("signed", {b})>>})
    IN {<<val("signed", {n}), val("bucket", bools(bs)), hist(a, b)>> :
          n \in {-4, -1, 3, 4}, bs \in {<<TRUE, FALSE, FALSE>>, <<FALSE, TRUE>>},
          a \in {1}, b \in {-3, 1}}
       \cup {<<val("signed", {-2}), val("boolean", {TRUE})>>,
             <<val("signed", {}), val("boolean", {FALSE})>>,
             <<val("signed", {1}), val("unsigned", {5})>>,
             <<val("unsigned", {1}), val("boolean", {TRUE})>>}

-----------------------------------------------------------------------------
(* Private aggregation: two buyers, the interest groups a and b of the       *)
(* first, one of which may bid twice, and c of the second.                   *)

Num(n) == [kind |-> "int", n |-> n]
Ext(base, scale) == [kind |-> "extended", base |-> base, scale |-> scale, offset |-> 1]
Bits(n) == [kind |-> "bits", n |-> n]
Sig(base, offset) == [kind |-> "signal", base |-> base, scale |-> 1, offset |-> offset]
Contribution(id, event, value, bucket) ==
  [id |-> id, event |-> event, value |-> value, bucket |-> bucket, ig |-> -1]

BidLists(n) ==
  {<<Contribution(n, "reserved.win", Ext("winning-bid", 2), Bits(1)),
     Contribution(n + 1, "reserved.loss", Ext("bid-rejection-reason", 1), Bits(2))>>,
   <<Contribution(n, "click", Num(3), Sig("winning-bid", -1)),
     Contribution(n + 1, "reserved.always", Num(4), Sig("highest-scoring-other-bid", -1))>>,
   <<Contribution(n, "reserved.loss", Ext("script-run-time", 1), Bits(1)),
     Contribution(n + 1, "reserved.always", Num(1), Sig("winning-bid", -2))>>,
   <<>>}

Docs ==
  {<<>>,
   <<[won |-> TRUE, doc |-> [win |-> <<Contribution(90, "", Ext("winning-bid", 1), Bits(7))>>,
        loss |-> <<Contribution(91, "", Num(1), Bits(7))>>, always |-> <<>>,
        custom |-> <<[name |-> "view", list |-> <<Contribution(92, "", Num(2), [kind |-> "none"]),
                                                  Contribution(93, "", Num(2), Bits(8))>>]>>]],
     [won |-> FALSE, doc |-> [win |-> <<Contribution(94, "", Num(1), Bits(7))>>,
        loss |-> <<Contribution(95, "", [kind |-> "none"], Bits(7))>>,
        always |-> <<Contribution(96, "", Num(1), Sig("unknown", 0))>>, custom |-> <<>>]]>>}

MCCases ==
  {[bids |-> <<[owner |-> "x", ig |-> "a", contributions |-> l1],
               [owner |-> "x", ig |-> ig, contributions |-> l2],
               [owner |-> "y", ig |-> "c", contributions |-> l3]>>,
    winner |-> w, ghosts |-> g, docs |-> d,
    reasons |-> (<<"y", "c">> :> 2), winning |-> 3, other |-> 2] :
      l1 \in BidLists(10), l2 \in BidLists(20), l3 \in BidLists(30), ig \in {"a", "b"},
      w \in {<<"x", "a">>, <<"y", "c">>}, d \in Docs,
      g \in {<<>>, <<<<"x", "b">>>>, <<<<"x", "a">>>>, <<<<"y", "c">>, <<"x", "a">>>>}}

P == INSTANCE PrivateAggregation WITH PAggCases <- MCCases, PAggLimit <- 3,
  IgIndex <- (<<"x", "a">> :> 0) @@ (<<"x", "b">> :> 1) @@ (<<"y", "c">> :> 0)

-----------------------------------------------------------------------------
(* Auction results: every outcome, and for the winner every combination of   *)
(* reporting URLs, k-anonymity data and optional fields.                     *)

Urls(u, i) == [url |-> u, interaction |-> i]
Clicks == <<[event |-> "view", url |-> "v"], [event |-> "click", url |-> "c"]>>
UrlSets == {{}, {Urls("u", <<>>)}, {Urls("", Clicks)}, {Urls("u", Clicks)}}
Candidates == [render |-> "h1", reporting |-> "h2", components |-> <<"h3">>]
TopGhost(bid, full) ==
  [metadata |-> IF full THEN "m" ELSE "", url |-> "r", currency |-> IF full THEN "USD" ELSE "",
   modifiedBid |-> bid, buyerId |-> IF full THEN {"b"} ELSE {}, components |-> <<"c1">>,
   bothId |-> IF full THEN {""} ELSE {}, selectedId |-> IF full THEN {"s"} ELSE {}]
Ghost(top, signals) == [owner |-> "o1", ig |-> "g", index |-> 1, candidates |-> Candidates,
                        top |-> top, signals |-> signals]
KAnonData ==
  {{}, {[ghosts |-> {}, winner |-> {Candidates}, position |-> 0]},
   {[ghosts |-> {<<Ghost({}, <<[value |-> -3, bucket |-> "k"]>>)>>}, winner |-> {}, position |-> 0]},
   {[ghosts |-> {<<Ghost({TopGhost(2049, TRUE)}, <<>>), Ghost({TopGhost(3, FALSE)}, <<>>)>>},
     winner |-> {Candidates}, position |-> -2]},
   {[ghosts |-> {<<Ghost({TopGhost(0, TRUE)}, <<>>)>>}, winner |-> {Candidates}, position |-> 0]}}
Score(buyerBid, bid, full, b, t, c) ==
  [buyerBid |-> buyerBid, bid |-> bid, desirability |-> 70001, components |-> <<"c1", "c2">>,
   render |-> "r", owner |-> "o1", ig |-> "g", isKAnon |-> full,
   metadata |-> IF full THEN "m" ELSE "", currency |-> IF full THEN "EUR" ELSE "",
   contributions |-> <<>>, buyerReportingId |-> IF full THEN "b" ELSE "",
   urls |-> [buyer |-> b, top |-> t, component |-> c]]
MCResults ==
  {[component |-> comp, error |-> e, score |-> s, nonce |-> n, kanon |-> k, seller |-> "top",
    bidding |-> <<[owner |-> "o1", list |-> <<0, 300>>], [owner |-> "o2", list |-> <<>>]>>,
    updates |-> <<[owner |-> "o2", list |-> <<[index |-> 1, ms |-> 5], [index |-> 0, ms |-> 7]>>]>>,
    debug |-> <<[owner |-> "o1", list |-> <<[url |-> "d", win |-> TRUE, component |-> FALSE,
                                             seller |-> FALSE]>>]>>] :
     comp \in BOOLEAN, e \in {{}, {[code |-> 400, message |-> "bad"]}}, n \in {"", "n"},
     k \in KAnonData,
     s \in {{}} \cup {{Score(5, bid, full, b, t, c)} : bid \in {0, 4}, full \in BOOLEAN,
                      b \in UrlSets, t \in UrlSets, c \in UrlSets}}

A == INSTANCE AuctionResultCodec WITH ResultCases <- MCResults

-----------------------------------------------------------------------------
(* Requests: a well-formed document and documents with one or two flaws,     *)
(* numbered in mixed radix.                                                  *)

Str(v) == [t |-> "string", v |-> v]
IntItem(v) == [t |-> "int", v |-> v]
Arr(v) == [t |-> "array", v |-> v]
MapItem(v) == [t |-> "map", v |-> v]
At(k, i) == [k |-> Str(k), i |-> i]
Win(t, id) == Arr(<<t, id>>)
WinLists == <<Arr(<<Win(IntItem(32), Str("a")), Win(IntItem(33), Str("b"))>>),
              Arr(<<Win(Str("x"), Str("a")), Arr(<<IntItem(1)>>)>>),
              Arr(<<Win(IntItem(1), IntItem(2)), Str("w")>>), Str("w"), Arr(<<>>)>>
GroupLists(w) ==
  <<Arr(<<MapItem(<<At("name", Str("g0")), At("browserSignals",
            MapItem(<<At("bidCount", IntItem(2)), At("prevWins", w)>>)),
          At("ads", Arr(<<Str("a1")>>))>>),
          MapItem(<<At("name", Str("g1")), At("other", IntItem(0))>>)>>),
    Arr(<<Str("oops"), MapItem(<<At("biddingSignalsKeys", Arr(<<Str("k"), IntItem(1)>>)),
                                 At("name", IntItem(3)), At("browserSignals", w)>>)>>),
    MapItem(<<>>),
    Arr(<<MapItem(<<[k |-> IntItem(1), i |-> Str("x")], At("browserSignals",
            MapItem(<<At("recency", Str("1")), At("recencyMs", IntItem(9))>>))>>)>>)>>
BuyerDocs(w, g) == <<[kind |-> "cbor", root |-> GroupLists(w)[g]], [kind |-> "gzip", root |-> Arr(<<>>)]>>
Bytes(d) == [t |-> "bytes", v |-> d]
Roots(n) ==
  LET w == WinLists[1 + (n % 5)]
      g == 1 + ((n \div 5) % 4)
      d == BuyerDocs(w, g)[1]
      groups == At("interestGroups", MapItem(
        <<At("x", Bytes(d)), At("y", Bytes(BuyerDocs(WinLists[1], 1)[1 + ((n \div 100) % 2)]))>>))
  IN CASE (n \div 20) % 5 = 0 -> <<At("version", IntItem(0)), groups, At("publisher", Str("p"))>>
       [] (n \div 20) % 5 = 1 -> <<At("version", IntItem(1)), groups, At("enforceKAnon", Str("p"))>>
       [] (n \div 20) % 5 = 2 -> <<groups, At("consentedDebugConfig",
            MapItem(<<At("isConsented", [t |-> "bool", v |-> TRUE]), At("token", Str("t"))>>))>>
       [] (n \div 20) % 5 = 3 -> <<At("consentedDebugConfig", MapItem(<<At("token", IntItem(1)),
            At("isConsented", Str("no"))>>)), groups>>
       [] OTHER -> <<At("interestGroups", MapItem(<<At("x", Str("raw")), At("x", Bytes(d))>>)),
                     [k |-> IntItem(1), i |-> Str("z")]>>
MCRequest(n) == [kind |-> IF n = 200 THEN "broken" ELSE "cbor", root |-> MapItem(Roots(n))]

-----------------------------------------------------------------------------
(* Apps: two buyers, with and without signals, one of them perhaps unread.   *)

Wins(k, t) == [kind |-> k, list |-> IF k = "list" THEN <<[time |-> t, id |-> "a"]>> ELSE <<>>]
AppGroup(browser) == [name |-> "g", ads |-> <<"a">>, browser |-> browser, android |-> browser = {}]
AppInputs ==
  {[groups |-> <<AppGroup(b)>>, signals |-> s] : s \in {{}, {""}, {"installed"}},
     b \in {{}} \cup {{[prevWins |-> w, recencyMs |-> {3}]} :
                       w \in {Wins("list", 32), Wins("list", 33), Wins("other", 0), Wins("notJson", 0)}}}
MCAppCases ==
  {[inputs |-> [o1 |-> [flaw |-> f, input |-> i],
                o2 |-> [flaw |-> "", input |-> [groups |-> <<>>, signals |-> {"more"}]]],
    pasEnabled |-> pas, paEnabled |-> pa, contextual |-> [o1 |-> {"render"}],
    bids |-> [o1 |-> <<[render |-> "r", bid |-> 1, payload |-> "p"]>>,
              o2 |-> <<[render |-> "r", bid |-> 2, payload |-> "q"]>>],
    reportWinUrls |-> {"o1"}, kanonHashes |-> {<<"o1", "r">>, <<"o2", "r">>}, kanonOn |-> k] :
     f \in {"", "gzip"}, i \in AppInputs, pas \in BOOLEAN, pa \in BOOLEAN, k \in BOOLEAN}

R == INSTANCE RequestCodec WITH RequestOf <- MCRequest, RequestIds <- 0..200,
                                AppCases <- MCAppCases, IntHalf <- 2^15

-----------------------------------------------------------------------------
(* Component sellers: two configured names, one written in capitals, and a   *)
(* platform without keys.                                                    *)

Name(base, upper) == [base |-> base, upper |-> upper]
Pair(n, v) == [name |-> n, value |-> v]
MCConfigs ==
  {[buyers |-> b, sellers |-> s, endpoints |-> e, testMode |-> t] :
     t \in BOOLEAN,
     b \in {<<>>, <<Pair(Name("b", FALSE), "gcp")>>, <<Pair(Name("b", FALSE), "aws")>>,
            <<Pair(Name("b", FALSE), "gcp"), Pair(Name("b", FALSE), "aws")>>},
     s \in {<<>>, <<Pair(Name("s", FALSE), "gcp"), Pair(Name("t", FALSE), "aws")>>,
            <<Pair(Name("s", TRUE), "gcp")>>, <<Pair(Name("s", FALSE), "mars")>>},
     e \in {<<[name |-> "gcp", allowed |-> TRUE]>>,
            <<[name |-> "gcp", allowed |-> TRUE], [name |-> "aws", allowed |-> TRUE]>>,
            <<[name |-> "gcp", allowed |-> FALSE]>>, <<[name |-> "local", allowed |-> TRUE]>>}}
MCCiphertexts ==
  {[sellers |-> s, ciphertext |-> [flaw |-> f, plaintext |-> "p"]] : f \in {"", "empty", "keyId"},
     s \in {<<>>, <<Name("s", FALSE), Name("s", TRUE), Name("s", FALSE)>>,
            <<Name("s", FALSE), Name("u", FALSE), Name("t", TRUE)>>}}

CC == INSTANCE ComponentCiphertexts WITH ConfigCases <- MCConfigs,
        CiphertextCases <- MCCiphertexts, Platforms <- {"gcp", "aws", "azure", "local"}

-----------------------------------------------------------------------------
(* Reporting: numbers of four bits rounded to three, in a short range of    *)
(* exponents; two buyers whose origins differ in punctuation only.           *)

Real(neg, n, e) == [inf |-> FALSE, neg |-> neg, n |-> n, e |-> e]
Call(fn, arg) == [fn |-> fn, arg |-> arg]
Send(u) == Call("sendReportTo", u)
Scripts(p) ==
  <<<<Send(p), Call("registerAdBeacon", "map")>>,
    <<Send(p), Send("again"), Call("registerAdBeacon", "map")>>,
    <<Call("throw", ""), Send(p)>>,
    <<Call("registerAdBeacon", "mapOfNumbers"), Send("notString")>>>>
MCReport(n, iso, app, bid, cost, s, b) ==
  [isolated |-> iso, app |-> app, pas |-> app \/ n % 3 = 0, noising |-> n % 4 # 3,
   reportWin |-> n % 9 # 8, temporaryFlag |-> n % 2 = 0, payload |-> "egress", temporary |-> "wide",
   buyer |-> IF n % 2 = 0 THEN "a.com" ELSE "b.com",
   bid |-> bid, sellerBid |-> IF n % 2 = 0 THEN Real(FALSE, 11, 0) ELSE Real(FALSE, 0, 0),
   score |-> Real(FALSE, 12, 1), modified |-> Real(FALSE, IF n % 2 = 0 THEN 8 ELSE 0, 1), adCost |-> cost,
   otherBid |-> Real(FALSE, 9, 1), currency |-> IF n % 2 = 0 THEN {"EUR"} ELSE {},
   sellerVersion |-> 7, buyerVersion |-> n % 2,
   scope |-> IF n % 9 = 8 THEN "topLevel" ELSE IF ~app /\ n % 3 = 1 THEN "component" ELSE "single",
   component |-> {"component"}, hasSignals |-> n % 2 = 0,
   group |-> IF app THEN "" ELSE "cars",
   buyerId |-> IF ~app /\ n % 2 = 0 THEN {"b"} ELSE {},
   sharedId |-> IF ~app /\ n % 4 < 2 THEN {"bs"} ELSE {},
   selectedId |-> IF ~app /\ n % 8 < 4 THEN {"sel"} ELSE {},
   joinCount |-> IF n % 5 = 4 THEN {} ELSE {(<<0, 10, 11, 101>>)[1 + (n % 4)]},
   recency |-> IF n % 7 = 6 THEN {} ELSE {(<<-1, 9, 10, 14, 40319, 40320>>)[1 + (n % 6)]},
   modeling |-> {5},
   sellerScript |-> Scripts("s")[s],
   buyerScripts |-> [o \in {"a.com", "b.com", "b_com"} |-> Scripts(o)[IF o = "b_com" THEN 1 ELSE b]]]
RP == INSTANCE ReportingSignals WITH SigBits <- 4, RoundingBits <- 3, MinExp <- -1, MaxExp <- 2,
  ModelingBits <- 2,
  ReportOrigins <- [o \in {"a.com", "b.com", "b_com"} |-> IF o = "a.com" THEN "acom" ELSE "bcom"],
  ReportCases <-
    {MCReport(n, iso, app, bid, Real(TRUE, 13, 1), s, b) :
       n \in 0 .. 9, iso \in BOOLEAN, app \in BOOLEAN,
       bid \in {Real(FALSE, 15, 2), Real(FALSE, 9, 1)}, s \in 1 .. 4, b \in {1, 2}}
    \cup {MCReport(n, iso, FALSE, bid, cost, 1, b) :
       n \in {1, 2, 5}, iso \in BOOLEAN, b \in {1, 3, 4},
       bid \in {Real(FALSE, 15, 3), Real(FALSE, 9, -2)},
       cost \in {Real(TRUE, 15, 1), Real(FALSE, 15, 2), Real(FALSE, 15, 3), Real(TRUE, 9, 0)}}

-----------------------------------------------------------------------------
(* Debug reports: three bids of two buyers, one of them also the seller.     *)

DebugUrl(n) ==
  (<<<<>>, <<"u", "winningBid", "winningBidCurrency", "highestScoringOtherBid">>,
     <<"v", "highestScoringOtherBid", "madeHighestScoringOtherBid", "highestScoringOtherBid",
       "rejectReason">>, <<"w", "madeWinningBid", "madeHighestScoringOtherBid", "winningBid">>>>)[n]
DR == INSTANCE DebugReporting WITH RejectionReasons <- {"low"},
  DebugCases <-
    {[enabled |-> e, component |-> comp, seller |-> "y", currency |-> cur,
      bids |-> <<[owner |-> "x", ig |-> "a", win |-> DebugUrl(u), loss |-> DebugUrl(v)],
                 [owner |-> "x", ig |-> ig, win |-> DebugUrl(2), loss |-> DebugUrl(3)],
                 [owner |-> "y", ig |-> "a", win |-> DebugUrl(v), loss |-> DebugUrl(u)]>>,
      winner |-> w, sellerUrls |-> s] :
        e \in BOOLEAN, comp \in BOOLEAN, cur \in {"", "EUR"}, u \in 1 .. 4, v \in 1 .. 4,
        ig \in {"a", "b"},
        s \in {{}, {[win |-> <<"s">>, loss |-> <<>>]}, {[win |-> <<>>, loss |-> <<"t">>]}},
        w \in {{}} \cup {{[owner |-> o, ig |-> "a", bid |-> 5, converted |-> 4, others |-> others,
                           reasons |-> <<[owner |-> "x", ig |-> "b", why |-> "low"],
                                         [owner |-> "x", ig |-> "b", why |-> "other"]>>]} :
                          o \in {"x", "y"}, others \in {<<>>, ("x" :> 3), ("x" :> 3) @@ ("y" :> 3)}}}

-----------------------------------------------------------------------------
(* Inference: batches of up to three requests, in which each of the ways to  *)
(* be malformed occurs next to a good request; integers of 3 to 6 bits.      *)

Member(k, v) == {[kind |-> k, v |-> v]}
Dim(n) == [int |-> TRUE, n |-> n]
Text(n) == [kind |-> "string", num |-> TRUE, n |-> n]
TensorOf(name, type, dims, content) ==
  [object |-> TRUE, name |-> name, type |-> Member("string", type),
   shape |-> Member("array", dims), content |-> Member("array", content)]
GoodTensor(n) == TensorOf(Member("string", "x"), "INT8", <<Dim(1), Dim(2)>>, <<Text(n), Text(1)>>)
RequestOf(path, tensors) ==
  [object |-> TRUE, path |-> Member("string", path), tensors |-> Member("array", tensors)]
Batch(requests) == [parses |-> TRUE, object |-> TRUE, request |-> Member("array", requests)]

GoodRequest == RequestOf("m1", <<GoodTensor(2)>>)
OddTensors ==
  <<GoodTensor(3), GoodTensor(4), GoodTensor(-4), GoodTensor(17),
    TensorOf({}, "INT16", <<Dim(1)>>, <<Text(7)>>),
    TensorOf(Member("number", 1), "INT16", <<Dim(1)>>, <<Text(8)>>),
    TensorOf(Member("string", "x"), "INT32", <<Dim(1)>>, <<Text(15)>>),
    TensorOf(Member("string", "x"), "INT64", <<Dim(1)>>, <<Text(31)>>),
    TensorOf(Member("string", "x"), "FLOAT", <<Dim(1)>>, <<Text(40)>>),
    TensorOf(Member("string", "x"), "STRING", <<Dim(1)>>, <<Text(1)>>),
    TensorOf(Member("string", "x"), "INT8", <<Dim(0)>>, <<>>),
    TensorOf(Member("string", "x"), "INT8", <<>>, <<Text(1)>>),
    TensorOf(Member("string", "x"), "INT8", <<[int |-> FALSE, n |-> 1]>>, <<Text(1)>>),
    TensorOf(Member("string", "x"), "INT8", <<Dim(4), Dim(4)>>, <<>>),
    TensorOf(Member("string", "x"), "INT8", <<Dim(2)>>, <<Text(1)>>),
    TensorOf(Member("string", "x"), "INT8", <<Dim(1)>>, <<[kind |-> "string", num |-> FALSE, n |-> 0]>>),
    TensorOf(Member("string", "x"), "INT8", <<Dim(1)>>, <<[kind |-> "number", num |-> TRUE, n |-> 1]>>),
    [object |-> FALSE, name |-> {}, type |-> {}, shape |-> {}, content |-> {}]>>

IJ == INSTANCE InferenceJson WITH Frameworks <- {"tensorflow", "pytorch"}, SizeBits <- 4,
  IntBits <- [INT8 |-> 3, INT16 |-> 4, INT32 |-> 5, INT64 |-> 6],
  Documents <-
    <<[parses |-> FALSE, object |-> FALSE, request |-> {}],
      [parses |-> TRUE, object |-> FALSE, request |-> {}],
      [parses |-> TRUE, object |-> TRUE, request |-> {}],
      [parses |-> TRUE, object |-> TRUE, request |-> Member("string", "")],
      Batch(<<>>),
      Batch(<<GoodRequest, RequestOf("m2", <<GoodTensor(1), GoodTensor(2)>>), RequestOf("none", <<GoodTensor(1)>>)>>),
      Batch(<<[object |-> TRUE, path |-> {}, tensors |-> Member("array", <<GoodTensor(1)>>)], GoodRequest>>),
      Batch(<<RequestOf("", <<GoodTensor(1)>>), GoodRequest>>),
      Batch(<<[object |-> TRUE, path |-> Member("string", "m1"), tensors |-> {}], GoodRequest>>),
      Batch(<<GoodRequest, [object |-> FALSE, path |-> {}, tensors |-> {}]>>),
      Batch(<<RequestOf("m1", <<>>), GoodRequest>>),
      Batch(<<RequestOf("none", <<>>), GoodRequest>>)>>
    \o [k \in DOMAIN OddTensors |-> Batch(<<RequestOf("m2", <<OddTensors[k]>>), GoodRequest>>)],
  ModelRuns <-
    LET run(sd, out, names, outs) ==
          [found |-> TRUE, servingDefault |-> sd, out |-> out, names |-> names, outs |-> outs]
        out(type, nan) == [type |-> type, nan |-> nan, form |-> "flat"]
        odd(type, form) == [type |-> type, nan |-> FALSE, form |-> form]
        none == [found |-> FALSE, servingDefault |-> FALSE, out |-> "fails", names |-> {}, outs |-> <<>>]
    IN [m1 |-> {run(TRUE, "tensor", {"y"}, <<out("INT8", FALSE)>>)},
        m2 |-> {none, run(TRUE, "tuple", {"y", "z"}, <<out("FLOAT", FALSE), out("INT64", FALSE)>>),
                run(TRUE, "tensor", {"y"}, <<out("FLOAT", TRUE)>>),
                run(TRUE, "tensor", {"y"}, <<out("BOOL", FALSE)>>),
                run(TRUE, "tensor", {"y"}, <<odd("BOOL", "strided")>>),
                run(TRUE, "tuple", {"y", "z"}, <<out("INT8", FALSE), odd("INT8", "other")>>),
                run(TRUE, "tuple", {"y", "z"}, <<out("BOOL", FALSE), odd("INT8", "strided")>>),
                run(TRUE, "list", {"y"}, <<out("INT8", FALSE)>>),
                run(TRUE, "tuple", {"y", "z"}, <<out("INT8", FALSE)>>),
                run(TRUE, "fails", {}, <<>>), run(FALSE, "tensor", {}, <<out("INT8", FALSE)>>)},
        none |-> {none}]

-----------------------------------------------------------------------------
(* Bidding signals: three interest groups that share keys, one without any;  *)
(* the first has a priority vector that its age decides on.                  *)

Grp(name, ks, age) ==
  [name |-> name, keys |-> ks, age |-> age, ageMs |-> {}, browser |-> TRUE, android |-> FALSE]
BuyGroups ==
  <<<<Grp("a", <<"k1", "k2">>, 1440), Grp("b", <<"k2", "k3">>, 44640), Grp("c", <<>>, 0)>>,
    <<Grp("b", <<"k1", "k1">>, 0), [Grp("a", <<"k4">>, 0) EXCEPT !.ageMs = {44640}, !.browser = FALSE]>>,
    <<Grp("", <<"k1">>, 0), Grp("d", <<"k1">>, 0), Grp("b", <<"k2">>, 2880)>>,
    <<Grp("c", <<>>, 0)>>>>
BuyCase(g, client, v2, hybrid, mode, priority) ==
  [client |-> client, v2Browser |-> v2, testMode |-> TRUE, v2Empty |-> ~v2, hybrid |-> hybrid,
   mode |-> mode, priority |-> priority, groups |-> BuyGroups[g], publisher |-> "p",
   experiment |-> {"e"}, propagate |-> TRUE, buyerSignals |-> "s", debug |-> TRUE,
   kanon |-> TRUE, enforce |-> TRUE, limit |-> g - 1, app |-> IF v2 THEN {"app"} ELSE {},
   contextual |-> {}, sellerSignals |-> ("x" :> 2) @@ ("minutes" :> 7),
   overrides |-> IF g = 2 THEN {[object |-> TRUE, m |-> ("x" :> [num |-> TRUE, n |-> 3])
                                                       @@ ("y" :> [num |-> FALSE, n |-> 0])]}
                 ELSE IF g = 4 THEN {[object |-> FALSE, m |-> <<>>]} ELSE {}]

BS == INSTANCE BuyerSignals WITH
  BuyCases <-
    LET flag(k, n) == (k \div n) % 2 = 1
        modes == <<"notFetched", "optional", "required">>
    IN [k \in 1 .. 96 |-> BuyCase(1 + (k % 4), "browser", flag(k, 4), flag(k, 8),
                                  modes[1 + ((k \div 16) % 3)], k <= 48)]
       \o [k \in 1 .. 8 |-> BuyCase(1 + (k % 4), "android", flag(k, 4), TRUE, "optional", TRUE)],
  KvStore <-
    LET text(kind, v) == [kind |-> kind, v |-> v]
        num(n) == [num |-> TRUE, n |-> n]
        ig(kind, object, update, vector) ==
          [kind |-> kind, object |-> object, update |-> update, vector |-> vector]
    IN [keys |-> ("k1" :> text("json", 1)) @@ ("k2" :> text("broken", 2)) @@ ("k3" :> text("text", 3)),
        igs |-> ("a" :> ig("json", TRUE, {5}, {("x" :> num(-10)) @@ ("daysMax30" :> num(2))
                                               @@ ("z" :> [num |-> FALSE, n |-> 0])}))
                @@ ("b" :> ig("json", TRUE, {-1}, {("minutes" :> num(1)) @@ ("minutesMax60" :> num(-25))}))
                @@ ("c" :> ig("text", TRUE, {}, {})) @@ ("d" :> ig("json", FALSE, {}, {}))],
  KvHeaders <- {[version |-> {}, v1Only |-> FALSE], [version |-> {256}, v1Only |-> TRUE],
                [version |-> {255}, v1Only |-> FALSE]},
  KvFaults <- {"none", "changed", "notJson", "notArray", "noKeyGroupOutputs", "noKeyValues",
               "noWrapper", "noValue", "tagsNoArray"}

-----------------------------------------------------------------------------
(* Scoring signals: two buyers whose ads share components and render URLs, *)
(* an ad without a render URL, app signals ads; results of two component   *)
(* sellers, with ghost winners that share render URLs.                     *)

Offer(render, comps, group, bid, cur) ==
  [render |-> render, comps |-> comps, group |-> group, bid |-> bid, cur |-> cur, kanon |-> bid > 1,
   ids |-> ("buyerReportingId" :> IF bid = 1 THEN "r" ELSE "")]
AppOffer(render, bid) == [render |-> render, bid |-> bid, cur |-> "", kanon |-> TRUE]
SaleBuyers ==
  LET buyer(owner, bids, app) == [owner |-> owner, bids |-> bids, app |-> app]
  IN <<<<buyer("A", <<Offer("u1", <<"c1", "c2">>, "g2", 1, "USD"), Offer("u2", <<"c2">>, "g1", 2, "")>>, <<>>),
         buyer("B", <<Offer("u3", <<"c2", "c3">>, "g1", 3, "")>>, <<AppOffer("u4", 4), AppOffer("u2", 5)>>)>>,
       <<buyer("A", <<Offer("u1", <<"c1">>, "g1", 1, ""), Offer("u1", <<"c3">>, "g2", 2, "EUR")>>, <<AppOffer("u4", 3)>>),
         buyer("B", <<Offer("", <<"c2">>, "none", 3, ""), Offer("u5", <<"c4", "c4">>, "g1", 4, "")>>, <<>>)>>,
       <<buyer("A", <<Offer("", <<>>, "g1", 1, "")>>, <<AppOffer("", 2)>>)>>,
       <<buyer("A", <<Offer("u5", <<"c5">>, "g1", 2, ""), Offer("u6", <<"c3", "c1">>, "g2", 3, "")>>, <<>>)>>>>
SaleConfig(k) == [plain |-> k \in {1, 2}, compressed |-> k \in {2, 3, 4, 5, 6}, allowed |-> k # 4,
                  unzips |-> k # 5, parses |-> k # 6]
SaleCase(b, client, v2, pas, required) ==
  LET group(n, rec, ms) == [name |-> n, origin |-> "o", joinCount |-> 2, recency |-> rec, recencyMs |-> ms]
  IN [config |-> SaleConfig(1), client |-> client, v2Browser |-> v2, testMode |-> TRUE, v2Empty |-> ~v2,
      pas |-> pas, require |-> required, enforceKAnon |-> pas, fetch |-> TRUE, buyers |-> SaleBuyers[b],
      groups |-> [o \in {"A", "B"} |-> <<group("g1", 130, {}), group("g2", 0, {250000})>>],
      experiment |-> {"e"}, topSeller |-> IF pas THEN "t" ELSE "", publisher |-> "p", results |-> <<>>]
TopSaleCase(k, enforce) ==
  LET ad(seller, owner, render, bid, app, ghosts) ==
        [seller |-> seller, owner |-> owner, group |-> "g", render |-> render, comps |-> <<"c1">>,
         bid |-> bid, cur |-> "", app |-> app, ghosts |-> ghosts]
      g(owner, render, bid) == ad("", owner, render, bid, FALSE, <<>>)
      results == <<<<ad("s1", "A", "u1", 1, FALSE, <<g("B", "u2", 2)>>), ad("s2", "B", "u2", 3, FALSE, <<g("A", "u1", 4)>>)>>,
                   <<ad("s1", "A", "u1", 1, TRUE, <<g("B", "u1", 2)>>), ad("s2", "A", "u1", 3, FALSE, <<>>)>>,
                   <<ad("", "A", "u1", 1, FALSE, <<>>), ad("s1", "A", "", 0, FALSE, <<g("A", "u3", 5), g("B", "u3", 6)>>)>>>>
  IN [SaleCase(1, "browser", FALSE, FALSE, FALSE) EXCEPT !.results = results[k], !.enforceKAnon = enforce]

SS == INSTANCE SellerSignals WITH
  SellCases <-
    LET flag(k, n) == (k \div n) % 2 = 1
    IN [k \in 1 .. 64 |-> SaleCase(1 + (k % 4), IF flag(k, 4) THEN "android" ELSE "browser",
                                   flag(k, 8), flag(k, 16), flag(k, 32))]
       \o [k \in 1 .. 7 |-> [SaleCase(1, "browser", FALSE, TRUE, k > 3) EXCEPT
                                 !.config = SaleConfig(k), !.fetch = FALSE]]
       \o [k \in 1 .. 6 |-> TopSaleCase(1 + (k % 3), k > 3)],
  SellStore <- [renders |-> ("u1" :> 1) @@ ("u2" :> 2) @@ ("u3" :> 3) @@ ("u4" :> 4),
                comps |-> ("c1" :> 11) @@ ("c2" :> 12) @@ ("c3" :> 13) @@ ("c4" :> 14)],
  SellHeaders <- {{}, {255}, {256}},
  SellFaults <- {"none", "changed", "notJson", "notObject", "noRenders", "rendersNoObject"}

-----------------------------------------------------------------------------
paggVars == <<auction, paBids, ghostsLeft, reports, paggStep>>
egressVars == <<schemaCache, egress>>
codecVars == <<codecCase, encoded, codecStep>>
requestVars == <<requestId, failFast, reqErrors, rootInput, toDecode, buyerInputs, reqStep>>
appVars == <<appCase, appInputs, appErrors, getBids, appScoreAds, appStep>>
cipherVars == <<sellerConf, buyerTable, sellerTable, keyPlatforms, cipherRequest,
                cipherResponse, cipherStep>>
reportVars == <<reportCase, draws, sellerSig, buyerSig, reported, toWinner, winArgs,
                reportStep>>
debugVars == <<debugCase, debugSignals, pings, debugUrls, debugStep>>
inferVars == <<framework, docId, parsed, launched, tasks, outputs, collected, response,
               inferStep>>
signalsVars == <<buyId, lookup, byos, kvFault, kvSignals, groupData, bidReq, appReq, buyStep>>
scoringVars == <<saleId, urlLookup, sellFault, scoringSignals, scoreReq, adData,
                 scoreCalls, saleStep>>
vars == <<part, egressVars, paggVars, codecVars, requestVars, appVars, cipherVars, reportVars, debugVars, inferVars, signalsVars, scoringVars>>

NoEgress == schemaCache = 0 /\ egress = 0
NoPAgg ==
  auction = 0 /\ paBids = 0 /\ ghostsLeft = 0 /\ reports = 0 /\ paggStep = 0

NoCodec == codecCase = 0 /\ encoded = 0 /\ codecStep = 0
NoRequest ==
  /\ requestId = 0 /\ failFast = 0 /\ reqErrors = 0 /\ rootInput = 0 /\ toDecode = 0
  /\ buyerInputs = 0 /\ reqStep = 0

NoApp ==
  /\ appCase = 0 /\ appInputs = 0 /\ appErrors = 0 /\ getBids = 0 /\ appScoreAds = 0 /\ appStep = 0
NoCipher ==
  /\ sellerConf = 0 /\ buyerTable = 0 /\ sellerTable = 0 /\ keyPlatforms = 0
  /\ cipherRequest = 0 /\ cipherResponse = 0 /\ cipherStep = 0

NoReport ==
  /\ reportCase = 0 /\ draws = 0 /\ sellerSig = 0 /\ buyerSig = 0 /\ reported = 0
  /\ toWinner = 0 /\ winArgs = 0 /\ reportStep = 0

NoDebug ==
  /\ debugCase = 0 /\ debugSignals = 0 /\ pings = 0 /\ debugUrls = 0 /\ debugStep = 0

NoInfer ==
  /\ framework = "off" /\ docId = 0 /\ parsed = 0 /\ launched = 0 /\ tasks = 0
  /\ outputs = 0 /\ collected = 0 /\ response = 0 /\ inferStep = "off"

NoBuy ==
  /\ buyId = 0 /\ lookup = 0 /\ byos = 0 /\ kvFault = "off" /\ kvSignals = 0 /\ groupData = 0
  /\ bidReq = 0 /\ appReq = 0 /\ buyStep = "off"

NoSale ==
  /\ saleId = 0 /\ urlLookup = 0 /\ sellFault = "off" /\ scoringSignals = 0 /\ scoreReq = 0
  /\ adData = 0 /\ scoreCalls = 0 /\ saleStep = "off"

(* Init and Next *)
Init ==
  /\ part \in {"egress", "pagg", "result", "request", "app", "cipher", "report", "debug", "infer", "signals", "scoring"}
  /\ IF part = "egress" THEN E!EgressInit ELSE NoEgress
  /\ IF part = "pagg" THEN P!PAggInit ELSE NoPAgg
  /\ IF part = "result" THEN A!CodecInit ELSE NoCodec
  /\ IF part = "request" THEN R!RequestInit ELSE NoRequest
  /\ IF part = "app" THEN R!AppInit ELSE NoApp
  /\ IF part = "cipher" THEN CC!CipherInit ELSE NoCipher
  /\ IF part = "report" THEN RP!ReportInit ELSE NoReport
  /\ IF part = "debug" THEN DR!DebugInit ELSE NoDebug
  /\ IF part = "infer" THEN IJ!InferInit ELSE NoInfer
  /\ IF part = "signals" THEN BS!BuyInit ELSE NoBuy
  /\ IF part = "scoring" THEN SS!SaleInit ELSE NoSale

(* The parts that are not there do not move. *)
Frame ==
  /\ UNCHANGED part
  /\ IF part = "egress" THEN TRUE ELSE UNCHANGED egressVars
  /\ IF part = "pagg" THEN TRUE ELSE UNCHANGED paggVars
  /\ IF part = "result" THEN TRUE ELSE UNCHANGED codecVars
  /\ IF part = "request" THEN TRUE ELSE UNCHANGED requestVars
  /\ IF part = "app" THEN TRUE ELSE UNCHANGED appVars
  /\ IF part = "cipher" THEN TRUE ELSE UNCHANGED cipherVars
  /\ IF part = "report" THEN TRUE ELSE UNCHANGED reportVars
  /\ IF part = "debug" THEN TRUE ELSE UNCHANGED debugVars
  /\ IF part = "infer" THEN TRUE ELSE UNCHANGED inferVars
  /\ IF part = "signals" THEN TRUE ELSE UNCHANGED signalsVars
  /\ IF part = "scoring" THEN TRUE ELSE UNCHANGED scoringVars

Next ==
  /\ \/ part = "egress" /\ E!EgressNext
     \/ part = "pagg" /\ P!PAggNext
     \/ part = "result" /\ A!CodecNext
     \/ part = "request" /\ R!RequestNext
     \/ part = "app" /\ R!AppNext
     \/ part = "cipher" /\ CC!CipherNext
     \/ part = "report" /\ RP!ReportNext
     \/ part = "debug" /\ DR!DebugNext
     \/ part = "infer" /\ IJ!InferNext
     \/ part = "signals" /\ BS!BuyNext
     \/ part = "scoring" /\ SS!SaleNext
  /\ Frame

Spec == Init /\ [][Next]_vars


(* A device's request is accepted exactly when it follows the schema, and    *)
(* buyers and component sellers get of it what the device sent, in its       *)
(* place, and can read it.                                                   *)
RequestsReadAsSent ==
  /\ part = "request" =>
       R!AcceptedIffWellTyped /\ R!GroupsKeepTheirPlace /\ R!PrevWinsInBothUnits
  /\ part = "app" => R!SignalsInOnePlace /\ R!GroupsAsSent /\ R!AppBidsVouchedFor
  /\ part = "cipher" => CC!BuyersHaveKeys /\ CC!EverySellerServed

(* Each event is reported once, to the party it is for and for the right     *)
(* outcome, and tells that party no more than it may know.                   *)
ReportsAreRight ==
  /\ part = "pagg" => P!ContributionsReportedOnce /\ P!WinIsReported
  /\ part = "report" =>
       /\ RP!BuyerLearnsNoSellerSecrets /\ RP!NameOnlyWithoutIds /\ RP!UserSignalsAreCoarse
       /\ RP!NumbersAreRounded /\ RP!FirstReportIsKept /\ RP!PayloadsReachTheirParameter
  /\ part = "debug" =>
       DR!OtherBidForTheWinner /\ DR!OutcomesAreRight /\ DR!WinnersUrlsAreReturned

(* Interest groups bid, and ads are scored, with the values of their own     *)
(* keys, by either protocol; what cannot be read is what is named.           *)
SignalsReachTheirOwner ==
  /\ part = "signals" =>
       /\ BS!SignalsOfOwnKeys /\ BS!V2AnswersLikeV1
       /\ BS!PriorityIsItsOwn /\ BS!OddAnswersAreNamed
  /\ part = "scoring" =>
       /\ SS!ScoringLookupsAgree /\ SS!ScoredWithOwnSignals /\ SS!CallsDescribeTheirAd
       /\ SS!TopLevelCallsMatchTheirAd /\ SS!ScoringTroubleIsNamed

(* Every inference request of a batch is answered as itself, and undefined   *)
(* behaviour is named.                                                       *)
BatchesAreAnswered ==
  part = "infer" =>
    IJ!AnswersKeepTheirPlace /\ IJ!ValuesFitTheirType /\ IJ!UndefinedIsExplained
=============================================================================

----------------------------- MODULE MCServices -----------------------------
(* Small instances of the parts beside the main path. *)
EXTENDS Services, TLC

-----------------------------------------------------------------------------
(* The top-level seller: sound requests of both clients, and requests with   *)
(* one flaw; results of two component sellers with one buyer in common.      *)

TopRequest == [hasCiphertext |-> TRUE, hasSignals |-> TRUE, seller |-> "t", domain |-> "t",
               client |-> "browser", currencies |-> ("s1" :> "EUR"), generation |-> "g",
               decrypts |-> TRUE, inputDecodes |-> TRUE, cancellation |-> TRUE, kanon |-> TRUE]
MCTopRequests ==
  {TopRequest, [TopRequest EXCEPT !.client = "android"], [TopRequest EXCEPT !.client = "other"],
   [TopRequest EXCEPT !.client = "unknown", !.seller = ""],
   [TopRequest EXCEPT !.hasCiphertext = FALSE, !.hasSignals = FALSE],
   [TopRequest EXCEPT !.domain = ""], [TopRequest EXCEPT !.currencies = ("" :> "x")],
   [TopRequest EXCEPT !.decrypts = FALSE], [TopRequest EXCEPT !.inputDecodes = FALSE],
   [TopRequest EXCEPT !.cancellation = FALSE, !.kanon = FALSE]}
Won(s, ig) ==
  [seller |-> s, generation |-> "g", topSeller |-> "t", error |-> {}, ghosts |-> {},
   score |-> {[bid |-> 2, adType |-> "audience", urls |-> {"buyerUrl"}, seller |-> s]},
   bids |-> [b |-> {[ig |-> ig, bid |-> 1], [ig |-> "i3", bid |-> 0]}],
   inputs |-> [b |-> <<"i1", "i2", "i3">>], updates |-> ("b" :> s)]
Lost(s) == [Won(s, "i1") EXCEPT !.score = {}]
MCOutcomes ==
  {[sealed |-> TRUE, intact |-> TRUE, outcome |-> o] :
     o \in {Won("s1", "i1"), Won("s2", "i2"), Lost("s1"), Lost("s2"),
            [Lost("s2") EXCEPT !.error = {"failed"}], [Won("s2", "i2") EXCEPT !.generation = "h"],
            [Won("s2", "i2") EXCEPT !.topSeller = "u"],
            [Won("s1", "i1") EXCEPT !.ghosts = {[bid |-> 1, seller |-> "s1"]}],
            [Won("s1", "i2") EXCEPT !.score = {[bid |-> 2, adType |-> "none", seller |-> "s1",
                                                urls |-> {"topUrl"}]}]}}
  \cup {[sealed |-> TRUE, intact |-> FALSE, outcome |-> Won("s1", "i1")],
        [sealed |-> FALSE, intact |-> TRUE, outcome |-> Won("s1", "i1")]}

-----------------------------------------------------------------------------
(* The HTTP fetcher: two fetches, one of them with metadata, and an upload;  *)
(* or nothing to fetch.                                                      *)
Get(headers, redirect) == [method |-> "get", headers |-> headers, redirect |-> redirect, size |-> 0]
Put == [method |-> "put", headers |-> {}, redirect |-> FALSE, size |-> 2]
MCBatches == {<<>>, <<Put>>, <<Get({}, FALSE), Get({"X", "Y", ""}, TRUE)>>}
MCServerHeaders == {"X"}
MCTransferEnds == {"200", "404", "timedout", "malformed"}

-----------------------------------------------------------------------------
(* The periodic fetchers: a script with its WASM helper, and a bucket with   *)
(* two usable blobs and one that has no name; the reportWin code of a buyer, *)
(* and of an origin that is none.                                            *)
MCEndpoints == <<"js", "wasm">>
MCBuyerOrder == <<"b", "x">>

-----------------------------------------------------------------------------
(* Remote calls: every client with every fault it can meet, GetBids with   *)
(* chaffing on or off at each end, two calls of a client that is destroyed *)
(* meanwhile, and the join that goes through the buyer front end.          *)
NoChaff == [seller |-> FALSE, buyer |-> FALSE, generator |-> FALSE, request |-> FALSE]
AllFields == {"browser", "data_type", "instance_hash"}
DialOf(clients, faults) ==
  [clients |-> clients, faults |-> faults, chaff |-> NoChaff, bids |-> <<"u1">>, apps |-> <<"u2">>,
   fields |-> AllFields]
RequestFaults == <<"none", "lost", "noPublicKey", "encryptRefused", "encryptFailed">>
ReplyFaults == <<"replyRefused", "replyFailed">>
ServerFaults == <<"noKeyId", "noCiphertext", "unknownKey", "badCiphertext", "replyNotEncrypted">>
DialAll(client, faults) == [k \in DOMAIN faults |-> DialOf(<<client>>, <<faults[k]>>)]
GetBidsFaults == RequestFaults \o ReplyFaults \o ServerFaults

MCCallCases ==
  LET flag(k, n) == (k \div n) % 2 = 1
  IN DialAll("bidding", RequestFaults \o ReplyFaults \o <<"badReply">>)
     \o DialAll("scoring", RequestFaults \o ReplyFaults \o <<"badReply">>)
     \o DialAll("keyValue", <<"none", "lost", "noPublicKey", "badKeyText", "notPadded", "encryptFailed", "badFrame",
                            "badReply">> \o ReplyFaults)
     \o DialAll("kAnonQuery", RequestFaults \o ReplyFaults \o ServerFaults \o <<"badMessage">>)
     \o DialAll("kAnonJoin", RequestFaults \o ServerFaults \o <<"badMessage">>)
     \o [k \in 1 .. 3 |-> [DialOf(<<"kAnonQuery">>, <<"none">>) EXCEPT
                             !.bids = IF k = 1 THEN <<>> ELSE <<"u1", "u1">>,
                             !.apps = IF k = 2 THEN <<"u3", "u2">> ELSE <<>>]]
     \o [k \in 1 .. 3 |-> [DialOf(<<IF k < 3 THEN "kAnonJoin" ELSE "kAnonQuery">>, <<"none">>) EXCEPT
                             !.fields = AllFields \ {IF k = 1 THEN "browser" ELSE "data_type"}]]
     \o [k \in 1 .. 192 |-> [DialOf(<<"buyer">>, <<GetBidsFaults[1 + ((k \div 16) % 12)]>>) EXCEPT
                               !.chaff = [seller |-> flag(k, 1), buyer |-> flag(k, 2), generator |-> flag(k, 4),
                                          request |-> flag(k, 8) /\ flag(k, 1)],
                               !.apps = <<>>, !.bids = IF flag(k, 2) THEN <<"u1">> ELSE <<>>]]
     \o [k \in 1 .. 4 |-> DialOf(<<IF k < 3 THEN "kAnon" ELSE "seller", IF k < 3 THEN "kAnon" ELSE "seller">>,
                                   <<"none", IF flag(k, 1) THEN "lost" ELSE "none">>)]
     \o [k \in 1 .. 24 |-> DialOf(<<"buyerJoin", "kAnonJoin">>,
                                    <<<<"none", "lost", "unknownKey", "badMessage", "encryptFailed", "badCiphertext">>[1 + (k % 6)],
                                      <<"none", "lost", "unknownKey", "encryptRefused">>[1 + ((k \div 6) % 4)]>>)]
     \o [k \in 1 .. 2 |-> [DialOf(<<"buyerJoin", "kAnonJoin">>, <<"none", "none">>) EXCEPT
                             !.fields = AllFields \ {IF k = 1 THEN "browser" ELSE "instance_hash"}]]
MCUrlHash == ("u1" :> 1) @@ ("u2" :> 2) @@ ("u3" :> 1)

-----------------------------------------------------------------------------
(* Routing: every setting of the flags with one request; batches of up to    *)
(* three requests, to a server twice, to one there is no client for, and     *)
(* beside a second script.                                                   *)
KvBatch(list) == [ok |-> TRUE, list |-> list]
NoKvBatch == [ok |-> FALSE, list |-> <<>>]

MCRouteInputs ==
  LET usual(first, second) == [addr |-> {"kv", "selection"}, tls |-> {"kv", "selection"},
                               reqs |-> <<first, second>>]
  IN {[addr |-> addr, tls |-> tls, reqs |-> <<KvBatch(<<"retrieval">>), NoKvBatch>>] :
        addr \in SUBSET KVServers, tls \in SUBSET KVServers}
     \cup {usual(KvBatch(<<"kv", s, t>>), NoKvBatch) :
             s \in {"kv", "selection"}, t \in {"selection", "retrieval"}}
     \cup {usual(KvBatch(<<"kv", s>>), KvBatch(<<"selection">>)) : s \in {"kv", "retrieval"}}
     \cup {usual(KvBatch(<<>>), KvBatch(<<"other">>))}
=============================================================================

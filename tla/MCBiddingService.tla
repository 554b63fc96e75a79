-------------------------- MODULE MCBiddingService --------------------------
(***************************************************************************)
(* The settings, requests and UDF results the runs of BiddingService       *)
(* consider: one call of every kind is explored.                           *)
(***************************************************************************)
EXTENDS BiddingService

Group(n, d, s) == [name |-> n, device |-> d, serializes |-> s]

MCGroups ==
  {<<>>, <<Group("a", "browser", TRUE), Group("b", "none", TRUE)>>,
   <<Group("a", "browser", FALSE), Group("b", "android", TRUE)>>,
   <<Group("a", "android", TRUE), Group("b", "browser", TRUE),
     Group("c", "none", TRUE)>>}

MCConfigs ==
  {c \in {[kind |-> k, microsoft |-> ms, cancellation |-> c, component |-> c,
    debug |-> d, igs |-> gs] :
     k \in {"v8", "byob"}, ms \in BOOLEAN, c \in BOOLEAN, d \in BOOLEAN,
     gs \in MCGroups} : c.kind = "byob" => ~c.microsoft}

Bid(made, ig, bid, allow, win, loss, events) ==
  [made |-> made, parses |-> TRUE, ig |-> ig, bid |-> bid, allow |-> allow,
   win |-> win, loss |-> loss, events |-> events]

MCOutputs(id) ==
  LET good == Bid(<<id, 1>>, "claimed", 2, TRUE, 3, 2, <<"WIN", "WIN", "LOSS">>)
      Out(st, bs) == [status |-> st, bids |-> bs]
  IN {Out("error", <<>>), Out("unparsable", <<>>), Out("OK", <<>>),
      Out("OK", <<good>>),
      Out("OK", <<Bid(<<id, 2>>, "", 1, FALSE, 0, 4,
                      <<"EVENT_TYPE_UNSPECIFIED">>), good>>),
      Out("OK", <<Bid(<<id, 3>>, "x", 0, TRUE, 1, 1, <<>>),
                  [good EXCEPT !.parses = FALSE, !.made = <<id, 4>>]>>)}

MCAppConfigs ==
  {[kind |-> "pas", binary |-> b, cancellation |-> c, component |-> m,
    adIds |-> i, fetchAds |-> f, limitedEgress |-> l, unlimitedEgress |-> u] :
     b \in BOOLEAN, c \in BOOLEAN, m \in BOOLEAN, i \in BOOLEAN,
     f \in BOOLEAN, l \in BOOLEAN, u \in BOOLEAN}

AppBid(bid, allow, parses) ==
  [bid |-> bid, allow |-> allow, parses |-> parses, egress |-> "json",
   unlimited |-> "json"]

MCAppOutputs ==
  {<<>>, <<AppBid(1, TRUE, TRUE), AppBid(0, TRUE, TRUE)>>,
   <<AppBid(1, FALSE, TRUE), [AppBid(2, TRUE, TRUE) EXCEPT !.egress = ""]>>,
   <<AppBid(1, TRUE, TRUE), AppBid(1, TRUE, FALSE)>>}
=============================================================================

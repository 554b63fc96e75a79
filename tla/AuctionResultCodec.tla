-------------------------- MODULE AuctionResultCodec --------------------------
(***************************************************************************)
(* The auction result as CBOR: what the seller front end encodes for a     *)
(* browser, and the decoder that reads it back for the log and in the      *)
(* tools.  An item is [t, v], its type and its value; a map is a sequence  *)
(* of [k, i].  Encoders return the entries they add, as a set: empty when  *)
(* something could not be added, a singleton otherwise.  Strings are short *)
(* names; a number stands for a float the way it is for an int, and its    *)
(* width is worked out.  {} is an optional field that is not there.        *)
(***************************************************************************)
EXTENDS Integers, Sequences, SequencesExt, FiniteSets, TLC

CONSTANTS
  ResultCases   \* [component, error, score, bidding, updates, debug, nonce, kanon, seller]

VARIABLES
  codecCase,    \* what is encoded
  encoded,      \* the root item, {} before and after a failure
  codecStep     \* start, encoded, failed

codecVars == <<codecCase, encoded, codecStep>>

(* The number of entries each definite map has room for. *)
kNumAuctionResultKeys == 22
kNumWinReportingUrlsKeys == 3
kNumReportingUrlsKeys == 2
kNumDebugReportKeys == 4
kNumDebugReportsKeys == 2
kNumKAnonJoinCandidateKeys == 3
kNumKAnonGhostWinnerKeys == 6
kNumGhostWinnerForTopLevelAuctionKeys == 8
kNumGhostWinnerPrivateAggregationSignalsKeys == 2
kNumErrorKeys == 2

-----------------------------------------------------------------------------
(* Items *)

Item(t, v) == [t |-> t, v |-> v]
KV(key, item) == [k |-> Item("string", key), i |-> item]
Omit == {<<>>}
When(c, entries) == IF c THEN entries ELSE Omit
All(parts) ==
  IF \E i \in DOMAIN parts : parts[i] = {} THEN {}
  ELSE {FlattenSeq([i \in DOMAIN parts |-> CHOOSE e \in parts[i] : TRUE])}

(* cbor_map_add to a definite map fails when the map is full. *)
CborMap(room, parts) == {Item("map", e) : e \in {x \in All(parts) : Len(x) <= room}}
CborArray(items) == Item("array", items)
Entry(key, items) == {<<KV(key, i)>> : i \in items}
SeqOfItems(sets) ==
  IF \E i \in DOMAIN sets : sets[i] = {} THEN {}
  ELSE {CborArray([i \in DOMAIN sets |-> CHOOSE e \in sets[i] : TRUE])}

Abs(n) == IF n < 0 THEN -n ELSE n
FitsFloat(n, bits) == \E e \in 0..5 : n % 2^e = 0 /\ Abs(n) \div 2^e < 2^bits

(* The narrowest float that holds the value. *)
cbor_build_float(n) ==
  [t |-> "float", v |-> n,
   w |-> IF FitsFloat(n, 11) THEN 16 ELSE IF FitsFloat(n, 24) THEN 32 ELSE 64]
cbor_build_uint(n) == Item("int", n)   \* no argument is negative
cbor_build_int(n) == Item("int", n)

CborSerializeString(key, s) == {<<KV(key, Item("string", s))>>}
CborSerializeByteString(key, s) == {<<KV(key, Item("bytes", s))>>}
CborSerializeFloat(key, n) == {<<KV(key, cbor_build_float(n))>>}
CborSerializeBool(key, b) == {<<KV(key, Item("bool", b))>>}
CborSerializeInt(key, n) == {<<KV(key, cbor_build_int(n))>>}
CborSerializeStrings(key, type, ss) ==
  {<<KV(key, CborArray([i \in DOMAIN ss |-> Item(type, ss[i])]))>>}

CborSerializeAdComponentUrls(key, urls) == CborSerializeStrings(key, "string", urls)

-----------------------------------------------------------------------------
(* Encoding *)

CborSerializekAnonJoinCandidates(key, c) ==
  Entry(key, CborMap(kNumKAnonJoinCandidateKeys,
    <<CborSerializeByteString("adRenderURLHash", c.render),
      CborSerializeByteString("reportingIdHash", c.reporting),
      CborSerializeStrings("adComponentRenderURLsHash", "bytes", c.components)>>))

(* A ghost without a positive modified bid is refused. *)
CborSerializekAnonGhostWinnerForTopLevelAuction(key, g) ==
  IF g.modifiedBid <= 0 THEN {}
  ELSE Entry(key, CborMap(kNumGhostWinnerForTopLevelAuctionKeys,
    <<When(g.metadata # "", CborSerializeString("adMetadata", g.metadata)),
      CborSerializeString("adRenderURL", g.url),
      When(g.currency # "", CborSerializeString("bidCurrency", g.currency)),
      CborSerializeFloat("modifiedBid", g.modifiedBid),
      When(g.buyerId # {}, UNION {CborSerializeString("buyerReportingId", x) : x \in g.buyerId}),
      CborSerializeStrings("adComponentRenderURLs", "string", g.components),
      When(g.bothId # {},
           UNION {CborSerializeString("buyerAndSellerReportingId", x) : x \in g.bothId}),
      When(g.selectedId # {},
           UNION {CborSerializeString("selectedBuyerAndSellerReportingId", x) :
                    x \in g.selectedId})>>))

CborSerializekAnonGhostWinnerPrivateAggSignal(s) ==
  CborMap(kNumGhostWinnerPrivateAggregationSignalsKeys,
    <<CborSerializeInt("value", s.value), CborSerializeByteString("bucket", s.bucket)>>)

CborSerializekAnonGhostWinnerPrivateAggSignals(key, signals) ==
  Entry(key, SeqOfItems([i \in DOMAIN signals |->
                           CborSerializekAnonGhostWinnerPrivateAggSignal(signals[i])]))

CborSerializeKAnonGhostWinner(g) ==
  CborMap(kNumKAnonGhostWinnerKeys,
    <<CborSerializeString("owner", g.owner),
      CborSerializeString("interestGroupName", g.ig),
      CborSerializeInt("interestGroupIndex", g.index),
      CborSerializekAnonJoinCandidates("kAnonJoinCandidates", g.candidates),
      When(g.top # {}, UNION {CborSerializekAnonGhostWinnerForTopLevelAuction(
                                "ghostWinnerForTopLevelAuction", t) : t \in g.top}),
      When(g.signals # <<>>, CborSerializekAnonGhostWinnerPrivateAggSignals(
                               "ghostWinnerPrivateAggregationSignals", g.signals))>>)

CborSerializeKAnonGhostWinners(ghosts) ==
  Entry("kAnonGhostWinners",
        SeqOfItems([i \in DOMAIN ghosts |-> CborSerializeKAnonGhostWinner(ghosts[i])]))

(* Owners and events go out shortest first, then in the order of the         *)
(* alphabet, which is how the sequences of a case list them already.         *)
CborSerializeUpdateGroups(groups) ==
  Entry("updateGroups", CborMap(Len(groups), [i \in DOMAIN groups |->
    Entry(groups[i].owner, SeqOfItems([j \in DOMAIN groups[i].list |->
      CborMap(2, <<CborSerializeInt("index", groups[i].list[j].index),
                   CborSerializeInt("updateIfOlderThanMs", groups[i].list[j].ms)>>)]))]))

CborSerializeBiddingGroups(groups) ==
  Entry("biddingGroups", CborMap(Len(groups), [i \in DOMAIN groups |->
    {<<KV(groups[i].owner, CborArray([j \in DOMAIN groups[i].list |->
                             cbor_build_uint(groups[i].list[j])]))>>}]))

CborSerializeDebugReports(reports) ==
  When(reports # <<>>, Entry("debugReports", SeqOfItems([i \in DOMAIN reports |->
    CborMap(kNumDebugReportsKeys,
      <<Entry("reports", SeqOfItems([j \in DOMAIN reports[i].list |->
          CborMap(kNumDebugReportKeys,
            <<CborSerializeString("url", reports[i].list[j].url),
              CborSerializeBool("isWinReport", reports[i].list[j].win),
              CborSerializeBool("componentWin", reports[i].list[j].component),
              CborSerializeBool("isSellerReport", reports[i].list[j].seller)>>)])),
        CborSerializeString("adTechOrigin", reports[i].owner)>>)])))

CborSerializeInteractionReportingUrls(urls) ==
  Entry("interactionReportingURLs", CborMap(Len(urls),
    [i \in DOMAIN urls |-> CborSerializeString(urls[i].event, urls[i].url)]))

CborSerializeReportingUrls(key, r) ==
  When(r.url # "" \/ r.interaction # <<>>,
    Entry(key, CborMap(kNumReportingUrlsKeys,
      <<When(r.url # "", CborSerializeString("reportingURL", r.url)),
        When(r.interaction # <<>>, CborSerializeInteractionReportingUrls(r.interaction))>>)))

(* Mutant: only the buyer's URLs decide whether there is anything to send. *)
CborSerializeWinReportingUrlsBuyerOnly(w) ==
  When(w.buyer # {}, Entry("winReportingURLs", CborMap(kNumWinReportingUrlsKeys,
    <<UNION {CborSerializeReportingUrls("buyerReportingURLs", r) : r \in w.buyer}>>)))

(* Without the buyer's and the top-level seller's URLs the component         *)
(* seller's are not sent either.                                             *)
CborSerializeWinReportingUrls(w) ==
  When(w.buyer # {} \/ w.top # {},
    Entry("winReportingURLs", CborMap(kNumWinReportingUrlsKeys,
      <<When(w.buyer # {},
             UNION {CborSerializeReportingUrls("buyerReportingURLs", r) : r \in w.buyer}),
        When(w.top # {},
             UNION {CborSerializeReportingUrls("topLevelSellerReportingURLs", r) : r \in w.top}),
        When(w.component # {},
             UNION {CborSerializeReportingUrls("componentSellerReportingURLs", r) :
                      r \in w.component})>>)))

Ghosts(kanon) == UNION {k.ghosts : k \in kanon}
WinnerCandidates(kanon) == UNION {k.winner : k \in kanon}
GhostEntry(kanon) ==
  When(Ghosts(kanon) # {}, UNION {CborSerializeKAnonGhostWinners(g) : g \in Ghosts(kanon)})
WinnerJoinEntries(kanon) ==
  <<When(WinnerCandidates(kanon) # {},
         UNION {CborSerializekAnonJoinCandidates("kAnonWinnerJoinCandidates", w) :
                  w \in WinnerCandidates(kanon)}),
    When(WinnerCandidates(kanon) # {},
         UNION {CborSerializeInt("kAnonWinnerPositionalIndex", k.position) : k \in kanon})>>
NonceEntry(nonce) == When(nonce # "", CborSerializeString("nonce", nonce))

(* The contributions are encoded one by one as PrivateAggregation has them. *)
CborSerializeScoreAdResponse(c, s) ==
  <<CborSerializeFloat("bid", s.buyerBid), NonceEntry(c.nonce),
    CborSerializeFloat("score", s.desirability), CborSerializeBool("isChaff", FALSE),
    CborSerializeAdComponentUrls("components", s.components),
    CborSerializeString("adRenderURL", s.render),
    When(s.contributions # <<>>, {<<KV("paggResponse", CborArray(s.contributions))>>}),
    CborSerializeUpdateGroups(c.updates), CborSerializeBiddingGroups(c.bidding),
    When(s.buyerReportingId # "",
         CborSerializeString("buyerReportingId", s.buyerReportingId)),
    CborSerializeWinReportingUrls(s.urls), CborSerializeString("interestGroupName", s.ig),
    GhostEntry(c.kanon), CborSerializeString("interestGroupOwner", s.owner),
    CborSerializeBool("microsoftWinnerIsKAnon", s.isKAnon)>> \o WinnerJoinEntries(c.kanon)

(* A result for another seller's auction: the modified bid, which must be    *)
(* positive, and what that seller needs to score the ad.                     *)
CborSerializeComponentScoreAdResponse(c, s) ==
  IF s.bid <= 0 THEN <<{}>>
  ELSE
  <<CborSerializeFloat("bid", s.bid), NonceEntry(c.nonce),
    CborSerializeFloat("score", s.desirability), CborSerializeBool("isChaff", FALSE),
    When(s.metadata # "", CborSerializeString("adMetadata", s.metadata)),
    CborSerializeAdComponentUrls("components", s.components),
    CborSerializeString("adRenderURL", s.render),
    When(s.currency # "", CborSerializeString("bidCurrency", s.currency)),
    CborSerializeDebugReports(c.debug),
    CborSerializeUpdateGroups(c.updates), CborSerializeBiddingGroups(c.bidding),
    CborSerializeString("topLevelSeller", c.seller),
    CborSerializeWinReportingUrls(s.urls), CborSerializeString("interestGroupName", s.ig),
    GhostEntry(c.kanon), CborSerializeString("interestGroupOwner", s.owner),
    CborSerializeBool("microsoftWinnerIsKAnon", s.isKAnon)>> \o WinnerJoinEntries(c.kanon)

CborSerializeError(e) ==
  Entry("error", CborMap(kNumErrorKeys,
    <<{<<KV("code", cbor_build_uint(e.code))>>}, CborSerializeString("message", e.message)>>))

(* An error, a winner, ghost winners alone, or chaff. *)
EncodeWith(Score(_, _), c) ==
  CborMap(kNumAuctionResultKeys,
    IF c.error # {}
    THEN <<UNION {CborSerializeError(e) : e \in c.error}, NonceEntry(c.nonce)>>
    ELSE IF c.score # {} THEN Score(c, CHOOSE s \in c.score : TRUE)
    ELSE IF Ghosts(c.kanon) # {} THEN <<NonceEntry(c.nonce), GhostEntry(c.kanon)>>
    ELSE <<NonceEntry(c.nonce), CborSerializeBool("isChaff", TRUE)>>)

Encode(c) == EncodeWith(CborSerializeScoreAdResponse, c)
EncodeComponent(c) == EncodeWith(CborSerializeComponentScoreAdResponse, c)

-----------------------------------------------------------------------------
(* Decoding.  A value whose type is not looked at is taken as it is. *)

Typed(item, t) == IF item.t = t THEN {item.v} ELSE {}
Keys(item) == {item.v[i].k.v : i \in DOMAIN item.v}
Get(item, key) ==   \* what is set twice keeps the last
  item.v[CHOOSE i \in DOMAIN item.v : item.v[i].k.v = key /\
           \A j \in DOMAIN item.v : item.v[j].k.v = key => j <= i].i
GetOr(item, key, default) == IF key \in Keys(item) THEN Get(item, key).v ELSE default
OptionalOf(item, key) == IF key \in Keys(item) THEN {Get(item, key).v} ELSE {}
Items(item) == {item.v[i] : i \in DOMAIN item.v}

CborDecodeStringsArrToProto(item) == [i \in DOMAIN item.v |-> item.v[i].v]

CborDecodeUpdateGroupMapToProto(item) ==
  IF \E e \in Items(item) : e.k.t # "string" \/ e.i.t # "array" THEN {}
  ELSE {{[owner |-> e.k.v,
          list |-> [j \in DOMAIN e.i.v |-> [index |-> Get(e.i.v[j], "index").v,
                                            ms |-> Get(e.i.v[j], "updateIfOlderThanMs").v]]] :
           e \in Items(item)}}

CborDecodeInterestGroupToProto(item) ==
  IF \E e \in Items(item) : e.k.t # "string" \/ e.i.t # "array" THEN {}
  ELSE {{[owner |-> e.k.v, list |-> [j \in DOMAIN e.i.v |-> e.i.v[j].v]] : e \in Items(item)}}

CborDecodeErrorToProto(item) ==
  IF Keys(item) \subseteq {"message", "code"}
  THEN {[message |-> GetOr(item, "message", ""), code |-> GetOr(item, "code", 0)]} ELSE {}

CborDecodeInteractionReportingUrlMapToProto(item) ==
  {[event |-> e.k.v, url |-> e.i.v] : e \in Items(item)}

CborDecodeReportingUrls(item) ==
  [url |-> GetOr(item, "reportingURL", ""),
   interaction |-> IF "interactionReportingURLs" \in Keys(item)
                   THEN CborDecodeInteractionReportingUrlMapToProto(
                          Get(item, "interactionReportingURLs"))
                   ELSE {}]

CborDecodeReportingUrlsToProto(item) ==
  LET part(key) == IF key \in Keys(item) THEN {CborDecodeReportingUrls(Get(item, key))} ELSE {}
  IN {[buyer |-> part("buyerReportingURLs"), top |-> part("topLevelSellerReportingURLs"),
       component |-> part("componentSellerReportingURLs")]}

CborDecodeDebugReportToProto(item) ==
  [url |-> GetOr(item, "url", ""), win |-> GetOr(item, "isWinReport", FALSE),
   component |-> GetOr(item, "componentWin", FALSE),
   seller |-> GetOr(item, "isSellerReport", FALSE)]

CborDecodeDebugReportsToProto(item) ==
  {{[owner |-> Get(r, "adTechOrigin").v,
     list |-> [j \in DOMAIN Get(r, "reports").v |->
                 CborDecodeDebugReportToProto(Get(r, "reports").v[j])]] : r \in Items(item)}}

CborDecodeKAnonJoinCandidatesToProto(item) ==
  IF Keys(item) \cap {"adRenderURLHash", "reportingIdHash", "adComponentRenderURLsHash"} = {}
  THEN {}
  ELSE {[render |-> GetOr(item, "adRenderURLHash", ""),
         reporting |-> GetOr(item, "reportingIdHash", ""),
         components |-> CborDecodeStringsArrToProto(Get(item, "adComponentRenderURLsHash"))]}

CborDecodeGhostWinnerForTopLevelAuctionToProto(item) ==
  {[metadata |-> GetOr(item, "adMetadata", ""), url |-> GetOr(item, "adRenderURL", ""),
    currency |-> GetOr(item, "bidCurrency", ""), modifiedBid |-> GetOr(item, "modifiedBid", 0),
    buyerId |-> OptionalOf(item, "buyerReportingId"),
    components |-> CborDecodeStringsArrToProto(Get(item, "adComponentRenderURLs")),
    bothId |-> OptionalOf(item, "buyerAndSellerReportingId"),
    selectedId |-> OptionalOf(item, "selectedBuyerAndSellerReportingId")]}

CborDecodePrivateAggregateSignalToProto(item) ==
  [value |-> Get(item, "value").v, bucket |-> Get(item, "bucket").v]

CborDecodePrivateAggregateSignalsToProto(item) ==
  [i \in DOMAIN item.v |-> CborDecodePrivateAggregateSignalToProto(item.v[i])]

CborDecodeKAnonGhostWinnerToProto(item) ==
  {[owner |-> GetOr(item, "owner", ""), ig |-> GetOr(item, "interestGroupName", ""),
    index |-> GetOr(item, "interestGroupIndex", 0), candidates |-> c,
    top |-> IF "ghostWinnerForTopLevelAuction" \in Keys(item)
            THEN CborDecodeGhostWinnerForTopLevelAuctionToProto(
                   Get(item, "ghostWinnerForTopLevelAuction")) ELSE {},
    signals |-> IF "ghostWinnerPrivateAggregationSignals" \in Keys(item)
                THEN CborDecodePrivateAggregateSignalsToProto(
                       Get(item, "ghostWinnerPrivateAggregationSignals")) ELSE <<>>] :
     c \in CborDecodeKAnonJoinCandidatesToProto(Get(item, "kAnonJoinCandidates"))}

CborDecodeKAnonGhostWinnersToProto(item) ==
  LET each == [i \in DOMAIN item.v |-> CborDecodeKAnonGhostWinnerToProto(item.v[i])]
  IN IF \E i \in DOMAIN each : each[i] = {} THEN {}
     ELSE {[i \in DOMAIN each |-> CHOOSE g \in each[i] : TRUE]}

(* Every field checks its type; a key that is not known is passed over. *)
RootField(key, item) ==
  CASE key \in {"score", "bid"} -> Typed(item, "float")
    [] key \in {"isChaff", "microsoftWinnerIsKAnon"} -> Typed(item, "bool")
    [] key \in {"adRenderURL", "interestGroupName", "interestGroupOwner", "adMetadata",
                "topLevelSeller", "bidCurrency", "buyerReportingId", "nonce"} ->
         Typed(item, "string")
    [] key = "components" -> IF item.t = "array" THEN {CborDecodeStringsArrToProto(item)} ELSE {}
    [] key = "biddingGroups" -> IF item.t = "map" THEN CborDecodeInterestGroupToProto(item) ELSE {}
    [] key = "updateGroups" -> IF item.t = "map" THEN CborDecodeUpdateGroupMapToProto(item) ELSE {}
    [] key = "error" -> IF item.t = "map" THEN CborDecodeErrorToProto(item) ELSE {}
    [] key = "winReportingURLs" ->
         IF item.t = "map" THEN CborDecodeReportingUrlsToProto(item) ELSE {}
    [] key = "paggResponse" -> Typed(item, "array")
    [] key = "kAnonGhostWinners" ->
         IF item.t = "array" THEN CborDecodeKAnonGhostWinnersToProto(item) ELSE {}
    [] key = "kAnonWinnerJoinCandidates" ->
         IF item.t = "map" THEN CborDecodeKAnonJoinCandidatesToProto(item) ELSE {}
    [] key = "kAnonWinnerPositionalIndex" -> Typed(item, "int")
    [] key = "debugReports" -> IF item.t = "array" THEN CborDecodeDebugReportsToProto(item) ELSE {}

CborDecodeAuctionResultAndNonceToProto(root) ==
  IF root.t # "map" \/ \E key \in Keys(root) : RootField(key, Get(root, key)) = {} THEN {}
  ELSE {[key \in Keys(root) |-> CHOOSE v \in RootField(key, Get(root, key)) : TRUE]}

-----------------------------------------------------------------------------
CodecInit == codecCase \in ResultCases /\ encoded = {} /\ codecStep = "start"

(* GetNonEncryptedResponse: the scope of the auction picks the encoder. *)
EncodeResult ==
  /\ codecStep = "start"
  /\ encoded' = IF codecCase.component THEN EncodeComponent(codecCase) ELSE Encode(codecCase)
  /\ codecStep' = IF encoded' = {} THEN "failed" ELSE "encoded"
  /\ UNCHANGED codecCase

CodecNext == EncodeResult

-----------------------------------------------------------------------------
(* What the reader of a result should find in it. *)
AsSet(s) == {s[i] : i \in DOMAIN s}
SentUrls(w) ==
  LET sent(p) == {[url |-> r.url, interaction |-> AsSet(r.interaction)] :
                    r \in {x \in p : x.url # "" \/ x.interaction # <<>>}}
  IN [buyer |-> sent(w.buyer), top |-> sent(w.top), component |-> sent(w.component)]

(* The reader gets back exactly the outcome that was encoded: an error, the  *)
(* winner with its price, reporting URLs, updates and k-anonymity join data, *)
(* the ghost winners, or chaff, and the nonce with each.  The one loss is    *)
(* named: a component seller's URLs go with nobody else's.                   *)
ResultRoundTrip ==
  codecStep = "encoded" => \A root \in encoded :
    LET d == CborDecodeAuctionResultAndNonceToProto(root)
        c == codecCase
    IN /\ d # {}
       /\ \A r \in d :
            /\ ("nonce" \in DOMAIN r) = (c.nonce # "")
            /\ c.nonce # "" => r.nonce = c.nonce
            /\ CASE c.error # {} -> {r.error} = c.error
                 [] c.error = {} /\ c.score # {} -> \A s \in c.score :
                      /\ r.bid = IF c.component THEN s.bid ELSE s.buyerBid
                      /\ r.score = s.desirability /\ ~r.isChaff
                      /\ r.adRenderURL = s.render /\ r.components = s.components
                      /\ r.interestGroupOwner = s.owner /\ r.interestGroupName = s.ig
                      /\ r.updateGroups = AsSet(c.updates)
                      /\ r.biddingGroups = AsSet(c.bidding)
                      /\ s.urls.buyer \cup s.urls.top # {} =>
                           r.winReportingURLs = SentUrls(s.urls)
                      /\ c.component /\ c.debug # <<>> => r.debugReports = AsSet(c.debug)
                      /\ \A g \in Ghosts(c.kanon) : r.kAnonGhostWinners = g
                      /\ \A w \in WinnerCandidates(c.kanon) :
                           r.kAnonWinnerJoinCandidates = w
                 [] OTHER -> IF Ghosts(c.kanon) # {}
                             THEN {r.kAnonGhostWinners} = Ghosts(c.kanon) ELSE r.isChaff

(* A result fails to encode only for a bid that is not positive: every       *)
(* definite map has room for all the entries that can go into it.            *)
OnlyBadBidsFail ==
  codecStep = "failed" =>
    \/ codecCase.component /\ \E s \in codecCase.score : s.bid <= 0
    \/ \E g \in Ghosts(codecCase.kanon) : \E i \in DOMAIN g : \E t \in g[i].top : t.modifiedBid <= 0

Alphabet ==
  <<"adMetadata", "adRenderURL", "adRenderURLHash", "bidCurrency", "bucket",
    "buyerReportingId", "buyerReportingURLs", "click", "code", "components", "debugReports",
    "error", "interestGroupName", "kAnonGhostWinners", "modifiedBid", "nonce", "o1", "o2",
    "paggResponse", "reportingIdHash", "reports", "score", "updateGroups", "value", "view",
    "winReportingURLs">>
Rank(key) == IF \E i \in DOMAIN Alphabet : Alphabet[i] = key
             THEN CHOOSE i \in DOMAIN Alphabet : Alphabet[i] = key ELSE 0
Before(a, b) == Len(a) < Len(b) \/ (Len(a) = Len(b) /\ Rank(a) < Rank(b))

RECURSIVE Canonical(_)
Canonical(item) ==
  CASE item.t = "map" ->
         /\ \A i \in 1..(Len(item.v) - 1) : Before(item.v[i].k.v, item.v[i + 1].k.v)
         /\ \A i \in DOMAIN item.v : Canonical(item.v[i].i)
    [] item.t = "array" -> \A i \in DOMAIN item.v : Canonical(item.v[i])
    [] OTHER -> TRUE

(* "Order keys by length first and then lexicographically": in every map of  *)
(* a result, however deep, the keys are in canonical order, so that equal    *)
(* results have equal bytes.                                                 *)
CanonicalKeys == \A root \in encoded : Canonical(root)
=============================================================================

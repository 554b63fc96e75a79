---------------------------- MODULE DebugReporting ----------------------------
(***************************************************************************)
(* Debug reports of the seller front end: after the auction each buyer's   *)
(* bid that asked for it is told of its win or its loss by a request to    *)
(* its URL, with the placeholders in the URL replaced; the winner of a     *)
(* component auction may still lose, so that both of its URLs are returned *)
(* instead.  A URL is a sequence of placeholders and other text; <<>> is   *)
(* none.  An option is a set of at most one element.                       *)
(***************************************************************************)
EXTENDS Integers, Sequences, FiniteSets, SequencesExt, TLC

CONSTANTS
  DebugCases,      \* [enabled, component, seller, currency, bids, winner, sellerUrls]
  RejectionReasons \* the reasons with a name of their own

VARIABLES
  debugCase,
  debugSignals,  \* post_auction_signals
  pings,         \* the requests made, in order
  debugUrls,     \* adtech_origin_debug_urls_map_
  debugStep

debugVars == <<debugCase, debugSignals, pings, debugUrls, debugStep>>

Unknown == "???"

-----------------------------------------------------------------------------
(* The rejection reason of an interest group: the first one given for it. *)
ReasonsOf(reasons) ==
  [g \in {[owner |-> reasons[i].owner, ig |-> reasons[i].ig] : i \in DOMAIN reasons} |->
     reasons[CHOOSE i \in DOMAIN reasons :
               /\ reasons[i].owner = g.owner /\ reasons[i].ig = g.ig
               /\ \A j \in 1 .. (i - 1) : reasons[j].owner # g.owner \/ reasons[j].ig # g.ig].why]

NoWinner(currency) ==
  [owner |-> "", ig |-> "", bid |-> 0, bidInSellerCurrency |-> 0, sellerCurrency |-> currency,
   other |-> 0, otherOwner |-> {}, reasons |-> <<>>]

(* Of the owners of the highest scoring other bid the map's first, which may *)
(* be any, stands for them.                                                  *)
GeneratePostAuctionSignals(winner, currency) ==
  IF winner = {} THEN {NoWinner(currency)}
  ELSE LET w == CHOOSE x \in winner : TRUE
           signals(o) == [owner |-> w.owner, ig |-> w.ig, bid |-> w.bid,
                          bidInSellerCurrency |-> w.converted, sellerCurrency |-> currency,
                          other |-> IF o = {} THEN 0 ELSE w.others[CHOOSE x \in o : TRUE],
                          otherOwner |-> o, reasons |-> ReasonsOf(w.reasons)]
       IN IF DOMAIN w.others = {} THEN {signals({})} ELSE {signals({o}) : o \in DOMAIN w.others}

ToSellerRejectionReasonString(r) == IF r \in RejectionReasons THEN r ELSE "not-available"

GetPlaceholderDataForInterestGroup(owner, ig, s) ==
  LET g == [owner |-> owner, ig |-> ig]
      converted == s.sellerCurrency # ""
  IN [winningBid |-> IF converted THEN s.bidInSellerCurrency ELSE s.bid,
      currency |-> IF converted THEN s.sellerCurrency ELSE Unknown,
      madeWinningBid |-> owner = s.owner,
      other |-> s.other, madeOther |-> s.otherOwner = {owner},
      reason |-> IF g \in DOMAIN s.reasons THEN s.reasons[g] ELSE "not-available"]

(* A winner's placeholders for the other bid are listed a second time. *)
Replacements(d, wins) ==
  LET own(v, default) == IF wins THEN <<default, v>> ELSE <<default>>
  IN ("winningBid" :> <<d.winningBid>>) @@ ("winningBidCurrency" :> <<d.currency>>)
     @@ ("madeWinningBid" :> <<d.madeWinningBid>>)
     @@ ("rejectReason" :> <<ToSellerRejectionReasonString(d.reason)>>)
     @@ ("highestScoringOtherBid" :> own(d.other, 0))
     @@ ("highestScoringOtherBidCurrency" :> <<d.currency>>)
     @@ ("madeHighestScoringOtherBid" :> own(d.madeOther, FALSE))

(* absl::StrReplaceAll: of two replacements of one text the later one is     *)
(* used where it first occurs and the other at its next occurrence, in turn. *)
(* Each element becomes [text, value], value an option.                      *)
StrReplaceAll(url, reps) ==
  [i \in DOMAIN url |->
     IF url[i] \notin DOMAIN reps THEN [text |-> url[i], value |-> {}]
     ELSE LET nth == Cardinality({j \in 1 .. i : url[j] = url[i]})
              vs == reps[url[i]]
          IN [text |-> url[i], value |-> {IF nth % 2 = 1 THEN Last(vs) ELSE Head(vs)}]]

(* Mutant: the other bid is given to every interest group. *)
CreateUrlForAll(url, d, wins) == StrReplaceAll(url, Replacements(d, TRUE))
CreateDebugReportingUrlForInterestGroup(url, d, wins) == StrReplaceAll(url, Replacements(d, wins))

Report(url, win, seller) == [url |-> url, win |-> win, seller |-> seller]
Reports(win, loss, seller) ==
  (IF win = <<>> THEN <<>> ELSE <<Report(win, TRUE, seller)>>)
  \o (IF loss = <<>> THEN <<>> ELSE <<Report(loss, FALSE, seller)>>)

PopulateBuyerDebugReportsForComponentAuctionWinner(urls, b, s) ==
  LET d == GetPlaceholderDataForInterestGroup(s.owner, b.ig, s)
      r == Reports(CreateDebugReportingUrlForInterestGroup(b.win, d, TRUE),
                   CreateDebugReportingUrlForInterestGroup(b.loss, d, TRUE), FALSE)
  IN IF b.win = <<>> /\ b.loss = <<>> THEN urls ELSE (s.owner :> r) @@ urls

PopulateSellerDebugReportsForComponentAuctionWinner(urls, seller, win, loss) ==
  LET old == IF seller \in DOMAIN urls THEN urls[seller] ELSE <<>>
      r == old \o Reports(win, loss, TRUE)
  IN IF r = <<>> THEN urls ELSE (seller :> r) @@ urls

IsWinningIg(b, s) == s.owner = b.owner /\ b.ig = s.ig

(* One bid of the loop: the pings made and the URLs kept so far. *)
ReportBid(acc, b, s) ==
  LET wins == IsWinningIg(b, s)
      url == IF wins THEN b.win ELSE b.loss
      d == GetPlaceholderDataForInterestGroup(b.owner, b.ig, s)
  IN IF url = <<>> THEN acc
     ELSE IF wins /\ debugCase.component
     THEN [acc EXCEPT !.urls = PopulateBuyerDebugReportsForComponentAuctionWinner(@, b, s)]
     ELSE [acc EXCEPT !.pings = Append(@, [bid |-> b, win |-> wins,
             url |-> CreateDebugReportingUrlForInterestGroup(url, d, wins)])]

-----------------------------------------------------------------------------
DebugInit ==
  /\ debugCase \in DebugCases
  /\ debugSignals = NoWinner("") /\ pings = <<>> /\ debugUrls = <<>> /\ debugStep = "scored"

PerformDebugReporting ==
  /\ debugStep = "scored"
  /\ debugStep' = "done"
  /\ IF ~debugCase.enabled THEN UNCHANGED <<debugSignals, pings, debugUrls>>
     ELSE \E s \in GeneratePostAuctionSignals(debugCase.winner, debugCase.currency) :
            LET done == FoldLeft(LAMBDA acc, b : ReportBid(acc, b, s),
                                 [pings |-> <<>>, urls |-> <<>>], debugCase.bids)
                plain(u) == StrReplaceAll(u, <<>>)
            IN /\ debugSignals' = s /\ pings' = done.pings
               /\ debugUrls' = IF debugCase.winner = {} \/ debugCase.sellerUrls = {} THEN done.urls
                    ELSE LET u == CHOOSE x \in debugCase.sellerUrls : TRUE
                         IN PopulateSellerDebugReportsForComponentAuctionWinner(
                              done.urls, debugCase.seller, plain(u.win), plain(u.loss))
  /\ UNCHANGED debugCase

DebugNext == PerformDebugReporting

-----------------------------------------------------------------------------
Told(url, p) == UNION {url[i].value : i \in {j \in DOMAIN url : url[j].text = p}}
OnlyOnce(url) == \A i, j \in DOMAIN url : i # j => url[i].text # url[j].text
Winner == CHOOSE w \in debugCase.winner : TRUE

(* The bid that came second is told to the winner and to nobody else, and to *)
(* the winner as it was; a URL that asks for it twice is told it only the    *)
(* first time.                                                               *)
OtherBidForTheWinner ==
  /\ \A i \in DOMAIN pings :
       LET p == pings[i] IN
       IF p.win THEN OnlyOnce(p.url) =>
                       Told(p.url, "highestScoringOtherBid") \subseteq
                         {Winner.others[o] : o \in DOMAIN Winner.others}
                         \cup (IF DOMAIN Winner.others = {} THEN {0} ELSE {})
       ELSE Told(p.url, "highestScoringOtherBid") \subseteq {0}
            /\ Told(p.url, "madeHighestScoringOtherBid") \subseteq {FALSE}
  /\ \A o \in DOMAIN debugUrls : \A i \in DOMAIN debugUrls[o] :
       ~debugUrls[o][i].seller => debugCase.winner # {} /\ o = Winner.owner

(* A bid is told it won only if its interest group did, and everyone is told *)
(* the winning bid in one currency: the seller's, when it has one, and the   *)
(* bid converted to it.  A bid that won hears nothing of a loss.             *)
OutcomesAreRight ==
  \A i \in DOMAIN pings :
    LET p == pings[i]
        won == debugCase.winner # {} /\ p.bid.owner = Winner.owner /\ p.bid.ig = Winner.ig
        amount == IF debugCase.winner = {} THEN 0
                  ELSE IF debugCase.currency # "" THEN Winner.converted ELSE Winner.bid
    IN /\ p.win <=> won
       /\ won => ~debugCase.component
       /\ Told(p.url, "winningBid") \subseteq {amount}
       /\ Told(p.url, "winningBidCurrency") \subseteq
            {IF debugCase.currency # "" THEN debugCase.currency ELSE Unknown}

(* In a component auction the response has every URL of the winning bid and  *)
(* of the seller for it, whoever they belong to.  A winning bid with no win  *)
(* URL is passed over, and of several bids of the winning interest group the *)
(* last one's URLs stay.                                                     *)
WinnersUrlsAreReturned ==
  debugStep = "done" /\ debugCase.enabled /\ debugCase.component /\ debugCase.winner # {} =>
    LET mine == SelectSeq(debugCase.bids, LAMBDA b : IsWinningIg(b, debugSignals))
        kept(o, seller) ==
          IF o \notin DOMAIN debugUrls THEN {}
          ELSE {<<debugUrls[o][i].win, [j \in DOMAIN debugUrls[o][i].url |->
                                          debugUrls[o][i].url[j].text]>> :
                  i \in {k \in DOMAIN debugUrls[o] : debugUrls[o][k].seller = seller}}
        asked(b) == {<<TRUE, b.win>>, <<FALSE, b.loss>>} \ {<<TRUE, <<>>>>, <<FALSE, <<>>>>}
    IN /\ mine # <<>> /\ Last(mine).win # <<>> => kept(Winner.owner, FALSE) = asked(Last(mine))
       /\ \A u \in debugCase.sellerUrls : kept(debugCase.seller, TRUE) = asked(u)
=============================================================================

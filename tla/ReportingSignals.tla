--------------------------- MODULE ReportingSignals ---------------------------
(***************************************************************************)
(* What the auction service tells the seller's reportResult and the        *)
(* buyer's reportWin about the auction, how the code wrappers run the two, *)
(* and what is read back.  In the isolated mode each party's script is a   *)
(* blob of its own; in the combined mode every script is one blob and the  *)
(* wrapper of the seller calls that of the buyer.                          *)
(*                                                                         *)
(* A number is [inf, neg, n, e]: n / 2^SigBits * 2^e with n = 0 or its     *)
(* highest bit set, as frexp returns it.  An option is a set of at most    *)
(* one element.  A script is the sequence of the calls it makes.           *)
(***************************************************************************)
EXTENDS Integers, Sequences, FiniteSets, SequencesExt, TLC

CONSTANTS
  ReportCases,    \* the auctions reported on
  ReportOrigins,  \* buyer origins with a reportWin script -> the sanitised origin
  SigBits, RoundingBits,   \* kStochasticalRoundingBits of SigBits
  MinExp, MaxExp,          \* the range of int8_t
  ModelingBits             \* 12: kMask is 2^ModelingBits - 1

VARIABLES
  reportCase,
  draws,        \* how many of the next random numbers can be had
  sellerSig,    \* what reportResult is given, a function of signal names
  buyerSig,     \* what reportWin is given
  reported,     \* [party -> the URL of its script, and its event URLs]
  toWinner,     \* signalsForWinner
  winArgs,      \* the parameters of reportWin's wrapper, as options
  reportStep

reportVars == <<reportCase, draws, sellerSig, buyerSig, reported, toWinner, winArgs,
                reportStep>>

-----------------------------------------------------------------------------
(* Rounding and noise.  Each draw of RAND_bytes has a number i, and fails    *)
(* when the source of randomness has run dry.                                *)

Zero == [inf |-> FALSE, neg |-> FALSE, n |-> 0, e |-> 0]
MinusOne == [inf |-> FALSE, neg |-> TRUE, n |-> 2 ^ (SigBits - 1), e |-> 1]
RandUint64(i) == i <= draws

(* RandInt(0, 100) = 1 replaces the value by one of the range, of which the  *)
(* ends stand for all.                                                       *)
Noise(i, x, lo, hi) == IF RandUint64(i) THEN {{x}, {lo}, {hi}} ELSE {{}}

BucketJoinCount(n) == 1 + Cardinality({t \in (1 .. 10) \cup {20, 30, 40, 50, 100} : t < n})
RecencySteps ==
  (1 .. 10) \cup {15, 20, 30, 40, 50, 60, 75, 90, 105, 120, 240, 720, 1440, 2160, 2880, 4320,
                  5760, 10080, 20160, 30240, 40320}
BucketRecency(n) == Cardinality({t \in RecencySteps : t <= n})

NoiseAndBucketJoinCount(i, n) == Noise(i, BucketJoinCount(n), 1, 16)
NoiseAndBucketRecency(i, n) == Noise(i, BucketRecency(n), 0, 31)
NoiseAndMaskModelingSignals(i, n) ==
  Noise(i, n % (2 ^ ModelingBits), 0, (2 ^ ModelingBits) - 1)

(* t units of the last bit kept, and one more when that draw says so. *)
Scaled(v, t) ==
  IF t = 2 ^ RoundingBits THEN [v EXCEPT !.n = 2 ^ (SigBits - 1), !.e = @ + 1]
  ELSE [v EXCEPT !.n = t * 2 ^ (SigBits - RoundingBits)]

RoundStochasticallyToKBits(i, v) ==
  LET cut == 2 ^ (SigBits - RoundingBits)
      t == v.n \div cut
      up == IF v.n % cut = 0 THEN {}
            ELSE IF v.e = MaxExp /\ t + 1 = 2 ^ RoundingBits THEN {{[v EXCEPT !.inf = TRUE]}}
            ELSE {{Scaled(v, t + 1)}}
  IN IF v.inf THEN {{v}}
     ELSE IF v.e < MinExp THEN {{[Zero EXCEPT !.neg = v.neg]}}
     ELSE IF v.e > MaxExp THEN {{[v EXCEPT !.inf = TRUE]}}
     ELSE IF ~RandUint64(i) THEN {{}} ELSE {{Scaled(v, t)}} \cup up

GetEightBitRoundedValue(noising, i, v) ==
  IF ~noising THEN {v}
  ELSE {IF r = {} THEN MinusOne ELSE CHOOSE x \in r : TRUE : r \in RoundStochasticallyToKBits(i, v)}

AboveMinusOne(v) == ~v.neg \/ (~v.inf /\ (v.n = 0 \/ v.e < 1))

(* An infinite number cannot be written as JSON. *)
Numeric == {"bid", "desirability", "modifiedBid", "adCost", "highestScoringOtherBid"}
SerializeJsonDoc(sig) == \A k \in Numeric \cap DOMAIN sig : ~sig[k].inf

-----------------------------------------------------------------------------
(* What a dispatch says of the other seller, by the scope of the auction;    *)
(* the bid is the seller's modified one, when there is one.                  *)
ModifiedBid(c) == IF c.modified.n > 0 THEN c.modified ELSE c.bid
NoSellers == [top |-> {}, component |-> {}, modifiedBid |-> Zero]
DispatchReportResultRequest(c) == NoSellers
DispatchReportResultRequestForComponentAuction(c) ==
  [NoSellers EXCEPT !.top = {"top"}, !.modifiedBid = ModifiedBid(c)]
DispatchReportResultRequestForTopLevelAuction(c) == [NoSellers EXCEPT !.component = c.component]
DispatchReportingRequestForPA(c) ==
  [top |-> IF c.scope = "component" THEN {"top"} ELSE {},
   component |-> IF c.scope = "component" THEN {"seller"}
                 ELSE IF c.scope = "topLevel" THEN c.component ELSE {},
   modifiedBid |-> ModifiedBid(c)]
DispatchReportingRequestForPAS(c) == NoSellers

PerformReportingWithSellerAndBuyerCodeIsolation(c) ==
  CASE c.scope = "single" -> DispatchReportResultRequest(c)
    [] c.scope = "component" -> DispatchReportResultRequestForComponentAuction(c)
    [] c.scope = "topLevel" -> DispatchReportResultRequestForTopLevelAuction(c)

(* The ids of the winning ad, kept for both scripts and put in the response; *)
(* a top-level auction knows the component's but tells no script.            *)
SetReportingIdsInRawResponseAndDispatchRequestData(c) ==
  IF c.scope = "topLevel" THEN [buyer |-> {}, shared |-> {}, selected |-> {}]
  ELSE [buyer |-> c.buyerId, shared |-> c.sharedId, selected |-> c.selectedId]

(* The signals.  Given(k, x) is the signal k when the option x has a value.  *)

Given(k, x) == IF x = {} THEN <<>> ELSE k :> (CHOOSE v \in x : TRUE)
Rounded(k, v) == IF AboveMinusOne(v) THEN k :> v ELSE <<>>
Positive(k, n) == IF n > 0 THEN k :> n ELSE <<>>
(* A top-level auction knows of no other bid and no seller data. *)
GeneratePostAuctionSignalsForTopLevelSeller(c) ==
  [c EXCEPT !.otherBid = Zero, !.sellerBid = Zero, !.currency = {"???"}, !.sellerVersion = 0]
PostAuctionSignals(c) ==
  IF c.scope = "topLevel" THEN GeneratePostAuctionSignalsForTopLevelSeller(c) ELSE c
Common(c) ==
  ("topWindowHostname" :> "publisher") @@ ("interestGroupOwner" :> c.buyer)
  @@ ("renderURL" :> "ad") @@ ("highestScoringOtherBid" :> c.otherBid)
  @@ Given("bidCurrency", c.currency)
  @@ Positive("dataVersion", c.sellerVersion)

GetSellerReportingSignals(c, d) ==
  {Common(c) @@ Rounded("bid", b) @@ Rounded("desirability", y)
   @@ (IF d.top = {} THEN <<>> ELSE Given("topLevelSeller", d.top) @@ Rounded("modifiedBid", x))
   @@ Given("componentSeller", d.component) :
     b \in GetEightBitRoundedValue(c.noising, 1, c.bid),
     y \in GetEightBitRoundedValue(c.noising, 2, c.score),
     x \in GetEightBitRoundedValue(c.noising, 3, d.modifiedBid)}

GenerateSellerDeviceSignals(c, d) ==
  {Common(c) @@ Rounded("bid", b) @@ Rounded("desirability", y)
   @@ Given("selectedBuyerAndSellerReportingId",
            SetReportingIdsInRawResponseAndDispatchRequestData(c).selected)
   @@ Given("buyerAndSellerReportingId",
            SetReportingIdsInRawResponseAndDispatchRequestData(c).shared)
   @@ (IF d.top = {} THEN <<>> ELSE Given("topLevelSeller", d.top) @@ Rounded("modifiedBid", x))
   @@ Given("componentSeller", d.component) :
     b \in GetEightBitRoundedValue(TRUE, 1, IF c.sellerBid.n > 0 THEN c.sellerBid ELSE c.bid),
     y \in GetEightBitRoundedValue(TRUE, 2, c.score),
     x \in GetEightBitRoundedValue(TRUE, 3, d.modifiedBid)}

(* A value whose noise could not be drawn is reported as it is, except for   *)
(* the modeling signals.                                                     *)
OrRaw(noised, x) == {IF r = {} THEN {x} ELSE r : r \in noised}
Optional(x, Noised(_)) == IF x = {} THEN {{}} ELSE Noised(CHOOSE v \in x : TRUE)

GetBuyerMetadataJson(c) ==
  LET noised(N(_), n) == IF c.noising THEN N(n) ELSE {{n}}
      joins == Optional(c.joinCount, LAMBDA n :
                 noised(LAMBDA x : OrRaw(NoiseAndBucketJoinCount(4, x), x), n))
      recencies == Optional(c.recency, LAMBDA n :
                     noised(LAMBDA x : OrRaw(NoiseAndBucketRecency(5, x), x), n))
      models == Optional(c.modeling, LAMBDA n :
                  noised(LAMBDA x : NoiseAndMaskModelingSignals(6, x), n))
  IN IF ~c.reportWin THEN {[enableReportWinUrlGeneration |-> FALSE]}
     ELSE {("enableReportWinUrlGeneration" :> TRUE) @@ ("enableProtectedAppSignals" :> c.pas)
           @@ ("buyerOrigin" :> c.buyer) @@ Given("joinCount", j) @@ Given("recency", r)
           @@ Given("modelingSignals", s) @@ ("seller" :> "seller") @@ Rounded("adCost", a)
           @@ (IF c.buyerId # {} THEN Given("buyerReportingId", c.buyerId)
               ELSE "interestGroupName" :> c.group)
           @@ Positive("dataVersion", c.buyerVersion) :
             j \in joins, r \in recencies, s \in models,
             a \in GetEightBitRoundedValue(c.noising, 7, c.adCost)}

(* The ids the seller has too are already there. *)
SetReportingIds(c) ==
  IF c.selectedId # {}
  THEN Given("selectedBuyerAndSellerReportingId", c.selectedId)
       @@ Given("buyerAndSellerReportingId", c.sharedId) @@ Given("buyerReportingId", c.buyerId)
  ELSE IF c.sharedId # {} THEN Given("buyerAndSellerReportingId", c.sharedId)
  ELSE IF c.buyerId # {} THEN Given("buyerReportingId", c.buyerId)
  ELSE "interestGroupName" :> c.group

Without(sig, ks) == [k \in DOMAIN sig \ ks |-> sig[k]]

(* Mutant: the seller's data version stays. *)
GenerateBuyerDeviceSignalsLeaking(c, sig) ==
  {Without(sig, {"desirability", "modifiedBid"}) @@ Positive("dataVersion", c.buyerVersion)}

GenerateBuyerDeviceSignals(c, sig) ==
  {Without(sig, {"desirability", "modifiedBid", "dataVersion"})
   @@ Given("joinCount", j) @@ Given("recency", r) @@ Given("modelingSignals", s)
   @@ ("seller" :> "seller") @@ Given("adCost", a) @@ SetReportingIds(c)
   @@ Positive("dataVersion", c.buyerVersion) @@ ("kAnonStatus" :> "notCalculated") :
     j \in Optional(c.joinCount, LAMBDA n : NoiseAndBucketJoinCount(4, n)),
     r \in Optional(c.recency, LAMBDA n : NoiseAndBucketRecency(5, n)),
     s \in Optional(c.modeling, LAMBDA n : NoiseAndMaskModelingSignals(6, n)),
     a \in RoundStochasticallyToKBits(7, c.adCost)}

-----------------------------------------------------------------------------
(* The scripts.  A call is [fn, arg]: sendReportTo and registerAdBeacon may  *)
(* be called once each, a second call throws, as "throw" does.  What a       *)
(* script did before it threw stays.                                         *)

Throws(script, i) ==
  script[i].fn = "throw" \/ \E j \in 1 .. (i - 1) : script[j].fn = script[i].fn

Completed(script) ==
  LET bad == {i \in DOMAIN script : Throws(script, i)}
  IN IF bad = {} THEN script ELSE SubSeq(script, 1, (CHOOSE i \in bad : \A j \in bad : i <= j) - 1)
Threw(script) == Completed(script) # script
Calls(script, fn) == SelectSeq(Completed(script), LAMBDA c : c.fn = fn)

(* An argument that is not a string (a map) is ignored as a URL (as the map  *)
(* of event URLs); a map with a URL that is not a string is read all the     *)
(* same, which is undefined.                                                 *)
ReadUrl(script) ==
  LET s == Calls(script, "sendReportTo")
  IN IF s = <<>> \/ Last(s).arg = "notString" THEN "" ELSE Last(s).arg
ReadBeacons(script) ==
  LET b == Calls(script, "registerAdBeacon")
  IN IF b = <<>> \/ Last(b).arg = "notMap" THEN "" ELSE Last(b).arg
ParseUdfResponse(script) == [url |-> ReadUrl(script), events |-> ReadBeacons(script)]
Unreadable(script) == ReadBeacons(script) = "mapOfNumbers"
Nothing == [url |-> "", events |-> ""]

(* A winner with no per-buyer signals in the request has the empty text. *)
InitializeBuyerReportingDispatchRequestData(c) == IF c.hasSignals THEN "perBuyerSignals" ELSE ""

(* The arguments of the wrapper are bound by position; an app winner has two *)
(* more, its egress payloads.                                                *)
GetReportWinInput(signals) ==
  <<"auctionConfig", InitializeBuyerReportingDispatchRequestData(reportCase), signals, "buyerSignals", "{}", "logging">>
GetPASReportWinInput(signals, payload, temporary) ==
  GetReportWinInput(signals) \o <<payload, temporary>>
ReportWinParams ==
  <<"auctionConfig", "perBuyerSignals", "signalsForWinner", "buyerReportingSignals",
    "directFromSellerSignals", "enable_logging">>
(* Only the blob of an app buyer has its placeholder replaced. *)
GetBuyerWrappedCode(app) ==
  ReportWinParams \o (IF app THEN <<"egressVector", "temporaryUnlimitedEgressVector">>
                      ELSE <<"$extraArgs">>)
Bind(params, input) ==
  [p \in {params[i] : i \in DOMAIN params} |->
     LET i == CHOOSE j \in DOMAIN params : params[j] = p
     IN IF i \in DOMAIN input THEN {input[i]} ELSE {}]

(* The combined blob passes the payloads on through both wrappers, the       *)
(* temporary one empty unless its flag is set.                               *)
GetReportingInput(c) ==
  <<"auctionConfig", "sellerSignals", "{}", "logging", "metadata">>
  \o (IF c.pas THEN <<c.payload, IF c.temporaryFlag THEN c.temporary ELSE "">> ELSE <<>>)
ReportingParams(app) ==
  <<"auctionConfig", "sellerReportingSignals", "directFromSellerSignals", "enable_logging",
    "buyerReportingMetadata">>
  \o (IF app THEN <<"egressVector", "temporaryUnlimitedEgressVector">> ELSE <<>>)
CombinedWinArgs(c, signals) ==
  LET p == Bind(ReportingParams(c.app), GetReportingInput(c))
      egress == IF c.app THEN <<p["egressVector"], p["temporaryUnlimitedEgressVector"]>> ELSE <<>>
      args == [i \in 1 .. 6 |-> {GetReportWinInput(signals)[i]}] \o egress
      params == ReportWinParams
                \o (IF c.app THEN <<"egressVector", "temporaryUnlimitedEgressVector">> ELSE <<>>)
  IN [n \in {params[i] : i \in DOMAIN params} |-> args[CHOOSE i \in DOMAIN params : params[i] = n]]

(* The wrapper of a buyer has a name made of its origin without the          *)
(* punctuation; of two wrappers of one name either may be the last one       *)
(* defined.  A protected app signals winner has its own.                     *)
GetReportWinFunctionName(origin) == ReportOrigins[origin]
WrappersNamed(c, name) == {o \in DOMAIN ReportOrigins : GetReportWinFunctionName(o) = name}

(* With protected app signals enabled the name of the interest group tells   *)
(* which wrapper is meant; where an id stands for the name, trim() of        *)
(* undefined throws.                                                         *)
WrapperFound(c, meta) ==
  /\ meta.enableReportWinUrlGeneration
  /\ meta.enableProtectedAppSignals => "interestGroupName" \in DOMAIN meta

(* buyerReportingSignals is the seller's object, less the desirability. *)
CombinedBuyerSignals(meta, sig) ==
  LET take(k) == IF k \in DOMAIN meta THEN k :> meta[k] ELSE <<>>
  IN Without(sig, {"desirability", "dataVersion"})
     @@ take("interestGroupName") @@ take("joinCount") @@ take("recency")
     @@ take("modelingSignals") @@ take("seller") @@ take("adCost") @@ take("dataVersion")
     @@ take("buyerReportingId")

-----------------------------------------------------------------------------
ReportInit ==
  /\ reportCase \in ReportCases /\ draws \in {0, 1, 4, 7}
  /\ sellerSig = <<>> /\ buyerSig = <<>> /\ toWinner = "null" /\ winArgs = <<>>
  /\ reported = [seller |-> Nothing, buyer |-> Nothing] /\ reportStep = "start"

(* PerformReportResult *)
PerformReportResult ==
  /\ reportStep = "start" /\ reportCase.isolated
  /\ \E sig \in GenerateSellerDeviceSignals(PostAuctionSignals(reportCase),
                PerformReportingWithSellerAndBuyerCodeIsolation(reportCase)) :
       /\ sellerSig' = sig
       /\ reportStep' = IF SerializeJsonDoc(sig) THEN "reportResult" ELSE "done"
  /\ UNCHANGED <<reportCase, draws, buyerSig, reported, toWinner, winArgs>>

(* reportResultEntryFunction and ParseReportResultResponse; the callback     *)
(* goes on to reportWin.                                                     *)
ReportResultEntryFunction ==
  /\ reportStep = "reportResult"
  /\ LET s == reportCase.sellerScript
     IN IF Unreadable(s) THEN reportStep' = "crashed" /\ UNCHANGED <<reported, toWinner>>
        ELSE /\ reported' = [reported EXCEPT !.seller = ParseUdfResponse(s)]
             /\ toWinner' = IF Threw(s) THEN "null" ELSE "signals"
             /\ reportStep' = IF reportCase.reportWin THEN "win" ELSE "done"
  /\ UNCHANGED <<reportCase, draws, sellerSig, buyerSig, winArgs>>

(* PerformPAReportWin and PerformPASReportWin *)
PerformReportWin ==
  /\ reportStep = "win"
  /\ winArgs' = Bind(GetBuyerWrappedCode(reportCase.app),
                     IF reportCase.app
                     THEN GetPASReportWinInput(toWinner, reportCase.payload, reportCase.temporary)
                     ELSE GetReportWinInput(toWinner))
  /\ \E sig \in GenerateBuyerDeviceSignals(reportCase, sellerSig) :
       /\ buyerSig' = sig
       /\ reportStep' = IF SerializeJsonDoc(sig) THEN "reportWin" ELSE "done"
  /\ UNCHANGED <<reportCase, draws, sellerSig, reported, toWinner>>

(* reportWinEntryFunction and ParseReportWinResponse *)
ReportWinEntryFunction ==
  /\ reportStep = "reportWin"
  /\ LET s == reportCase.buyerScripts[reportCase.buyer]
     IN IF Unreadable(s) THEN reportStep' = "crashed" /\ UNCHANGED reported
        ELSE /\ reported' = [reported EXCEPT !.buyer = ParseUdfResponse(s)]
             /\ reportStep' = "done"
  /\ UNCHANGED <<reportCase, draws, sellerSig, buyerSig, toWinner, winArgs>>

(* reportingEntryFunction: reportResult runs outside the try, so that a      *)
(* throw loses the whole answer; the buyer's wrapper runs inside it.  With   *)
(* no arguments there is no metadata to look at.                             *)
ReportingEntryFunction(sig, meta) ==
  LET s == reportCase.sellerScript
      runs == SerializeJsonDoc(sig) /\ WrapperFound(reportCase, meta)
      seller == [seller |-> ParseUdfResponse(s), buyer |-> Nothing]
  IN IF Threw(s)
     THEN reported' = reported /\ buyerSig' = <<>> /\ winArgs' = <<>> /\ reportStep' = "done"
     ELSE IF ~runs
     THEN /\ buyerSig' = <<>> /\ winArgs' = <<>>
          /\ IF Unreadable(s) THEN reported' = reported /\ reportStep' = "crashed"
             ELSE reported' = seller /\ reportStep' = "done"
     ELSE /\ buyerSig' = CombinedBuyerSignals(meta, sig)
          /\ winArgs' = CombinedWinArgs(reportCase, "signals")
          /\ \E o \in WrappersNamed(reportCase, GetReportWinFunctionName(reportCase.buyer)) :
               LET b == reportCase.buyerScripts[o]
               IN IF Unreadable(s) \/ Unreadable(b)
                  THEN reported' = reported /\ reportStep' = "crashed"
                  ELSE reported' = [seller EXCEPT !.buyer = ParseUdfResponse(b)]
                       /\ reportStep' = "done"

(* GetReportingDispatchRequest, the run of the blob and                      *)
(* ParseAndGetReportingResponse.  Metadata that cannot be written is         *)
(* replaced by the default, which asks for no reportWin.                     *)
PerformReporting ==
  /\ reportStep = "start" /\ ~reportCase.isolated
  /\ \E sig \in GetSellerReportingSignals(PostAuctionSignals(reportCase),
                 IF reportCase.app THEN DispatchReportingRequestForPAS(reportCase)
                 ELSE DispatchReportingRequestForPA(reportCase)),
        meta \in GetBuyerMetadataJson(reportCase) :
       /\ sellerSig' = sig
       /\ ReportingEntryFunction(sig, IF SerializeJsonDoc(meta) THEN meta
                                      ELSE [enableReportWinUrlGeneration |-> FALSE])
  /\ UNCHANGED <<reportCase, draws, toWinner>>

ReportNext ==
  \/ PerformReportResult \/ ReportResultEntryFunction \/ PerformReportWin
  \/ ReportWinEntryFunction \/ PerformReporting

-----------------------------------------------------------------------------
Combined == ~reportCase.isolated
BuyerTold == buyerSig # <<>>

(* The buyer is not told how the seller scored its ad, what the component    *)
(* seller made of its bid, nor the seller's data version, which has the name *)
(* of its own.  The combined wrapper deletes the desirability only.          *)
BuyerLearnsNoSellerSecrets ==
  BuyerTold =>
    /\ "desirability" \notin DOMAIN buyerSig
    /\ "modifiedBid" \in DOMAIN buyerSig => Combined
    /\ "dataVersion" \in DOMAIN buyerSig =>
         reportCase.buyerVersion > 0 /\ buyerSig["dataVersion"] = reportCase.buyerVersion

(* The buyer is told the name of the interest group only when no id stands   *)
(* for it, and always one of the two; a selected id is never told without    *)
(* the others the ad has.                                                    *)
NameOnlyWithoutIds ==
  BuyerTold =>
    LET ids == {reportCase.buyerId} \cup
               (IF Combined THEN {} ELSE {reportCase.sharedId, reportCase.selectedId})
    IN /\ "interestGroupName" \in DOMAIN buyerSig <=> \A i \in ids : i = {}
       /\ "selectedBuyerAndSellerReportingId" \in DOMAIN buyerSig =>
            /\ reportCase.buyerId # {} => "buyerReportingId" \in DOMAIN buyerSig
            /\ reportCase.sharedId # {} => "buyerAndSellerReportingId" \in DOMAIN buyerSig

(* What the buyer is told of the user (how often and how recently the        *)
(* interest group was joined, its model's signals) fits the few bits meant   *)
(* for it.  In the combined mode with noising on, the first two are told     *)
(* unbucketed when no random number can be had.                              *)
UserSignalsAreCoarse ==
  BuyerTold /\ (Combined => reportCase.noising /\ draws >= 5) =>
    /\ "joinCount" \in DOMAIN buyerSig => buyerSig["joinCount"] \in 1 .. 16
    /\ "recency" \in DOMAIN buyerSig => buyerSig["recency"] \in 0 .. 31
    /\ "modelingSignals" \in DOMAIN buyerSig =>
         buyerSig["modelingSignals"] \in 0 .. ((2 ^ ModelingBits) - 1)

(* A rounded number has RoundingBits bits and lies less than the last of     *)
(* them away from the number, on either side, and no number is moved across  *)
(* zero.  Numbers are compared in units of 2^(MinExp - SigBits).             *)
Units(v) == v.n * 2 ^ (v.e - MinExp)
CloseTo(r, v) ==
  \/ v.inf /\ r = v
  \/ v.e < MinExp /\ r.n = 0
  \/ r.inf /\ (v.e > MaxExp \/ Units(v) + 2 ^ (MaxExp - MinExp + SigBits - RoundingBits)
                               > 2 ^ (MaxExp - MinExp + SigBits))
  \/ /\ ~r.inf /\ ~v.inf /\ v.e \in MinExp .. MaxExp /\ r.neg = v.neg
     /\ r.n % (2 ^ (SigBits - RoundingBits)) = 0
     /\ Units(r) - Units(v) < 2 ^ (v.e - MinExp + SigBits - RoundingBits)
     /\ Units(v) - Units(r) < 2 ^ (v.e - MinExp + SigBits - RoundingBits)
NumbersAreRounded ==
  BuyerTold /\ ~Combined =>
    /\ "adCost" \in DOMAIN buyerSig => CloseTo(buyerSig["adCost"], reportCase.adCost)
    /\ "bid" \in DOMAIN buyerSig =>
         \E v \in {reportCase.bid, reportCase.sellerBid} : CloseTo(buyerSig["bid"], v)

(* When the call has ended each party has the report its own script asked    *)
(* for first, whatever the script did next, unless one of the known causes   *)
(* lost it: the signals cannot be written (a number too large); in the       *)
(* combined mode, reportResult threw, two buyers' wrappers share a name, or  *)
(* an id hides the name that protected app signals look at.                  *)
FirstCall(script, fn) ==
  LET s == SelectSeq(script, LAMBDA c : c.fn \in {fn, "throw"})
  IN IF s = <<>> \/ Head(s).fn = "throw" THEN "" ELSE Head(s).arg
FirstReportIsKept ==
  reportStep = "done" /\ SerializeJsonDoc(sellerSig) =>
    LET c == reportCase
        asked(s, p) ==
          LET u == FirstCall(s, "sendReportTo") IN p.url = (IF u = "notString" THEN "" ELSE u)
        lost == Combined /\ Threw(c.sellerScript)
        hidden == Combined /\ c.pas /\ c.buyerId # {}
        shared == Combined /\ Cardinality(WrappersNamed(c, GetReportWinFunctionName(c.buyer))) > 1
    IN /\ ~lost => asked(c.sellerScript, reported.seller)
       /\ BuyerTold /\ SerializeJsonDoc(buyerSig) /\ ~shared
            => asked(c.buyerScripts[c.buyer], reported.buyer)
       /\ c.reportWin /\ ~lost /\ ~hidden /\ c.adCost.e < MaxExp => BuyerTold

(* The egress payloads of an app winner reach the buyer's script under their *)
(* own names, and no other winner's script is given one.                     *)
PayloadsReachTheirParameter ==
  winArgs # <<>> =>
    IF reportCase.app
    THEN /\ winArgs["egressVector"] = {reportCase.payload}
         /\ winArgs["temporaryUnlimitedEgressVector"]
              = {IF Combined /\ ~reportCase.temporaryFlag THEN "" ELSE reportCase.temporary}
    ELSE \A p \in DOMAIN winArgs \ {ReportWinParams[i] : i \in 1 .. 6} : winArgs[p] = {}
=============================================================================

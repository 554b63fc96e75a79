----------------------------- MODULE RequestCodec -----------------------------
(***************************************************************************)
(* The client's request, in its two forms.  The browser's is a CBOR map    *)
(* whose interest groups are compressed CBOR documents, one for each       *)
(* buyer.  The decoder either stops at the first error or goes on to       *)
(* collect them all.  An item is [t, v]; errors is the list the            *)
(* accumulator holds, each error named for its field.                      *)
(* An app's buyer inputs are protobufs, the protected app signals in them  *)
(* are moved to a part of their own, and protected app signals bids join   *)
(* the others.  A compressed buyer input is [flaw, input]; {} is a field   *)
(* that is not set.                                                        *)
(***************************************************************************)
EXTENDS Integers, Sequences, SequencesExt, FiniteSets

CONSTANTS
  RequestOf(_),  \* the document a request number stands for
  RequestIds,    \* request numbers
  AppCases,      \* [inputs, pasEnabled, paEnabled, contextual, bids, reportWinUrls, kanon]
  IntHalf        \* an int holds -IntHalf .. IntHalf - 1

VARIABLES
  requestId, failFast,
  reqErrors,   \* error_accumulator_
  rootInput,   \* the fields of ProtectedAuctionInput that were set
  toDecode,    \* buyers whose input is still compressed
  buyerInputs, \* decoded_buyer_inputs, a function of the buyers
  reqStep,     \* root, buyers, done
  appCase,
  appInputs,    \* decoded buyer inputs, a function of the owners
  appErrors,    \* owners whose input was reported
  getBids,      \* owner -> GetBidsRawRequest
  appScoreAds,  \* the bids of the ScoreAds request
  appStep       \* decode, bids, score, done, crashed

requestVars == <<requestId, failFast, reqErrors, rootInput, toDecode, buyerInputs, reqStep>>
appVars == <<appCase, appInputs, appErrors, getBids, appScoreAds, appStep>>

Wrap(n) == ((n + IntHalf) % (2 * IntHalf)) - IntHalf

-----------------------------------------------------------------------------
(* A decoder's state: the errors so far, what it has built, whether it has   *)
(* returned.                                                                 *)
At(errs, out) == [errs |-> errs, out |-> out, stop |-> FALSE]
Report(st, field) == [st EXCEPT !.errs = Append(@, field)]

(* RETURN_IF_PREV_ERRORS looks at every error, not only at the last check's. *)
ReturnIfPrevErrors(st) == [st EXCEPT !.stop = failFast /\ st.errs # <<>>]

IsTypeValid(st, item, t, field) == IF item.t = t THEN st ELSE Report(st, field)
Checked(st, item, t, field) == ReturnIfPrevErrors(IsTypeValid(st, item, t, field))

Each(Step(_, _), st, items) ==
  FoldLeft(LAMBDA s, i : IF s.stop THEN s ELSE Step(s, i), st, items)
SetField(st, field, v) == [st EXCEPT !.out = [@ EXCEPT ![field] = v]]
Scalar(st, e, t, field) ==
  LET s == Checked(st, e.i, t, field)
  IN IF s.stop \/ e.i.t # t THEN s ELSE SetField(s, field, e.i.v)

DecodeStringArray(errs, items, field) ==
  Each(LAMBDA st, i : LET s == Checked(st, i, "string", field)
                      IN IF s.stop \/ i.t # "string" THEN s
                         ELSE [s EXCEPT !.out = Append(@, i.v)],
       At(errs, <<>>), items)

(* The schema's [time, id]. *)
GoodWin(w) == w.t = "array" /\ Len(w.v) = 2 /\ w.v[1].t = "int" /\ w.v[2].t = "string"

(* Seconds and milliseconds, of an array [time, id] each.  Without fail_fast *)
(* an array that is too short is read past its end, where anything may be:   *)
(* an error has been reported and nothing read there is used.                *)
GetStringifiedPrevWins(errs, wins) ==
  Each(LAMBDA st, w :
         LET s1 == Checked(st, w, "array", "prevWins")
             s2 == ReturnIfPrevErrors(IF Len(w.v) # 2 THEN Report(s1, "prevWinsLength") ELSE s1)
             s3 == Checked(s2, w.v[1], "int", "prevWinsTime")
             s4 == Checked(s3, w.v[2], "string", "prevWinsId")
         IN IF s1.stop \/ w.t # "array" THEN s1
            ELSE IF s2.stop \/ Len(w.v) < 2 THEN s2
            ELSE IF s3.stop THEN s3
            ELSE IF s4.stop \/ s4.errs # <<>> THEN s4
            ELSE [s4 EXCEPT !.out = [s |-> Append(@.s, <<w.v[1].v, w.v[2].v>>),
                                     ms |-> Append(@.ms, <<Wrap(w.v[1].v * 1000), w.v[2].v>>)]],
       At(errs, [s |-> <<>>, ms |-> <<>>]), wins)

(* What a fail-fast return gives back is the pair of empty strings. *)
PrevWins(st) == IF st.stop THEN [s |-> <<>>, ms |-> <<>>] ELSE st.out

NoSignals == [bidCount |-> 0, joinCount |-> 0, recency |-> 0, recencyMs |-> -1,
              prevWins |-> <<>>, prevWinsMs |-> <<>>]

DecodeBrowserSignals(errs, item) ==
  LET start == IsTypeValid(At(errs, NoSignals), item, "map", "browserSignals")
  IN IF item.t # "map" THEN start
     ELSE Each(LAMBDA st, e :
       LET k == Checked(st, e.k, "string", "browserSignalsKey")
       IN IF k.stop \/ e.k.t # "string" THEN k
          ELSE IF e.k.v \in {"bidCount", "joinCount", "recency", "recencyMs"}
          THEN Scalar(k, e, "int", e.k.v)
          ELSE IF e.k.v = "prevWins"
          THEN LET s == Checked(k, e.i, "array", "prevWins")
                   w == GetStringifiedPrevWins(s.errs, e.i.v)
               IN IF s.stop \/ e.i.t # "array" THEN s
                  ELSE [SetField(SetField(s, "prevWins", PrevWins(w).s),
                                 "prevWinsMs", PrevWins(w).ms) EXCEPT !.errs = w.errs]
          ELSE k, start, item.v)

NoGroup == [name |-> "", biddingSignalsKeys |-> <<>>, userBiddingSignals |-> "",
            ads |-> <<>>, components |-> <<>>, browserSignals |-> NoSignals]

(* One interest group: every entry of its map, each with its type. *)
DecodeInterestGroup(errs, item) ==
  Each(LAMBDA st, e :
    LET k == Checked(st, e.k, "string", "BuyerInputKey")
    IN IF k.stop \/ e.k.t # "string" THEN k
       ELSE IF e.k.v \in {"name", "userBiddingSignals"} THEN Scalar(k, e, "string", e.k.v)
       ELSE IF e.k.v \in {"biddingSignalsKeys", "ads", "components"}
       THEN LET s == Checked(k, e.i, "array", e.k.v)
                a == DecodeStringArray(s.errs, e.i.v, e.k.v)
            IN IF s.stop \/ e.i.t # "array" THEN s
               ELSE [SetField(s, e.k.v, a.out) EXCEPT !.errs = a.errs]
       ELSE IF e.k.v = "browserSignals"
       THEN LET b == DecodeBrowserSignals(k.errs, e.i)
            IN ReturnIfPrevErrors([SetField(k, "browserSignals", b.out) EXCEPT !.errs = b.errs])
       ELSE k, At(errs, NoGroup), item.v)

(* Mutant: an entry that is no map leaves no empty group behind. *)
DecodeBuyerInputSkipping(errs, doc) ==
  IF doc.kind # "cbor" THEN At(Append(errs, doc.kind), <<>>)
  ELSE Each(LAMBDA st, ig :
         LET g == DecodeInterestGroup(st.errs, ig)
         IN IF ig.t # "map" THEN Report(st, "BuyerInputEntry")
            ELSE [g EXCEPT !.out = Append(st.out, g.out)], At(errs, <<>>), doc.root.v)

(* The group is added before its entry is looked at: what is no map keeps    *)
(* its place as an empty group.                                              *)
DecodeBuyerInput(errs, doc) ==
  IF doc.kind # "cbor" THEN At(Append(errs, doc.kind), <<>>)
  ELSE LET start == IsTypeValid(At(errs, <<>>), doc.root, "array", "BuyerInput")
       IN IF doc.root.t # "array" THEN start
          ELSE Each(LAMBDA st, ig :
            LET s == Checked([st EXCEPT !.out = Append(@, NoGroup)], ig, "map", "BuyerInputEntry")
                g == DecodeInterestGroup(s.errs, ig)
            IN IF s.stop \/ ig.t # "map" THEN s
               ELSE [g EXCEPT !.out = [s.out EXCEPT ![Len(s.out)] = g.out]],
            start, doc.root.v)

DecodeConsentedDebugConfig(errs, item) ==
  LET none == At(errs, [isConsented |-> FALSE, token |-> "", isDebugInfoInResponse |-> FALSE])
  IN IF item.t # "map" THEN Report(none, "consentedDebugConfig")
     ELSE Each(LAMBDA st, e :
       LET k == Checked(st, e.k, "string", "consentedDebugConfigKey")
       IN IF k.stop \/ e.k.t # "string" THEN k
          ELSE IF e.k.v \in {"isConsented", "isDebugInfoInResponse"}
          THEN Scalar(k, e, "bool", e.k.v)
          ELSE IF e.k.v = "token" THEN Scalar(k, e, "string", e.k.v) ELSE k, none, item.v)

(* The compressed input of each buyer; a buyer named twice keeps the first. *)
DecodeBuyerInputKeys(errs, item) ==
  IF item.t # "map" THEN At(Append(errs, "interestGroups"), <<>>)
  ELSE Each(LAMBDA st, e :
    LET k == Checked(st, e.k, "string", "interestGroups.key")
        v == Checked(k, e.i, "bytes", "interestGroups.value")
    IN IF k.stop \/ e.k.t # "string" THEN k
       ELSE IF v.stop \/ e.i.t # "bytes" \/ \E i \in DOMAIN st.out : st.out[i].owner = e.k.v
       THEN v ELSE [v EXCEPT !.out = Append(@, [owner |-> e.k.v, doc |-> e.i.v])],
    At(errs, <<>>), item.v)

NoInput == [version |-> 0, publisher |-> "", generationId |-> "", enableDebugReporting |-> FALSE,
            requestTimestampMs |-> 0, enforceKAnon |-> FALSE, microsoftGenuineHint |-> "",
            consentedDebugConfig |-> [isConsented |-> FALSE, token |-> "",
                                      isDebugInfoInResponse |-> FALSE],
            interestGroups |-> <<>>]
RootType == [publisher |-> "string", generationId |-> "string", enableDebugReporting |-> "bool",
             requestTimestampMs |-> "int", enforceKAnon |-> "bool",
             microsoftGenuineHint |-> "string"]

(* Another schema version is an error that does not stop the decoder. *)
DecodeProtectedAuctionInput(root) ==
  IF root.t # "map" THEN At(<<"ProtectedAuctionInput">>, NoInput)
  ELSE Each(LAMBDA st, e :
    LET k == Checked(st, e.k, "string", "RootKey")
        v == Checked(k, e.i, "int", "version")
    IN IF k.stop \/ e.k.t # "string" THEN k
       ELSE IF e.k.v = "version"
       THEN IF v.stop \/ e.i.t # "int" \/ e.i.v = 0 THEN v ELSE Report(v, "schemaVersion")
       ELSE IF e.k.v \in DOMAIN RootType THEN Scalar(k, e, RootType[e.k.v], e.k.v)
       ELSE IF e.k.v = "interestGroups"
       THEN LET b == DecodeBuyerInputKeys(k.errs, e.i)
            IN [SetField(k, "interestGroups", b.out) EXCEPT !.errs = b.errs]
       ELSE IF e.k.v = "consentedDebugConfig"
       THEN LET c == DecodeConsentedDebugConfig(k.errs, e.i)
            IN ReturnIfPrevErrors([SetField(k, e.k.v, c.out) EXCEPT !.errs = c.errs])
       ELSE k, At(<<>>, NoInput), root.v)

-----------------------------------------------------------------------------
RequestInit ==
  /\ requestId \in RequestIds /\ failFast \in BOOLEAN
  /\ reqErrors = <<>> /\ rootInput = NoInput /\ toDecode = {}
  /\ buyerInputs = <<>> /\ reqStep = "root"

(* Decode: a payload that is not CBOR is one error. *)
Decode ==
  /\ reqStep = "root"
  /\ LET doc == RequestOf(requestId)
         d == IF doc.kind = "cbor" THEN DecodeProtectedAuctionInput(doc.root)
              ELSE At(<<"invalidCbor">>, NoInput)
     IN /\ rootInput' = d.out /\ reqErrors' = d.errs
        /\ toDecode' = DOMAIN d.out.interestGroups
  /\ reqStep' = "buyers" /\ UNCHANGED <<requestId, failFast, buyerInputs>>

(* DecodeBuyerInputs: the buyers of a hash map, in any order. *)
DecodeBuyerInputs(i) ==
  /\ reqStep = "buyers" /\ i \in toDecode
  /\ LET buyer == rootInput.interestGroups[i]
         d == DecodeBuyerInput(reqErrors, buyer.doc)
         stop == failFast /\ d.errs # <<>>
     IN /\ reqErrors' = d.errs
        /\ buyerInputs' = IF stop THEN buyerInputs
                          ELSE Append(buyerInputs, [owner |-> buyer.owner, groups |-> d.out])
        /\ toDecode' = IF stop THEN {} ELSE toDecode \ {i}
  /\ UNCHANGED <<requestId, failFast, rootInput, reqStep>>

DecodingDone ==
  /\ reqStep = "buyers" /\ toDecode = {} /\ reqStep' = "done"
  /\ UNCHANGED <<requestId, failFast, reqErrors, rootInput, toDecode, buyerInputs>>

RequestNext == Decode \/ (\E i \in toDecode : DecodeBuyerInputs(i)) \/ DecodingDone

-----------------------------------------------------------------------------
Flawless == reqErrors = <<>>

(* A buyer's interest groups keep their number and their places, because the *)
(* answer speaks of them by index: not even an entry that could not be       *)
(* decoded moves the others up.                                              *)
GroupsKeepTheirPlace ==
  ~failFast => \A b \in DOMAIN buyerInputs :
    \A i \in DOMAIN rootInput.interestGroups :
      LET d == rootInput.interestGroups[i]
      IN d.owner = buyerInputs[b].owner /\ d.doc.kind = "cbor" /\ d.doc.root.t = "array" =>
           Len(buyerInputs[b].groups) = Len(d.doc.root.v)

(* The request's schema, stated on the document. *)
EntriesOf(i, Good(_)) ==
  i.t = "map" /\ \A n \in DOMAIN i.v : i.v[n].k.t = "string" /\ Good(i.v[n])
ArrayOf(i, Good(_)) == i.t = "array" /\ \A n \in DOMAIN i.v : Good(i.v[n])
GoodSignals(i) == EntriesOf(i, LAMBDA e :
  /\ e.k.v \in {"bidCount", "joinCount", "recency", "recencyMs"} => e.i.t = "int"
  /\ e.k.v = "prevWins" => ArrayOf(e.i, GoodWin))
GoodGroup(i) == EntriesOf(i, LAMBDA e :
  /\ e.k.v \in {"name", "userBiddingSignals"} => e.i.t = "string"
  /\ e.k.v \in {"biddingSignalsKeys", "ads", "components"} =>
       ArrayOf(e.i, LAMBDA x : x.t = "string")
  /\ e.k.v = "browserSignals" => GoodSignals(e.i))
GoodRoot(i) == EntriesOf(i, LAMBDA e :
  /\ e.k.v \in DOMAIN RootType => e.i.t = RootType[e.k.v]
  /\ e.k.v = "version" => e.i.t = "int" /\ e.i.v = 0
  /\ e.k.v = "interestGroups" => EntriesOf(e.i, LAMBDA b :
       b.i.t = "bytes" /\ b.i.v.kind = "cbor" /\ ArrayOf(b.i.v.root, GoodGroup))
  /\ e.k.v = "consentedDebugConfig" => EntriesOf(e.i, LAMBDA c :
       /\ c.k.v \in {"isConsented", "isDebugInfoInResponse"} => c.i.t = "bool"
       /\ c.k.v = "token" => c.i.t = "string"))

(* A request is let through exactly when all of it has the types of the      *)
(* schema, and stopping at the first error or not, and the order in which    *)
(* the buyers come up, make no difference to that.                           *)
AcceptedIffWellTyped ==
  reqStep = "done" =>
    (Flawless <=> RequestOf(requestId).kind = "cbor" /\ GoodRoot(RequestOf(requestId).root))

(* Every win the device told of arrives in both units, the one a thousand    *)
(* times the other, unless that is more than an int holds.                   *)
PrevWinsInBothUnits ==
  \A b \in DOMAIN buyerInputs : \A g \in DOMAIN buyerInputs[b].groups :
    LET s == buyerInputs[b].groups[g].browserSignals
    IN /\ Len(s.prevWins) = Len(s.prevWinsMs)
       /\ \A i \in DOMAIN s.prevWins :
            /\ s.prevWins[i][2] = s.prevWinsMs[i][2]
            /\ s.prevWins[i][1] * 1000 < IntHalf =>
                 s.prevWinsMs[i][1] = 1000 * s.prevWins[i][1]

-----------------------------------------------------------------------------
(* The app: wins are a list of [time, id], other JSON, or no JSON at all. *)
ToPrevWinsMs(wins) ==
  IF wins.kind # "list" THEN {}
  ELSE {[i \in DOMAIN wins.list |-> [time |-> Wrap(wins.list[i].time * 1000), id |-> wins.list[i].id]]}

ToBrowserSignalsForBidding(s) ==
  [prevWins |-> s.prevWins, recencyMs |-> s.recencyMs, prevWinsMs |-> ToPrevWinsMs(s.prevWins)]

ToInterestGroupForBidding(ig) ==
  [name |-> ig.name, ads |-> ig.ads,
   browser |-> {ToBrowserSignalsForBidding(s) : s \in ig.browser},
   android |-> ig.android /\ ig.browser = {}]

(* Signals that are not there stay away on the way in ... *)
ToBuyerInputForBidding(input) ==
  [groups |-> [i \in DOMAIN input.groups |-> ToInterestGroupForBidding(input.groups[i])],
   signals |-> input.signals]

(* ... and become empty signals on the way back. *)
ToBuyerInput(input) ==
  [groups |-> [i \in DOMAIN input.groups |->
                 [name |-> input.groups[i].name, ads |-> input.groups[i].ads,
                  browser |-> {[prevWins |-> s.prevWins, recencyMs |-> s.recencyMs] :
                                 s \in input.groups[i].browser},
                  android |-> input.groups[i].android /\ input.groups[i].browser = {}]],
   signals |-> IF input.signals = {} THEN {""} ELSE input.signals]

(* The parsed wins are used without a look at whether they could be parsed:  *)
(* wins that are no JSON end the server.                                     *)
AbortsOnWins(input) ==
  \E i \in DOMAIN input.groups : \E s \in input.groups[i].browser : s.prevWins.kind = "notJson"

(* A buyer whose input cannot be read is left out. *)
GetDecodedBuyerinputs(inputs) ==
  [o \in {x \in DOMAIN inputs : inputs[x].flaw = ""} |-> ToBuyerInputForBidding(inputs[o].input)]

-----------------------------------------------------------------------------
(* Mutant: with the feature off only one of the two copies is cleared. *)
MayPopulateProtectedAppSignalsBuyerInputHalf(o, r) ==
  IF ~appCase.pasEnabled THEN [r EXCEPT !.input.signals = {}] ELSE r

Installed(signals) == signals # {} /\ signals # {""}

(* The signals are taken from the copy for bidding and cleared in both; with *)
(* the feature off, or without signals, nothing is passed on.                *)
MayPopulateProtectedAppSignalsBuyerInput(o, r) ==
  IF ~appCase.pasEnabled THEN [r EXCEPT !.input.signals = {}, !.forBidding.signals = {}]
  ELSE IF ~Installed(r.input.signals) THEN [r EXCEPT !.input.signals = {}]
  ELSE IF ~Installed(r.forBidding.signals) THEN [r EXCEPT !.forBidding.signals = {}]
  ELSE [r EXCEPT !.pas = [signals |-> r.forBidding.signals,
                          contextual |-> IF o \in DOMAIN appCase.contextual
                                         THEN appCase.contextual[o] ELSE {}],
                 !.input.signals = {}, !.forBidding.signals = {}]

(* Debug reporting is for the web only.  Without protected audience the      *)
(* groups go from the copy for bidding alone.                                *)
CreateGetBidsRequest(o) ==
  LET given == appInputs[o]
  IN MayPopulateProtectedAppSignalsBuyerInput(o,
       [input |-> ToBuyerInput(given),
        forBidding |-> [given EXCEPT !.groups = IF appCase.paEnabled THEN @ ELSE <<>>],
        debug |-> FALSE, pas |-> [signals |-> {}, contextual |-> {}]])

(* The hash of a bid names the owner's report-win code and the ad; without   *)
(* the code there is none, and the bid counts as not k-anonymous.            *)
GetKAnonHashesForBids ==
  [o \in DOMAIN appCase.bids \cap appCase.reportWinUrls |->
     {<<o, appCase.bids[o][i].render>> : i \in DOMAIN appCase.bids[o]}]

BuildProtectedAppSignalsAdWithBidMetadata(o, bid, status) ==
  [owner |-> o, render |-> bid.render, bid |-> bid.bid, payload |-> bid.payload,
   kanon |-> appCase.kanonOn /\ status]

MayPopulateProtectedAppSignalsBids ==
  IF ~appCase.pasEnabled THEN {}
  ELSE UNION {{BuildProtectedAppSignalsAdWithBidMetadata(o, appCase.bids[o][i],
                 o \in DOMAIN GetKAnonHashesForBids
                 /\ <<o, appCase.bids[o][i].render>> \in appCase.kanonHashes) :
                   i \in DOMAIN appCase.bids[o]} : o \in DOMAIN appCase.bids}

-----------------------------------------------------------------------------
AppInit ==
  /\ appCase \in AppCases /\ appInputs = <<>> /\ appErrors = {} /\ getBids = <<>>
  /\ appScoreAds = {} /\ appStep = "decode"

DecodeInputs ==
  /\ appStep = "decode"
  /\ appInputs' = GetDecodedBuyerinputs(appCase.inputs)
  /\ appErrors' = DOMAIN appCase.inputs \ DOMAIN appInputs'
  /\ appStep' = IF \E o \in DOMAIN appInputs' : AbortsOnWins(appCase.inputs[o].input) THEN "crashed"
                ELSE IF appErrors' = {} THEN "bids" ELSE "done"   \* errors end the call
  /\ UNCHANGED <<appCase, getBids, appScoreAds>>

RequestBids ==
  /\ appStep = "bids"
  /\ getBids' = [o \in DOMAIN appInputs |-> CreateGetBidsRequest(o)]
  /\ appStep' = "score" /\ UNCHANGED <<appCase, appInputs, appErrors, appScoreAds>>

CreateScoreAdsRequest ==
  /\ appStep = "score"
  /\ appScoreAds' = MayPopulateProtectedAppSignalsBids
  /\ appStep' = "done" /\ UNCHANGED <<appCase, appInputs, appErrors, getBids>>

AppNext == DecodeInputs \/ RequestBids \/ CreateScoreAdsRequest

-----------------------------------------------------------------------------
(* The signals of the device are in one place of the request or in none:     *)
(* nothing of them is left where interest group bidding could see them, and  *)
(* with the feature on they arrive exactly as the device sent them.          *)
SignalsInOnePlace ==
  \A o \in DOMAIN getBids :
    LET sent == appCase.inputs[o].input.signals
        r == getBids[o]
    IN /\ ~Installed(r.input.signals) /\ ~Installed(r.forBidding.signals)
       /\ r.pas.signals = IF appCase.pasEnabled /\ Installed(sent) THEN sent ELSE {}

(* Both copies of the buyer's input describe the interest groups the device  *)
(* sent; the seconds of previous wins are a thousandth of the milliseconds   *)
(* unless those are more than an int holds.                                  *)
GroupsAsSent ==
  \A o \in DOMAIN getBids : LET sent == appCase.inputs[o].input.groups IN
    /\ getBids[o].input.groups = sent
    /\ appCase.paEnabled => \A i \in DOMAIN sent :
         \A b \in getBids[o].forBidding.groups[i].browser : \A ms \in b.prevWinsMs :
           \A k \in DOMAIN ms : ms[k].id = b.prevWins.list[k].id /\
             (b.prevWins.list[k].time * 1000 < IntHalf =>
                ms[k].time = 1000 * b.prevWins.list[k].time)

(* Only a bid whose hash was vouched for is scored as k-anonymous. *)
AppBidsVouchedFor ==
  \A b \in appScoreAds : b.kanon => b.owner \in appCase.reportWinUrls
                                    /\ <<b.owner, b.render>> \in appCase.kanonHashes
=============================================================================

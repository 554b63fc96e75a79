----------------------------- MODULE BuyerSignals -----------------------------
(***************************************************************************)
(* The bidding signals of a buyer, from the interest groups of a GetBids   *)
(* request to the request for the bidding service: the lookup at the       *)
(* buyer's key/value server by the first protocol (one URL), the second    *)
(* (a partition for each interest group) or the first and then the second, *)
(* the answer of the second brought into the form of the first, the        *)
(* priorities of the interest groups and the choice of those that bid.     *)
(* A JSON object is a function; an option is a set of at most one element. *)
(***************************************************************************)
EXTENDS Integers, Sequences, FiniteSets, SequencesExt, Functions, TLC

CONSTANTS
  BuyCases,  \* a sequence of requests and configurations
  KvStore,   \* what the key/value server holds: [keys, igs]
  KvHeaders, \* the headers of an answer by the first protocol: [version, v1Only]
  KvFaults   \* how an answer by the second protocol may be malformed; "none" is not at all

VARIABLES
  buyId,
  lookup,    \* the lookup sent last
  byos,      \* byos_output: the first protocol's answer, passed on to the second
  kvFault,   \* what was wrong with the answer by the second protocol
  kvSignals,   \* bidding_signals: [doc, version]
  groupData, \* bidding_signal_json_components_
  bidReq,    \* the request for the bidding service
  appReq,    \* the request for bids on app signals
  buyStep

buyVars == <<buyId, lookup, byos, kvFault, kvSignals, groupData, bidReq, appReq, buyStep>>

Buy == BuyCases[buyId]
Only(s) == CHOOSE x \in s : TRUE
DefaultMultiBidLimit == 1

-----------------------------------------------------------------------------
(* The lookup. *)
UseKvV2(c) ==
  \/ c.client = "browser" /\ c.v2Browser
  \/ c.client = "android" /\ ~(c.testMode /\ c.v2Empty)

(* BuildBuyerKeyValueRequest: the query parameters of the URL. *)
BuildBuyerKeyValueRequest(input) ==
  [client |-> IF input.client = "android" THEN {"android"} ELSE {},
   hostname |-> input.hostname \ {""}, experiment |-> input.experiment \ {""},
   keys |-> input.keys, names |-> input.names]
GetBuyerValuesInput(c) ==
  [client |-> c.client, hostname |-> {c.publisher}, experiment |-> c.experiment,
   keys |-> UNION {ToSet(c.groups[i].keys) : i \in DOMAIN c.groups},
   names |-> {c.groups[i].name : i \in DOMAIN c.groups}]

ValidateInterestGroups(groups) == \E i \in DOMAIN groups : groups[i].keys # <<>>

(* The id of a partition is set along with its keys: without any it stays 0. *)
Partition(groups, i) ==
  [id |-> IF groups[i].keys = <<>> THEN 0 ELSE i - 1, names |-> {groups[i].name},
   keys |-> groups[i].keys]
GetRequest(c) ==
  [hostname |-> c.publisher, client |-> c.client, experiment |-> c.experiment]
CreateV2BiddingRequest(c, byosOutput) ==
  [metadata |-> GetRequest(c),
   buyerSignals |-> IF c.propagate THEN {c.buyerSignals} ELSE {}, byosOutput |-> byosOutput,
   partitions |-> [i \in DOMAIN c.groups |-> Partition(c.groups, i)]]

-----------------------------------------------------------------------------
(* The answers (the server is external).  A stored value is a text: JSON,    *)
(* text that only looks like JSON, or other text.                            *)
Parse(text) == IF text.kind = "json" THEN [text EXCEPT !.kind = "value"] ELSE text

V1Document(ks, names) ==
  LET igs == {n \in names \cap DOMAIN KvStore.igs : KvStore.igs[n].kind = "json"}
  IN [parses |-> TRUE,
      keys |-> {[k \in ks \cap DOMAIN KvStore.keys |-> Parse(KvStore.keys[k])]},
      igs |-> {[n \in igs |-> Parse(KvStore.igs[n])]}]

(* A compression group for each partition, with an output for each argument  *)
(* of it.  The fault "changed" is no fault: the server's values change       *)
(* between two partitions.                                                   *)
Wrap(text) == [object |-> TRUE, value |-> {text}]
V2Response(partitions, fault) ==
  LET text(i, k) == IF fault = "changed" /\ i > 1 THEN [KvStore.keys[k] EXCEPT !.v = @ + 100]
                    ELSE KvStore.keys[k]
      out(tag, kv) == [tags |-> fault # "tagsNoArray", tag |-> tag, object |-> fault # "noKeyValues", kv |-> kv]
      wrapped(i, k) == CASE fault = "noWrapper" /\ i = 1 -> [object |-> FALSE, value |-> {}]
                         [] fault = "noValue" /\ i = 1 -> [object |-> TRUE, value |-> {}]
                         [] OTHER -> Wrap(text(i, k))
      outs(i) == <<out("interestGroupNames",
                       [n \in partitions[i].names \cap DOMAIN KvStore.igs |-> Wrap(KvStore.igs[n])])>>
                 \o [j \in DOMAIN partitions[i].keys |->
                       out("keys", [k \in {partitions[i].keys[j]} \cap DOMAIN KvStore.keys |-> wrapped(i, k)])]
  IN [i \in DOMAIN partitions |->
        [parses |-> ~(fault = "notJson" /\ i = 1), array |-> ~(fault = "notArray" /\ i = 1),
         outputs |-> <<[object |-> TRUE, array |-> ~(fault = "noKeyGroupOutputs" /\ i = 1),
                        outs |-> outs(i)]>>]]

(* What the walk through the answer meets first for this tag. *)
WalkStatus(tag, groups) ==
  LET ofOut(o) == <<IF ~o.tags THEN "undefined"
                    ELSE IF o.tag = tag /\ ~o.object THEN "failed" ELSE "ok">>
      ofOutput(p) == IF ~p.object \/ ~p.array THEN <<"failed">>
                     ELSE FlattenSeq([j \in DOMAIN p.outs |-> ofOut(p.outs[j])])
      ofGroup(g) == IF ~g.array THEN <<"failed">>
                    ELSE FlattenSeq([j \in DOMAIN g.outputs |-> ofOutput(g.outputs[j])])
      met == SelectSeq(FlattenSeq([i \in DOMAIN groups |-> ofGroup(groups[i])]), LAMBDA x : x # "ok")
  IN IF met = <<>> THEN "ok" ELSE Head(met)

MaybeParseJsonString(text) == Parse(text)

(* The values of the outputs with this tag; the first value of a key stays.  *)
(* A wrapper that is none is passed over, and so is an interest group's data *)
(* that is no JSON.                                                          *)
GetIgSignalsForKeyTag(tag, groups) ==
  LET outs == FlattenSeq([i \in DOMAIN groups |->
                FlattenSeq([j \in DOMAIN groups[i].outputs |->
                  SelectSeq(groups[i].outputs[j].outs, LAMBDA o : o.tag = tag)])])
      gives(o, k) == /\ k \in DOMAIN o.kv /\ o.kv[k].object /\ o.kv[k].value # {}
                     /\ tag = "interestGroupNames" => Only(o.kv[k].value).kind = "json"
      ks == {k \in UNION {DOMAIN outs[i].kv : i \in DOMAIN outs} : \E i \in DOMAIN outs : gives(outs[i], k)}
      first(k) == SelectSeq(outs, LAMBDA o : gives(o, k))[1].kv[k]
  IN [k \in ks |-> IF tag = "keys" THEN MaybeParseJsonString(Only(first(k).value))
                   ELSE Parse(Only(first(k).value))]

NonEmpty(o) == IF DOMAIN o = {} THEN {} ELSE {o}
EmptyDocument == [parses |-> TRUE, keys |-> {}, igs |-> {}]

(* An object with no members is left out, and an answer of none is "". *)
ConvertKvV2ResponseToV1String(groups) ==
  LET st == IF \E i \in DOMAIN groups : ~groups[i].parses THEN "failed"
            ELSE IF WalkStatus("keys", groups) # "ok" THEN WalkStatus("keys", groups)
            ELSE WalkStatus("interestGroupNames", groups)
  IN [st |-> st,
      doc |-> IF st # "ok" THEN EmptyDocument
              ELSE [parses |-> TRUE, keys |-> NonEmpty(GetIgSignalsForKeyTag("keys", groups)),
                    igs |-> NonEmpty(GetIgSignalsForKeyTag("interestGroupNames", groups))]]

-----------------------------------------------------------------------------
(* Priorities. *)
NumbersOf(m) == [k \in {x \in DOMAIN m : m[x].num} |-> m[k].n]
SanitizePriorityVector(m) == NumbersOf(m)

(* The seller's signals for this buyer.  {}: malformed overrides. *)
GetBuyerPrioritySignals(seller, overrides) ==
  IF overrides = {} THEN {seller}
  ELSE IF ~Only(overrides).object THEN {}
  ELSE {NumbersOf(Only(overrides).m) @@ seller}

(* In minutes; the ages tried are whole days, so that nothing is rounded. *)
DeviceSignalNames == {"one", "minutes", "minutesMax60", "hoursMax24", "daysMax30"}
Least(a, b) == IF a < b THEN a ELSE b
GetRecency(g) == IF g.ageMs # {} THEN Only(g.ageMs) ELSE g.age
DeviceSignals(m) ==
  [one |-> 1, minutes |-> m, minutesMax60 |-> Least(m, 60), hoursMax24 |-> Least(m \div 60, 24),
   daysMax30 |-> Least(m \div 1440, 30)]

(* Mutant: a signal of an earlier interest group is not replaced. *)
PopulateDeviceSignalOnce(s, g) == s @@ DeviceSignals(GetRecency(g))
PopulateDeviceSignalFields(s, g) == DeviceSignals(GetRecency(g)) @@ s

CalculateDotProduct(s, v) == SumFunction([k \in DOMAIN s \cap DOMAIN v |-> s[k] * v[k]])

(* The signals are changed from one interest group to the next; of two       *)
(* groups with one name the later priority stays.                            *)
CalculateInterestGroupPriorities(s, groups, vectors) ==
  FoldLeft(LAMBDA acc, g :
             LET now == PopulateDeviceSignalFields(acc.s, g)
             IN [s |-> now,
                 p |-> (g.name :> IF g.name \in DOMAIN vectors
                                  THEN CalculateDotProduct(now, vectors[g.name]) ELSE 0) @@ acc.p],
           [s |-> s, p |-> <<>>], groups).p

-----------------------------------------------------------------------------
(* The answer is read.  [st, keys, updates, vectors] *)
NoGroupData == [st |-> "ok", keys |-> {}, updates |-> <<>>, vectors |-> <<>>]
Unparsed(s) == [NoGroupData EXCEPT !.st = s]

ParsePerInterestGroupData(doc, groups) ==
  LET data == IF doc.igs = {} THEN <<>> ELSE Only(doc.igs)
      named == SelectSeq([i \in DOMAIN groups |-> i],
                         LAMBDA i : groups[i].name # "" /\ groups[i].name \in DOMAIN data)
      of(i) == data[groups[i].name]
      updated == SelectSeq(named, LAMBDA i : of(i).update # {} /\ Only(of(i).update) >= 0)
      withVector == {i \in ToSet(named) : of(i).vector # {}}
  IN IF \E i \in ToSet(named) : ~of(i).object THEN Unparsed("undefined")
     ELSE [st |-> "ok", keys |-> {},
           updates |-> [k \in DOMAIN updated |->
                          [index |-> updated[k], olderThan |-> Only(of(updated[k]).update)]],
           vectors |-> [n \in {groups[i].name : i \in withVector} |->
                          SanitizePriorityVector(Only(data[n].vector))]]

ParseTrustedBiddingSignals(doc, groups) ==
  LET perIg == ParsePerInterestGroupData(Only(doc), groups)
  IN IF doc = {} THEN Unparsed("empty")
     ELSE IF ~Only(doc).parses THEN Unparsed("failed")
     ELSE IF perIg.st = "undefined" THEN perIg
     ELSE IF Only(doc).keys = {} THEN Unparsed("empty")
     ELSE [perIg EXCEPT !.keys = Only(doc).keys]

(* The values of an interest group's own keys; an absent key is left out. *)
GetSignalsForIG(ks, values) == [k \in ToSet(ks) \cap DOMAIN values |-> values[k]]

CopyIGFromDeviceToIGForBidding(g) ==
  [name |-> g.name, device |-> IF g.browser THEN "browser" ELSE IF g.android THEN "android" ELSE ""]

Skipped(g, required) == g.name = "" \/ (required /\ g.keys = <<>>)

MultiBidLimit(c) == IF c.kanon /\ c.limit > 0 THEN c.limit ELSE DefaultMultiBidLimit
Terms(c) ==
  [buyerSignals |-> c.buyerSignals, publisher |-> c.publisher, debug |-> c.debug,
   limit |-> MultiBidLimit(c), enforce |-> c.kanon /\ c.enforce]

PrepareGenerateBidsRequest(c, data, version) ==
  LET required == c.mode = "required"
      seller == Only(GetBuyerPrioritySignals(c.sellerSignals, c.overrides))
      priorities == IF c.priority THEN CalculateInterestGroupPriorities(seller, c.groups, data.vectors)
                    ELSE <<>>
      own(g) == IF data.keys = {} THEN <<>> ELSE GetSignalsForIG(g.keys, Only(data.keys))
      bids(g) == /\ ~Skipped(g, required)
                 /\ c.priority => priorities[g.name] >= 0
                 /\ required => DOMAIN own(g) # {}
      chosen == SelectSeq(c.groups, bids)
  IN [terms |-> Terms(c), version |-> version,
      groups |-> [i \in DOMAIN chosen |->
                    [group |-> CopyIGFromDeviceToIGForBidding(chosen[i]),
                     keys |-> DOMAIN own(chosen[i]), trusted |-> own(chosen[i])]]]

CreateGenerateProtectedAppSignalsBidsRawRequest(c) ==
  [terms |-> Terms(c), app |-> c.app,
   contextual |-> IF c.contextual # {} THEN c.contextual ELSE {}]

-----------------------------------------------------------------------------
NoRequest == [terms |-> <<>>, version |-> 0, groups |-> <<>>]
NoSignals == [doc |-> {}, version |-> 0]

BuyInit ==
  /\ buyId \in DOMAIN BuyCases
  /\ lookup = {} /\ byos = {} /\ kvFault = "none" /\ kvSignals = NoSignals
  /\ groupData = NoGroupData /\ bidReq = {} /\ buyStep = "start"
  /\ appReq = IF Buy.app = {} THEN {} ELSE {CreateGenerateProtectedAppSignalsBidsRawRequest(Buy)}

SendV2(byosOutput) ==
  IF ValidateInterestGroups(Buy.groups)
  THEN /\ lookup' = {CreateV2BiddingRequest(Buy, byosOutput)}
       /\ buyStep' = "lookingUpV2"
  ELSE buyStep' = "noLookup" /\ UNCHANGED lookup

MayGetProtectedAudienceBids ==
  /\ buyStep = "start"
  /\ IF Buy.mode = "notFetched" THEN buyStep' = "answered" /\ UNCHANGED lookup
     ELSE IF UseKvV2(Buy) THEN SendV2({})
     ELSE /\ lookup' = {BuildBuyerKeyValueRequest(GetBuyerValuesInput(Buy))}
          /\ buyStep' = "lookingUpV1"
  /\ UNCHANGED <<buyId, byos, kvFault, kvSignals, groupData, bidReq, appReq>>

(* The answer by the first protocol; the header that says that it is all is  *)
(* looked at for browsers only.  A version too wide for Android is dropped.  *)
IsHybridV1Return(h) == h.v1Only
DataVersion(h) ==
  IF h.version = {} THEN 0
  ELSE IF Buy.client = "android" /\ Only(h.version) > 255 THEN 0 ELSE Only(h.version)

V1Answers ==
  /\ buyStep = "lookingUpV1"
  /\ \E h \in KvHeaders : \E l \in lookup :
       LET hybrid == Buy.hybrid /\ Buy.client = "browser"
           doc == {V1Document(l.keys, l.names)}
       IN IF hybrid /\ ~IsHybridV1Return(h)
          THEN byos' = doc /\ SendV2({"byos"}) /\ UNCHANGED kvSignals
          ELSE /\ kvSignals' = [doc |-> doc, version |-> DataVersion(h)]
               /\ buyStep' = "answered" /\ UNCHANGED <<byos, lookup>>
  /\ UNCHANGED <<buyId, kvFault, groupData, bidReq, appReq>>

V2Answers ==
  /\ buyStep = "lookingUpV2"
  /\ \E fault \in KvFaults : \E l \in lookup :
       \E c \in {ConvertKvV2ResponseToV1String(V2Response(l.partitions, fault))} :
         /\ kvFault' = fault
         /\ kvSignals' = [doc |-> IF c.doc = EmptyDocument THEN {} ELSE {c.doc}, version |-> 0]
         /\ buyStep' = IF c.st = "ok" THEN "answered" ELSE c.st
  /\ UNCHANGED <<buyId, lookup, byos, groupData, bidReq, appReq>>

LookupFails ==
  /\ buyStep \in {"lookingUpV1", "lookingUpV2"}
  /\ buyStep' = "failed"
  /\ UNCHANGED <<buyId, lookup, byos, kvFault, kvSignals, groupData, bidReq, appReq>>

(* Malformed overrides end the process of the seller front end before any    *)
(* of this.                                                                  *)
PrepareBid ==
  /\ buyStep = "answered" /\ GetBuyerPrioritySignals(Buy.sellerSignals, Buy.overrides) # {}
  /\ \E d \in {ParseTrustedBiddingSignals(kvSignals.doc, Buy.groups)} :
       IF d.st = "undefined" THEN buyStep' = "undefined" /\ UNCHANGED <<groupData, bidReq>>
       ELSE IF d.st # "ok" /\ Buy.mode = "required"
       THEN buyStep' = "noBids" /\ UNCHANGED <<groupData, bidReq>>
       ELSE /\ groupData' = d
            /\ \E r \in {PrepareGenerateBidsRequest(Buy, d, kvSignals.version)} :
                 IF r.groups = <<>> THEN buyStep' = "noBids" /\ UNCHANGED bidReq
                 ELSE buyStep' = "bidding" /\ bidReq' = {r}
  /\ UNCHANGED <<buyId, lookup, byos, kvFault, kvSignals, appReq>>

BuyNext == MayGetProtectedAudienceBids \/ V1Answers \/ V2Answers \/ LookupFails \/ PrepareBid

-----------------------------------------------------------------------------
(* An interest group that bids is given what the server answered for its own *)
(* keys, by whichever protocol, with no key of another group and none left   *)
(* out; a key of several groups has one value for all of them, and required  *)
(* signals are there for every group that bids.                              *)
SignalsOfOwnKeys ==
  \A r \in bidReq :
    LET g == r.groups
        held(j) == ToSet(Buy.groups[j].keys) \cap DOMAIN KvStore.keys
    IN /\ \A i \in DOMAIN g :
            /\ g[i].keys = DOMAIN g[i].trusted
            /\ \E j \in DOMAIN Buy.groups :
                 /\ Buy.groups[j].name = g[i].group.name
                 /\ g[i].keys \subseteq held(j)
                 /\ groupData.keys # {} /\ kvFault \notin {"noWrapper", "noValue"} => g[i].keys = held(j)
            /\ Buy.mode = "required" => g[i].keys # {}
       /\ \A i, j \in DOMAIN g : \A k \in g[i].keys \cap g[j].keys : g[i].trusted[k] = g[j].trusted[k]

(* A well-formed answer of the second protocol reads like that of the first: *)
(* when it has values for keys, the same interest groups are updated, have   *)
(* the same priorities and bid with the same signals.                        *)
V2AnswersLikeV1 ==
  buyStep = "bidding" /\ Buy.mode # "notFetched" /\ kvFault = "none" /\ groupData.keys # {} =>
    LET input == GetBuyerValuesInput(Buy)
        d == ParseTrustedBiddingSignals({V1Document(input.keys, input.names)}, Buy.groups)
    IN /\ groupData.updates = d.updates /\ groupData.vectors = d.vectors
       /\ Only(bidReq).groups = PrepareGenerateBidsRequest(Buy, d, 0).groups

(* An interest group is left out for its priority only when its own vector,  *)
(* the seller's signals for this buyer and its own age say so: neither the   *)
(* group before it nor signals of the device's names from the seller count.  *)
(* Two groups of one name share the later one's priority.                    *)
PriorityIsItsOwn ==
  buyStep \in {"bidding", "noBids"} /\ Buy.priority /\ groupData.st = "ok" /\ groupData.keys # {} =>
    \A i \in DOMAIN Buy.groups :
      LET g == Buy.groups[i]
          alone == \A j \in DOMAIN Buy.groups : Buy.groups[j].name = g.name => j = i
          base == Restrict(Only(GetBuyerPrioritySignals(Buy.sellerSignals, Buy.overrides)),
                           DOMAIN Only(GetBuyerPrioritySignals(Buy.sellerSignals, Buy.overrides))
                             \ DeviceSignalNames)
          vector == IF g.name \in DOMAIN groupData.vectors THEN groupData.vectors[g.name] ELSE <<>>
          priority == CalculateDotProduct(DeviceSignals(GetRecency(g)) @@ base, vector)
          bid == \E r \in bidReq : \E k \in DOMAIN r.groups : r.groups[k].group.name = g.name
      IN alone /\ ~Skipped(g, Buy.mode = "required")
           /\ (Buy.mode = "required" =>
                 DOMAIN GetSignalsForIG(g.keys, Only(groupData.keys)) # {})
         => (bid <=> priority >= 0)

(* What cannot be read is read only when an interest group's data is no      *)
(* object or a tag list no array; and no lookup is made only for interest    *)
(* groups that have no key.                                                  *)
OddAnswersAreNamed ==
  /\ buyStep = "undefined" =>
       \/ kvFault = "tagsNoArray"
       \/ \E i \in DOMAIN Buy.groups :
            /\ Buy.groups[i].name \in DOMAIN KvStore.igs
            /\ ~KvStore.igs[Buy.groups[i].name].object
  /\ buyStep = "noLookup" => \A i \in DOMAIN Buy.groups : Buy.groups[i].keys = <<>>
=============================================================================
